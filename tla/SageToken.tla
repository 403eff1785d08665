------------------------------ MODULE SageToken ------------------------------
(***************************************************************************)
(* The OAuth tokens of a Sage 200 client (apps/sage200/api_client.py): one *)
(* row in the database, from which every Sage200APIClient makes its own    *)
(* copy, and a refresh token that Sage replaces each time it is used.  The *)
(* Beat task refresh_access_token and the IRN writers of the pipelines     *)
(* refresh it without knowing of each other.  A worker is idle, has loaded *)
(* a client object, or has asked Sage and not saved its answer yet.        *)
(*                                                                         *)
(* A definition directly followed by the one whose name it extends is a    *)
(* faulty variant, part of no specification.                               *)
(***************************************************************************)
EXTENDS Naturals, FiniteSets

CONSTANTS
  Writers,      \* workers that may write an IRN back
  Beat,         \* the worker that executes refresh_access_token
  MaxRefreshes  \* bound: refresh tokens issued

ASSUME TokenAssumption == Beat \notin Writers /\ MaxRefreshes \in Nat

VARIABLES
  stored,   \* the refresh token in ClientCompany
  fresh,    \* the access tokens that are valid for another 30 minutes
  current,  \* the refresh token that Sage accepts
  agent,    \* the client objects in memory
  broken    \* history: Sage issued a token that nobody could save

tokenVars == <<stored, fresh, current, agent, broken>>

\* Refresh and access tokens come in pairs, numbered alike.  mine is the pair
\* the object uses, loaded the one its company was read with, new the one that
\* is not saved yet; left counts the requests it still has to authenticate: a
\* write-back searches for the invoice, then patches it.
Agents == Writers \cup {Beat}
Agent == [pc : {"idle", "loaded", "asked"}, mine : Nat, loaded : Nat, new : Nat, left : 0 .. 2]
NoAgent == [pc |-> "idle", mine |-> 0, loaded |-> 0, new |-> 0, left |-> 0]

TokenTypeOK ==
  /\ stored \in Nat /\ current \in Nat
  /\ fresh \subseteq Nat
  /\ agent \in [Agents -> Agent]
  /\ broken \in BOOLEAN

TokenInit ==
  /\ stored = 0 /\ current = 0 /\ fresh = {0}
  /\ agent = [w \in Agents |-> NoAgent]
  /\ broken = FALSE

-----------------------------------------------------------------------------
Set(w, r) == agent' = [agent EXCEPT ![w] = r]

\* Half an hour is left of the access token, or less.
Expire(n) ==
  /\ n \in fresh
  /\ fresh' = fresh \ {n}
  /\ UNCHANGED <<stored, current, agent, broken>>

\* Sage200APIClient.__init__ with the company as it is in the database.
Load(w) ==
  /\ agent[w].pc = "idle"
  /\ Set(w, [pc |-> "loaded", mine |-> stored, loaded |-> stored, new |-> 0,
             left |-> IF w = Beat THEN 1 ELSE 2])
  /\ UNCHANGED <<stored, fresh, current, broken>>

\* The task refreshes the token whatever it is, a writer when it has to.
MustRefresh(w) ==
  agent[w].pc = "loaded" /\ agent[w].left > 0 /\ (w = Beat \/ agent[w].mine \notin fresh)

\* _get_valid_token finds the token valid, for one more request.
UseToken(w) ==
  /\ agent[w].pc = "loaded" /\ agent[w].left > 0 /\ ~MustRefresh(w)
  /\ Set(w, [agent[w] EXCEPT !.left = @ - 1])
  /\ UNCHANGED <<stored, fresh, current, broken>>

\* refresh_token: Sage takes the refresh token the company was read with, and
\* answers with the next pair; the object does not read its company again.
Refresh(w) ==
  /\ MustRefresh(w) /\ current < MaxRefreshes
  /\ agent[w].loaded = current
  /\ current' = current + 1
  /\ fresh' = fresh \cup {current + 1}
  /\ Set(w, [agent[w] EXCEPT !.pc = "asked", !.new = current + 1])
  /\ UNCHANGED <<stored, broken>>

\* Sage refuses an old refresh token, or cannot be reached.
RefreshRefused(w) ==
  /\ MustRefresh(w)
  /\ Set(w, NoAgent)
  /\ UNCHANGED <<stored, fresh, current, broken>>

SaveAccessOnly(w) ==
  /\ agent[w].pc = "asked"
  /\ Set(w, [agent[w] EXCEPT !.pc = "loaded", !.mine = agent[w].new, !.left = @ - 1])
  /\ UNCHANGED <<stored, fresh, current, broken>>

\* Both tokens and the expiry are saved, and the request goes out.
SaveTokens(w) ==
  /\ agent[w].pc = "asked"
  /\ stored' = agent[w].new
  /\ Set(w, [agent[w] EXCEPT !.pc = "loaded", !.mine = agent[w].new, !.left = @ - 1])
  /\ UNCHANGED <<fresh, current, broken>>

\* The work is done, or a request fails.
Finish(w) ==
  /\ agent[w].pc = "loaded" /\ agent[w].left < 2 /\ (w = Beat => agent[w].left = 0)
  /\ Set(w, NoAgent)
  /\ UNCHANGED <<stored, fresh, current, broken>>

\* The answer never arrives, or the process dies before the save.
LoseTokens(w) ==
  /\ agent[w].pc = "asked"
  /\ Set(w, NoAgent)
  /\ broken' = TRUE
  /\ UNCHANGED <<stored, fresh, current>>

TokenNext ==
  \/ \E n \in fresh : Expire(n)
  \/ \E w \in Agents :
       \/ Load(w) \/ UseToken(w) \/ Refresh(w) \/ RefreshRefused(w)
       \/ SaveTokens(w) \/ Finish(w) \/ LoseTokens(w)

TokenSpec == TokenInit /\ [][TokenNext]_tokenVars

-----------------------------------------------------------------------------
\* However the refreshes of several workers fall together, Sage accepts the
\* stored refresh token, or will as soon as a save in progress is done: none
\* of them saves an older one over a newer.  Only a lost answer is fatal.
StoredTokenWorks ==
  stored = current \/ broken \/ \E w \in Agents : agent[w].pc = "asked" /\ agent[w].new = current
=============================================================================
