-------------------------- MODULE InterfaceProofs --------------------------
(***************************************************************************)
(* Proofs about what happens beside the submissions: modules SageToken,    *)
(* for any number of workers and refreshes, and ProviderSync, for any      *)
(* finite set of rows, any number of syncs and any size of a page.         *)
(***************************************************************************)
EXTENDS SageToken, ProviderSync, FiniteSetTheorems, TLAPS

-----------------------------------------------------------------------------
(***************************************************************************)
(* The tokens.                                                             *)
(***************************************************************************)

\* What a worker has to authenticate: at least the request it refreshes for.
Waiting == \A w \in Agents : agent[w].pc = "asked" => agent[w].left > 0

TypeInv == TokenTypeOK /\ Waiting

LEMMA NoAgentType == NoAgent \in Agent
BY DEF NoAgent, Agent

\* A step that gives w another record of its kind keeps the types.
LEMMA SetType ==
  ASSUME TypeInv, NEW w \in Agents, NEW r \in Agent, Set(w, r),
         r.pc = "asked" => r.left > 0
  PROVE  agent' \in [Agents -> Agent] /\ Waiting'
BY DEF TypeInv, TokenTypeOK, Waiting, Set

\* Every reachable state is well-typed.
LEMMA TypeInvariance == TokenSpec => []TypeInv
<1>1. TokenInit => TypeInv
  <2>1. NoAgent.pc # "asked"
    BY DEF NoAgent
  <2>2. TokenInit => Waiting
    BY <2>1 DEF TokenInit, Waiting
  <2>3. TokenInit => TokenTypeOK
    <3>1. TokenInit => agent \in [Agents -> Agent]
      BY NoAgentType DEF TokenInit
    <3>2. TokenInit => stored \in Nat /\ current \in Nat /\ fresh \subseteq Nat
      BY SMT DEF TokenInit
    <3>3. TokenInit => broken \in BOOLEAN
      BY DEF TokenInit
    <3> QED
      BY <3>1, <3>2, <3>3 DEF TokenTypeOK
  <2> QED
    BY <2>2, <2>3 DEF TypeInv
<1>2. TypeInv /\ [TokenNext]_tokenVars => TypeInv'
  <2> SUFFICES ASSUME TypeInv, [TokenNext]_tokenVars
               PROVE  TypeInv'
    OBVIOUS
  <2>0. CASE UNCHANGED tokenVars
    BY <2>0 DEF tokenVars, TypeInv, TokenTypeOK, Waiting
  <2>1. ASSUME NEW n \in fresh, Expire(n)
        PROVE  TypeInv'
    BY <2>1 DEF Expire, TypeInv, TokenTypeOK, Waiting
  <2>2. ASSUME NEW w \in Agents, Load(w)
        PROVE  TypeInv'
    <3> DEFINE r == [pc |-> "loaded", mine |-> stored, loaded |-> stored, new |-> 0,
                     left |-> IF w = Beat THEN 1 ELSE 2]
    <3>1. r \in Agent
      BY DEF TypeInv, TokenTypeOK, Agent
    <3> QED
      BY <2>2, <3>1, SetType DEF Load, TypeInv, TokenTypeOK
  <2>3. ASSUME NEW w \in Agents, UseToken(w)
        PROVE  TypeInv'
    <3> DEFINE r == [agent[w] EXCEPT !.left = @ - 1]
    <3>1. r \in Agent /\ r.pc = "loaded"
      BY <2>3 DEF UseToken, TypeInv, TokenTypeOK, Agent
    <3> QED
      BY <2>3, <3>1, SetType DEF UseToken, TypeInv, TokenTypeOK
  <2>4. ASSUME NEW w \in Agents, Refresh(w)
        PROVE  TypeInv'
    <3> DEFINE r == [agent[w] EXCEPT !.pc = "asked", !.new = current + 1]
    <3>1. agent[w] \in Agent /\ current + 1 \in Nat
      BY DEF TypeInv, TokenTypeOK
    <3>2. agent[w].left > 0
      BY <2>4 DEF Refresh, MustRefresh
    <3>3. r \in Agent /\ r.left > 0
      BY <3>1, <3>2 DEF Agent
    <3>4. agent' \in [Agents -> Agent] /\ Waiting'
      BY <2>4, <3>3, SetType DEF Refresh
    <3> QED
      BY <2>4, <3>1, <3>4 DEF Refresh, TypeInv, TokenTypeOK
  <2>5. ASSUME NEW w \in Agents, RefreshRefused(w) \/ Finish(w) \/ LoseTokens(w)
        PROVE  TypeInv'
    <3>1. NoAgent.pc # "asked"
      BY DEF NoAgent
    <3> QED
      BY <2>5, <3>1, NoAgentType, SetType
         DEF RefreshRefused, Finish, LoseTokens, TypeInv, TokenTypeOK
  <2>6. ASSUME NEW w \in Agents, SaveTokens(w)
        PROVE  TypeInv'
    <3> DEFINE r == [agent[w] EXCEPT !.pc = "loaded", !.mine = agent[w].new, !.left = @ - 1]
    <3>1. agent[w] \in Agent /\ agent[w].left > 0
      BY <2>6 DEF SaveTokens, TypeInv, TokenTypeOK, Waiting
    <3>2. agent[w].new \in Nat /\ agent[w].left - 1 \in 0 .. 2
      BY <3>1 DEF Agent
    <3>3. r \in Agent /\ r.pc = "loaded"
      BY <3>1, <3>2 DEF Agent
    <3> QED
      BY <2>6, <3>2, <3>3, SetType DEF SaveTokens, TypeInv, TokenTypeOK
  <2> QED
    BY <2>0, <2>1, <2>2, <2>3, <2>4, <2>5, <2>6 DEF TokenNext
<1> QED
  BY <1>1, <1>2, PTL DEF TokenSpec

-----------------------------------------------------------------------------
\* No object was made from a newer refresh token than the stored one, and the
\* only answer that is not saved yet is the newest pair, and the only one.
\* Hence whoever may still refresh does so with the stored token.
TokenInv ==
  /\ stored <= current
  /\ \A w \in Agents : agent[w].loaded <= stored
  /\ \A w \in Agents : agent[w].pc = "asked" => agent[w].new = current /\ stored < current
  /\ \A v, w \in Agents : agent[v].pc = "asked" /\ agent[w].pc = "asked" => v = w
  /\ StoredTokenWorks

\* A step that ends the work of w, or goes on with it, with nothing left to save.
LEMMA Rest ==
  ASSUME TypeInv, TokenInv, NEW w \in Agents, agent[w].pc # "asked", NEW r \in Agent,
         Set(w, r), r.pc # "asked", r.loaded <= stored,
         UNCHANGED <<stored, current, broken>>
  PROVE  TokenInv'
<1>1. /\ agent'[w] = r
      /\ \A v \in Agents : v # w => agent'[v] = agent[v]
  BY DEF Set, TypeInv, TokenTypeOK
<1>2. StoredTokenWorks'
  BY <1>1 DEF TokenInv, StoredTokenWorks
<1> QED
  BY <1>1, <1>2 DEF TokenInv

\* Sage accepts the stored refresh token, or will once a save in progress is
\* done, unless the answer to a refresh was lost: whatever the number of
\* workers that refresh it (Sage200APIClient.refresh_token).
THEOREM TokenKept == TokenSpec => []StoredTokenWorks
<1>1. TokenInit => TokenInv
  BY DEF TokenInit, TokenInv, StoredTokenWorks, NoAgent
<1>2. TypeInv /\ TokenInv /\ [TokenNext]_tokenVars => TokenInv'
  <2> SUFFICES ASSUME TypeInv, TokenInv, [TokenNext]_tokenVars
               PROVE  TokenInv'
    OBVIOUS
  <2>0. CASE UNCHANGED tokenVars
    BY <2>0 DEF tokenVars, TokenInv, StoredTokenWorks
  <2>1. ASSUME NEW n \in fresh, Expire(n)
        PROVE  TokenInv'
    BY <2>1 DEF Expire, TokenInv, StoredTokenWorks
  <2>2. ASSUME NEW w \in Agents, Load(w)
        PROVE  TokenInv'
    <3> DEFINE r == [pc |-> "loaded", mine |-> stored, loaded |-> stored, new |-> 0,
                     left |-> IF w = Beat THEN 1 ELSE 2]
    <3>1. r \in Agent /\ r.loaded <= stored
      BY DEF TypeInv, TokenTypeOK, Agent
    <3> QED
      BY <2>2, <3>1, Rest DEF Load
  <2>3. ASSUME NEW w \in Agents, UseToken(w)
        PROVE  TokenInv'
    <3> DEFINE r == [agent[w] EXCEPT !.left = @ - 1]
    <3>1. r \in Agent /\ r.pc = "loaded" /\ r.loaded <= stored
      BY <2>3 DEF UseToken, TypeInv, TokenTypeOK, Agent, TokenInv
    <3> QED
      BY <2>3, <3>1, Rest DEF UseToken
  <2>4. ASSUME NEW w \in Agents, Refresh(w)
        PROVE  TokenInv'
    <3>1. stored = current
      BY <2>4 DEF Refresh, TokenInv, TypeInv, TokenTypeOK, Agent
    <3>2. \A v \in Agents : agent[v].pc # "asked"
      BY <3>1 DEF TokenInv, TypeInv, TokenTypeOK
    <3>3. /\ current' = current + 1 /\ stored' = stored
          /\ agent'[w].pc = "asked" /\ agent'[w].new = current + 1
          /\ agent'[w].loaded = agent[w].loaded
          /\ \A v \in Agents : v # w => agent'[v] = agent[v]
      BY <2>4 DEF Refresh, Set, TypeInv, TokenTypeOK, Agent
    <3>4. \A v \in Agents : agent'[v].pc = "asked" => v = w
      BY <3>2, <3>3
    <3>5. stored' < current'
      BY <3>1, <3>3 DEF TypeInv, TokenTypeOK
    <3>6. \A v \in Agents : agent'[v].loaded <= stored'
      BY <3>3 DEF TokenInv
    <3>7. StoredTokenWorks'
      BY <3>3 DEF StoredTokenWorks
    <3> QED
      BY <3>3, <3>4, <3>5, <3>6, <3>7 DEF TokenInv, TypeInv, TokenTypeOK
  <2>5. ASSUME NEW w \in Agents, RefreshRefused(w) \/ Finish(w)
        PROVE  TokenInv'
    <3>1. NoAgent.pc # "asked" /\ NoAgent.loaded <= stored
      BY DEF NoAgent, TypeInv, TokenTypeOK
    <3> QED
      BY <2>5, <3>1, NoAgentType, Rest DEF RefreshRefused, Finish, MustRefresh
  <2>6. ASSUME NEW w \in Agents, SaveTokens(w)
        PROVE  TokenInv'
    <3>1. /\ stored' = current /\ current' = current
          /\ agent'[w].pc = "loaded" /\ agent'[w].loaded = agent[w].loaded
          /\ \A v \in Agents : v # w => agent'[v] = agent[v]
      BY <2>6 DEF SaveTokens, Set, TypeInv, TokenTypeOK, Agent, TokenInv
    <3>2. \A v \in Agents : agent'[v].pc # "asked"
      BY <2>6, <3>1 DEF SaveTokens, TokenInv
    <3>3. \A v \in Agents : agent'[v].loaded = agent[v].loaded /\ agent[v].loaded \in Nat
      BY <3>1 DEF TypeInv, TokenTypeOK, Agent
    <3>4. \A v \in Agents : agent'[v].loaded <= stored'
      BY <3>1, <3>3 DEF TokenInv, TypeInv, TokenTypeOK
    <3>5. StoredTokenWorks'
      BY <3>1 DEF StoredTokenWorks
    <3> QED
      BY <3>1, <3>2, <3>4, <3>5 DEF TokenInv, TypeInv, TokenTypeOK
  <2>7. ASSUME NEW w \in Agents, LoseTokens(w)
        PROVE  TokenInv'
    <3>1. /\ UNCHANGED <<stored, current>> /\ broken'
          /\ agent'[w] = NoAgent
          /\ \A v \in Agents : v # w => agent'[v] = agent[v]
      BY <2>7 DEF LoseTokens, Set, TypeInv, TokenTypeOK
    <3>2. StoredTokenWorks'
      BY <3>1 DEF StoredTokenWorks
    <3>3. \A v \in Agents : agent'[v].loaded <= stored'
      BY <3>1 DEF TokenInv, NoAgent, TypeInv, TokenTypeOK
    <3> QED
      BY <3>1, <3>2, <3>3 DEF TokenInv, NoAgent
  <2> QED
    BY <2>0, <2>1, <2>2, <2>3, <2>4, <2>5, <2>6, <2>7 DEF TokenNext
<1>3. TokenInv => StoredTokenWorks
  BY DEF TokenInv
<1> QED
  BY <1>1, <1>2, <1>3, TypeInvariance, PTL DEF TokenSpec
-----------------------------------------------------------------------------
(***************************************************************************)
(* The status sync.  A sync works on what it read when it started, so the  *)
(* invariant says how that may differ from what the rows hold by now.      *)
(***************************************************************************)
Sync ==
  [on : BOOLEAN, todo : Seq(Rows), id : [Rows -> Nat], answer : Stages \cup {"none"}]

SyncTypeOK ==
  /\ app \in [Rows -> Seq(Stages)]
  /\ row \in [Rows -> [id : Nat, status : Stages \cup {"UNKNOWN"}]]
  /\ sync \in [Syncs -> Sync]

\* A row has the newest of the ids that the APP gave its invoice.
NewestId == \A r \in Rows : Len(app[r]) = row[r].id

\* The id that a sync read is the row's, or was.
Reads(s) ==
  \A i \in DOMAIN sync[s].todo :
    LET r == sync[s].todo[i] IN
    /\ sync[s].id[r] \in 1 .. row[r].id
    /\ r \notin overtaken => sync[s].id[r] = row[r].id

\* A final answer that was not saved yet is still the APP's.
Answers(s) ==
  sync[s].answer # "none" =>
    /\ sync[s].todo # <<>>
    /\ sync[s].answer \in Terminal =>
         LET r == Head(sync[s].todo) IN app[r][sync[s].id[r]] = sync[s].answer

SyncInv ==
  /\ SyncTypeOK /\ NewestId /\ TerminalIsTrue
  /\ \A s \in Syncs : Reads(s) /\ Answers(s)

\* What a sync that is under way knows about its first row.
LEMMA FirstRow ==
  ASSUME SyncInv, NEW s \in Syncs, sync[s].todo # <<>>
  PROVE  LET r == Head(sync[s].todo) IN
         /\ r \in Rows
         /\ sync[s].id[r] \in 1 .. Len(app[r])
         /\ r \notin overtaken => sync[s].id[r] = row[r].id
<1>1. sync[s].todo \in Seq(Rows) /\ 1 \in DOMAIN sync[s].todo
  BY DEF SyncInv, SyncTypeOK, Sync
<1>2. Head(sync[s].todo) = sync[s].todo[1] /\ sync[s].todo[1] \in Rows
  BY <1>1
<1> QED
  BY <1>1, <1>2 DEF SyncInv, Reads, NewestId

\* What a sync read is not touched by a step that leaves its rows alone.
LEMMA ReadsStay ==
  ASSUME NEW t \in Syncs, Reads(t), UNCHANGED <<row, overtaken>>,
         sync'[t].todo = sync[t].todo, sync'[t].id = sync[t].id
  PROVE  Reads(t)'
BY DEF Reads

\* A sync that passes on to its next row.
LEMMA NextRow ==
  ASSUME SyncInv, NEW s \in Syncs, sync[s].todo # <<>>, NEW a \in Stages \cup {"none"},
         a = "none", UNCHANGED overtaken, \A r \in Rows : row'[r].id = row[r].id,
         sync' = [sync EXCEPT ![s].todo = Tail(@), ![s].answer = a]
  PROVE  /\ sync' \in [Syncs -> Sync]
         /\ \A t \in Syncs : Reads(t)'
         /\ Answers(s)'
         /\ \A t \in Syncs : t # s => sync'[t] = sync[t]
<1>1. sync \in [Syncs -> Sync] /\ sync[s].todo \in Seq(Rows)
  BY DEF SyncInv, SyncTypeOK, Sync
<1>2. /\ Tail(sync[s].todo) \in Seq(Rows)
      /\ \A i \in DOMAIN Tail(sync[s].todo) :
           i + 1 \in DOMAIN sync[s].todo /\ Tail(sync[s].todo)[i] = sync[s].todo[i + 1]
  BY <1>1
<1> DEFINE n == [sync[s] EXCEPT !.todo = Tail(@), !.answer = a]
<1>3. sync'[s] = n /\ \A t \in Syncs : t # s => sync'[t] = sync[t]
  BY <1>1
<1>4. n \in Sync /\ n.todo = Tail(sync[s].todo) /\ n.id = sync[s].id /\ n.answer = "none"
  BY <1>1, <1>2 DEF Sync
<1>6. sync' \in [Syncs -> Sync]
  <2>1. sync' = [sync EXCEPT ![s] = n]
    BY <1>1
  <2> HIDE DEF n
  <2> QED
    BY <1>1, <1>4, <2>1
<1> HIDE DEF n
<1>5. \A t \in Syncs : Reads(t)'
  <2> SUFFICES ASSUME NEW t \in Syncs, NEW i \in DOMAIN sync'[t].todo
               PROVE  LET r == sync'[t].todo[i] IN
                      /\ sync'[t].id[r] \in 1 .. row'[r].id
                      /\ r \notin overtaken' => sync'[t].id[r] = row'[r].id
    BY DEF Reads
  <2>1. PICK j \in DOMAIN sync[t].todo : sync'[t].todo[i] = sync[t].todo[j] /\ sync'[t].id = sync[t].id
    <3>1. CASE t = s
      <4>1. i \in DOMAIN Tail(sync[s].todo) /\ sync'[t].todo[i] = Tail(sync[s].todo)[i]
        BY <1>3, <1>4, <3>1
      <4> QED
        BY <1>2, <1>3, <1>4, <3>1, <4>1
    <3>2. CASE t # s
      BY <1>3, <3>2
    <3> QED
      BY <3>1, <3>2
  <2>2. sync[t].todo[j] \in Rows
    BY <1>1 DEF Sync
  <2>3. LET r == sync[t].todo[j] IN
        /\ sync[t].id[r] \in 1 .. row[r].id
        /\ r \notin overtaken => sync[t].id[r] = row[r].id
    BY ONLY SyncInv, <2>1 DEF SyncInv, Reads
  <2>4. row'[sync[t].todo[j]].id = row[sync[t].todo[j]].id /\ overtaken' = overtaken
    BY <2>2
  <2> QED
    BY ONLY <2>1, <2>3, <2>4
<1> QED
  BY <1>3, <1>4, <1>5, <1>6 DEF Answers

\* The APP goes on with an invoice that it has not done with.
LEMMA StageStep ==
  ASSUME SyncInv, NEW r \in Rows, NEW k \in DOMAIN app[r], NEW a \in Stages,
         app[r][k] \notin Terminal, app' = [app EXCEPT ![r][k] = a],
         UNCHANGED <<row, newer, sync, overtaken>>
  PROVE  SyncInv'
<1> USE DEF SyncInv, SyncTypeOK
<1>1. /\ app' \in [Rows -> Seq(Stages)]
      /\ \A q \in Rows : Len(app'[q]) = Len(app[q])
      /\ \A q \in Rows : \A j \in DOMAIN app[q] : app[q][j] \in Terminal => app'[q][j] = app[q][j]
  <2>1. app[r] \in Seq(Stages)
    OBVIOUS
  <2>2. /\ [app[r] EXCEPT ![k] = a] \in Seq(Stages)
        /\ Len([app[r] EXCEPT ![k] = a]) = Len(app[r])
        /\ \A j \in DOMAIN app[r] : app[r][j] \in Terminal => [app[r] EXCEPT ![k] = a][j] = app[r][j]
    BY <2>1
  <2>3. app' = [app EXCEPT ![r] = [app[r] EXCEPT ![k] = a]]
    OBVIOUS
  <2> QED
    BY <2>2, <2>3
<1>2. SyncTypeOK' /\ NewestId'
  BY <1>1 DEF NewestId
<1>3. \A s \in Syncs : Reads(s)'
  BY DEF Reads
<1>4. ASSUME NEW s \in Syncs
      PROVE  Answers(s)'
  <2> SUFFICES ASSUME sync[s].answer # "none", sync[s].answer \in Terminal
               PROVE  LET q == Head(sync[s].todo) IN app'[q][sync[s].id[q]] = sync[s].answer
    BY DEF Answers
  <2> DEFINE q == Head(sync[s].todo)
  <2>1. sync[s].todo # <<>> /\ app[q][sync[s].id[q]] = sync[s].answer
    BY DEF Answers
  <2>2. q \in Rows /\ sync[s].id[q] \in 1 .. Len(app[q])
    BY <2>1, FirstRow
  <2>3. sync[s].id[q] \in DOMAIN app[q]
    BY <2>2
  <2> QED
    BY <1>1, <2>1, <2>2, <2>3
<1>5. TerminalIsTrue'
  <2> SUFFICES ASSUME NEW q \in Rows, row[q].status \in Terminal
               PROVE  row[q].status = app'[q][row[q].id] \/ q \in overtaken
    BY DEF TerminalIsTrue
  <2>1. row[q].status = app[q][row[q].id] \/ q \in overtaken
    BY DEF TerminalIsTrue
  <2>2. CASE row[q].id \in DOMAIN app[q]
    BY <1>1, <2>1, <2>2
  <2> QED
    BY <2>1, <2>2
<1> QED
  BY <1>2, <1>3, <1>4, <1>5

\* A row gets a new id.
LEMMA AcceptStep ==
  ASSUME SyncInv, NEW r \in Rows, Accept(r)
  PROVE  SyncInv'
<1> USE DEF SyncInv, SyncTypeOK
<1>1. /\ sync' = sync /\ overtaken \subseteq overtaken'
      /\ \A s \in Syncs : r \in ToSet(sync[s].todo) => r \in overtaken'
      /\ row' = [row EXCEPT ![r] = [id |-> row[r].id + 1, status |-> "CREATED"]]
      /\ app' = [app EXCEPT ![r] = Append(@, "CREATED")]
  BY DEF Accept
<1>2. /\ app' \in [Rows -> Seq(Stages)]
      /\ \A q \in Rows : q # r => app'[q] = app[q]
      /\ Len(app'[r]) = Len(app[r]) + 1
      /\ \A j \in DOMAIN app[r] : app'[r][j] = app[r][j]
  BY <1>1 DEF Stages
<1>3. SyncTypeOK' /\ NewestId'
  BY <1>1, <1>2 DEF NewestId, Stages
<1>4. ASSUME NEW s \in Syncs
      PROVE  Reads(s)'
  <2> SUFFICES ASSUME NEW i \in DOMAIN sync[s].todo
               PROVE  LET q == sync[s].todo[i] IN
                      /\ sync[s].id[q] \in 1 .. row'[q].id
                      /\ q \notin overtaken' => sync[s].id[q] = row'[q].id
    BY <1>1 DEF Reads
  <2> DEFINE q == sync[s].todo[i]
  <2>1. q \in ToSet(sync[s].todo)
    BY DEF ToSet
  <2>2. q \in Rows
    BY DEF Sync
  <2>3. sync[s].id[q] \in 1 .. row[q].id /\ (q \notin overtaken => sync[s].id[q] = row[q].id)
    BY DEF Reads
  <2> QED
    BY <1>1, <2>1, <2>2, <2>3
<1>5. ASSUME NEW s \in Syncs
      PROVE  Answers(s)'
  <2> SUFFICES ASSUME sync[s].answer # "none", sync[s].answer \in Terminal
               PROVE  LET q == Head(sync[s].todo) IN app'[q][sync[s].id[q]] = sync[s].answer
    BY <1>1 DEF Answers
  <2> DEFINE q == Head(sync[s].todo)
  <2>1. sync[s].todo # <<>> /\ app[q][sync[s].id[q]] = sync[s].answer
    BY DEF Answers
  <2>2. q \in Rows /\ sync[s].id[q] \in 1 .. Len(app[q])
    BY <2>1, FirstRow
  <2>3. sync[s].id[q] \in DOMAIN app[q] /\ app'[q][sync[s].id[q]] = app[q][sync[s].id[q]]
    <3>1. CASE q = r
      BY <1>2, <2>2, <3>1
    <3>2. CASE q # r
      BY <1>2, <2>2, <3>2
    <3> QED
      BY <3>1, <3>2
  <2> QED
    BY <2>1, <2>3
<1>6. TerminalIsTrue'
  BY <1>1, <1>2 DEF TerminalIsTrue, Terminal
<1> QED
  BY <1>1, <1>3, <1>4, <1>5, <1>6

\* A sync reads its page.
LEMMA StartStep ==
  ASSUME SyncInv, NEW s \in Syncs, StartSync(s)
  PROVE  SyncInv'
<1> USE DEF SyncInv, SyncTypeOK
<1>1. PICK q \in [1 .. Cardinality(Page) -> Page] :
        sync' = [sync EXCEPT ![s] =
          [on |-> TRUE, todo |-> q, answer |-> "none",
           id |-> [r \in Rows |-> IF r \in Page THEN row[r].id ELSE 0]]]
  BY DEF StartSync
<1>2. Page \subseteq Rows /\ \A r \in Page : row[r].id # 0
  BY DEF Page, Pending
<1>3. q \in Seq(Rows) /\ \A i \in DOMAIN q : q[i] \in Page
  <2>1. Cardinality(Page) \in Nat
    BY <1>2, FS_Subset, FS_CardinalityType, SyncAssumption
  <2>2. q \in [1 .. Cardinality(Page) -> Rows]
    BY <1>2
  <2>3. q \in Seq(Rows)
    BY ONLY <2>1, <2>2
  <2> QED
    BY <2>1, <2>3
<1>4. UNCHANGED <<app, row, overtaken>>
  BY DEF StartSync
<1> DEFINE n == [on |-> TRUE, todo |-> q, answer |-> "none",
                 id |-> [r \in Rows |-> IF r \in Page THEN row[r].id ELSE 0]]
<1>5. n \in Sync /\ n.todo = q /\ n.answer = "none" /\ \A r \in Page : n.id[r] = row[r].id
  BY <1>2, <1>3 DEF Sync
<1>6. sync' = [sync EXCEPT ![s] = n]
  BY <1>1
<1> HIDE DEF n
<1>7. sync'[s] = n /\ \A t \in Syncs : t # s => sync'[t] = sync[t]
  BY <1>6
<1>8. SyncTypeOK' /\ NewestId' /\ TerminalIsTrue'
  BY <1>4, <1>5, <1>6 DEF NewestId, TerminalIsTrue
<1>9. Reads(s)' /\ Answers(s)'
  <2>1. \A i \in DOMAIN q : q[i] \in Page /\ row[q[i]].id \in 1 .. row[q[i]].id
    BY <1>2, <1>3
  <2>2. sync'[s].todo = q /\ sync'[s].answer = "none" /\ sync'[s].id = n.id
    BY <1>5, <1>7
  <2> QED
    BY <1>4, <1>5, <2>1, <2>2 DEF Reads, Answers
<1>10. ASSUME NEW t \in Syncs, t # s
       PROVE  Reads(t)' /\ Answers(t)'
  <2>1. Reads(t)'
    BY ONLY SyncInv, <1>4, <1>7, <1>10, ReadsStay DEF SyncInv
  <2>2. Answers(t)'
    BY <1>4, <1>7, <1>10 DEF Answers
  <2> QED
    BY <2>1, <2>2
<1> QED
  BY <1>8, <1>9, <1>10

\* The APP answers.
LEMMA AskStep ==
  ASSUME SyncInv, NEW s \in Syncs, Ask(s)
  PROVE  SyncInv'
<1> USE DEF SyncInv, SyncTypeOK
<1> DEFINE r == Head(sync[s].todo)
           a == app[r][sync[s].id[r]]
<1>1. /\ UNCHANGED <<app, row, overtaken>> /\ sync[s].todo # <<>>
      /\ sync' = [sync EXCEPT ![s].answer = a]
  BY DEF Ask
<1>2. r \in Rows /\ sync[s].id[r] \in 1 .. Len(app[r])
  BY <1>1, FirstRow
<1>3. a \in Stages
  BY <1>2
<1>4. /\ sync' \in [Syncs -> Sync] /\ sync'[s].answer = a
      /\ \A t \in Syncs : sync'[t].todo = sync[t].todo /\ sync'[t].id = sync[t].id
      /\ \A t \in Syncs : t # s => sync'[t] = sync[t]
  <2> HIDE DEF a
  <2> QED
    BY <1>1, <1>3 DEF Sync
<1>5. SyncTypeOK' /\ NewestId' /\ TerminalIsTrue'
  BY <1>1, <1>4 DEF NewestId, TerminalIsTrue
<1>8. \A t \in Syncs : Reads(t)'
  BY ONLY SyncInv, <1>1, <1>4, ReadsStay DEF SyncInv
<1>6. Answers(s)'
  BY <1>1, <1>4 DEF Answers
<1>7. \A t \in Syncs : t # s => Answers(t)'
  BY <1>1, <1>4 DEF Answers
<1> QED
  BY <1>5, <1>6, <1>7, <1>8

\* A sync is done with its first row, with or without an answer.
LEMMA PassStep ==
  ASSUME SyncInv, NEW s \in Syncs, AskFails(s) \/ SaveStatus(s)
  PROVE  SyncInv'
<1> USE DEF SyncInv, SyncTypeOK
<1> DEFINE r == Head(sync[s].todo)
<1>1. sync[s].todo # <<>> /\ UNCHANGED <<app, overtaken>>
  BY DEF AskFails, SaveStatus, Answers
<1>2. r \in Rows /\ (r \notin overtaken => sync[s].id[r] = row[r].id)
  BY <1>1, FirstRow
<1>3. sync' = [sync EXCEPT ![s].todo = Tail(@), ![s].answer = "none"]
  <2>1. CASE AskFails(s)
    <3>1. sync[s].answer = "none" /\ sync' = [sync EXCEPT ![s].todo = Tail(@)]
      BY <2>1 DEF AskFails
    <3> QED
      BY <3>1 DEF Sync
  <2>2. CASE SaveStatus(s)
    BY <2>2 DEF SaveStatus
  <2> QED
    BY <2>1, <2>2
<1>4. row' \in [Rows -> [id : Nat, status : Stages \cup {"UNKNOWN"}]]
      /\ \A q \in Rows : row'[q].id = row[q].id
  BY <1>2 DEF AskFails, SaveStatus, Sync
<1>5. /\ sync' \in [Syncs -> Sync] /\ \A t \in Syncs : Reads(t)'
      /\ Answers(s)'
      /\ \A t \in Syncs : t # s => sync'[t] = sync[t]
  BY <1>1, <1>3, <1>4, NextRow
<1>6. SyncTypeOK' /\ NewestId'
  BY <1>1, <1>4, <1>5 DEF NewestId
<1>7. \A t \in Syncs : t # s => Answers(t)'
  BY <1>1, <1>5 DEF Answers
<1>8. TerminalIsTrue'
  <2>1. CASE AskFails(s)
    BY <1>1, <2>1 DEF AskFails, TerminalIsTrue
  <2>2. CASE SaveStatus(s)
    <3>1. sync[s].answer # "none" /\ row' = [row EXCEPT ![r].status = sync[s].answer]
      BY <2>2 DEF SaveStatus
    <3>2. \A q \in Rows : q # r => row'[q] = row[q]
      BY <3>1
    <3>3. row'[r].status = sync[s].answer /\ row'[r].id = row[r].id
      BY <1>2, <3>1
    <3>4. sync[s].answer \in Terminal => app[r][sync[s].id[r]] = sync[s].answer
      BY <3>1 DEF Answers
    <3> QED
      BY <1>1, <1>2, <3>2, <3>3, <3>4 DEF TerminalIsTrue
  <2> QED
    BY <2>1, <2>2
<1> QED
  BY <1>5, <1>6, <1>7, <1>8

\* A sync ends, or is ended.
LEMMA EndStep ==
  ASSUME SyncInv, NEW s \in Syncs, EndSync(s) \/ SyncDies(s)
  PROVE  SyncInv'
<1> USE DEF SyncInv, SyncTypeOK
<1>1. UNCHANGED <<app, row, overtaken>> /\ sync' = [sync EXCEPT ![s] = NoSync]
  BY DEF EndSync, SyncDies
<1>2. NoSync \in Sync /\ NoSync.todo = <<>> /\ NoSync.answer = "none"
  BY DEF NoSync, Sync
<1>3. sync'[s] = NoSync /\ \A t \in Syncs : t # s => sync'[t] = sync[t]
  BY <1>1
<1>4. SyncTypeOK' /\ NewestId' /\ TerminalIsTrue'
  BY <1>1, <1>2 DEF NewestId, TerminalIsTrue
<1>5. Reads(s)' /\ Answers(s)'
  BY <1>2, <1>3 DEF Reads, Answers
<1>6. \A t \in Syncs : t # s => Reads(t)' /\ Answers(t)'
  BY <1>1, <1>3 DEF Reads, Answers
<1> QED
  BY <1>4, <1>5, <1>6

\* Whatever the order in which the APP, the pipelines and the syncs act, what a
\* sync holds is the row's id or one that the row is known to have lost.
THEOREM SyncInvariance == SyncSpec => []SyncInv
<1>1. SyncInit => SyncInv
  <2> SUFFICES ASSUME SyncInit
               PROVE  SyncInv
    OBVIOUS
  <2>1. NoSync \in Sync /\ NoSync.todo = <<>> /\ NoSync.answer = "none"
    BY DEF NoSync, Sync
  <2>2. SyncTypeOK
    BY <2>1 DEF SyncInit, SyncTypeOK
  <2>3. NewestId /\ TerminalIsTrue
    BY DEF SyncInit, NewestId, TerminalIsTrue, Terminal
  <2>4. \A s \in Syncs : Reads(s) /\ Answers(s)
    BY <2>1 DEF SyncInit, Reads, Answers
  <2> QED
    BY <2>2, <2>3, <2>4 DEF SyncInv
<1>2. SyncInv /\ [SyncNext]_syncVars => SyncInv'
  <2> SUFFICES ASSUME SyncInv, [SyncNext]_syncVars
               PROVE  SyncInv'
    OBVIOUS
  <2>1. CASE UNCHANGED syncVars
    BY <2>1 DEF syncVars, SyncInv, SyncTypeOK, NewestId, TerminalIsTrue, Reads, Answers
  <2>2. ASSUME NEW r \in Rows, Accept(r)
        PROVE  SyncInv'
    BY <2>2, AcceptStep
  <2>3. ASSUME NEW r \in Rows, NEW k \in DOMAIN app[r], Progress(r, k) \/ Reject(r, k)
        PROVE  SyncInv'
    <3>1. PICK a \in Stages : app' = [app EXCEPT ![r][k] = a]
      BY <2>3 DEF Progress, Reject, Stages, Terminal
    <3>2. app[r][k] \notin Terminal /\ UNCHANGED <<row, newer, sync, overtaken>>
      BY <2>3 DEF Progress, Reject, Terminal
    <3> QED
      BY <3>1, <3>2, StageStep
  <2>4. ASSUME NEW s \in Syncs, StartSync(s)
        PROVE  SyncInv'
    BY <2>4, StartStep
  <2>5. ASSUME NEW s \in Syncs, Ask(s)
        PROVE  SyncInv'
    BY <2>5, AskStep
  <2>6. ASSUME NEW s \in Syncs, AskFails(s) \/ SaveStatus(s)
        PROVE  SyncInv'
    BY <2>6, PassStep
  <2>7. ASSUME NEW s \in Syncs, EndSync(s) \/ SyncDies(s)
        PROVE  SyncInv'
    BY <2>7, EndStep
  <2> QED
    BY <2>1, <2>2, <2>3, <2>4, <2>5, <2>6, <2>7 DEF SyncNext, SyncStep
<1> QED
  BY <1>1, <1>2, PTL DEF SyncSpec

\* A row that the syncs have done with shows what the APP says of its invoice
\* (or of one that it was asked about before the row got another id).
THEOREM StatusIsTrue == SyncSpec => []TerminalIsTrue
<1>1. SyncInv => TerminalIsTrue
  BY DEF SyncInv
<1> QED
  BY <1>1, SyncInvariance, PTL

=============================================================================
