------------------------------ MODULE SagePull ------------------------------
(***************************************************************************)
(* Reading invoices out of Sage 200: the batch pulls of apps/dashboard/    *)
(* sage_batch.py, which continue at a bookmark and exclude each other with *)
(* a "running since" marker, and the five-minute poll of                   *)
(* apps/invoices/tasks.py, which has no bookmark.  A puller is a Celery    *)
(* task started from the dashboard or a pull_sage200 command in a          *)
(* terminal; both go through sage_batch.pull.                              *)
(*                                                                         *)
(* pc[p] says what a puller does next:                                     *)
(*   idle, asked (the command shows its preview and waits for "yes"),      *)
(*   forcing (read the state, will set the marker whatever it says),       *)
(*   claimed (reads Sage), working (processes the rows, lowest id first,   *)
(*   then saves the bookmark), releasing (clears the marker)               *)
(*                                                                         *)
(* A definition directly followed by the one whose name it extends (Begin  *)
(* after BeginNoCheck) is a faulty variant, part of no specification: it   *)
(* shows which slip in the code a property would notice.                   *)
(***************************************************************************)
EXTENDS Integers, FiniteSets

CONSTANTS
  MaxId,        \* bound: PostAR rows have AutoIdx 1 .. MaxId
  Old,          \* the rows dated before the day given with --since
  Pullers,
  Counts,       \* batch sizes asked for
  Afters,       \* the values given with --after
  PollLimit,    \* rows read by one poll (500)
  None          \* no bookmark yet, no --after, nothing previewed

Ids == 1 .. MaxId

ASSUME PullAssumption ==
  /\ MaxId \in Nat
  /\ Old \subseteq Ids /\ Afters \subseteq Nat /\ Counts \subseteq Nat \ {0}
  /\ PollLimit \in Nat
  /\ None \notin Int

VARIABLES
  visible,      \* committed rows of PostAR
  imported,     \* rows with an Invoice in the middleware
  bookmark,     \* SagePullState.last_record_id, None before the row exists
  running,      \* running_since: unset, set, or set more than 3 hours ago
  pc, opts,     \* the pullers and the options they were started with
  from,         \* the bookmark a puller continues at
  batch, todo,  \* the rows a puller read, and those it has still to process
  shown,        \* the preview the user confirmed
  pollTodo,     \* the rows the poll has still to process
  pulled,       \* history: rows processed by pulls that saved their bookmark
  polled,       \* history: rows processed by a poll
  again,        \* history: a pull processed a row that was in pulled already
  mishaps       \* history: what the guarantees do not cover (see Mishap)

pullerVars == <<pc, opts, from, batch, todo, shown>>
vars == <<visible, imported, bookmark, running, pullerVars, pollTodo, pulled, polled, again, mishaps>>

Options == [count : Counts, after : Afters \cup {None}, since : BOOLEAN]

\* overlap: a pull was forced, or took over the marker of a live one;
\* after:   a pull was told to start elsewhere than at the bookmark;
\* gap:     --since was given, or a row was committed after a higher one.
Mishap == {"overlap", "after", "gap"}
Pulling == {"claimed", "working", "releasing"}

TypeOK ==
  /\ visible \subseteq Ids /\ imported \subseteq Ids
  /\ pulled \subseteq Ids /\ polled \subseteq Ids
  /\ bookmark \in Nat \cup {None}
  /\ running \in {"unset", "set", "stale"}
  /\ pc \in [Pullers -> {"idle", "asked", "forcing"} \cup Pulling]
  /\ opts \in [Pullers -> Options \cup {None}]
  /\ from \in [Pullers -> Nat]
  /\ batch \in [Pullers -> SUBSET Ids] /\ todo \in [Pullers -> SUBSET Ids]
  /\ shown \in [Pullers -> (SUBSET Ids) \cup {None}]
  /\ pollTodo \subseteq Ids
  /\ again \in BOOLEAN
  /\ mishaps \subseteq Mishap

Init ==
  /\ visible = {} /\ imported = {} /\ pulled = {} /\ polled = {}
  /\ bookmark = None /\ running = "unset"
  /\ pc = [p \in Pullers |-> "idle"] /\ opts = [p \in Pullers |-> None]
  /\ from = [p \in Pullers |-> 0]
  /\ batch = [p \in Pullers |-> {}] /\ todo = [p \in Pullers |-> {}]
  /\ shown = [p \in Pullers |-> None]
  /\ pollTodo = {} /\ again = FALSE /\ mishaps = {}

-----------------------------------------------------------------------------
Least(S) == CHOOSE r \in S : \A q \in S : r <= q
Greatest(S, default) == IF S = {} THEN default ELSE CHOOSE r \in S : \A q \in S : q <= r

\* SELECT TOP k ... ORDER BY AutoIdx
Top(S, k) == {r \in S : Cardinality({q \in S : q < r}) < k}

\* get_new_invoices(since, limit, after_id)
NewRowsInclusive(o, after) ==
  Top({r \in visible : r >= after /\ (o.since => r \notin Old)}, o.count)

NewRows(o, after) ==
  Top({r \in visible : r > after /\ (o.since => r \notin Old)}, o.count)

\* Where a pull with these options continues.
Start(o) == IF o.after = None THEN bookmark ELSE o.after

-----------------------------------------------------------------------------
(* The ERP posts a row.  AutoIdx is drawn before the row is committed, so a  *)
(* row can appear below one that is visible already.                         *)
Post(r) ==
  /\ r \notin visible
  /\ visible' = visible \cup {r}
  /\ mishaps' = mishaps \cup (IF \E q \in visible : q > r THEN {"gap"} ELSE {})
  /\ UNCHANGED <<imported, bookmark, running, pullerVars, pollTodo, pulled, polled, again>>

\* get_state: the first look at a client creates its bookmark.
CreateState ==
  /\ bookmark = None
  /\ bookmark' = Greatest(imported, 0)
  /\ UNCHANGED <<visible, imported, running, pullerVars, pollTodo, pulled, polled, again, mishaps>>

\* pull_sage200 shows its preview; without a new row it ends at once.
Preview(p, o) ==
  /\ pc[p] = "idle" /\ bookmark # None
  /\ NewRows(o, Start(o)) \ imported # {}
  /\ pc' = [pc EXCEPT ![p] = "asked"]
  /\ opts' = [opts EXCEPT ![p] = o]
  /\ shown' = [shown EXCEPT ![p] = NewRows(o, Start(o))]
  /\ UNCHANGED <<visible, imported, bookmark, running, from, batch, todo, pollTodo, pulled, polled,
                 again, mishaps>>

AsksBeforeState(p, o) ==
  \/ pc[p] = "asked" /\ opts[p] = o
  \/ pc[p] = "idle" /\ o.after = None /\ ~o.since

\* The two ways into sage_batch.pull: confirmed in a terminal, or from the
\* dashboard, which has a count only and no preview.
Asks(p, o) ==
  \/ pc[p] = "asked" /\ opts[p] = o
  \/ pc[p] = "idle" /\ bookmark # None /\ o.after = None /\ ~o.since

\* p goes on with the pull from its bookmark.
Continue(p, o) ==
  /\ pc' = [pc EXCEPT ![p] = "claimed"]
  /\ opts' = [opts EXCEPT ![p] = o]
  /\ from' = [from EXCEPT ![p] = Start(o)]

OptionMishaps(o) ==
  (IF o.after \notin {None, bookmark} THEN {"after"} ELSE {})
    \cup (IF o.since THEN {"gap"} ELSE {})

\* Nobody checks whether the pull that set the old marker is still alive.
BeginNoCheck(p, o) ==
  /\ Asks(p, o)
  /\ running' = "set"
  /\ Continue(p, o)
  /\ mishaps' = mishaps \cup OptionMishaps(o)
  /\ UNCHANGED <<visible, imported, bookmark, batch, todo, shown, pollTodo, pulled, polled, again>>

\* _begin: one conditional UPDATE takes the marker, then the state is read.
Begin(p, o) ==
  /\ Asks(p, o)
  /\ running \in {"unset", "stale"}
  /\ running' = "set"
  /\ Continue(p, o)
  /\ mishaps' = mishaps \cup OptionMishaps(o)
       \cup (IF \E q \in Pullers : pc[q] \in Pulling THEN {"overlap"} ELSE {})
  /\ UNCHANGED <<visible, imported, bookmark, batch, todo, shown, pollTodo, pulled, polled, again>>

\* AlreadyRunning, or the user says no.
GiveUp(p) ==
  /\ pc[p] = "asked"
  /\ pc' = [pc EXCEPT ![p] = "idle"]
  /\ opts' = [opts EXCEPT ![p] = None]
  /\ shown' = [shown EXCEPT ![p] = None]
  /\ UNCHANGED <<visible, imported, bookmark, running, from, batch, todo, pollTodo, pulled, polled,
                 again, mishaps>>

\* _begin(force=True) returns the state as it was before the marker was set.
ForceRead(p) ==
  /\ pc[p] = "asked"
  /\ pc' = [pc EXCEPT ![p] = "forcing"]
  /\ from' = [from EXCEPT ![p] = Start(opts[p])]
  /\ mishaps' = mishaps \cup {"overlap"} \cup OptionMishaps(opts[p])
  /\ UNCHANGED <<visible, imported, bookmark, running, opts, batch, todo, shown, pollTodo,
                 pulled, polled, again>>

ForceClaim(p) ==
  /\ pc[p] = "forcing"
  /\ running' = "set"
  /\ pc' = [pc EXCEPT ![p] = "claimed"]
  /\ UNCHANGED <<visible, imported, bookmark, opts, from, batch, todo, shown, pollTodo,
                 pulled, polled, again, mishaps>>

ReadSage(p) ==
  /\ pc[p] = "claimed"
  /\ pc' = [pc EXCEPT ![p] = "working"]
  /\ batch' = [batch EXCEPT ![p] = NewRows(opts[p], from[p])]
  /\ todo' = [todo EXCEPT ![p] = NewRows(opts[p], from[p])]
  /\ shown' = [shown EXCEPT ![p] = None]
  /\ UNCHANGED <<visible, imported, bookmark, running, opts, from, pollTodo, pulled, polled,
                 again, mishaps>>

\* Sage cannot be read: PullError, and the finally clause.
ReadFails(p) ==
  /\ pc[p] = "claimed"
  /\ pc' = [pc EXCEPT ![p] = "releasing"]
  /\ UNCHANGED <<visible, imported, bookmark, running, opts, from, batch, todo, shown,
                 pollTodo, pulled, polled, again, mishaps>>

\* _process_single: skipped, saved (whatever FIRS answers), or not mapped.
ProcessRow(p) ==
  /\ pc[p] = "working" /\ todo[p] # {}
  /\ imported' \in {imported, imported \cup {Least(todo[p])}}
  /\ todo' = [todo EXCEPT ![p] = @ \ {Least(@)}]
  /\ UNCHANGED <<visible, bookmark, running, pc, opts, from, batch, shown, pollTodo, pulled,
                 polled, again, mishaps>>

SaveBookmarkFirst(p) ==
  /\ pc[p] = "working"
  /\ bookmark' = Greatest(batch[p], from[p])
  /\ pc' = [pc EXCEPT ![p] = "releasing"]
  /\ pulled' = pulled \cup (batch[p] \ todo[p])
  /\ again' = (again \/ batch[p] \cap pulled # {})
  /\ UNCHANGED <<visible, imported, running, opts, from, batch, todo, shown, pollTodo,
                 polled, mishaps>>

SaveBookmarkOrZero(p) ==
  /\ pc[p] = "working" /\ todo[p] = {}
  /\ bookmark' = Greatest(batch[p], 0)
  /\ pc' = [pc EXCEPT ![p] = "releasing"]
  /\ pulled' = pulled \cup batch[p]
  /\ UNCHANGED <<visible, imported, running, opts, from, batch, todo, shown, pollTodo,
                 polled, again, mishaps>>

\* The highest id read becomes the bookmark, whatever it is by now.
SaveBookmark(p) ==
  /\ pc[p] = "working" /\ todo[p] = {}
  /\ bookmark' = Greatest(batch[p], from[p])
  /\ pc' = [pc EXCEPT ![p] = "releasing"]
  /\ pulled' = pulled \cup batch[p]
  /\ again' = (again \/ batch[p] \cap pulled # {})
  /\ UNCHANGED <<visible, imported, running, opts, from, batch, todo, shown, pollTodo,
                 polled, mishaps>>

Reset(p) ==
  /\ pc' = [pc EXCEPT ![p] = "idle"]
  /\ opts' = [opts EXCEPT ![p] = None]
  /\ from' = [from EXCEPT ![p] = 0]
  /\ batch' = [batch EXCEPT ![p] = {}]
  /\ todo' = [todo EXCEPT ![p] = {}]
  /\ shown' = [shown EXCEPT ![p] = None]

\* The finally clause clears the marker, also when it is another pull's.
Release(p) ==
  /\ pc[p] = "releasing"
  /\ running' = "unset"
  /\ Reset(p)
  /\ UNCHANGED <<visible, imported, bookmark, pollTodo, pulled, polled, again, mishaps>>

\* The process is killed: the marker and the bookmark stay as they are.
Crash(p) ==
  /\ pc[p] \in Pulling
  /\ Reset(p)
  /\ UNCHANGED <<visible, imported, bookmark, running, pollTodo, pulled, polled, again, mishaps>>

\* STALE_AFTER passes; nothing stops the pull, if it still runs, at that point.
MarkerAges ==
  /\ running = "set"
  /\ running' = "stale"
  /\ UNCHANGED <<visible, imported, bookmark, pullerVars, pollTodo, pulled, polled, again, mishaps>>

-----------------------------------------------------------------------------
(* process_client_invoices: InvoicePipeline.run() without a bookmark.        *)
Poll ==
  /\ pollTodo = {} /\ visible # {}
  /\ pollTodo' = Top(visible, PollLimit)
  /\ UNCHANGED <<visible, imported, bookmark, running, pullerVars, pulled, polled, again, mishaps>>

PollRow ==
  /\ pollTodo # {}
  /\ imported' \in {imported, imported \cup {Least(pollTodo)}}
  /\ polled' = polled \cup {Least(pollTodo)}
  /\ pollTodo' = pollTodo \ {Least(pollTodo)}
  /\ UNCHANGED <<visible, bookmark, running, pullerVars, pulled, again, mishaps>>

PollCrash ==
  /\ pollTodo # {}
  /\ pollTodo' = {}
  /\ UNCHANGED <<visible, imported, bookmark, running, pullerVars, pulled, polled, again, mishaps>>

-----------------------------------------------------------------------------
Pull(p) ==
  \/ \E o \in Options : Preview(p, o) \/ Begin(p, o)
  \/ GiveUp(p) \/ ForceRead(p) \/ ForceClaim(p) \/ ReadSage(p) \/ ReadFails(p)
  \/ ProcessRow(p) \/ SaveBookmark(p) \/ Release(p) \/ Crash(p)

Next ==
  \/ \E r \in Ids : Post(r)
  \/ CreateState \/ MarkerAges
  \/ \E p \in Pullers : Pull(p)
  \/ Poll \/ PollRow \/ PollCrash

Spec == Init /\ [][Next]_vars

\* Beat starts the poll every five minutes and it works through its rows.
PollSpec ==
  /\ Init /\ [][Poll \/ PollRow \/ \E r \in Ids : Post(r)]_vars
  /\ WF_vars(Poll) /\ WF_vars(PollRow)

-----------------------------------------------------------------------------
Excused(m) == \E x \in m : x \in mishaps

\* Two pulls for one client never run at the same time, unless one was forced
\* or outlived STALE_AFTER, which is shorter than the task's time limit.
PullsExclude ==
  \A p, q \in Pullers :
    pc[p] \in Pulling /\ pc[q] \in Pulling /\ p # q => Excused({"overlap"})

\* No row at or below the bookmark has been passed over, whatever was killed
\* or failed half-way: a pull or a poll has processed it.  The exceptions are
\* the options that say so and a row committed after a higher one was.
BookmarkCovers ==
  bookmark # None =>
    \A r \in visible : r <= bookmark => r \in pulled \cup polled \/ mishaps # {}

\* "Pulling 50 and then 50 more gives 100 different invoices" (sage_batch.py:5),
\* unless pulls overlapped or one was told where to start.
PullsAreDisjoint == again => Excused({"overlap", "after"})

\* The bookmark never moves back, with the same exceptions.
BookmarkOnlyGrows ==
  [][(bookmark # None => bookmark' >= bookmark) \/ Excused({"overlap", "after"})]_vars

-----------------------------------------------------------------------------
(* A claim of the repository that the code does not keep.                    *)

\* tasks.py:79, process_client_invoices "pulls invoices since the last
\* successful poll": what the ERP posts, a later poll picks up.
PostedIsPolled == \A r \in Ids : r \in visible ~> r \in polled
=============================================================================
