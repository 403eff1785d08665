---------------------------- MODULE ProviderSync ----------------------------
(***************************************************************************)
(* sync_provider_statuses (apps/invoices/tasks.py): it asks the Access     *)
(* Point Provider what became of the invoices it accepted, the ones that   *)
(* were checked longest ago first, and stores the answers.  The pipelines  *)
(* store new ids and statuses meanwhile, and a second sync may be under    *)
(* way.                                                                    *)
(*                                                                         *)
(* A definition directly followed by the one whose name it extends is a    *)
(* faulty variant, part of no specification.                               *)
(***************************************************************************)
EXTENDS Naturals, FiniteSets, Sequences, SequencesExt

CONSTANTS
  Rows,      \* Invoice (or ExcelInvoice) rows
  Private,   \* those of consumers, which stay SIGNED
  Syncs,     \* workers that may execute sync_provider_statuses
  PageSize,  \* its limit (200)
  MaxIds     \* bound: times that each invoice is cleared

ASSUME SyncAssumption ==
  /\ IsFiniteSet(Rows) /\ Private \subseteq Rows
  /\ PageSize \in Nat \ {0} /\ MaxIds \in [Rows -> Nat]

VARIABLES
  app,     \* the APP's status of each provider_invoice_id
  row,     \* provider_invoice_id (0 for none) and provider_status of the rows
  newer,   \* for each row, those with a later provider_status_checked_at
  sync,    \* the syncs that are going on
  overtaken \* history: rows that got a new id while a sync held the old one

syncVars == <<app, row, newer, sync, overtaken>>

Terminal == {"TRANSMITTED", "FAILED"}
Stages == Terminal \cup {"CREATED", "SIGNED"}
Ids(r) == 1 .. MaxIds[r]

\* A sync: what is left of its query, the ids it read, and the status of the
\* first row that is left, when the APP has told it.
NoSync == [on |-> FALSE, todo |-> <<>>, id |-> [r \in Rows |-> 0], answer |-> "none"]

SyncInit ==
  /\ app = [r \in Rows |-> <<>>]
  /\ row = [r \in Rows |-> [id |-> 0, status |-> "UNKNOWN"]]
  /\ newer = [r \in Rows |-> {}]
  /\ sync = [s \in Syncs |-> NoSync]
  /\ overtaken = {}

-----------------------------------------------------------------------------
\* provider_status_checked_at of r becomes now.
Checked(r) == newer' = [q \in Rows |-> IF q = r THEN {} ELSE newer[q] \cup {r}]

\* _handle_success of a pipeline: the APP accepts the invoice under a new id,
\* and the row gets that id with the status of the answer.
Accept(r) ==
  LET k == row[r].id + 1 IN
  /\ k <= MaxIds[r]
  /\ app' = [app EXCEPT ![r] = Append(@, "CREATED")]
  /\ row' = [row EXCEPT ![r] = [id |-> k, status |-> "CREATED"]]
  /\ Checked(r)
  /\ overtaken' = overtaken \cup {q \in {r} : \E s \in Syncs : q \in ToSet(sync[s].todo)}
  /\ UNCHANGED sync

\* The APP goes on with the invoice.
Progress(r, k) ==
  /\ app[r][k] \in {"CREATED", "SIGNED"}
  /\ app' = [app EXCEPT ![r][k] = IF @ = "CREATED" THEN "SIGNED" ELSE "TRANSMITTED"]
  /\ app[r][k] = "SIGNED" => r \notin Private
  /\ UNCHANGED <<row, newer, sync, overtaken>>

Reject(r, k) ==
  /\ app[r][k] \in {"CREATED", "SIGNED"}
  /\ app' = [app EXCEPT ![r][k] = "FAILED"]
  /\ UNCHANGED <<row, newer, sync, overtaken>>

\* The query: of the rows with an id and without a terminal status, those that
\* were checked longest ago.
Pending == {r \in Rows : row[r].id # 0 /\ row[r].status \notin Terminal}
Page == {r \in Pending : Cardinality({q \in Pending : r \in newer[q]}) < PageSize}
InOrder(q) == \A i, j \in DOMAIN q : i < j => q[j] \in newer[q[i]]

StartSync(s) ==
  /\ ~sync[s].on /\ Page # {}
  /\ \E q \in [1 .. Cardinality(Page) -> Page] :
       /\ InOrder(q)
       /\ sync' = [sync EXCEPT ![s] =
            [on |-> TRUE, todo |-> q, answer |-> "none",
             id |-> [r \in Rows |-> IF r \in Page THEN row[r].id ELSE 0]]]
  /\ UNCHANGED <<app, row, newer, overtaken>>

\* get_status succeeds, about the id that the query read.
Ask(s) ==
  LET r == Head(sync[s].todo) IN
  /\ sync[s].todo # <<>> /\ sync[s].answer = "none"
  /\ sync' = [sync EXCEPT ![s].answer = app[r][sync[s].id[r]]]
  /\ UNCHANGED <<app, row, newer, overtaken>>

AskFailsMarked(s) ==
  /\ sync[s].todo # <<>> /\ sync[s].answer = "none"
  /\ sync' = [sync EXCEPT ![s].todo = Tail(@)]
  /\ row' = [row EXCEPT ![Head(sync[s].todo)].status = "FAILED"]
  /\ UNCHANGED <<app, newer, overtaken>>

\* get_status fails or raises: the row is left for a later sync.
AskFails(s) ==
  /\ sync[s].todo # <<>> /\ sync[s].answer = "none"
  /\ sync' = [sync EXCEPT ![s].todo = Tail(@)]
  /\ UNCHANGED <<app, row, newer, overtaken>>

SaveStatusUntimed(s) ==
  LET r == Head(sync[s].todo) IN
  /\ sync[s].answer # "none"
  /\ row' = [row EXCEPT ![r].status = sync[s].answer]
  /\ sync' = [sync EXCEPT ![s].todo = Tail(@), ![s].answer = "none"]
  /\ UNCHANGED <<app, newer, overtaken>>

\* record.save: the columns named, whatever the row holds by now.
SaveStatus(s) ==
  LET r == Head(sync[s].todo) IN
  /\ sync[s].answer # "none"
  /\ row' = [row EXCEPT ![r].status = sync[s].answer]
  /\ Checked(r)
  /\ sync' = [sync EXCEPT ![s].todo = Tail(@), ![s].answer = "none"]
  /\ UNCHANGED <<app, overtaken>>

EndSync(s) ==
  /\ sync[s].on /\ sync[s].todo = <<>>
  /\ sync' = [sync EXCEPT ![s] = NoSync]
  /\ UNCHANGED <<app, row, newer, overtaken>>

\* The time limit or a restart.
SyncDies(s) ==
  /\ sync[s].on
  /\ sync' = [sync EXCEPT ![s] = NoSync]
  /\ UNCHANGED <<app, row, newer, overtaken>>

SyncStep(s) == StartSync(s) \/ Ask(s) \/ AskFails(s) \/ SaveStatus(s) \/ EndSync(s)

SyncNext ==
  \/ \E r \in Rows : Accept(r) \/ \E k \in DOMAIN app[r] : Progress(r, k) \/ Reject(r, k)
  \/ \E s \in Syncs : SyncStep(s) \/ SyncDies(s)

SyncSpec == SyncInit /\ [][SyncNext]_syncVars

\* Beat starts syncs, they go on, and the APP answers about each row, and the
\* process lives to save the answer, every so often.
SyncFairness ==
  /\ \A s \in Syncs : WF_syncVars(SyncStep(s))
  /\ \A r \in Rows :
       /\ SF_syncVars(\E s \in Syncs : Ask(s) /\ Head(sync[s].todo) = r)
       /\ SF_syncVars(\E s \in Syncs : SaveStatus(s) /\ Head(sync[s].todo) = r)

-----------------------------------------------------------------------------
\* A row that the syncs have done with shows the status of its invoice at the
\* APP: no sync stores an error or a guess.  Only the answer about an id that
\* the row lost while it was asked for may be stored in its place.
TerminalIsTrue ==
  \A r \in Rows :
    row[r].status \in Terminal => row[r].status = app[r][row[r].id] \/ r \in overtaken

\* The status at the APP reaches the row, although each sync asks about a few
\* rows only, consumer invoices never leave the queue, and a slow sync may
\* overwrite the answer of a fast one.
StatusArrives ==
  \A r \in Rows : \A k \in Ids(r) :
    (row[r].id = k /\ app[r][k] \in Terminal)
       ~> (row[r].status \in Terminal \/ row[r].id # k)
=============================================================================
