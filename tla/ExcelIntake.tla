----------------------------- MODULE ExcelIntake -----------------------------
(***************************************************************************)
(* One Excel file, received once or several times: by the web upload view, *)
(* the folder watcher or the e-mail agent, and processed row by row by     *)
(* ExcelPipeline (apps/excel_intake/pipeline.py).  Beat's                  *)
(* retry_failed_excel_rows sends failed rows again.  Workers are the web   *)
(* processes, the watcher and the Celery workers; they share the database  *)
(* and the broker.  wk[w].pc says what a worker does next:                 *)
(*                                                                         *)
(*   idle                                                                  *)
(*   checked   web request that found no duplicate; creates the upload     *)
(*   arrived   watcher or agent with a new upload; parses, looks for one   *)
(*   parsing   process_excel_upload; parses the file                       *)
(*   invalid   ExcelPipeline.run, saving the rows that failed validation   *)
(*   rows      ExcelPipeline.run, between two valid rows                   *)
(*   retrying  retry_failed_excel_rows, between two rows                   *)
(*   mapping, ready, sending, answered   inside _process_row               *)
(*                                                                         *)
(* Switching a client off only makes CheckUpload and StartRetry happen     *)
(* less often, and is left out.                                            *)
(*                                                                         *)
(* A definition directly followed by the one whose name it extends is a    *)
(* faulty variant, part of no specification: it shows which slip in the    *)
(* code a property would notice.                                           *)
(***************************************************************************)
EXTENDS Naturals, FiniteSets

CONSTANTS
  Uploads,          \* ExcelUpload records, all with the same file_hash
  NoUpload,         \* what a worker without an upload holds
  Workers,
  NRows,            \* data rows of the file
  HeaderRow,        \* the number of the header row (1)
  MaxAttempts,      \* a row with so many attempts is not retried (5)
  MaxTaskRetries,   \* max_retries of process_excel_upload (3)
  AppTries          \* requests that one provider.submit may send (3)

ASSUME IntakeAssumption ==
  /\ NoUpload \notin Uploads
  /\ NRows \in Nat /\ HeaderRow \in Nat
  /\ MaxAttempts \in Nat \ {0} /\ MaxTaskRetries \in Nat /\ AppTries \in Nat \ {0}

Rows == 1 .. NRows
Nums == 1 .. NRows + HeaderRow
Slots == Uploads \X Nums            \* unique_together (upload, row_number)

VARIABLES
  bad,      \* the rows of the file that fail validation
  upload,   \* the ExcelUpload table
  row,      \* the ExcelInvoice table; irn is 0 when blank
  queue,    \* process_excel_upload messages, with the retries made so far
  wk,       \* the workers
  issued,   \* history: IRNs the APP issued for a row of an upload
  sends,    \* history: submissions of a row of an upload
  mishaps   \* history: what went wrong with an upload (see Mishap)

vars == <<bad, upload, row, queue, wk, issued, sends, mishaps>>

Mishap == {"dry",        \* received by a dry run, which saves rows and sends none
           "resent",     \* accepted while another upload was not COMPLETE
           "overlap",    \* two retry tasks picked the same row
           "lost",       \* the APP issued an IRN that the middleware did not save
           "down"}       \* the process died, or the database or the broker failed

Upload == [status : {"ABSENT", "RECEIVED", "PARSING", "PROCESSING",
                     "COMPLETE", "PARTIAL", "FAILED"},
           cleared : Nat, failed : Nat]
Row == [status : {"ABSENT", "VALID", "INVALID", "SUBMITTED", "CLEARED", "FAILED"},
        attempts : Nat, irn : Nat, mapped : BOOLEAN]
NoRow == [status |-> "ABSENT", attempts |-> 0, irn |-> 0, mapped |-> FALSE]
Message == Uploads \X (0 .. MaxTaskRetries)

\* todo: rows still to be saved by the run; list: rows still to be retried, with
\* the attempts they had when they were read; num, attempts, resp: the row in
\* hand, its counter in memory and the IRN the APP answered (0 for none).
Worker == [pc : {"idle", "checked", "arrived", "parsing", "invalid", "rows", "retrying",
                 "mapping", "ready", "sending", "answered"},
           job : {"none", "task", "arrival", "dry", "retry"},
           up : Uploads \cup {NoUpload}, tries : 0 .. MaxTaskRetries,
           todo : SUBSET Rows, list : SUBSET (Slots \X Nat),
           num : Nums \cup {0}, attempts : Nat, resp : Nat, cleared : Nat, failed : Nat]
Idle == [pc |-> "idle", job |-> "none", up |-> NoUpload, tries |-> 0, todo |-> {}, list |-> {},
         num |-> 0, attempts |-> 0, resp |-> 0, cleared |-> 0, failed |-> 0]

TypeOK ==
  /\ bad \subseteq Rows
  /\ upload \in [Uploads -> Upload]
  /\ row \in [Slots -> Row]
  /\ queue \subseteq Message
  /\ wk \in [Workers -> Worker]
  /\ issued \in [Slots -> Nat]
  /\ sends \in [Slots -> Nat]
  /\ mishaps \in [Uploads -> SUBSET Mishap]

Init ==
  /\ bad \in SUBSET Rows
  /\ upload = [u \in Uploads |-> [status |-> "ABSENT", cleared |-> 0, failed |-> 0]]
  /\ row = [s \in Slots |-> NoRow]
  /\ queue = {}
  /\ wk = [w \in Workers |-> Idle]
  /\ issued = [s \in Slots |-> 0]
  /\ sends = [s \in Slots |-> 0]
  /\ mishaps = [u \in Uploads |-> {}]

-----------------------------------------------------------------------------
At(w, pc) == wk[w].pc = pc
Up(w) == wk[w].up
Slot(w) == <<wk[w].up, wk[w].num>>
Free(w) == wk' = [wk EXCEPT ![w] = Idle]
Note(u, m) == mishaps' = [mishaps EXCEPT ![u] = @ \cup m]
SetStatus(u, s) == upload' = [upload EXCEPT ![u].status = s]
SetRow(w, s) == row' = [row EXCEPT ![Slot(w)].status = s]

\* r is the row that the run saves next.
NextRow(w, r) == r \in wk[w].todo /\ \A q \in wk[w].todo : r <= q

\* ExcelParser numbers an invalid row by its place in the sheet and a valid one
\* by its place below the header.
Number(r) == IF r \in bad THEN r + HeaderRow ELSE r
Place(w, r) == <<Up(w), Number(r)>>

Duplicate(u) == \E v \in Uploads \ {u} : upload[v].status = "COMPLETE"

\* Another upload of the file was accepted and is not COMPLETE.
Resent(u) ==
  IF \E v \in Uploads \ {u} : upload[v].status \notin {"ABSENT", "COMPLETE"}
    THEN {"resent"} ELSE {}

-----------------------------------------------------------------------------
(* The three ways in.                                                        *)

CheckUploadNot(w) ==
  /\ At(w, "idle")
  /\ wk' = [wk EXCEPT ![w].pc = "checked"]
  /\ UNCHANGED <<bad, upload, row, queue, issued, sends, mishaps>>

\* ExcelUploadView.post: a duplicate is refused.
CheckUpload(w) ==
  /\ At(w, "idle")
  /\ \A v \in Uploads : upload[v].status # "COMPLETE"
  /\ wk' = [wk EXCEPT ![w].pc = "checked"]
  /\ UNCHANGED <<bad, upload, row, queue, issued, sends, mishaps>>

\* The record is committed first; when the broker is down the view then fails.
CreateUpload(w, u) ==
  /\ At(w, "checked") /\ upload[u].status = "ABSENT"
  /\ SetStatus(u, "RECEIVED")
  /\ \/ queue' = queue \cup {<<u, 0>>} /\ Note(u, Resent(u))
     \/ UNCHANGED queue /\ Note(u, Resent(u) \cup {"down"})
  /\ Free(w)
  /\ UNCHANGED <<bad, row, issued, sends>>

\* FolderWatchAgent._process_file, EmailIngestAgent._process_attachment.  Only
\* the watcher has a dry run.
Arrive(w, u) ==
  /\ At(w, "idle") /\ upload[u].status = "ABSENT"
  /\ SetStatus(u, "RECEIVED")
  /\ \E job \in {"arrival", "dry"} :
       /\ wk' = [wk EXCEPT ![w] = [Idle EXCEPT !.pc = "arrived", !.job = job, !.up = u]]
       /\ Note(u, IF job = "dry" THEN {"dry"} ELSE {})
  /\ UNCHANGED <<bad, row, queue, issued, sends>>

StartTask(w, u, n) ==
  /\ At(w, "idle") /\ <<u, n>> \in queue
  /\ queue' = queue \ {<<u, n>>}
  /\ wk' = [wk EXCEPT ![w] = [Idle EXCEPT !.pc = "parsing", !.job = "task", !.up = u, !.tries = n]]
  /\ UNCHANGED <<bad, upload, row, issued, sends, mishaps>>

\* ExcelParseError, or is_duplicate: the upload is FAILED and stays so.
RefuseFile(w) ==
  /\ At(w, "parsing") \/ At(w, "arrived")
  /\ SetStatus(Up(w), "FAILED")
  /\ Free(w)
  /\ UNCHANGED <<bad, row, queue, issued, sends, mishaps>>

-----------------------------------------------------------------------------
(* ExcelPipeline.run                                                         *)

\* The file parses and, unless the view has checked that, is no duplicate.
StartRun(w) ==
  /\ At(w, "parsing") \/ (At(w, "arrived") /\ ~Duplicate(Up(w)))
  /\ SetStatus(Up(w), "PARSING")
  /\ wk' = [wk EXCEPT ![w].pc = "invalid", ![w].todo = bad]
  /\ Note(Up(w), IF At(w, "arrived") THEN Resent(Up(w)) ELSE {})
  /\ UNCHANGED <<bad, row, queue, issued, sends>>

SaveInvalid(w) ==
  /\ At(w, "invalid")
  /\ \E r \in Rows :
       /\ NextRow(w, r) /\ row[Place(w, r)].status = "ABSENT"
       /\ row' = [row EXCEPT ![Place(w, r)].status = "INVALID"]
       /\ wk' = [wk EXCEPT ![w].todo = @ \ {r}]
  /\ UNCHANGED <<bad, upload, queue, issued, sends, mishaps>>

NoValidRows(w) ==
  /\ At(w, "invalid") /\ wk[w].todo = {} /\ bad = Rows
  /\ SetStatus(Up(w), "FAILED")
  /\ Free(w)
  /\ UNCHANGED <<bad, row, queue, issued, sends, mishaps>>

StartRows(w) ==
  /\ At(w, "invalid") /\ wk[w].todo = {} /\ bad # Rows
  /\ SetStatus(Up(w), "PROCESSING")
  /\ wk' = [wk EXCEPT ![w].pc = "rows", ![w].todo = Rows \ bad]
  /\ UNCHANGED <<bad, row, queue, issued, sends, mishaps>>

InsertRowOver(w) ==
  /\ At(w, "rows")
  /\ \E r \in Rows :
       /\ NextRow(w, r)
       /\ row' = [row EXCEPT ![Place(w, r)].status = "VALID"]
       /\ wk' = [wk EXCEPT ![w].pc = "mapping", ![w].todo = @ \ {r}, ![w].num = Number(r)]
  /\ UNCHANGED <<bad, upload, queue, issued, sends, mishaps>>

InsertRow(w) ==
  /\ At(w, "rows")
  /\ \E r \in Rows :
       /\ NextRow(w, r) /\ row[Place(w, r)].status = "ABSENT"
       /\ row' = [row EXCEPT ![Place(w, r)].status = "VALID"]
       /\ wk' = [wk EXCEPT ![w].pc = "mapping", ![w].todo = @ \ {r}, ![w].num = Number(r)]
  /\ UNCHANGED <<bad, upload, queue, issued, sends, mishaps>>

RaiseUnmarked(w) ==
  /\ UNCHANGED upload
  /\ queue' = IF wk[w].job = "task" /\ wk[w].tries < MaxTaskRetries
                THEN queue \cup {<<Up(w), wk[w].tries + 1>>} ELSE queue
  /\ Free(w)

RaiseOnceMore(w) ==
  /\ SetStatus(Up(w), "FAILED")
  /\ queue' = IF wk[w].job = "task" /\ wk[w].tries <= MaxTaskRetries
                THEN queue \cup {<<Up(w), wk[w].tries + 1>>} ELSE queue
  /\ Free(w)

\* The handlers of process_excel_upload (which lets Celery try again), of the
\* watcher and of the agent.
Raise(w) ==
  /\ SetStatus(Up(w), "FAILED")
  /\ queue' = IF wk[w].job = "task" /\ wk[w].tries < MaxTaskRetries
                THEN queue \cup {<<Up(w), wk[w].tries + 1>>} ELSE queue
  /\ Free(w)

\* The INSERT hits the unique key (upload, row_number), outside of any try.
KeyTaken(w) ==
  /\ At(w, "invalid") \/ At(w, "rows")
  /\ \E r \in Rows : NextRow(w, r) /\ row[Place(w, r)].status # "ABSENT"
  /\ Raise(w)
  /\ UNCHANGED <<bad, row, issued, sends, mishaps>>

\* Reading the file or saving the upload or a row fails; the soft time limit.
RunFails(w) ==
  /\ wk[w].pc \in {"parsing", "arrived", "invalid", "rows"}
  /\ Raise(w)
  /\ Note(Up(w), {"down"})
  /\ UNCHANGED <<bad, row, issued, sends>>

FinishRunAny(w) ==
  /\ At(w, "rows") /\ wk[w].todo = {}
  /\ upload' = [upload EXCEPT ![Up(w)] =
       [status |-> IF wk[w].cleared > 0 THEN "COMPLETE" ELSE "FAILED",
        cleared |-> wk[w].cleared, failed |-> wk[w].failed]]
  /\ Free(w)
  /\ UNCHANGED <<bad, row, queue, issued, sends, mishaps>>

FinishRunTotal(w) ==
  /\ At(w, "rows") /\ wk[w].todo = {}
  /\ upload' = [upload EXCEPT ![Up(w)] =
       [status |-> IF wk[w].failed = 0 THEN "COMPLETE" ELSE "PARTIAL",
        cleared |-> wk[w].cleared + wk[w].failed, failed |-> wk[w].failed]]
  /\ Free(w)
  /\ UNCHANGED <<bad, row, queue, issued, sends, mishaps>>

\* A request that has passed the duplicate check by now will not look again.
\* (The mail agent reads the IRNs afterwards, for its reply; left out.)
FinishRun(w) ==
  /\ At(w, "rows") /\ wk[w].todo = {}
  /\ upload' = [upload EXCEPT ![Up(w)] =
       [status |-> IF wk[w].failed = 0 THEN "COMPLETE"
                   ELSE IF wk[w].cleared = 0 THEN "FAILED" ELSE "PARTIAL",
        cleared |-> wk[w].cleared, failed |-> wk[w].failed]]
  /\ Free(w)
  /\ Note(Up(w), IF \E v \in Workers : At(v, "checked") THEN {"resent"} ELSE {})
  /\ UNCHANGED <<bad, row, queue, issued, sends>>

-----------------------------------------------------------------------------
(* _process_row, for a row of the file or, in a retry, a row of the table.   *)

\* The row is done with; True counts as cleared.
Returned(r, ok) ==
  IF r.job = "retry"
    THEN [Idle EXCEPT !.pc = "retrying", !.job = "retry", !.list = r.list]
    ELSE [r EXCEPT !.pc = "rows", !.num = 0, !.attempts = 0, !.resp = 0,
                   !.cleared = IF ok THEN @ + 1 ELSE @,
                   !.failed = IF ok THEN @ ELSE @ + 1]

Return(w, ok) == wk' = [wk EXCEPT ![w] = Returned(wk[w], ok)]

Goto(w, pc) == wk' = [wk EXCEPT ![w].pc = pc]

MapRow(w) ==
  /\ At(w, "mapping")
  /\ row' = [row EXCEPT ![Slot(w)].status = "VALID", ![Slot(w)].mapped = TRUE]
  /\ IF wk[w].job = "dry" THEN Return(w, TRUE) ELSE Goto(w, "ready")
  /\ UNCHANGED <<bad, upload, queue, issued, sends, mishaps>>

\* The counter is the one of the object in memory, read when it was loaded.
SaveSubmitted(w) ==
  /\ At(w, "ready")
  /\ row' = [row EXCEPT ![Slot(w)].status = "SUBMITTED", ![Slot(w)].attempts = wk[w].attempts + 1]
  /\ wk' = [wk EXCEPT ![w].pc = "sending", ![w].attempts = @ + 1]
  /\ sends' = [sends EXCEPT ![Slot(w)] = @ + 1]
  /\ UNCHANGED <<bad, upload, queue, issued, mishaps>>

\* provider.submit: the APP answers with an IRN (hit = 1) or not; requests it
\* accepted without the middleware learning the IRN (lost) are sent again.
Submit(w) ==
  LET s == Slot(w) IN
  /\ At(w, "sending")
  /\ \E hit \in 0 .. 1, lost \in 0 .. AppTries :
       /\ hit + lost <= AppTries
       /\ issued' = [issued EXCEPT ![s] = @ + hit + lost]
       /\ wk' = [wk EXCEPT ![w].pc = "answered",
                           ![w].resp = IF hit = 1 THEN issued[s] + hit + lost ELSE 0]
       /\ Note(Up(w), IF lost > 0 THEN {"lost"} ELSE {})
  /\ UNCHANGED <<bad, upload, row, queue, sends>>

SaveCleared(w) ==
  /\ At(w, "answered") /\ wk[w].resp # 0
  /\ row' = [row EXCEPT ![Slot(w)].status = "CLEARED", ![Slot(w)].irn = wk[w].resp]
  /\ Return(w, TRUE)
  /\ UNCHANGED <<bad, upload, queue, issued, sends, mishaps>>

SaveFailed(w) ==
  /\ At(w, "answered") /\ wk[w].resp = 0
  /\ SetRow(w, "FAILED")
  /\ Return(w, FALSE)
  /\ UNCHANGED <<bad, upload, queue, issued, sends, mishaps>>

InRow(w) == wk[w].pc \in {"mapping", "ready", "sending", "answered"}

RowFailsBlank(w) ==
  /\ InRow(w)
  /\ row' = [row EXCEPT ![Slot(w)].status = "FAILED", ![Slot(w)].irn = 0]
  /\ Return(w, FALSE)
  /\ Note(Up(w), IF wk[w].resp # 0 THEN {"lost"} ELSE {})
  /\ UNCHANGED <<bad, upload, queue, issued, sends>>

\* A MappingError or any other exception, the soft time limit included.
RowFails(w) ==
  /\ InRow(w)
  /\ SetRow(w, "FAILED")
  /\ Return(w, FALSE)
  /\ Note(Up(w), IF wk[w].resp # 0 THEN {"lost"} ELSE {})
  /\ UNCHANGED <<bad, upload, queue, issued, sends>>

\* The handler cannot save FAILED either: a retry goes on, a run is over.
RowRaises(w) ==
  /\ InRow(w)
  /\ IF wk[w].job = "retry" THEN Return(w, FALSE) /\ UNCHANGED <<upload, queue>> ELSE Raise(w)
  /\ Note(Up(w), {"down"})
  /\ UNCHANGED <<bad, row, issued, sends>>

-----------------------------------------------------------------------------
(* retry_failed_excel_rows                                                   *)

Picked(v, s) == wk[v].job = "retry" /\ (Slot(v) = s \/ \E e \in wk[v].list : e[1] = s)

StartRetryOneMore(w) ==
  LET due == {s \in Slots : row[s].status = "FAILED" /\ row[s].attempts <= MaxAttempts
                            /\ row[s].mapped} IN
  /\ At(w, "idle") /\ due # {}
  /\ wk' = [wk EXCEPT ![w] = [Idle EXCEPT !.pc = "retrying", !.job = "retry",
                                          !.list = {<<s, row[s].attempts>> : s \in due}]]
  /\ UNCHANGED <<bad, upload, row, queue, issued, sends, mishaps>>

\* The rows below the limit are read once; those never mapped are passed over.
StartRetry(w) ==
  LET due == {s \in Slots : row[s].status = "FAILED" /\ row[s].attempts < MaxAttempts
                            /\ row[s].mapped} IN
  /\ At(w, "idle") /\ due # {}
  /\ wk' = [wk EXCEPT ![w] = [Idle EXCEPT !.pc = "retrying", !.job = "retry",
                                          !.list = {<<s, row[s].attempts>> : s \in due}]]
  /\ mishaps' = [u \in Uploads |-> mishaps[u] \cup
       IF \E s \in due, v \in Workers : s[1] = u /\ Picked(v, s) THEN {"overlap"} ELSE {}]
  /\ UNCHANGED <<bad, upload, row, queue, issued, sends>>

\* In the order of the table, by row number within an upload.
RetryRow(w) ==
  /\ At(w, "retrying")
  /\ \E e \in wk[w].list :
       /\ \A f \in wk[w].list : f[1][1] = e[1][1] => e[1][2] <= f[1][2]
       /\ wk' = [wk EXCEPT ![w].pc = "mapping", ![w].list = @ \ {e}, ![w].up = e[1][1],
                           ![w].num = e[1][2], ![w].attempts = e[2]]
  /\ UNCHANGED <<bad, upload, row, queue, issued, sends, mishaps>>

EndRetry(w) ==
  /\ At(w, "retrying") /\ wk[w].list = {}
  /\ Free(w)
  /\ UNCHANGED <<bad, upload, row, queue, issued, sends, mishaps>>

\* The process dies (hard time limit, restart, the watcher being stopped); the
\* message it had acknowledged on receipt is gone.
Crash(w) ==
  /\ ~At(w, "idle")
  /\ Free(w)
  /\ mishaps' = [u \in Uploads |-> mishaps[u] \cup IF u = Up(w) THEN {"down"} ELSE {}]
  /\ UNCHANGED <<bad, upload, row, queue, issued, sends>>

-----------------------------------------------------------------------------
Intake(w) ==
  \/ CheckUpload(w) \/ RefuseFile(w)
  \/ \E u \in Uploads : CreateUpload(w, u) \/ Arrive(w, u)
  \/ \E u \in Uploads, n \in 0 .. MaxTaskRetries : StartTask(w, u, n)

Run(w) ==
  \/ StartRun(w) \/ SaveInvalid(w) \/ NoValidRows(w) \/ StartRows(w)
  \/ InsertRow(w) \/ KeyTaken(w) \/ RunFails(w) \/ FinishRun(w)

ProcessRow(w) ==
  \/ MapRow(w) \/ SaveSubmitted(w) \/ Submit(w)
  \/ SaveCleared(w) \/ SaveFailed(w) \/ RowFails(w) \/ RowRaises(w)

Retry(w) == StartRetry(w) \/ RetryRow(w) \/ EndRetry(w)

Next == \E w \in Workers : Intake(w) \/ Run(w) \/ ProcessRow(w) \/ Retry(w) \/ Crash(w)

Spec == Init /\ [][Next]_vars

-----------------------------------------------------------------------------
(* Properties.  As in InvoiceLifecycle, a property names the mishaps that    *)
(* excuse it: it shows that only those can do the damage.                    *)

Excused(u, m) == \E x \in m : x \in mishaps[u]

\* An upload shown as COMPLETE, which makes the file a duplicate from then on,
\* has an IRN for every valid row, unless it came by a dry run.
CompleteIsCleared ==
  \A u \in Uploads :
    upload[u].status = "COMPLETE" =>
      \/ \A r \in Rows \ bad : row[<<u, Number(r)>>].status = "CLEARED"
      \/ Excused(u, {"dry"})

\* cleared_rows, which customers are shown, never exceeds the rows with an IRN.
NeverOverstated ==
  \A u \in Uploads :
    \/ upload[u].cleared <= Cardinality({n \in Nums : row[<<u, n>>].irn # 0})
    \/ Excused(u, {"dry"})

\* The status that retry_failed_excel_rows selects by, and the unique key that
\* stops a retried run, keep FIRS from clearing a row of an upload twice,
\* except when retries overlap or the outcome of a submission was lost.
RowClearedOnce ==
  \A s \in Slots : issued[s] > 1 => Excused(s[1], {"overlap", "lost"})

\* The duplicate checks keep FIRS from clearing one row of a file for two
\* uploads, except when the second was let in while the first was not COMPLETE.
FileClearedOnce ==
  \A u, v \in Uploads, n \in Nums :
    u # v /\ issued[<<u, n>>] > 0 /\ issued[<<v, n>>] > 0 =>
      Excused(u, {"resent"}) \/ Excused(v, {"resent"})

\* A row with an IRN is never shown as anything but cleared, except when two
\* retries worked on it at once.
ClearedStaysCleared ==
  \A s \in Slots : row[s].irn # 0 => row[s].status = "CLEARED" \/ Excused(s[1], {"overlap"})

\* No upload is left RECEIVED, PARSING or PROCESSING, and no row SUBMITTED, in
\* which nothing would pick it up, unless its process died or the database or
\* the broker failed.
UploadIsHeld ==
  \A u \in Uploads :
    \/ Excused(u, {"down"})
    \/ /\ upload[u].status \in {"RECEIVED", "PARSING", "PROCESSING"} =>
            \/ \E w \in Workers : wk[w].up = u /\ wk[w].job # "retry"
            \/ \E n \in 0 .. MaxTaskRetries : <<u, n>> \in queue
       /\ \A n \in Nums : row[<<u, n>>].status = "SUBMITTED" =>
            \E w \in Workers : Slot(w) = <<u, n>> /\ wk[w].pc \in {"sending", "answered"}

\* A row is sent to the APP at most MaxAttempts times, except when retries
\* overlap; rows of a dry run are never sent.
SendsWithinLimit ==
  \A s \in Slots :
    /\ sends[s] > MaxAttempts => Excused(s[1], {"overlap"})
    /\ Excused(s[1], {"dry"}) => sends[s] = 0

\* The rows keep the same promise about IRNs as Sage invoices; no ERP is told.
Clearance == INSTANCE InvoiceClearance WITH
  Invoices <- Slots, irn <- [s \in Slots |-> row[s].irn], sage <- [s \in Slots |-> 0]
ImplementsClearance == Clearance!Spec

-----------------------------------------------------------------------------
(* A claim of the repository that the code does not keep.                    *)

\* pipeline.py:46, "Run full pipeline for all valid rows in the parsed Excel
\* file": a finished run has tried every valid row, if nothing else failed.
EveryValidRowIsTried ==
  \A u \in Uploads :
    (/\ upload[u].status \in {"COMPLETE", "PARTIAL", "FAILED"}
     /\ \E n \in Nums : row[<<u, n>>].status # "ABSENT"
     /\ ~Excused(u, {"down"})
     /\ \A n \in 0 .. MaxTaskRetries : <<u, n>> \notin queue
     /\ \A w \in Workers : wk[w].up # u) =>
      \A r \in Rows \ bad : row[<<u, Number(r)>>].status \notin {"ABSENT", "INVALID"}
=============================================================================
