-------------------------- MODULE InvoiceLifecycle --------------------------
(***************************************************************************)
(* The life of a Sage 200 invoice in the middleware: the Celery tasks of   *)
(* apps/invoices/tasks.py, the pipeline they run (apps/invoices/           *)
(* pipeline.py) and the API views that queue them, executed by concurrent  *)
(* workers that share nothing but the database and the broker.             *)
(*                                                                         *)
(* A worker holds an Invoice object it read earlier and saves it field by  *)
(* field, so every save, call to the APP and call to the ERP is a step of  *)
(* its own.  wk[w].pc says what the worker does next:                      *)
(*                                                                         *)
(*   idle      waits for a task                                            *)
(*   polling   inside InvoicePipeline.run, between two invoices            *)
(*   fresh     saw no row for the invoice; maps it, then creates the row   *)
(*   pull      submit_single_invoice past its guards; re-reads the ERP     *)
(*   ready     holds the row and the mapped data; saves SUBMITTING         *)
(*   sending   calls the APP                                               *)
(*   answered  has the APP's answer; writes the SubmissionLog              *)
(*   logged    saves CLEARED with the IRN, or FAILED                       *)
(*   cleared   writes the IRN back to the ERP                              *)
(*   written   saves WRITTEN_BACK                                          *)
(*                                                                         *)
(* A definition directly followed by the one whose name it extends (Submit *)
(* after SubmitUnlogged) is a faulty variant, part of no specification: it *)
(* shows which slip in the code a property would notice.                   *)
(***************************************************************************)
EXTENDS Naturals, FiniteSets

CONSTANTS
  Invoices,         \* the client's invoices in the ERP
  NoInvoice,        \* what an unoccupied worker holds
  Workers,          \* worker processes (celery --concurrency=4)
  HasSageApi,       \* are Sage API credentials configured for the client?
  MaxAttempts,      \* the limit in Invoice.is_retryable (5)
  MaxTaskRetries,   \* max_retries of submit_single_invoice (3)
  AppTries,         \* requests that one provider.submit may send (3)
  MaxSends,         \* bound: submissions started per invoice
  MaxQueued         \* bound: copies of one message in the broker

ASSUME LifecycleAssumption ==
  /\ NoInvoice \notin Invoices
  /\ HasSageApi \in BOOLEAN
  /\ MaxAttempts \in Nat /\ MaxTaskRetries \in Nat /\ AppTries \in Nat \ {0}
  /\ MaxSends \in Nat    /\ MaxQueued \in Nat

VARIABLES
  inv,      \* the Invoice table; irn is 0 when blank, due is next_retry_at <= now
  queue,    \* the broker: number of copies of each message
  wk,       \* the workers
  active,   \* ClientCompany.is_active
  sage,     \* the IRN stored on the invoice in the ERP
  issued,   \* history: IRNs the APP issued for the invoice
  logged,   \* the IRNs found in the invoice's SubmissionLog rows
  sends,    \* history: submissions started
  mishaps   \* history: what went wrong while the invoice was in flight

vars == <<inv, queue, wk, active, sage, issued, logged, sends, mishaps>>

Status == {"ABSENT", "PENDING", "SUBMITTING", "CLEARED", "FAILED", "WRITTEN_BACK"}
Cleared == {"CLEARED", "WRITTEN_BACK"}
Mishap == {"overlap", "crash", "interrupt", "lostAnswer", "lines"}

Invoice == [status : Status, attempts : Nat, irn : Nat, due : BOOLEAN]
Absent == [status |-> "ABSENT", attempts |-> 0, irn |-> 0, due |-> FALSE]

\* retry_single_invoice(i) and submit_single_invoice(i), the latter with the
\* number of times Celery has already retried it.
Message == [task : {"retry", "submit"}, inv : Invoices, tries : 0 .. MaxTaskRetries]
RetryMsg(i)     == [task |-> "retry",  inv |-> i, tries |-> 0]
SubmitMsg(i, n) == [task |-> "submit", inv |-> i, tries |-> n]

\* attempts is the counter of the in-memory Invoice object, resp the IRN in
\* the APP's answer (0 when it is a failure or carries no IRN).
Worker == [pc : {"idle", "polling", "fresh", "pull", "ready", "sending",
                 "answered", "logged", "cleared", "written"},
           job : {"none", "poll", "submit"}, inv : Invoices \cup {NoInvoice},
           tries : 0 .. MaxTaskRetries, attempts : Nat, resp : Nat]
Idle == [pc |-> "idle", job |-> "none", inv |-> NoInvoice,
         tries |-> 0, attempts |-> 0, resp |-> 0]
Polling == [pc |-> "polling", job |-> "poll", inv |-> NoInvoice,
            tries |-> 0, attempts |-> 0, resp |-> 0]

TypeOK ==
  /\ inv \in [Invoices -> Invoice]
  /\ queue \in [Message -> Nat]
  /\ wk \in [Workers -> Worker]
  /\ active \in BOOLEAN
  /\ sage \in [Invoices -> Nat]
  /\ issued \in [Invoices -> Nat]
  /\ logged \in [Invoices -> SUBSET Nat]
  /\ sends \in [Invoices -> Nat]
  /\ mishaps \in [Invoices -> SUBSET Mishap]

Init ==
  /\ inv = [i \in Invoices |-> Absent]
  /\ queue = [m \in Message |-> 0]
  /\ wk = [w \in Workers |-> Idle]
  /\ active = TRUE
  /\ sage = [i \in Invoices |-> 0]
  /\ issued = [i \in Invoices |-> 0]
  /\ logged = [i \in Invoices |-> {}]
  /\ sends = [i \in Invoices |-> 0]
  /\ mishaps = [i \in Invoices |-> {}]

-----------------------------------------------------------------------------
At(w, pc) == wk[w].pc = pc
Goto(w, pc) == wk' = [wk EXCEPT ![w].pc = pc]
Move(w, pc, a, r) ==
  wk' = [wk EXCEPT ![w] = [pc |-> pc, job |-> @.job, inv |-> @.inv,
                           tries |-> @.tries, attempts |-> a, resp |-> r]]

\* UPDATE of the columns that the code names; the others keep their value.
Save(i, s, a, k, d) ==
  inv' = [inv EXCEPT ![i] = [status |-> s, attempts |-> a, irn |-> k, due |-> d]]
SaveStatus(i, s) == inv' = [inv EXCEPT ![i].status = s]

\* The task is over, or the polling loop moves on to its next invoice.
Done(w) == wk' = [wk EXCEPT ![w] = IF @.job = "poll" THEN Polling ELSE Idle]

\* v works on i with a row (or the promise of one) in its hands.
Holds(v, i) == wk[v].inv = i /\ wk[v].pc # "fresh"

Note(i, m) == mishaps' = [mishaps EXCEPT ![i] = @ \cup m]

Enqueue(m) == queue[m] < MaxQueued /\ queue' = [queue EXCEPT ![m] = @ + 1]
TakeUnchecked(m) == queue' = [queue EXCEPT ![m] = @ - 1]
Take(m) == queue[m] > 0 /\ queue' = [queue EXCEPT ![m] = @ - 1]

\* A call to the broker that may fail: the code logs that and goes on.
TryEnqueue(m) == Enqueue(m) \/ UNCHANGED queue

IsRetryableOneLess(i) == inv[i].status = "FAILED" /\ inv[i].attempts + 1 < MaxAttempts
IsRetryable(i) == inv[i].status = "FAILED" /\ inv[i].attempts < MaxAttempts

\* Unconditional UPDATE, whatever the row's status is by now.
MarkFailed(i) == Save(i, "FAILED", inv[i].attempts, inv[i].irn, FALSE)

-----------------------------------------------------------------------------
(* Messages: Beat, the API views, and the tasks that only queue other tasks. *)

\* next_retry_at lies in the past from now on.
BackoffElapses(i) ==
  /\ inv[i].status = "FAILED" /\ ~inv[i].due
  /\ inv' = [inv EXCEPT ![i].due = TRUE]
  /\ UNCHANGED <<queue, wk, active, sage, issued, logged, sends, mishaps>>

\* retry_failed_submissions, for one of the invoices it selects.
RetryFailed(i) ==
  /\ IsRetryable(i) /\ inv[i].due /\ active
  /\ Enqueue(RetryMsg(i))
  /\ UNCHANGED <<inv, wk, active, sage, issued, logged, sends, mishaps>>

\* POST /api/invoices/{id}/retry/
RetryInvoiceView(i) ==
  /\ IsRetryable(i)
  /\ Enqueue(RetryMsg(i))
  /\ UNCHANGED <<inv, wk, active, sage, issued, logged, sends, mishaps>>

\* POST /api/invoices/{id}/submit/: only CLEARED is turned away.
SubmitInvoiceView(i) ==
  /\ inv[i].status \notin {"ABSENT", "CLEARED"}
  /\ Enqueue(SubmitMsg(i, 0))
  /\ UNCHANGED <<inv, wk, active, sage, issued, logged, sends, mishaps>>

RetrySingle(w, i) ==
  /\ At(w, "idle") /\ queue[RetryMsg(i)] > 0
  /\ \/ /\ IsRetryable(i)
        /\ queue[SubmitMsg(i, 0)] < MaxQueued
        /\ queue' = [queue EXCEPT ![RetryMsg(i)] = @ - 1, ![SubmitMsg(i, 0)] = @ + 1]
     \/ ~IsRetryable(i) /\ Take(RetryMsg(i))
  /\ UNCHANGED <<inv, wk, active, sage, issued, logged, sends, mishaps>>

\* An administrator switches the client off, or on again.
ToggleClient ==
  /\ active' = ~active
  /\ UNCHANGED <<inv, queue, wk, sage, issued, logged, sends, mishaps>>

-----------------------------------------------------------------------------
(* process_client_invoices: the polling loop of InvoicePipeline.run.         *)

StartPoll(w) ==
  /\ At(w, "idle") /\ active
  /\ wk' = [wk EXCEPT ![w] = Polling]
  /\ UNCHANGED <<inv, queue, active, sage, issued, logged, sends, mishaps>>

EndPoll(w) ==
  /\ At(w, "polling")
  /\ wk' = [wk EXCEPT ![w] = Idle]
  /\ UNCHANGED <<inv, queue, active, sage, issued, logged, sends, mishaps>>

\* The existence check; an invoice that has a row is skipped.
PollInvoice(w, i) ==
  /\ At(w, "polling") /\ inv[i].status = "ABSENT"
  /\ wk' = [wk EXCEPT ![w] = [pc |-> "fresh", job |-> "poll", inv |-> i,
                              tries |-> 0, attempts |-> 0, resp |-> 0]]
  /\ UNCHANGED <<inv, queue, active, sage, issued, logged, sends, mishaps>>

\* Mapping, the provider or the INSERT raises (the row exists by now): the
\* error is kept in memory and the database is left alone.
RememberError(w) ==
  /\ At(w, "fresh")
  /\ Done(w)
  /\ UNCHANGED <<inv, queue, active, sage, issued, logged, sends, mishaps>>

\* _save_invoice commits the row, then the lines one by one; when a line
\* fails, the row stays behind and _process_single does not know it.
SaveInvoice(w) ==
  LET i == wk[w].inv IN
  /\ At(w, "fresh") /\ inv[i].status = "ABSENT"
  /\ SaveStatus(i, "PENDING")
  /\ \/ Goto(w, "ready") /\ UNCHANGED mishaps
     \/ Done(w) /\ Note(i, {"lines"})
  /\ UNCHANGED <<queue, active, sage, issued, logged, sends>>

-----------------------------------------------------------------------------
(* submit_single_invoice, up to the call of _process_single.                 *)

StartSubmitUnguarded(w, i, n) ==
  /\ At(w, "idle") /\ Take(SubmitMsg(i, n))
  /\ wk' = [wk EXCEPT ![w] = [pc |-> "pull", job |-> "submit", inv |-> i,
                 tries |-> n, attempts |-> inv[i].attempts, resp |-> 0]]
  /\ Note(i, IF \E v \in Workers : Holds(v, i) THEN {"overlap"} ELSE {})
  /\ UNCHANGED <<inv, active, sage, issued, logged, sends>>

StartSubmit(w, i, n) ==
  /\ At(w, "idle") /\ Take(SubmitMsg(i, n))
  /\ \/ /\ inv[i].status \in Cleared \/ inv[i].irn # 0 \/ ~active
        /\ UNCHANGED <<wk, mishaps>>
     \/ /\ inv[i].status \notin Cleared /\ inv[i].irn = 0 /\ active
        /\ wk' = [wk EXCEPT ![w] = [pc |-> "pull", job |-> "submit", inv |-> i,
                       tries |-> n, attempts |-> inv[i].attempts, resp |-> 0]]
        /\ Note(i, IF \E v \in Workers : Holds(v, i) THEN {"overlap"} ELSE {})
  /\ UNCHANGED <<inv, active, sage, issued, logged, sends>>

RepullFound(w) ==
  /\ At(w, "pull")
  /\ Goto(w, "ready")
  /\ UNCHANGED <<inv, queue, active, sage, issued, logged, sends, mishaps>>

\* The invoice is gone from the ERP: the task ends and changes nothing.
RepullMissing(w) ==
  /\ At(w, "pull")
  /\ Done(w)
  /\ UNCHANGED <<inv, queue, active, sage, issued, logged, sends, mishaps>>

\* The ERP cannot be reached: next_retry_at moves out, the status stays.
RepullUnreachable(w) ==
  /\ At(w, "pull")
  /\ inv' = [inv EXCEPT ![wk[w].inv].due = FALSE]
  /\ Done(w)
  /\ UNCHANGED <<queue, active, sage, issued, logged, sends, mishaps>>

\* Any other error: self.retry queues the task again, up to max_retries.
RepullError(w) ==
  LET n == wk[w].tries IN
  /\ At(w, "pull")
  /\ IF n < MaxTaskRetries THEN TryEnqueue(SubmitMsg(wk[w].inv, n + 1)) ELSE UNCHANGED queue
  /\ Done(w)
  /\ UNCHANGED <<inv, active, sage, issued, logged, sends, mishaps>>

\* The mapper or the provider raises for an invoice that has a row.
RepullRejected(w) ==
  /\ At(w, "pull")
  /\ MarkFailed(wk[w].inv)
  /\ Done(w)
  /\ UNCHANGED <<queue, active, sage, issued, logged, sends, mishaps>>

-----------------------------------------------------------------------------
(* _process_single from Step C on, for a polled or a re-submitted invoice.   *)

\* The counter is the one of the object in memory, read when it was loaded.
SaveSubmitting(w) ==
  LET i == wk[w].inv IN
  /\ At(w, "ready") /\ sends[i] < MaxSends
  /\ Save(i, "SUBMITTING", wk[w].attempts + 1, inv[i].irn, inv[i].due)
  /\ Move(w, "sending", wk[w].attempts + 1, wk[w].resp)
  /\ sends' = [sends EXCEPT ![i] = @ + 1]
  /\ UNCHANGED <<queue, active, sage, issued, logged, mishaps>>

SubmitUnlogged(w) ==
  LET i == wk[w].inv IN
  /\ At(w, "sending")
  /\ issued' = [issued EXCEPT ![i] = @ + 1]
  /\ Move(w, "logged", wk[w].attempts, issued[i] + 1)
  /\ UNCHANGED <<inv, queue, active, sage, logged, sends, mishaps>>

\* provider.submit: the APP answers with an IRN (hit = 1) or not; requests it
\* accepted without the middleware learning the IRN (lost) are sent again.
Submit(w) ==
  LET i == wk[w].inv IN
  /\ At(w, "sending")
  /\ \E hit \in 0 .. 1, lost \in 0 .. AppTries :
       /\ hit + lost <= AppTries
       /\ issued' = [issued EXCEPT ![i] = @ + hit + lost]
       /\ Move(w, "answered", wk[w].attempts, IF hit = 1 THEN issued[i] + hit + lost ELSE 0)
       /\ Note(i, IF lost > 0 THEN {"lostAnswer"} ELSE {})
  /\ UNCHANGED <<inv, queue, active, sage, logged, sends>>

\* Save ubl_payload, then one SubmissionLog row with the answer's body.
LogSubmission(w) ==
  LET i == wk[w].inv IN
  /\ At(w, "answered")
  /\ logged' = [logged EXCEPT ![i] = @ \cup ({wk[w].resp} \ {0})]
  /\ Goto(w, "logged")
  /\ UNCHANGED <<inv, queue, active, sage, issued, sends, mishaps>>

SaveClearedUnchecked(w) ==
  LET i == wk[w].inv IN
  /\ At(w, "logged")
  /\ Save(i, "CLEARED", inv[i].attempts, wk[w].resp, inv[i].due)
  /\ Goto(w, "cleared")
  /\ UNCHANGED <<queue, active, sage, issued, logged, sends, mishaps>>

SaveClearedReset(w) ==
  LET i == wk[w].inv IN
  /\ At(w, "logged") /\ wk[w].resp # 0
  /\ Save(i, "CLEARED", 0, wk[w].resp, inv[i].due)
  /\ Goto(w, "cleared")
  /\ UNCHANGED <<queue, active, sage, issued, logged, sends, mishaps>>

SaveCleared(w) ==
  LET i == wk[w].inv IN
  /\ At(w, "logged") /\ wk[w].resp # 0
  /\ Save(i, "CLEARED", inv[i].attempts, wk[w].resp, inv[i].due)
  /\ Goto(w, "cleared")
  /\ UNCHANGED <<queue, active, sage, issued, logged, sends, mishaps>>

HandleFailureUnmarked(w) ==
  /\ At(w, "logged") /\ wk[w].resp = 0
  /\ TryEnqueue(RetryMsg(wk[w].inv))
  /\ Done(w)
  /\ UNCHANGED <<inv, active, sage, issued, logged, sends, mishaps>>

HandleFailureBlank(w) ==
  LET i == wk[w].inv IN
  /\ At(w, "logged") /\ wk[w].resp = 0
  /\ Save(i, "FAILED", inv[i].attempts, 0, FALSE)
  /\ TryEnqueue(RetryMsg(i))
  /\ Done(w)
  /\ UNCHANGED <<active, sage, issued, logged, sends, mishaps>>

\* _handle_failure: mark FAILED, then queue the countdown retry.
HandleFailure(w) ==
  LET i == wk[w].inv IN
  /\ At(w, "logged") /\ wk[w].resp = 0
  /\ MarkFailed(i)
  /\ TryEnqueue(RetryMsg(i))
  /\ Done(w)
  /\ UNCHANGED <<active, sage, issued, logged, sends, mishaps>>

\* write_irn: without API credentials it returns False and nobody looks.
WriteIRN(w) ==
  /\ At(w, "cleared")
  /\ sage' = IF HasSageApi THEN [sage EXCEPT ![wk[w].inv] = wk[w].resp] ELSE sage
  /\ Goto(w, "written")
  /\ UNCHANGED <<inv, queue, active, issued, logged, sends, mishaps>>

WriteIRNFailsUnnoticed(w) ==
  /\ At(w, "cleared")
  /\ Goto(w, "written")
  /\ UNCHANGED <<inv, queue, active, sage, issued, logged, sends, mishaps>>

WriteIRNFailsMarked(w) ==
  /\ At(w, "cleared")
  /\ MarkFailed(wk[w].inv)
  /\ Done(w)
  /\ UNCHANGED <<queue, active, sage, issued, logged, sends, mishaps>>

\* write_irn raises, before or after the ERP took the IRN; it is only logged.
WriteIRNFails(w) ==
  /\ At(w, "cleared")
  /\ \/ UNCHANGED sage
     \/ HasSageApi /\ sage' = [sage EXCEPT ![wk[w].inv] = wk[w].resp]
  /\ Done(w)
  /\ UNCHANGED <<inv, queue, active, issued, logged, sends, mishaps>>

SaveWrittenBack(w) ==
  /\ At(w, "written")
  /\ SaveStatus(wk[w].inv, "WRITTEN_BACK")
  /\ Done(w)
  /\ UNCHANGED <<queue, active, sage, issued, logged, sends, mishaps>>

\* An exception between Step C and the end of Step F (a failing save, the
\* soft time limit): the blanket handler marks the invoice FAILED.
Interrupt(w) ==
  /\ wk[w].pc \in {"ready", "sending", "answered", "logged"}
  /\ MarkFailed(wk[w].inv)
  /\ Note(wk[w].inv, {"interrupt"})
  /\ Done(w)
  /\ UNCHANGED <<queue, active, sage, issued, logged, sends>>

\* The worker process dies (hard time limit, restart); the message it had
\* acknowledged on receipt is gone.
Crash(w) ==
  /\ wk[w].inv # NoInvoice
  /\ Note(wk[w].inv, {"crash"})
  /\ wk' = [wk EXCEPT ![w] = Idle]
  /\ UNCHANGED <<inv, queue, active, sage, issued, logged, sends>>

-----------------------------------------------------------------------------
ProcessInvoice(w) ==
  \/ SaveSubmitting(w) \/ Submit(w) \/ LogSubmission(w)
  \/ SaveCleared(w) \/ HandleFailure(w)
  \/ WriteIRN(w) \/ WriteIRNFails(w) \/ SaveWrittenBack(w)

Repull(w) ==
  \/ RepullFound(w) \/ RepullMissing(w) \/ RepullUnreachable(w)
  \/ RepullError(w) \/ RepullRejected(w)

WorkerStep(w) ==
  \/ StartPoll(w) \/ EndPoll(w) \/ RememberError(w) \/ SaveInvoice(w)
  \/ \E i \in Invoices : PollInvoice(w, i) \/ RetrySingle(w, i)
  \/ \E i \in Invoices, n \in 0 .. MaxTaskRetries : StartSubmit(w, i, n)
  \/ Repull(w) \/ ProcessInvoice(w)

Automatic ==
  \/ \E i \in Invoices : BackoffElapses(i) \/ RetryFailed(i)
  \/ \E w \in Workers : WorkerStep(w)

Users == \E i \in Invoices : RetryInvoiceView(i) \/ SubmitInvoiceView(i)

Failures == \E w \in Workers : Interrupt(w) \/ Crash(w)

Next == Automatic \/ Users \/ Failures \/ ToggleClient

Spec == Init /\ [][Next]_vars

(* The fairness Beat and Celery justify: Beat fires its schedules, a worker  *)
(* finishes what it began, and no message waits for ever.  Strong fairness   *)
(* on the re-read and on the first save says that the ERP answers, and that  *)
(* workers do not die at the same instruction, every single time.            *)
Fairness ==
  /\ \A i \in Invoices :
       /\ WF_vars(BackoffElapses(i))
       /\ WF_vars(RetryFailed(i))
       /\ SF_vars(\E w \in Workers : RetrySingle(w, i))
       /\ SF_vars(\E w \in Workers, n \in 0 .. MaxTaskRetries : StartSubmit(w, i, n))
  /\ \A w \in Workers :
       /\ WF_vars(EndPoll(w)) /\ WF_vars(RememberError(w)) /\ WF_vars(Repull(w))
       /\ SF_vars(RepullFound(w))
       /\ SF_vars(SaveSubmitting(w))
       /\ WF_vars(ProcessInvoice(w))

FairSpec == Spec /\ Fairness

\* The system left alone: no user, no crash, no interrupted task.
UnattendedSpec == Init /\ [][Automatic]_vars
FairUnattendedSpec == UnattendedSpec /\ Fairness

-----------------------------------------------------------------------------
(* Safety.  A property about an invoice that nothing went wrong with names   *)
(* the mishaps that excuse it: it shows that only those can do the damage.   *)

Excused(i, m) == \E x \in m : x \in mishaps[i]

\* w still owes the invoice a final status (CLEARED or FAILED).
Owes(w, i) ==
  wk[w].inv = i /\ wk[w].pc \in {"ready", "sending", "answered", "logged"}

\* An invoice shown as CLEARED or WRITTEN_BACK carries an IRN, although the
\* status and the IRN are saved by different workers in any order.
ClearedHasIRN == \A i \in Invoices : inv[i].status \in Cleared => inv[i].irn # 0

\* Every IRN in the table can be found in the audit trail of SubmissionLog.
IRNIsAudited == \A i \in Invoices : inv[i].irn # 0 => inv[i].irn \in logged[i]

\* No invoice is left PENDING or SUBMITTING, states that no periodic task
\* looks for, unless a worker died with it or its lines could not be saved.
InFlightIsHeld ==
  \A i \in Invoices :
    inv[i].status \in {"PENDING", "SUBMITTING"} =>
      (\E w \in Workers : Owes(w, i)) \/ Excused(i, {"crash", "lines"})

\* The guards of submit_single_invoice and of the polling loop keep FIRS from
\* clearing an invoice twice, except when two tasks overlap or the outcome of
\* an earlier submission was lost.
SecondIRNNeedsMishap ==
  \A i \in Invoices :
    issued[i] > 1 => Excused(i, {"overlap", "crash", "interrupt", "lostAnswer"})

\* An invoice with an IRN is never shown as anything but cleared, except when
\* two tasks worked on it at once.
ClearedStaysCleared ==
  \A i \in Invoices :
    inv[i].irn # 0 => inv[i].status \in Cleared \/ Excused(i, {"overlap"})

\* The ERP and the middleware agree on the IRN, with the same exception.
SageAgrees ==
  \A i \in Invoices :
    sage[i] # 0 => sage[i] = inv[i].irn \/ Excused(i, {"overlap"})

\* WRITTEN_BACK means that the ERP has an IRN, when it can be written at all.
WrittenBackReachedSage ==
  HasSageApi => \A i \in Invoices : inv[i].status = "WRITTEN_BACK" => sage[i] # 0

\* submission_attempts, which the retry limit is compared with, is saved from
\* an object read earlier; it goes back only when two tasks overlap.
AttemptsFallOnlyOnOverlap ==
  [][\A i \in Invoices : inv'[i].attempts < inv[i].attempts => Excused(i, {"overlap"})]_vars

\* What the middleware promises about IRNs, see module InvoiceClearance.
Clearance == INSTANCE InvoiceClearance WITH irn <- [i \in Invoices |-> inv[i].irn]
ImplementsClearance == Clearance!Spec

\* A failed invoice below the limit is submitted again, or is no longer
\* FAILED, as long as its client stays active (MaxSends is the bound).
RetryMakesProgress ==
  \A i \in Invoices : \A k \in 0 .. MaxAttempts - 1 :
    (inv[i].status = "FAILED" /\ inv[i].attempts = k)
      ~> (inv[i].status # "FAILED" \/ inv[i].attempts # k \/ ~active \/ sends[i] = MaxSends)

-----------------------------------------------------------------------------
(* A claim of the repository that the code does not keep.                    *)

\* pipeline.py:276, "invoice is still cleared, just not written back yet.
\* Celery retry will attempt write-back again".
WriteBackIsRetried ==
  \A i \in Invoices : inv[i].status = "CLEARED" ~> inv[i].status = "WRITTEN_BACK"
=============================================================================
