--------------------------- MODULE Sage300Pipeline ---------------------------
(***************************************************************************)
(* The invoices of a Sage 300 client: process_sage300_client and the       *)
(* poll_sage300 command pull them, Sage300Pipeline (apps/sage300/          *)
(* pipeline.py) sends them to FIRS and writes the IRN back through the     *)
(* Sage 300 Web API, submit_single_invoice sends failed ones again.        *)
(* wk[w].pc says what a worker does next:                                  *)
(*                                                                         *)
(*   idle                                                                  *)
(*   connecting  Sage300Pipeline.run, about to read the ERP                *)
(*   rows        run, between two of the invoices it read                  *)
(*   fresh       _process_single, saw no row for the invoice               *)
(*   pull        submit_single_invoice, about to read the ERP again        *)
(*   ready       has the row and the mapped data; saves SUBMITTING         *)
(*   sending     calls the APP                                             *)
(*   answered    has the APP's answer; saves CLEARED or FAILED             *)
(*   cleared     writes the IRN back                                       *)
(*   written     saves WRITTEN_BACK                                        *)
(*                                                                         *)
(* How a retry reaches the queue (Beat, the countdown, the views) is in    *)
(* InvoiceLifecycle; here a failed invoice below the limit may be queued   *)
(* at any time, as a run may begin at any time: Beat queues one every five *)
(* minutes, Celery up to two more for one that failed.                     *)
(*                                                                         *)
(* A definition directly followed by the one whose name it extends is a    *)
(* faulty variant, part of no specification: it shows which slip in the    *)
(* code a property would notice.                                           *)
(***************************************************************************)
EXTENDS Naturals, Sequences, FiniteSets

CONSTANTS
  Invoices,         \* rows of ARINVOICE (types 1, 2 and 3), by batch-entry
  NoInvoice,        \* what a worker without an invoice holds
  Workers,          \* Celery workers and terminals
  HasWebApi,        \* is sage300_api_server set for the client?
  Limit,            \* rows that one read of ARINVOICE returns (500)
  MaxAttempts,      \* the limit in Invoice.is_retryable (5)
  AppTries,         \* requests that one provider.submit may send (3)
  MaxSends          \* bound: no submit_single_invoice starts at that many submissions

ASSUME PipelineAssumption ==
  /\ NoInvoice \notin Invoices
  /\ HasWebApi \in BOOLEAN
  /\ Limit \in Nat /\ MaxAttempts \in Nat
  /\ AppTries \in Nat \ {0} /\ MaxSends \in Nat

VARIABLES
  posted,   \* ARINVOICE in the order of AUDTDATE
  inv,      \* the Invoice table; irn is 0 when blank
  submits,  \* invoices with a submit_single_invoice message
  wk,       \* the workers
  sage,     \* the IRN that the ERP holds
  issued,   \* history: IRNs the APP issued for the invoice
  sends,    \* history: submissions started
  mishaps   \* history: what went wrong with the invoice

vars == <<posted, inv, submits, wk, sage, issued, sends, mishaps>>

Invoice == [status : {"ABSENT", "PENDING", "SUBMITTING", "CLEARED", "FAILED", "WRITTEN_BACK"},
            attempts : Nat, irn : Nat]
Absent == [status |-> "ABSENT", attempts |-> 0, irn |-> 0]
Mishap == {"overlap", "crash", "interrupt", "lostAnswer"}

\* todo: what a run has read and not yet processed; resp: the APP's IRN, 0 for
\* none.
Worker == [pc : {"idle", "connecting", "rows", "fresh", "pull", "ready", "sending",
                 "answered", "cleared", "written"},
           job : {"none", "run", "submit"},
           todo : SUBSET Invoices, inv : Invoices \cup {NoInvoice},
           attempts : Nat, resp : Nat]
Idle == [pc |-> "idle", job |-> "none", todo |-> {}, inv |-> NoInvoice,
         attempts |-> 0, resp |-> 0]

TypeOK ==
  /\ posted \in Seq(Invoices)
  /\ inv \in [Invoices -> Invoice]
  /\ submits \subseteq Invoices
  /\ wk \in [Workers -> Worker]
  /\ sage \in [Invoices -> Nat]
  /\ issued \in [Invoices -> Nat]
  /\ sends \in [Invoices -> Nat]
  /\ mishaps \in [Invoices -> SUBSET Mishap]

Init ==
  /\ posted = <<>>
  /\ inv = [i \in Invoices |-> Absent]
  /\ submits = {}
  /\ wk = [w \in Workers |-> Idle]
  /\ sage = [i \in Invoices |-> 0]
  /\ issued = [i \in Invoices |-> 0]
  /\ sends = [i \in Invoices |-> 0]
  /\ mishaps = [i \in Invoices |-> {}]

-----------------------------------------------------------------------------
At(w, pc) == wk[w].pc = pc
Goto(w, pc) == wk' = [wk EXCEPT ![w].pc = pc]
Note(i, m) == mishaps' = [mishaps EXCEPT ![i] = @ \cup m]
SetStatus(i, s) == inv' = [inv EXCEPT ![i].status = s]

\* submit_single_invoice ends; a run goes on with its next invoice.
Done(w) ==
  wk' = [wk EXCEPT ![w] = IF @.job = "submit" THEN Idle
                          ELSE [@ EXCEPT !.pc = "rows", !.inv = NoInvoice,
                                         !.attempts = 0, !.resp = 0]]

Row(k) == {posted[n] : n \in {k} \cap DOMAIN posted}

\* get_new_invoices: the oldest Limit rows changed after `since`; skip is how
\* many rows are not.
Read(skip) == UNION {Row(k) : k \in skip + 1 .. skip + Limit}

MarkFailedAsRejected(i) == SetStatus(i, "REJECTED")

\* Unconditional UPDATE, whatever the row's status is by now.
MarkFailed(i) == SetStatus(i, "FAILED")

IsRetryable(i) == inv[i].status = "FAILED" /\ inv[i].attempts < MaxAttempts

Holds(v, i) == wk[v].inv = i /\ wk[v].pc # "fresh"

-----------------------------------------------------------------------------
(* The ERP, Beat, and the runs they start.                                   *)

Post(i) ==
  /\ \A k \in DOMAIN posted : posted[k] # i
  /\ posted' = Append(posted, i)
  /\ UNCHANGED <<inv, submits, wk, sage, issued, sends, mishaps>>

\* process_sage300_client, queued by poll_sage300_invoices or by Celery's retry,
\* or the poll_sage300 command: up to the read in Sage300Pipeline.run.
StartRun(w) ==
  /\ At(w, "idle")
  /\ wk' = [wk EXCEPT ![w] = [Idle EXCEPT !.pc = "connecting", !.job = "run"]]
  /\ UNCHANGED <<posted, inv, submits, sage, issued, sends, mishaps>>

\* The tasks read from the start of the table, the command may skip rows.
PullInvoices(w, skip) ==
  /\ At(w, "connecting")
  /\ wk' = [wk EXCEPT ![w].pc = "rows", ![w].todo = Read(skip)]
  /\ UNCHANGED <<posted, inv, submits, sage, issued, sends, mishaps>>

\* The ERP cannot be read, or the existence check or the soft time limit raises
\* between two invoices: what was not processed is left to a later run.
RunFails(w) ==
  /\ wk[w].pc \in {"connecting", "rows"}
  /\ wk' = [wk EXCEPT ![w] = Idle]
  /\ UNCHANGED <<posted, inv, submits, sage, issued, sends, mishaps>>

EndRun(w) ==
  /\ At(w, "rows") /\ wk[w].todo = {}
  /\ wk' = [wk EXCEPT ![w] = Idle]
  /\ UNCHANGED <<posted, inv, submits, sage, issued, sends, mishaps>>

-----------------------------------------------------------------------------
(* Sage300Pipeline._process_single.                                          *)

\* The existence check: an invoice that has a row is skipped.
NextInvoice(w, i) ==
  /\ At(w, "rows") /\ i \in wk[w].todo
  /\ wk' = [wk EXCEPT ![w].todo = @ \ {i},
                      ![w].pc  = IF inv[i].status = "ABSENT" THEN "fresh" ELSE @,
                      ![w].inv = IF inv[i].status = "ABSENT" THEN i ELSE @]
  /\ UNCHANGED <<posted, inv, submits, sage, issued, sends, mishaps>>

\* The mapper, the provider or the INSERT raises: without a row nothing is
\* kept of the error, and the next poll tries again.
FreshFails(w) ==
  /\ At(w, "fresh")
  /\ Done(w)
  /\ UNCHANGED <<posted, inv, submits, sage, issued, sends, mishaps>>

\* The row is committed before its lines: when a line fails, the row stays and
\* _process_single does not know it.
SaveInvoice(w) ==
  LET i == wk[w].inv IN
  /\ At(w, "fresh") /\ inv[i].status = "ABSENT"
  /\ SetStatus(i, "PENDING")
  /\ Goto(w, "ready") \/ Done(w)
  /\ UNCHANGED <<posted, submits, sage, issued, sends, mishaps>>

\* The counter is the one of the object in memory, read when it was loaded.
SaveSubmitting(w) ==
  LET i == wk[w].inv IN
  /\ At(w, "ready")
  /\ inv' = [inv EXCEPT ![i].status = "SUBMITTING", ![i].attempts = wk[w].attempts + 1]
  /\ wk' = [wk EXCEPT ![w].pc = "sending", ![w].attempts = @ + 1]
  /\ sends' = [sends EXCEPT ![i] = @ + 1]
  /\ UNCHANGED <<posted, submits, sage, issued, mishaps>>

\* provider.submit: the APP answers with an IRN (hit = 1) or not; requests it
\* accepted without the middleware learning the IRN (lost) are sent again.
Submit(w) ==
  LET i == wk[w].inv IN
  /\ At(w, "sending")
  /\ \E hit \in 0 .. 1, lost \in 0 .. AppTries :
       /\ hit + lost <= AppTries
       /\ issued' = [issued EXCEPT ![i] = @ + hit + lost]
       /\ wk' = [wk EXCEPT ![w].pc = "answered",
                           ![w].resp = IF hit = 1 THEN issued[i] + hit + lost ELSE 0]
       /\ Note(i, IF lost > 0 THEN {"lostAnswer"} ELSE {})
  /\ UNCHANGED <<posted, inv, submits, sage, sends>>

\* _handle_success up to the write-back.
SaveCleared(w) ==
  LET i == wk[w].inv IN
  /\ At(w, "answered") /\ wk[w].resp # 0
  /\ inv' = [inv EXCEPT ![i].status = "CLEARED", ![i].irn = wk[w].resp]
  /\ Goto(w, "cleared")
  /\ UNCHANGED <<posted, submits, sage, issued, sends, mishaps>>

HandleFailureUnlessQueued(w) ==
  LET i == wk[w].inv IN
  /\ At(w, "answered") /\ wk[w].resp = 0
  /\ \/ MarkFailed(i) /\ submits' = submits \cup {i}
     \/ UNCHANGED <<inv, submits>>
  /\ Done(w)
  /\ UNCHANGED <<posted, sage, issued, sends, mishaps>>

HandleFailureBlank(w) ==
  LET i == wk[w].inv IN
  /\ At(w, "answered") /\ wk[w].resp = 0
  /\ inv' = [inv EXCEPT ![i].status = "FAILED", ![i].irn = 0]
  /\ Done(w)
  /\ UNCHANGED <<posted, submits, sage, issued, sends, mishaps>>

\* _handle_failure marks the invoice, then queues the retry.  With the broker
\* down that raises, and the blanket handler of _process_single marks the
\* invoice again, over the APP's reason.
HandleFailure(w) ==
  LET i == wk[w].inv IN
  /\ At(w, "answered") /\ wk[w].resp = 0
  /\ MarkFailed(i)
  /\ Done(w)
  /\ UNCHANGED <<posted, submits, sage, issued, sends, mishaps>>

\* Any other exception once the row exists (a failing save or log, the soft
\* time limit): the blanket handler marks the invoice FAILED.
Interrupt(w) ==
  /\ wk[w].pc \in {"ready", "sending", "answered"}
  /\ MarkFailed(wk[w].inv)
  /\ Note(wk[w].inv, {"interrupt"})
  /\ Done(w)
  /\ UNCHANGED <<posted, submits, sage, issued, sends>>

-----------------------------------------------------------------------------
(* Sage300IRNWriter.write_irn.  No failure of it goes further than a log.    *)

\* Without an API server write_irn returns False and nobody looks.
WriteIRN(w) ==
  /\ At(w, "cleared")
  /\ sage' = IF HasWebApi THEN [sage EXCEPT ![wk[w].inv] = wk[w].resp] ELSE sage
  /\ Goto(w, "written")
  /\ UNCHANGED <<posted, inv, submits, issued, sends, mishaps>>

\* The Web API does not let the writer in, or the PATCH is refused, or fails
\* before or after the ERP took it.
WriteIRNFails(w) ==
  /\ At(w, "cleared") /\ HasWebApi
  /\ sage' \in {sage, [sage EXCEPT ![wk[w].inv] = wk[w].resp]}
  /\ Done(w)
  /\ UNCHANGED <<posted, inv, submits, issued, sends, mishaps>>

SaveWrittenBack(w) ==
  /\ At(w, "written")
  /\ SetStatus(wk[w].inv, "WRITTEN_BACK")
  /\ Done(w)
  /\ UNCHANGED <<posted, submits, sage, issued, sends, mishaps>>

-----------------------------------------------------------------------------
(* submit_single_invoice for an invoice whose source_system is SAGE300.      *)

\* retry_single_invoice, queued by Beat, by a user or by _handle_failure.
QueueSubmit(i) ==
  /\ IsRetryable(i)
  /\ submits' = submits \cup {i}
  /\ UNCHANGED <<posted, inv, wk, sage, issued, sends, mishaps>>

StartSubmitUnguarded(w, i) ==
  /\ At(w, "idle") /\ i \in submits /\ sends[i] < MaxSends
  /\ submits' = submits \ {i}
  /\ wk' = [wk EXCEPT ![w] = [Idle EXCEPT !.pc = "pull", !.job = "submit", !.inv = i,
                                          !.attempts = inv[i].attempts]]
  /\ Note(i, IF \E v \in Workers : Holds(v, i) THEN {"overlap"} ELSE {})
  /\ UNCHANGED <<posted, inv, sage, issued, sends>>

StartSubmit(w, i) ==
  /\ At(w, "idle") /\ i \in submits /\ sends[i] < MaxSends
  /\ submits' = submits \ {i}
  /\ \/ /\ inv[i].status \in {"CLEARED", "WRITTEN_BACK"} \/ inv[i].irn # 0
        /\ UNCHANGED <<wk, mishaps>>
     \/ /\ inv[i].status \notin {"CLEARED", "WRITTEN_BACK"} /\ inv[i].irn = 0
        /\ wk' = [wk EXCEPT ![w] = [Idle EXCEPT !.pc = "pull", !.job = "submit", !.inv = i,
                                                !.attempts = inv[i].attempts]]
        /\ Note(i, IF \E v \in Workers : Holds(v, i) THEN {"overlap"} ELSE {})
  /\ UNCHANGED <<posted, inv, sage, issued, sends>>

\* get_invoice_by_id finds the row, and it can be mapped.
RepullFound(w) ==
  /\ At(w, "pull")
  /\ Goto(w, "ready")
  /\ UNCHANGED <<posted, inv, submits, sage, issued, sends, mishaps>>

\* The row is gone or the ERP is down: the status stays what it is.
RepullFails(w) ==
  /\ At(w, "pull")
  /\ Done(w)
  /\ UNCHANGED <<posted, inv, submits, sage, issued, sends, mishaps>>

RepullRejected(w) ==
  /\ At(w, "pull")
  /\ MarkFailed(wk[w].inv)
  /\ Done(w)
  /\ UNCHANGED <<posted, submits, sage, issued, sends, mishaps>>

\* The process dies: hard time limit, restart, closed terminal.
Crash(w) ==
  /\ ~At(w, "idle")
  /\ wk' = [wk EXCEPT ![w] = Idle]
  /\ mishaps' = [i \in Invoices |-> IF i = wk[w].inv THEN mishaps[i] \cup {"crash"} ELSE mishaps[i]]
  /\ UNCHANGED <<posted, inv, submits, sage, issued, sends>>

-----------------------------------------------------------------------------
Run(w) ==
  \/ RunFails(w) \/ EndRun(w)
  \/ \E skip \in 0 .. Len(posted) : PullInvoices(w, skip)
  \/ \E i \in Invoices : NextInvoice(w, i)

Process(w) ==
  \/ FreshFails(w) \/ SaveInvoice(w) \/ SaveSubmitting(w) \/ Submit(w)
  \/ SaveCleared(w) \/ HandleFailure(w)

WriteBack(w) == WriteIRN(w) \/ WriteIRNFails(w) \/ SaveWrittenBack(w)

Repull(w) == RepullFound(w) \/ RepullFails(w) \/ RepullRejected(w)

Next ==
  \/ \E i \in Invoices : Post(i) \/ QueueSubmit(i)
  \/ \E w \in Workers :
       \/ StartRun(w) \/ Run(w) \/ Process(w) \/ WriteBack(w) \/ Repull(w)
       \/ Interrupt(w) \/ Crash(w)
       \/ \E i \in Invoices : StartSubmit(w, i)

Spec == Init /\ [][Next]_vars

(* Beat and the workers go on, and a failed invoice that is sent again is    *)
(* found in the ERP and mapped every so often; no failure need come.         *)
Working(w) == Run(w) \/ Process(w) \/ WriteBack(w) \/ Repull(w)

Fairness ==
  /\ \A w \in Workers : WF_vars(Working(w))
  /\ \A i \in Invoices :
       /\ WF_vars(QueueSubmit(i))
       /\ SF_vars(\E w \in Workers : StartSubmit(w, i))
       /\ SF_vars(\E w \in Workers : wk[w].inv = i /\ RepullFound(w))
       /\ SF_vars(\E w \in Workers : wk[w].inv = i /\ SaveSubmitting(w))

FairSpec == Spec /\ Fairness

-----------------------------------------------------------------------------
Excused(i, m) == \E x \in m : x \in mishaps[i]

\* Two polls may run at once, and a poll beside a retry: only the existence
\* check, the unique key and the guard of submit_single_invoice keep FIRS from
\* clearing an invoice twice.  They do, except when two retries overlap or the
\* outcome of a submission is lost.
SecondIRNNeedsMishap ==
  \A i \in Invoices :
    issued[i] > 1 => Excused(i, {"overlap", "crash", "interrupt", "lostAnswer"})

\* What the middleware promises about IRNs, see module InvoiceClearance.
Clearance == INSTANCE InvoiceClearance WITH irn <- [i \in Invoices |-> inv[i].irn]
ImplementsClearance == Clearance!Spec

\* An invoice that the APP refuses is submitted again, below the limit, although
\* the retry that _handle_failure wants to queue may never reach the broker.
RefusedIsRetried ==
  \A i \in Invoices :
    (\E w \in Workers : wk[w].inv = i /\ At(w, "answered") /\ wk[w].resp = 0)
      ~> \/ \E w \in Workers : wk[w].inv = i /\ At(w, "sending")
         \/ inv[i].irn # 0 \/ inv[i].attempts >= MaxAttempts \/ sends[i] >= MaxSends
         \/ Excused(i, {"crash"})
=============================================================================
