----------------------- MODULE InvoiceLifecycleProofs -----------------------
(***************************************************************************)
(* Proofs about module InvoiceLifecycle, for any sets of invoices and      *)
(* workers and any limits.                                                 *)
(***************************************************************************)
EXTENDS InvoiceLifecycle, TLAPS

\* A worker holds an invoice exactly when it is inside the work on one.
Occupied ==
  \A w \in Workers :
    wk[w].inv = NoInvoice <=> wk[w].pc \in {"idle", "polling"}

TypeInv == TypeOK /\ Occupied

\* The messages of the broker are messages.
LEMMA Messages ==
  ASSUME NEW i \in Invoices
  PROVE  /\ RetryMsg(i) \in Message
         /\ \A n \in 0 .. MaxTaskRetries : SubmitMsg(i, n) \in Message
BY LifecycleAssumption DEF RetryMsg, SubmitMsg, Message

\* Queueing a message keeps the broker's type.
LEMMA EnqueueType ==
  ASSUME TypeOK, NEW m \in Message, TryEnqueue(m)
  PROVE  queue' \in [Message -> Nat]
BY DEF TypeOK, TryEnqueue, Enqueue

\* Taking a message keeps the broker's type.
LEMMA TakeType ==
  ASSUME TypeOK, NEW m \in Message, Take(m)
  PROVE  queue' \in [Message -> Nat]
<1>1. queue[m] \in Nat /\ queue[m] > 0
  BY DEF TypeOK, Take
<1>2. queue[m] - 1 \in Nat
  BY <1>1
<1> QED
  BY <1>2 DEF TypeOK, Take

\* A worker without an invoice is a worker.
LEMMA IdleWorkers == Idle \in Worker /\ Polling \in Worker
<1>1. 0 \in 0 .. MaxTaskRetries
  BY LifecycleAssumption
<1> QED
  BY <1>1 DEF Idle, Polling, Worker

\* Ending a task or a round of the polling loop frees the worker.
LEMMA DoneType ==
  ASSUME TypeInv, NEW w \in Workers, Done(w)
  PROVE  wk' \in [Workers -> Worker] /\ Occupied'
<1>1. Idle \in Worker /\ Polling \in Worker
  BY IdleWorkers
<1>2. wk' = [wk EXCEPT ![w] = IF wk[w].job = "poll" THEN Polling ELSE Idle]
  BY DEF Done
<1>3. wk' \in [Workers -> Worker]
  BY <1>1, <1>2 DEF TypeInv, TypeOK
<1>4. Occupied'
  BY <1>2 DEF TypeInv, TypeOK, Occupied, Idle, Polling
<1> QED
  BY <1>3, <1>4

\* What Done leaves in the worker, and in the others.
LEMMA Freed ==
  ASSUME TypeOK, NEW w \in Workers, Done(w)
  PROVE  /\ wk'[w].pc \in {"idle", "polling"}
         /\ wk'[w].inv = NoInvoice /\ wk'[w].resp = 0 /\ wk'[w].attempts = 0
         /\ \A v \in Workers : v # w => wk'[v] = wk[v]
BY DEF TypeOK, Done, Polling, Idle

\* A worker that moves on inside the work on an invoice keeps holding it.
LEMMA GotoType ==
  ASSUME TypeInv, NEW w \in Workers, ~(wk[w].pc \in {"idle", "polling"}),
         NEW pc \in {"ready", "logged", "cleared", "written"}, Goto(w, pc)
  PROVE  wk' \in [Workers -> Worker] /\ Occupied'
<1>1. wk' = [wk EXCEPT ![w].pc = pc]
  BY DEF Goto
<1>2. wk' \in [Workers -> Worker]
  BY <1>1 DEF TypeInv, TypeOK, Worker
<1>3. Occupied'
  BY <1>1 DEF TypeInv, TypeOK, Occupied, Worker
<1> QED
  BY <1>2, <1>3

\* Every reachable state is well-typed, and workers hold an invoice exactly
\* while they work on one.
THEOREM TypeInvariance == Spec => []TypeInv
<1>1. Init => TypeInv
  BY IdleWorkers DEF Init, TypeInv, TypeOK, Occupied, Invoice, Absent, Status, Idle
<1>2. TypeInv /\ [Next]_vars => TypeInv'
  <2> SUFFICES ASSUME TypeInv, [Next]_vars
               PROVE  TypeInv'
    OBVIOUS
  <2> USE DEF TypeInv
  <2>0. CASE UNCHANGED vars
    BY <2>0 DEF vars, TypeOK, Occupied
  <2>1. ASSUME NEW i \in Invoices, BackoffElapses(i)
        PROVE  TypeInv'
    BY <2>1 DEF BackoffElapses, TypeOK, Occupied, Invoice
  <2>2. ASSUME NEW i \in Invoices,
               RetryFailed(i) \/ RetryInvoiceView(i) \/ SubmitInvoiceView(i)
        PROVE  TypeInv'
    <3>1. PICK m \in Message : TryEnqueue(m)
      BY <2>2, Messages, LifecycleAssumption
         DEF RetryFailed, RetryInvoiceView, SubmitInvoiceView, TryEnqueue
    <3>2. queue' \in [Message -> Nat]
      BY <3>1, EnqueueType
    <3> QED
      BY <2>2, <3>2 DEF RetryFailed, RetryInvoiceView, SubmitInvoiceView, TypeOK, Occupied
  <2>3. ASSUME NEW w \in Workers, NEW i \in Invoices, RetrySingle(w, i)
        PROVE  TypeInv'
    <3>1. RetryMsg(i) \in Message /\ SubmitMsg(i, 0) \in Message
      BY Messages, LifecycleAssumption
    <3>2. queue' \in [Message -> Nat]
      <4>1. CASE Take(RetryMsg(i))
        BY <4>1, <3>1, TakeType
      <4>2. CASE queue' = [queue EXCEPT ![RetryMsg(i)] = @ - 1, ![SubmitMsg(i, 0)] = @ + 1]
        <5>1. queue[RetryMsg(i)] - 1 \in Nat
          BY <2>3, <3>1 DEF RetrySingle, TypeOK
        <5>2. RetryMsg(i) # SubmitMsg(i, 0)
          BY DEF RetryMsg, SubmitMsg
        <5> QED
          BY <4>2, <5>1, <5>2, <3>1 DEF TypeOK
      <4> QED
        BY <2>3, <4>1, <4>2 DEF RetrySingle
    <3> QED
      BY <2>3, <3>2 DEF RetrySingle, TypeOK, Occupied
  <2>4. CASE ToggleClient
    BY <2>4 DEF ToggleClient, TypeOK, Occupied
  <2>5. ASSUME NEW w \in Workers, StartPoll(w) \/ EndPoll(w)
        PROVE  TypeInv'
    BY <2>5, IdleWorkers DEF StartPoll, EndPoll, Polling, Idle, TypeOK, Occupied
  <2>6. ASSUME NEW w \in Workers, NEW i \in Invoices, PollInvoice(w, i)
        PROVE  TypeInv'
    BY <2>6, LifecycleAssumption DEF PollInvoice, TypeOK, Occupied, Worker
  <2>7. ASSUME NEW w \in Workers, RememberError(w) \/ RepullMissing(w)
        PROVE  TypeInv'
    BY <2>7, DoneType DEF RememberError, RepullMissing, TypeOK
  <2>8. ASSUME NEW w \in Workers, SaveInvoice(w)
        PROVE  TypeInv'
    <3>1. wk' \in [Workers -> Worker] /\ Occupied'
      BY <2>8, DoneType, GotoType DEF SaveInvoice, At
    <3>2. inv' \in [Invoices -> Invoice]
      BY ZenonT(60), <2>8 DEF SaveInvoice, SaveStatus, TypeOK, Invoice, Status
    <3>3. mishaps' \in [Invoices -> SUBSET Mishap]
      BY <2>8 DEF SaveInvoice, Note, TypeOK, Mishap
    <3> QED
      BY <2>8, <3>1, <3>2, <3>3 DEF SaveInvoice, TypeOK
  <2>9. ASSUME NEW w \in Workers, NEW i \in Invoices, NEW n \in 0 .. MaxTaskRetries,
               StartSubmit(w, i, n)
        PROVE  TypeInv'
    <3>1. queue' \in [Message -> Nat]
      BY <2>9, TakeType, Messages DEF StartSubmit
    <3>2. CASE UNCHANGED <<wk, mishaps>>
      BY <2>9, <3>1, <3>2 DEF StartSubmit, TypeOK, Occupied
    <3>3. CASE /\ wk' = [wk EXCEPT ![w] = [pc |-> "pull", job |-> "submit", inv |-> i,
                              tries |-> n, attempts |-> inv[i].attempts, resp |-> 0]]
               /\ \E m \in {{}, {"overlap"}} : Note(i, m)
      <4>1. inv[i].attempts \in Nat
        BY DEF TypeOK, Invoice
      <4>2. wk' \in [Workers -> Worker] /\ Occupied'
        BY <3>3, <4>1, LifecycleAssumption DEF TypeOK, Occupied, Worker
      <4>3. mishaps' \in [Invoices -> SUBSET Mishap]
        BY <3>3 DEF Note, TypeOK, Mishap
      <4> QED
        BY <2>9, <3>1, <4>2, <4>3 DEF StartSubmit, TypeOK
    <3> QED
      BY <2>9, <3>2, <3>3 DEF StartSubmit
  <2>10. ASSUME NEW w \in Workers, RepullFound(w)
         PROVE  TypeInv'
    BY <2>10, GotoType DEF RepullFound, At, TypeOK
  <2>11. ASSUME NEW w \in Workers, RepullUnreachable(w)
         PROVE  TypeInv'
    BY <2>11, DoneType DEF RepullUnreachable, TypeOK, Invoice
  <2>12. ASSUME NEW w \in Workers, RepullError(w)
         PROVE  TypeInv'
    <3>1. wk[w].inv \in Invoices /\ wk[w].tries \in 0 .. MaxTaskRetries
      BY <2>12 DEF RepullError, At, TypeOK, Occupied, Worker
    <3>2. queue' \in [Message -> Nat]
      <4>1. CASE wk[w].tries < MaxTaskRetries
        <5>1. wk[w].tries + 1 \in 0 .. MaxTaskRetries
          BY <3>1, <4>1, LifecycleAssumption
        <5>2. SubmitMsg(wk[w].inv, wk[w].tries + 1) \in Message
          BY <3>1, <5>1, Messages
        <5>3. TryEnqueue(SubmitMsg(wk[w].inv, wk[w].tries + 1))
          BY <2>12, <4>1 DEF RepullError
        <5> QED
          BY <5>2, <5>3, EnqueueType
      <4>2. CASE ~(wk[w].tries < MaxTaskRetries)
        BY <2>12, <4>2 DEF RepullError, TypeOK
      <4> QED
        BY <4>1, <4>2
    <3> QED
      BY <2>12, <3>2, DoneType DEF RepullError, TypeOK
  <2>13. ASSUME NEW w \in Workers, RepullRejected(w)
         PROVE  TypeInv'
    BY <2>13, DoneType DEF RepullRejected, MarkFailed, Save, TypeOK, Invoice, Status
  <2>14. ASSUME NEW w \in Workers, SaveSubmitting(w)
         PROVE  TypeInv'
    BY <2>14 DEF SaveSubmitting, At, Save, Move, TypeOK, Occupied, Worker, Invoice, Status
  <2>15. ASSUME NEW w \in Workers, Submit(w)
         PROVE  TypeInv'
    BY <2>15, LifecycleAssumption DEF Submit, At, Move, Note, TypeOK, Occupied, Worker, Mishap
  <2>16. ASSUME NEW w \in Workers, LogSubmission(w)
         PROVE  TypeInv'
    <3>1. wk[w].resp \in Nat
      BY DEF TypeOK, Worker
    <3> QED
      BY <2>16, <3>1, GotoType DEF LogSubmission, At, TypeOK
  <2>17. ASSUME NEW w \in Workers, SaveCleared(w)
         PROVE  TypeInv'
    <3>1. wk[w].resp \in Nat
      BY DEF TypeOK, Worker
    <3> QED
      BY <2>17, <3>1, GotoType DEF SaveCleared, At, Save, TypeOK, Invoice, Status
  <2>18. ASSUME NEW w \in Workers, HandleFailure(w)
         PROVE  TypeInv'
    <3>1. wk[w].inv \in Invoices
      BY <2>18 DEF HandleFailure, At, TypeOK, Occupied, Worker
    <3>2. queue' \in [Message -> Nat]
      BY <2>18, <3>1, EnqueueType, Messages DEF HandleFailure
    <3> QED
      BY <2>18, <3>2, DoneType DEF HandleFailure, MarkFailed, Save, TypeOK, Invoice, Status
  <2>19. ASSUME NEW w \in Workers, WriteIRN(w)
         PROVE  TypeInv'
    <3>1. wk[w].resp \in Nat
      BY DEF TypeOK, Worker
    <3> QED
      BY <2>19, <3>1, GotoType DEF WriteIRN, At, TypeOK
  <2>20. ASSUME NEW w \in Workers, WriteIRNFails(w)
         PROVE  TypeInv'
    <3>1. wk[w].resp \in Nat
      BY DEF TypeOK, Worker
    <3> QED
      BY <2>20, <3>1, DoneType DEF WriteIRNFails, TypeOK
  <2>21. ASSUME NEW w \in Workers, SaveWrittenBack(w)
         PROVE  TypeInv'
    BY <2>21, DoneType DEF SaveWrittenBack, SaveStatus, TypeOK, Invoice, Status
  <2>22. ASSUME NEW w \in Workers, Interrupt(w)
         PROVE  TypeInv'
    BY <2>22, DoneType DEF Interrupt, MarkFailed, Save, Note, TypeOK, Invoice, Status, Mishap
  <2>23. ASSUME NEW w \in Workers, Crash(w)
         PROVE  TypeInv'
    BY <2>23, IdleWorkers DEF Crash, Note, Idle, TypeOK, Occupied, Mishap
  <2> QED
    BY <2>0, <2>1, <2>2, <2>3, <2>4, <2>5, <2>6, <2>7, <2>8, <2>9, <2>10, <2>11, <2>12,
       <2>13, <2>14, <2>15, <2>16, <2>17, <2>18, <2>19, <2>20, <2>21, <2>22, <2>23
       DEF Next, Automatic, Users, Failures, WorkerStep, Repull, ProcessInvoice
<1> QED
  BY <1>1, <1>2, PTL DEF Spec

\* Every value keeps its type in every reachable state.
THEOREM TypeCorrect == Spec => []TypeOK
BY TypeInvariance, PTL DEF TypeInv

-----------------------------------------------------------------------------
(* Where IRNs come from: every worker's answer, and through it every IRN in  *)
(* the table and in the ERP, is one that the APP issued and the SubmissionLog *)
(* holds.  This part needs no exclusion between workers.                     *)

IRNKnown(i) ==
  /\ inv[i].irn <= issued[i] /\ sage[i] <= issued[i]
  /\ inv[i].irn # 0 => inv[i].irn \in logged[i]
  /\ inv[i].status \in Cleared => inv[i].irn # 0
  /\ HasSageApi /\ inv[i].status = "WRITTEN_BACK" => sage[i] # 0

AnswerKnown(w) ==
  /\ wk[w].inv # NoInvoice => wk[w].resp <= issued[wk[w].inv]
  /\ wk[w].pc \in {"logged", "cleared", "written"} /\ wk[w].resp # 0
       => wk[w].resp \in logged[wk[w].inv]
  /\ wk[w].pc \in {"cleared", "written"}
       => wk[w].resp # 0 /\ inv[wk[w].inv].irn # 0
  /\ HasSageApi /\ wk[w].pc = "written" => sage[wk[w].inv] # 0

IRNInv ==
  /\ \A i \in Invoices : IRNKnown(i)
  /\ \A w \in Workers : AnswerKnown(w)

\* A step of the IRN invariant, given that it keeps the types.
LEMMA IRNStep ==
  ASSUME TypeInv, TypeInv', IRNInv, [Next]_vars
  PROVE  IRNInv'
<1> USE DEF TypeInv, TypeOK, Occupied, Worker, Invoice, IRNInv, IRNKnown, AnswerKnown, Cleared
<1>0. CASE UNCHANGED vars
  BY <1>0 DEF vars
<1>1. ASSUME NEW i \in Invoices, BackoffElapses(i)
      PROVE  IRNInv'
  BY <1>1 DEF BackoffElapses
<1>2. ASSUME NEW i \in Invoices,
             RetryFailed(i) \/ RetryInvoiceView(i) \/ SubmitInvoiceView(i)
      PROVE  IRNInv'
  BY <1>2 DEF RetryFailed, RetryInvoiceView, SubmitInvoiceView
<1>3. ASSUME NEW w \in Workers, NEW i \in Invoices, RetrySingle(w, i)
      PROVE  IRNInv'
  BY <1>3 DEF RetrySingle
<1>4. CASE ToggleClient
  BY <1>4 DEF ToggleClient
<1>5. ASSUME NEW w \in Workers, StartPoll(w) \/ EndPoll(w)
      PROVE  IRNInv'
  <2>1. wk' = [wk EXCEPT ![w] = Polling] \/ wk' = [wk EXCEPT ![w] = Idle]
    BY <1>5 DEF StartPoll, EndPoll
  <2>2. UNCHANGED <<inv, sage, issued, logged>>
    BY <1>5 DEF StartPoll, EndPoll
  <2> QED
    BY SMTT(30), <2>1, <2>2 DEF Polling, Idle
<1>6. ASSUME NEW w \in Workers, NEW i \in Invoices, PollInvoice(w, i)
      PROVE  IRNInv'
  BY <1>6 DEF PollInvoice
<1>7. ASSUME NEW w \in Workers, RememberError(w) \/ RepullMissing(w)
      PROVE  IRNInv'
  BY <1>7 DEF RememberError, RepullMissing, Done, Polling, Idle
<1>8. ASSUME NEW w \in Workers, SaveInvoice(w)
      PROVE  IRNInv'
  <2>1. \A i \in Invoices : inv'[i].irn = inv[i].irn /\ inv'[i].status \in {inv[i].status, "PENDING"}
    BY <1>8 DEF SaveInvoice, SaveStatus
  <2>2. \A i \in Invoices : IRNKnown(i)'
    BY <1>8, <2>1 DEF SaveInvoice
  <2>3. wk[w].pc = "fresh" /\ UNCHANGED <<sage, issued, logged>>
    BY <1>8 DEF SaveInvoice, At
  <2>4. ASSUME NEW v \in Workers
        PROVE  AnswerKnown(v)'
    <3>1. \A i \in Invoices : inv'[i].irn = inv[i].irn
      BY <2>1
    <3>2. CASE Goto(w, "ready")
      BY <2>3, <3>1, <3>2 DEF Goto
    <3>3. CASE Done(w)
      <4>1. CASE v = w
        BY <2>3, <3>1, <3>3, <4>1, Freed
      <4>2. CASE v # w
        BY <2>3, <3>1, <3>3, <4>2, Freed
      <4> QED
        BY <4>1, <4>2
    <3> QED
      BY <1>8, <3>2, <3>3 DEF SaveInvoice
  <2> QED
    BY <2>2, <2>4
<1>9. ASSUME NEW w \in Workers, NEW i \in Invoices, NEW n \in 0 .. MaxTaskRetries,
             StartSubmit(w, i, n)
      PROVE  IRNInv'
  BY <1>9 DEF StartSubmit
<1>10. ASSUME NEW w \in Workers, RepullFound(w)
       PROVE  IRNInv'
  BY <1>10 DEF RepullFound, At, Goto
<1>11. ASSUME NEW w \in Workers, RepullUnreachable(w)
       PROVE  IRNInv'
  BY <1>11 DEF RepullUnreachable, Done, Polling, Idle
<1>12. ASSUME NEW w \in Workers, RepullError(w)
       PROVE  IRNInv'
  BY <1>12 DEF RepullError, Done, Polling, Idle
<1>13. ASSUME NEW w \in Workers, RepullRejected(w)
       PROVE  IRNInv'
  BY <1>13 DEF RepullRejected, MarkFailed, Save, Done, Polling, Idle
<1>14. ASSUME NEW w \in Workers, SaveSubmitting(w)
       PROVE  IRNInv'
  BY <1>14 DEF SaveSubmitting, At, Save, Move
<1>15. ASSUME NEW w \in Workers, Submit(w)
       PROVE  IRNInv'
  BY <1>15, LifecycleAssumption DEF Submit, At, Move
<1>16. ASSUME NEW w \in Workers, LogSubmission(w)
       PROVE  IRNInv'
  BY <1>16 DEF LogSubmission, At, Goto
<1>17. ASSUME NEW w \in Workers, SaveCleared(w)
       PROVE  IRNInv'
  BY <1>17 DEF SaveCleared, At, Save, Goto
<1>18. ASSUME NEW w \in Workers, HandleFailure(w)
       PROVE  IRNInv'
  BY <1>18 DEF HandleFailure, MarkFailed, Save, Done, Polling, Idle
<1>19. ASSUME NEW w \in Workers, WriteIRN(w)
       PROVE  IRNInv'
  BY <1>19 DEF WriteIRN, At, Goto
<1>20. ASSUME NEW w \in Workers, WriteIRNFails(w)
       PROVE  IRNInv'
  <2>1. /\ wk[w].pc = "cleared" /\ wk[w].inv \in Invoices
        /\ wk[w].resp <= issued[wk[w].inv] /\ wk[w].resp # 0
    BY <1>20 DEF WriteIRNFails, At
  <2>2. \A i \in Invoices : sage'[i] \in {sage[i], wk[w].resp}
    BY <1>20 DEF WriteIRNFails
  <2>3. \A i \in Invoices : sage'[i] # sage[i] => i = wk[w].inv
    BY <1>20 DEF WriteIRNFails
  <2>4. \A i \in Invoices : IRNKnown(i)'
    BY <1>20, <2>1, <2>2, <2>3 DEF WriteIRNFails
  <2>5. \A v \in Workers : AnswerKnown(v)'
    BY <1>20, <2>1, <2>2, <2>3 DEF WriteIRNFails, Done, Polling, Idle
  <2> QED
    BY <2>4, <2>5
<1>21. ASSUME NEW w \in Workers, SaveWrittenBack(w)
       PROVE  IRNInv'
  BY <1>21 DEF SaveWrittenBack, SaveStatus, At, Done, Polling, Idle
<1>22. ASSUME NEW w \in Workers, Interrupt(w)
       PROVE  IRNInv'
  BY <1>22 DEF Interrupt, MarkFailed, Save, Done, Polling, Idle
<1>23. ASSUME NEW w \in Workers, Crash(w)
       PROVE  IRNInv'
  BY <1>23 DEF Crash, Idle
<1> QED
  BY <1>0, <1>1, <1>2, <1>3, <1>4, <1>5, <1>6, <1>7, <1>8, <1>9, <1>10, <1>11, <1>12,
     <1>13, <1>14, <1>15, <1>16, <1>17, <1>18, <1>19, <1>20, <1>21, <1>22, <1>23
     DEF Next, Automatic, Users, Failures, WorkerStep, Repull, ProcessInvoice

\* The IRN invariant holds in every reachable state.
THEOREM IRNInvariance == Spec => []IRNInv
<1>1. Init => IRNInv
  BY DEF Init, IRNInv, IRNKnown, AnswerKnown, Absent, Idle, Cleared
<1>2. TypeInv /\ TypeInv' /\ IRNInv /\ [Next]_vars => IRNInv'
  BY IRNStep
<1> QED
  BY <1>1, <1>2, TypeInvariance, PTL DEF Spec

\* An invoice shown as CLEARED or WRITTEN_BACK has an IRN.
THEOREM IRNsAreReal == Spec => []ClearedHasIRN
<1>1. IRNInv => ClearedHasIRN
  BY DEF IRNInv, IRNKnown, ClearedHasIRN
<1> QED
  BY <1>1, IRNInvariance, PTL

\* Every IRN in the table is in the SubmissionLog.
THEOREM IRNsAreAudited == Spec => []IRNIsAudited
<1>1. IRNInv => IRNIsAudited
  BY DEF IRNInv, IRNKnown, IRNIsAudited
<1> QED
  BY <1>1, IRNInvariance, PTL

\* WRITTEN_BACK means that the ERP has an IRN, where it can be written at all.
THEOREM WrittenBackIsTrue == Spec => []WrittenBackReachedSage
<1>1. IRNInv => WrittenBackReachedSage
  BY DEF IRNInv, IRNKnown, WrittenBackReachedSage
<1> QED
  BY <1>1, IRNInvariance, PTL

-----------------------------------------------------------------------------
(* The refinement: Submit issues, SaveCleared records, WriteIRN (and the     *)
(* WriteIRNFails that fails too late) delivers, and all else stutters.       *)

\* What the abstract specification sees does not change.
Stutters == UNCHANGED <<issued, sage>> /\ \A i \in Invoices : inv'[i].irn = inv[i].irn

\* A step that touches no IRN is a stutter of the promise.
LEMMA StuttersAbove ==
  ASSUME Stutters
  PROVE  UNCHANGED Clearance!vars
BY DEF Stutters, Clearance!vars

\* Issuing, recording or delivering an IRN of one invoice is a step of it.
LEMMA StepsAbove ==
  ASSUME NEW i \in Invoices,
         Clearance!Issue(i) \/ Clearance!Record(i) \/ Clearance!Deliver(i)
  PROVE  Clearance!Next
BY DEF Clearance!Next

\* Each step of the lifecycle is a step of the promise, or invisible to it.
LEMMA ClearanceStep ==
  ASSUME TypeInv, IRNInv, [Next]_vars
  PROVE  [Clearance!Next]_Clearance!vars
<1> USE DEF TypeInv, TypeOK, Occupied, Worker, Invoice
<1>1. ASSUME NEW w \in Workers, Submit(w)
      PROVE  [Clearance!Next]_Clearance!vars
  <2>1. PICK hit \in 0 .. 1, lost \in 0 .. AppTries :
          issued' = [issued EXCEPT ![wk[w].inv] = @ + hit + lost]
    BY <1>1 DEF Submit
  <2>a. lost \in Nat
    BY LifecycleAssumption
  <2>2. wk[w].inv \in Invoices /\ UNCHANGED <<inv, sage>>
    BY <1>1 DEF Submit, At
  <2>3. CASE hit + lost = 0
    <3>1. \A i \in Invoices : issued[i] + hit + lost = issued[i]
      BY <2>3
    <3>2. issued' = issued
      BY <2>1, <2>2, <3>1
    <3> QED
      BY <2>2, <3>2, StuttersAbove DEF Stutters
  <2>4. CASE hit + lost # 0
    <3>1. hit + lost \in Nat \ {0}
      BY <2>4
    <3>2. issued' = [issued EXCEPT ![wk[w].inv] = @ + (hit + lost)]
      <4>1. issued[wk[w].inv] + hit + lost = issued[wk[w].inv] + (hit + lost)
        BY <2>2
      <4> QED
        BY <2>1, <2>2, <4>1
    <3>3. issued'[wk[w].inv] = issued[wk[w].inv] + (hit + lost)
      BY <2>2, <3>2
    <3>4. Clearance!Issue(wk[w].inv)
      <4>1. issued'[wk[w].inv] \in Nat /\ issued'[wk[w].inv] > issued[wk[w].inv]
        BY <2>2, <3>1, <3>3
      <4>2. issued' = [issued EXCEPT ![wk[w].inv] = issued'[wk[w].inv]]
        BY <2>2, <3>2, <3>3
      <4> QED
        BY <2>2, <4>1, <4>2 DEF Clearance!Issue
    <3> QED
      BY <2>2, <3>4, StepsAbove
  <2> QED
    BY <2>3, <2>4
<1>2. ASSUME NEW w \in Workers, SaveCleared(w)
      PROVE  [Clearance!Next]_Clearance!vars
  <2>1. PICK i \in Invoices : i = wk[w].inv
    BY <1>2 DEF SaveCleared, At
  <2>2. wk[w].resp \in 1 .. issued[i]
    BY <1>2, <2>1 DEF SaveCleared, At, IRNInv, AnswerKnown
  <2>3. [j \in Invoices |-> inv[j].irn]'
          = [[j \in Invoices |-> inv[j].irn] EXCEPT ![i] = wk[w].resp]
    BY <1>2, <2>1 DEF SaveCleared, Save
  <2>4. UNCHANGED <<issued, sage>>
    BY <1>2 DEF SaveCleared
  <2>5. Clearance!Record(i)
    BY <2>2, <2>3, <2>4 DEF Clearance!Record
  <2>6. Clearance!Next
    BY <2>5, StepsAbove
  <2> QED
    BY <2>6
<1>3. ASSUME NEW w \in Workers, WriteIRN(w) \/ WriteIRNFails(w),
             sage' = [sage EXCEPT ![wk[w].inv] = wk[w].resp]
      PROVE  [Clearance!Next]_Clearance!vars
  <2>1. /\ wk[w].inv \in Invoices /\ wk[w].resp \in 1 .. issued[wk[w].inv]
        /\ inv[wk[w].inv].irn # 0
    BY <1>3 DEF WriteIRN, WriteIRNFails, At, IRNInv, AnswerKnown
  <2>2. UNCHANGED <<issued, inv>>
    BY <1>3 DEF WriteIRN, WriteIRNFails
  <2>3. Clearance!Deliver(wk[w].inv)
    BY <1>3, <2>1, <2>2 DEF Clearance!Deliver
  <2> QED
    BY <2>1, <2>3, StepsAbove
<1>4. ASSUME NEW w \in Workers, WriteIRN(w) \/ WriteIRNFails(w), sage' = sage
      PROVE  Stutters
  BY <1>4 DEF WriteIRN, WriteIRNFails, Stutters
<1>5. ASSUME NEW w \in Workers, SaveInvoice(w) \/ SaveWrittenBack(w)
      PROVE  Stutters
  BY <1>5 DEF SaveInvoice, SaveWrittenBack, SaveStatus, Stutters
<1>6. ASSUME NEW w \in Workers, RepullUnreachable(w) \/ RepullRejected(w)
      PROVE  Stutters
  BY <1>6 DEF RepullUnreachable, RepullRejected, MarkFailed, Save, Stutters
<1>7. ASSUME NEW w \in Workers, SaveSubmitting(w) \/ HandleFailure(w) \/ Interrupt(w)
      PROVE  Stutters
  BY <1>7 DEF SaveSubmitting, HandleFailure, Interrupt, MarkFailed, Save, Stutters
<1>8. ASSUME NEW i \in Invoices, BackoffElapses(i)
      PROVE  Stutters
  BY <1>8 DEF BackoffElapses, Stutters
<1>9. ASSUME UNCHANGED <<inv, sage, issued>>
      PROVE  Stutters
  BY <1>9 DEF Stutters
<1>10. ASSUME NEW w \in Workers,
              \/ StartPoll(w) \/ EndPoll(w) \/ RememberError(w)
              \/ RepullFound(w) \/ RepullMissing(w) \/ RepullError(w)
              \/ LogSubmission(w) \/ Crash(w)
              \/ \E i \in Invoices : PollInvoice(w, i) \/ RetrySingle(w, i)
              \/ \E i \in Invoices, n \in 0 .. MaxTaskRetries : StartSubmit(w, i, n)
       PROVE  UNCHANGED <<inv, sage, issued>>
  BY <1>10 DEF StartPoll, EndPoll, RememberError, RepullFound, RepullMissing, RepullError,
               LogSubmission, Crash, PollInvoice, RetrySingle, StartSubmit
<1>11. ASSUME \/ ToggleClient \/ UNCHANGED vars
              \/ \E i \in Invoices :
                   RetryFailed(i) \/ RetryInvoiceView(i) \/ SubmitInvoiceView(i)
       PROVE  UNCHANGED <<inv, sage, issued>>
  BY <1>11 DEF ToggleClient, RetryFailed, RetryInvoiceView, SubmitInvoiceView, vars
<1>12. ASSUME NEW w \in Workers, WriteIRN(w) \/ WriteIRNFails(w)
       PROVE  sage' = sage \/ sage' = [sage EXCEPT ![wk[w].inv] = wk[w].resp]
  BY <1>12 DEF WriteIRN, WriteIRNFails
<1> QED
  BY <1>1, <1>2, <1>3, <1>4, <1>5, <1>6, <1>7, <1>8, <1>9, <1>10, <1>11, <1>12, StuttersAbove
     DEF Next, Automatic, Users, Failures, WorkerStep, Repull, ProcessInvoice

\* The lifecycle implements what the middleware promises about IRNs.
THEOREM Refinement == Spec => ImplementsClearance
<1>1. Init => Clearance!Init
  BY DEF Init, Clearance!Init, Absent
<1>2. TypeInv /\ IRNInv /\ [Next]_vars => [Clearance!Next]_Clearance!vars
  BY ClearanceStep
<1> QED
  BY <1>1, <1>2, TypeInvariance, IRNInvariance, PTL
     DEF Spec, ImplementsClearance, Clearance!Spec

-----------------------------------------------------------------------------
(***************************************************************************)
(* What keeps an invoice from being cleared twice.  There is no lock: the  *)
(* guards of submit_single_invoice and the database's uniqueness of the    *)
(* row do it, as long as no two workers hold the same invoice.  The        *)
(* invariant below says what they guarantee in that case, for any sets of  *)
(* invoices and workers and any limits.                                    *)
(***************************************************************************)

\* An invoice that somebody works on, or that a message names, has a row.
KnownInv ==
  /\ \A m \in Message : queue[m] > 0 => inv[m.inv].status # "ABSENT"
  /\ \A w \in Workers :
       wk[w].inv # NoInvoice /\ wk[w].pc # "fresh" => inv[wk[w].inv].status # "ABSENT"

\* Queueing a message about an invoice that has a row.
LEMMA EnqueueKnown ==
  ASSUME TypeOK, KnownInv, NEW m \in Message, inv[m.inv].status # "ABSENT", TryEnqueue(m)
  PROVE  \A k \in Message : queue'[k] > 0 => inv[k.inv].status # "ABSENT"
BY DEF TypeOK, KnownInv, TryEnqueue, Enqueue

\* What a message names.
LEMMA MessageInvoice ==
  /\ \A i \in Invoices : RetryMsg(i).inv = i
  /\ \A i \in Invoices, n \in 0 .. MaxTaskRetries : SubmitMsg(i, n).inv = i
  /\ \A m \in Message : m.inv \in Invoices
BY DEF RetryMsg, SubmitMsg, Message

\* Rows do not disappear.
LEMMA RowsStay ==
  ASSUME TypeInv, [Next]_vars
  PROVE  \A i \in Invoices : inv[i].status # "ABSENT" => inv'[i].status # "ABSENT"
<1> USE DEF TypeInv, TypeOK, Occupied, Worker, Invoice
<1>1. ASSUME NEW i \in Invoices, BackoffElapses(i)
      PROVE  \A j \in Invoices : inv[j].status # "ABSENT" => inv'[j].status # "ABSENT"
  BY <1>1 DEF BackoffElapses
<1>2. ASSUME NEW w \in Workers, SaveInvoice(w) \/ SaveWrittenBack(w)
      PROVE  \A j \in Invoices : inv[j].status # "ABSENT" => inv'[j].status # "ABSENT"
  BY <1>2 DEF SaveInvoice, SaveWrittenBack, SaveStatus
<1>3. ASSUME NEW w \in Workers, RepullUnreachable(w) \/ RepullRejected(w)
      PROVE  \A j \in Invoices : inv[j].status # "ABSENT" => inv'[j].status # "ABSENT"
  <2>1. \A j \in Invoices : inv'[j].status \in {inv[j].status, "FAILED"}
    <3>1. CASE RepullUnreachable(w)
      BY <3>1 DEF RepullUnreachable
    <3>2. CASE RepullRejected(w)
      BY <3>2 DEF RepullRejected, MarkFailed, Save
    <3> QED
      BY <1>3, <3>1, <3>2
  <2> QED
    BY <2>1
<1>4. ASSUME NEW w \in Workers,
             SaveSubmitting(w) \/ SaveCleared(w) \/ HandleFailure(w) \/ Interrupt(w)
      PROVE  \A j \in Invoices : inv[j].status # "ABSENT" => inv'[j].status # "ABSENT"
  <2>1. PICK i \in Invoices, s \in {"SUBMITTING", "CLEARED", "FAILED"} :
          \E a, k, d : Save(i, s, a, k, d)
    BY <1>4 DEF SaveSubmitting, SaveCleared, HandleFailure, Interrupt, MarkFailed, At
  <2> QED
    BY <2>1 DEF Save
<1>5. ASSUME NEW w \in Workers,
             \/ StartPoll(w) \/ EndPoll(w) \/ RememberError(w)
             \/ RepullFound(w) \/ RepullMissing(w) \/ RepullError(w)
             \/ Submit(w) \/ LogSubmission(w) \/ WriteIRN(w) \/ WriteIRNFails(w) \/ Crash(w)
             \/ \E i \in Invoices : PollInvoice(w, i) \/ RetrySingle(w, i)
             \/ \E i \in Invoices, n \in 0 .. MaxTaskRetries : StartSubmit(w, i, n)
      PROVE  inv' = inv
  BY <1>5 DEF StartPoll, EndPoll, RememberError, RepullFound, RepullMissing, RepullError,
              Submit, LogSubmission, WriteIRN, WriteIRNFails, Crash, PollInvoice,
              RetrySingle, StartSubmit
<1>6. ASSUME \/ ToggleClient \/ UNCHANGED vars
             \/ \E i \in Invoices :
                  RetryFailed(i) \/ RetryInvoiceView(i) \/ SubmitInvoiceView(i)
      PROVE  inv' = inv
  BY <1>6 DEF ToggleClient, RetryFailed, RetryInvoiceView, SubmitInvoiceView, vars
<1> QED
  BY <1>1, <1>2, <1>3, <1>4, <1>5, <1>6
     DEF Next, Automatic, Users, Failures, WorkerStep, Repull, ProcessInvoice

\* A step keeps messages and workers away from invoices without a row.
LEMMA KnownStep ==
  ASSUME TypeInv, TypeInv', KnownInv, [Next]_vars
  PROVE  KnownInv'
<1> USE DEF TypeInv, TypeOK, Occupied, Worker, Invoice
<1>a. \A i \in Invoices : inv[i].status # "ABSENT" => inv'[i].status # "ABSENT"
  BY RowsStay
<1>b. ASSUME UNCHANGED wk
      PROVE  \A w \in Workers : wk'[w].inv # NoInvoice /\ wk'[w].pc # "fresh"
               => inv'[wk'[w].inv].status # "ABSENT"
  BY <1>a, <1>b DEF KnownInv
<1>c. ASSUME UNCHANGED queue
      PROVE  \A m \in Message : queue'[m] > 0 => inv'[m.inv].status # "ABSENT"
  BY <1>a, <1>c, MessageInvoice DEF KnownInv
<1>d. ASSUME NEW m \in Message, inv[m.inv].status # "ABSENT", TryEnqueue(m)
      PROVE  \A k \in Message : queue'[k] > 0 => inv'[k.inv].status # "ABSENT"
  BY <1>a, <1>d, EnqueueKnown, MessageInvoice
<1>e. ASSUME NEW m \in Message, Take(m)
      PROVE  \A k \in Message : queue'[k] > 0 => inv'[k.inv].status # "ABSENT"
  BY <1>a, <1>e, MessageInvoice DEF Take, KnownInv
<1>f. ASSUME NEW w \in Workers, Done(w)
      PROVE  \A v \in Workers : wk'[v].inv # NoInvoice /\ wk'[v].pc # "fresh"
               => inv'[wk'[v].inv].status # "ABSENT"
  BY <1>a, <1>f, Freed DEF KnownInv
<1>g. ASSUME NEW w \in Workers, wk[w].pc # "fresh",
             \A v \in Workers : wk'[v].inv = wk[v].inv /\ (v # w => wk'[v].pc = wk[v].pc)
      PROVE  \A v \in Workers : wk'[v].inv # NoInvoice /\ wk'[v].pc # "fresh"
               => inv'[wk'[v].inv].status # "ABSENT"
  BY <1>a, <1>g DEF KnownInv
<1>1. CASE UNCHANGED vars
  BY <1>1, <1>b, <1>c DEF vars, KnownInv
<1>2. ASSUME NEW i \in Invoices,
             RetryFailed(i) \/ RetryInvoiceView(i) \/ SubmitInvoiceView(i)
      PROVE  KnownInv'
  <2>1. inv[i].status # "ABSENT" /\ UNCHANGED wk
    BY <1>2 DEF RetryFailed, RetryInvoiceView, SubmitInvoiceView, IsRetryable
  <2>2. PICK m \in Message : m.inv = i /\ TryEnqueue(m)
    BY <1>2, Messages, MessageInvoice, LifecycleAssumption
       DEF RetryFailed, RetryInvoiceView, SubmitInvoiceView, TryEnqueue
  <2> QED
    BY <2>1, <2>2, <1>b, <1>d DEF KnownInv
<1>3. ASSUME NEW i \in Invoices, BackoffElapses(i)
      PROVE  KnownInv'
  BY <1>3, <1>b, <1>c DEF BackoffElapses, KnownInv
<1>4. CASE ToggleClient
  BY <1>4, <1>b, <1>c DEF ToggleClient, KnownInv
<1>5. ASSUME NEW w \in Workers, NEW i \in Invoices, RetrySingle(w, i)
      PROVE  KnownInv'
  <2>1. RetryMsg(i) \in Message /\ SubmitMsg(i, 0) \in Message
    BY Messages, LifecycleAssumption
  <2>2. \A m \in Message : queue'[m] > queue[m] => m = SubmitMsg(i, 0) /\ IsRetryable(i)
    BY <1>5, <2>1 DEF RetrySingle, Take
  <2>3. \A m \in Message : queue'[m] > 0 => inv'[m.inv].status # "ABSENT"
    BY <1>a, <2>1, <2>2, MessageInvoice, LifecycleAssumption DEF IsRetryable, KnownInv
  <2> QED
    BY <1>5, <2>3, <1>b DEF RetrySingle, KnownInv
<1>6. ASSUME NEW w \in Workers, StartPoll(w) \/ EndPoll(w)
      PROVE  KnownInv'
  <2>1. \A v \in Workers : wk'[v].inv # NoInvoice /\ wk'[v].pc # "fresh"
          => inv'[wk'[v].inv].status # "ABSENT"
    <3>1. CASE StartPoll(w)
      BY <1>a, <3>1 DEF StartPoll, Polling, KnownInv
    <3>2. CASE EndPoll(w)
      BY <1>a, <3>2 DEF EndPoll, Idle, KnownInv
    <3> QED
      BY <1>6, <3>1, <3>2
  <2> QED
    BY <1>6, <2>1, <1>c DEF StartPoll, EndPoll, KnownInv
<1>7. ASSUME NEW w \in Workers, NEW i \in Invoices, PollInvoice(w, i)
      PROVE  KnownInv'
  <2>1. \A v \in Workers : wk'[v].inv # NoInvoice /\ wk'[v].pc # "fresh"
          => inv'[wk'[v].inv].status # "ABSENT"
    BY <1>a, <1>7 DEF PollInvoice, KnownInv
  <2> QED
    BY <1>7, <2>1, <1>c DEF PollInvoice, KnownInv
<1>8. ASSUME NEW w \in Workers,
             \/ RememberError(w) \/ RepullMissing(w) \/ RepullUnreachable(w)
             \/ RepullRejected(w) \/ WriteIRNFails(w) \/ SaveWrittenBack(w) \/ Interrupt(w)
      PROVE  KnownInv'
  <2>1. Done(w) /\ UNCHANGED queue
    BY <1>8 DEF RememberError, RepullMissing, RepullUnreachable, RepullRejected,
                WriteIRNFails, SaveWrittenBack, Interrupt
  <2> QED
    BY <2>1, <1>c, <1>f DEF KnownInv
<1>9. ASSUME NEW w \in Workers, SaveInvoice(w)
      PROVE  KnownInv'
  <2>1. wk[w].inv \in Invoices /\ inv'[wk[w].inv].status = "PENDING" /\ UNCHANGED queue
    BY <1>9 DEF SaveInvoice, SaveStatus, At
  <2>2. CASE Goto(w, "ready")
    <3>1. \A v \in Workers : wk'[v].inv = wk[v].inv /\ (v # w => wk'[v].pc = wk[v].pc)
      BY <2>2 DEF Goto
    <3>2. \A v \in Workers : wk'[v].inv # NoInvoice /\ wk'[v].pc # "fresh"
            => inv'[wk'[v].inv].status # "ABSENT"
      <4> SUFFICES ASSUME NEW v \in Workers, wk'[v].inv # NoInvoice, wk'[v].pc # "fresh"
                   PROVE  inv'[wk'[v].inv].status # "ABSENT"
        OBVIOUS
      <4>1. CASE v = w
        BY <2>1, <3>1, <4>1
      <4>2. CASE v # w
        BY <1>a, <3>1, <4>2 DEF KnownInv
      <4> QED
        BY <4>1, <4>2
    <3> QED
      BY <2>1, <3>2, <1>c DEF KnownInv
  <2>3. CASE Done(w)
    BY <2>1, <2>3, <1>c, <1>f DEF KnownInv
  <2> QED
    BY <1>9, <2>2, <2>3 DEF SaveInvoice
<1>10. ASSUME NEW w \in Workers, NEW i \in Invoices, NEW n \in 0 .. MaxTaskRetries,
              StartSubmit(w, i, n)
       PROVE  KnownInv'
  <2>1. SubmitMsg(i, n) \in Message /\ SubmitMsg(i, n).inv = i /\ Take(SubmitMsg(i, n))
    BY <1>10, Messages, MessageInvoice DEF StartSubmit
  <2>2. inv[i].status # "ABSENT"
    BY <2>1 DEF Take, KnownInv
  <2>3. \A v \in Workers : wk'[v].inv # NoInvoice /\ wk'[v].pc # "fresh"
          => inv'[wk'[v].inv].status # "ABSENT"
    BY <1>a, <1>10, <2>2 DEF StartSubmit, KnownInv
  <2> QED
    BY <2>1, <2>3, <1>e DEF KnownInv
<1>11. ASSUME NEW w \in Workers,
              \/ RepullFound(w) \/ SaveSubmitting(w) \/ Submit(w) \/ LogSubmission(w)
              \/ SaveCleared(w) \/ WriteIRN(w)
       PROVE  KnownInv'
  <2>1. wk[w].pc # "fresh" /\ UNCHANGED queue
    BY <1>11 DEF RepullFound, SaveSubmitting, Submit, LogSubmission, SaveCleared, WriteIRN, At
  <2>2. \A v \in Workers : wk'[v].inv = wk[v].inv /\ (v # w => wk'[v].pc = wk[v].pc)
    BY <1>11 DEF RepullFound, SaveSubmitting, Submit, LogSubmission, SaveCleared, WriteIRN,
                 Goto, Move
  <2> QED
    BY <2>1, <2>2, <1>c, <1>g DEF KnownInv
<1>12. ASSUME NEW w \in Workers, RepullError(w) \/ HandleFailure(w)
       PROVE  KnownInv'
  <2>1. wk[w].inv \in Invoices /\ inv[wk[w].inv].status # "ABSENT" /\ Done(w)
    BY <1>12 DEF RepullError, HandleFailure, At, KnownInv
  <2>2. CASE UNCHANGED queue
    BY <2>1, <2>2, <1>c, <1>f DEF KnownInv
  <2>3. CASE \E m \in Message : m.inv = wk[w].inv /\ TryEnqueue(m)
    BY <2>1, <2>3, <1>d, <1>f DEF KnownInv
  <2>4. CASE RepullError(w) /\ wk[w].tries < MaxTaskRetries
    <3>1. wk[w].tries + 1 \in 0 .. MaxTaskRetries
      BY <2>4, LifecycleAssumption
    <3>2. SubmitMsg(wk[w].inv, wk[w].tries + 1) \in Message
      BY <2>1, <3>1, Messages
    <3>3. SubmitMsg(wk[w].inv, wk[w].tries + 1).inv = wk[w].inv
      BY <2>1, <3>1, MessageInvoice
    <3>4. TryEnqueue(SubmitMsg(wk[w].inv, wk[w].tries + 1))
      BY <2>4 DEF RepullError
    <3> QED
      BY <2>3, <3>2, <3>3, <3>4
  <2>5. CASE HandleFailure(w)
    <3>1. TryEnqueue(RetryMsg(wk[w].inv))
      BY <2>5 DEF HandleFailure
    <3> QED
      BY <2>1, <2>3, <3>1, Messages, MessageInvoice
  <2> QED
    BY <1>12, <2>2, <2>4, <2>5 DEF RepullError
<1>13. ASSUME NEW w \in Workers, Crash(w)
       PROVE  KnownInv'
  <2>1. \A v \in Workers : wk'[v].inv # NoInvoice /\ wk'[v].pc # "fresh"
          => inv'[wk'[v].inv].status # "ABSENT"
    BY <1>a, <1>13 DEF Crash, Idle, KnownInv
  <2> QED
    BY <1>13, <2>1, <1>c DEF Crash, KnownInv
<1> QED
  BY <1>1, <1>2, <1>3, <1>4, <1>5, <1>6, <1>7, <1>8, <1>9, <1>10, <1>11, <1>12, <1>13
     DEF Next, Automatic, Users, Failures, WorkerStep, Repull, ProcessInvoice

\* Only invoices with a row are queued for a retry or a submission, or held by a
\* worker that is past the existence check.
THEOREM KnownInvariance == Spec => []KnownInv
<1>1. Init => KnownInv
  BY DEF Init, KnownInv, Idle
<1>2. TypeInv /\ TypeInv' /\ KnownInv /\ [Next]_vars => KnownInv'
  BY KnownStep
<1> QED
  BY <1>1, <1>2, TypeInvariance, PTL DEF Spec

-----------------------------------------------------------------------------
(* At most one worker holds an invoice, unless an overlap was noted, and     *)
(* then no IRN is issued, saved or delivered twice.                          *)

Overlapped(i) == "overlap" \in mishaps[i]
Repeatable(i) ==
  \/ "overlap" \in mishaps[i] \/ "crash" \in mishaps[i]
  \/ "interrupt" \in mishaps[i] \/ "lostAnswer" \in mishaps[i]

\* A worker has an IRN in its hands that it has not saved yet.
Bears(w, i) == wk[w].inv = i /\ wk[w].pc \in {"answered", "logged"} /\ wk[w].resp # 0

RowInv(i) ==
  /\ inv[i].status = "ABSENT" =>
       inv[i].irn = 0 /\ inv[i].attempts = 0 /\ issued[i] = 0
  /\ inv[i].irn # 0 => inv[i].status \in Cleared \/ Overlapped(i)
  /\ sage[i] # 0 => sage[i] = inv[i].irn \/ Overlapped(i)
  /\ issued[i] <= 1 \/ Repeatable(i)
  /\ \/ issued[i] = 0 \/ inv[i].irn # 0 \/ Repeatable(i)
     \/ \E w \in Workers : Bears(w, i)

WorkInv(w, i) ==
  wk[w].inv = i =>
    /\ wk[w].pc = "fresh" => wk[w].attempts = 0
    /\ wk[w].pc \in {"pull", "ready", "sending", "answered", "logged"} =>
         inv[i].irn = 0 \/ Overlapped(i)
    /\ wk[w].pc \in {"pull", "ready"} => wk[w].attempts = inv[i].attempts \/ Overlapped(i)
    /\ wk[w].pc \in {"cleared", "written"} => wk[w].resp = inv[i].irn \/ Overlapped(i)
    /\ wk[w].pc \in {"pull", "ready", "sending"} => issued[i] = 0 \/ Repeatable(i)
    /\ wk[w].pc \in {"answered", "logged"} /\ wk[w].resp = 0 =>
         issued[i] = 0 \/ Repeatable(i)

Exclusion ==
  \A v, w \in Workers : \A i \in Invoices :
    v # w /\ Holds(v, i) /\ Holds(w, i) => Overlapped(i)

ExclInv ==
  /\ \A i \in Invoices : RowInv(i)
  /\ \A w \in Workers, i \in Invoices : WorkInv(w, i)
  /\ Exclusion

\* What has gone wrong with an invoice is not forgotten.
LEMMA MishapsStay ==
  ASSUME TypeInv, [Next]_vars
  PROVE  \A i \in Invoices : \A x \in Mishap : x \in mishaps[i] => x \in mishaps'[i]
<1> USE DEF TypeInv, TypeOK, Mishap
<1>1. ASSUME UNCHANGED mishaps
      PROVE  \A i \in Invoices : \A x \in Mishap : x \in mishaps[i] => x \in mishaps'[i]
  BY <1>1
<1>2. ASSUME NEW i, NEW m, Note(i, m)
      PROVE  \A j \in Invoices : \A x \in Mishap : x \in mishaps[j] => x \in mishaps'[j]
  BY <1>2 DEF Note
<1>3. ASSUME NEW w \in Workers,
             \/ SaveInvoice(w) \/ Submit(w) \/ Interrupt(w) \/ Crash(w)
             \/ \E i \in Invoices, n \in 0 .. MaxTaskRetries : StartSubmit(w, i, n)
      PROVE  UNCHANGED mishaps \/ \E i, m : Note(i, m)
  BY <1>3 DEF SaveInvoice, Submit, Interrupt, Crash, StartSubmit
<1>4. ASSUME NEW w \in Workers,
             \/ StartPoll(w) \/ EndPoll(w) \/ RememberError(w)
             \/ Repull(w) \/ SaveSubmitting(w) \/ LogSubmission(w) \/ SaveCleared(w)
             \/ HandleFailure(w) \/ WriteIRN(w) \/ WriteIRNFails(w) \/ SaveWrittenBack(w)
             \/ \E i \in Invoices : PollInvoice(w, i) \/ RetrySingle(w, i)
      PROVE  UNCHANGED mishaps
  BY <1>4 DEF StartPoll, EndPoll, RememberError, Repull, RepullFound, RepullMissing,
              RepullUnreachable, RepullError, RepullRejected, SaveSubmitting, LogSubmission,
              SaveCleared, HandleFailure, WriteIRN, WriteIRNFails, SaveWrittenBack,
              PollInvoice, RetrySingle
<1>5. ASSUME \/ ToggleClient \/ UNCHANGED vars
             \/ \E i \in Invoices : \/ BackoffElapses(i) \/ RetryFailed(i)
                                    \/ RetryInvoiceView(i) \/ SubmitInvoiceView(i)
      PROVE  UNCHANGED mishaps
  BY <1>5 DEF ToggleClient, BackoffElapses, RetryFailed, RetryInvoiceView, SubmitInvoiceView, vars
<1> QED
  BY <1>1, <1>2, <1>3, <1>4, <1>5
     DEF Next, Automatic, Users, Failures, WorkerStep, ProcessInvoice

\* Only a saved row and a started submission give an invoice another holder.
LEMMA ExclusionStep ==
  ASSUME TypeInv, TypeInv', KnownInv, Exclusion, [Next]_vars
  PROVE  Exclusion'
<1> USE DEF TypeInv, TypeOK, Occupied, Worker
<1>a. \A i \in Invoices : Overlapped(i) => Overlapped(i)'
  BY MishapsStay DEF Overlapped, Mishap
<1>b. ASSUME \A v \in Workers, i \in Invoices : Holds(v, i)' => Holds(v, i)
      PROVE  Exclusion'
  BY <1>a, <1>b DEF Exclusion
<1>1. ASSUME NEW w \in Workers, Done(w) \/ wk' = [wk EXCEPT ![w] = Idle]
      PROVE  Exclusion'
  <2>1. \A v \in Workers, i \in Invoices : Holds(v, i)' => Holds(v, i)
    BY <1>1, LifecycleAssumption DEF Done, Idle, Polling, Holds
  <2> QED
    BY <2>1, <1>b
<1>2. ASSUME UNCHANGED wk
      PROVE  Exclusion'
  BY <1>2, <1>b DEF Holds
<1>3. ASSUME NEW w \in Workers, wk[w].pc # "fresh",
             (\E pc : Goto(w, pc)) \/ (\E pc, a, r : Move(w, pc, a, r))
      PROVE  Exclusion'
  <2>1. \A v \in Workers, i \in Invoices : Holds(v, i)' => Holds(v, i)
    BY <1>3 DEF Goto, Move, Holds
  <2> QED
    BY <2>1, <1>b
<1>4. ASSUME NEW w \in Workers, StartPoll(w) \/ (\E i \in Invoices : PollInvoice(w, i))
      PROVE  Exclusion'
  <2>1. \A v \in Workers, i \in Invoices : Holds(v, i)' => Holds(v, i)
    BY <1>4, LifecycleAssumption DEF StartPoll, PollInvoice, Polling, Holds
  <2> QED
    BY <2>1, <1>b
<1>5. ASSUME NEW w \in Workers, SaveInvoice(w), Goto(w, "ready")
      PROVE  Exclusion'
  <2>1. \A v \in Workers : v # w => wk'[v] = wk[v]
    BY <1>5 DEF Goto
  <2>2. wk'[w].inv = wk[w].inv /\ wk[w].inv \in Invoices
    BY <1>5 DEF SaveInvoice, At, Goto
  <2>3. \A v \in Workers : ~Holds(v, wk[w].inv)
    BY <1>5, <2>2, LifecycleAssumption DEF SaveInvoice, At, KnownInv, Holds
  <2> QED
    BY <2>1, <2>2, <2>3, <1>a DEF Exclusion, Holds
<1>6. ASSUME NEW w \in Workers, NEW i \in Invoices, NEW n \in 0 .. MaxTaskRetries,
             StartSubmit(w, i, n)
      PROVE  Exclusion'
  <2>1. CASE UNCHANGED wk
    BY <2>1, <1>2
  <2>2. CASE wk' # wk
    <3>1. /\ \A v \in Workers : v # w => wk'[v] = wk[v]
          /\ wk'[w].inv = i
      BY <1>6, <2>2 DEF StartSubmit
    <3>2. \A v \in Workers : v # w /\ Holds(v, i) => Overlapped(i)'
      BY <1>6, <2>2 DEF StartSubmit, Note, Overlapped
    <3> QED
      BY <3>1, <3>2, <1>a DEF Exclusion, Holds
  <2> QED
    BY <2>1, <2>2
<1>7. ASSUME NEW w \in Workers,
             \/ RepullFound(w) \/ SaveSubmitting(w) \/ Submit(w) \/ LogSubmission(w)
             \/ SaveCleared(w) \/ WriteIRN(w)
      PROVE  Exclusion'
  <2>1. wk[w].pc # "fresh"
    BY <1>7 DEF RepullFound, SaveSubmitting, Submit, LogSubmission, SaveCleared, WriteIRN, At
  <2>2. (\E pc : Goto(w, pc)) \/ (\E pc, a, r : Move(w, pc, a, r))
    BY <1>7 DEF RepullFound, SaveSubmitting, Submit, LogSubmission, SaveCleared, WriteIRN
  <2> QED
    BY <2>1, <2>2, <1>3
<1>8. ASSUME NEW w \in Workers,
             \/ EndPoll(w) \/ RememberError(w) \/ RepullMissing(w) \/ RepullUnreachable(w)
             \/ RepullError(w) \/ RepullRejected(w) \/ HandleFailure(w) \/ WriteIRNFails(w)
             \/ SaveWrittenBack(w) \/ Interrupt(w) \/ Crash(w)
      PROVE  Exclusion'
  BY <1>8, <1>1 DEF EndPoll, RememberError, RepullMissing, RepullUnreachable, RepullError,
     RepullRejected, HandleFailure, WriteIRNFails, SaveWrittenBack, Interrupt, Crash
<1>9. ASSUME \/ ToggleClient \/ UNCHANGED vars
             \/ \E i \in Invoices : \/ BackoffElapses(i) \/ RetryFailed(i)
                                    \/ RetryInvoiceView(i) \/ SubmitInvoiceView(i)
             \/ \E w \in Workers, i \in Invoices : RetrySingle(w, i)
      PROVE  Exclusion'
  BY <1>9, <1>2 DEF ToggleClient, BackoffElapses, RetryFailed, RetryInvoiceView,
     SubmitInvoiceView, RetrySingle, vars
<1>10. ASSUME NEW w \in Workers, SaveInvoice(w)
       PROVE  Exclusion'
  BY <1>10, <1>1, <1>5 DEF SaveInvoice
<1> QED
  BY <1>4, <1>6, <1>7, <1>8, <1>9, <1>10
     DEF Next, Automatic, Users, Failures, WorkerStep, Repull, ProcessInvoice

\* The rows: no IRN is replaced, no second one issued.
LEMMA RowStep ==
  ASSUME TypeInv, TypeInv', IRNInv, KnownInv, ExclInv, [Next]_vars
  PROVE  \A i \in Invoices : RowInv(i)'
<1> USE DEF TypeInv, TypeOK, Occupied, Worker, Invoice, Cleared
<1> SUFFICES ASSUME NEW i \in Invoices
             PROVE  RowInv(i)'
  OBVIOUS
<1>a. /\ Overlapped(i) => Overlapped(i)'
      /\ Repeatable(i) => Repeatable(i)'
      /\ Overlapped(i) => Repeatable(i)
  BY MishapsStay DEF Overlapped, Repeatable, Mishap
<1>b. RowInv(i)
  BY DEF ExclInv
\* Nothing the rows depend on changes, except a due date.
<1>c. ASSUME UNCHANGED <<sage, issued>>,
             \A w \in Workers : Bears(w, i) => Bears(w, i)' \/ Repeatable(i)',
             /\ inv'[i].status = inv[i].status /\ inv'[i].irn = inv[i].irn
             /\ inv'[i].attempts = inv[i].attempts
      PROVE  RowInv(i)'
  BY <1>a, <1>b, <1>c DEF RowInv
<1>d. ASSUME UNCHANGED <<sage, issued>>,
             \A w \in Workers : Bears(w, i) => Bears(w, i)' \/ Repeatable(i)',
             inv'[i].status # "ABSENT", inv'[i].irn = inv[i].irn,
             inv[i].irn # 0 => inv'[i].status \in Cleared \/ Overlapped(i)
      PROVE  RowInv(i)'
  BY <1>a, <1>b, <1>d DEF RowInv
<1>1. ASSUME \/ ToggleClient \/ UNCHANGED vars
             \/ \E j \in Invoices : \/ RetryFailed(j)
                                    \/ RetryInvoiceView(j) \/ SubmitInvoiceView(j)
             \/ \E w \in Workers, j \in Invoices : RetrySingle(w, j)
      PROVE  RowInv(i)'
  <2>1. UNCHANGED <<inv, wk, sage, issued>>
    BY <1>1 DEF ToggleClient, RetryFailed, RetryInvoiceView, SubmitInvoiceView, RetrySingle, vars
  <2> QED
    BY <2>1, <1>c DEF Bears
<1>2. ASSUME NEW j \in Invoices, BackoffElapses(j)
      PROVE  RowInv(i)'
  BY <1>2, <1>c DEF BackoffElapses, Bears
<1>3. ASSUME NEW w \in Workers,
             \/ StartPoll(w) \/ EndPoll(w) \/ RememberError(w)
             \/ RepullFound(w) \/ RepullMissing(w) \/ RepullError(w) \/ LogSubmission(w)
             \/ \E j \in Invoices : PollInvoice(w, j)
             \/ \E j \in Invoices, n \in 0 .. MaxTaskRetries : StartSubmit(w, j, n)
      PROVE  RowInv(i)'
  <2>1. UNCHANGED <<inv, sage, issued>>
    BY <1>3 DEF StartPoll, EndPoll, RememberError, RepullFound, RepullMissing, RepullError,
                LogSubmission, PollInvoice, StartSubmit
  <2>2. \A v \in Workers : Bears(v, i) => Bears(v, i)'
    <3>1. ASSUME NEW v \in Workers, v # w
          PROVE  wk'[v] = wk[v]
      BY <1>3, <3>1 DEF StartPoll, EndPoll, RememberError, RepullFound, RepullMissing, RepullError,
                LogSubmission, PollInvoice, StartSubmit, Goto, Done
    <3>2. ~Bears(w, i) \/ LogSubmission(w)
      BY <1>3 DEF StartPoll, EndPoll, RememberError, RepullFound, RepullMissing, RepullError,
                PollInvoice, StartSubmit, At, Bears
    <3>3. LogSubmission(w) => wk'[w].inv = wk[w].inv /\ wk'[w].resp = wk[w].resp
                              /\ wk'[w].pc = "logged"
      BY DEF LogSubmission, Goto
    <3> QED
      BY <3>1, <3>2, <3>3 DEF Bears
  <2> QED
    BY <2>1, <2>2, <1>c
<1>4. ASSUME NEW w \in Workers, Interrupt(w) \/ Crash(w)
      PROVE  RowInv(i)'
  <2>1. \A v \in Workers : Bears(v, i) => Bears(v, i)' \/ Repeatable(i)'
    <3>1. CASE wk[w].inv = i
      <4>1. Repeatable(i)'
        BY <1>4, <3>1 DEF Interrupt, Crash, Note, Repeatable
      <4> QED
        BY <4>1
    <3>2. CASE wk[w].inv # i
      <4>1. \A v \in Workers : v # w => wk'[v] = wk[v]
        BY <1>4 DEF Interrupt, Crash, Done
      <4> QED
        BY <3>2, <4>1 DEF Bears
    <3> QED
      BY <3>1, <3>2
  <2>2. CASE Crash(w)
    BY <2>1, <2>2, <1>c DEF Crash
  <2>3. CASE Interrupt(w) /\ wk[w].inv # i
    <3>1. inv'[i] = inv[i] /\ UNCHANGED <<sage, issued>>
      BY <2>3 DEF Interrupt, MarkFailed, Save
    <3> QED
      BY <2>1, <3>1, <1>c
  <2>4. CASE Interrupt(w) /\ wk[w].inv = i
    <3>1. inv'[i].status = "FAILED" /\ inv'[i].irn = inv[i].irn /\ UNCHANGED <<sage, issued>>
      BY <2>4 DEF Interrupt, MarkFailed, Save
    <3>2. inv[i].irn = 0 \/ Overlapped(i)
      BY <2>4 DEF Interrupt, ExclInv, WorkInv
    <3> QED
      BY <2>1, <3>1, <3>2, <1>d
  <2> QED
    BY <1>4, <2>2, <2>3, <2>4
<1>5. ASSUME NEW w \in Workers,
             \/ RepullUnreachable(w) \/ RepullRejected(w) \/ HandleFailure(w)
             \/ SaveSubmitting(w) \/ SaveInvoice(w) \/ SaveWrittenBack(w)
      PROVE  RowInv(i)'
  <2>1. UNCHANGED <<sage, issued>>
    BY <1>5 DEF RepullUnreachable, RepullRejected, HandleFailure, SaveSubmitting, SaveInvoice,
                SaveWrittenBack
  <2>2. \A v \in Workers : Bears(v, i) => Bears(v, i)'
    <3>1. ~Bears(w, i)
      BY <1>5 DEF RepullUnreachable, RepullRejected, HandleFailure, SaveSubmitting, SaveInvoice,
                  SaveWrittenBack, At, Bears
    <3>2. \A v \in Workers : v # w => wk'[v] = wk[v]
      BY <1>5 DEF RepullUnreachable, RepullRejected, HandleFailure, SaveSubmitting, SaveInvoice,
                  SaveWrittenBack, Done, Goto, Move
    <3> QED
      BY <3>1, <3>2 DEF Bears
  <2>3. CASE wk[w].inv # i
    <3>1. inv'[i] = inv[i]
      BY <1>5, <2>3 DEF RepullUnreachable, RepullRejected, HandleFailure, SaveSubmitting,
         SaveInvoice, SaveWrittenBack, SaveStatus, MarkFailed, Save
    <3> QED
      BY <2>1, <2>2, <3>1, <1>c
  <2>4. CASE wk[w].inv = i /\ RepullUnreachable(w)
    <3>1. /\ inv'[i].status = inv[i].status /\ inv'[i].irn = inv[i].irn
          /\ inv'[i].attempts = inv[i].attempts
      BY <2>4 DEF RepullUnreachable
    <3> QED
      BY <2>1, <2>2, <3>1, <1>c
  <2>5. CASE wk[w].inv = i /\ SaveWrittenBack(w)
    <3>1. inv'[i].status = "WRITTEN_BACK" /\ inv'[i].irn = inv[i].irn
      BY <2>5 DEF SaveWrittenBack, SaveStatus
    <3> QED
      BY <2>1, <2>2, <3>1, <1>d
  <2>6. CASE wk[w].inv = i /\ SaveInvoice(w)
    <3>1. inv'[i].status = "PENDING" /\ inv'[i].irn = inv[i].irn /\ inv[i].irn = 0
      BY <2>6, <1>b DEF SaveInvoice, SaveStatus, RowInv
    <3> QED
      BY <2>1, <2>2, <3>1, <1>d
  <2>7. CASE wk[w].inv = i /\ (RepullRejected(w) \/ HandleFailure(w) \/ SaveSubmitting(w))
    <3>1. inv'[i].status \in {"FAILED", "SUBMITTING"} /\ inv'[i].irn = inv[i].irn
      BY <2>7 DEF RepullRejected, HandleFailure, SaveSubmitting, MarkFailed, Save
    <3>2. inv[i].irn = 0 \/ Overlapped(i)
      BY <2>7 DEF RepullRejected, HandleFailure, SaveSubmitting, At, ExclInv, WorkInv
    <3> QED
      BY <2>1, <2>2, <3>1, <3>2, <1>d
  <2> QED
    BY <1>5, <2>3, <2>4, <2>5, <2>6, <2>7
<1>6. ASSUME NEW w \in Workers, Submit(w)
      PROVE  RowInv(i)'
  <2>1. wk[w].pc = "sending" /\ wk[w].inv \in Invoices /\ UNCHANGED <<inv, sage>>
    BY <1>6 DEF Submit, At
  <2>2. \A v \in Workers : v # w => wk'[v] = wk[v]
    BY <1>6 DEF Submit, Move
  <2>3. CASE wk[w].inv # i
    <3>1. issued'[i] = issued[i]
      BY <1>6, <2>3 DEF Submit
    <3>2. \A v \in Workers : Bears(v, i) => Bears(v, i)'
      BY <2>2, <2>3 DEF Bears
    <3> QED
      BY <2>1, <3>1, <3>2, <1>a, <1>b DEF RowInv
  <2>4. CASE wk[w].inv = i
    <3>1. issued[i] = 0 \/ Repeatable(i)
      BY <2>1, <2>4 DEF ExclInv, WorkInv
    <3>2. PICK hit \in 0 .. 1, lost \in 0 .. AppTries :
            /\ issued' = [issued EXCEPT ![i] = @ + hit + lost]
            /\ Move(w, "answered", wk[w].attempts, IF hit = 1 THEN issued[i] + hit + lost ELSE 0)
            /\ Note(i, IF lost > 0 THEN {"lostAnswer"} ELSE {})
      BY <1>6, <2>4 DEF Submit
    <3>a. lost \in Nat
      BY LifecycleAssumption
    <3>3. lost > 0 => Repeatable(i)'
      BY <3>2, <3>a DEF Note, Repeatable
    <3>4. issued'[i] = issued[i] + hit + lost
      BY <3>2, <3>a
    <3>5. issued[i] = 0 /\ lost = 0 => issued'[i] <= 1 /\ (issued'[i] = 0 \/ hit = 1)
      BY <3>4, <3>a
    <3>6. hit = 1 => Bears(w, i)'
      BY <2>1, <2>4, <3>2 DEF Move, Bears
    <3>7. issued'[i] <= 1 \/ Repeatable(i)'
      BY <3>1, <3>3, <3>5, <1>a
    <3>8. issued'[i] = 0 \/ Repeatable(i)' \/ \E v \in Workers : Bears(v, i)'
      BY <3>1, <3>3, <3>5, <3>6, <1>a
    <3>9. inv[i].status # "ABSENT"
      BY <2>1, <2>4, LifecycleAssumption DEF KnownInv
    <3> QED
      BY <2>1, <3>7, <3>8, <3>9, <1>a, <1>b DEF RowInv
  <2> QED
    BY <2>3, <2>4
<1>7. ASSUME NEW w \in Workers, SaveCleared(w)
      PROVE  RowInv(i)'
  <2>1. \A v \in Workers : v # w => wk'[v] = wk[v]
    BY <1>7 DEF SaveCleared, Goto
  <2>2. UNCHANGED <<sage, issued>> /\ wk[w].pc = "logged" /\ wk[w].resp # 0
    BY <1>7 DEF SaveCleared, At
  <2>3. CASE wk[w].inv # i
    <3>1. inv'[i] = inv[i]
      BY <1>7, <2>3 DEF SaveCleared, Save
    <3>2. \A v \in Workers : Bears(v, i) => Bears(v, i)'
      BY <2>1, <2>3 DEF Bears
    <3> QED
      BY <2>2, <3>1, <3>2, <1>c
  <2>4. CASE wk[w].inv = i
    <3>1. inv'[i].status = "CLEARED" /\ inv'[i].irn = wk[w].resp
      BY <1>7, <2>4 DEF SaveCleared, Save
    <3>2. sage[i] = 0 \/ Overlapped(i)
      BY <2>2, <2>4, <1>b DEF ExclInv, WorkInv, RowInv
    <3> QED
      BY <2>2, <3>1, <3>2, <1>a, <1>b DEF RowInv
  <2> QED
    BY <2>3, <2>4
<1>8. ASSUME NEW w \in Workers, WriteIRN(w) \/ WriteIRNFails(w)
      PROVE  RowInv(i)'
  <2>1. UNCHANGED <<inv, issued>> /\ wk[w].pc = "cleared"
    BY <1>8 DEF WriteIRN, WriteIRNFails, At
  <2>2. \A v \in Workers : Bears(v, i) => Bears(v, i)'
    <3>1. \A v \in Workers : v # w => wk'[v] = wk[v]
      BY <1>8 DEF WriteIRN, WriteIRNFails, Goto, Done
    <3> QED
      BY <2>1, <3>1 DEF Bears
  <2>3. sage'[i] = sage[i] \/ (wk[w].inv = i /\ sage'[i] = wk[w].resp)
    <3>1. sage' = sage \/ sage' = [sage EXCEPT ![wk[w].inv] = wk[w].resp]
      BY <1>8 DEF WriteIRN, WriteIRNFails
    <3> QED
      BY <3>1
  <2>4. wk[w].inv = i => wk[w].resp = inv[i].irn \/ Overlapped(i)
    BY <2>1 DEF ExclInv, WorkInv
  <2>5. sage'[i] # 0 => sage'[i] = inv[i].irn \/ Overlapped(i)
    BY <2>3, <2>4, <1>b DEF RowInv
  <2> QED
    BY <2>1, <2>2, <2>5, <1>a, <1>b DEF RowInv
<1> QED
  BY <1>1, <1>2, <1>3, <1>4, <1>5, <1>6, <1>7, <1>8
     DEF Next, Automatic, Users, Failures, WorkerStep, Repull, ProcessInvoice

\* The workers: what a worker read about its invoice is still so.
LEMMA WorkStep ==
  ASSUME TypeInv, TypeInv', IRNInv, KnownInv, ExclInv, [Next]_vars
  PROVE  \A v \in Workers, i \in Invoices : WorkInv(v, i)'
<1> USE DEF TypeInv, TypeOK, Occupied, Worker, Invoice, Cleared
<1> SUFFICES ASSUME NEW v \in Workers, NEW i \in Invoices
             PROVE  WorkInv(v, i)'
  OBVIOUS
<1>a. /\ Overlapped(i) => Overlapped(i)'
      /\ Repeatable(i) => Repeatable(i)'
      /\ Overlapped(i) => Repeatable(i)
      /\ Overlapped(i)' => Repeatable(i)'
  BY MishapsStay DEF Overlapped, Repeatable, Mishap
<1>b. WorkInv(v, i) /\ RowInv(i)
  BY DEF ExclInv
\* Somebody else touches the invoice: an overlap, or v holds no row of it.
<1>c. ASSUME wk'[v] = wk[v], Overlapped(i)
      PROVE  WorkInv(v, i)'
  BY <1>a, <1>b, <1>c DEF WorkInv
<1>d. ASSUME wk'[v] = wk[v], issued'[i] = issued[i],
             inv'[i].irn = inv[i].irn, inv'[i].attempts = inv[i].attempts
      PROVE  WorkInv(v, i)'
  BY <1>a, <1>b, <1>d DEF WorkInv
<1>e. ASSUME wk'[v].pc \in {"idle", "polling"}
      PROVE  WorkInv(v, i)'
  <2>1. wk'[v].inv = NoInvoice
    BY <1>e
  <2> QED
    BY <2>1, LifecycleAssumption DEF WorkInv
<1>1. ASSUME \/ ToggleClient \/ UNCHANGED vars
             \/ \E j \in Invoices : \/ RetryFailed(j)
                                    \/ RetryInvoiceView(j) \/ SubmitInvoiceView(j)
             \/ \E w \in Workers, j \in Invoices : RetrySingle(w, j)
      PROVE  WorkInv(v, i)'
  <2>1. UNCHANGED <<inv, wk, issued>>
    BY <1>1 DEF ToggleClient, RetryFailed, RetryInvoiceView, SubmitInvoiceView, RetrySingle, vars
  <2> QED
    BY <2>1, <1>d
<1>2. ASSUME NEW j \in Invoices, BackoffElapses(j)
      PROVE  WorkInv(v, i)'
  BY <1>2, <1>d DEF BackoffElapses
\* The steps of v itself.
<1>3. ASSUME \/ EndPoll(v) \/ StartPoll(v) \/ RememberError(v) \/ RepullMissing(v)
             \/ RepullUnreachable(v) \/ RepullError(v) \/ RepullRejected(v)
             \/ HandleFailure(v) \/ WriteIRNFails(v) \/ SaveWrittenBack(v)
             \/ Interrupt(v) \/ Crash(v)
      PROVE  WorkInv(v, i)'
  <2>1. CASE StartPoll(v) \/ EndPoll(v) \/ Crash(v)
    <3>1. wk'[v].pc \in {"idle", "polling"}
      BY <2>1 DEF StartPoll, EndPoll, Crash, Idle, Polling
    <3> QED
      BY <3>1, <1>e
  <2>2. CASE Done(v)
    BY <2>2, Freed, <1>e
  <2> QED
    BY <1>3, <2>1, <2>2 DEF RememberError, RepullMissing, RepullUnreachable, RepullError,
       RepullRejected, HandleFailure, WriteIRNFails, SaveWrittenBack, Interrupt
<1>4. ASSUME NEW j \in Invoices, PollInvoice(v, j)
      PROVE  WorkInv(v, i)'
  BY <1>4 DEF PollInvoice, WorkInv
<1>5. ASSUME SaveInvoice(v)
      PROVE  WorkInv(v, i)'
  <2>1. CASE Done(v)
    BY <2>1, Freed, <1>e
  <2>2. CASE Goto(v, "ready") /\ wk[v].inv # i
    <3>1. wk'[v].inv # i
      BY <2>2 DEF Goto
    <3> QED
      BY <3>1 DEF WorkInv
  <2>3. CASE Goto(v, "ready") /\ wk[v].inv = i
    <3>1. wk[v].pc = "fresh" /\ inv[i].status = "ABSENT" /\ UNCHANGED issued
      BY <1>5, <2>3 DEF SaveInvoice, At
    <3>2. inv'[i].irn = inv[i].irn /\ inv'[i].attempts = inv[i].attempts
      BY <1>5, <2>3 DEF SaveInvoice, SaveStatus
    <3>3. inv[i].irn = 0 /\ inv[i].attempts = 0 /\ issued[i] = 0 /\ wk[v].attempts = 0
      BY <2>3, <3>1, <1>b DEF RowInv, WorkInv
    <3>4. wk'[v].pc = "ready" /\ wk'[v].attempts = wk[v].attempts
      BY <2>3 DEF Goto
    <3> QED
      BY <3>1, <3>2, <3>3, <3>4 DEF WorkInv
  <2> QED
    BY <1>5, <2>1, <2>2, <2>3 DEF SaveInvoice
<1>6. ASSUME NEW j \in Invoices, NEW n \in 0 .. MaxTaskRetries, StartSubmit(v, j, n)
      PROVE  WorkInv(v, i)'
  <2>1. UNCHANGED <<inv, issued>>
    BY <1>6 DEF StartSubmit
  <2>2. CASE UNCHANGED wk
    BY <2>1, <2>2, <1>d
  <2>3. CASE ~UNCHANGED wk /\ i # j
    BY <1>6, <2>3 DEF StartSubmit, WorkInv
  <2>4. CASE ~UNCHANGED wk /\ i = j
    <3>1. wk'[v].pc = "pull" /\ wk'[v].attempts = inv[i].attempts /\ inv[i].irn = 0
      BY <1>6, <2>4 DEF StartSubmit
    <3>2. issued[i] = 0 \/ Repeatable(i)'
      <4>1. CASE \E w \in Workers : Bears(w, i)
        <5>1. Overlapped(i)'
          BY <1>6, <2>4, <4>1 DEF StartSubmit, Bears, Holds, Note, Overlapped
        <5> QED
          BY <5>1, <1>a
      <4>2. CASE ~\E w \in Workers : Bears(w, i)
        BY <3>1, <4>2, <1>a, <1>b DEF RowInv
      <4> QED
        BY <4>1, <4>2
    <3> QED
      BY <2>1, <3>1, <3>2 DEF WorkInv
  <2> QED
    BY <2>2, <2>3, <2>4
<1>7. ASSUME RepullFound(v) \/ LogSubmission(v) \/ WriteIRN(v)
      PROVE  WorkInv(v, i)'
  <2>1. UNCHANGED <<inv, issued>>
    BY <1>7 DEF RepullFound, LogSubmission, WriteIRN
  <2>2. CASE RepullFound(v)
    <3>1. wk[v].pc = "pull" /\ wk'[v].pc = "ready" /\ wk'[v].inv = wk[v].inv
          /\ wk'[v].attempts = wk[v].attempts
      BY <2>2 DEF RepullFound, At, Goto
    <3> QED
      BY <2>1, <3>1, <1>a, <1>b DEF WorkInv
  <2>3. CASE LogSubmission(v)
    <3>1. wk[v].pc = "answered" /\ wk'[v].pc = "logged" /\ wk'[v].inv = wk[v].inv
          /\ wk'[v].resp = wk[v].resp
      BY <2>3 DEF LogSubmission, At, Goto
    <3> QED
      BY <2>1, <3>1, <1>a, <1>b DEF WorkInv
  <2>4. CASE WriteIRN(v)
    <3>1. wk[v].pc = "cleared" /\ wk'[v].pc = "written" /\ wk'[v].inv = wk[v].inv
          /\ wk'[v].resp = wk[v].resp
      BY <2>4 DEF WriteIRN, At, Goto
    <3> QED
      BY <2>1, <3>1, <1>a, <1>b DEF WorkInv
  <2> QED
    BY <1>7, <2>2, <2>3, <2>4
<1>8. ASSUME SaveSubmitting(v)
      PROVE  WorkInv(v, i)'
  <2>1. wk[v].pc = "ready" /\ wk'[v].pc = "sending" /\ wk'[v].inv = wk[v].inv /\ UNCHANGED issued
    BY <1>8 DEF SaveSubmitting, At, Move
  <2>2. inv'[i].irn = inv[i].irn
    BY <1>8 DEF SaveSubmitting, Save
  <2> QED
    BY <2>1, <2>2, <1>a, <1>b DEF WorkInv
<1>9. ASSUME Submit(v)
      PROVE  WorkInv(v, i)'
  <2>1. CASE wk[v].inv # i
    <3>1. wk'[v].inv # i
      BY <1>9, <2>1 DEF Submit, Move
    <3> QED
      BY <3>1 DEF WorkInv
  <2>2. CASE wk[v].inv = i
    <3>1. PICK hit \in 0 .. 1, lost \in 0 .. AppTries :
            /\ issued' = [issued EXCEPT ![i] = @ + hit + lost]
            /\ Move(v, "answered", wk[v].attempts, IF hit = 1 THEN issued[i] + hit + lost ELSE 0)
            /\ Note(i, IF lost > 0 THEN {"lostAnswer"} ELSE {})
      BY <1>9, <2>2 DEF Submit
    <3>a. lost \in Nat
      BY LifecycleAssumption
    <3>2. wk[v].pc = "sending" /\ UNCHANGED inv
      BY <1>9 DEF Submit, At
    <3>3. lost > 0 => Repeatable(i)'
      BY <3>1, <3>a DEF Note, Repeatable
    <3>4. issued'[i] = issued[i] + hit + lost
      BY <3>1, <3>a
    <3>5. wk'[v].pc = "answered" /\ (hit = 1 => wk'[v].resp # 0)
      BY <3>1 DEF Move
    <3>6. wk'[v].resp = 0 => issued'[i] = 0 \/ Repeatable(i)'
      BY <2>2, <3>2, <3>3, <3>4, <3>5, <1>a, <1>b DEF WorkInv
    <3> QED
      BY <2>2, <3>2, <3>5, <3>6, <1>a, <1>b DEF WorkInv
  <2> QED
    BY <2>1, <2>2
<1>10. ASSUME SaveCleared(v)
       PROVE  WorkInv(v, i)'
  <2>1. wk'[v].pc = "cleared" /\ wk'[v].inv = wk[v].inv /\ wk'[v].resp = wk[v].resp
    BY <1>10 DEF SaveCleared, Goto
  <2>2. wk[v].inv = i => inv'[i].irn = wk[v].resp
    BY <1>10 DEF SaveCleared, Save
  <2> QED
    BY <2>1, <2>2 DEF WorkInv
\* The steps of another worker.
<1>11. ASSUME NEW w \in Workers, w # v,
              \/ StartPoll(w) \/ EndPoll(w) \/ RememberError(w) \/ RepullFound(w)
              \/ RepullMissing(w) \/ RepullError(w) \/ LogSubmission(w)
              \/ WriteIRN(w) \/ WriteIRNFails(w) \/ Crash(w)
              \/ \E j \in Invoices : PollInvoice(w, j)
              \/ \E j \in Invoices, n \in 0 .. MaxTaskRetries : StartSubmit(w, j, n)
       PROVE  WorkInv(v, i)'
  <2>1. UNCHANGED <<inv, issued>>
    BY <1>11 DEF StartPoll, EndPoll, RememberError, RepullFound, RepullMissing, RepullError,
       LogSubmission, WriteIRN, WriteIRNFails, Crash, PollInvoice, StartSubmit
  <2>2. wk'[v] = wk[v]
    BY <1>11 DEF StartPoll, EndPoll, RememberError, RepullFound, RepullMissing, RepullError,
       LogSubmission, WriteIRN, WriteIRNFails, Crash, PollInvoice, StartSubmit, Done, Goto
  <2> QED
    BY <2>1, <2>2, <1>d
<1>12. ASSUME NEW w \in Workers, w # v,
              \/ SaveInvoice(w) \/ RepullUnreachable(w) \/ RepullRejected(w)
              \/ HandleFailure(w) \/ SaveWrittenBack(w) \/ Interrupt(w)
       PROVE  WorkInv(v, i)'
  <2>1. UNCHANGED issued
    BY <1>12 DEF SaveInvoice, RepullUnreachable, RepullRejected, HandleFailure, SaveWrittenBack,
       Interrupt
  <2>2. wk'[v] = wk[v]
    BY <1>12 DEF SaveInvoice, RepullUnreachable, RepullRejected, HandleFailure, SaveWrittenBack,
       Interrupt, Done, Goto
  <2>3. inv'[i].irn = inv[i].irn /\ inv'[i].attempts = inv[i].attempts
    <3>1. CASE \E j \in Invoices, s \in {"PENDING", "WRITTEN_BACK"} : SaveStatus(j, s)
      BY <3>1 DEF SaveStatus
    <3>2. CASE RepullUnreachable(w)
      BY <3>2 DEF RepullUnreachable
    <3>3. CASE RepullRejected(w) \/ HandleFailure(w) \/ Interrupt(w)
      BY <3>3 DEF RepullRejected, HandleFailure, Interrupt, MarkFailed, Save
    <3>4. SaveInvoice(w) \/ SaveWrittenBack(w) => \E j \in Invoices, s \in {"PENDING", "WRITTEN_BACK"} : SaveStatus(j, s)
      BY DEF SaveInvoice, SaveWrittenBack, At
    <3> QED
      BY <1>12, <3>1, <3>2, <3>3, <3>4
  <2> QED
    BY <2>1, <2>2, <2>3, <1>d
<1>13. ASSUME NEW w \in Workers, w # v, SaveSubmitting(w) \/ Submit(w) \/ SaveCleared(w)
       PROVE  WorkInv(v, i)'
  <2>1. wk'[v] = wk[v]
    BY <1>13 DEF SaveSubmitting, Submit, SaveCleared, Goto, Move
  <2>2. CASE wk[w].inv # i
    <3>1. inv'[i] = inv[i] /\ issued'[i] = issued[i]
      BY <1>13, <2>2 DEF SaveSubmitting, Submit, SaveCleared, Save
    <3> QED
      BY <2>1, <3>1, <1>d
  <2>3. CASE wk[w].inv = i /\ Holds(v, i)
    <3>1. Holds(w, i)
      BY <1>13, <2>3 DEF SaveSubmitting, Submit, SaveCleared, At, Holds
    <3>2. Overlapped(i)
      BY <1>13, <2>3, <3>1 DEF ExclInv, Exclusion
    <3> QED
      BY <2>1, <3>2, <1>c
  <2>4. CASE ~Holds(v, i)
    BY <2>1, <2>4, <1>b DEF Holds, WorkInv
  <2> QED
    BY <2>2, <2>3, <2>4
<1>14. ASSUME WorkerStep(v) \/ Interrupt(v) \/ Crash(v)
       PROVE  WorkInv(v, i)'
  BY <1>14, <1>1, <1>3, <1>4, <1>5, <1>6, <1>7, <1>8, <1>9, <1>10
     DEF WorkerStep, Repull, ProcessInvoice
<1>15. ASSUME NEW w \in Workers, w # v, WorkerStep(w) \/ Interrupt(w) \/ Crash(w)
       PROVE  WorkInv(v, i)'
  BY <1>15, <1>1, <1>11, <1>12, <1>13 DEF WorkerStep, Repull, ProcessInvoice
<1> QED
  BY <1>1, <1>2, <1>14, <1>15 DEF Next, Automatic, Users, Failures

\* The exclusion invariant holds in every reachable state.
THEOREM ExclInvariance == Spec => []ExclInv
<1>1. Init => ExclInv
  <2> SUFFICES ASSUME Init
               PROVE  ExclInv
    OBVIOUS
  <2>1. \A i \in Invoices : RowInv(i)
    BY DEF Init, RowInv, Absent
  <2>2. \A w \in Workers, i \in Invoices : WorkInv(w, i)
    BY DEF Init, WorkInv, Idle
  <2>3. Exclusion
    BY LifecycleAssumption DEF Init, Exclusion, Holds, Idle
  <2> QED
    BY <2>1, <2>2, <2>3 DEF ExclInv
<1>2. /\ TypeInv /\ TypeInv' /\ IRNInv /\ KnownInv /\ ExclInv /\ [Next]_vars
      => ExclInv'
  <2> SUFFICES ASSUME TypeInv, TypeInv', IRNInv, KnownInv, ExclInv, [Next]_vars
               PROVE  ExclInv'
    OBVIOUS
  <2>1. Exclusion'
    BY ExclusionStep DEF ExclInv
  <2>2. \A i \in Invoices : RowInv(i)'
    BY RowStep
  <2>3. \A w \in Workers, i \in Invoices : WorkInv(w, i)'
    BY WorkStep
  <2> QED
    BY <2>1, <2>2, <2>3 DEF ExclInv
<1> QED
  BY <1>1, <1>2, TypeInvariance, IRNInvariance, KnownInvariance, PTL DEF Spec

\* Without overlapping tasks, crashes, interruptions and lost answers, FIRS
\* clears an invoice at most once.
THEOREM ClearedOnce == Spec => []SecondIRNNeedsMishap
<1>1. TypeOK /\ ExclInv => SecondIRNNeedsMishap
  BY DEF TypeOK, ExclInv, RowInv, Overlapped, Repeatable, SecondIRNNeedsMishap, Excused
<1> QED
  BY <1>1, TypeCorrect, ExclInvariance, PTL

\* Without overlapping tasks an invoice that has an IRN is shown as cleared.
THEOREM ClearedStays == Spec => []ClearedStaysCleared
<1>1. TypeOK /\ ExclInv => ClearedStaysCleared
  BY DEF TypeOK, ExclInv, RowInv, Overlapped, Repeatable, ClearedStaysCleared, Excused
<1> QED
  BY <1>1, TypeCorrect, ExclInvariance, PTL

\* Without overlapping tasks the ERP is told the IRN of the table or none.
THEOREM ERPAgrees == Spec => []SageAgrees
<1>1. TypeOK /\ ExclInv => SageAgrees
  BY DEF TypeOK, ExclInv, RowInv, Overlapped, Repeatable, SageAgrees, Excused
<1> QED
  BY <1>1, TypeCorrect, ExclInvariance, PTL

\* Only SaveSubmitting writes the counter, from an object that is out of date
\* only when two tasks overlap.
LEMMA AttemptsStep ==
  ASSUME TypeInv, ExclInv, [Next]_vars, NEW i \in Invoices
  PROVE  inv'[i].attempts >= inv[i].attempts \/ Overlapped(i)
<1> USE DEF TypeInv, TypeOK, Occupied, Worker, Invoice
<1>1. ASSUME NEW w \in Workers, SaveSubmitting(w)
      PROVE  inv'[i].attempts >= inv[i].attempts \/ Overlapped(i)
  <2>1. CASE wk[w].inv = i
    <3>1. inv'[i].attempts = wk[w].attempts + 1
      BY <1>1, <2>1 DEF SaveSubmitting, Save
    <3>2. wk[w].attempts = inv[i].attempts \/ Overlapped(i)
      BY <1>1, <2>1 DEF SaveSubmitting, At, ExclInv, WorkInv
    <3> QED
      BY <3>1, <3>2
  <2>2. CASE wk[w].inv # i
    BY <1>1, <2>2 DEF SaveSubmitting, Save
  <2> QED
    BY <2>1, <2>2
<1>2. ASSUME NEW w \in Workers, SaveCleared(w) \/ RepullRejected(w) \/ HandleFailure(w) \/ Interrupt(w)
      PROVE  inv'[i].attempts = inv[i].attempts
  BY <1>2 DEF SaveCleared, RepullRejected, HandleFailure, Interrupt, MarkFailed, Save
<1>3. ASSUME NEW w \in Workers, SaveInvoice(w) \/ SaveWrittenBack(w)
      PROVE  inv'[i].attempts = inv[i].attempts
  <2>1. PICK j \in Invoices, s \in {"PENDING", "WRITTEN_BACK"} : SaveStatus(j, s)
    BY <1>3 DEF SaveInvoice, SaveWrittenBack, At
  <2> QED
    BY <2>1 DEF SaveStatus
<1>4. ASSUME NEW w \in Workers, RepullUnreachable(w)
      PROVE  inv'[i].attempts = inv[i].attempts
  BY <1>4 DEF RepullUnreachable
<1>5. ASSUME NEW j \in Invoices, BackoffElapses(j)
      PROVE  inv'[i].attempts = inv[i].attempts
  BY <1>5 DEF BackoffElapses
<1>6. ASSUME NEW w \in Workers,
             \/ StartPoll(w) \/ EndPoll(w) \/ RememberError(w)
             \/ RepullFound(w) \/ RepullMissing(w) \/ RepullError(w)
             \/ Submit(w) \/ LogSubmission(w) \/ WriteIRN(w) \/ WriteIRNFails(w) \/ Crash(w)
             \/ \E j \in Invoices : PollInvoice(w, j) \/ RetrySingle(w, j)
             \/ \E j \in Invoices, n \in 0 .. MaxTaskRetries : StartSubmit(w, j, n)
      PROVE  inv' = inv
  BY <1>6 DEF StartPoll, EndPoll, RememberError, RepullFound, RepullMissing, RepullError,
              Submit, LogSubmission, WriteIRN, WriteIRNFails, Crash, PollInvoice,
              RetrySingle, StartSubmit
<1>7. ASSUME \/ ToggleClient \/ UNCHANGED vars
             \/ \E j \in Invoices :
                  RetryFailed(j) \/ RetryInvoiceView(j) \/ SubmitInvoiceView(j)
      PROVE  inv' = inv
  BY <1>7 DEF ToggleClient, RetryFailed, RetryInvoiceView, SubmitInvoiceView, vars
<1>8. inv[i].attempts \in Nat
  OBVIOUS
<1> QED
  BY <1>1, <1>2, <1>3, <1>4, <1>5, <1>6, <1>7, <1>8
     DEF Next, Automatic, Users, Failures, WorkerStep, Repull, ProcessInvoice

\* The counter that the retry limit is compared with goes back only when two
\* tasks overlap.
THEOREM AttemptsMonotone == Spec => AttemptsFallOnlyOnOverlap
<1>1. /\ TypeInv /\ TypeInv' /\ ExclInv /\ [Next]_vars
      => [\A i \in Invoices :
            inv'[i].attempts < inv[i].attempts => Excused(i, {"overlap"})]_vars
  <2> SUFFICES ASSUME TypeInv, TypeInv', ExclInv, [Next]_vars, NEW i \in Invoices,
                      inv'[i].attempts < inv[i].attempts
               PROVE  Excused(i, {"overlap"})
    OBVIOUS
  <2>1. inv'[i].attempts \in Nat /\ inv[i].attempts \in Nat
    BY DEF TypeInv, TypeOK, Invoice
  <2>2. Overlapped(i)
    BY <2>1, AttemptsStep
  <2> QED
    BY <2>2 DEF Overlapped, Excused
<1> QED
  BY <1>1, TypeInvariance, ExclInvariance, PTL DEF Spec, AttemptsFallOnlyOnOverlap

-----------------------------------------------------------------------------
(* No invoice is forgotten in flight: the worker that owes it a final status *)
(* settles it, or goes down, or its lines could not be saved.                *)

Left(i) == "crash" \in mishaps[i] \/ "lines" \in mishaps[i]

InFlight(i) == inv[i].status \in {"PENDING", "SUBMITTING"}

Held(i) == InFlight(i) => (\E w \in Workers : Owes(w, i)) \/ Left(i)

\* A step leaves no invoice in flight without a worker that owes it a status.
LEMMA InFlightStep ==
  ASSUME TypeInv, TypeInv', \A i \in Invoices : Held(i), [Next]_vars
  PROVE  \A i \in Invoices : Held(i)'
<1> USE DEF TypeInv, TypeOK, Occupied, Worker, Invoice
<1> SUFFICES ASSUME NEW i \in Invoices
             PROVE  Held(i)'
  OBVIOUS
<1>a. Left(i) => Left(i)'
  BY MishapsStay DEF Left, Mishap
<1>b. ASSUME \A w \in Workers : Owes(w, i) => Owes(w, i)',
             InFlight(i)' => InFlight(i)
      PROVE  Held(i)'
  BY <1>a, <1>b DEF Held
<1>1. ASSUME \/ ToggleClient \/ UNCHANGED vars
             \/ \E j \in Invoices : \/ RetryFailed(j)
                                    \/ RetryInvoiceView(j) \/ SubmitInvoiceView(j)
             \/ \E w \in Workers, j \in Invoices : RetrySingle(w, j)
      PROVE  Held(i)'
  <2>1. UNCHANGED <<inv, wk>>
    BY <1>1 DEF ToggleClient, RetryFailed, RetryInvoiceView, SubmitInvoiceView, RetrySingle, vars
  <2> QED
    BY <2>1, <1>b DEF Owes, InFlight
<1>2. ASSUME NEW j \in Invoices, BackoffElapses(j)
      PROVE  Held(i)'
  BY <1>2, <1>b DEF BackoffElapses, Owes, InFlight
<1>3. ASSUME NEW w \in Workers,
             \/ StartPoll(w) \/ EndPoll(w) \/ RememberError(w) \/ RepullFound(w)
             \/ RepullMissing(w) \/ RepullError(w) \/ WriteIRN(w) \/ WriteIRNFails(w)
             \/ \E j \in Invoices : PollInvoice(w, j)
             \/ \E j \in Invoices, n \in 0 .. MaxTaskRetries : StartSubmit(w, j, n)
      PROVE  Held(i)'
  <2>1. UNCHANGED inv /\ ~Owes(w, i)
    BY <1>3 DEF StartPoll, EndPoll, RememberError, RepullFound, RepullMissing, RepullError,
       WriteIRN, WriteIRNFails, PollInvoice, StartSubmit, At, Owes
  <2>2. \A v \in Workers : v # w => wk'[v] = wk[v]
    BY <1>3 DEF StartPoll, EndPoll, RememberError, RepullFound, RepullMissing, RepullError,
       WriteIRN, WriteIRNFails, PollInvoice, StartSubmit, Done, Goto
  <2> QED
    BY <2>1, <2>2, <1>b DEF Owes, InFlight
<1>4. ASSUME NEW w \in Workers, LogSubmission(w) \/ Submit(w) \/ SaveSubmitting(w)
      PROVE  Held(i)'
  <2>1. \A v \in Workers : Owes(v, i) => Owes(v, i)'
    <3>1. \A v \in Workers : v # w => wk'[v] = wk[v]
      BY <1>4 DEF LogSubmission, Submit, SaveSubmitting, Goto, Move
    <3>2. wk'[w].inv = wk[w].inv /\ wk'[w].pc \in {"sending", "answered", "logged"}
      BY <1>4 DEF LogSubmission, Submit, SaveSubmitting, Goto, Move
    <3> QED
      BY <3>1, <3>2 DEF Owes
  <2>2. CASE UNCHANGED inv
    BY <2>1, <2>2, <1>b DEF InFlight
  <2>3. CASE SaveSubmitting(w) /\ wk[w].inv # i
    <3>1. inv'[i] = inv[i]
      BY <2>3 DEF SaveSubmitting, Save
    <3> QED
      BY <2>1, <3>1, <1>b DEF InFlight
  <2>4. CASE SaveSubmitting(w) /\ wk[w].inv = i
    <3>1. Owes(w, i)'
      BY <2>1, <2>4 DEF SaveSubmitting, At, Owes
    <3> QED
      BY <3>1 DEF Held
  <2> QED
    BY <1>4, <2>2, <2>3, <2>4 DEF LogSubmission, Submit
<1>5. ASSUME NEW w \in Workers,
             \/ RepullRejected(w) \/ HandleFailure(w) \/ Interrupt(w)
             \/ SaveCleared(w) \/ SaveWrittenBack(w) \/ RepullUnreachable(w)
      PROVE  Held(i)'
  <2>1. \A v \in Workers : v # w => wk'[v] = wk[v]
    BY <1>5 DEF RepullRejected, HandleFailure, Interrupt, SaveCleared, SaveWrittenBack,
       RepullUnreachable, Done, Goto
  <2>2. CASE wk[w].inv # i
    <3>1. inv'[i] = inv[i]
      BY <1>5, <2>2 DEF RepullRejected, HandleFailure, Interrupt, SaveCleared, SaveWrittenBack,
         RepullUnreachable, MarkFailed, Save, SaveStatus
    <3> QED
      BY <2>1, <2>2, <3>1, <1>b DEF Owes, InFlight
  <2>3. CASE wk[w].inv = i /\ RepullUnreachable(w)
    <3>1. inv'[i].status = inv[i].status
      BY <2>3 DEF RepullUnreachable
    <3>2. ~Owes(w, i)
      BY <2>3 DEF RepullUnreachable, At, Owes
    <3> QED
      BY <2>1, <3>1, <3>2, <1>b DEF Owes, InFlight
  <2>4. CASE wk[w].inv = i /\ SaveWrittenBack(w)
    <3>1. inv'[i].status = "WRITTEN_BACK"
      BY <2>4 DEF SaveWrittenBack, SaveStatus
    <3> QED
      BY <3>1 DEF Held, InFlight
  <2>5. CASE wk[w].inv = i /\ (RepullRejected(w) \/ HandleFailure(w) \/ Interrupt(w) \/ SaveCleared(w))
    <3>1. inv'[i].status \in {"FAILED", "CLEARED"}
      BY <2>5 DEF RepullRejected, HandleFailure, Interrupt, SaveCleared, MarkFailed, Save
    <3> QED
      BY <3>1 DEF Held, InFlight
  <2> QED
    BY <1>5, <2>2, <2>3, <2>4, <2>5
<1>6. ASSUME NEW w \in Workers, Crash(w)
      PROVE  Held(i)'
  <2>1. UNCHANGED inv /\ \A v \in Workers : v # w => wk'[v] = wk[v]
    BY <1>6 DEF Crash
  <2>2. CASE wk[w].inv = i
    <3>1. Left(i)'
      BY <1>6, <2>2 DEF Crash, Note, Left
    <3> QED
      BY <3>1 DEF Held
  <2>3. CASE wk[w].inv # i
    BY <2>1, <2>3, <1>b DEF Owes, InFlight
  <2> QED
    BY <2>2, <2>3
<1>7. ASSUME NEW w \in Workers, SaveInvoice(w)
      PROVE  Held(i)'
  <2>1. wk[w].pc = "fresh" /\ \A v \in Workers : v # w => wk'[v] = wk[v]
    BY <1>7 DEF SaveInvoice, At, Done, Goto
  <2>2. CASE wk[w].inv # i
    <3>1. inv'[i] = inv[i]
      BY <1>7, <2>2 DEF SaveInvoice, SaveStatus
    <3> QED
      BY <2>1, <2>2, <3>1, <1>b DEF Owes, InFlight
  <2>3. CASE wk[w].inv = i /\ Goto(w, "ready")
    <3>1. Owes(w, i)'
      BY <2>3 DEF Goto, Owes
    <3> QED
      BY <3>1 DEF Held
  <2>4. CASE wk[w].inv = i /\ Note(i, {"lines"})
    <3>1. Left(i)'
      BY <2>4 DEF Note, Left
    <3> QED
      BY <3>1 DEF Held
  <2> QED
    BY <1>7, <2>2, <2>3, <2>4 DEF SaveInvoice
<1> QED
  BY <1>1, <1>2, <1>3, <1>4, <1>5, <1>6, <1>7
     DEF Next, Automatic, Users, Failures, WorkerStep, Repull, ProcessInvoice

\* An invoice that is PENDING or SUBMITTING is in the hands of a worker that
\* will settle it, unless a worker died with it or its lines were not saved.
THEOREM NoneForgotten == Spec => []InFlightIsHeld
<1>1. InFlightIsHeld <=> \A i \in Invoices : Held(i)
  BY DEF InFlightIsHeld, Held, InFlight, Left, Excused
<1>2. Init => InFlightIsHeld
  BY DEF Init, InFlightIsHeld, Absent
<1>3. TypeInv /\ TypeInv' /\ InFlightIsHeld /\ [Next]_vars => InFlightIsHeld'
  <2>1. InFlightIsHeld' <=> \A i \in Invoices : Held(i)'
    BY DEF InFlightIsHeld, Held, InFlight, Left, Excused
  <2> QED
    BY <1>1, <2>1, InFlightStep
<1> QED
  BY <1>2, <1>3, TypeInvariance, PTL DEF Spec
=============================================================================
