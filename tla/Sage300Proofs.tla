---------------------------- MODULE Sage300Proofs ----------------------------
(***************************************************************************)
(* Proofs about module Sage300Pipeline, for any sets of invoices and       *)
(* workers and any limits: types, the refinement of InvoiceClearance, and  *)
(* what keeps FIRS from clearing an invoice twice.                         *)
(***************************************************************************)
EXTENDS Sage300Pipeline, TLAPS

\* A worker holds an invoice exactly when it is inside the work on one.
Occupied ==
  \A w \in Workers :
    wk[w].inv = NoInvoice <=> wk[w].pc \in {"idle", "connecting", "rows"}

TypeInv == TypeOK /\ Occupied

LEMMA IdleType == Idle \in Worker
BY DEF Idle, Worker

\* What is read from ARINVOICE are invoices.
LEMMA ReadType ==
  ASSUME TypeOK, NEW skip \in Nat
  PROVE  Read(skip) \subseteq Invoices
<1>1. \A n \in DOMAIN posted : posted[n] \in Invoices
  BY DEF TypeOK
<1>2. \A k : Row(k) \subseteq Invoices
  BY <1>1 DEF Row
<1> QED
  BY <1>2 DEF Read

\* A worker that is free, or between two invoices.
LEMMA FreeType ==
  ASSUME TypeInv, NEW w \in Workers, NEW r \in Worker,
         r.inv = NoInvoice, r.pc \in {"idle", "connecting", "rows"},
         wk' = [wk EXCEPT ![w] = r]
  PROVE  wk' \in [Workers -> Worker] /\ Occupied'
BY DEF TypeInv, TypeOK, Occupied

\* A worker inside the work on an invoice.
LEMMA HoldType ==
  ASSUME TypeInv, NEW w \in Workers, NEW r \in Worker,
         r.inv # NoInvoice, r.pc \notin {"idle", "connecting", "rows"},
         wk' = [wk EXCEPT ![w] = r]
  PROVE  wk' \in [Workers -> Worker] /\ Occupied'
BY DEF TypeInv, TypeOK, Occupied

LEMMA DoneType ==
  ASSUME TypeInv, NEW w \in Workers, Done(w)
  PROVE  /\ wk' \in [Workers -> Worker] /\ Occupied'
         /\ wk'[w].inv = NoInvoice
         /\ \A v \in Workers : v # w => wk'[v] = wk[v]
<1> DEFINE next == [wk[w] EXCEPT !.pc = "rows", !.inv = NoInvoice, !.attempts = 0, !.resp = 0]
           r == IF wk[w].job = "submit" THEN Idle ELSE next
<1>1. wk[w] \in Worker
  BY DEF TypeInv, TypeOK
<1>2. next \in Worker /\ next.inv = NoInvoice /\ next.pc = "rows"
  BY <1>1 DEF Worker
<1>3. r \in Worker /\ r.inv = NoInvoice /\ r.pc \in {"idle", "rows"}
  BY <1>2, IdleType DEF Idle
<1>4. wk' = [wk EXCEPT ![w] = r]
  BY DEF Done
<1>5. wk'[w] = r /\ \A v \in Workers : v # w => wk'[v] = wk[v]
  BY <1>4 DEF TypeInv, TypeOK
<1> QED
  BY <1>3, <1>4, <1>5, FreeType

LEMMA GotoType ==
  ASSUME TypeInv, NEW w \in Workers, wk[w].pc \notin {"idle", "connecting", "rows"},
         NEW pc \in {"ready", "cleared", "written"}, Goto(w, pc)
  PROVE  wk' \in [Workers -> Worker] /\ Occupied'
<1> DEFINE r == [wk[w] EXCEPT !.pc = pc]
<1>1. wk[w] \in Worker /\ wk[w].inv # NoInvoice
  BY DEF TypeInv, TypeOK, Occupied
<1>2. r \in Worker /\ r.inv # NoInvoice /\ r.pc \notin {"idle", "connecting", "rows"}
  BY <1>1 DEF Worker
<1>3. wk' = [wk EXCEPT ![w] = r]
  BY DEF Goto
<1> QED
  BY <1>2, <1>3, HoldType

LEMMA StatusType ==
  ASSUME TypeInv, NEW i, NEW s \in {"PENDING", "SUBMITTING", "CLEARED", "FAILED", "WRITTEN_BACK"},
         SetStatus(i, s)
  PROVE  inv' \in [Invoices -> Invoice]
BY DEF TypeInv, TypeOK, SetStatus, Invoice

LEMMA StatusOnly ==
  ASSUME TypeInv, NEW i, NEW s, SetStatus(i, s)
  PROVE  \A j \in Invoices : inv'[j].irn = inv[j].irn
<1>1. \A j \in Invoices : inv'[j] = inv[j] \/ inv'[j] = [inv[j] EXCEPT !.status = s]
  BY DEF TypeInv, TypeOK, SetStatus
<1>2. \A j \in Invoices : inv[j] \in Invoice
  BY DEF TypeInv, TypeOK
<1>3. \A j \in Invoices : [inv[j] EXCEPT !.status = s].irn = inv[j].irn
  BY <1>2 DEF Invoice
<1> QED
  BY <1>1, <1>3

LEMMA SubmittingOnly ==
  ASSUME TypeInv, NEW w \in Workers, SaveSubmitting(w)
  PROVE  \A j \in Invoices : inv'[j].irn = inv[j].irn
BY DEF SaveSubmitting, TypeInv, TypeOK, Invoice

LEMMA NoteType ==
  ASSUME TypeInv, NEW i, NEW m \in SUBSET Mishap, Note(i, m)
  PROVE  mishaps' \in [Invoices -> SUBSET Mishap]
BY DEF TypeInv, TypeOK, Note

\* Every reachable state is well-typed, and workers hold an invoice exactly
\* while they work on one.
LEMMA TypeStep ==
  ASSUME TypeInv, [Next]_vars
  PROVE  TypeInv'
<1>0. CASE UNCHANGED vars
  BY <1>0 DEF vars, TypeInv, TypeOK, Occupied
<1>1. ASSUME NEW i \in Invoices, Post(i)
      PROVE  TypeInv'
  <2>1. posted' \in Seq(Invoices)
    BY <1>1 DEF Post, TypeInv, TypeOK
  <2> QED
    BY <1>1, <2>1 DEF Post, TypeInv, TypeOK, Occupied
<1>2. ASSUME NEW i \in Invoices, QueueSubmit(i)
      PROVE  TypeInv'
  BY <1>2 DEF QueueSubmit, TypeInv, TypeOK, Occupied
<1>3. ASSUME NEW w \in Workers, StartRun(w)
      PROVE  TypeInv'
  <2> DEFINE r == [Idle EXCEPT !.pc = "connecting", !.job = "run"]
  <2>1. r \in Worker /\ r.inv = NoInvoice /\ r.pc = "connecting"
    BY DEF Idle, Worker
  <2>2. wk' \in [Workers -> Worker] /\ Occupied'
    BY <1>3, <2>1, FreeType DEF StartRun
  <2> QED
    BY <1>3, <2>2 DEF StartRun, TypeInv, TypeOK
<1>4. ASSUME NEW w \in Workers, NEW skip \in 0 .. Len(posted), PullInvoices(w, skip)
      PROVE  TypeInv'
  <2> DEFINE r == [wk[w] EXCEPT !.pc = "rows", !.todo = Read(skip)]
  <2>1. skip \in Nat
    BY DEF TypeInv, TypeOK
  <2>2. Read(skip) \subseteq Invoices
    BY <2>1, ReadType DEF TypeInv
  <2>3. wk[w] \in Worker /\ wk[w].inv = NoInvoice
    BY <1>4 DEF PullInvoices, At, TypeInv, TypeOK, Occupied
  <2>4. r \in Worker /\ r.inv = NoInvoice /\ r.pc = "rows"
    BY <2>2, <2>3 DEF Worker
  <2>5. wk' = [wk EXCEPT ![w] = r]
    BY <1>4 DEF PullInvoices
  <2>6. wk' \in [Workers -> Worker] /\ Occupied'
    BY <2>4, <2>5, FreeType
  <2> QED
    BY <1>4, <2>6 DEF PullInvoices, TypeInv, TypeOK
<1>5. ASSUME NEW w \in Workers, RunFails(w) \/ EndRun(w)
      PROVE  TypeInv'
  <2>1. wk' \in [Workers -> Worker] /\ Occupied'
    BY <1>5, IdleType, FreeType DEF RunFails, EndRun, Idle
  <2> QED
    BY <1>5, <2>1 DEF RunFails, EndRun, TypeInv, TypeOK
<1>6. ASSUME NEW w \in Workers, NEW i \in Invoices, NextInvoice(w, i)
      PROVE  TypeInv'
  <2> DEFINE r == [wk[w] EXCEPT !.todo = @ \ {i},
                     !.pc  = IF inv[i].status = "ABSENT" THEN "fresh" ELSE @,
                     !.inv = IF inv[i].status = "ABSENT" THEN i ELSE @]
  <2>1. wk[w] \in Worker /\ wk[w].pc = "rows" /\ wk[w].inv = NoInvoice
    BY <1>6 DEF NextInvoice, At, TypeInv, TypeOK, Occupied
  <2>2. r \in Worker
    BY <2>1 DEF Worker
  <2>3. wk' = [wk EXCEPT ![w] = r]
    BY <1>6 DEF NextInvoice
  <2>4. CASE inv[i].status = "ABSENT"
    <3>1. r.inv # NoInvoice /\ r.pc = "fresh"
      BY <2>1, <2>4, PipelineAssumption DEF Worker
    <3>2. wk' \in [Workers -> Worker] /\ Occupied'
      BY <2>2, <2>3, <3>1, HoldType
    <3> QED
      BY <1>6, <3>2 DEF NextInvoice, TypeInv, TypeOK
  <2>5. CASE inv[i].status # "ABSENT"
    <3>1. r.inv = NoInvoice /\ r.pc = "rows"
      BY <2>1, <2>5 DEF Worker
    <3>2. wk' \in [Workers -> Worker] /\ Occupied'
      BY <2>2, <2>3, <3>1, FreeType
    <3> QED
      BY <1>6, <3>2 DEF NextInvoice, TypeInv, TypeOK
  <2> QED
    BY <2>4, <2>5
<1>7. ASSUME NEW w \in Workers, FreshFails(w) \/ RepullFails(w)
      PROVE  TypeInv'
  <2>1. wk' \in [Workers -> Worker] /\ Occupied'
    BY <1>7, DoneType DEF FreshFails, RepullFails
  <2> QED
    BY <1>7, <2>1 DEF FreshFails, RepullFails, TypeInv, TypeOK
<1>8. ASSUME NEW w \in Workers, SaveInvoice(w)
      PROVE  TypeInv'
  <2>1. wk' \in [Workers -> Worker] /\ Occupied'
    BY <1>8, DoneType, GotoType DEF SaveInvoice, At
  <2>2. inv' \in [Invoices -> Invoice]
    BY <1>8, StatusType DEF SaveInvoice
  <2> QED
    BY <1>8, <2>1, <2>2 DEF SaveInvoice, TypeInv, TypeOK
<1>9. ASSUME NEW w \in Workers, SaveSubmitting(w)
      PROVE  TypeInv'
  <2> DEFINE r == [wk[w] EXCEPT !.pc = "sending", !.attempts = @ + 1]
  <2>1. wk[w] \in Worker /\ wk[w].inv # NoInvoice
    BY <1>9 DEF SaveSubmitting, At, TypeInv, TypeOK, Occupied
  <2>2. wk[w].inv \in Invoices /\ wk[w].attempts + 1 \in Nat
    BY <2>1 DEF Worker
  <2>3. r \in Worker /\ r.inv # NoInvoice /\ r.pc = "sending"
    BY <2>1, <2>2 DEF Worker
  <2>4. wk' = [wk EXCEPT ![w] = r]
    BY <1>9 DEF SaveSubmitting
  <2>5. wk' \in [Workers -> Worker] /\ Occupied'
    BY <2>3, <2>4, HoldType
  <2>6. inv' \in [Invoices -> Invoice]
    BY <1>9, <2>2 DEF SaveSubmitting, TypeInv, TypeOK, Invoice
  <2>7. sends' \in [Invoices -> Nat]
    BY <1>9, <2>2 DEF SaveSubmitting, TypeInv, TypeOK
  <2> QED
    BY <1>9, <2>5, <2>6, <2>7 DEF SaveSubmitting, TypeInv, TypeOK
<1>10. ASSUME NEW w \in Workers, Submit(w)
       PROVE  TypeInv'
  <2>1. wk[w] \in Worker /\ wk[w].inv # NoInvoice
    BY <1>10 DEF Submit, At, TypeInv, TypeOK, Occupied
  <2>2. PICK hit \in 0 .. 1, lost \in 0 .. AppTries :
          /\ issued' = [issued EXCEPT ![wk[w].inv] = @ + hit + lost]
          /\ wk' = [wk EXCEPT ![w].pc = "answered",
                              ![w].resp = IF hit = 1 THEN issued[wk[w].inv] + hit + lost ELSE 0]
          /\ Note(wk[w].inv, IF lost > 0 THEN {"lostAnswer"} ELSE {})
    BY <1>10 DEF Submit
  <2>3. wk[w].inv \in Invoices /\ hit \in Nat /\ lost \in Nat
    BY <2>1, PipelineAssumption DEF Worker
  <2>4. issued[wk[w].inv] + hit + lost \in Nat
    BY <2>3 DEF TypeInv, TypeOK
  <2> DEFINE n == IF hit = 1 THEN issued[wk[w].inv] + hit + lost ELSE 0
             r == [wk[w] EXCEPT !.pc = "answered", !.resp = n]
  <2>5. n \in Nat
    BY <2>4
  <2>6. r \in Worker /\ r.inv # NoInvoice /\ r.pc = "answered"
    BY <2>1, <2>5 DEF Worker
  <2>7. wk' = [wk EXCEPT ![w] = r]
    BY <2>2
  <2>8. wk' \in [Workers -> Worker] /\ Occupied'
    BY <2>6, <2>7, HoldType
  <2>9. issued' \in [Invoices -> Nat]
    BY <2>2, <2>3, <2>4 DEF TypeInv, TypeOK
  <2>10. mishaps' \in [Invoices -> SUBSET Mishap]
    <3> DEFINE m == IF lost > 0 THEN {"lostAnswer"} ELSE {}
    <3>1. m \in SUBSET Mishap
      BY DEF Mishap
    <3> QED
      BY <2>2, <3>1, NoteType
  <2> QED
    BY <1>10, <2>8, <2>9, <2>10 DEF Submit, TypeInv, TypeOK
<1>11. ASSUME NEW w \in Workers, SaveCleared(w)
       PROVE  TypeInv'
  <2>1. wk' \in [Workers -> Worker] /\ Occupied'
    BY <1>11, GotoType DEF SaveCleared, At
  <2>2. wk[w].resp \in Nat
    BY DEF TypeInv, TypeOK, Worker
  <2>3. inv' \in [Invoices -> Invoice]
    BY <1>11, <2>2 DEF SaveCleared, TypeInv, TypeOK, Invoice
  <2> QED
    BY <1>11, <2>1, <2>3 DEF SaveCleared, TypeInv, TypeOK
<1>12. ASSUME NEW w \in Workers, HandleFailure(w) \/ RepullRejected(w) \/ Interrupt(w)
       PROVE  TypeInv'
  <2>1. wk' \in [Workers -> Worker] /\ Occupied'
    BY <1>12, DoneType DEF HandleFailure, RepullRejected, Interrupt
  <2>2. inv' \in [Invoices -> Invoice]
    BY <1>12, StatusType DEF HandleFailure, RepullRejected, Interrupt, MarkFailed
  <2>3. mishaps' \in [Invoices -> SUBSET Mishap]
    <3>1. {"interrupt"} \in SUBSET Mishap
      BY DEF Mishap
    <3> QED
      BY <1>12, <3>1, NoteType DEF HandleFailure, RepullRejected, Interrupt, TypeInv, TypeOK
  <2> QED
    BY <1>12, <2>1, <2>2, <2>3 DEF HandleFailure, RepullRejected, Interrupt, TypeInv, TypeOK
<1>13. ASSUME NEW w \in Workers, WriteIRN(w) \/ WriteIRNFails(w)
       PROVE  TypeInv'
  <2>1. wk' \in [Workers -> Worker] /\ Occupied'
    BY <1>13, DoneType, GotoType DEF WriteIRN, WriteIRNFails, At
  <2>2. wk[w].resp \in Nat
    BY DEF TypeInv, TypeOK, Worker
  <2>3. sage' \in [Invoices -> Nat]
    BY <1>13, <2>2 DEF WriteIRN, WriteIRNFails, TypeInv, TypeOK
  <2> QED
    BY <1>13, <2>1, <2>3 DEF WriteIRN, WriteIRNFails, TypeInv, TypeOK
<1>14. ASSUME NEW w \in Workers, SaveWrittenBack(w)
       PROVE  TypeInv'
  <2>1. wk' \in [Workers -> Worker] /\ Occupied'
    BY <1>14, DoneType DEF SaveWrittenBack
  <2>2. inv' \in [Invoices -> Invoice]
    BY <1>14, StatusType DEF SaveWrittenBack
  <2> QED
    BY <1>14, <2>1, <2>2 DEF SaveWrittenBack, TypeInv, TypeOK
<1>15. ASSUME NEW w \in Workers, RepullFound(w)
       PROVE  TypeInv'
  <2>1. wk' \in [Workers -> Worker] /\ Occupied'
    BY <1>15, GotoType DEF RepullFound, At
  <2> QED
    BY <1>15, <2>1 DEF RepullFound, TypeInv, TypeOK
<1>16. ASSUME NEW w \in Workers, NEW i \in Invoices, StartSubmit(w, i)
       PROVE  TypeInv'
  <2> DEFINE r == [Idle EXCEPT !.pc = "pull", !.job = "submit", !.inv = i,
                               !.attempts = inv[i].attempts]
             m == IF \E v \in Workers : Holds(v, i) THEN {"overlap"} ELSE {}
  <2>1. inv[i].attempts \in Nat
    BY DEF TypeInv, TypeOK, Invoice
  <2>2. r \in Worker /\ r.inv # NoInvoice /\ r.pc = "pull"
    BY <2>1, PipelineAssumption DEF Idle, Worker
  <2>3. m \in SUBSET Mishap
    BY DEF Mishap
  <2>4. /\ submits' = submits \ {i} /\ UNCHANGED <<posted, inv, sage, issued, sends>>
        /\ \/ UNCHANGED <<wk, mishaps>>
           \/ wk' = [wk EXCEPT ![w] = r] /\ Note(i, m)
    BY <1>16 DEF StartSubmit
  <2>5. CASE UNCHANGED <<wk, mishaps>>
    BY <2>4, <2>5 DEF TypeInv, TypeOK, Occupied
  <2>6. CASE wk' = [wk EXCEPT ![w] = r] /\ Note(i, m)
    <3>1. wk' \in [Workers -> Worker] /\ Occupied'
      BY <2>2, <2>6, HoldType
    <3>2. mishaps' \in [Invoices -> SUBSET Mishap]
      BY <2>3, <2>6, NoteType
    <3> QED
      BY <2>4, <3>1, <3>2 DEF TypeInv, TypeOK
  <2> QED
    BY <2>4, <2>5, <2>6
<1>17. ASSUME NEW w \in Workers, Crash(w)
       PROVE  TypeInv'
  <2>1. wk' \in [Workers -> Worker] /\ Occupied'
    BY <1>17, IdleType, FreeType DEF Crash, Idle
  <2>2. mishaps' \in [Invoices -> SUBSET Mishap]
    BY <1>17 DEF Crash, TypeInv, TypeOK, Mishap
  <2> QED
    BY <1>17, <2>1, <2>2 DEF Crash, TypeInv, TypeOK
<1> QED
  BY <1>0, <1>1, <1>2, <1>3, <1>4, <1>5, <1>6, <1>7, <1>8, <1>9, <1>10, <1>11, <1>12, <1>13,
     <1>14, <1>15, <1>16, <1>17 DEF Next, Run, Process, WriteBack, Repull

LEMMA TypeInvariance == Spec => []TypeInv
<1>1. Init => TypeInv
  BY IdleType DEF Init, TypeInv, TypeOK, Occupied, Invoice, Absent, Idle
<1>2. TypeInv /\ [Next]_vars => TypeInv'
  BY TypeStep
<1> QED
  BY <1>1, <1>2, PTL DEF Spec

\* Every value keeps its type in every reachable state.
THEOREM TypeCorrect == Spec => []TypeOK
BY TypeInvariance, PTL DEF TypeInv

-----------------------------------------------------------------------------
(* IRNs.                                                                     *)

Answered(w) == wk[w].pc \in {"answered", "cleared", "written"}

\* A worker that has the APP's answer has an IRN that was issued for its
\* invoice, and the row has one from the moment the worker has recorded it.
IRNInv ==
  \A w \in Workers :
    /\ Answered(w) => wk[w].resp <= issued[wk[w].inv]
    /\ wk[w].pc \in {"cleared", "written"} => wk[w].resp # 0 /\ inv[wk[w].inv].irn # 0

\* A step that no IRN is lost in and that brings no worker an answer.
LEMMA IRNsKept ==
  ASSUME TypeInv, IRNInv, NEW w \in Workers,
         \A i \in Invoices : issued'[i] = issued[i] /\ (inv[i].irn # 0 => inv'[i].irn # 0),
         \A v \in Workers : v # w => wk'[v] = wk[v],
         Answered(w)' => wk'[w] = wk[w]
  PROVE  IRNInv'
<1> SUFFICES ASSUME NEW v \in Workers
             PROVE  /\ Answered(v)' => wk'[v].resp <= issued'[wk'[v].inv]
                    /\ wk'[v].pc \in {"cleared", "written"}
                         => wk'[v].resp # 0 /\ inv'[wk'[v].inv].irn # 0
  BY DEF IRNInv
<1>1. CASE wk'[v] = wk[v]
  <2>1. Answered(v) => wk[v].inv \in Invoices
    BY DEF TypeInv, TypeOK, Occupied, Worker, Answered
  <2> QED
    BY <1>1, <2>1 DEF IRNInv, Answered
<1>2. CASE wk'[v] # wk[v]
  BY <1>2 DEF Answered
<1> QED
  BY <1>1, <1>2

\* What a worker that is done leaves.
LEMMA DoneRests ==
  ASSUME TypeInv, NEW w \in Workers, Done(w)
  PROVE  wk'[w].pc \in {"idle", "rows"}
BY DEF Done, Idle, TypeInv, TypeOK, Worker

\* Workers hold IRNs that were issued, and rows keep theirs.
LEMMA IRNStep ==
  ASSUME TypeInv, IRNInv, [Next]_vars
  PROVE  IRNInv'
<1>0. CASE UNCHANGED vars
  BY <1>0 DEF vars, IRNInv, Answered
<1>1. ASSUME NEW i \in Invoices, Post(i) \/ QueueSubmit(i)
      PROVE  IRNInv'
  BY <1>1 DEF Post, QueueSubmit, IRNInv, Answered
<1>2. ASSUME NEW w \in Workers, StartRun(w) \/ RunFails(w) \/ EndRun(w) \/ Crash(w)
      PROVE  IRNInv'
  <2>1. wk'[w].pc \in {"idle", "connecting"} /\ \A v \in Workers : v # w => wk'[v] = wk[v]
    <3>1. CASE StartRun(w)
      BY <3>1 DEF StartRun, Idle, TypeInv, TypeOK
    <3>2. CASE RunFails(w) \/ EndRun(w) \/ Crash(w)
      <4>1. wk' = [wk EXCEPT ![w] = Idle]
        BY <3>2 DEF RunFails, EndRun, Crash
      <4>2. Idle.pc = "idle"
        BY DEF Idle
      <4> QED
        BY <4>1, <4>2 DEF TypeInv, TypeOK
    <3> QED
      BY <1>2, <3>1, <3>2
  <2>2. UNCHANGED <<inv, issued>>
    BY <1>2 DEF StartRun, RunFails, EndRun, Crash
  <2> QED
    BY <2>1, <2>2, IRNsKept DEF Answered
<1>3. ASSUME NEW w \in Workers, NEW skip \in 0 .. Len(posted), PullInvoices(w, skip)
      PROVE  IRNInv'
  <2>1. wk'[w].pc = "rows" /\ \A v \in Workers : v # w => wk'[v] = wk[v]
    BY <1>3 DEF PullInvoices, TypeInv, TypeOK, Worker
  <2> QED
    BY <1>3, <2>1, IRNsKept DEF Answered, PullInvoices
<1>4. ASSUME NEW w \in Workers, NEW i \in Invoices, NextInvoice(w, i)
      PROVE  IRNInv'
  <2>1. wk'[w].pc \in {"rows", "fresh"} /\ \A v \in Workers : v # w => wk'[v] = wk[v]
    BY <1>4 DEF NextInvoice, At, TypeInv, TypeOK, Worker
  <2> QED
    BY <1>4, <2>1, IRNsKept DEF Answered, NextInvoice
<1>5. ASSUME NEW w \in Workers, RepullFound(w) \/ SaveInvoice(w) \/ SaveSubmitting(w)
      PROVE  IRNInv'
  <2>1. /\ wk'[w].pc \in {"idle", "rows", "ready", "sending"}
        /\ \A v \in Workers : v # w => wk'[v] = wk[v]
    <3>1. CASE Done(w)
      BY <3>1, DoneRests, DoneType
    <3>2. CASE Goto(w, "ready")
      BY <3>2 DEF Goto, TypeInv, TypeOK, Worker
    <3>3. CASE SaveSubmitting(w)
      BY <3>3 DEF SaveSubmitting, TypeInv, TypeOK, Worker
    <3> QED
      BY <1>5, <3>1, <3>2, <3>3 DEF RepullFound, SaveInvoice
  <2>2. \A i \in Invoices : inv'[i].irn = inv[i].irn
    BY <1>5, StatusOnly, SubmittingOnly DEF RepullFound, SaveInvoice
  <2>3. issued' = issued
    BY <1>5 DEF RepullFound, SaveInvoice, SaveSubmitting
  <2> QED
    BY <2>1, <2>2, <2>3, IRNsKept DEF Answered
<1>6. ASSUME NEW w \in Workers, Submit(w)
      PROVE  IRNInv'
  <2> DEFINE i == wk[w].inv
  <2>1. i \in Invoices /\ wk[w] \in Worker
    BY <1>6 DEF Submit, At, TypeInv, TypeOK, Occupied, Worker
  <2>2. PICK hit \in 0 .. 1, lost \in 0 .. AppTries :
          /\ issued' = [issued EXCEPT ![i] = @ + hit + lost]
          /\ wk' = [wk EXCEPT ![w].pc = "answered",
                              ![w].resp = IF hit = 1 THEN issued[i] + hit + lost ELSE 0]
    BY <1>6 DEF Submit
  <2>3. hit \in Nat /\ lost \in Nat /\ issued \in [Invoices -> Nat]
    BY PipelineAssumption DEF TypeInv, TypeOK
  <2>4. /\ wk'[w].inv = i /\ wk'[w].pc = "answered" /\ wk'[w].resp \in {0, issued[i] + hit + lost}
        /\ \A v \in Workers : v # w => wk'[v] = wk[v]
    BY <2>1, <2>2 DEF TypeInv, TypeOK, Worker
  <2>5. issued'[i] = issued[i] + hit + lost /\ \A j \in Invoices : issued'[j] \in Nat /\ issued'[j] >= issued[j]
    BY <2>1, <2>2, <2>3
  <2>6. inv' = inv
    BY <1>6 DEF Submit
  <2>7. ASSUME NEW v \in Workers
        PROVE  /\ Answered(v)' => wk'[v].resp <= issued'[wk'[v].inv]
               /\ wk'[v].pc \in {"cleared", "written"}
                    => wk'[v].resp # 0 /\ inv'[wk'[v].inv].irn # 0
    <3>1. CASE v = w
      BY <2>1, <2>3, <2>4, <2>5, <3>1
    <3>2. CASE v # w
      <4>1. Answered(v) => wk[v].inv \in Invoices
        BY DEF TypeInv, TypeOK, Occupied, Worker, Answered
      <4>2. wk[v].resp \in Nat
        BY DEF TypeInv, TypeOK, Worker
      <4>3. Answered(v) => wk[v].resp <= issued'[wk[v].inv]
        BY <2>3, <2>5, <4>1, <4>2 DEF IRNInv
      <4> QED
        BY <2>4, <2>6, <3>2, <4>3 DEF IRNInv, Answered
    <3> QED
      BY <3>1, <3>2
  <2> QED
    BY <2>7 DEF IRNInv
<1>7. ASSUME NEW w \in Workers, SaveCleared(w)
      PROVE  IRNInv'
  <2> DEFINE i == wk[w].inv
  <2>1. i \in Invoices /\ wk[w] \in Worker /\ wk[w].resp # 0 /\ wk[w].resp <= issued[i]
    BY <1>7 DEF SaveCleared, At, TypeInv, TypeOK, Occupied, Worker, IRNInv, Answered
  <2>2. /\ wk'[w].inv = i /\ wk'[w].pc = "cleared" /\ wk'[w].resp = wk[w].resp
        /\ \A v \in Workers : v # w => wk'[v] = wk[v]
    BY <1>7, <2>1 DEF SaveCleared, Goto, TypeInv, TypeOK, Worker
  <2>3. /\ issued' = issued /\ inv'[i].irn # 0
        /\ \A j \in Invoices : inv[j].irn # 0 => inv'[j].irn # 0
    BY <1>7, <2>1 DEF SaveCleared, TypeInv, TypeOK, Invoice
  <2>4. ASSUME NEW v \in Workers
        PROVE  /\ Answered(v)' => wk'[v].resp <= issued'[wk'[v].inv]
               /\ wk'[v].pc \in {"cleared", "written"}
                    => wk'[v].resp # 0 /\ inv'[wk'[v].inv].irn # 0
    <3>1. CASE v = w
      BY <2>1, <2>2, <2>3, <3>1
    <3>2. CASE v # w
      <4>1. Answered(v) => wk[v].inv \in Invoices
        BY DEF TypeInv, TypeOK, Occupied, Worker, Answered
      <4> QED
        BY <2>2, <2>3, <3>2, <4>1 DEF IRNInv, Answered
    <3> QED
      BY <3>1, <3>2
  <2> QED
    BY <2>4 DEF IRNInv
<1>8. ASSUME NEW w \in Workers,
             \/ HandleFailure(w) \/ Interrupt(w) \/ RepullRejected(w) \/ SaveWrittenBack(w)
             \/ FreshFails(w) \/ RepullFails(w) \/ WriteIRNFails(w)
      PROVE  IRNInv'
  <2>1. Done(w)
    BY <1>8 DEF HandleFailure, Interrupt, RepullRejected, SaveWrittenBack, FreshFails,
                RepullFails, WriteIRNFails
  <2>2. inv' = inv \/ \E i, s : SetStatus(i, s)
    BY <1>8 DEF HandleFailure, Interrupt, RepullRejected, SaveWrittenBack, FreshFails,
                RepullFails, WriteIRNFails, MarkFailed
  <2>3. \A i \in Invoices : inv'[i].irn = inv[i].irn
    BY <2>2, StatusOnly
  <2>4. issued' = issued
    BY <1>8 DEF HandleFailure, Interrupt, RepullRejected, SaveWrittenBack, FreshFails,
                RepullFails, WriteIRNFails
  <2>5. wk'[w].pc \in {"idle", "rows"} /\ \A v \in Workers : v # w => wk'[v] = wk[v]
    BY <2>1, DoneRests, DoneType
  <2> QED
    BY <2>3, <2>4, <2>5, IRNsKept DEF Answered
<1>9. ASSUME NEW w \in Workers, WriteIRN(w)
      PROVE  IRNInv'
  <2> DEFINE i == wk[w].inv
  <2>1. /\ wk'[w].inv = i /\ wk'[w].pc = "written" /\ wk'[w].resp = wk[w].resp
        /\ \A v \in Workers : v # w => wk'[v] = wk[v]
    BY <1>9 DEF WriteIRN, Goto, TypeInv, TypeOK, Worker
  <2>2. wk[w].pc = "cleared" /\ UNCHANGED <<inv, issued>>
    BY <1>9 DEF WriteIRN, At
  <2> QED
    BY <2>1, <2>2 DEF IRNInv, Answered
<1>10. ASSUME NEW w \in Workers, NEW i \in Invoices, StartSubmit(w, i)
       PROVE  IRNInv'
  <2>1. UNCHANGED <<inv, issued>>
    BY <1>10 DEF StartSubmit
  <2>2. /\ wk'[w] = wk[w] \/ wk'[w].pc = "pull"
        /\ \A v \in Workers : v # w => wk'[v] = wk[v]
    BY <1>10 DEF StartSubmit, Idle, TypeInv, TypeOK
  <2> QED
    BY <2>1, <2>2, IRNsKept DEF Answered
<1> QED
  BY <1>0, <1>1, <1>2, <1>3, <1>4, <1>5, <1>6, <1>7, <1>8, <1>9, <1>10
     DEF Next, Run, Process, WriteBack, Repull

LEMMA IRNInvariance == Spec => []IRNInv
<1>1. Init => IRNInv
  BY DEF Init, IRNInv, Answered, Idle
<1>2. TypeInv /\ IRNInv /\ [Next]_vars => IRNInv'
  BY IRNStep
<1> QED
  BY <1>1, <1>2, TypeInvariance, PTL DEF Spec

-----------------------------------------------------------------------------
(* The refinement of InvoiceClearance.                                       *)

Stutters == UNCHANGED <<issued, sage>> /\ \A i \in Invoices : inv'[i].irn = inv[i].irn

\* A step that touches no IRN is a stutter of the promise.
LEMMA StuttersAbove ==
  ASSUME Stutters
  PROVE  UNCHANGED Clearance!vars
BY DEF Stutters, Clearance!vars

\* Issuing, recording or delivering an IRN of one invoice is a step of it.
LEMMA StepsAbove ==
  ASSUME NEW i \in Invoices,
         Clearance!Issue(i) \/ Clearance!Record(i) \/ Clearance!Deliver(i)
  PROVE  Clearance!Next
BY DEF Clearance!Next

\* Each step of the pipeline is a step of the promise, or invisible to it.
LEMMA ClearanceStep ==
  ASSUME TypeInv, IRNInv, [Next]_vars
  PROVE  [Clearance!Next]_Clearance!vars
<1>1. ASSUME NEW w \in Workers, Submit(w)
      PROVE  [Clearance!Next]_Clearance!vars
  <2> DEFINE i == wk[w].inv
  <2>1. i \in Invoices /\ UNCHANGED <<inv, sage>> /\ issued \in [Invoices -> Nat]
    BY <1>1 DEF Submit, At, TypeInv, TypeOK, Occupied, Worker
  <2>2. PICK hit \in 0 .. 1, lost \in 0 .. AppTries :
          issued' = [issued EXCEPT ![i] = @ + hit + lost]
    BY <1>1 DEF Submit
  <2>3. hit \in Nat /\ lost \in Nat
    BY PipelineAssumption
  <2> DEFINE n == issued[i] + hit + lost
  <2>4. issued' = [issued EXCEPT ![i] = n] /\ n \in Nat /\ n >= issued[i]
    BY <2>1, <2>2, <2>3
  <2>5. CASE n = issued[i]
    <3>1. issued' = issued
      BY <2>1, <2>4, <2>5
    <3> QED
      BY <2>1, <3>1, StuttersAbove DEF Stutters
  <2>6. CASE n # issued[i]
    <3>1. issued'[i] = n /\ n > issued[i]
      BY <2>1, <2>4, <2>6
    <3>2. Clearance!Issue(i)
      BY <2>1, <2>4, <3>1 DEF Clearance!Issue
    <3> QED
      BY <2>1, <3>2, StepsAbove
  <2> QED
    BY <2>5, <2>6
<1>2. ASSUME NEW w \in Workers, SaveCleared(w)
      PROVE  [Clearance!Next]_Clearance!vars
  <2>a. wk[w].pc = "answered" /\ wk[w].resp # 0 /\ UNCHANGED <<issued, sage>>
    BY <1>2 DEF SaveCleared, At
  <2>0. PICK i \in Invoices : i = wk[w].inv
    BY <2>a DEF TypeInv, TypeOK, Occupied, Worker
  <2>b. wk[w].resp \in Nat
    BY DEF TypeInv, TypeOK, Worker
  <2>c. issued[i] \in Nat /\ wk[w].resp <= issued[i]
    BY <2>a, <2>0 DEF IRNInv, Answered, TypeInv, TypeOK
  <2>1. wk[w].resp \in 1 .. issued[i] /\ UNCHANGED <<issued, sage>>
    BY <2>a, <2>b, <2>c
  <2>2. [j \in Invoices |-> inv[j].irn]'
          = [[j \in Invoices |-> inv[j].irn] EXCEPT ![i] = wk[w].resp]
    BY <1>2, <2>0, <2>1 DEF SaveCleared, TypeInv, TypeOK, Invoice
  <2>3. Clearance!Record(i)
    BY <2>1, <2>2 DEF Clearance!Record
  <2>4. Clearance!Next
    BY <2>3, StepsAbove
  <2> QED
    BY <2>4
<1>3. ASSUME NEW w \in Workers, WriteIRN(w) \/ WriteIRNFails(w)
      PROVE  [Clearance!Next]_Clearance!vars
  <2> DEFINE i == wk[w].inv
  <2>1. UNCHANGED <<inv, issued>> /\ wk[w].pc = "cleared"
    BY <1>3 DEF WriteIRN, WriteIRNFails, At
  <2>a. wk[w].resp # 0 /\ inv[i].irn # 0 /\ wk[w].resp <= issued[i]
    BY <2>1 DEF IRNInv, Answered
  <2>b. i \in Invoices /\ wk[w].resp \in Nat
    BY <2>1 DEF TypeInv, TypeOK, Occupied, Worker
  <2>2. i \in Invoices /\ wk[w].resp \in 1 .. issued[i] /\ inv[i].irn # 0
    BY <2>a, <2>b DEF TypeInv, TypeOK
  <2>3. CASE sage' = [sage EXCEPT ![i] = wk[w].resp]
    <3>1. Clearance!Deliver(i)
      BY <2>1, <2>2, <2>3 DEF Clearance!Deliver
    <3> QED
      BY <2>2, <3>1, StepsAbove
  <2>4. CASE sage' = sage
    BY <2>1, <2>4, StuttersAbove DEF Stutters
  <2> QED
    BY <1>3, <2>3, <2>4 DEF WriteIRN, WriteIRNFails
<1>4. ASSUME NEW w \in Workers,
             \/ SaveInvoice(w) \/ SaveSubmitting(w) \/ HandleFailure(w) \/ Interrupt(w)
             \/ RepullRejected(w) \/ SaveWrittenBack(w)
      PROVE  Stutters
  <2>1. UNCHANGED <<issued, sage>>
    BY <1>4 DEF SaveInvoice, SaveSubmitting, HandleFailure, Interrupt, RepullRejected,
                SaveWrittenBack
  <2>2. SaveSubmitting(w) \/ \E i, s : SetStatus(i, s)
    BY <1>4 DEF SaveInvoice, HandleFailure, Interrupt, RepullRejected, SaveWrittenBack, MarkFailed
  <2>3. \A i \in Invoices : inv'[i].irn = inv[i].irn
    BY <2>2, StatusOnly, SubmittingOnly
  <2> QED
    BY <2>1, <2>3 DEF Stutters
<1>5. ASSUME \/ \E i \in Invoices : Post(i) \/ QueueSubmit(i)
             \/ \E w \in Workers :
                  \/ StartRun(w) \/ RunFails(w) \/ EndRun(w) \/ Crash(w)
                  \/ \E skip \in 0 .. Len(posted) : PullInvoices(w, skip)
                  \/ \E i \in Invoices : NextInvoice(w, i) \/ StartSubmit(w, i)
                  \/ FreshFails(w) \/ RepullFound(w) \/ RepullFails(w)
             \/ UNCHANGED vars
      PROVE  Stutters
  BY <1>5 DEF Post, QueueSubmit, StartRun, RunFails, EndRun, Crash, PullInvoices, NextInvoice,
              StartSubmit, FreshFails, RepullFound, RepullFails, vars, Stutters
<1> QED
  BY <1>1, <1>2, <1>3, <1>4, <1>5, StuttersAbove DEF Next, Run, Process, WriteBack, Repull

\* The Sage 300 pipeline keeps the promise about IRNs: it records only IRNs
\* that the APP issued for the invoice, never goes back to none, and tells the
\* ERP one only once it is recorded.
THEOREM Refinement == Spec => ImplementsClearance
<1>1. Init => Clearance!Init
  BY DEF Init, Clearance!Init, Absent
<1>2. TypeInv /\ IRNInv /\ [Next]_vars => [Clearance!Next]_Clearance!vars
  BY ClearanceStep
<1> QED
  BY <1>1, <1>2, TypeInvariance, IRNInvariance, PTL
     DEF Spec, ImplementsClearance, Clearance!Spec

-----------------------------------------------------------------------------
(* What keeps FIRS from clearing an invoice twice.                           *)

\* Something has happened that lets an invoice be cleared again.
Repeatable(i) == Excused(i, {"overlap", "crash", "interrupt", "lostAnswer"})

\* w may still send the invoice; w has its IRN in memory only.
Early(w, i) ==
  /\ wk[w].inv = i
  /\ wk[w].pc \in {"pull", "ready", "sending"} \/ (wk[w].pc = "answered" /\ wk[w].resp = 0)
Bears(w, i) == wk[w].inv = i /\ wk[w].pc = "answered" /\ wk[w].resp # 0

\* An invoice that somebody works on, or that a message names, has a row.
KnownInv ==
  \A i \in Invoices :
    i \in submits \/ (\E w \in Workers : Holds(w, i)) => inv[i].status # "ABSENT"

\* Two workers have the same invoice only when a retry began beside another.
AloneInv ==
  \A i \in Invoices : \A v, w \in Workers :
    v # w /\ Holds(v, i) /\ Holds(w, i) => Repeatable(i)

\* Who may still send an invoice sends one without an IRN; an IRN that was
\* issued is in the row or in the memory of the worker that got it.
OnceInv ==
  \A i \in Invoices :
    /\ inv[i].status = "ABSENT" => issued[i] = 0
    /\ issued[i] <= 1 \/ Repeatable(i)
    /\ issued[i] = 0 \/ inv[i].irn # 0 \/ Repeatable(i) \/ \E w \in Workers : Bears(w, i)
    /\ \A w \in Workers : Early(w, i) => issued[i] = 0 \/ Repeatable(i)

ExclusionInv == KnownInv /\ AloneInv /\ OnceInv

\* A step that loses nothing of what the rows tell,
RowsGrow ==
  /\ issued' = issued
  /\ \A i \in Invoices :
       /\ inv'[i].status = "ABSENT" => inv[i].status = "ABSENT"
       /\ inv[i].irn # 0 => inv'[i].irn # 0
       /\ mishaps[i] \subseteq mishaps'[i]
       /\ i \in submits' => i \in submits \/ inv[i].status # "ABSENT"

\* and that no worker takes an invoice in, or drops an IRN, without a trace.
NoneTaken ==
  \A w \in Workers, i \in Invoices :
    /\ Holds(w, i)' => Holds(w, i)
    /\ Early(w, i)' => Early(w, i)
    /\ Bears(w, i) => Bears(w, i)' \/ inv'[i].irn # 0 \/ Repeatable(i)'

LEMMA QuietStep ==
  ASSUME ExclusionInv, RowsGrow, NoneTaken
  PROVE  ExclusionInv'
<1>1. \A i \in Invoices : Repeatable(i) => Repeatable(i)'
  BY DEF RowsGrow, Repeatable, Excused
<1>2. KnownInv'
  BY DEF ExclusionInv, RowsGrow, NoneTaken, KnownInv
<1>3. AloneInv'
  BY <1>1 DEF ExclusionInv, NoneTaken, AloneInv
<1>4. OnceInv'
  <2> SUFFICES ASSUME NEW i \in Invoices
               PROVE  /\ inv'[i].status = "ABSENT" => issued'[i] = 0
                      /\ issued'[i] <= 1 \/ Repeatable(i)'
                      /\ \/ issued'[i] = 0 \/ inv'[i].irn # 0 \/ Repeatable(i)'
                         \/ \E w \in Workers : Bears(w, i)'
                      /\ \A w \in Workers : Early(w, i)' => issued'[i] = 0 \/ Repeatable(i)'
    BY DEF OnceInv
  <2>1. inv'[i].status = "ABSENT" => issued'[i] = 0
    BY DEF ExclusionInv, OnceInv, RowsGrow
  <2>2. issued'[i] <= 1 \/ Repeatable(i)'
    BY <1>1 DEF ExclusionInv, OnceInv, RowsGrow
  <2>3. \/ issued'[i] = 0 \/ inv'[i].irn # 0 \/ Repeatable(i)'
        \/ \E w \in Workers : Bears(w, i)'
    BY <1>1 DEF ExclusionInv, OnceInv, RowsGrow, NoneTaken
  <2>4. \A w \in Workers : Early(w, i)' => issued'[i] = 0 \/ Repeatable(i)'
    BY <1>1 DEF ExclusionInv, OnceInv, RowsGrow, NoneTaken
  <2> QED
    BY <2>1, <2>2, <2>3, <2>4
<1> QED
  BY <1>2, <1>3, <1>4 DEF ExclusionInv

\* A worker that ends up with no invoice, or one it has not taken yet.
LEMMA Freed ==
  ASSUME TypeInv, NEW w \in Workers,
         wk'[w].inv = NoInvoice \/ wk'[w].pc = "fresh",
         \A v \in Workers : v # w => wk'[v] = wk[v],
         \A i \in Invoices : Bears(w, i) => inv'[i].irn # 0 \/ Repeatable(i)'
  PROVE  NoneTaken
<1> SUFFICES ASSUME NEW v \in Workers, NEW i \in Invoices
             PROVE  /\ Holds(v, i)' => Holds(v, i)
                    /\ Early(v, i)' => Early(v, i)
                    /\ Bears(v, i) => Bears(v, i)' \/ inv'[i].irn # 0 \/ Repeatable(i)'
  BY DEF NoneTaken
<1>1. CASE v = w
  BY <1>1, PipelineAssumption DEF Holds, Early
<1>2. CASE v # w
  BY <1>2 DEF Holds, Early, Bears
<1> QED
  BY <1>1, <1>2

\* A worker that goes on with its invoice.
LEMMA Moved ==
  ASSUME NEW w \in Workers,
         wk'[w].inv = wk[w].inv, wk[w].pc # "fresh",
         \A v \in Workers : v # w => wk'[v] = wk[v],
         \A i \in Invoices :
           /\ Early(w, i)' => Early(w, i)
           /\ Bears(w, i) => inv'[i].irn # 0
  PROVE  NoneTaken
BY DEF NoneTaken, Holds, Early, Bears

\* What the status, the IRN and the mishaps of the rows become.
LEMMA StatusGrows ==
  ASSUME TypeInv, NEW i, NEW s \in {"PENDING", "FAILED", "WRITTEN_BACK"}, SetStatus(i, s)
  PROVE  \A j \in Invoices :
           /\ inv'[j].status = "ABSENT" => inv[j].status = "ABSENT"
           /\ inv[j].irn # 0 => inv'[j].irn # 0
<1>1. \A j \in Invoices : inv'[j] = inv[j] \/ inv'[j] = [inv[j] EXCEPT !.status = s]
  BY DEF TypeInv, TypeOK, SetStatus
<1>2. \A j \in Invoices : inv[j] \in Invoice
  BY DEF TypeInv, TypeOK
<1>3. \A j \in Invoices : [inv[j] EXCEPT !.status = s].status = s
  BY <1>2 DEF Invoice
<1> QED
  BY <1>1, <1>3, StatusOnly

LEMMA NoteGrows ==
  ASSUME TypeInv, NEW i, NEW m, Note(i, m)
  PROVE  \A j \in Invoices : mishaps[j] \subseteq mishaps'[j]
BY DEF TypeInv, TypeOK, Note

LEMMA NoteExcuses ==
  ASSUME TypeInv, NEW i \in Invoices, NEW x \in Mishap, Note(i, {x})
  PROVE  Repeatable(i)'
BY DEF TypeInv, TypeOK, Note, Repeatable, Excused, Mishap

\* The steps that neither issue an IRN nor take an invoice in.
LEMMA Quiet ==
  ASSUME TypeInv, [Next]_vars,
         ~ \E w \in Workers : Submit(w) \/ SaveInvoice(w) \/ \E i \in Invoices : StartSubmit(w, i)
  PROVE  RowsGrow /\ NoneTaken
<1>0. CASE UNCHANGED vars
  BY <1>0 DEF vars, RowsGrow, NoneTaken, Holds, Early, Bears
<1>1. ASSUME NEW i \in Invoices, Post(i) \/ QueueSubmit(i)
      PROVE  RowsGrow /\ NoneTaken
  BY <1>1 DEF Post, QueueSubmit, IsRetryable, RowsGrow, NoneTaken, Holds, Early, Bears
<1>2. ASSUME NEW w \in Workers, StartRun(w) \/ RunFails(w) \/ EndRun(w)
      PROVE  RowsGrow /\ NoneTaken
  <2>1. wk'[w].inv = NoInvoice /\ \A v \in Workers : v # w => wk'[v] = wk[v]
    <3>1. CASE StartRun(w)
      BY <3>1 DEF StartRun, Idle, TypeInv, TypeOK
    <3>2. CASE RunFails(w) \/ EndRun(w)
      BY <3>2 DEF RunFails, EndRun, Idle, TypeInv, TypeOK
    <3> QED
      BY <1>2, <3>1, <3>2
  <2>2. wk[w].pc # "answered"
    BY <1>2 DEF StartRun, RunFails, EndRun, At
  <2>3. NoneTaken
    BY <2>1, <2>2, Freed DEF Bears
  <2> QED
    BY <1>2, <2>3 DEF RowsGrow, StartRun, RunFails, EndRun
<1>3. ASSUME NEW w \in Workers, NEW skip \in 0 .. Len(posted), PullInvoices(w, skip)
      PROVE  RowsGrow /\ NoneTaken
  <2>1. wk'[w].inv = NoInvoice /\ \A v \in Workers : v # w => wk'[v] = wk[v]
    BY <1>3 DEF PullInvoices, At, TypeInv, TypeOK, Occupied, Worker
  <2>2. NoneTaken
    BY <1>3, <2>1, Freed DEF PullInvoices, At, Bears
  <2> QED
    BY <1>3, <2>2 DEF RowsGrow, PullInvoices
<1>4. ASSUME NEW w \in Workers, NEW i \in Invoices, NextInvoice(w, i)
      PROVE  RowsGrow /\ NoneTaken
  <2>1. /\ wk'[w].inv = NoInvoice \/ wk'[w].pc = "fresh"
        /\ \A v \in Workers : v # w => wk'[v] = wk[v]
    BY <1>4 DEF NextInvoice, At, TypeInv, TypeOK, Occupied, Worker
  <2>2. NoneTaken
    BY <1>4, <2>1, Freed DEF NextInvoice, At, Bears
  <2> QED
    BY <1>4, <2>2 DEF RowsGrow, NextInvoice
<1>5. ASSUME NEW w \in Workers,
             \/ FreshFails(w) \/ RepullFails(w) \/ WriteIRNFails(w)
             \/ HandleFailure(w) \/ RepullRejected(w) \/ SaveWrittenBack(w)
      PROVE  RowsGrow /\ NoneTaken
  <2>1. Done(w) /\ issued' = issued /\ mishaps' = mishaps /\ submits' = submits
    BY <1>5 DEF FreshFails, RepullFails, WriteIRNFails, HandleFailure, RepullRejected,
                SaveWrittenBack
  <2>2. ~ (wk[w].pc = "answered" /\ wk[w].resp # 0)
    BY <1>5 DEF FreshFails, RepullFails, WriteIRNFails, HandleFailure, RepullRejected,
                SaveWrittenBack, At
  <2>3. NoneTaken
    BY <2>1, <2>2, DoneType, Freed DEF Bears
  <2>4. inv' = inv \/ \E i : SetStatus(i, "FAILED") \/ SetStatus(i, "WRITTEN_BACK")
    BY <1>5 DEF FreshFails, RepullFails, WriteIRNFails, HandleFailure, RepullRejected,
                SaveWrittenBack, MarkFailed
  <2>5. \A j \in Invoices :
          /\ inv'[j].status = "ABSENT" => inv[j].status = "ABSENT"
          /\ inv[j].irn # 0 => inv'[j].irn # 0
    BY <2>4, StatusGrows
  <2> QED
    BY <2>1, <2>3, <2>5 DEF RowsGrow
<1>6. ASSUME NEW w \in Workers, Interrupt(w)
      PROVE  RowsGrow /\ NoneTaken
  <2>1. /\ Done(w) /\ issued' = issued /\ submits' = submits
        /\ SetStatus(wk[w].inv, "FAILED") /\ Note(wk[w].inv, {"interrupt"})
        /\ wk[w].pc \in {"ready", "sending", "answered"}
    BY <1>6 DEF Interrupt, MarkFailed
  <2>2. PICK i \in Invoices : i = wk[w].inv
    BY <2>1 DEF TypeInv, TypeOK, Occupied, Worker
  <2>3. Repeatable(i)'
    BY <2>1, <2>2, NoteExcuses DEF Mishap
  <2>4. NoneTaken
    BY <2>1, <2>2, <2>3, DoneType, Freed DEF Bears
  <2>5. \A j \in Invoices :
          /\ inv'[j].status = "ABSENT" => inv[j].status = "ABSENT"
          /\ inv[j].irn # 0 => inv'[j].irn # 0
    BY <2>1, StatusGrows
  <2>6. \A j \in Invoices : mishaps[j] \subseteq mishaps'[j]
    BY <2>1, NoteGrows
  <2> QED
    BY <2>1, <2>4, <2>5, <2>6 DEF RowsGrow
<1>7. ASSUME NEW w \in Workers, SaveSubmitting(w)
      PROVE  RowsGrow /\ NoneTaken
  <2>1. /\ wk'[w].inv = wk[w].inv /\ wk[w].pc = "ready"
        /\ \A v \in Workers : v # w => wk'[v] = wk[v]
    BY <1>7 DEF SaveSubmitting, At, TypeInv, TypeOK, Worker
  <2>2. NoneTaken
    BY <2>1, Moved DEF Early, Bears
  <2>3. \A j \in Invoices : inv'[j].status = "ABSENT" => inv[j].status = "ABSENT"
    BY <1>7 DEF SaveSubmitting, TypeInv, TypeOK, Invoice
  <2> QED
    BY <1>7, <2>2, <2>3, SubmittingOnly DEF RowsGrow, SaveSubmitting
<1>8. ASSUME NEW w \in Workers, SaveCleared(w)
      PROVE  RowsGrow /\ NoneTaken
  <2> DEFINE i == wk[w].inv
  <2>1. /\ wk'[w].inv = i /\ wk'[w].pc = "cleared" /\ wk[w].pc = "answered"
        /\ wk[w].resp # 0 /\ wk[w].resp \in Nat
        /\ \A v \in Workers : v # w => wk'[v] = wk[v]
    BY <1>8 DEF SaveCleared, Goto, At, TypeInv, TypeOK, Worker
  <2>2. i \in Invoices
    BY <2>1 DEF TypeInv, TypeOK, Occupied, Worker
  <2>3. inv'[i].irn # 0
        /\ \A j \in Invoices : /\ inv'[j].status = "ABSENT" => inv[j].status = "ABSENT"
                               /\ inv[j].irn # 0 => inv'[j].irn # 0
    BY <1>8, <2>1, <2>2 DEF SaveCleared, TypeInv, TypeOK, Invoice
  <2>4. NoneTaken
    BY <2>1, <2>3, Moved DEF Early, Bears
  <2> QED
    BY <1>8, <2>3, <2>4 DEF RowsGrow, SaveCleared
<1>9. ASSUME NEW w \in Workers, WriteIRN(w)
      PROVE  RowsGrow /\ NoneTaken
  <2>1. /\ wk'[w].inv = wk[w].inv /\ wk'[w].pc = "written" /\ wk[w].pc = "cleared"
        /\ \A v \in Workers : v # w => wk'[v] = wk[v]
    BY <1>9 DEF WriteIRN, Goto, At, TypeInv, TypeOK, Worker
  <2>2. NoneTaken
    BY <2>1, Moved DEF Early, Bears
  <2> QED
    BY <1>9, <2>2 DEF RowsGrow, WriteIRN
<1>10. ASSUME NEW w \in Workers, RepullFound(w)
       PROVE  RowsGrow /\ NoneTaken
  <2>1. /\ wk'[w].inv = wk[w].inv /\ wk'[w].pc = "ready" /\ wk[w].pc = "pull"
        /\ \A v \in Workers : v # w => wk'[v] = wk[v]
    BY <1>10 DEF RepullFound, Goto, At, TypeInv, TypeOK, Worker
  <2>2. NoneTaken
    BY <2>1, Moved DEF Early, Bears
  <2> QED
    BY <1>10, <2>2 DEF RowsGrow, RepullFound
<1>11. ASSUME NEW w \in Workers, Crash(w)
       PROVE  RowsGrow /\ NoneTaken
  <2>1. wk'[w].inv = NoInvoice /\ \A v \in Workers : v # w => wk'[v] = wk[v]
    BY <1>11 DEF Crash, Idle, TypeInv, TypeOK
  <2>2. \A i \in Invoices : mishaps[i] \subseteq mishaps'[i]
    BY <1>11 DEF Crash
  <2>3. \A i \in Invoices : wk[w].inv = i => Repeatable(i)'
    BY <1>11 DEF Crash, Repeatable, Excused
  <2>4. NoneTaken
    BY <2>1, <2>3, Freed DEF Bears
  <2> QED
    BY <1>11, <2>2, <2>4 DEF RowsGrow, Crash
<1> QED
  BY <1>0, <1>1, <1>2, <1>3, <1>4, <1>5, <1>6, <1>7, <1>8, <1>9, <1>10, <1>11
     DEF Next, Run, Process, WriteBack, Repull

\* _process_single takes an invoice in with its row, which it makes itself.
LEMMA SaveInvoiceStep ==
  ASSUME TypeInv, ExclusionInv, NEW w \in Workers, SaveInvoice(w)
  PROVE  ExclusionInv'
<1> DEFINE i == wk[w].inv
<1>1. /\ i \in Invoices /\ wk[w].pc = "fresh" /\ inv[i].status = "ABSENT" /\ SetStatus(i, "PENDING")
      /\ UNCHANGED <<submits, issued, mishaps>>
  BY DEF SaveInvoice, At, TypeInv, TypeOK, Occupied, Worker
<1>2. RowsGrow
  BY <1>1, StatusGrows DEF RowsGrow
<1>3. CASE Done(w)
  <2>1. NoneTaken
    BY <1>1, <1>3, DoneType, Freed DEF Bears
  <2> QED
    BY <1>2, <2>1, QuietStep
<1>4. CASE Goto(w, "ready")
  <2>1. /\ wk'[w].inv = i /\ wk'[w].pc = "ready"
        /\ \A v \in Workers : v # w => wk'[v] = wk[v]
    BY <1>4 DEF Goto, TypeInv, TypeOK, Worker
  <2>2. inv'[i].status = "PENDING" /\ \A j \in Invoices : j # i => inv'[j] = inv[j]
    BY <1>1 DEF SetStatus, TypeInv, TypeOK, Invoice
  <2>3. \A v \in Workers : ~ Holds(v, i)
    BY <1>1 DEF ExclusionInv, KnownInv
  <2>4. issued[i] = 0
    BY <1>1 DEF ExclusionInv, OnceInv
  <2>5. \A v \in Workers, j \in Invoices :
          v # w \/ j # i =>
            /\ Holds(v, j)' => Holds(v, j)
            /\ Early(v, j)' => Early(v, j)
            /\ Bears(v, j) => Bears(v, j)'
    BY <1>1, <2>1 DEF Holds, Early, Bears
  <2>6. \A j \in Invoices : Repeatable(j)' <=> Repeatable(j)
    BY <1>1 DEF Repeatable, Excused
  <2>7. KnownInv'
    BY <1>1, <2>2, <2>5 DEF ExclusionInv, KnownInv
  <2>8. AloneInv'
    BY <2>3, <2>5, <2>6 DEF ExclusionInv, AloneInv
  <2>9. OnceInv'
    <3> SUFFICES ASSUME NEW j \in Invoices
                 PROVE  /\ inv'[j].status = "ABSENT" => issued'[j] = 0
                        /\ issued'[j] <= 1 \/ Repeatable(j)'
                        /\ \/ issued'[j] = 0 \/ inv'[j].irn # 0 \/ Repeatable(j)'
                           \/ \E v \in Workers : Bears(v, j)'
                        /\ \A v \in Workers : Early(v, j)' => issued'[j] = 0 \/ Repeatable(j)'
      BY DEF OnceInv
    <3>1. CASE j = i
      BY <1>1, <2>4, <3>1
    <3>2. CASE j # i
      BY <1>1, <2>2, <2>5, <2>6, <3>2 DEF ExclusionInv, OnceInv
    <3> QED
      BY <3>1, <3>2
  <2> QED
    BY <2>7, <2>8, <2>9 DEF ExclusionInv
<1> QED
  BY <1>3, <1>4 DEF SaveInvoice

\* The guard of submit_single_invoice: whoever has an unsaved IRN of the
\* invoice is seen as a second holder.
LEMMA StartSubmitStep ==
  ASSUME TypeInv, ExclusionInv, NEW w \in Workers, NEW i \in Invoices, StartSubmit(w, i)
  PROVE  ExclusionInv'
<1>1. UNCHANGED <<inv, issued>> /\ submits' = submits \ {i} /\ wk[w].pc = "idle" /\ i \in submits
  BY DEF StartSubmit, At
<1>2. CASE UNCHANGED <<wk, mishaps>>
  <2>1. RowsGrow /\ NoneTaken
    BY <1>1, <1>2 DEF RowsGrow, NoneTaken, Holds, Early, Bears
  <2> QED
    BY <2>1, QuietStep
<1>3. CASE /\ inv[i].irn = 0
           /\ wk' = [wk EXCEPT ![w] = [Idle EXCEPT !.pc = "pull", !.job = "submit", !.inv = i,
                                                   !.attempts = inv[i].attempts]]
           /\ Note(i, IF \E v \in Workers : Holds(v, i) THEN {"overlap"} ELSE {})
  <2>1. /\ wk'[w].inv = i /\ wk'[w].pc = "pull"
        /\ \A v \in Workers : v # w => wk'[v] = wk[v]
    BY <1>3 DEF Idle, TypeInv, TypeOK
  <2>2. \A j \in Invoices : mishaps[j] \subseteq mishaps'[j]
    BY <1>3, NoteGrows
  <2>3. \A j \in Invoices : Repeatable(j) => Repeatable(j)'
    BY <2>2 DEF Repeatable, Excused
  <2>4. (\E v \in Workers : Holds(v, i)) => Repeatable(i)'
    BY <1>3, NoteExcuses DEF Mishap
  <2>5. \A v \in Workers, j \in Invoices :
          v # w \/ j # i =>
            /\ Holds(v, j)' => Holds(v, j)
            /\ Early(v, j)' => Early(v, j)
    BY <2>1 DEF Holds, Early
  <2>6. \A v \in Workers, j \in Invoices : Bears(v, j) => Bears(v, j)' /\ Holds(v, j)
    BY <1>1, <2>1 DEF Bears, Holds
  <2>7. KnownInv'
    BY <1>1, <2>5 DEF ExclusionInv, KnownInv
  <2>8. AloneInv'
    BY <2>3, <2>4, <2>5 DEF ExclusionInv, AloneInv
  <2>9. issued[i] = 0 \/ Repeatable(i)'
    BY <1>3, <2>3, <2>4, <2>6 DEF ExclusionInv, OnceInv
  <2>10. OnceInv'
    BY <1>1, <2>3, <2>5, <2>6, <2>9 DEF ExclusionInv, OnceInv
  <2> QED
    BY <2>7, <2>8, <2>10 DEF ExclusionInv
<1> QED
  BY <1>2, <1>3 DEF StartSubmit

\* provider.submit: alone with an invoice that has no IRN, it issues the first.
LEMMA SubmitStep ==
  ASSUME TypeInv, ExclusionInv, NEW w \in Workers, Submit(w)
  PROVE  ExclusionInv'
<1>0. PICK i \in Invoices : i = wk[w].inv
  BY DEF Submit, At, TypeInv, TypeOK, Occupied, Worker
<1>1. wk[w].inv = i /\ wk[w].pc = "sending" /\ UNCHANGED <<inv, submits>>
  BY <1>0 DEF Submit, At
<1>2. PICK hit \in 0 .. 1, lost \in 0 .. AppTries :
        /\ issued' = [issued EXCEPT ![i] = @ + hit + lost]
        /\ wk' = [wk EXCEPT ![w].pc = "answered",
                            ![w].resp = IF hit = 1 THEN issued[i] + hit + lost ELSE 0]
        /\ Note(i, IF lost > 0 THEN {"lostAnswer"} ELSE {})
  BY <1>0 DEF Submit
<1>3. hit \in {0, 1} /\ lost \in Nat /\ issued \in [Invoices -> Nat]
  BY PipelineAssumption DEF TypeInv, TypeOK
<1>4. /\ wk'[w].inv = i /\ wk'[w].pc = "answered"
      /\ wk'[w].resp = IF hit = 1 THEN issued[i] + hit + lost ELSE 0
      /\ \A v \in Workers : v # w => wk'[v] = wk[v]
  BY <1>1, <1>2 DEF TypeInv, TypeOK, Worker
<1>5. /\ issued'[i] = issued[i] + hit + lost
      /\ \A j \in Invoices : j # i => issued'[j] = issued[j]
  BY <1>1, <1>2, <1>3
<1>6. \A j \in Invoices : Repeatable(j) => Repeatable(j)'
  BY <1>2, NoteGrows DEF Repeatable, Excused
<1>7. lost > 0 => Repeatable(i)'
  BY <1>1, <1>2, NoteExcuses DEF Mishap
<1>8. Early(w, i) /\ Holds(w, i) /\ inv[i].status # "ABSENT"
  BY <1>1 DEF Early, Holds, ExclusionInv, KnownInv
<1>9. issued[i] = 0 \/ Repeatable(i)
  BY <1>1, <1>8 DEF ExclusionInv, OnceInv
<1>10. \A v \in Workers, j \in Invoices :
         /\ Holds(v, j)' => Holds(v, j)
         /\ Early(v, j)' => Early(v, j)
         /\ j # i /\ Bears(v, j) => Bears(v, j)'
  BY <1>1, <1>4 DEF Holds, Early, Bears
<1>11. KnownInv'
  BY <1>1, <1>10 DEF ExclusionInv, KnownInv
<1>12. AloneInv'
  BY <1>6, <1>10 DEF ExclusionInv, AloneInv
<1>13. OnceInv'
  <2> SUFFICES ASSUME NEW j \in Invoices
               PROVE  /\ inv'[j].status = "ABSENT" => issued'[j] = 0
                      /\ issued'[j] <= 1 \/ Repeatable(j)'
                      /\ \/ issued'[j] = 0 \/ inv'[j].irn # 0 \/ Repeatable(j)'
                         \/ \E v \in Workers : Bears(v, j)'
                      /\ \A v \in Workers : Early(v, j)' => issued'[j] = 0 \/ Repeatable(j)'
    BY DEF OnceInv
  <2>1. CASE j # i
    BY <1>1, <1>5, <1>6, <1>10, <2>1 DEF ExclusionInv, OnceInv
  <2>2. CASE j = i /\ Repeatable(i)'
    BY <1>1, <1>8, <2>2
  <2>3. CASE j = i /\ ~Repeatable(i)'
    <3>1. issued[i] = 0 /\ lost = 0 /\ issued'[i] = hit
      BY <1>1, <1>3, <1>5, <1>6, <1>7, <1>9, <2>3
    <3>2. hit = 1 => Bears(w, i)'
      BY <1>3, <1>4, <3>1 DEF Bears
    <3>3. \A v \in Workers : v # w => ~ Early(v, i)'
      <4>1. \A v \in Workers : v # w => ~ Holds(v, i)
        BY <1>1, <1>6, <1>8, <2>3 DEF ExclusionInv, AloneInv
      <4>2. \A v \in Workers : Early(v, i) => Holds(v, i)
        BY DEF Early, Holds
      <4> QED
        BY <1>10, <4>1, <4>2
    <3>4. hit = 1 => ~ Early(w, i)'
      BY <1>3, <1>4, <3>1 DEF Early
    <3> QED
      BY <1>1, <1>3, <1>8, <2>3, <3>1, <3>2, <3>3, <3>4
  <2> QED
    BY <2>1, <2>2, <2>3
<1> QED
  BY <1>11, <1>12, <1>13 DEF ExclusionInv

\* FIRS clears an invoice of Sage 300 once, unless two retries overlapped, a
\* worker died or was interrupted, or an answer of the APP was lost: whatever
\* the number of polls, commands and retries that are under way.
THEOREM ClearedOnce == Spec => []SecondIRNNeedsMishap
<1>1. Init => ExclusionInv
  <2> SUFFICES ASSUME Init
               PROVE  ExclusionInv
    OBVIOUS
  <2>1. \A w \in Workers : wk[w].inv = NoInvoice
    BY DEF Init, Idle
  <2>2. \A w \in Workers, i \in Invoices : ~ Holds(w, i) /\ ~ Early(w, i)
    BY <2>1, PipelineAssumption DEF Holds, Early
  <2>3. submits = {} /\ \A i \in Invoices : issued[i] = 0
    BY DEF Init
  <2> QED
    BY <2>2, <2>3 DEF ExclusionInv, KnownInv, AloneInv, OnceInv
<1>2. TypeInv /\ ExclusionInv /\ [Next]_vars => ExclusionInv'
  BY Quiet, QuietStep, SaveInvoiceStep, StartSubmitStep, SubmitStep
<1>3. TypeInv /\ ExclusionInv => SecondIRNNeedsMishap
  BY DEF TypeInv, TypeOK, ExclusionInv, OnceInv, SecondIRNNeedsMishap, Repeatable
<1> QED
  BY <1>1, <1>2, <1>3, TypeInvariance, PTL DEF Spec

=============================================================================
