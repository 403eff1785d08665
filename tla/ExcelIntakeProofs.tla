-------------------------- MODULE ExcelIntakeProofs --------------------------
(***************************************************************************)
(* Proofs about the rows in module ExcelIntake, for any sets of uploads    *)
(* and workers, any file and any limits: types, the refinement of          *)
(* InvoiceClearance, and what the selection of retry_failed_excel_rows and *)
(* the unique key (upload, row_number) guarantee without any lock.         *)
(***************************************************************************)
EXTENDS ExcelIntake, TLAPS

Busy(r) == r.pc \in {"mapping", "ready", "sending", "answered"}

\* What a worker's record always looks like: which job can be where, who has an
\* upload and a row, and that a retry has each row once, in its list or in hand.
Placed(r) ==
  /\ r.pc \in {"idle", "checked"} => r.job = "none"
  /\ r.pc \in {"arrived", "parsing", "invalid", "rows"} =>
       r.job \in {"task", "arrival", "dry"} /\ r.attempts = 0
  /\ r.pc = "retrying" => r.job = "retry"
  /\ r.pc \in {"ready", "sending", "answered"} => r.job \in {"task", "arrival", "retry"}
  /\ r.pc = "mapping" => r.job # "none"
  /\ r.pc \in {"idle", "checked", "retrying"} <=> r.up = NoUpload
  /\ Busy(r) => r.num # 0
  /\ r.pc \in {"mapping", "ready"} => r.attempts < MaxAttempts
  /\ r.job # "retry" => r.list = {}
  /\ \A e \in r.list : e[2] < MaxAttempts
  /\ \A e, f \in r.list : e[1] = f[1] => e = f
  /\ Busy(r) => \A e \in r.list : e[1] # <<r.up, r.num>>

WorkerPlaced == {r \in Worker : Placed(r)}

TypeInv == TypeOK /\ wk \in [Workers -> WorkerPlaced]

LEMMA IdlePlaced == Idle \in WorkerPlaced
<1>1. Idle \in Worker
  BY IntakeAssumption DEF Idle, Worker
<1>2. Placed(Idle)
  BY DEF Idle, Placed, Busy
<1> QED
  BY <1>1, <1>2 DEF WorkerPlaced

\* The worker of a step gets a record that is placed.
LEMMA PlacedStep ==
  ASSUME TypeInv, NEW w \in Workers, NEW r \in WorkerPlaced, wk' = [wk EXCEPT ![w] = r]
  PROVE  /\ wk' \in [Workers -> Worker] /\ wk' \in [Workers -> WorkerPlaced]
         /\ wk'[w] = r /\ \A v \in Workers : v # w => wk'[v] = wk[v]
BY DEF TypeInv, TypeOK, WorkerPlaced

LEMMA FreeStep ==
  ASSUME TypeInv, NEW w \in Workers, Free(w)
  PROVE  /\ wk' \in [Workers -> Worker] /\ wk' \in [Workers -> WorkerPlaced]
         /\ wk'[w] = Idle /\ \A v \in Workers : v # w => wk'[v] = wk[v]
BY IdlePlaced, PlacedStep DEF Free

LEMMA ReturnedPlaced ==
  ASSUME NEW r \in WorkerPlaced, Busy(r), NEW ok \in BOOLEAN
  PROVE  Returned(r, ok) \in WorkerPlaced
<1>1. r \in Worker /\ Placed(r) /\ r.cleared + 1 \in Nat /\ r.failed + 1 \in Nat
  BY DEF WorkerPlaced, Worker
<1>2. CASE r.job = "retry"
  <2> DEFINE s == [Idle EXCEPT !.pc = "retrying", !.job = "retry", !.list = r.list]
  <2>0. r.list \in SUBSET (Slots \X Nat) /\ Idle \in Worker
    BY <1>1, IdlePlaced DEF Worker, WorkerPlaced
  <2>1. s \in Worker
    BY <2>0 DEF Worker
  <2>2. /\ s.pc = "retrying" /\ s.job = "retry" /\ s.list = r.list /\ s.up = NoUpload
    BY DEF Idle
  <2>3. Placed(s)
    BY <1>1, <2>2 DEF Placed, Busy
  <2> QED
    BY <1>2, <2>1, <2>3 DEF WorkerPlaced, Returned
<1>3. CASE r.job # "retry"
  <2> DEFINE c == IF ok THEN r.cleared + 1 ELSE r.cleared
             f == IF ok THEN r.failed ELSE r.failed + 1
             s == [r EXCEPT !.pc = "rows", !.num = 0, !.attempts = 0, !.resp = 0,
                            !.cleared = c, !.failed = f]
  <2>1. c \in Nat /\ f \in Nat
    BY <1>1 DEF Worker
  <2> HIDE DEF c, f
  <2>2. s \in Worker
    BY <1>1, <2>1 DEF Worker
  <2>3. s.pc = "rows" /\ s.job = r.job /\ s.up = r.up /\ s.list = r.list
    BY <1>1 DEF Worker
  <2>4. Placed(s)
    BY <1>1, <1>3, <2>3 DEF Placed, Busy, Worker
  <2>5. Returned(r, ok) = s
    BY <1>3 DEF Returned, c, f
  <2> QED
    BY <2>2, <2>4, <2>5 DEF WorkerPlaced
<1> QED
  BY <1>2, <1>3

LEMMA ReturnStep ==
  ASSUME TypeInv, NEW w \in Workers, InRow(w), NEW ok \in BOOLEAN, Return(w, ok)
  PROVE  /\ wk' \in [Workers -> Worker] /\ wk' \in [Workers -> WorkerPlaced]
         /\ wk'[w] = Returned(wk[w], ok) /\ \A v \in Workers : v # w => wk'[v] = wk[v]
<1>1. wk[w] \in WorkerPlaced /\ Busy(wk[w])
  BY DEF TypeInv, InRow, Busy
<1>2. Returned(wk[w], ok) \in WorkerPlaced
  BY <1>1, ReturnedPlaced
<1>3. wk' = [wk EXCEPT ![w] = Returned(wk[w], ok)]
  BY DEF Return
<1> QED
  BY <1>2, <1>3, PlacedStep

\* A worker in a row has a slot of the table.
LEMMA SlotType ==
  ASSUME TypeInv, NEW w \in Workers, InRow(w)
  PROVE  Slot(w) \in Slots /\ Up(w) \in Uploads
<1>1. wk[w] \in Worker /\ Placed(wk[w]) /\ Busy(wk[w])
  BY DEF TypeInv, WorkerPlaced, InRow, Busy
<1>2. wk[w].up \in Uploads /\ wk[w].num \in Nums
  BY <1>1 DEF Worker, Placed, Busy
<1> QED
  BY <1>2 DEF Slot, Up, Slots

LEMMA NoteType ==
  ASSUME TypeInv, NEW u, NEW m \in SUBSET Mishap, Note(u, m)
  PROVE  mishaps' \in [Uploads -> SUBSET Mishap]
BY DEF TypeInv, TypeOK, Note

LEMMA StatusType ==
  ASSUME TypeInv, NEW u,
         NEW s \in {"RECEIVED", "PARSING", "PROCESSING", "COMPLETE", "PARTIAL", "FAILED"},
         SetStatus(u, s)
  PROVE  upload' \in [Uploads -> Upload]
BY DEF TypeInv, TypeOK, SetStatus, Upload

LEMMA RowStatusType ==
  ASSUME TypeInv, NEW s, NEW x \in {"VALID", "INVALID", "SUBMITTED", "CLEARED", "FAILED"},
         row' = [row EXCEPT ![s].status = x]
  PROVE  row' \in [Slots -> Row]
BY DEF TypeInv, TypeOK, Row

\* Raise queues at most one more attempt of a task.
LEMMA RaiseStep ==
  ASSUME TypeInv, NEW w \in Workers, Up(w) \in Uploads, Raise(w)
  PROVE  /\ upload' \in [Uploads -> Upload] /\ queue' \subseteq Message
         /\ wk' \in [Workers -> Worker] /\ wk' \in [Workers -> WorkerPlaced]
<1>1. queue \subseteq Message
  BY DEF TypeInv, TypeOK
<1>2. wk[w].tries < MaxTaskRetries => <<Up(w), wk[w].tries + 1>> \in Message
  <2>1. wk[w].tries \in 0 .. MaxTaskRetries
    BY DEF TypeInv, TypeOK, Worker
  <2> QED
    BY <2>1, IntakeAssumption DEF Message
<1>3. queue' \subseteq Message
  BY <1>1, <1>2 DEF Raise
<1> QED
  BY <1>3, StatusType, FreeStep DEF Raise

\* A worker between idle and the end of a run has an upload.
LEMMA UpType ==
  ASSUME TypeInv, NEW w \in Workers, wk[w].pc \notin {"idle", "checked", "retrying"}
  PROVE  Up(w) \in Uploads
BY DEF TypeInv, WorkerPlaced, Worker, Placed, Up

\* Rows keep their slot in the table.
LEMMA NumberType ==
  ASSUME TypeOK, NEW r \in Rows
  PROVE  Number(r) \in Nums /\ Number(r) # 0
BY IntakeAssumption DEF TypeOK, Number, Rows, Nums

\* Steps of a worker that is in no row; the row table stays, or one row of it
\* gets a status.
LEMMA RunTypeStep ==
  ASSUME TypeInv, NEW w \in Workers, Intake(w) \/ Run(w)
  PROVE  TypeInv'
<1>1. ASSUME CheckUpload(w)
      PROVE  TypeInv'
  <2> DEFINE r == [wk[w] EXCEPT !.pc = "checked"]
  <2>1. wk[w] \in Worker /\ Placed(wk[w]) /\ wk[w].pc = "idle"
    BY <1>1 DEF CheckUpload, At, TypeInv, WorkerPlaced
  <2>2. r \in Worker /\ r.pc = "checked" /\ r.job = wk[w].job /\ r.list = wk[w].list /\ r.up = wk[w].up
    BY <2>1 DEF Worker
  <2>3. r \in WorkerPlaced
    BY <2>1, <2>2 DEF WorkerPlaced, Placed, Busy
  <2>4. wk' \in [Workers -> Worker] /\ wk' \in [Workers -> WorkerPlaced]
    BY <1>1, <2>3, PlacedStep DEF CheckUpload
  <2> QED
    BY <1>1, <2>4 DEF CheckUpload, TypeInv, TypeOK
<1>2. ASSUME NEW u \in Uploads, CreateUpload(w, u)
      PROVE  TypeInv'
  <2>1. queue' \subseteq Message
    BY <1>2, IntakeAssumption DEF CreateUpload, TypeInv, TypeOK, Message
  <2>2. Resent(u) \in SUBSET Mishap /\ Resent(u) \cup {"down"} \in SUBSET Mishap
    BY DEF Resent, Mishap
  <2>3. mishaps' \in [Uploads -> SUBSET Mishap]
    BY <1>2, <2>2, NoteType DEF CreateUpload
  <2> QED
    BY <1>2, <2>1, <2>3, StatusType, FreeStep DEF CreateUpload, TypeInv, TypeOK
<1>3. ASSUME NEW u \in Uploads, Arrive(w, u)
      PROVE  TypeInv'
  <2>1. PICK job \in {"arrival", "dry"} :
          /\ wk' = [wk EXCEPT ![w] = [Idle EXCEPT !.pc = "arrived", !.job = job, !.up = u]]
          /\ Note(u, IF job = "dry" THEN {"dry"} ELSE {})
    BY <1>3 DEF Arrive
  <2> DEFINE r == [Idle EXCEPT !.pc = "arrived", !.job = job, !.up = u]
             m == IF job = "dry" THEN {"dry"} ELSE {}
  <2>2. Idle \in Worker /\ u # NoUpload
    BY IdlePlaced, IntakeAssumption DEF WorkerPlaced
  <2>3. r \in Worker
    BY <2>2 DEF Worker
  <2>4. r.pc = "arrived" /\ r.job = job /\ r.up = u /\ r.list = {} /\ r.attempts = 0
    BY DEF Idle
  <2>5. r \in WorkerPlaced
    BY <2>2, <2>3, <2>4 DEF WorkerPlaced, Placed, Busy
  <2>6. wk' \in [Workers -> Worker] /\ wk' \in [Workers -> WorkerPlaced]
    BY <2>1, <2>5, PlacedStep
  <2>7. m \in SUBSET Mishap
    BY DEF Mishap
  <2>8. mishaps' \in [Uploads -> SUBSET Mishap]
    BY <2>1, <2>7, NoteType
  <2> QED
    BY <1>3, <2>6, <2>8, StatusType DEF Arrive, TypeInv, TypeOK
<1>4. ASSUME NEW u \in Uploads, NEW n \in 0 .. MaxTaskRetries, StartTask(w, u, n)
      PROVE  TypeInv'
  <2> DEFINE r == [Idle EXCEPT !.pc = "parsing", !.job = "task", !.up = u, !.tries = n]
  <2>1. Idle \in Worker /\ u # NoUpload
    BY IdlePlaced, IntakeAssumption DEF WorkerPlaced
  <2>2. r \in Worker
    BY <2>1 DEF Worker
  <2>3. r.pc = "parsing" /\ r.job = "task" /\ r.up = u /\ r.list = {} /\ r.attempts = 0
    BY DEF Idle
  <2>4. r \in WorkerPlaced
    BY <2>1, <2>2, <2>3 DEF WorkerPlaced, Placed, Busy
  <2>5. wk' \in [Workers -> Worker] /\ wk' \in [Workers -> WorkerPlaced]
    BY <1>4, <2>4, PlacedStep DEF StartTask
  <2> QED
    BY <1>4, <2>5 DEF StartTask, TypeInv, TypeOK
<1>5. ASSUME RefuseFile(w) \/ NoValidRows(w)
      PROVE  TypeInv'
  BY <1>5, StatusType, FreeStep DEF RefuseFile, NoValidRows, TypeInv, TypeOK
<1>6. ASSUME StartRun(w)
      PROVE  TypeInv'
  <2> DEFINE r == [wk[w] EXCEPT !.pc = "invalid", !.todo = bad]
             m == IF At(w, "arrived") THEN Resent(Up(w)) ELSE {}
  <2>1. wk[w] \in Worker /\ Placed(wk[w]) /\ wk[w].pc \in {"arrived", "parsing"}
    BY <1>6 DEF StartRun, At, TypeInv, WorkerPlaced
  <2>2. r \in Worker
    BY <2>1 DEF Worker, TypeInv, TypeOK
  <2>3. /\ r.pc = "invalid" /\ r.job = wk[w].job /\ r.list = wk[w].list
        /\ r.up = wk[w].up /\ r.attempts = wk[w].attempts
    BY <2>1 DEF Worker
  <2>4. r \in WorkerPlaced
    BY <2>1, <2>2, <2>3 DEF WorkerPlaced, Placed, Busy
  <2>5. wk' \in [Workers -> Worker] /\ wk' \in [Workers -> WorkerPlaced]
    BY <1>6, <2>4, PlacedStep DEF StartRun
  <2>6. m \in SUBSET Mishap
    BY DEF Resent, Mishap
  <2>7. mishaps' \in [Uploads -> SUBSET Mishap]
    BY <1>6, <2>6, NoteType DEF StartRun
  <2> QED
    BY <1>6, <2>5, <2>7, StatusType DEF StartRun, TypeInv, TypeOK
<1>7. ASSUME SaveInvalid(w)
      PROVE  TypeInv'
  <2>1. PICK q \in Rows :
          /\ row' = [row EXCEPT ![Place(w, q)].status = "INVALID"]
          /\ wk' = [wk EXCEPT ![w].todo = @ \ {q}]
    BY <1>7 DEF SaveInvalid
  <2> DEFINE r == [wk[w] EXCEPT !.todo = @ \ {q}]
  <2>2. wk[w] \in Worker /\ Placed(wk[w]) /\ wk[w].pc = "invalid"
    BY <1>7 DEF SaveInvalid, At, TypeInv, WorkerPlaced
  <2>3. r \in Worker
    BY <2>2 DEF Worker
  <2>4. /\ r.pc = "invalid" /\ r.job = wk[w].job /\ r.list = wk[w].list
        /\ r.up = wk[w].up /\ r.attempts = wk[w].attempts
    BY <2>2 DEF Worker
  <2>5. r \in WorkerPlaced
    BY <2>2, <2>3, <2>4 DEF WorkerPlaced, Placed, Busy
  <2>6. wk' \in [Workers -> Worker] /\ wk' \in [Workers -> WorkerPlaced]
    BY <2>1, <2>5, PlacedStep
  <2> QED
    BY <1>7, <2>1, <2>6, RowStatusType DEF SaveInvalid, TypeInv, TypeOK
<1>8. ASSUME StartRows(w)
      PROVE  TypeInv'
  <2> DEFINE r == [wk[w] EXCEPT !.pc = "rows", !.todo = Rows \ bad]
  <2>1. wk[w] \in Worker /\ Placed(wk[w]) /\ wk[w].pc = "invalid"
    BY <1>8 DEF StartRows, At, TypeInv, WorkerPlaced
  <2>2. r \in Worker
    BY <2>1 DEF Worker, TypeInv, TypeOK
  <2>3. /\ r.pc = "rows" /\ r.job = wk[w].job /\ r.list = wk[w].list
        /\ r.up = wk[w].up /\ r.attempts = wk[w].attempts
    BY <2>1 DEF Worker
  <2>4. r \in WorkerPlaced
    BY <2>1, <2>2, <2>3 DEF WorkerPlaced, Placed, Busy
  <2>5. wk' \in [Workers -> Worker] /\ wk' \in [Workers -> WorkerPlaced]
    BY <1>8, <2>4, PlacedStep DEF StartRows
  <2> QED
    BY <1>8, <2>5, StatusType DEF StartRows, TypeInv, TypeOK
<1>9. ASSUME InsertRow(w)
      PROVE  TypeInv'
  <2>1. PICK q \in Rows :
          /\ row' = [row EXCEPT ![Place(w, q)].status = "VALID"]
          /\ wk' = [wk EXCEPT ![w].pc = "mapping", ![w].todo = @ \ {q}, ![w].num = Number(q)]
    BY <1>9 DEF InsertRow
  <2> DEFINE r == [wk[w] EXCEPT !.pc = "mapping", !.todo = @ \ {q}, !.num = Number(q)]
  <2>2. wk[w] \in Worker /\ Placed(wk[w]) /\ wk[w].pc = "rows"
    BY <1>9 DEF InsertRow, At, TypeInv, WorkerPlaced
  <2>3. Number(q) \in Nums /\ Number(q) # 0
    BY NumberType DEF TypeInv
  <2>4. r \in Worker
    BY <2>2, <2>3 DEF Worker
  <2>5. /\ r.pc = "mapping" /\ r.job = wk[w].job /\ r.list = wk[w].list /\ r.up = wk[w].up
        /\ r.num = Number(q) /\ r.attempts = wk[w].attempts
    BY <2>2 DEF Worker
  <2>6. r.attempts < MaxAttempts
    BY <2>2, <2>5, IntakeAssumption DEF Placed
  <2>7. r \in WorkerPlaced
    BY <2>2, <2>3, <2>4, <2>5, <2>6 DEF WorkerPlaced, Placed, Busy
  <2>a. wk' = [wk EXCEPT ![w] = r]
    BY <2>1
  <2>8. wk' \in [Workers -> Worker] /\ wk' \in [Workers -> WorkerPlaced]
    BY <2>a, <2>7, PlacedStep
  <2> QED
    BY <1>9, <2>1, <2>8, RowStatusType DEF InsertRow, TypeInv, TypeOK
<1>10. ASSUME KeyTaken(w) \/ RunFails(w)
       PROVE  TypeInv'
  <2>1. Up(w) \in Uploads /\ Raise(w)
    BY <1>10, UpType DEF KeyTaken, RunFails, At
  <2>2. {"down"} \in SUBSET Mishap
    BY DEF Mishap
  <2>3. mishaps' \in [Uploads -> SUBSET Mishap]
    BY <1>10, <2>2, NoteType DEF KeyTaken, RunFails, TypeInv, TypeOK
  <2> QED
    BY <1>10, <2>1, <2>3, RaiseStep DEF KeyTaken, RunFails, TypeInv, TypeOK
<1>11. ASSUME FinishRun(w)
       PROVE  TypeInv'
  <2> DEFINE x == [status |-> IF wk[w].failed = 0 THEN "COMPLETE"
                              ELSE IF wk[w].cleared = 0 THEN "FAILED" ELSE "PARTIAL",
                   cleared |-> wk[w].cleared, failed |-> wk[w].failed]
             m == IF \E v \in Workers : At(v, "checked") THEN {"resent"} ELSE {}
  <2>1. x \in Upload
    BY DEF TypeInv, TypeOK, Worker, Upload
  <2>2. upload' = [upload EXCEPT ![Up(w)] = x]
    BY <1>11 DEF FinishRun
  <2>3. upload' \in [Uploads -> Upload]
    BY <2>1, <2>2 DEF TypeInv, TypeOK
  <2>4. m \in SUBSET Mishap
    BY DEF Mishap
  <2>5. mishaps' \in [Uploads -> SUBSET Mishap]
    BY <1>11, <2>4, NoteType DEF FinishRun
  <2> QED
    BY <1>11, <2>3, <2>5, FreeStep DEF FinishRun, TypeInv, TypeOK
<1> QED
  BY <1>1, <1>2, <1>3, <1>4, <1>5, <1>6, <1>7, <1>8, <1>9, <1>10, <1>11 DEF Intake, Run

\* Steps of a worker in a row.
LEMMA RowTypeStep ==
  ASSUME TypeInv, NEW w \in Workers, ProcessRow(w)
  PROVE  TypeInv'
<1>0. wk[w] \in Worker /\ Placed(wk[w])
  BY DEF TypeInv, WorkerPlaced
<1>1. ASSUME MapRow(w)
      PROVE  TypeInv'
  <2>1. row' \in [Slots -> Row]
    BY <1>1 DEF MapRow, TypeInv, TypeOK, Row
  <2>2. CASE Return(w, TRUE)
    BY <1>1, <2>1, <2>2, ReturnStep DEF MapRow, At, InRow, TypeInv, TypeOK
  <2>3. CASE Goto(w, "ready") /\ wk[w].job # "dry"
    <3> DEFINE r == [wk[w] EXCEPT !.pc = "ready"]
    <3>1. /\ r \in Worker /\ r.pc = "ready" /\ r.job = wk[w].job /\ r.list = wk[w].list
          /\ r.up = wk[w].up /\ r.num = wk[w].num /\ r.attempts = wk[w].attempts
      BY <1>0 DEF Worker
    <3>2. r \in WorkerPlaced
      BY <1>0, <1>1, <2>3, <3>1 DEF MapRow, At, WorkerPlaced, Placed, Busy, Worker
    <3>3. wk' \in [Workers -> Worker] /\ wk' \in [Workers -> WorkerPlaced]
      BY <2>3, <3>2, PlacedStep DEF Goto
    <3> QED
      BY <1>1, <2>1, <3>3 DEF MapRow, TypeInv, TypeOK
  <2> QED
    BY <1>1, <2>2, <2>3 DEF MapRow
<1>2. ASSUME SaveSubmitted(w)
      PROVE  TypeInv'
  <2> DEFINE r == [wk[w] EXCEPT !.pc = "sending", !.attempts = @ + 1]
  <2>1. wk[w].attempts + 1 \in Nat
    BY <1>0 DEF Worker
  <2>2. r \in Worker
    BY <1>0, <2>1 DEF Worker
  <2>3. /\ r.pc = "sending" /\ r.job = wk[w].job /\ r.list = wk[w].list
        /\ r.up = wk[w].up /\ r.num = wk[w].num
    BY <1>0 DEF Worker
  <2>4. r \in WorkerPlaced
    BY <1>0, <1>2, <2>2, <2>3 DEF SaveSubmitted, At, WorkerPlaced, Placed, Busy
  <2>5. wk' \in [Workers -> Worker] /\ wk' \in [Workers -> WorkerPlaced]
    BY <1>2, <2>4, PlacedStep DEF SaveSubmitted
  <2>6. row' \in [Slots -> Row]
    BY <1>2, <2>1 DEF SaveSubmitted, TypeInv, TypeOK, Row
  <2>7. sends' \in [Slots -> Nat]
    <3>1. PICK s \in Slots : s = Slot(w)
      BY <1>2, SlotType DEF SaveSubmitted, At, InRow
    <3>2. sends[s] + 1 \in Nat /\ sends' = [sends EXCEPT ![s] = sends[s] + 1]
      BY <1>2, <3>1 DEF SaveSubmitted, TypeInv, TypeOK
    <3> QED
      BY <3>1, <3>2 DEF TypeInv, TypeOK
  <2> QED
    BY <1>2, <2>5, <2>6, <2>7 DEF SaveSubmitted, TypeInv, TypeOK
<1>3. ASSUME Submit(w)
      PROVE  TypeInv'
  <2>1. PICK s \in Slots : s = Slot(w)
    BY <1>3, SlotType DEF Submit, At, InRow
  <2>2. PICK hit \in 0 .. 1, lost \in 0 .. AppTries :
          /\ issued' = [issued EXCEPT ![s] = @ + hit + lost]
          /\ wk' = [wk EXCEPT ![w].pc = "answered",
                              ![w].resp = IF hit = 1 THEN issued[s] + hit + lost ELSE 0]
          /\ Note(Up(w), IF lost > 0 THEN {"lost"} ELSE {})
    BY <1>3, <2>1 DEF Submit
  <2>3. hit \in Nat /\ lost \in Nat /\ issued[s] + hit + lost \in Nat
    BY IntakeAssumption DEF TypeInv, TypeOK
  <2> DEFINE n == IF hit = 1 THEN issued[s] + hit + lost ELSE 0
             r == [wk[w] EXCEPT !.pc = "answered", !.resp = n]
             m == IF lost > 0 THEN {"lost"} ELSE {}
  <2>4. n \in Nat /\ wk' = [wk EXCEPT ![w] = r]
    BY <2>2, <2>3
  <2> HIDE DEF n
  <2>5. r \in Worker
    BY <1>0, <2>4 DEF Worker
  <2>6. /\ r.pc = "answered" /\ r.job = wk[w].job /\ r.list = wk[w].list
        /\ r.up = wk[w].up /\ r.num = wk[w].num
    BY <1>0 DEF Worker
  <2>7. r \in WorkerPlaced
    BY <1>0, <1>3, <2>5, <2>6 DEF Submit, At, WorkerPlaced, Placed, Busy
  <2>8. wk' \in [Workers -> Worker] /\ wk' \in [Workers -> WorkerPlaced]
    BY <2>4, <2>7, PlacedStep
  <2>9. issued' \in [Slots -> Nat]
    BY <2>2, <2>3 DEF TypeInv, TypeOK
  <2>10. m \in SUBSET Mishap
    BY DEF Mishap
  <2>11. mishaps' \in [Uploads -> SUBSET Mishap]
    BY <2>2, <2>10, NoteType
  <2> QED
    BY <1>3, <2>8, <2>9, <2>11 DEF Submit, TypeInv, TypeOK
<1>4. ASSUME SaveCleared(w)
      PROVE  TypeInv'
  <2>1. wk[w].resp \in Nat
    BY <1>0 DEF Worker
  <2>2. row' \in [Slots -> Row]
    BY <1>4, <2>1 DEF SaveCleared, TypeInv, TypeOK, Row
  <2> QED
    BY <1>4, <2>2, ReturnStep DEF SaveCleared, At, InRow, TypeInv, TypeOK
<1>5. ASSUME SaveFailed(w) \/ RowFails(w)
      PROVE  TypeInv'
  <2>1. row' \in [Slots -> Row]
    BY <1>5, RowStatusType DEF SaveFailed, RowFails, SetRow
  <2>2. wk' \in [Workers -> Worker] /\ wk' \in [Workers -> WorkerPlaced]
    BY <1>5, ReturnStep DEF SaveFailed, RowFails, At, InRow
  <2> DEFINE m == IF wk[w].resp # 0 THEN {"lost"} ELSE {}
  <2>3. m \in SUBSET Mishap
    BY DEF Mishap
  <2>4. mishaps' \in [Uploads -> SUBSET Mishap]
    BY <1>5, <2>3, NoteType DEF SaveFailed, RowFails, TypeInv, TypeOK
  <2> QED
    BY <1>5, <2>1, <2>2, <2>4 DEF SaveFailed, RowFails, TypeInv, TypeOK
<1>6. ASSUME RowRaises(w)
      PROVE  TypeInv'
  <2>1. {"down"} \in SUBSET Mishap
    BY DEF Mishap
  <2>2. mishaps' \in [Uploads -> SUBSET Mishap]
    BY <1>6, <2>1, NoteType DEF RowRaises
  <2>3. CASE Return(w, FALSE) /\ UNCHANGED <<upload, queue>>
    <3>1. wk' \in [Workers -> Worker] /\ wk' \in [Workers -> WorkerPlaced]
      BY <1>6, <2>3, ReturnStep DEF RowRaises
    <3> QED
      BY <1>6, <2>2, <2>3, <3>1 DEF RowRaises, TypeInv, TypeOK
  <2>4. CASE Raise(w)
    <3>1. Up(w) \in Uploads
      BY <1>6, SlotType DEF RowRaises
    <3> QED
      BY <1>6, <2>2, <2>4, <3>1, RaiseStep DEF RowRaises, TypeInv, TypeOK
  <2> QED
    BY <1>6, <2>3, <2>4 DEF RowRaises
<1> QED
  BY <1>1, <1>2, <1>3, <1>4, <1>5, <1>6 DEF ProcessRow

\* The rows that a retry reads, with their attempts, are below the limit.
Due == {s \in Slots : row[s].status = "FAILED" /\ row[s].attempts < MaxAttempts /\ row[s].mapped}

\* Steps of a retry, and crashes.
LEMMA RetryTypeStep ==
  ASSUME TypeInv, NEW w \in Workers, Retry(w) \/ Crash(w)
  PROVE  TypeInv'
<1>0. wk[w] \in Worker /\ Placed(wk[w]) /\ Idle \in Worker
  BY IdlePlaced DEF TypeInv, WorkerPlaced
<1>1. ASSUME StartRetry(w)
      PROVE  TypeInv'
  <2> DEFINE l == {<<s, row[s].attempts>> : s \in Due}
             r == [Idle EXCEPT !.pc = "retrying", !.job = "retry", !.list = l]
  <2>1. wk' = [wk EXCEPT ![w] = r]
    BY <1>1 DEF StartRetry, Due
  <2>2. l \in SUBSET (Slots \X Nat)
    BY DEF Due, TypeInv, TypeOK, Row
  <2>3. /\ \A e \in l : e[2] < MaxAttempts
        /\ \A e, f \in l : e[1] = f[1] => e = f
    BY DEF Due
  <2> HIDE DEF l
  <2>4. r \in Worker
    BY <1>0, <2>2 DEF Worker
  <2>5. r.pc = "retrying" /\ r.job = "retry" /\ r.list = l /\ r.up = NoUpload
    BY DEF Idle
  <2>6. r \in WorkerPlaced
    BY <2>3, <2>4, <2>5 DEF WorkerPlaced, Placed, Busy
  <2>7. wk' \in [Workers -> Worker] /\ wk' \in [Workers -> WorkerPlaced]
    BY <2>1, <2>6, PlacedStep
  <2>8. mishaps' \in [Uploads -> SUBSET Mishap]
    BY <1>1 DEF StartRetry, TypeInv, TypeOK, Mishap
  <2> QED
    BY <1>1, <2>7, <2>8 DEF StartRetry, TypeInv, TypeOK
<1>2. ASSUME RetryRow(w)
      PROVE  TypeInv'
  <2>1. PICK e \in wk[w].list :
          wk' = [wk EXCEPT ![w].pc = "mapping", ![w].list = @ \ {e}, ![w].up = e[1][1],
                           ![w].num = e[1][2], ![w].attempts = e[2]]
    BY <1>2 DEF RetryRow
  <2> DEFINE r == [wk[w] EXCEPT !.pc = "mapping", !.list = @ \ {e}, !.up = e[1][1],
                                !.num = e[1][2], !.attempts = e[2]]
  <2>2. e \in Slots \X Nat /\ e[1] \in Slots /\ e[2] \in Nat
    BY <1>0 DEF Worker
  <2>3. /\ e[1][1] \in Uploads /\ e[1][2] \in Nums /\ e[1] = <<e[1][1], e[1][2]>>
        /\ e[1][2] # 0 /\ e[1][1] # NoUpload
    BY <2>2, IntakeAssumption DEF Slots, Nums
  <2>4. r \in Worker
    BY <1>0, <2>2, <2>3 DEF Worker
  <2>5. /\ r.pc = "mapping" /\ r.job = wk[w].job /\ r.list = wk[w].list \ {e}
        /\ r.up = e[1][1] /\ r.num = e[1][2] /\ r.attempts = e[2]
    BY <1>0 DEF Worker
  <2>6. wk[w].job = "retry"
    BY <1>0, <1>2 DEF RetryRow, At, Placed
  <2>7. Placed(r)
    BY <1>0, <2>3, <2>5, <2>6 DEF Placed, Busy
  <2>8. wk' \in [Workers -> Worker] /\ wk' \in [Workers -> WorkerPlaced]
    BY ZenonT(60), <2>1, <2>4, <2>7, PlacedStep DEF WorkerPlaced
  <2> QED
    BY <1>2, <2>8 DEF RetryRow, TypeInv, TypeOK
<1>3. ASSUME EndRetry(w)
      PROVE  TypeInv'
  BY <1>3, FreeStep DEF EndRetry, TypeInv, TypeOK
<1>4. ASSUME Crash(w)
      PROVE  TypeInv'
  <2>1. mishaps' \in [Uploads -> SUBSET Mishap]
    BY <1>4 DEF Crash, TypeInv, TypeOK, Mishap
  <2> QED
    BY <1>4, <2>1, FreeStep DEF Crash, TypeInv, TypeOK
<1> QED
  BY <1>1, <1>2, <1>3, <1>4 DEF Retry

LEMMA TypeStep ==
  ASSUME TypeInv, [Next]_vars
  PROVE  TypeInv'
<1>1. CASE UNCHANGED vars
  BY <1>1 DEF vars, TypeInv, TypeOK
<1>2. CASE Next
  BY <1>2, RunTypeStep, RowTypeStep, RetryTypeStep DEF Next
<1> QED
  BY <1>1, <1>2

\* Every reachable state is well-typed, and every worker's record is placed.
THEOREM TypeInvariance == Spec => []TypeInv
<1>1. Init => TypeInv
  <2> SUFFICES ASSUME Init
               PROVE  TypeInv
    OBVIOUS
  <2>1. wk \in [Workers -> WorkerPlaced] /\ wk \in [Workers -> Worker]
    BY IdlePlaced DEF Init, WorkerPlaced
  <2>2. NoRow \in Row /\ [status |-> "ABSENT", cleared |-> 0, failed |-> 0] \in Upload
    BY DEF NoRow, Row, Upload
  <2> QED
    BY <2>1, <2>2 DEF Init, TypeInv, TypeOK
<1>2. TypeInv /\ [Next]_vars => TypeInv'
  BY TypeStep
<1> QED
  BY <1>1, <1>2, PTL DEF Spec

\* Every value keeps its type in every reachable state.
THEOREM TypeCorrect == Spec => []TypeOK
BY TypeInvariance, PTL DEF TypeInv

-----------------------------------------------------------------------------
(* IRNs, and the refinement of InvoiceClearance.                             *)

\* The IRN that the APP answered was issued for the row in hand.
IRNInv == \A w \in Workers : At(w, "answered") => wk[w].resp <= issued[Slot(w)]

OutOfRow == {"idle", "checked", "arrived", "parsing", "invalid", "rows"}

\* Outside _process_row a step of a worker leaves it outside, and issues nothing.
LEMMA OutsideStep ==
  ASSUME TypeInv, NEW w \in Workers, Intake(w) \/ (Run(w) /\ ~InsertRow(w))
  PROVE  /\ wk[w].pc \in OutOfRow /\ wk'[w].pc \in OutOfRow
         /\ \A v \in Workers : v # w => wk'[v] = wk[v]
         /\ issued' = issued /\ sends' = sends
<1>1. issued' = issued /\ sends' = sends
  BY DEF Intake, CheckUpload, CreateUpload, Arrive, StartTask, RefuseFile, Run, StartRun,
         SaveInvalid, NoValidRows, StartRows, KeyTaken, RunFails, FinishRun
<1>2. wk[w].pc \in OutOfRow
  BY DEF Intake, CheckUpload, CreateUpload, Arrive, StartTask, RefuseFile, Run, StartRun,
         SaveInvalid, NoValidRows, StartRows, KeyTaken, RunFails, FinishRun, At, OutOfRow
<1>3. Idle.pc = "idle" /\ Idle \in Worker /\ wk[w] \in Worker
  BY IdlePlaced DEF Idle, TypeInv, WorkerPlaced
<1>4. ASSUME Free(w)
      PROVE  wk'[w].pc \in OutOfRow /\ \A v \in Workers : v # w => wk'[v] = wk[v]
  BY <1>3, <1>4, FreeStep DEF OutOfRow
<1>5. ASSUME CheckUpload(w)
      PROVE  wk'[w].pc \in OutOfRow /\ \A v \in Workers : v # w => wk'[v] = wk[v]
  BY <1>3, <1>5 DEF CheckUpload, OutOfRow, TypeInv, TypeOK, Worker
<1>6. ASSUME NEW u \in Uploads, Arrive(w, u)
      PROVE  wk'[w].pc \in OutOfRow /\ \A v \in Workers : v # w => wk'[v] = wk[v]
  <2>1. PICK job \in {"arrival", "dry"} :
          wk' = [wk EXCEPT ![w] = [Idle EXCEPT !.pc = "arrived", !.job = job, !.up = u]]
    BY <1>6 DEF Arrive
  <2> QED
    BY <2>1 DEF OutOfRow, Idle, TypeInv, TypeOK
<1>7. ASSUME NEW u \in Uploads, NEW n \in 0 .. MaxTaskRetries, StartTask(w, u, n)
      PROVE  wk'[w].pc \in OutOfRow /\ \A v \in Workers : v # w => wk'[v] = wk[v]
  BY <1>7 DEF StartTask, OutOfRow, Idle, TypeInv, TypeOK
<1>8. ASSUME StartRun(w)
      PROVE  wk'[w].pc \in OutOfRow /\ \A v \in Workers : v # w => wk'[v] = wk[v]
  BY <1>3, <1>8 DEF StartRun, OutOfRow, TypeInv, TypeOK, Worker
<1>9. ASSUME StartRows(w)
      PROVE  wk'[w].pc \in OutOfRow /\ \A v \in Workers : v # w => wk'[v] = wk[v]
  BY <1>3, <1>9 DEF StartRows, OutOfRow, TypeInv, TypeOK, Worker
<1>10. ASSUME SaveInvalid(w)
       PROVE  wk'[w].pc \in OutOfRow /\ \A v \in Workers : v # w => wk'[v] = wk[v]
  <2>1. PICK q \in Rows : wk' = [wk EXCEPT ![w].todo = @ \ {q}]
    BY <1>10 DEF SaveInvalid
  <2> QED
    BY <1>2, <1>3, <2>1 DEF OutOfRow, TypeInv, TypeOK, Worker
<1> QED
  BY <1>1, <1>2, <1>4, <1>5, <1>6, <1>7, <1>8, <1>9, <1>10
     DEF Intake, CreateUpload, RefuseFile, Run, NoValidRows, KeyTaken, RunFails, FinishRun, Raise

\* What the steps inside a row leave alone.
SameBut(r, q) ==
  r.job = q.job /\ r.list = q.list /\ r.cleared = q.cleared /\ r.failed = q.failed

LEMMA InsertStep ==
  ASSUME TypeInv, NEW w \in Workers, InsertRow(w)
  PROVE  \E q \in Rows :
           /\ At(w, "rows") /\ NextRow(w, q)
           /\ Place(w, q) \in Slots /\ row[Place(w, q)].status = "ABSENT"
           /\ row' = [row EXCEPT ![Place(w, q)].status = "VALID"]
           /\ wk'[w].pc = "mapping" /\ wk'[w].todo = wk[w].todo \ {q}
           /\ wk'[w].up = wk[w].up /\ wk'[w].num = Number(q)
           /\ SameBut(wk'[w], wk[w]) /\ wk'[w].attempts = wk[w].attempts
           /\ \A v \in Workers : v # w => wk'[v] = wk[v]
           /\ UNCHANGED <<upload, queue, issued, sends, mishaps>>
<1>1. PICK q \in Rows :
        /\ NextRow(w, q) /\ row[Place(w, q)].status = "ABSENT"
        /\ row' = [row EXCEPT ![Place(w, q)].status = "VALID"]
        /\ wk' = [wk EXCEPT ![w].pc = "mapping", ![w].todo = @ \ {q}, ![w].num = Number(q)]
  BY DEF InsertRow
<1>2. At(w, "rows") /\ UNCHANGED <<upload, queue, issued, sends, mishaps>>
  BY DEF InsertRow
<1>3. Place(w, q) \in Slots
  BY <1>2, UpType, NumberType DEF At, Place, Slots, TypeInv
<1>4. /\ wk'[w] = [wk[w] EXCEPT !.pc = "mapping", !.todo = @ \ {q}, !.num = Number(q)]
      /\ \A v \in Workers : v # w => wk'[v] = wk[v]
      /\ wk[w] \in Worker
  BY <1>1 DEF TypeInv, TypeOK
<1>5. /\ wk'[w].pc = "mapping" /\ wk'[w].todo = wk[w].todo \ {q}
      /\ wk'[w].up = wk[w].up /\ wk'[w].num = Number(q)
      /\ SameBut(wk'[w], wk[w]) /\ wk'[w].attempts = wk[w].attempts
  BY <1>4 DEF Worker, SameBut
<1> QED
  BY <1>1, <1>2, <1>3, <1>4, <1>5

\* A retry reads the rows that are due, or takes the first of an upload in hand.
LEMMA RetryStep ==
  ASSUME TypeInv, NEW w \in Workers, StartRetry(w) \/ RetryRow(w)
  PROVE  /\ \/ /\ StartRetry(w) /\ wk[w].pc = "idle"
               /\ wk'[w].pc = "retrying" /\ wk'[w].up = NoUpload
               /\ wk'[w].list = {<<s, row[s].attempts>> : s \in Due}
            \/ /\ RetryRow(w) /\ wk[w].pc = "retrying" /\ wk'[w].pc = "mapping"
               /\ wk'[w].job = "retry"
               /\ \E e \in wk[w].list : /\ wk'[w].list = wk[w].list \ {e}
                                        /\ Slot(w)' = e[1] /\ wk'[w].attempts = e[2]
         /\ \A v \in Workers : v # w => wk'[v] = wk[v]
<1>0. wk[w] \in Worker /\ Placed(wk[w]) /\ Idle \in Worker
  BY IdlePlaced DEF TypeInv, WorkerPlaced
<1>1. CASE StartRetry(w)
  <2> DEFINE l == {<<s, row[s].attempts>> : s \in Due}
  <2>1. /\ wk'[w] = [Idle EXCEPT !.pc = "retrying", !.job = "retry", !.list = l]
        /\ \A v \in Workers : v # w => wk'[v] = wk[v]
    BY <1>1 DEF StartRetry, Due, TypeInv, TypeOK
  <2> HIDE DEF l
  <2>2. wk'[w].pc = "retrying" /\ wk'[w].up = NoUpload /\ wk'[w].list = l
    BY <2>1 DEF Idle
  <2> QED
    BY <1>1, <2>1, <2>2 DEF StartRetry, At, l
<1>2. CASE RetryRow(w)
  <2>1. PICK e \in wk[w].list :
          wk' = [wk EXCEPT ![w].pc = "mapping", ![w].list = @ \ {e}, ![w].up = e[1][1],
                           ![w].num = e[1][2], ![w].attempts = e[2]]
    BY <1>2 DEF RetryRow
  <2>2. /\ wk'[w] = [wk[w] EXCEPT !.pc = "mapping", !.list = @ \ {e}, !.up = e[1][1],
                                  !.num = e[1][2], !.attempts = e[2]]
        /\ \A v \in Workers : v # w => wk'[v] = wk[v]
    BY <2>1 DEF TypeInv, TypeOK
  <2>3. /\ wk'[w].pc = "mapping" /\ wk'[w].list = wk[w].list \ {e} /\ wk'[w].attempts = e[2]
        /\ wk'[w].up = e[1][1] /\ wk'[w].num = e[1][2] /\ wk'[w].job = wk[w].job
    BY <1>0, <2>2 DEF Worker
  <2>4. e[1] = <<e[1][1], e[1][2]>>
    BY <1>0 DEF Worker, Slots
  <2>5. wk[w].pc = "retrying" /\ wk[w].job = "retry"
    BY <1>0, <1>2 DEF RetryRow, At, Placed
  <2> QED
    BY <1>2, <2>2, <2>3, <2>4, <2>5 DEF Slot
<1> QED
  BY <1>1, <1>2

\* Only Submit issues IRNs or brings an answer; only SaveCleared saves one.
LEMMA IRNsStay ==
  ASSUME TypeInv, [Next]_vars, ~ \E w \in Workers : Submit(w)
  PROVE  /\ issued' = issued
         /\ \A v \in Workers : At(v, "answered")' => wk'[v] = wk[v]
<1>1. ASSUME NEW w \in Workers, Intake(w) \/ Run(w) \/ Retry(w) \/ Crash(w)
      PROVE  /\ issued' = issued
             /\ \A v \in Workers : At(v, "answered")' => wk'[v] = wk[v]
  <2>1. CASE Intake(w) \/ (Run(w) /\ ~InsertRow(w))
    BY <2>1, OutsideStep DEF At, OutOfRow
  <2>2. CASE InsertRow(w)
    <3>1. wk'[w].pc = "mapping" /\ \A v \in Workers : v # w => wk'[v] = wk[v]
      BY <2>2, InsertStep
    <3> QED
      BY <2>2, <3>1, InsertStep DEF At
  <2>3. CASE StartRetry(w) \/ RetryRow(w)
    <3>1. /\ wk'[w].pc \in {"retrying", "mapping"}
          /\ \A v \in Workers : v # w => wk'[v] = wk[v]
      BY <2>3, RetryStep
    <3> QED
      BY <2>3, <3>1 DEF At, StartRetry, RetryRow
  <2>4. CASE EndRetry(w) \/ Crash(w)
    <3>1. Idle.pc = "idle"
      BY DEF Idle
    <3> QED
      BY <2>4, <3>1, FreeStep DEF At, EndRetry, Crash
  <2> QED
    BY <1>1, <2>1, <2>2, <2>3, <2>4 DEF Retry, Run
<1>2. ASSUME NEW w \in Workers, ProcessRow(w), ~ Submit(w)
      PROVE  /\ issued' = issued
             /\ \A v \in Workers : At(v, "answered")' => wk'[v] = wk[v]
  <2>1. issued' = issued
    BY <1>2 DEF ProcessRow, MapRow, SaveSubmitted, SaveCleared, SaveFailed, RowFails, RowRaises
  <2>2. InRow(w) /\ wk[w] \in WorkerPlaced
    BY <1>2 DEF ProcessRow, MapRow, SaveSubmitted, SaveCleared, SaveFailed, RowFails, RowRaises,
                At, InRow, TypeInv
  <2>3. CASE Return(w, TRUE) \/ Return(w, FALSE)
    <3>1. \A ok \in BOOLEAN : Returned(wk[w], ok).pc # "answered"
      BY <2>2 DEF Returned, Idle, WorkerPlaced, Worker
    <3> QED
      BY <2>1, <2>2, <2>3, <3>1, ReturnStep DEF At
  <2>4. CASE Raise(w)
    <3>1. Idle.pc = "idle"
      BY DEF Idle
    <3> QED
      BY <2>1, <2>4, <3>1, FreeStep DEF At, Raise
  <2>5. CASE Goto(w, "ready") \/ SaveSubmitted(w)
    <3>1. wk'[w].pc \in {"ready", "sending"} /\ \A v \in Workers : v # w => wk'[v] = wk[v]
      BY <2>2, <2>5 DEF Goto, SaveSubmitted, WorkerPlaced, Worker, TypeInv, TypeOK
    <3> QED
      BY <2>1, <3>1 DEF At
  <2> QED
    BY <1>2, <2>3, <2>4, <2>5
       DEF ProcessRow, MapRow, SaveCleared, SaveFailed, RowFails, RowRaises
<1>3. CASE UNCHANGED vars
  BY <1>3 DEF vars, At
<1> QED
  BY <1>1, <1>2, <1>3 DEF Next

\* What Submit does to the row in hand.
LEMMA SubmitStep ==
  ASSUME TypeInv, NEW w \in Workers, Submit(w)
  PROVE  \E s \in Slots, hit \in {0, 1}, lost \in Nat :
           /\ s = Slot(w) /\ At(w, "sending")
           /\ issued' = [issued EXCEPT ![s] = issued[s] + hit + lost]
           /\ issued[s] + hit + lost \in Nat
           /\ Slot(w)' = s /\ At(w, "answered")' /\ SameBut(wk'[w], wk[w])
           /\ wk'[w].todo = wk[w].todo /\ wk'[w].attempts = wk[w].attempts
           /\ wk'[w].resp = IF hit = 1 THEN issued[s] + hit + lost ELSE 0
           /\ \A v \in Workers : v # w => wk'[v] = wk[v]
           /\ Note(Up(w), IF lost > 0 THEN {"lost"} ELSE {})
           /\ UNCHANGED <<row, sends, upload, queue>>
<1>1. PICK s \in Slots : s = Slot(w)
  BY SlotType DEF Submit, At, InRow
<1>2. PICK hit \in 0 .. 1, lost \in 0 .. AppTries :
        /\ issued' = [issued EXCEPT ![s] = @ + hit + lost]
        /\ wk' = [wk EXCEPT ![w].pc = "answered",
                            ![w].resp = IF hit = 1 THEN issued[s] + hit + lost ELSE 0]
        /\ Note(Up(w), IF lost > 0 THEN {"lost"} ELSE {})
  BY <1>1 DEF Submit
<1>3. hit \in {0, 1} /\ lost \in Nat /\ issued[s] + hit + lost \in Nat
  BY IntakeAssumption DEF TypeInv, TypeOK
<1>4. issued' = [issued EXCEPT ![s] = issued[s] + hit + lost]
  BY <1>2
<1>5. /\ wk'[w] = [wk[w] EXCEPT !.pc = "answered",
                        !.resp = IF hit = 1 THEN issued[s] + hit + lost ELSE 0]
      /\ \A v \in Workers : v # w => wk'[v] = wk[v]
  BY <1>2 DEF TypeInv, TypeOK
<1>6. At(w, "sending") /\ UNCHANGED <<row, sends, upload, queue>>
  BY DEF Submit
<1> DEFINE n == IF hit = 1 THEN issued[s] + hit + lost ELSE 0
<1>7. wk'[w] = [wk[w] EXCEPT !.pc = "answered", !.resp = n] /\ wk[w] \in Worker
  BY <1>5 DEF TypeInv, TypeOK
<1> HIDE DEF n
<1>8. /\ Slot(w)' = s /\ At(w, "answered")' /\ SameBut(wk'[w], wk[w])
      /\ wk'[w].todo = wk[w].todo /\ wk'[w].attempts = wk[w].attempts /\ wk'[w].resp = n
  BY <1>1, <1>7 DEF Slot, At, SameBut, Worker
<1> QED
  BY <1>1, <1>2, <1>3, <1>4, <1>5, <1>6, <1>8 DEF n

LEMMA IRNStep ==
  ASSUME TypeInv, IRNInv, [Next]_vars
  PROVE  IRNInv'
<1>1. CASE ~ \E w \in Workers : Submit(w)
  BY <1>1, IRNsStay DEF IRNInv, At, Slot
<1>2. ASSUME NEW w \in Workers, Submit(w)
      PROVE  IRNInv'
  <2>1. PICK s \in Slots, hit \in {0, 1}, lost \in Nat :
           /\ s = Slot(w) /\ At(w, "sending")
           /\ issued' = [issued EXCEPT ![s] = issued[s] + hit + lost]
           /\ issued[s] + hit + lost \in Nat
           /\ Slot(w)' = s /\ At(w, "answered")' /\ SameBut(wk'[w], wk[w])
           /\ wk'[w].todo = wk[w].todo /\ wk'[w].attempts = wk[w].attempts
           /\ wk'[w].resp = IF hit = 1 THEN issued[s] + hit + lost ELSE 0
           /\ \A v \in Workers : v # w => wk'[v] = wk[v]
    BY <1>2, SubmitStep
  <2>2. issued'[s] = issued[s] + hit + lost /\ \A t \in Slots : issued[t] \in Nat /\ issued'[t] >= issued[t]
    BY <2>1 DEF TypeInv, TypeOK
  <2>3. ASSUME NEW v \in Workers, v # w, At(v, "answered")
        PROVE  wk'[v].resp <= issued'[Slot(v)]
    <3>1. Slot(v) \in Slots /\ wk[v].resp \in Nat /\ wk'[v] = wk[v]
      BY <2>1, <2>3, SlotType DEF InRow, At, TypeInv, TypeOK, Worker
    <3>2. wk[v].resp <= issued[Slot(v)] /\ issued[Slot(v)] \in Nat /\ issued'[Slot(v)] >= issued[Slot(v)]
      BY <2>2, <2>3, <3>1 DEF IRNInv
    <3>3. issued'[Slot(v)] \in Nat
      BY <2>1, <3>1 DEF TypeInv, TypeOK
    <3> QED
      BY <3>1, <3>2, <3>3
  <2>4. Slot(w)' = s /\ wk'[w].resp <= issued'[s]
    BY <2>1, <2>2 DEF Slot, TypeInv, TypeOK, Worker
  <2>5. \A v \in Workers : v # w => Slot(v)' = Slot(v) /\ (At(v, "answered")' <=> At(v, "answered"))
    BY <2>1 DEF Slot, At
  <2> QED
    BY <2>1, <2>3, <2>4, <2>5 DEF IRNInv
<1> QED
  BY <1>1, <1>2

LEMMA IRNInvariance == Spec => []IRNInv
<1>1. Init => IRNInv
  BY DEF Init, IRNInv, At, Idle
<1>2. TypeInv /\ IRNInv /\ [Next]_vars => IRNInv'
  BY IRNStep
<1> QED
  BY <1>1, <1>2, TypeInvariance, PTL DEF Spec

Stutters == issued' = issued /\ \A s \in Slots : row'[s].irn = row[s].irn

\* A step that touches no IRN is a stutter of the promise.
LEMMA StuttersAbove ==
  ASSUME Stutters
  PROVE  UNCHANGED Clearance!vars
BY DEF Stutters, Clearance!vars

\* Issuing or recording an IRN of one row is a step of it.
LEMMA StepsAbove ==
  ASSUME NEW s \in Slots, Clearance!Issue(s) \/ Clearance!Record(s)
  PROVE  Clearance!Next
BY DEF Clearance!Next

\* Every other step changes no IRN in the table.
LEMMA RowsKeepIRN ==
  ASSUME TypeInv, [Next]_vars, ~ \E w \in Workers : SaveCleared(w)
  PROVE  \A s \in Slots : row'[s].irn = row[s].irn
<1>0. \A s \in Slots : row[s] \in Row
  BY DEF TypeInv, TypeOK
<1>1. ASSUME NEW s, NEW x, row' = [row EXCEPT ![s].status = x]
      PROVE  \A t \in Slots : row'[t].irn = row[t].irn
  BY <1>0, <1>1 DEF TypeInv, TypeOK, Row
<1>2. ASSUME NEW w \in Workers, MapRow(w) \/ SaveSubmitted(w)
      PROVE  \A t \in Slots : row'[t].irn = row[t].irn
  <2>1. CASE MapRow(w)
    BY <1>0, <2>1 DEF MapRow, TypeInv, TypeOK, Row
  <2>2. CASE SaveSubmitted(w)
    BY <1>0, <2>2 DEF SaveSubmitted, TypeInv, TypeOK, Row
  <2> QED
    BY <1>2, <2>1, <2>2
<1>3. ASSUME NEW w \in Workers, SaveInvalid(w) \/ InsertRow(w) \/ SaveFailed(w) \/ RowFails(w)
      PROVE  \E s, x : row' = [row EXCEPT ![s].status = x]
  BY <1>3 DEF SaveInvalid, InsertRow, SaveFailed, RowFails, SetRow
<1>4. ASSUME NEW w \in Workers,
             \/ Intake(w) \/ StartRun(w) \/ NoValidRows(w) \/ StartRows(w) \/ KeyTaken(w)
             \/ RunFails(w) \/ FinishRun(w) \/ Submit(w) \/ RowRaises(w) \/ Retry(w) \/ Crash(w)
      PROVE  row' = row
  BY <1>4 DEF Intake, CheckUpload, CreateUpload, Arrive, StartTask, RefuseFile, StartRun,
              NoValidRows, StartRows, KeyTaken, RunFails, FinishRun, Submit, RowRaises,
              Retry, StartRetry, RetryRow, EndRetry, Crash
<1>5. UNCHANGED vars => row' = row
  BY DEF vars
<1> QED
  BY <1>1, <1>2, <1>3, <1>4, <1>5 DEF Next, Run, ProcessRow

LEMMA ClearanceStep ==
  ASSUME TypeInv, IRNInv, [Next]_vars
  PROVE  [Clearance!Next]_Clearance!vars
<1>1. ASSUME NEW w \in Workers, Submit(w)
      PROVE  [Clearance!Next]_Clearance!vars
  <2>1. PICK s \in Slots, hit \in {0, 1}, lost \in Nat :
           /\ issued' = [issued EXCEPT ![s] = issued[s] + hit + lost]
           /\ issued[s] + hit + lost \in Nat
           /\ row' = row
    BY <1>1, SubmitStep
  <2> DEFINE n == issued[s] + hit + lost
  <2>2. issued \in [Slots -> Nat] /\ n >= issued[s]
    BY DEF TypeInv, TypeOK
  <2>3. CASE n = issued[s]
    <3>1. issued' = issued
      BY <2>1, <2>2, <2>3
    <3> QED
      BY <2>1, <3>1, StuttersAbove DEF Stutters
  <2>4. CASE n # issued[s]
    <3>1. issued'[s] = n /\ n > issued[s]
      BY <2>1, <2>2, <2>4
    <3>2. Clearance!Issue(s)
      BY <2>1, <2>2, <3>1 DEF Clearance!Issue
    <3>3. Clearance!Next
      BY <3>2, StepsAbove
    <3> QED
      BY <3>3
  <2> QED
    BY <2>3, <2>4
<1>2. ASSUME NEW w \in Workers, SaveCleared(w)
      PROVE  [Clearance!Next]_Clearance!vars
  <2>1. PICK s \in Slots : s = Slot(w)
    BY <1>2, SlotType DEF SaveCleared, At, InRow
  <2>2. wk[w].resp \in 1 .. issued[s] /\ issued' = issued
    BY <1>2, <2>1 DEF SaveCleared, IRNInv, TypeInv, TypeOK, Worker
  <2>3. [t \in Slots |-> row[t].irn]' = [[t \in Slots |-> row[t].irn] EXCEPT ![s] = wk[w].resp]
    BY <1>2, <2>1 DEF SaveCleared, TypeInv, TypeOK, Row
  <2>4. Clearance!Record(s)
    BY <2>2, <2>3 DEF Clearance!Record
  <2>5. Clearance!Next
    BY <2>4, StepsAbove
  <2> QED
    BY <2>5
<1>3. CASE ~ \E w \in Workers : Submit(w) \/ SaveCleared(w)
  BY <1>3, IRNsStay, RowsKeepIRN, StuttersAbove DEF Stutters
<1> QED
  BY <1>1, <1>2, <1>3

\* The rows of Excel files keep the promise about IRNs that Sage invoices keep:
\* an IRN in the table was issued for that row, and stays.
THEOREM Refinement == Spec => ImplementsClearance
<1>1. Init => Clearance!Init
  BY DEF Init, Clearance!Init, NoRow
<1>2. TypeInv /\ IRNInv /\ [Next]_vars => [Clearance!Next]_Clearance!vars
  BY ClearanceStep
<1> QED
  BY <1>1, <1>2, TypeInvariance, IRNInvariance, PTL
     DEF Spec, ImplementsClearance, Clearance!Spec

-----------------------------------------------------------------------------
(* What a row's status and the unique key guarantee without a lock: the      *)
(* invariant of one slot of the table, and the steps that touch it.          *)

InHand(w, s) == InRow(w) /\ Slot(w) = s
Listed(w, s) == \E e \in wk[w].list : e[1] = s
Holds(w, s) == InHand(w, s) \/ Listed(w, s)

\* A slot without a row has no history and nobody holds it.
Fresh(s) ==
  row[s].status = "ABSENT" =>
    /\ row[s] = NoRow /\ sends[s] = 0 /\ issued[s] = 0
    /\ \A w \in Workers : ~Holds(w, s)

\* A run that saved a row has it for itself until it is done with it.
RunAlone(s) ==
  \A w \in Workers : InHand(w, s) /\ wk[w].job # "retry" =>
    /\ \A v \in Workers : Holds(v, s) => v = w
    /\ row[s].irn = 0
    /\ row[s].status = IF wk[w].pc \in {"mapping", "ready"} THEN "VALID" ELSE "SUBMITTED"
    /\ wk[w].pc = "mapping" => ~row[s].mapped

Overlap(s) == "overlap" \in mishaps[s[1]]
Lost(s) == "lost" \in mishaps[s[1]]

HeldByOne(s) == \A v, w \in Workers : Holds(v, s) /\ Holds(w, s) => v = w

\* A row that a retry has read is still as it was read.
ListedIsFailed(s) ==
  \A w \in Workers : \A e \in wk[w].list :
    e[1] = s => row[s].status = "FAILED" /\ e[2] = row[s].attempts

InHandIsOpen(s) ==
  \A w \in Workers : InHand(w, s) =>
    /\ row[s].attempts = wk[w].attempts
    /\ wk[w].pc = "mapping" => row[s].status \in {"VALID", "FAILED"}
    /\ wk[w].pc = "ready" => row[s].status = "VALID"
    /\ wk[w].pc \in {"sending", "answered"} => row[s].status = "SUBMITTED"

\* No IRN was issued to a row that may still be sent, nor to one in hand whose
\* worker knows of none, unless the outcome of a submission was lost.
OpenHasNone(s) ==
  \/ Lost(s)
  \/ /\ issued[s] <= 1
     /\ row[s].status \in {"ABSENT", "VALID", "INVALID", "FAILED"} => issued[s] = 0
     /\ \A w \in Workers :
          InHand(w, s) /\ (At(w, "sending") \/ (At(w, "answered") /\ wk[w].resp = 0)) =>
            issued[s] = 0

CountsAgree(s) == sends[s] = row[s].attempts /\ row[s].attempts <= MaxAttempts
IRNIsCleared(s) == row[s].irn # 0 => row[s].status = "CLEARED"

Exclusive(s) ==
  HeldByOne(s) /\ ListedIsFailed(s) /\ InHandIsOpen(s) /\ OpenHasNone(s)
  /\ CountsAgree(s) /\ IRNIsCleared(s)

Sound(s) == Fresh(s) /\ RunAlone(s) /\ (Overlap(s) \/ Exclusive(s))
SlotInv == \A s \in Slots : Sound(s)

\* What v does to the slot: nothing, or it lets go of it.
Calm(v, s) ==
  /\ InHand(v, s)' => /\ InHand(v, s) /\ wk'[v].pc = wk[v].pc /\ wk'[v].job = wk[v].job
                      /\ wk'[v].attempts = wk[v].attempts /\ wk'[v].resp = wk[v].resp
  /\ \A e \in wk'[v].list : e[1] = s => e \in wk[v].list

Grown(s) == mishaps[s[1]] \subseteq mishaps'[s[1]]
SameHistory(s) == sends'[s] = sends[s] /\ issued'[s] = issued[s]
AllCalm(s) == \A v \in Workers : Calm(v, s)

\* A step that leaves the row alone.
Quiet(s) == row'[s] = row[s] /\ SameHistory(s) /\ AllCalm(s)

LEMMA MishapsGrow ==
  ASSUME TypeInv, [Next]_vars, NEW u \in Uploads
  PROVE  mishaps[u] \subseteq mishaps'[u]
<1>1. ASSUME NEW v, NEW m, Note(v, m)
      PROVE  mishaps[u] \subseteq mishaps'[u]
  BY <1>1 DEF Note, TypeInv, TypeOK
<1>2. ASSUME NEW w \in Workers, StartRetry(w) \/ Crash(w)
      PROVE  mishaps[u] \subseteq mishaps'[u]
  BY <1>2 DEF StartRetry, Crash
<1>3. ASSUME NEW w \in Workers,
             Intake(w) \/ Run(w) \/ ProcessRow(w) \/ RetryRow(w) \/ EndRetry(w), mishaps' # mishaps
      PROVE  \E v, m : Note(v, m)
  BY <1>3 DEF Intake, CheckUpload, CreateUpload, Arrive, StartTask, RefuseFile, Run, StartRun,
              SaveInvalid, NoValidRows, StartRows, InsertRow, KeyTaken, RunFails, FinishRun,
              ProcessRow, MapRow, SaveSubmitted, Submit, SaveCleared, SaveFailed, RowFails,
              RowRaises, RetryRow, EndRetry
<1>4. CASE UNCHANGED vars
  BY <1>4 DEF vars
<1> QED
  BY <1>1, <1>2, <1>3, <1>4 DEF Next, Retry

\* A worker outside of a row and without a list is calm.
LEMMA OutsideIsCalm ==
  ASSUME TypeInv', NEW w \in Workers, NEW s, wk'[w].pc \in OutOfRow
  PROVE  Calm(w, s)
BY DEF TypeInv, WorkerPlaced, Placed, Calm, InHand, InRow, OutOfRow

LEMMA UnchangedIsCalm ==
  ASSUME NEW w \in Workers, NEW s, wk'[w] = wk[w]
  PROVE  Calm(w, s)
BY DEF Calm, InHand, InRow, Slot

\* Outside of _process_row, only saving a row of the file touches the table.
LEMMA RunIsQuiet ==
  ASSUME TypeInv, TypeInv', NEW w \in Workers, Intake(w) \/ (Run(w) /\ ~InsertRow(w)),
         NEW s \in Slots
  PROVE  /\ AllCalm(s) /\ SameHistory(s)
         /\ \/ row'[s] = row[s]
            \/ row[s].status = "ABSENT" /\ row'[s] = [row[s] EXCEPT !.status = "INVALID"]
<1>1. AllCalm(s) /\ SameHistory(s)
  BY OutsideStep, OutsideIsCalm, UnchangedIsCalm DEF AllCalm, SameHistory
<1>2. CASE SaveInvalid(w)
  <2>1. PICK q \in Rows : /\ row[Place(w, q)].status = "ABSENT"
                          /\ row' = [row EXCEPT ![Place(w, q)].status = "INVALID"]
    BY <1>2 DEF SaveInvalid
  <2> QED
    BY <1>1, <2>1 DEF TypeInv, TypeOK
<1>3. CASE ~SaveInvalid(w)
  <2>1. row' = row
    BY <1>3 DEF Intake, CheckUpload, CreateUpload, Arrive, StartTask, RefuseFile, Run, StartRun,
                NoValidRows, StartRows, KeyTaken, RunFails, FinishRun
  <2> QED
    BY <1>1, <2>1
<1> QED
  BY <1>2, <1>3

\* A worker that is done with its row is calm everywhere: it keeps its list.
LEMMA ReturnIsCalm ==
  ASSUME TypeInv, NEW w \in Workers, InRow(w), NEW ok \in BOOLEAN, Return(w, ok), NEW s
  PROVE  AllCalm(s) /\ wk'[w].pc \in {"rows", "retrying"}
<1>1. wk'[w] = Returned(wk[w], ok) /\ \A v \in Workers : v # w => wk'[v] = wk[v]
  BY ReturnStep
<1>2. wk[w] \in Worker /\ Idle \in Worker
  BY IdlePlaced DEF TypeInv, WorkerPlaced
<1>3. wk'[w].pc \in {"rows", "retrying"} /\ wk'[w].list = wk[w].list
  <2>1. CASE wk[w].job = "retry"
    <3> DEFINE l == wk[w].list
    <3>1. wk'[w] = [Idle EXCEPT !.pc = "retrying", !.job = "retry", !.list = l]
      BY <1>1, <2>1 DEF Returned
    <3> HIDE DEF l
    <3>2. wk'[w].pc = "retrying" /\ wk'[w].list = l
      BY <3>1 DEF Idle
    <3> QED
      BY <3>2 DEF l
  <2>2. CASE wk[w].job # "retry"
    <3> DEFINE c == IF ok THEN wk[w].cleared + 1 ELSE wk[w].cleared
               f == IF ok THEN wk[w].failed ELSE wk[w].failed + 1
    <3>1. wk'[w] = [wk[w] EXCEPT !.pc = "rows", !.num = 0, !.attempts = 0, !.resp = 0,
                                 !.cleared = c, !.failed = f]
      BY <1>1, <2>2 DEF Returned
    <3> HIDE DEF c, f
    <3> QED
      BY <1>2, <3>1 DEF Worker
  <2> QED
    BY <2>1, <2>2
<1>4. Calm(w, s)
  BY <1>3 DEF Calm, InHand, InRow
<1> QED
  BY <1>1, <1>3, <1>4, UnchangedIsCalm DEF AllCalm

\* A worker that is idle again is calm everywhere.
LEMMA FreeIsCalm ==
  ASSUME TypeInv, NEW w \in Workers, Free(w), NEW s
  PROVE  AllCalm(s) /\ wk'[w].pc = "idle"
<1>1. wk'[w] = Idle /\ \A v \in Workers : v # w => wk'[v] = wk[v]
  BY FreeStep
<1>2. Idle.pc = "idle" /\ Idle.list = {}
  BY DEF Idle
<1>3. Calm(w, s)
  BY <1>1, <1>2 DEF Calm, InHand, InRow
<1> QED
  BY <1>1, <1>2, <1>3, UnchangedIsCalm DEF AllCalm

\* How the last step of a row can end.
LEMMA RowEnds ==
  ASSUME TypeInv, NEW w \in Workers, NEW s,
         SaveCleared(w) \/ SaveFailed(w) \/ RowFails(w) \/ RowRaises(w)
  PROVE  AllCalm(s) /\ wk'[w].pc \notin {"mapping", "ready", "sending", "answered"}
<1>1. InRow(w)
  BY DEF SaveCleared, SaveFailed, RowFails, RowRaises, InRow, At
<1>2. CASE Return(w, TRUE) \/ Return(w, FALSE)
  BY <1>1, <1>2, ReturnIsCalm
<1>3. CASE Raise(w)
  BY <1>3, FreeIsCalm DEF Raise
<1> QED
  BY <1>2, <1>3 DEF SaveCleared, SaveFailed, RowFails, RowRaises

\* The steps that go on with the row.
LEMMA RowGoesOn ==
  ASSUME TypeInv, NEW w \in Workers,
         (MapRow(w) /\ Goto(w, "ready")) \/ SaveSubmitted(w)
  PROVE  /\ Slot(w)' = Slot(w) /\ SameBut(wk'[w], wk[w]) /\ wk'[w].todo = wk[w].todo
         /\ wk'[w].resp = wk[w].resp
         /\ \A v \in Workers : v # w => wk'[v] = wk[v]
         /\ MapRow(w) => wk'[w].pc = "ready" /\ wk'[w].attempts = wk[w].attempts
         /\ SaveSubmitted(w) => wk'[w].pc = "sending" /\ wk'[w].attempts = wk[w].attempts + 1
<1>0. wk[w] \in Worker
  BY DEF TypeInv, TypeOK
<1>1. CASE MapRow(w) /\ Goto(w, "ready")
  <2>1. wk'[w] = [wk[w] EXCEPT !.pc = "ready"] /\ \A v \in Workers : v # w => wk'[v] = wk[v]
    BY <1>1 DEF Goto, TypeInv, TypeOK
  <2>2. ~SaveSubmitted(w)
    BY <1>1 DEF SaveSubmitted, MapRow, At
  <2> QED
    BY <1>0, <2>1, <2>2 DEF Slot, SameBut, Worker
<1>2. CASE SaveSubmitted(w)
  <2>1. /\ wk'[w] = [wk[w] EXCEPT !.pc = "sending", !.attempts = @ + 1]
        /\ \A v \in Workers : v # w => wk'[v] = wk[v]
    BY <1>2 DEF SaveSubmitted, TypeInv, TypeOK
  <2>2. ~MapRow(w)
    BY <1>2 DEF SaveSubmitted, MapRow, At
  <2> QED
    BY <1>0, <2>1, <2>2 DEF Slot, SameBut, Worker
<1> QED
  BY <1>1, <1>2

\* _process_row touches only the row in hand.
LEMMA ProcessIsQuiet ==
  ASSUME TypeInv, NEW w \in Workers, ProcessRow(w), NEW s \in Slots, Slot(w) # s
  PROVE  Quiet(s)
<1>1. /\ row'[s] = row[s] /\ SameHistory(s)
  BY DEF ProcessRow, MapRow, SaveSubmitted, Submit, SaveCleared, SaveFailed, RowFails, RowRaises,
         SetRow, SameHistory, TypeInv, TypeOK
<1>2. CASE (MapRow(w) /\ Goto(w, "ready")) \/ SaveSubmitted(w)
  <2>1. Slot(w)' # s /\ wk'[w].list = wk[w].list /\ \A v \in Workers : v # w => wk'[v] = wk[v]
    BY <1>2, RowGoesOn DEF SameBut
  <2>2. Calm(w, s)
    BY <2>1 DEF Calm, InHand
  <2> QED
    BY <1>1, <2>1, <2>2, UnchangedIsCalm DEF Quiet, AllCalm
<1>3. CASE MapRow(w) /\ Return(w, TRUE)
  <2>1. InRow(w)
    BY <1>3 DEF MapRow, At, InRow
  <2> QED
    BY <1>1, <1>3, <2>1, ReturnIsCalm DEF Quiet
<1>4. CASE Submit(w)
  <2>1. Slot(w)' # s /\ wk'[w].list = wk[w].list /\ \A v \in Workers : v # w => wk'[v] = wk[v]
    BY <1>4, SubmitStep DEF SameBut
  <2>2. Calm(w, s)
    BY <2>1 DEF Calm, InHand
  <2> QED
    BY <1>1, <2>1, <2>2, UnchangedIsCalm DEF Quiet, AllCalm
<1>5. CASE SaveCleared(w) \/ SaveFailed(w) \/ RowFails(w) \/ RowRaises(w)
  BY <1>1, <1>5, RowEnds DEF Quiet
<1> QED
  BY <1>2, <1>3, <1>4, <1>5 DEF ProcessRow, MapRow

\* A retry touches no row, but it may take one.
LEMMA RetryIsQuiet ==
  ASSUME TypeInv, NEW w \in Workers, Retry(w) \/ Crash(w), NEW s \in Slots
  PROVE  \/ Quiet(s)
         \/ StartRetry(w) /\ s \in Due
         \/ RetryRow(w) /\ Slot(w)' = s
<1>1. row' = row /\ SameHistory(s)
  BY DEF Retry, StartRetry, RetryRow, EndRetry, Crash, SameHistory
<1>2. CASE StartRetry(w) /\ s \notin Due
  <2>1. /\ wk'[w].pc = "retrying"
        /\ wk'[w].list = {<<q, row[q].attempts>> : q \in Due}
        /\ \A v \in Workers : v # w => wk'[v] = wk[v]
    BY <1>2, RetryStep DEF StartRetry, RetryRow, At
  <2>2. Calm(w, s)
    BY <1>2, <2>1 DEF Calm, InHand, InRow
  <2> QED
    BY <1>1, <2>1, <2>2, UnchangedIsCalm DEF Quiet, AllCalm
<1>3. CASE RetryRow(w) /\ Slot(w)' # s
  <2>1. /\ wk'[w].list \subseteq wk[w].list
        /\ \A v \in Workers : v # w => wk'[v] = wk[v]
    BY ZenonT(60), <1>3, RetryStep DEF StartRetry, RetryRow, At
  <2>2. Calm(w, s)
    BY <1>3, <2>1 DEF Calm, InHand
  <2> QED
    BY <1>1, <2>1, <2>2, UnchangedIsCalm DEF Quiet, AllCalm
<1>4. CASE EndRetry(w) \/ Crash(w)
  BY <1>1, <1>4, FreeIsCalm DEF EndRetry, Crash, Quiet
<1> QED
  BY <1>2, <1>3, <1>4 DEF Retry

-----------------------------------------------------------------------------
(* Each step keeps the invariant of each slot.                               *)

\* A slot that a step leaves alone stays sound, for whoever still holds it.
LEMMA CalmHolds ==
  ASSUME NEW s, AllCalm(s), NEW w \in Workers, Holds(w, s)'
  PROVE  Holds(w, s)
BY DEF AllCalm, Calm, Holds, Listed

LEMMA QuietIsSound ==
  ASSUME NEW s \in Slots, Sound(s), Quiet(s), Grown(s)
  PROVE  Sound(s)'
<1>1. Fresh(s)'
  BY CalmHolds DEF Sound, Fresh, Quiet, SameHistory
<1>2. RunAlone(s)'
  <2> SUFFICES ASSUME NEW w \in Workers, InHand(w, s)', wk'[w].job # "retry"
               PROVE  /\ \A v \in Workers : Holds(v, s)' => v = w
                      /\ row'[s].irn = 0
                      /\ row'[s].status = IF wk'[w].pc \in {"mapping", "ready"} THEN "VALID" ELSE "SUBMITTED"
                      /\ wk'[w].pc = "mapping" => ~row'[s].mapped
    BY DEF RunAlone
  <2>1. InHand(w, s) /\ wk'[w].pc = wk[w].pc /\ wk'[w].job = wk[w].job /\ row'[s] = row[s]
    BY DEF Quiet, AllCalm, Calm
  <2> QED
    BY <2>1, CalmHolds DEF Sound, RunAlone, Quiet
<1>3. Overlap(s) => Overlap(s)'
  BY DEF Overlap, Grown
<1>4. ASSUME Exclusive(s)
      PROVE  Exclusive(s)'
  <2>1. HeldByOne(s)'
    BY <1>4, CalmHolds DEF Quiet, Exclusive, HeldByOne
  <2>2. ListedIsFailed(s)'
    BY <1>4 DEF Quiet, AllCalm, Calm, Exclusive, ListedIsFailed
  <2>3. InHandIsOpen(s)'
    BY <1>4 DEF Quiet, AllCalm, Calm, Exclusive, InHandIsOpen
  <2>4. OpenHasNone(s)'
    BY <1>4 DEF Quiet, SameHistory, Grown, AllCalm, Calm, Exclusive, OpenHasNone, Lost, At
  <2>5. CountsAgree(s)' /\ IRNIsCleared(s)'
    BY <1>4 DEF Quiet, SameHistory, Exclusive, CountsAgree, IRNIsCleared
  <2> QED
    BY <2>1, <2>2, <2>3, <2>4, <2>5 DEF Exclusive
<1> QED
  BY <1>1, <1>2, <1>3, <1>4 DEF Sound

\* Of a slot that had no row nobody has anything in hand, now or after a step
\* that lets it be.
LEMMA SaveInvalidIsSound ==
  ASSUME TypeInv, NEW s \in Slots, Sound(s), AllCalm(s), SameHistory(s), Grown(s),
         row[s].status = "ABSENT", row'[s] = [row[s] EXCEPT !.status = "INVALID"]
  PROVE  Sound(s)'
<1>1. /\ row[s] = NoRow /\ row'[s].status = "INVALID" /\ row'[s].irn = 0 /\ row'[s].attempts = 0
      /\ sends'[s] = 0 /\ issued'[s] = 0
      /\ \A w \in Workers : ~Holds(w, s)'
  BY CalmHolds DEF Sound, Fresh, NoRow, SameHistory
<1>2. \A w \in Workers : ~InHand(w, s)' /\ \A e \in wk'[w].list : e[1] # s
  BY <1>1 DEF Holds, Listed
<1>3. Exclusive(s)'
  BY <1>1, <1>2, IntakeAssumption DEF Exclusive, HeldByOne, ListedIsFailed, InHandIsOpen, OpenHasNone,
     CountsAgree, IRNIsCleared
<1>4. RunAlone(s)' /\ Fresh(s)'
  BY <1>1, <1>2 DEF RunAlone, Fresh
<1> QED
  BY <1>3, <1>4 DEF Sound

LEMMA InsertIsSound ==
  ASSUME TypeInv, NEW w \in Workers, InsertRow(w), NEW s \in Slots, Sound(s), Grown(s)
  PROVE  Sound(s)'
<1>1. PICK q \in Rows :
        /\ At(w, "rows")
        /\ row[Place(w, q)].status = "ABSENT" /\ row' = [row EXCEPT ![Place(w, q)].status = "VALID"]
        /\ wk'[w].pc = "mapping" /\ wk'[w].up = wk[w].up /\ wk'[w].num = Number(q)
        /\ SameBut(wk'[w], wk[w]) /\ wk'[w].attempts = wk[w].attempts
        /\ \A v \in Workers : v # w => wk'[v] = wk[v]
        /\ UNCHANGED <<issued, sends>>
  BY InsertStep
<1>2. Slot(w)' = Place(w, q)
  BY <1>1 DEF Slot, Place, Up
<1>3. wk[w].list = {} /\ wk'[w].list = {} /\ wk[w].attempts = 0 /\ wk[w].job # "retry"
      /\ wk'[w].job # "retry" /\ ~InRow(w)
  BY <1>1 DEF TypeInv, WorkerPlaced, Placed, At, SameBut, InRow
<1>4. CASE Place(w, q) # s
  <2>1. Calm(w, s)
    BY <1>1, <1>2, <1>3, <1>4 DEF Calm, InHand
  <2>2. Quiet(s)
    BY <1>1, <1>4, <2>1, UnchangedIsCalm DEF Quiet, AllCalm, SameHistory, TypeInv, TypeOK
  <2> QED
    BY <2>2, QuietIsSound
<1>5. CASE Place(w, q) = s
  <2>1. /\ row[s] = NoRow /\ sends[s] = 0 /\ issued[s] = 0
        /\ \A v \in Workers : ~Holds(v, s)
    BY <1>1, <1>5 DEF Sound, Fresh
  <2>2. /\ row'[s].status = "VALID" /\ row'[s].irn = 0 /\ row'[s].attempts = 0 /\ ~row'[s].mapped
        /\ sends'[s] = 0 /\ issued'[s] = 0
    BY <1>1, <1>5, <2>1 DEF NoRow, TypeInv, TypeOK
  <2>3. \A v \in Workers : v # w => ~Holds(v, s)' /\ ~InHand(v, s)'
    BY <1>1, <2>1 DEF Holds, InHand, Listed, InRow, Slot
  <2>4. \A v \in Workers : \A e \in wk'[v].list : e[1] # s
    BY <1>1, <1>3, <2>1 DEF Holds, Listed
  <2>5. wk'[w].pc = "mapping" /\ wk'[w].attempts = 0
    BY <1>1, <1>3
  <2>6. Exclusive(s)'
    BY <2>2, <2>3, <2>4, <2>5, IntakeAssumption
       DEF Exclusive, HeldByOne, ListedIsFailed, InHandIsOpen, OpenHasNone, CountsAgree,
           IRNIsCleared, At
  <2>7. RunAlone(s)' /\ Fresh(s)'
    BY <2>2, <2>3, <2>5 DEF RunAlone, Fresh
  <2> QED
    BY <2>6, <2>7 DEF Sound
<1> QED
  BY <1>4, <1>5

\* What is known of a row in hand.
LEMMA InHandFacts ==
  ASSUME TypeInv, NEW w \in Workers, NEW s \in Slots, Sound(s), InHand(w, s)
  PROVE  /\ row[s] \in Row /\ row[s].status # "ABSENT"
         /\ ~Listed(w, s)
         /\ \A v \in Workers : InHand(v, s) /\ wk[v].job # "retry" => v = w
         /\ wk[w].job # "retry" => \A v \in Workers : Holds(v, s) => v = w
         /\ Exclusive(s) => \A v \in Workers : Holds(v, s) => v = w
<1>1. Holds(w, s) /\ row[s] \in Row /\ row[s].status # "ABSENT"
  BY DEF Holds, Sound, Fresh, TypeInv, TypeOK
<1>2. ~Listed(w, s)
  BY DEF InHand, InRow, Slot, Listed, TypeInv, WorkerPlaced, Placed, Busy
<1> QED
  BY <1>1, <1>2 DEF Sound, RunAlone, Exclusive, HeldByOne, Holds

\* The worker has let go of its row.
LEMMA LetGoIsSound ==
  ASSUME TypeInv, NEW w \in Workers, NEW s \in Slots, Sound(s), InHand(w, s), Grown(s),
         AllCalm(s), wk'[w].pc \notin {"mapping", "ready", "sending", "answered"},
         SameHistory(s), row'[s].status # "ABSENT", row'[s].attempts = row[s].attempts,
         Exclusive(s) => (row'[s].irn # 0 => row'[s].status = "CLEARED"),
         Exclusive(s) => \/ Lost(s)'
                         \/ /\ issued[s] <= 1
                            /\ row'[s].status \in {"VALID", "INVALID", "FAILED"} => issued[s] = 0
  PROVE  Sound(s)'
<1>1. ~InHand(w, s)' /\ ~Holds(w, s)'
  BY InHandFacts, CalmHolds DEF InHand, InRow, Holds, AllCalm, Calm, Listed
<1>2. \A v \in Workers : InHand(v, s)' => InHand(v, s) /\ v # w /\ wk'[v].job = wk[v].job
  BY <1>1 DEF AllCalm, Calm
<1>3. RunAlone(s)'
  BY <1>2, InHandFacts DEF RunAlone
<1>4. Fresh(s)'
  BY DEF Fresh
<1>5. Overlap(s) => Overlap(s)'
  BY DEF Overlap, Grown
<1>6. ASSUME Exclusive(s)
      PROVE  Exclusive(s)'
  <2>1. \A v \in Workers : ~Holds(v, s)'
    BY <1>1, <1>6, InHandFacts, CalmHolds
  <2>2. HeldByOne(s)' /\ ListedIsFailed(s)' /\ InHandIsOpen(s)'
    BY <2>1 DEF Holds, Listed, HeldByOne, ListedIsFailed, InHandIsOpen
  <2>3. OpenHasNone(s)'
    BY <1>6, <2>1 DEF OpenHasNone, SameHistory, Holds
  <2>4. CountsAgree(s)' /\ IRNIsCleared(s)'
    BY <1>6 DEF Exclusive, CountsAgree, IRNIsCleared, SameHistory
  <2> QED
    BY <2>2, <2>3, <2>4 DEF Exclusive
<1> QED
  BY <1>3, <1>4, <1>5, <1>6 DEF Sound

\* The worker goes on with its row.
LEMMA GoOnIsSound ==
  ASSUME TypeInv, NEW w \in Workers, NEW s \in Slots, Sound(s), InHand(w, s), Grown(s),
         \A v \in Workers : v # w => wk'[v] = wk[v],
         Slot(w)' = s, wk'[w].list = wk[w].list, wk'[w].job = wk[w].job,
         wk'[w].pc \in {"ready", "sending", "answered"},
         row'[s].status = IF wk'[w].pc = "ready" THEN "VALID" ELSE "SUBMITTED",
         row'[s].irn = row[s].irn,
         Exclusive(s) =>
           /\ row'[s].irn = 0
           /\ row'[s].attempts = wk'[w].attempts /\ sends'[s] = row'[s].attempts
           /\ row'[s].attempts <= MaxAttempts
           /\ \/ Lost(s)'
              \/ /\ issued'[s] <= 1
                 /\ (wk'[w].pc = "answered" /\ wk'[w].resp # 0) \/ issued'[s] = 0
  PROVE  Sound(s)'
<1>0. \A v \in Workers : Holds(v, s)' <=> Holds(v, s)
  <2>1. \A v \in Workers : v # w => (Holds(v, s)' <=> Holds(v, s))
    BY DEF Holds, InHand, Listed, InRow, Slot
  <2>2. Holds(w, s) /\ Holds(w, s)'
    BY DEF Holds, InHand, InRow
  <2> QED
    BY <2>1, <2>2
<1>1. \A v \in Workers : v # w => (InHand(v, s)' <=> InHand(v, s))
  BY DEF InHand, InRow, Slot
<1>2. RunAlone(s)'
  <2> SUFFICES ASSUME NEW v \in Workers, InHand(v, s)', wk'[v].job # "retry"
               PROVE  /\ \A x \in Workers : Holds(x, s)' => x = v
                      /\ row'[s].irn = 0
                      /\ row'[s].status = IF wk'[v].pc \in {"mapping", "ready"} THEN "VALID" ELSE "SUBMITTED"
                      /\ wk'[v].pc = "mapping" => ~row'[s].mapped
    BY DEF RunAlone
  <2>1. v = w
    BY <1>1, InHandFacts
  <2>2. /\ \A x \in Workers : Holds(x, s) => x = w
        /\ row[s].irn = 0
    BY <2>1 DEF Sound, RunAlone
  <2> QED
    BY <1>0, <2>1, <2>2
<1>3. Fresh(s)'
  BY DEF Fresh
<1>4. Overlap(s) => Overlap(s)'
  BY DEF Overlap, Grown
<1>5. ASSUME Exclusive(s)
      PROVE  Exclusive(s)'
  <2>1. \A v \in Workers : Holds(v, s)' => v = w
    BY <1>0, <1>5, InHandFacts
  <2>2. \A v \in Workers : (InHand(v, s)' => v = w) /\ ~Listed(v, s)'
    BY <2>1, InHandFacts DEF Holds, Listed
  <2>3. HeldByOne(s)' /\ ListedIsFailed(s)'
    BY <2>1, <2>2 DEF HeldByOne, ListedIsFailed, Listed
  <2>4. InHandIsOpen(s)'
    BY <1>5, <2>2 DEF InHandIsOpen
  <2>5. OpenHasNone(s)'
    BY <1>5, <2>2 DEF OpenHasNone, At
  <2>6. CountsAgree(s)' /\ IRNIsCleared(s)'
    BY <1>5 DEF CountsAgree, IRNIsCleared
  <2> QED
    BY <2>3, <2>4, <2>5, <2>6 DEF Exclusive
<1> QED
  BY <1>2, <1>3, <1>4, <1>5 DEF Sound

\* Of a row in hand, as long as nobody else was given it.
LEMMA ExclusiveInHand ==
  ASSUME TypeInv, NEW w \in Workers, NEW s \in Slots, InHand(w, s), Exclusive(s)
  PROVE  /\ row[s].irn = 0 /\ row[s].attempts = wk[w].attempts
         /\ sends[s] = row[s].attempts /\ row[s].attempts <= MaxAttempts
         /\ wk[w].pc \in {"mapping", "ready"} => Lost(s) \/ issued[s] = 0
         /\ wk[w].pc = "sending" \/ (wk[w].pc = "answered" /\ wk[w].resp = 0) =>
              Lost(s) \/ issued[s] = 0
         /\ Lost(s) \/ issued[s] <= 1
BY DEF Exclusive, InHandIsOpen, IRNIsCleared, CountsAgree, OpenHasNone, InHand, InRow, At

LEMMA MapRowIsSound ==
  ASSUME TypeInv, NEW w \in Workers, MapRow(w), NEW s \in Slots, s = Slot(w), Sound(s), Grown(s)
  PROVE  Sound(s)'
<1>1. InHand(w, s) /\ wk[w].pc = "mapping"
  BY DEF MapRow, At, InHand, InRow
<1>2. /\ row'[s].status = "VALID" /\ row'[s].irn = row[s].irn /\ row'[s].attempts = row[s].attempts
      /\ sends' = sends /\ issued' = issued /\ mishaps' = mishaps
  BY DEF MapRow, TypeInv, TypeOK, Row
<1>3. Lost(s)' <=> Lost(s)
  BY <1>2 DEF Lost
<1>4. CASE Return(w, TRUE)
  <2>1. AllCalm(s) /\ wk'[w].pc \notin {"mapping", "ready", "sending", "answered"}
    BY <1>1, <1>4, ReturnIsCalm DEF InHand
  <2> QED
    BY <1>1, <1>2, <1>3, <2>1, ExclusiveInHand, LetGoIsSound DEF SameHistory
<1>5. CASE Goto(w, "ready")
  <2>1. /\ Slot(w)' = s /\ wk'[w].list = wk[w].list /\ wk'[w].job = wk[w].job
        /\ \A v \in Workers : v # w => wk'[v] = wk[v]
        /\ wk'[w].pc = "ready" /\ wk'[w].attempts = wk[w].attempts
    BY <1>5, RowGoesOn DEF SameBut
  <2> QED
    BY <1>1, <1>2, <1>3, <2>1, ExclusiveInHand, GoOnIsSound
<1> QED
  BY <1>4, <1>5 DEF MapRow

LEMMA SaveSubmittedIsSound ==
  ASSUME TypeInv, NEW w \in Workers, SaveSubmitted(w), NEW s \in Slots, s = Slot(w),
         Sound(s), Grown(s)
  PROVE  Sound(s)'
<1>1. InHand(w, s) /\ wk[w].pc = "ready" /\ wk[w].attempts \in Nat /\ wk[w].attempts < MaxAttempts
  BY DEF SaveSubmitted, At, InHand, InRow, TypeInv, TypeOK, WorkerPlaced, Worker, Placed
<1>2. /\ row'[s].status = "SUBMITTED" /\ row'[s].irn = row[s].irn
      /\ row'[s].attempts = wk[w].attempts + 1
      /\ sends'[s] = sends[s] + 1 /\ issued' = issued /\ mishaps' = mishaps
  BY DEF SaveSubmitted, TypeInv, TypeOK, Row
<1>3. Lost(s)' <=> Lost(s)
  BY <1>2 DEF Lost
<1>4. /\ Slot(w)' = s /\ wk'[w].list = wk[w].list /\ wk'[w].job = wk[w].job
      /\ \A v \in Workers : v # w => wk'[v] = wk[v]
      /\ wk'[w].pc = "sending" /\ wk'[w].attempts = wk[w].attempts + 1
  BY RowGoesOn DEF SameBut
<1>5. Exclusive(s) => /\ row'[s].irn = 0
                      /\ row'[s].attempts = wk'[w].attempts /\ sends'[s] = row'[s].attempts
                      /\ row'[s].attempts <= MaxAttempts
                      /\ Lost(s)' \/ issued'[s] = 0
  BY <1>1, <1>2, <1>3, <1>4, ExclusiveInHand, IntakeAssumption
<1> QED
  BY <1>1, <1>2, <1>4, <1>5, GoOnIsSound

LEMMA SubmitIsSound ==
  ASSUME TypeInv, NEW w \in Workers, Submit(w), NEW s \in Slots, s = Slot(w), Sound(s), Grown(s)
  PROVE  Sound(s)'
<1>1. PICK hit \in {0, 1}, lost \in Nat :
        /\ At(w, "sending")
        /\ issued' = [issued EXCEPT ![s] = issued[s] + hit + lost]
        /\ Slot(w)' = s /\ At(w, "answered")' /\ SameBut(wk'[w], wk[w])
        /\ wk'[w].attempts = wk[w].attempts
        /\ wk'[w].resp = IF hit = 1 THEN issued[s] + hit + lost ELSE 0
        /\ \A v \in Workers : v # w => wk'[v] = wk[v]
        /\ Note(Up(w), IF lost > 0 THEN {"lost"} ELSE {})
        /\ UNCHANGED <<row, sends>>
  BY SubmitStep
<1>2. InHand(w, s) /\ wk[w].pc = "sending"
  BY <1>1 DEF At, InHand, InRow
<1>3. Up(w) = s[1] /\ Up(w) \in Uploads
  BY <1>2, SlotType DEF Slot, Up, InHand
<1>4. issued[s] \in Nat /\ issued'[s] = issued[s] + hit + lost
  BY <1>1 DEF TypeInv, TypeOK
<1>5. (lost > 0 => Lost(s)') /\ (Lost(s) => Lost(s)')
  BY <1>1, <1>3 DEF Note, Lost, TypeInv, TypeOK
<1>6. /\ Slot(w)' = s /\ wk'[w].list = wk[w].list /\ wk'[w].job = wk[w].job
      /\ wk'[w].pc = "answered" /\ row' = row /\ sends' = sends
  BY <1>1 DEF SameBut, At
<1>7. row[s].status = "SUBMITTED" \/ ~Exclusive(s)
  BY <1>2 DEF Exclusive, InHandIsOpen
<1>8. CASE Exclusive(s)
  <2>1. row'[s].irn = 0 /\ row'[s].attempts = wk'[w].attempts /\ sends'[s] = row'[s].attempts
        /\ row'[s].attempts <= MaxAttempts
    BY <1>1, <1>2, <1>6, <1>8, ExclusiveInHand
  <2>2. \/ Lost(s)'
        \/ /\ issued'[s] <= 1
           /\ wk'[w].resp # 0 \/ issued'[s] = 0
    <3>1. CASE Lost(s) \/ lost > 0
      BY <1>5, <3>1
    <3>2. CASE ~Lost(s) /\ lost = 0
      <4>1. issued[s] = 0
        BY <1>2, <1>8, <3>2, ExclusiveInHand
      <4>2. issued'[s] = hit /\ wk'[w].resp = IF hit = 1 THEN hit ELSE 0
        BY <1>1, <1>4, <3>2, <4>1
      <4> QED
        BY <4>2
    <3> QED
      BY <3>1, <3>2
  <2> QED
    BY <1>1, <1>2, <1>6, <1>7, <1>8, <2>1, <2>2, GoOnIsSound
<1>9. CASE ~Exclusive(s)
  <2>1. Overlap(s)' /\ Fresh(s)'
    BY <1>2, <1>6, <1>9, InHandFacts DEF Sound, Fresh, Grown, Overlap
  <2>2. RunAlone(s)'
    <3> SUFFICES ASSUME NEW v \in Workers, InHand(v, s)', wk'[v].job # "retry"
                 PROVE  /\ \A x \in Workers : Holds(x, s)' => x = v
                        /\ row'[s].irn = 0
                        /\ row'[s].status = IF wk'[v].pc \in {"mapping", "ready"} THEN "VALID" ELSE "SUBMITTED"
                        /\ wk'[v].pc = "mapping" => ~row'[s].mapped
      BY DEF RunAlone
    <3>1. \A x \in Workers : x # w => (Holds(x, s)' <=> Holds(x, s)) /\ (InHand(x, s)' <=> InHand(x, s))
      BY <1>1 DEF Holds, InHand, Listed, InRow, Slot
    <3>2. v = w
      BY <1>1, <1>2, <3>1, InHandFacts
    <3> QED
      BY <1>2, <1>6, <3>1, <3>2 DEF Sound, RunAlone
  <2> QED
    BY <2>1, <2>2 DEF Sound
<1> QED
  BY <1>8, <1>9

LEMMA RowEndsSoundly ==
  ASSUME TypeInv, NEW w \in Workers,
         SaveCleared(w) \/ SaveFailed(w) \/ RowFails(w) \/ RowRaises(w),
         NEW s \in Slots, s = Slot(w), Sound(s), Grown(s)
  PROVE  Sound(s)'
<1>1. InHand(w, s) /\ row[s] \in Row /\ row[s].status # "ABSENT"
  <2>1. InHand(w, s)
    BY DEF SaveCleared, SaveFailed, RowFails, RowRaises, At, InHand, InRow
  <2> QED
    BY <2>1, InHandFacts
<1>2. AllCalm(s) /\ wk'[w].pc \notin {"mapping", "ready", "sending", "answered"}
  BY RowEnds
<1>3. sends' = sends /\ issued' = issued /\ (Lost(s) => Lost(s)')
  BY DEF SaveCleared, SaveFailed, RowFails, RowRaises, Grown, Lost
<1>4. CASE SaveCleared(w)
  <2>1. row'[s].status = "CLEARED" /\ row'[s].attempts = row[s].attempts
    BY <1>1, <1>4 DEF SaveCleared, TypeInv, TypeOK, Row
  <2> QED
    BY <1>1, <1>2, <1>3, <2>1, ExclusiveInHand, LetGoIsSound DEF SameHistory
<1>5. CASE SaveFailed(w) \/ RowFails(w)
  <2>1. row'[s].status = "FAILED" /\ row'[s].attempts = row[s].attempts /\ row'[s].irn = row[s].irn
    BY <1>1, <1>5 DEF SaveFailed, RowFails, SetRow, TypeInv, TypeOK, Row
  <2>2. Exclusive(s) => Lost(s)' \/ issued[s] = 0
    <3>1. CASE wk[w].pc # "answered" \/ wk[w].resp = 0
      BY <1>1, <1>3, <3>1, ExclusiveInHand DEF InHand, InRow
    <3>2. CASE wk[w].pc = "answered" /\ wk[w].resp # 0
      <4>1. Up(w) = s[1] /\ Up(w) \in Uploads
        BY <1>1, SlotType DEF Up, Slot, InHand
      <4>2. Note(Up(w), {"lost"})
        BY <1>5, <3>2 DEF SaveFailed, RowFails
      <4> QED
        BY <4>1, <4>2 DEF Note, Lost, TypeInv, TypeOK
    <3> QED
      BY <3>1, <3>2
  <2> QED
    BY <1>1, <1>2, <1>3, <2>1, <2>2, ExclusiveInHand, LetGoIsSound DEF SameHistory
<1>6. CASE RowRaises(w)
  <2>1. row' = row
    BY <1>6 DEF RowRaises
  <2>2. Exclusive(s) => \/ Lost(s)'
                        \/ issued[s] <= 1
                           /\ (row[s].status \in {"VALID", "INVALID", "FAILED"} => issued[s] = 0)
    BY <1>3 DEF Exclusive, OpenHasNone
  <2> QED
    BY <1>1, <1>2, <1>3, <2>1, <2>2, ExclusiveInHand, LetGoIsSound DEF SameHistory
<1> QED
  BY <1>4, <1>5, <1>6

LEMMA StartRetryIsSound ==
  ASSUME TypeInv, NEW w \in Workers, StartRetry(w), NEW s \in Due, Sound(s), Grown(s)
  PROVE  Sound(s)'
<1>1. /\ wk[w].pc = "idle" /\ wk'[w].pc = "retrying"
      /\ wk'[w].list = {<<q, row[q].attempts>> : q \in Due}
      /\ \A v \in Workers : v # w => wk'[v] = wk[v]
      /\ row' = row /\ sends' = sends /\ issued' = issued
  BY RetryStep DEF StartRetry, RetryRow, At
<1>2. s \in Slots /\ row[s].status = "FAILED" /\ row[s] \in Row
  BY DEF Due, TypeInv, TypeOK
<1>3. Overlap(s) => Overlap(s)'
  BY DEF Overlap, Grown
<1>4. \A v \in Workers : InHand(v, s) => wk[v].job = "retry"
  BY <1>2 DEF Sound, RunAlone
<1>5. \A v \in Workers : InHand(v, s)' => InHand(v, s) /\ v # w /\ wk'[v] = wk[v]
  BY <1>1 DEF InHand, InRow, Slot
<1>6. RunAlone(s)' /\ Fresh(s)'
  BY <1>1, <1>2, <1>4, <1>5 DEF RunAlone, Fresh
<1>7. CASE \E v \in Workers : Picked(v, s)
  <2>1. s[1] \in Uploads
    BY <1>2 DEF Slots
  <2>2. \E q \in {t \in Slots : row[t].status = "FAILED" /\ row[t].attempts < MaxAttempts
                                /\ row[t].mapped}, v \in Workers : q[1] = s[1] /\ Picked(v, q)
    BY <1>7 DEF Due
  <2>3. Overlap(s)'
    BY <2>1, <2>2 DEF StartRetry, Overlap
  <2> QED
    BY <1>6, <2>3 DEF Sound
<1>8. CASE ~ \E v \in Workers : Picked(v, s)
  <2>1. \A v \in Workers : Listed(v, s) => wk[v].job = "retry"
    BY DEF Listed, TypeInv, WorkerPlaced, Placed
  <2>2. \A v \in Workers : ~Holds(v, s)
    BY <1>4, <1>8, <2>1 DEF Picked, Holds, InHand, Listed
  <2>3. \A v \in Workers : Holds(v, s)' => v = w
    BY <1>1, <2>2 DEF Holds, InHand, InRow, Slot, Listed
  <2>4. \A v \in Workers : ~InHand(v, s)'
    BY <1>5, <2>2 DEF Holds
  <2>5. \A v \in Workers : \A e \in wk'[v].list : e[1] = s => e[2] = row[s].attempts
    BY <1>1, <2>3 DEF Holds, Listed
  <2>6. ASSUME Exclusive(s)
        PROVE  Exclusive(s)'
    <3>1. HeldByOne(s)' /\ ListedIsFailed(s)' /\ InHandIsOpen(s)'
      BY <1>1, <1>2, <2>3, <2>4, <2>5 DEF HeldByOne, ListedIsFailed, InHandIsOpen
    <3>2. OpenHasNone(s)' /\ CountsAgree(s)' /\ IRNIsCleared(s)'
      BY <1>1, <2>4, <2>6 DEF Exclusive, OpenHasNone, CountsAgree, IRNIsCleared, Grown, Lost
    <3> QED
      BY <3>1, <3>2 DEF Exclusive
  <2> QED
    BY <1>3, <1>6, <2>6 DEF Sound
<1> QED
  BY <1>7, <1>8

LEMMA RetryRowIsSound ==
  ASSUME TypeInv, TypeInv', NEW w \in Workers, RetryRow(w), NEW s \in Slots, Slot(w)' = s,
         Sound(s), Grown(s)
  PROVE  Sound(s)'
<1>1. PICK e \in wk[w].list :
        /\ wk[w].pc = "retrying" /\ wk'[w].pc = "mapping" /\ wk'[w].job = "retry"
        /\ wk'[w].list = wk[w].list \ {e} /\ e[1] = s /\ wk'[w].attempts = e[2]
        /\ \A v \in Workers : v # w => wk'[v] = wk[v]
  BY RetryStep DEF StartRetry, RetryRow, At
<1>2. row' = row /\ sends' = sends /\ issued' = issued
  BY DEF RetryRow
<1>3. InHand(w, s)' /\ Holds(w, s) /\ ~Listed(w, s)'
  <2>1. \A f \in wk[w].list : f[1] = s => f = e
    BY <1>1 DEF TypeInv, WorkerPlaced, Placed
  <2> QED
    BY <1>1, <2>1 DEF InHand, InRow, Holds, Listed
<1>4. \A v \in Workers : v # w =>
        (Holds(v, s)' <=> Holds(v, s)) /\ (InHand(v, s)' <=> InHand(v, s))
  BY <1>1 DEF Holds, InHand, InRow, Slot, Listed
<1>5. RunAlone(s)'
  <2>1. \A v \in Workers : InHand(v, s) /\ wk[v].job # "retry" => v = w
    BY <1>3 DEF Sound, RunAlone
  <2> QED
    BY <1>1, <1>4, <2>1 DEF RunAlone
<1>6. Fresh(s)'
  BY <1>2, <1>3 DEF Sound, Fresh
<1>7. Overlap(s) => Overlap(s)'
  BY DEF Overlap, Grown
<1>8. ASSUME Exclusive(s)
      PROVE  Exclusive(s)'
  <2>1. \A v \in Workers : Holds(v, s)' => v = w
    BY <1>3, <1>4, <1>8 DEF Exclusive, HeldByOne
  <2>2. \A v \in Workers : (InHand(v, s)' => v = w) /\ ~Listed(v, s)'
    BY <1>3, <2>1 DEF Holds
  <2>3. row[s].status = "FAILED" /\ e[2] = row[s].attempts
    BY <1>1, <1>8 DEF Exclusive, ListedIsFailed
  <2>4. HeldByOne(s)' /\ ListedIsFailed(s)'
    BY <2>1, <2>2 DEF HeldByOne, ListedIsFailed, Listed
  <2>5. InHandIsOpen(s)'
    BY <1>1, <1>2, <2>2, <2>3 DEF InHandIsOpen
  <2>6. OpenHasNone(s)' /\ CountsAgree(s)' /\ IRNIsCleared(s)'
    BY <1>1, <1>2, <1>8, <2>2 DEF Exclusive, OpenHasNone, CountsAgree, IRNIsCleared, Grown, Lost, At
  <2> QED
    BY <2>4, <2>5, <2>6 DEF Exclusive
<1> QED
  BY <1>5, <1>6, <1>7, <1>8 DEF Sound

LEMMA SoundStep ==
  ASSUME TypeInv, [Next]_vars, NEW s \in Slots, Sound(s)
  PROVE  Sound(s)'
<1>1. TypeInv' /\ Grown(s)
  <2>1. s[1] \in Uploads
    BY DEF Slots
  <2> QED
    BY <2>1, TypeStep, MishapsGrow DEF Grown
<1>2. ASSUME NEW w \in Workers, Intake(w) \/ (Run(w) /\ ~InsertRow(w))
      PROVE  Sound(s)'
  BY <1>1, <1>2, RunIsQuiet, QuietIsSound, SaveInvalidIsSound DEF Quiet
<1>3. ASSUME NEW w \in Workers, InsertRow(w)
      PROVE  Sound(s)'
  BY <1>1, <1>3, InsertIsSound
<1>4. ASSUME NEW w \in Workers, ProcessRow(w)
      PROVE  Sound(s)'
  <2>1. CASE Slot(w) # s
    BY <1>1, <1>4, <2>1, ProcessIsQuiet, QuietIsSound
  <2>2. CASE s = Slot(w)
    BY <1>1, <1>4, <2>2, MapRowIsSound, SaveSubmittedIsSound, SubmitIsSound, RowEndsSoundly
       DEF ProcessRow
  <2> QED
    BY <2>1, <2>2
<1>5. ASSUME NEW w \in Workers, Retry(w) \/ Crash(w)
      PROVE  Sound(s)'
  BY <1>1, <1>5, RetryIsQuiet, QuietIsSound, StartRetryIsSound, RetryRowIsSound
<1>6. CASE UNCHANGED vars
  <2>1. Quiet(s)
    BY <1>6, UnchangedIsCalm DEF vars, Quiet, AllCalm, SameHistory
  <2> QED
    BY <1>1, <2>1, QuietIsSound
<1> QED
  BY <1>2, <1>3, <1>4, <1>5, <1>6 DEF Next

\* Every slot stays sound, with no lock on it.
THEOREM SlotInvariance == Spec => []SlotInv
<1>1. Init => SlotInv
  <2> SUFFICES ASSUME Init, NEW s \in Slots
               PROVE  Sound(s)
    BY DEF SlotInv
  <2>1. \A w \in Workers : wk[w].pc = "idle" /\ wk[w].list = {}
    BY DEF Init, Idle
  <2>2. row[s] = NoRow /\ sends[s] = 0 /\ issued[s] = 0
    BY DEF Init
  <2>3. \A w \in Workers : ~InHand(w, s) /\ ~Listed(w, s)
    BY <2>1 DEF InHand, InRow, Listed
  <2>4. Fresh(s) /\ RunAlone(s)
    BY <2>2, <2>3 DEF Fresh, RunAlone, Holds
  <2>5. HeldByOne(s) /\ ListedIsFailed(s) /\ InHandIsOpen(s) /\ OpenHasNone(s)
    BY <2>1, <2>2, <2>3 DEF HeldByOne, Holds, ListedIsFailed, InHandIsOpen, OpenHasNone
  <2>6. CountsAgree(s) /\ IRNIsCleared(s)
    BY <2>2, IntakeAssumption DEF CountsAgree, IRNIsCleared, NoRow
  <2> QED
    BY <2>4, <2>5, <2>6 DEF Sound, Exclusive
<1>2. TypeInv /\ SlotInv /\ [Next]_vars => SlotInv'
  BY SoundStep DEF SlotInv, Slots, Nums
<1> QED
  BY <1>1, <1>2, TypeInvariance, PTL DEF Spec

\* The status that retry_failed_excel_rows selects by and the unique key keep
\* FIRS from clearing a row of an upload twice, unless two retries overlap or
\* the outcome of a submission was lost.
THEOREM ClearedOnce == Spec => []RowClearedOnce
<1>1. TypeInv /\ SlotInv => RowClearedOnce
  <2> SUFFICES ASSUME TypeInv, SlotInv, NEW s \in Slots, issued[s] > 1
               PROVE  Excused(s[1], {"overlap", "lost"})
    BY DEF RowClearedOnce
  <2>1. issued[s] \in Nat
    BY DEF TypeInv, TypeOK
  <2>2. Overlap(s) \/ Lost(s)
    BY <2>1 DEF SlotInv, Sound, Exclusive, OpenHasNone
  <2> QED
    BY <2>2 DEF Overlap, Lost, Excused
<1> QED
  BY <1>1, TypeInvariance, SlotInvariance, PTL

\* A row with an IRN is shown as cleared, unless two retries worked on it.
THEOREM ClearedStays == Spec => []ClearedStaysCleared
<1>1. SlotInv => ClearedStaysCleared
  BY DEF SlotInv, Sound, Exclusive, IRNIsCleared, ClearedStaysCleared, Overlap, Excused
<1> QED
  BY <1>1, SlotInvariance, PTL
=============================================================================
