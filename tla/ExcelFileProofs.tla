--------------------------- MODULE ExcelFileProofs ---------------------------
(***************************************************************************)
(* Proofs about the uploads in module ExcelIntake, for any sets of uploads *)
(* and workers, any file and any limits: what COMPLETE says of the rows,   *)
(* what the duplicate checks keep from happening, that dry runs send       *)
(* nothing and that no upload is forgotten.                                *)
(***************************************************************************)
EXTENDS ExcelIntakeProofs, FiniteSetTheorems

(* Who gets an upload, and when.                                             *)

\* A worker goes on with its upload, lets go of it, or is given one.
Keeps(w) == wk'[w].up = wk[w].up /\ wk'[w].job = wk[w].job
LetsGo(w) == wk'[w].up = NoUpload /\ wk'[w].job \in {"none", "retry"}
IsGiven(w) ==
  \/ \E u \in Uploads : Arrive(w, u) /\ wk'[w].up = u /\ wk'[w].pc = "arrived"
                        /\ (wk'[w].job = "arrival" \/ (wk'[w].job = "dry" /\ Note(u, {"dry"})))
  \/ \E u \in Uploads : \E n \in 0 .. MaxTaskRetries :
       StartTask(w, u, n) /\ wk'[w].up = u /\ wk'[w].job = "task"
  \/ \E s \in Slots : RetryRow(w) /\ Listed(w, s) /\ Slot(w)' = s /\ wk'[w].job = "retry"

Action(w) == Intake(w) \/ Run(w) \/ ProcessRow(w) \/ Retry(w) \/ Crash(w)

LEMMA OthersStay ==
  ASSUME TypeInv, NEW w \in Workers, Action(w)
  PROVE  \A v \in Workers : v # w => wk'[v] = wk[v]
<1>1. CASE Intake(w) \/ (Run(w) /\ ~InsertRow(w))
  BY <1>1, OutsideStep
<1>2. CASE InsertRow(w)
  BY <1>2, InsertStep
<1>3. CASE MapRow(w) \/ SaveCleared(w) \/ SaveFailed(w) \/ RowFails(w) \/ RowRaises(w)
  <2>1. InRow(w)
    BY <1>3 DEF MapRow, SaveCleared, SaveFailed, RowFails, RowRaises, InRow, At
  <2>2. \/ Goto(w, "ready") /\ MapRow(w)
        \/ \E ok \in BOOLEAN : Return(w, ok)
        \/ Free(w)
    BY <1>3 DEF MapRow, SaveCleared, SaveFailed, RowFails, RowRaises, Raise
  <2> QED
    BY <2>1, <2>2, RowGoesOn, ReturnStep, FreeStep
<1>4. CASE SaveSubmitted(w)
  BY <1>4, RowGoesOn
<1>5. CASE Submit(w)
  BY <1>5, SubmitStep
<1>6. CASE StartRetry(w) \/ RetryRow(w)
  BY <1>6, RetryStep
<1>7. CASE EndRetry(w) \/ Crash(w)
  BY <1>7, FreeStep DEF EndRetry, Crash
<1> QED
  BY <1>1, <1>2, <1>3, <1>4, <1>5, <1>6, <1>7 DEF Action, Run, ProcessRow, Retry

LEMMA FreeLetsGo ==
  ASSUME TypeInv, NEW w \in Workers, Free(w)
  PROVE  LetsGo(w)
BY FreeStep DEF LetsGo, Idle

LEMMA ReturnMoves ==
  ASSUME TypeInv, NEW w \in Workers, InRow(w), NEW ok \in BOOLEAN, Return(w, ok)
  PROVE  \/ Keeps(w) /\ wk[w].job # "retry" /\ wk'[w].pc = "rows"
         \/ LetsGo(w) /\ wk[w].job = "retry" /\ wk'[w].pc = "retrying"
<1>1. wk'[w] = Returned(wk[w], ok) /\ wk[w] \in Worker
  BY ReturnStep DEF TypeInv, TypeOK
<1>2. CASE wk[w].job = "retry"
  BY <1>1, <1>2 DEF Returned, LetsGo, Idle
<1>3. CASE wk[w].job # "retry"
  <2> DEFINE c == IF ok THEN wk[w].cleared + 1 ELSE wk[w].cleared
             f == IF ok THEN wk[w].failed ELSE wk[w].failed + 1
  <2>1. wk'[w] = [wk[w] EXCEPT !.pc = "rows", !.num = 0, !.attempts = 0, !.resp = 0,
                               !.cleared = c, !.failed = f]
    BY <1>1, <1>3 DEF Returned
  <2> HIDE DEF c, f
  <2> QED
    BY <1>1, <1>3, <2>1 DEF Keeps, Worker
<1> QED
  BY <1>2, <1>3

LEMMA Moves ==
  ASSUME TypeInv, NEW w \in Workers, Action(w)
  PROVE  Keeps(w) \/ LetsGo(w) \/ IsGiven(w)
<1>0. wk[w] \in Worker /\ Placed(wk[w])
  BY DEF TypeInv, WorkerPlaced
<1>1. CASE CheckUpload(w)
  <2>1. wk'[w] = [wk[w] EXCEPT !.pc = "checked"]
    BY <1>1 DEF CheckUpload, TypeInv, TypeOK
  <2> QED
    BY <1>0, <2>1 DEF Keeps, Worker
<1>2. ASSUME NEW u \in Uploads, Arrive(w, u)
      PROVE  IsGiven(w)
  <2>1. PICK job \in {"arrival", "dry"} :
          /\ wk' = [wk EXCEPT ![w] = [Idle EXCEPT !.pc = "arrived", !.job = job, !.up = u]]
          /\ Note(u, IF job = "dry" THEN {"dry"} ELSE {})
    BY <1>2 DEF Arrive
  <2>2. wk'[w] = [Idle EXCEPT !.pc = "arrived", !.job = job, !.up = u]
    BY <2>1 DEF TypeInv, TypeOK
  <2>3. wk'[w].up = u /\ wk'[w].pc = "arrived" /\ wk'[w].job = job
    BY <2>2 DEF Idle
  <2> QED
    BY <1>2, <2>1, <2>3 DEF IsGiven
<1>3. ASSUME NEW u \in Uploads, NEW n \in 0 .. MaxTaskRetries, StartTask(w, u, n)
      PROVE  IsGiven(w)
  <2>1. wk'[w] = [Idle EXCEPT !.pc = "parsing", !.job = "task", !.up = u, !.tries = n]
    BY <1>3 DEF StartTask, TypeInv, TypeOK
  <2>2. wk'[w].up = u /\ wk'[w].job = "task"
    BY <2>1 DEF Idle
  <2> QED
    BY <1>3, <2>2 DEF IsGiven
<1>4. CASE \/ \E u \in Uploads : CreateUpload(w, u)
           \/ RefuseFile(w) \/ NoValidRows(w) \/ KeyTaken(w) \/ RunFails(w) \/ FinishRun(w)
           \/ EndRetry(w) \/ Crash(w)
  BY <1>4, FreeLetsGo DEF CreateUpload, RefuseFile, NoValidRows, KeyTaken, RunFails, FinishRun,
     EndRetry, Crash, Raise
<1>5. CASE StartRun(w) \/ StartRows(w)
  <2>1. \/ wk'[w] = [wk[w] EXCEPT !.pc = "invalid", !.todo = bad]
        \/ wk'[w] = [wk[w] EXCEPT !.pc = "rows", !.todo = Rows \ bad]
    BY <1>5 DEF StartRun, StartRows, TypeInv, TypeOK
  <2> QED
    BY <1>0, <2>1 DEF Keeps, Worker
<1>6. CASE SaveInvalid(w)
  <2>1. PICK q \in Rows : wk' = [wk EXCEPT ![w].todo = @ \ {q}]
    BY <1>6 DEF SaveInvalid
  <2>2. wk'[w] = [wk[w] EXCEPT !.todo = @ \ {q}]
    BY <2>1 DEF TypeInv, TypeOK
  <2> QED
    BY <1>0, <2>2 DEF Keeps, Worker
<1>7. CASE InsertRow(w)
  BY <1>7, InsertStep DEF Keeps, SameBut
<1>8. CASE (MapRow(w) /\ Goto(w, "ready")) \/ SaveSubmitted(w)
  <2>1. Slot(w)' = Slot(w) /\ SameBut(wk'[w], wk[w])
    BY <1>8, RowGoesOn
  <2> QED
    BY <2>1 DEF Keeps, SameBut, Slot
<1>9. CASE Submit(w)
  <2>1. Slot(w)' = Slot(w) /\ SameBut(wk'[w], wk[w])
    BY <1>9, SubmitStep
  <2> QED
    BY <2>1 DEF Keeps, SameBut, Slot
<1>10. CASE (MapRow(w) /\ Return(w, TRUE)) \/ SaveCleared(w) \/ SaveFailed(w) \/ RowFails(w)
            \/ RowRaises(w)
  <2>1. InRow(w)
    BY <1>10 DEF MapRow, SaveCleared, SaveFailed, RowFails, RowRaises, InRow, At
  <2>2. Return(w, TRUE) \/ Return(w, FALSE) \/ Free(w)
    BY <1>10 DEF SaveCleared, SaveFailed, RowFails, RowRaises, Raise
  <2> QED
    BY <2>1, <2>2, ReturnMoves, FreeLetsGo
<1>11. CASE StartRetry(w)
  <2> DEFINE l == {<<s, row[s].attempts>> : s \in Due}
  <2>1. wk'[w] = [Idle EXCEPT !.pc = "retrying", !.job = "retry", !.list = l]
    BY <1>11 DEF StartRetry, Due, TypeInv, TypeOK
  <2> HIDE DEF l
  <2> QED
    BY <2>1 DEF LetsGo, Idle
<1>12. CASE RetryRow(w)
  <2>1. PICK e \in wk[w].list : Slot(w)' = e[1] /\ wk'[w].job = "retry"
    BY <1>12, RetryStep DEF StartRetry, RetryRow, At
  <2>2. e[1] \in Slots
    BY <1>0 DEF Worker
  <2>3. PICK s \in Slots : s = e[1]
    BY <2>2
  <2>4. Listed(w, s) /\ Slot(w)' = s
    BY <2>1, <2>3 DEF Listed
  <2> QED
    BY <1>12, <2>1, <2>4 DEF IsGiven
<1> QED
  BY <1>1, <1>2, <1>3, <1>4, <1>5, <1>6, <1>7, <1>8, <1>9, <1>10, <1>11, <1>12
     DEF Action, Intake, Run, ProcessRow, Retry, MapRow

-----------------------------------------------------------------------------
(* Nothing refers to an upload that has not been created.                    *)

Queued(u) == \E m \in queue : m[1] = u
Worked(u) == \E w \in Workers : wk[w].up = u
HasRows(u) == \E s \in Slots : s[1] = u /\ row[s].status # "ABSENT"

Known == \A u \in Uploads : Queued(u) \/ Worked(u) \/ HasRows(u) => upload[u].status # "ABSENT"

LEMMA UploadStays ==
  ASSUME TypeInv, [Next]_vars, NEW u \in Uploads, upload[u].status # "ABSENT"
  PROVE  upload'[u].status # "ABSENT"
<1>1. ASSUME NEW v, NEW x, x # "ABSENT", SetStatus(v, x)
      PROVE  upload'[u].status # "ABSENT"
  BY <1>1 DEF SetStatus, TypeInv, TypeOK, Upload
<1>2. ASSUME NEW w \in Workers, FinishRun(w)
      PROVE  upload'[u].status # "ABSENT"
  BY <1>2 DEF FinishRun, TypeInv, TypeOK
<1>3. CASE upload' = upload
  BY <1>3
<1>4. ASSUME NEW w \in Workers, Action(w), ~FinishRun(w), upload' # upload
      PROVE  \E v, x : x # "ABSENT" /\ SetStatus(v, x)
  BY <1>4 DEF Action, Intake, CheckUpload, CreateUpload, Arrive, StartTask, RefuseFile, Run,
       StartRun, SaveInvalid, NoValidRows, StartRows, InsertRow, KeyTaken, RunFails, Raise,
       ProcessRow, MapRow, SaveSubmitted, Submit, SaveCleared, SaveFailed, RowFails, RowRaises,
       Retry, StartRetry, RetryRow, EndRetry, Crash
<1> QED
  BY <1>1, <1>2, <1>3, <1>4 DEF Next, vars, Action

\* A row appears only in an upload that a worker has in hand.
LEMMA RowAppears ==
  ASSUME TypeInv, SlotInv, [Next]_vars, NEW s \in Slots,
         row[s].status = "ABSENT", row'[s].status # "ABSENT"
  PROVE  \E w \in Workers : /\ SaveInvalid(w) \/ InsertRow(w)
                            /\ wk[w].up = s[1] /\ wk[w].pc \in {"invalid", "rows"}
<1>1. ASSUME NEW w \in Workers, SaveInvalid(w) \/ InsertRow(w)
      PROVE  wk[w].up = s[1] /\ wk[w].pc \in {"invalid", "rows"}
  <2>1. PICK q \in Rows : \E x : row' = [row EXCEPT ![Place(w, q)].status = x]
    BY <1>1 DEF SaveInvalid, InsertRow
  <2>2. s = Place(w, q)
    BY <2>1 DEF TypeInv, TypeOK
  <2> QED
    BY <1>1, <2>2 DEF Place, Up, SaveInvalid, InsertRow, At
<1>2. ASSUME NEW w \in Workers, ProcessRow(w)
      PROVE  FALSE
  <2>1. InHand(w, Slot(w))
    BY <1>2 DEF ProcessRow, MapRow, SaveSubmitted, Submit, SaveCleared, SaveFailed, RowFails,
       RowRaises, At, InRow, InHand
  <2>2. CASE Slot(w) # s
    BY <1>2, <2>2, ProcessIsQuiet DEF Quiet
  <2>3. CASE Slot(w) = s
    BY <2>1, <2>3 DEF SlotInv, Sound, Fresh, Holds
  <2> QED
    BY <2>2, <2>3
<1>3. ASSUME NEW w \in Workers, Action(w), ~SaveInvalid(w), ~InsertRow(w), ~ProcessRow(w)
      PROVE  row' = row
  BY <1>3 DEF Action, Intake, CheckUpload, CreateUpload, Arrive, StartTask, RefuseFile, Run,
       StartRun, NoValidRows, StartRows, KeyTaken, RunFails, FinishRun,
       Retry, StartRetry, RetryRow, EndRetry, Crash
<1>4. UNCHANGED vars => row' = row
  BY DEF vars
<1> QED
  BY <1>1, <1>2, <1>3, <1>4 DEF Next, Action

\* A message appears when the upload does, or when a task starts over.
LEMMA MessageAppears ==
  ASSUME TypeInv, NEW w \in Workers, Action(w), NEW m \in queue', m \notin queue
  PROVE  \/ \E u \in Uploads : CreateUpload(w, u) /\ m[1] = u
         \/ wk[w].up = m[1] /\ wk[w].job = "task" /\ Raise(w)
<1>1. CASE \E u \in Uploads : CreateUpload(w, u)
  BY <1>1 DEF CreateUpload
<1>2. CASE Raise(w)
  BY <1>2 DEF Raise, Up
<1>3. CASE queue' \subseteq queue
  BY <1>3
<1>4. ASSUME ~Raise(w), ~ \E u \in Uploads : CreateUpload(w, u)
      PROVE  queue' \subseteq queue
  BY <1>4 DEF Action, Intake, CheckUpload, Arrive, StartTask, RefuseFile, Run,
       StartRun, SaveInvalid, NoValidRows, StartRows, InsertRow, KeyTaken, RunFails, FinishRun,
       ProcessRow, MapRow, SaveSubmitted, Submit, SaveCleared, SaveFailed, RowFails, RowRaises,
       Retry, StartRetry, RetryRow, EndRetry, Crash
<1> QED
  BY <1>1, <1>2, <1>3, <1>4

LEMMA ListedHasRow ==
  ASSUME TypeInv, SlotInv, NEW w \in Workers, NEW s \in Slots, Listed(w, s)
  PROVE  HasRows(s[1])
BY DEF SlotInv, Sound, Fresh, Holds, HasRows

LEMMA KnownStep ==
  ASSUME TypeInv, SlotInv, Known, [Next]_vars
  PROVE  Known'
<1> SUFFICES ASSUME NEW u \in Uploads, Queued(u)' \/ Worked(u)' \/ HasRows(u)',
                    ~(Queued(u) \/ Worked(u) \/ HasRows(u))
             PROVE  upload'[u].status # "ABSENT"
  BY UploadStays DEF Known
<1>1. PICK w \in Workers : Action(w)
  BY DEF Next, Action, vars, Queued, Worked, HasRows
<1>2. CASE HasRows(u)'
  <2>1. PICK s \in Slots : s[1] = u /\ row'[s].status # "ABSENT"
    BY <1>2 DEF HasRows
  <2> QED
    BY <2>1, RowAppears DEF HasRows, Worked
<1>3. CASE Queued(u)'
  <2>1. PICK m \in queue' : m[1] = u
    BY <1>3 DEF Queued
  <2>2. CreateUpload(w, u)
    BY <1>1, <2>1, MessageAppears DEF Queued, Worked
  <2> QED
    BY <2>2 DEF CreateUpload, SetStatus, TypeInv, TypeOK, Upload
<1>4. CASE Worked(u)'
  <2>1. PICK v \in Workers : wk'[v].up = u
    BY <1>4 DEF Worked
  <2>2. v = w /\ ~Keeps(w) /\ ~LetsGo(w)
    BY <1>1, <2>1, OthersStay, IntakeAssumption DEF Worked, Keeps, LetsGo
  <2>3. IsGiven(w)
    BY <1>1, <2>2, Moves
  <2>4. CASE Arrive(w, u)
    BY <2>4 DEF Arrive, SetStatus, TypeInv, TypeOK, Upload
  <2>5. CASE \E n \in 0 .. MaxTaskRetries : StartTask(w, u, n)
    BY <2>5 DEF StartTask, Queued
  <2>6. CASE \E s \in Slots : Listed(w, s) /\ Slot(w)' = s
    <3>1. PICK s \in Slots : Listed(w, s) /\ Slot(w)' = s
      BY <2>6
    <3>2. s[1] = u
      BY <2>1, <2>2, <3>1 DEF Slot
    <3> QED
      BY <3>1, <3>2, ListedHasRow
  <2> QED
    BY <2>1, <2>2, <2>3, <2>4, <2>5, <2>6 DEF IsGiven
<1> QED
  BY <1>2, <1>3, <1>4

LEMMA KnownInvariance == Spec => []Known
<1>1. Init => Known
  <2> SUFFICES ASSUME Init, NEW u \in Uploads
               PROVE  ~(Queued(u) \/ Worked(u) \/ HasRows(u))
    BY DEF Known
  <2> QED
    BY IntakeAssumption DEF Init, Queued, Worked, HasRows, Idle, NoRow
<1>2. TypeInv /\ SlotInv /\ Known /\ [Next]_vars => Known'
  BY KnownStep
<1> QED
  BY <1>1, <1>2, TypeInvariance, SlotInvariance, PTL DEF Spec

-----------------------------------------------------------------------------
(* Dry runs, and the attempts of a row.                                      *)

\* Only a retry that starts puts rows on a list.
LEMMA ListsShrink ==
  ASSUME TypeInv, NEW w \in Workers, Action(w), ~StartRetry(w), NEW v \in Workers
  PROVE  wk'[v].list \subseteq wk[v].list
<1>1. CASE v # w
  BY <1>1, OthersStay
<1>2. CASE Intake(w) \/ (Run(w) /\ ~InsertRow(w))
  <2>1. TypeInv'
    BY TypeStep DEF Next, Action
  <2>2. wk'[w].pc \in OutOfRow
    BY <1>2, OutsideStep
  <2> QED
    BY <1>1, <2>1, <2>2 DEF TypeInv, WorkerPlaced, Placed, OutOfRow
<1>3. CASE InsertRow(w) \/ Submit(w) \/ (MapRow(w) /\ Goto(w, "ready")) \/ SaveSubmitted(w)
  <2>1. SameBut(wk'[w], wk[w])
    BY <1>3, InsertStep, SubmitStep, RowGoesOn
  <2> QED
    BY <1>1, <2>1 DEF SameBut
<1>4. CASE (MapRow(w) /\ Return(w, TRUE)) \/ SaveCleared(w) \/ SaveFailed(w) \/ RowFails(w)
           \/ RowRaises(w)
  <2> SUFFICES ASSUME NEW e \in wk'[v].list
               PROVE  e \in wk[v].list
    OBVIOUS
  <2>1. MapRow(w) => InRow(w)
    BY DEF MapRow, At, InRow
  <2>2. AllCalm(e[1])
    BY <1>4, <2>1, ReturnIsCalm, RowEnds
  <2> QED
    BY <2>2 DEF AllCalm, Calm
<1>5. CASE RetryRow(w) \/ EndRetry(w) \/ Crash(w)
  <2>1. RetryRow(w) => wk'[w].list \subseteq wk[w].list
    BY ZenonT(60), RetryStep DEF StartRetry, RetryRow, At
  <2>2. Idle.list = {}
    BY DEF Idle
  <2> QED
    BY <1>1, <1>5, <2>1, <2>2, FreeStep DEF EndRetry, Crash
<1> QED
  BY <1>2, <1>3, <1>4, <1>5 DEF Action, Run, ProcessRow, Retry, MapRow

Dry(u) == "dry" \in mishaps[u]

\* An upload of a dry run is known to no task and to no retry: its rows were
\* mapped, or failed to be.
DryAlone(u) ==
  /\ upload[u].status # "ABSENT" /\ ~Queued(u)
  /\ \A w \in Workers : wk[w].up = u => wk[w].job = "dry"
  /\ \A s \in Slots : s[1] = u =>
       /\ sends[s] = 0
       /\ \A w \in Workers : ~Listed(w, s)
       /\ row[s].mapped => row[s].status # "FAILED"

DryInv ==
  /\ \A w \in Workers : wk[w].job = "dry" => Dry(wk[w].up)
  /\ \A u \in Uploads : Dry(u) => DryAlone(u)

LEMMA DryAppears ==
  ASSUME TypeInv, NEW w \in Workers, Action(w), NEW u \in Uploads, Dry(u)', ~Dry(u)
  PROVE  Arrive(w, u) /\ wk'[w].job = "dry"
<1>1. ASSUME NEW v, NEW m, Note(v, m), "dry" \notin m
      PROVE  FALSE
  BY <1>1 DEF Note, Dry, TypeInv, TypeOK
<1>2. PICK v \in Uploads : Arrive(w, v)
  <2>2. StartRetry(w) \/ Crash(w) \/ UNCHANGED mishaps => FALSE
    BY DEF StartRetry, Crash, Dry
  <2>3. \A v : "dry" \notin Resent(v) \cup {"down"} /\ "dry" \notin Resent(v)
    BY DEF Resent
  <2>4. ASSUME NEW v \in Uploads, CreateUpload(w, v)
        PROVE  FALSE
    BY <1>1, <2>3, <2>4 DEF CreateUpload
  <2>5. CASE StartRun(w)
    <3>1. "dry" \notin IF At(w, "arrived") THEN Resent(Up(w)) ELSE {}
      BY <2>3
    <3> QED
      BY <1>1, <2>5, <3>1 DEF StartRun
  <2>6. CASE RunFails(w) \/ FinishRun(w) \/ RowRaises(w)
    BY <1>1, <2>6 DEF RunFails, FinishRun, RowRaises
  <2>7. CASE Submit(w)
    BY <1>1, <2>7, SubmitStep
  <2>8. CASE RowFails(w)
    BY <1>1, <2>8 DEF RowFails
  <2>9. ASSUME \A v \in Uploads : ~Arrive(w, v) /\ ~CreateUpload(w, v),
               ~StartRun(w), ~RunFails(w), ~FinishRun(w), ~RowRaises(w), ~Submit(w), ~RowFails(w),
               ~StartRetry(w), ~Crash(w)
        PROVE  UNCHANGED mishaps
    BY <2>9 DEF Action, Intake, CheckUpload, StartTask, RefuseFile, Run,
       SaveInvalid, NoValidRows, StartRows, InsertRow, KeyTaken,
       ProcessRow, MapRow, SaveSubmitted, SaveCleared, SaveFailed, Retry, RetryRow, EndRetry
  <2> QED
    BY <2>2, <2>4, <2>5, <2>6, <2>7, <2>8, <2>9
<1>3. PICK job \in {"arrival", "dry"} :
        /\ wk' = [wk EXCEPT ![w] = [Idle EXCEPT !.pc = "arrived", !.job = job, !.up = v]]
        /\ Note(v, IF job = "dry" THEN {"dry"} ELSE {})
  BY <1>2 DEF Arrive
<1>4. job = "dry" /\ v = u
  BY <1>1, <1>3 DEF Note, Dry, TypeInv, TypeOK
<1>5. wk'[w] = [Idle EXCEPT !.pc = "arrived", !.job = job, !.up = v]
  BY <1>3 DEF TypeInv, TypeOK
<1> QED
  BY <1>2, <1>4, <1>5 DEF Idle

\* How a row of the table can change: by the worker that has it in hand, or
\* from ABSENT.
LEMMA RowChanges ==
  ASSUME TypeInv, NEW w \in Workers, Action(w), NEW s \in Slots,
         row'[s] # row[s] \/ sends'[s] # sends[s] \/ issued'[s] # issued[s]
  PROVE  \/ InHand(w, s) /\ ProcessRow(w)
         \/ row[s].status = "ABSENT" /\ (SaveInvalid(w) \/ InsertRow(w)) /\ SameHistory(s)
            /\ \E x \in {"VALID", "INVALID"} : row'[s] = [row[s] EXCEPT !.status = x]
<1>1. CASE ProcessRow(w)
  <2>1. InRow(w)
    BY <1>1 DEF ProcessRow, MapRow, SaveSubmitted, Submit, SaveCleared, SaveFailed, RowFails,
                RowRaises, At, InRow
  <2>2. Slot(w) = s
    BY <1>1, ProcessIsQuiet DEF Quiet, SameHistory
  <2> QED
    BY <1>1, <2>1, <2>2 DEF InHand
<1>2. CASE SaveInvalid(w) \/ InsertRow(w)
  <2>1. PICK q \in Rows, x \in {"VALID", "INVALID"} :
          row[Place(w, q)].status = "ABSENT" /\ row' = [row EXCEPT ![Place(w, q)].status = x]
    BY <1>2 DEF SaveInvalid, InsertRow
  <2>2. SameHistory(s)
    BY <1>2 DEF SaveInvalid, InsertRow, SameHistory
  <2>3. s = Place(w, q) /\ row'[s] = [row[s] EXCEPT !.status = x]
    BY <2>1, <2>2 DEF SameHistory, TypeInv, TypeOK
  <2> QED
    BY <1>2, <2>1, <2>2, <2>3
<1>3. CASE ~ProcessRow(w) /\ ~SaveInvalid(w) /\ ~InsertRow(w)
  BY <1>3 DEF Action, Intake, CheckUpload, CreateUpload, Arrive, StartTask, RefuseFile, Run,
       StartRun, NoValidRows, StartRows, KeyTaken, RunFails, FinishRun,
       Retry, StartRetry, RetryRow, EndRetry, Crash
<1> QED
  BY <1>1, <1>2, <1>3

\* Rows of a dry run are mapped and no more.
LEMMA DryRowStep ==
  ASSUME TypeInv, SlotInv, DryInv, Known, NEW w \in Workers, Action(w),
         NEW u \in Uploads, Dry(u), NEW s \in Slots, s[1] = u
  PROVE  sends'[s] = 0 /\ (row'[s].mapped => row'[s].status # "FAILED")
<1>1. sends[s] = 0 /\ (row[s].mapped => row[s].status # "FAILED") /\ row[s] \in Row
  BY DEF DryInv, DryAlone, TypeInv, TypeOK
<1>2. CASE row'[s] = row[s] /\ sends'[s] = sends[s]
  BY <1>1, <1>2
<1>3. CASE row[s].status = "ABSENT" /\ SameHistory(s)
           /\ \E x \in {"VALID", "INVALID"} : row'[s] = [row[s] EXCEPT !.status = x]
  BY <1>1, <1>3 DEF SameHistory, Row
<1>4. CASE InHand(w, s) /\ ProcessRow(w)
  <2>1. wk[w].up = u /\ wk[w].job = "dry" /\ wk[w].pc = "mapping"
    <3>1. wk[w].up = u
      BY <1>4 DEF InHand, Slot
    <3> QED
      BY <1>4, <3>1 DEF DryInv, DryAlone, TypeInv, WorkerPlaced, Placed, InHand, InRow
  <2>2. ~row[s].mapped
    BY <1>4, <2>1 DEF SlotInv, Sound, RunAlone
  <2>3. MapRow(w) \/ RowFails(w) \/ RowRaises(w)
    BY <1>4, <2>1 DEF ProcessRow, SaveSubmitted, Submit, SaveCleared, SaveFailed, At
  <2>4. sends' = sends
    BY <2>3 DEF MapRow, RowFails, RowRaises
  <2>5. CASE MapRow(w)
    BY <1>1, <1>4, <2>4, <2>5 DEF MapRow, InHand, TypeInv, TypeOK, Row
  <2>6. CASE RowFails(w) \/ RowRaises(w)
    <3>1. row'[s].mapped = row[s].mapped
      BY <1>1, <1>4, <2>6 DEF RowFails, RowRaises, SetRow, InHand, TypeInv, TypeOK, Row
    <3> QED
      BY <1>1, <2>2, <2>4, <3>1
  <2> QED
    BY <2>3, <2>5, <2>6
<1> QED
  BY <1>2, <1>3, <1>4, RowChanges

LEMMA DryStays ==
  ASSUME TypeInv, SlotInv, DryInv, Known, NEW w \in Workers, Action(w),
         NEW u \in Uploads, Dry(u)
  PROVE  DryAlone(u)'
<1>0. DryAlone(u) /\ [Next]_vars
  BY DEF DryInv, Next, Action
<1>1. upload'[u].status # "ABSENT"
  BY <1>0, UploadStays DEF DryAlone
<1>2. ~Queued(u)'
  <2> SUFFICES ASSUME NEW m \in queue', m[1] = u
               PROVE  FALSE
    BY DEF Queued
  <2>1. m \notin queue
    BY <1>0 DEF DryAlone, Queued
  <2>2. CASE CreateUpload(w, u)
    BY <1>0, <2>2 DEF CreateUpload, DryAlone
  <2>3. CASE wk[w].up = u /\ wk[w].job = "task"
    BY <1>0, <2>3 DEF DryAlone
  <2> QED
    BY <2>1, <2>2, <2>3, MessageAppears
<1>3. ASSUME NEW v \in Workers, wk'[v].up = u
      PROVE  wk'[v].job = "dry"
  <2>1. CASE v # w \/ Keeps(w)
    <3>1. wk'[v].up = wk[v].up /\ wk'[v].job = wk[v].job
      BY <2>1, OthersStay DEF Keeps
    <3> QED
      BY <1>0, <1>3, <3>1 DEF DryAlone
  <2>2. CASE v = w /\ LetsGo(w)
    BY <1>3, <2>2, IntakeAssumption DEF LetsGo
  <2>3. CASE v = w /\ IsGiven(w)
    <3>1. ~Arrive(w, u) /\ \A n \in 0 .. MaxTaskRetries : ~StartTask(w, u, n)
      BY <1>0 DEF Arrive, StartTask, DryAlone, Queued
    <3>2. ASSUME NEW s \in Slots, Listed(w, s), Slot(w)' = s
          PROVE  FALSE
      <4>1. s[1] = u
        BY <1>3, <2>3, <3>2 DEF Slot
      <4> QED
        BY <1>0, <3>2, <4>1 DEF DryAlone
    <3> QED
      BY <1>3, <2>3, <3>1, <3>2 DEF IsGiven
  <2> QED
    BY <2>1, <2>2, <2>3, Moves
<1>4. ASSUME NEW s \in Slots, s[1] = u, NEW v \in Workers, Listed(v, s)'
      PROVE  FALSE
  <2>1. ~Listed(v, s) /\ s \notin Due
    BY <1>0, <1>4 DEF DryAlone, Due
  <2>2. CASE ~StartRetry(w)
    BY <1>4, <2>1, <2>2, ListsShrink DEF Listed
  <2>3. CASE StartRetry(w)
    <3>1. wk'[w].list = {<<q, row[q].attempts>> : q \in Due}
      BY <2>3, RetryStep DEF StartRetry, RetryRow, At
    <3>2. v # w => wk'[v] = wk[v]
      BY OthersStay
    <3> QED
      BY <1>4, <2>1, <3>1, <3>2 DEF Listed
  <2> QED
    BY <2>2, <2>3
<1>5. \A s \in Slots : s[1] = u => sends'[s] = 0 /\ (row'[s].mapped => row'[s].status # "FAILED")
  BY DryRowStep
<1> QED
  BY <1>1, <1>2, <1>3, <1>4, <1>5 DEF DryAlone

LEMMA DryStarts ==
  ASSUME TypeInv, SlotInv, DryInv, Known, NEW w \in Workers, Action(w),
         NEW u \in Uploads, Dry(u)', ~Dry(u)
  PROVE  DryAlone(u)'
<1>1. Arrive(w, u) /\ wk'[w].job = "dry"
  BY DryAppears
<1>2. /\ ~Queued(u) /\ ~Worked(u) /\ ~HasRows(u)
  BY <1>1 DEF Known, Arrive
<1>3. upload'[u].status = "RECEIVED" /\ row' = row /\ queue' = queue /\ sends' = sends
  BY <1>1 DEF Arrive, SetStatus, TypeInv, TypeOK, Upload
<1>4. \A v \in Workers : v # w => wk'[v] = wk[v]
  BY OthersStay
<1>5. ~StartRetry(w)
  <2>1. wk'[w].pc = "arrived"
    BY <1>1 DEF Arrive, Idle, TypeInv, TypeOK
  <2> QED
    BY <2>1, RetryStep DEF StartRetry, RetryRow, At
<1>6. ASSUME NEW s \in Slots, s[1] = u
      PROVE  sends'[s] = 0 /\ ~row'[s].mapped /\ \A v \in Workers : ~Listed(v, s)'
  <2>1. row[s].status = "ABSENT"
    BY <1>2, <1>6 DEF HasRows
  <2>2. row[s] = NoRow /\ sends[s] = 0 /\ \A v \in Workers : ~Listed(v, s)
    BY <2>1 DEF SlotInv, Sound, Fresh, Holds
  <2>3. \A v \in Workers : Listed(v, s)' => Listed(v, s)
    BY <1>5, ListsShrink DEF Listed
  <2> QED
    BY <1>3, <2>2, <2>3 DEF NoRow
<1>7. \A v \in Workers : wk'[v].up = u => wk'[v].job = "dry"
  BY <1>1, <1>2, <1>4 DEF Worked
<1> QED
  BY <1>2, <1>3, <1>6, <1>7 DEF DryAlone, Queued

LEMMA DryInvariance == Spec => []DryInv
<1>1. Init => DryInv
  BY DEF Init, DryInv, Dry, Idle
<1>2. ASSUME TypeInv, SlotInv, DryInv, Known, [Next]_vars
      PROVE  DryInv'
  <2>1. CASE UNCHANGED vars
    BY <1>2, <2>1 DEF vars, DryInv, Dry, DryAlone, Queued, Listed
  <2>2. ASSUME NEW w \in Workers, Action(w)
        PROVE  DryInv'
    <3>1. \A u \in Uploads : Dry(u)' => DryAlone(u)'
      BY <1>2, <2>2, DryStays, DryStarts
    <3>2. ASSUME NEW v \in Workers, wk'[v].job = "dry"
          PROVE  Dry(wk[v].up)'
      <4>1. TypeInv' /\ wk'[v].up \in Uploads
        <5>1. TypeInv'
          BY <1>2, TypeStep
        <5> QED
          BY <3>2, <5>1 DEF TypeInv, WorkerPlaced, Placed, Worker
      <4>2. CASE wk'[v].up = wk[v].up /\ wk'[v].job = wk[v].job
        <5>1. Dry(wk[v].up)
          BY <1>2, <3>2, <4>2 DEF DryInv
        <5> QED
          BY <1>2, <4>1, <4>2, <5>1, MishapsGrow DEF Dry
      <4>3. CASE v = w /\ IsGiven(w)
        <5>1. PICK u \in Uploads : wk'[w].up = u /\ Note(u, {"dry"})
          BY <3>2, <4>3 DEF IsGiven
        <5> QED
          BY <1>2, <4>3, <5>1 DEF Note, Dry, TypeInv, TypeOK
      <4>4. CASE v = w /\ LetsGo(w)
        BY <3>2, <4>4 DEF LetsGo
      <4> QED
        BY <1>2, <2>2, <4>2, <4>3, <4>4, OthersStay, Moves DEF Keeps
    <3> QED
      BY <3>1, <3>2 DEF DryInv
  <2> QED
    BY <1>2, <2>1, <2>2 DEF Next, Action
<1> QED
  BY <1>1, <1>2, TypeInvariance, SlotInvariance, KnownInvariance, PTL DEF Spec

\* A row is sent to the APP at most MaxAttempts times unless retries overlap,
\* and a row of a dry run is never sent.
THEOREM Limited == Spec => []SendsWithinLimit
<1>1. TypeInv /\ SlotInv /\ DryInv => SendsWithinLimit
  <2> SUFFICES ASSUME TypeInv, SlotInv, DryInv, NEW s \in Slots
               PROVE  /\ sends[s] > MaxAttempts => Excused(s[1], {"overlap"})
                      /\ Excused(s[1], {"dry"}) => sends[s] = 0
    BY DEF SendsWithinLimit
  <2>1. Overlap(s) \/ CountsAgree(s)
    BY DEF SlotInv, Sound, Exclusive
  <2>2. CASE CountsAgree(s)
    <3>1. Excused(s[1], {"dry"}) => Dry(s[1]) /\ s[1] \in Uploads
      BY DEF Excused, Dry, Slots
    <3>2. Excused(s[1], {"dry"}) => sends[s] = 0
      BY <3>1 DEF DryInv, DryAlone
    <3>3. row[s].attempts \in Nat /\ sends[s] = row[s].attempts /\ row[s].attempts <= MaxAttempts
      BY <2>2 DEF CountsAgree, TypeInv, TypeOK, Row
    <3> QED
      BY <3>2, <3>3, IntakeAssumption
  <2>3. CASE Overlap(s)
    <3>1. Excused(s[1], {"overlap"})
      BY <2>3 DEF Overlap, Excused
    <3>2. Excused(s[1], {"dry"}) => Dry(s[1]) /\ s[1] \in Uploads
      BY DEF Excused, Dry, Slots
    <3> QED
      BY <3>1, <3>2 DEF DryInv, DryAlone
  <2> QED
    BY <2>1, <2>2, <2>3
<1> QED
  BY <1>1, TypeInvariance, SlotInvariance, DryInvariance, PTL

-----------------------------------------------------------------------------
(* No upload is forgotten.                                                   *)

Open(u) == upload[u].status \in {"RECEIVED", "PARSING", "PROCESSING"}
Down(u) == "down" \in mishaps[u]
HeldUpload(u) ==
  \/ \E w \in Workers : wk[w].up = u /\ wk[w].job # "retry"
  \/ \E n \in 0 .. MaxTaskRetries : <<u, n>> \in queue

\* Who lets go of an upload settles it, unless it goes down.
LEMMA LettingGo ==
  ASSUME TypeInv, NEW w \in Workers, Action(w), NEW u \in Uploads,
         wk[w].up = u, wk[w].job # "retry", wk'[w].up # u \/ wk'[w].job = "retry"
  PROVE  ~Open(u)' \/ Down(u)'
<1>1. ASSUME NEW x \in {"FAILED", "COMPLETE", "PARTIAL"}, SetStatus(u, x)
      PROVE  ~Open(u)'
  BY <1>1 DEF SetStatus, Open, TypeInv, TypeOK, Upload
<1>2. ~Keeps(w)
  BY DEF Keeps
<1>3. wk[w].pc \notin {"idle", "checked", "retrying"}
  BY IntakeAssumption DEF TypeInv, WorkerPlaced, Placed
<1>4. CASE RefuseFile(w) \/ NoValidRows(w) \/ Raise(w)
  BY <1>1, <1>4 DEF RefuseFile, NoValidRows, Raise, Up
<1>5. CASE FinishRun(w)
  BY <1>5 DEF FinishRun, Open, Up, TypeInv, TypeOK
<1>6. CASE Crash(w)
  BY <1>6 DEF Crash, Down, Up, TypeInv, TypeOK
<1>7. ASSUME NEW ok \in BOOLEAN, InRow(w), Return(w, ok)
      PROVE  FALSE
  BY <1>2, <1>7, ReturnMoves
<1>8. CASE StartRun(w) \/ SaveInvalid(w) \/ StartRows(w)
  <2>1. \E r : /\ wk' = [wk EXCEPT ![w] = r]
               /\ r.up = wk[w].up /\ r.job = wk[w].job
    <3>1. CASE StartRun(w)
      <4>1. [wk[w] EXCEPT !.pc = "invalid", !.todo = bad].up = wk[w].up
            /\ [wk[w] EXCEPT !.pc = "invalid", !.todo = bad].job = wk[w].job
        BY DEF TypeInv, TypeOK, Worker
      <4> QED
        BY <3>1, <4>1 DEF StartRun
    <3>2. CASE StartRows(w)
      <4>1. [wk[w] EXCEPT !.pc = "rows", !.todo = Rows \ bad].up = wk[w].up
            /\ [wk[w] EXCEPT !.pc = "rows", !.todo = Rows \ bad].job = wk[w].job
        BY DEF TypeInv, TypeOK, Worker
      <4> QED
        BY <3>2, <4>1 DEF StartRows
    <3>3. CASE SaveInvalid(w)
      <4>1. PICK q \in Rows : wk' = [wk EXCEPT ![w].todo = @ \ {q}]
        BY <3>3 DEF SaveInvalid
      <4>2. [wk[w] EXCEPT !.todo = @ \ {q}].up = wk[w].up
            /\ [wk[w] EXCEPT !.todo = @ \ {q}].job = wk[w].job
        BY DEF TypeInv, TypeOK, Worker
      <4> QED
        BY <4>1, <4>2
    <3> QED
      BY <1>8, <3>1, <3>2, <3>3
  <2> QED
    BY <1>2, <2>1 DEF Keeps, TypeInv, TypeOK
<1>9. CASE InsertRow(w) \/ SaveSubmitted(w) \/ Submit(w) \/ (MapRow(w) /\ Goto(w, "ready"))
  BY <1>2, <1>9, InsertStep, RowGoesOn, SubmitStep DEF Keeps, SameBut, Slot
<1>10. CASE (MapRow(w) /\ Return(w, TRUE)) \/ SaveCleared(w) \/ SaveFailed(w) \/ RowFails(w)
  <2>1. InRow(w)
    BY <1>10 DEF MapRow, SaveCleared, SaveFailed, RowFails, InRow, At
  <2> QED
    BY <1>7, <1>10, <2>1 DEF SaveCleared, SaveFailed, RowFails
<1>11. CASE RowRaises(w)
  BY <1>4, <1>11 DEF RowRaises
<1> QED
  BY <1>3, <1>4, <1>5, <1>6, <1>8, <1>9, <1>10, <1>11
     DEF Action, Intake, CheckUpload, CreateUpload, Arrive, StartTask, Run, KeyTaken, RunFails,
         ProcessRow, Retry, StartRetry, RetryRow, EndRetry, MapRow, At

\* Who opens an upload holds it, or queues it.
LEMMA Opening ==
  ASSUME TypeInv, NEW w \in Workers, Action(w), NEW u \in Uploads, ~Open(u), Open(u)'
  PROVE  HeldUpload(u)' \/ Down(u)'
<1>1. CASE CreateUpload(w, u)
  <2>1. CASE <<u, 0>> \in queue'
    BY <2>1, IntakeAssumption DEF HeldUpload
  <2>2. CASE Note(u, Resent(u) \cup {"down"})
    BY <2>2 DEF Note, Down, TypeInv, TypeOK
  <2> QED
    BY <1>1, <2>1, <2>2 DEF CreateUpload
<1>2. CASE Arrive(w, u)
  <2>1. PICK job \in {"arrival", "dry"} :
          wk' = [wk EXCEPT ![w] = [Idle EXCEPT !.pc = "arrived", !.job = job, !.up = u]]
    BY <1>2 DEF Arrive
  <2>2. wk'[w] = [Idle EXCEPT !.pc = "arrived", !.job = job, !.up = u]
    BY <2>1 DEF TypeInv, TypeOK
  <2>3. wk'[w].up = u /\ wk'[w].job # "retry"
    BY <2>2 DEF Idle
  <2> QED
    BY <2>3 DEF HeldUpload
<1>3. CASE (StartRun(w) \/ StartRows(w)) /\ Up(w) = u
  <2>1. wk[w].job # "retry" /\ wk[w] \in Worker
    BY <1>3 DEF StartRun, StartRows, At, TypeInv, WorkerPlaced, Placed
  <2>2. \/ wk'[w] = [wk[w] EXCEPT !.pc = "invalid", !.todo = bad]
        \/ wk'[w] = [wk[w] EXCEPT !.pc = "rows", !.todo = Rows \ bad]
    BY <1>3 DEF StartRun, StartRows, TypeInv, TypeOK
  <2>3. wk'[w].up = u /\ wk'[w].job # "retry"
    BY <1>3, <2>1, <2>2 DEF Up, Worker
  <2> QED
    BY <2>3 DEF HeldUpload
<1>4. ASSUME NEW v, NEW x, SetStatus(v, x), v # u \/ x = "FAILED"
      PROVE  FALSE
  BY <1>4 DEF SetStatus, Open, TypeInv, TypeOK, Upload
<1>5. FinishRun(w) => FALSE
  BY DEF FinishRun, Open, TypeInv, TypeOK
<1>6. upload' # upload
  BY DEF Open
<1>7. CASE \E v \in Uploads : v # u /\ (CreateUpload(w, v) \/ Arrive(w, v))
  BY <1>4, <1>7 DEF CreateUpload, Arrive
<1>8. CASE (StartRun(w) \/ StartRows(w)) /\ Up(w) # u
  BY <1>4, <1>8 DEF StartRun, StartRows
<1>9. CASE RefuseFile(w) \/ NoValidRows(w) \/ Raise(w)
  BY <1>4, <1>9 DEF RefuseFile, NoValidRows, Raise
<1>10. CASE /\ \A v \in Uploads : ~CreateUpload(w, v) /\ ~Arrive(w, v)
            /\ ~StartRun(w) /\ ~StartRows(w) /\ ~RefuseFile(w) /\ ~NoValidRows(w) /\ ~Raise(w)
            /\ ~FinishRun(w)
  BY <1>6, <1>10 DEF Action, Intake, CheckUpload, StartTask, Run, SaveInvalid, InsertRow,
       KeyTaken, RunFails, ProcessRow, MapRow, SaveSubmitted, Submit, SaveCleared, SaveFailed,
       RowFails, RowRaises, Retry, StartRetry, RetryRow, EndRetry, Crash
<1> QED
  BY <1>1, <1>2, <1>3, <1>5, <1>7, <1>8, <1>9, <1>10

\* An upload stays held until it is settled.
LEMMA HeldStays ==
  ASSUME TypeInv, NEW w \in Workers, Action(w), NEW u \in Uploads, HeldUpload(u), Open(u)'
  PROVE  HeldUpload(u)' \/ Down(u)'
<1>1. CASE \E v \in Workers : wk[v].up = u /\ wk[v].job # "retry"
  <2>1. PICK v \in Workers : wk[v].up = u /\ wk[v].job # "retry"
    BY <1>1
  <2>2. CASE wk'[v].up = u /\ wk'[v].job # "retry"
    BY <2>2 DEF HeldUpload
  <2>3. CASE wk'[v].up # u \/ wk'[v].job = "retry"
    <3>1. v = w
      BY <2>1, <2>3, OthersStay
    <3> QED
      BY <2>1, <2>3, <3>1, LettingGo
  <2> QED
    BY <2>2, <2>3
<1>2. CASE \E n \in 0 .. MaxTaskRetries : <<u, n>> \in queue
  <2>1. PICK n \in 0 .. MaxTaskRetries : <<u, n>> \in queue
    BY <1>2
  <2>2. CASE <<u, n>> \in queue'
    BY <2>2 DEF HeldUpload
  <2>3. CASE <<u, n>> \notin queue'
    <3>1. StartTask(w, u, n)
      <4>1. ASSUME ~ \E v \in Uploads, k \in 0 .. MaxTaskRetries : StartTask(w, v, k)
            PROVE  queue \subseteq queue'
        BY <4>1 DEF Action, Intake, CheckUpload, CreateUpload, Arrive, RefuseFile, Run,
             StartRun, SaveInvalid, NoValidRows, StartRows, InsertRow, KeyTaken, RunFails,
             FinishRun, Raise, ProcessRow, MapRow, SaveSubmitted, Submit, SaveCleared,
             SaveFailed, RowFails, RowRaises, Retry, StartRetry, RetryRow, EndRetry, Crash
      <4>2. PICK v \in Uploads, k \in 0 .. MaxTaskRetries : StartTask(w, v, k)
        BY <2>1, <2>3, <4>1
      <4>3. v = u /\ k = n
        BY <2>1, <2>3, <4>2 DEF StartTask
      <4> QED
        BY <4>2, <4>3
    <3>2. wk'[w] = [Idle EXCEPT !.pc = "parsing", !.job = "task", !.up = u, !.tries = n]
      BY <3>1 DEF StartTask, TypeInv, TypeOK
    <3>3. wk'[w].up = u /\ wk'[w].job # "retry"
      BY <3>2 DEF Idle
    <3> QED
      BY <3>3 DEF HeldUpload
  <2> QED
    BY <2>2, <2>3
<1> QED
  BY <1>1, <1>2 DEF HeldUpload

\* A SUBMITTED row is being sent, or was answered.
Sending(s) == \E w \in Workers : Slot(w) = s /\ wk[w].pc \in {"sending", "answered"}

LEMMA SubmittedStep ==
  ASSUME TypeInv, NEW w \in Workers, Action(w), NEW s \in Slots,
         row[s].status = "SUBMITTED" => Sending(s), row'[s].status = "SUBMITTED"
  PROVE  Sending(s)' \/ Down(s[1])'
<1>0. row[s] \in Row
  BY DEF TypeInv, TypeOK
<1>1. CASE InHand(w, s) /\ ProcessRow(w)
  <2>1. Slot(w) = s /\ wk[w].up = s[1] /\ wk[w].up \in Uploads
    BY <1>1, SlotType DEF InHand, Slot, Up
  <2>2. ~SaveCleared(w) /\ ~SaveFailed(w) /\ ~MapRow(w) /\ ~RowFails(w)
    BY ZenonT(60), <1>0, <2>1 DEF SaveCleared, SaveFailed, MapRow, RowFails, SetRow, TypeInv, TypeOK, Row
  <2>3. CASE SaveSubmitted(w)
    BY <2>1, <2>3, RowGoesOn DEF Sending
  <2>4. CASE Submit(w)
    <3>1. Slot(w)' = s /\ wk'[w].pc = "answered"
      BY <2>1, <2>4, SubmitStep DEF At
    <3> QED
      BY <3>1 DEF Sending
  <2>5. CASE RowRaises(w)
    BY <2>1, <2>5 DEF RowRaises, Note, Down, Up, TypeInv, TypeOK
  <2> QED
    BY <1>1, <2>2, <2>3, <2>4, <2>5 DEF ProcessRow
<1>2. CASE ~(InHand(w, s) /\ ProcessRow(w))
  <2>1. row[s].status = "SUBMITTED"
    BY <1>0, <1>2, RowChanges DEF Row
  <2>2. PICK v \in Workers : Slot(v) = s /\ wk[v].pc \in {"sending", "answered"}
    BY <2>1 DEF Sending
  <2>3. CASE v # w
    <3>1. wk'[v] = wk[v]
      BY <2>3, OthersStay
    <3> QED
      BY <2>2, <3>1 DEF Sending, Slot
  <2>4. CASE v = w
    <3>1. Crash(w)
      BY <1>2, <2>2, <2>4 DEF Action, Intake, CheckUpload, CreateUpload, Arrive, StartTask,
         RefuseFile, Run, StartRun, SaveInvalid, NoValidRows, StartRows, InsertRow, KeyTaken,
         RunFails, FinishRun, Retry, StartRetry, RetryRow, EndRetry, At, InHand, InRow
    <3>2. Up(w) = s[1] /\ Up(w) \in Uploads
      BY <2>2, <2>4, SlotType DEF InRow, Slot, Up
    <3> QED
      BY <3>1, <3>2 DEF Crash, Down, TypeInv, TypeOK
  <2> QED
    BY <2>3, <2>4
<1> QED
  BY <1>1, <1>2

\* An upload that is not settled has a worker or a message, and a SUBMITTED row
\* is in somebody's hand, unless a process died or the database or the broker
\* failed.
THEOREM NoneForgotten == Spec => []UploadIsHeld
<1> DEFINE Held(u) ==
      Down(u) \/ ((Open(u) => HeldUpload(u))
                  /\ \A n \in Nums : row[<<u, n>>].status = "SUBMITTED" => Sending(<<u, n>>))
<1>1. UploadIsHeld <=> \A u \in Uploads : Held(u)
  BY DEF UploadIsHeld, Excused, Down, Open, HeldUpload, Sending
<1>2. Init => \A u \in Uploads : Held(u)
  BY DEF Init, Open, NoRow, Slots
<1>3. ASSUME TypeInv, [Next]_vars, NEW u \in Uploads, Held(u)
      PROVE  Held(u)'
  <2>1. Down(u) => Down(u)'
    BY <1>3, MishapsGrow DEF Down
  <2>2. CASE UNCHANGED vars
    BY <1>3, <2>2 DEF vars, Down, Open, HeldUpload, Sending, Slot
  <2>3. ASSUME NEW w \in Workers, Action(w), ~Down(u)', ~Down(u)
        PROVE  Held(u)'
    <3>1. Open(u)' => HeldUpload(u)'
      BY <1>3, <2>3, Opening, HeldStays
    <3>2. ASSUME NEW n \in Nums, row'[<<u, n>>].status = "SUBMITTED"
          PROVE  Sending(<<u, n>>)'
      <4>1. PICK s \in Slots : s = <<u, n>>
        BY DEF Slots
      <4>2. Sending(s)'
        BY <1>3, <2>3, <3>2, <4>1, SubmittedStep
      <4> QED
        BY <4>1, <4>2
    <3> QED
      BY <3>1, <3>2
  <2> QED
    BY <1>3, <2>1, <2>2, <2>3 DEF Next, Action
<1>4. TypeInv /\ [Next]_vars /\ UploadIsHeld => UploadIsHeld'
  <2>1. UploadIsHeld' <=> \A u \in Uploads : Held(u)'
    BY DEF UploadIsHeld, Excused, Down, Open, HeldUpload, Sending, Slot
  <2> QED
    BY <1>1, <1>3, <2>1
<1>5. Init => UploadIsHeld
  BY <1>1, <1>2
<1> QED
  BY <1>4, <1>5, TypeInvariance, PTL DEF Spec

-----------------------------------------------------------------------------
(* What COMPLETE and cleared_rows say of the rows.                           *)

Runs(r) == r.job \in {"task", "arrival"}
SameCounts(w) == wk'[w].cleared = wk[w].cleared /\ wk'[w].failed = wk[w].failed

\* The steps of a worker that runs a file, or starts to.
LEMMA RunMoves ==
  ASSUME TypeInv, NEW w \in Workers, Action(w), Runs(wk'[w])
  PROVE  \/ wk'[w].cleared = 0 /\ wk'[w].pc \in {"arrived", "parsing"}
         \/ Keeps(w) /\ SameCounts(w) /\ wk'[w].pc = "invalid"
         \/ Keeps(w) /\ SameCounts(w) /\ wk'[w].pc = "rows" /\ wk'[w].todo = Rows \ bad
         \/ Keeps(w) /\ SameCounts(w) /\ InsertRow(w)
         \/ /\ Keeps(w) /\ SameCounts(w) /\ InRow(w) /\ InRow(w)' /\ Slot(w)' = Slot(w)
            /\ wk'[w].todo = wk[w].todo
         \/ /\ Keeps(w) /\ SaveCleared(w) /\ wk'[w].cleared = wk[w].cleared + 1
            /\ wk'[w].failed = wk[w].failed /\ wk'[w].todo = wk[w].todo /\ wk'[w].pc = "rows"
         \/ /\ Keeps(w) /\ wk'[w].cleared = wk[w].cleared /\ wk'[w].failed = wk[w].failed + 1
            /\ wk'[w].pc = "rows"
<1>0. wk[w] \in Worker /\ Placed(wk[w])
  BY DEF TypeInv, WorkerPlaced
<1>1. ASSUME NEW u \in Uploads, Arrive(w, u)
      PROVE  wk'[w].cleared = 0 /\ wk'[w].pc \in {"arrived", "parsing"}
  <2>1. PICK job \in {"arrival", "dry"} :
          wk' = [wk EXCEPT ![w] = [Idle EXCEPT !.pc = "arrived", !.job = job, !.up = u]]
    BY <1>1 DEF Arrive
  <2>2. wk'[w] = [Idle EXCEPT !.pc = "arrived", !.job = job, !.up = u]
    BY <2>1 DEF TypeInv, TypeOK
  <2> QED
    BY <2>2 DEF Idle
<1>2. ASSUME NEW u \in Uploads, NEW n \in 0 .. MaxTaskRetries, StartTask(w, u, n)
      PROVE  wk'[w].cleared = 0 /\ wk'[w].pc \in {"arrived", "parsing"}
  <2>1. wk'[w] = [Idle EXCEPT !.pc = "parsing", !.job = "task", !.up = u, !.tries = n]
    BY <1>2 DEF StartTask, TypeInv, TypeOK
  <2> QED
    BY <2>1 DEF Idle
<1>3. CASE StartRun(w)
  <2>1. wk'[w] = [wk[w] EXCEPT !.pc = "invalid", !.todo = bad]
    BY <1>3 DEF StartRun, TypeInv, TypeOK
  <2> QED
    BY <1>0, <2>1 DEF Worker, Keeps, SameCounts
<1>4. CASE StartRows(w)
  <2>1. wk'[w] = [wk[w] EXCEPT !.pc = "rows", !.todo = Rows \ bad]
    BY <1>4 DEF StartRows, TypeInv, TypeOK
  <2> QED
    BY <1>0, <2>1 DEF Worker, Keeps, SameCounts
<1>5. CASE SaveInvalid(w)
  <2>1. PICK q \in Rows : wk' = [wk EXCEPT ![w].todo = @ \ {q}]
    BY <1>5 DEF SaveInvalid
  <2>2. wk'[w] = [wk[w] EXCEPT !.todo = @ \ {q}] /\ wk[w].pc = "invalid"
    BY <1>5, <2>1 DEF TypeInv, TypeOK, SaveInvalid, At
  <2> QED
    BY <1>0, <2>2 DEF Worker, Keeps, SameCounts
<1>6. CASE InsertRow(w)
  BY <1>6, InsertStep DEF Keeps, SameBut, SameCounts
<1>7. CASE (MapRow(w) /\ Goto(w, "ready")) \/ SaveSubmitted(w)
  <2>1. InRow(w)
    BY <1>7 DEF MapRow, SaveSubmitted, At, InRow
  <2>2. /\ Slot(w)' = Slot(w) /\ SameBut(wk'[w], wk[w]) /\ wk'[w].todo = wk[w].todo
        /\ wk'[w].pc \in {"ready", "sending"}
    BY <1>7, RowGoesOn
  <2> QED
    BY <2>1, <2>2 DEF Keeps, SameBut, SameCounts, Slot, InRow
<1>8. CASE Submit(w)
  <2>1. InRow(w)
    BY <1>8 DEF Submit, At, InRow
  <2>2. /\ Slot(w)' = Slot(w) /\ SameBut(wk'[w], wk[w]) /\ wk'[w].todo = wk[w].todo
        /\ At(w, "answered")'
    BY <1>8, SubmitStep
  <2> QED
    BY <2>1, <2>2 DEF Keeps, SameBut, SameCounts, Slot, InRow, At
<1>9. ASSUME NEW ok \in BOOLEAN, InRow(w), Return(w, ok)
      PROVE  /\ Keeps(w) /\ wk[w].job # "retry" /\ wk'[w].pc = "rows" /\ wk'[w].todo = wk[w].todo
             /\ ok => wk'[w].cleared = wk[w].cleared + 1 /\ wk'[w].failed = wk[w].failed
             /\ ~ok => wk'[w].cleared = wk[w].cleared /\ wk'[w].failed = wk[w].failed + 1
  <2>1. wk'[w] = Returned(wk[w], ok)
    BY <1>9, ReturnStep
  <2>2. wk[w].job # "retry"
    BY <2>1 DEF Returned, Idle, Runs
  <2> DEFINE c == IF ok THEN wk[w].cleared + 1 ELSE wk[w].cleared
             f == IF ok THEN wk[w].failed ELSE wk[w].failed + 1
  <2>3. wk'[w] = [wk[w] EXCEPT !.pc = "rows", !.num = 0, !.attempts = 0, !.resp = 0,
                               !.cleared = c, !.failed = f]
    BY <2>1, <2>2 DEF Returned
  <2> HIDE DEF c, f
  <2>4. /\ wk'[w].pc = "rows" /\ wk'[w].todo = wk[w].todo /\ wk'[w].up = wk[w].up
        /\ wk'[w].job = wk[w].job /\ wk'[w].cleared = c /\ wk'[w].failed = f
    BY <1>0, <2>3 DEF Worker
  <2> QED
    BY <2>2, <2>4 DEF Keeps, c, f
<1>10. CASE MapRow(w) /\ Return(w, TRUE) /\ wk[w].job = "dry"
  <2>1. InRow(w)
    BY <1>10 DEF MapRow, InRow, At
  <2> QED
    BY <1>9, <1>10, <2>1 DEF Keeps, Runs
<1>11. CASE SaveCleared(w)
  <2>1. InRow(w) /\ Return(w, TRUE)
    BY <1>11 DEF SaveCleared, InRow, At
  <2> QED
    BY <1>9, <1>11, <2>1
<1>12. CASE (SaveFailed(w) \/ RowFails(w) \/ RowRaises(w)) /\ Return(w, FALSE)
  <2>1. InRow(w)
    BY <1>12 DEF SaveFailed, RowFails, RowRaises, InRow, At
  <2> QED
    BY <1>9, <1>12, <2>1
<1>13. Free(w) => FALSE
  BY FreeStep DEF Idle, Runs
<1>14. CheckUpload(w) => FALSE
  <2> SUFFICES ASSUME CheckUpload(w)
               PROVE  FALSE
    OBVIOUS
  <2>1. wk'[w] = [wk[w] EXCEPT !.pc = "checked"] /\ wk[w].pc = "idle"
    BY DEF CheckUpload, At, TypeInv, TypeOK
  <2> QED
    BY <1>0, <2>1 DEF Worker, Placed, Runs
<1>15. StartRetry(w) \/ RetryRow(w) => FALSE
  <2>1. StartRetry(w) => wk'[w].job = "retry"
    BY DEF StartRetry, TypeInv, TypeOK, Idle
  <2>2. RetryRow(w) => wk'[w].job = "retry"
    BY RetryStep DEF StartRetry, RetryRow, At
  <2> QED
    BY <2>1, <2>2 DEF Runs
<1> QED
  BY <1>1, <1>2, <1>3, <1>4, <1>5, <1>6, <1>7, <1>8, <1>10, <1>11, <1>12, <1>13, <1>14, <1>15
     DEF Action, Intake, CreateUpload, RefuseFile, Run, NoValidRows, KeyTaken, RunFails,
         FinishRun, Raise, ProcessRow, MapRow, SaveFailed, RowFails, RowRaises, Retry, EndRetry,
         Crash

Settled(s) == row[s].status = "CLEARED" /\ \A w \in Workers : ~Holds(w, s)

\* A row is taken in hand, or put on a list, only when it is new or FAILED.
LEMMA HoldAppears ==
  ASSUME TypeInv, NEW w \in Workers, Action(w), NEW s \in Slots, NEW v \in Workers,
         Holds(v, s)', \A x \in Workers : ~Holds(x, s)
  PROVE  row[s].status \in {"ABSENT", "FAILED"}
<1>0. TypeInv'
  BY TypeStep DEF Next, Action
<1>1. ~AllCalm(s)
  BY CalmHolds
<1>2. CASE InsertRow(w)
  <2>1. PICK q \in Rows :
          /\ row[Place(w, q)].status = "ABSENT"
          /\ wk'[w].up = wk[w].up /\ wk'[w].num = Number(q) /\ SameBut(wk'[w], wk[w])
          /\ \A x \in Workers : x # w => wk'[x] = wk[x]
    BY <1>2, InsertStep
  <2>2. ~Listed(v, s)'
    BY <2>1 DEF Holds, Listed, SameBut
  <2>3. v = w /\ Slot(w)' = s
    BY <2>1, <2>2 DEF Holds, InHand, InRow, Slot
  <2> QED
    BY <2>1, <2>3 DEF Slot, Place, Up
<1>3. CASE ProcessRow(w)
  <2>1. InRow(w)
    BY <1>3 DEF ProcessRow, MapRow, SaveSubmitted, Submit, SaveCleared, SaveFailed, RowFails,
                RowRaises, At, InRow
  <2>2. Slot(w) = s
    BY <1>1, <1>3, ProcessIsQuiet DEF Quiet
  <2> QED
    BY <2>1, <2>2 DEF Holds, InHand
<1>4. CASE Retry(w) \/ Crash(w)
  <2>1. CASE s \in Due
    BY <2>1 DEF Due
  <2>2. CASE RetryRow(w) /\ Slot(w)' = s
    <3>1. Listed(w, s)
      BY <2>2, RetryStep DEF StartRetry, RetryRow, At, Listed
    <3> QED
      BY <3>1 DEF Holds
  <2> QED
    BY <1>1, <1>4, <2>1, <2>2, RetryIsQuiet DEF Quiet
<1> QED
  BY <1>0, <1>1, <1>2, <1>3, <1>4, RunIsQuiet DEF Action

LEMMA SettledStays ==
  ASSUME TypeInv, NEW w \in Workers, Action(w), NEW s \in Slots, Settled(s)
  PROVE  Settled(s)'
<1>1. row'[s] = row[s]
  BY RowChanges DEF Settled, Holds
<1>2. \A v \in Workers : ~Holds(v, s)'
  BY HoldAppears DEF Settled
<1> QED
  BY <1>1, <1>2 DEF Settled

\* A run without failures has settled every valid row, has it in hand or still
\* has it to do.
OnTrack(w) ==
  Runs(wk[w]) /\ wk[w].pc \in {"rows", "mapping", "ready", "sending", "answered"}
    /\ wk[w].failed = 0 =>
    \A r \in Rows \ bad :
      r \in wk[w].todo \/ InHand(w, <<wk[w].up, Number(r)>>) \/ Settled(<<wk[w].up, Number(r)>>)

CompleteIsSettled ==
  \A u \in Uploads : upload[u].status = "COMPLETE" =>
    Dry(u) \/ \A r \in Rows \ bad : Settled(<<u, Number(r)>>)

LEMMA OnTrackStep ==
  ASSUME TypeInv, SlotInv, \A v \in Workers : OnTrack(v), NEW w \in Workers, Action(w),
         NEW x \in Workers
  PROVE  OnTrack(x)'
<1> SUFFICES ASSUME Runs(wk'[x]), wk'[x].pc \in {"rows", "mapping", "ready", "sending", "answered"},
                    wk'[x].failed = 0, NEW r \in Rows \ bad'
             PROVE  \/ r \in wk'[x].todo
                    \/ InHand(x, <<wk[x].up, Number(r)>>)'
                    \/ Settled(<<wk[x].up, Number(r)>>)'
  BY DEF OnTrack
<1>0. bad' = bad
  BY DEF Action, Intake, CheckUpload, CreateUpload, Arrive, StartTask, RefuseFile, Run, StartRun,
     SaveInvalid, NoValidRows, StartRows, InsertRow, KeyTaken, RunFails, FinishRun, ProcessRow,
     MapRow, SaveSubmitted, Submit, SaveCleared, SaveFailed, RowFails, RowRaises, Retry,
     StartRetry, RetryRow, EndRetry, Crash
<1>1. Number(r) \in Nums /\ Number(r)' = Number(r) /\ wk[x] \in Worker /\ TypeInv'
  BY <1>0, NumberType, TypeStep DEF Number, TypeInv, TypeOK, Next, Action
<1>2. wk'[x].up \in Uploads
  BY <1>1 DEF TypeInv, WorkerPlaced, Placed, Worker
<1>3. PICK s \in Slots : s = <<wk'[x].up, Number(r)>>
  BY <1>1, <1>2 DEF Slots
<1>4. SUFFICES r \in wk'[x].todo \/ InHand(x, s)' \/ Settled(s)'
  BY <1>1, <1>3
<1>5. ASSUME wk'[x].up = wk[x].up, Runs(wk[x]), wk[x].failed = 0,
             wk[x].pc \in {"rows", "mapping", "ready", "sending", "answered"}
      PROVE  r \in wk[x].todo \/ InHand(x, s) \/ Settled(s)'
  BY <1>0, <1>3, <1>5, SettledStays DEF OnTrack
<1>6. CASE x # w
  <2>1. wk'[x] = wk[x]
    BY <1>6, OthersStay
  <2> QED
    BY <1>5, <2>1 DEF InHand, InRow, Slot
<1>7. CASE x = w
  <2>1. CASE wk'[w].pc = "rows" /\ wk'[w].todo = Rows \ bad
    BY <1>0, <1>7, <2>1
  <2>2. CASE Keeps(w) /\ SameCounts(w) /\ InsertRow(w)
    <3>1. PICK q \in Rows : /\ wk[w].pc = "rows" /\ wk'[w].pc = "mapping"
                            /\ wk'[w].todo = wk[w].todo \ {q}
                            /\ wk'[w].up = wk[w].up /\ wk'[w].num = Number(q)
      BY <2>2, InsertStep DEF At
    <3>2. r \in wk[w].todo \/ Settled(s)'
      BY <1>5, <1>7, <2>2, <3>1 DEF Keeps, SameCounts, Runs, InHand, InRow
    <3>3. CASE r = q
      BY <1>3, <1>7, <3>1, <3>3 DEF InHand, InRow, Slot
    <3> QED
      BY <1>7, <3>1, <3>2, <3>3
  <2>3. CASE Keeps(w) /\ SameCounts(w) /\ InRow(w) /\ InRow(w)' /\ Slot(w)' = Slot(w)
             /\ wk'[w].todo = wk[w].todo
    BY <1>5, <1>7, <2>3 DEF Keeps, SameCounts, Runs, InHand, InRow
  <2>4. CASE /\ Keeps(w) /\ SaveCleared(w) /\ wk'[w].failed = wk[w].failed
             /\ wk'[w].todo = wk[w].todo /\ wk'[w].pc = "rows"
    <3>1. InRow(w) /\ wk[w].job # "retry"
      BY <1>7, <2>4 DEF SaveCleared, InRow, At, Keeps, Runs
    <3>2. r \in wk[w].todo \/ InHand(w, s) \/ Settled(s)'
      BY <1>5, <1>7, <2>4, <3>1 DEF Keeps, Runs, InRow
    <3>3. CASE InHand(w, s)
      <4>1. row'[s].status = "CLEARED"
        BY <2>4, <3>3 DEF SaveCleared, InHand, TypeInv, TypeOK, Row
      <4>2. \A v \in Workers : Holds(v, s) => v = w
        BY <3>1, <3>3 DEF SlotInv, Sound, RunAlone
      <4>3. ~Holds(w, s)'
        <5>1. ~Listed(w, s)
          BY <3>3, InHandFacts DEF SlotInv
        <5>2. ~Listed(w, s)'
          BY <2>4, <5>1, RowEnds DEF AllCalm, Calm, Listed
        <5> QED
          BY <2>4, <5>2 DEF Holds, InHand, InRow
      <4>4. AllCalm(s)
        BY <2>4, RowEnds
      <4> QED
        BY <4>1, <4>2, <4>3, <4>4, CalmHolds DEF Settled
    <3> QED
      BY <1>7, <2>4, <3>2, <3>3
  <2>5. wk[w].failed + 1 # 0 /\ wk[w].failed \in Nat
    BY <1>1, <1>7 DEF Worker
  <2> QED
    BY <1>7, <2>1, <2>2, <2>3, <2>4, <2>5, RunMoves
<1> QED
  BY <1>6, <1>7

\* Only the end of a run shows an upload as COMPLETE, or counts its rows.
LEMMA Finishing ==
  ASSUME TypeInv, NEW w \in Workers, Action(w), NEW u \in Uploads
  PROVE  /\ upload'[u].status = "COMPLETE" /\ upload[u].status # "COMPLETE" =>
              FinishRun(w) /\ wk[w].up = u /\ wk[w].failed = 0
         /\ \/ upload'[u].cleared = upload[u].cleared
            \/ FinishRun(w) /\ wk[w].up = u /\ upload'[u].cleared = wk[w].cleared
<1>1. CASE FinishRun(w)
  BY <1>1 DEF FinishRun, Up, TypeInv, TypeOK
<1>2. ASSUME NEW v, NEW x, x # "COMPLETE", SetStatus(v, x)
      PROVE  /\ upload'[u].status = "COMPLETE" => upload[u].status = "COMPLETE"
             /\ upload'[u].cleared = upload[u].cleared
  BY <1>2 DEF SetStatus, TypeInv, TypeOK, Upload
<1>3. CASE upload' = upload
  BY <1>3
<1>4. ASSUME ~FinishRun(w), upload' # upload
      PROVE  \E v, x : x # "COMPLETE" /\ SetStatus(v, x)
  BY <1>4 DEF Action, Intake, CheckUpload, CreateUpload, Arrive, StartTask, RefuseFile, Run,
       StartRun, SaveInvalid, NoValidRows, StartRows, InsertRow, KeyTaken, RunFails, Raise,
       ProcessRow, MapRow, SaveSubmitted, Submit, SaveCleared, SaveFailed, RowFails, RowRaises,
       Retry, StartRetry, RetryRow, EndRetry, Crash
<1> QED
  BY <1>1, <1>2, <1>3, <1>4

CompleteInv == (\A w \in Workers : OnTrack(w)) /\ CompleteIsSettled

LEMMA CompleteStep ==
  ASSUME TypeInv, SlotInv, DryInv, CompleteInv, NEW w \in Workers, Action(w)
  PROVE  CompleteInv'
<1>0. [Next]_vars
  BY DEF Next, Action
<1>1. \A x \in Workers : OnTrack(x)'
  BY OnTrackStep DEF CompleteInv
<1>2. bad' = bad /\ \A r \in Rows : Number(r)' = Number(r)
  BY DEF Number, Action, Intake, CheckUpload, CreateUpload, Arrive, StartTask, RefuseFile, Run,
     StartRun, SaveInvalid, NoValidRows, StartRows, InsertRow, KeyTaken, RunFails, FinishRun,
     ProcessRow, MapRow, SaveSubmitted, Submit, SaveCleared, SaveFailed, RowFails, RowRaises,
     Retry, StartRetry, RetryRow, EndRetry, Crash
<1>3. ASSUME NEW u \in Uploads, upload'[u].status = "COMPLETE", ~Dry(u)', NEW r \in Rows \ bad
      PROVE  Settled(<<u, Number(r)>>)'
  <2>1. ~Dry(u)
    BY <1>0, <1>3, MishapsGrow DEF Dry
  <2>2. PICK s \in Slots : s = <<u, Number(r)>>
    BY NumberType DEF Slots, TypeInv
  <2>3. Settled(s)
    <3>1. CASE upload[u].status = "COMPLETE"
      BY <1>3, <2>1, <2>2, <3>1 DEF CompleteInv, CompleteIsSettled
    <3>2. CASE upload[u].status # "COMPLETE"
      <4>1. FinishRun(w) /\ wk[w].up = u /\ wk[w].failed = 0
        BY <1>3, <3>2, Finishing
      <4>2. wk[w].pc = "rows" /\ wk[w].todo = {}
        BY <4>1 DEF FinishRun, At
      <4>3. Runs(wk[w])
        <5>1. wk[w].job # "dry"
          BY <2>1, <4>1 DEF DryInv
        <5> QED
          BY <4>2, <5>1 DEF Runs, TypeInv, WorkerPlaced, Placed
      <4>4. ~InHand(w, s)
        BY <4>2 DEF InHand, InRow
      <4> QED
        BY <1>3, <2>2, <4>1, <4>2, <4>3, <4>4 DEF CompleteInv, OnTrack
    <3> QED
      BY <3>1, <3>2
  <2> QED
    BY <1>2, <2>2, <2>3, SettledStays
<1> QED
  BY <1>1, <1>2, <1>3 DEF CompleteInv, CompleteIsSettled

LEMMA CompleteInvariance == Spec => []CompleteInv
<1>1. Init => CompleteInv
  BY DEF Init, CompleteInv, OnTrack, CompleteIsSettled, Idle, Runs
<1>2. ASSUME TypeInv, SlotInv, DryInv, CompleteInv, UNCHANGED vars
      PROVE  CompleteInv'
  <2>1. \A w \in Workers : \A s : Holds(w, s)' <=> Holds(w, s)
    BY <1>2 DEF vars, Holds, InHand, InRow, Slot, Listed
  <2>2. \A w \in Workers : OnTrack(w)'
    BY <1>2, <2>1 DEF vars, CompleteInv, OnTrack, Settled, Number, InHand, InRow, Slot
  <2>3. CompleteIsSettled'
    BY <1>2, <2>1 DEF vars, CompleteInv, CompleteIsSettled, Settled, Number, Dry
  <2> QED
    BY <2>2, <2>3 DEF CompleteInv
<1>3. TypeInv /\ SlotInv /\ DryInv /\ CompleteInv /\ [Next]_vars => CompleteInv'
  BY <1>2, CompleteStep DEF Next, Action
<1> QED
  BY <1>1, <1>3, TypeInvariance, SlotInvariance, DryInvariance, PTL DEF Spec

\* An upload shown as COMPLETE has an IRN for every valid row, unless it came by
\* a dry run: so refusing the file from then on loses nothing.
THEOREM CompleteMeansCleared == Spec => []CompleteIsCleared
<1>1. CompleteInv => CompleteIsCleared
  BY DEF CompleteInv, CompleteIsSettled, Settled, CompleteIsCleared, Dry, Excused
<1> QED
  BY <1>1, CompleteInvariance, PTL

\* The row numbers of an upload with an IRN.
Numbers(u) == {n \in Nums : row[<<u, n>>].irn # 0}

LEMMA NumbersFinite == \A u : IsFiniteSet(Numbers(u)) /\ Cardinality(Numbers(u)) \in Nat
<1>1. IsFiniteSet(Nums)
  BY FS_Interval, IntakeAssumption DEF Nums
<1> QED
  BY <1>1, FS_Subset, FS_CardinalityType DEF Numbers

\* IRNs stay, so their number only grows.
LEMMA NumbersGrow ==
  ASSUME TypeInv, NEW w \in Workers, Action(w), NEW u \in Uploads
  PROVE  Numbers(u) \subseteq Numbers(u)'
<1>1. \A s \in Slots : row[s].irn # 0 => row'[s].irn # 0
  <2>1. CASE SaveCleared(w)
    BY <2>1 DEF SaveCleared, TypeInv, TypeOK, Row
  <2>2. ASSUME NEW v \in Workers, v # w, SaveCleared(v), ~SaveCleared(w)
        PROVE  FALSE
    <3>1. InRow(v) /\ (Return(v, TRUE))
      BY <2>2 DEF SaveCleared, InRow, At
    <3>2. wk'[v].pc \in {"rows", "retrying"}
      BY <3>1, ReturnIsCalm
    <3>3. wk'[v] = wk[v]
      BY <2>2, OthersStay
    <3> QED
      BY <2>2, <3>2, <3>3 DEF SaveCleared, At
  <2>3. CASE ~ \E v \in Workers : SaveCleared(v)
    BY <2>3, RowsKeepIRN DEF Next, Action
  <2> QED
    BY <2>1, <2>2, <2>3
<1> QED
  BY <1>1 DEF Numbers, Slots

Counted ==
  /\ \A w \in Workers : Runs(wk[w]) => wk[w].cleared <= Cardinality(Numbers(wk[w].up))
  /\ \A u \in Uploads : Dry(u) \/ upload[u].cleared <= Cardinality(Numbers(u))

LEMMA CountedStep ==
  ASSUME TypeInv, SlotInv, DryInv, Counted, NEW w \in Workers, Action(w)
  PROVE  Counted'
<1>0. [Next]_vars /\ TypeInv'
  BY TypeStep DEF Next, Action
<1>1. ASSUME NEW u \in Uploads
      PROVE  /\ Cardinality(Numbers(u)) <= Cardinality(Numbers(u)')
             /\ Cardinality(Numbers(u)) \in Nat /\ Cardinality(Numbers(u)') \in Nat
             /\ IsFiniteSet(Numbers(u)')
  <2>1. IsFiniteSet(Numbers(u)') /\ Cardinality(Numbers(u)') \in Nat
    <3>1. Numbers(u)' \in SUBSET Nums /\ IsFiniteSet(Nums)
      BY FS_Interval, IntakeAssumption DEF Numbers, Nums, Rows
    <3> QED
      BY <3>1, FS_Subset, FS_CardinalityType
  <2>2. Numbers(u) \subseteq Numbers(u)'
    BY NumbersGrow
  <2> QED
    BY <2>1, <2>2, NumbersFinite, FS_Subset
<1>2. ASSUME NEW x \in Workers, Runs(wk'[x])
      PROVE  wk'[x].cleared <= Cardinality(Numbers(wk[x].up)')
  <2>1. PICK u \in Uploads : u = wk'[x].up
    BY <1>0, <1>2 DEF TypeInv, WorkerPlaced, Placed, Worker, Runs
  <2>2. wk[x].cleared \in Nat
    BY DEF TypeInv, TypeOK, Worker
  <2>3. ASSUME wk'[x].up = wk[x].up, wk'[x].job = wk[x].job, wk'[x].cleared = wk[x].cleared
        PROVE  wk'[x].cleared <= Cardinality(Numbers(u)')
    <3>1. wk[x].cleared <= Cardinality(Numbers(u))
      BY <1>2, <2>1, <2>3 DEF Counted, Runs
    <3> QED
      BY <1>1, <2>2, <2>3, <3>1
  <2>4. CASE x # w
    BY <2>1, <2>3, <2>4, OthersStay
  <2>5. CASE x = w /\ Keeps(w) /\ wk'[w].cleared = wk[w].cleared
    BY <2>1, <2>3, <2>5 DEF Keeps
  <2>6. CASE x = w /\ wk'[w].cleared = 0
    BY <1>1, <2>1, <2>6
  <2>7. CASE x = w /\ Keeps(w) /\ SaveCleared(w) /\ wk'[w].cleared = wk[w].cleared + 1
    <3>1. InRow(w) /\ wk[w].up = u /\ Runs(wk[w])
      BY <1>2, <2>1, <2>7 DEF Keeps, Runs, SaveCleared, InRow, At
    <3>2. PICK s \in Slots : s = Slot(w) /\ s = <<u, wk[w].num>> /\ wk[w].num \in Nums
      BY <3>1, SlotType DEF Slot, Slots
    <3>3. row[s].irn = 0
      BY <3>1, <3>2 DEF SlotInv, Sound, RunAlone, InHand, Runs
    <3>4. row'[s].irn # 0
      BY <2>7, <3>2 DEF SaveCleared, TypeInv, TypeOK, Row
    <3>5. wk[w].num \in Numbers(u)' /\ wk[w].num \notin Numbers(u)
      BY <3>2, <3>3, <3>4 DEF Numbers
    <3>6. Cardinality(Numbers(u) \cup {wk[w].num}) = Cardinality(Numbers(u)) + 1
      BY <3>5, NumbersFinite, FS_AddElement
    <3>7. Numbers(u) \cup {wk[w].num} \subseteq Numbers(u)'
      BY <3>5, NumbersGrow
    <3>8. Cardinality(Numbers(u) \cup {wk[w].num}) <= Cardinality(Numbers(u)')
      BY <1>1, <3>7, FS_Subset
    <3>9. wk[w].cleared <= Cardinality(Numbers(u))
      BY <3>1 DEF Counted
    <3> QED
      BY <1>1, <2>1, <2>2, <2>7, <3>6, <3>8, <3>9
  <2> QED
    BY <1>2, <2>1, <2>4, <2>5, <2>6, <2>7, RunMoves DEF SameCounts
<1>3. ASSUME NEW u \in Uploads, ~Dry(u)'
      PROVE  upload'[u].cleared <= Cardinality(Numbers(u)')
  <2>1. ~Dry(u)
    BY <1>0, <1>3, MishapsGrow DEF Dry
  <2>2. CASE upload'[u].cleared = upload[u].cleared
    <3>1. upload[u].cleared <= Cardinality(Numbers(u)) /\ upload[u].cleared \in Nat
      BY <2>1 DEF Counted, TypeInv, TypeOK, Upload
    <3> QED
      BY <1>1, <2>2, <3>1
  <2>3. CASE FinishRun(w) /\ wk[w].up = u /\ upload'[u].cleared = wk[w].cleared
    <3>1. Runs(wk[w]) /\ wk[w].cleared \in Nat
      <4>1. wk[w].job # "dry"
        BY <2>1, <2>3 DEF DryInv
      <4> QED
        BY <2>3, <4>1 DEF FinishRun, At, Runs, TypeInv, WorkerPlaced, Worker, Placed
    <3>2. wk[w].cleared <= Cardinality(Numbers(u))
      BY <2>3, <3>1 DEF Counted
    <3> QED
      BY <1>1, <2>3, <3>1, <3>2
  <2> QED
    BY <2>2, <2>3, Finishing
<1> QED
  BY <1>2, <1>3 DEF Counted

\* cleared_rows never exceeds the number of rows with an IRN, dry runs apart.
THEOREM NeverMore == Spec => []NeverOverstated
<1>1. Init => Counted
  <2> SUFFICES ASSUME Init
               PROVE  Counted
    OBVIOUS
  <2>1. \A u \in Uploads : upload[u].cleared = 0 /\ Cardinality(Numbers(u)) \in Nat
    BY NumbersFinite DEF Init
  <2>2. \A w \in Workers : ~Runs(wk[w])
    BY DEF Init, Runs, Idle
  <2> QED
    BY <2>1, <2>2 DEF Counted
<1>2. ASSUME TypeInv, SlotInv, DryInv, Counted, UNCHANGED vars
      PROVE  Counted'
  <2>1. \A u : Numbers(u)' = Numbers(u)
    BY <1>2 DEF vars, Numbers
  <2> QED
    BY <1>2, <2>1 DEF vars, Counted, Dry
<1>3. TypeInv /\ SlotInv /\ DryInv /\ Counted /\ [Next]_vars => Counted'
  BY <1>2, CountedStep DEF Next, Action
<1>4. Counted => NeverOverstated
  BY DEF Counted, NeverOverstated, Numbers, Dry, Excused
<1> QED
  BY <1>1, <1>3, <1>4, TypeInvariance, SlotInvariance, DryInvariance, PTL DEF Spec

-----------------------------------------------------------------------------
(* The duplicate checks.                                                     *)

\* The worker that acts arrives, or has checked, by no other step than those.
LEMMA Entering ==
  ASSUME TypeInv, NEW w \in Workers, Action(w), wk'[w].pc \in {"arrived", "checked"}
  PROVE  (\E u \in Uploads : Arrive(w, u)) \/ CheckUpload(w)
<1>1. Free(w) => FALSE
  BY FreeStep DEF Idle
<1>2. ASSUME NEW ok \in BOOLEAN, InRow(w), Return(w, ok)
      PROVE  FALSE
  BY <1>2, ReturnIsCalm
<1>3. CASE MapRow(w) \/ SaveCleared(w) \/ SaveFailed(w) \/ RowFails(w) \/ RowRaises(w)
  <2>1. InRow(w)
    BY <1>3 DEF MapRow, SaveCleared, SaveFailed, RowFails, RowRaises, InRow, At
  <2>2. ~(MapRow(w) /\ Goto(w, "ready"))
    BY RowGoesOn
  <2> QED
    BY <1>1, <1>2, <1>3, <2>1, <2>2 DEF MapRow, SaveCleared, SaveFailed, RowFails, RowRaises, Raise
<1>4. CASE SaveSubmitted(w) \/ Submit(w) \/ InsertRow(w)
  BY <1>4, RowGoesOn, SubmitStep, InsertStep DEF At
<1>5. CASE StartRun(w) \/ StartRows(w)
  <2>1. \/ wk'[w] = [wk[w] EXCEPT !.pc = "invalid", !.todo = bad]
        \/ wk'[w] = [wk[w] EXCEPT !.pc = "rows", !.todo = Rows \ bad]
    BY <1>5 DEF StartRun, StartRows, TypeInv, TypeOK
  <2> QED
    BY <2>1 DEF TypeInv, TypeOK, Worker
<1>6. CASE SaveInvalid(w)
  <2>1. PICK q \in Rows : wk' = [wk EXCEPT ![w].todo = @ \ {q}]
    BY <1>6 DEF SaveInvalid
  <2>2. wk'[w].pc = wk[w].pc /\ wk[w].pc = "invalid"
    BY <1>6, <2>1 DEF SaveInvalid, At, TypeInv, TypeOK, Worker
  <2> QED
    BY <2>2
<1>7. ASSUME NEW u \in Uploads, NEW n \in 0 .. MaxTaskRetries, StartTask(w, u, n)
      PROVE  FALSE
  BY <1>7 DEF StartTask, Idle, TypeInv, TypeOK
<1>8. CASE StartRetry(w) \/ RetryRow(w)
  BY <1>8, RetryStep
<1> QED
  BY <1>1, <1>3, <1>4, <1>5, <1>6, <1>7, <1>8
     DEF Action, Intake, CreateUpload, RefuseFile, Run, NoValidRows, KeyTaken, RunFails,
         FinishRun, Raise, ProcessRow, Retry, EndRetry, Crash

Res(u) == "resent" \in mishaps[u]

\* An upload from which something may still be sent, or was.
Live(u) == Queued(u) \/ HasRows(u) \/ \E w \in Workers : wk[w].up = u /\ ~At(w, "arrived")

FileInv ==
  /\ \A u, v \in Uploads : u # v /\ Live(u) /\ Live(v) => Res(u) \/ Res(v)
  /\ \A w \in Workers, v \in Uploads :
       At(w, "checked") /\ upload[v].status = "COMPLETE" => Res(v)
  /\ \A w \in Workers : At(w, "arrived") => wk[w].job # "task"

\* An upload comes to life when the view has created it, or the watcher or the
\* agent has found no duplicate.
LEMMA LiveAppears ==
  ASSUME TypeInv, SlotInv, FileInv, NEW w \in Workers, Action(w), NEW u \in Uploads,
         Live(u)', ~Live(u)
  PROVE  CreateUpload(w, u) \/ (StartRun(w) /\ At(w, "arrived") /\ wk[w].up = u)
<1>1. CASE Queued(u)'
  <2>1. PICK m \in queue' : m[1] = u /\ m \notin queue
    BY <1>1 DEF Queued, Live
  <2>2. ~(wk[w].up = u /\ wk[w].job = "task")
    BY DEF FileInv, Live
  <2> QED
    BY <2>1, <2>2, MessageAppears
<1>2. CASE HasRows(u)'
  <2>1. PICK s \in Slots : s[1] = u /\ row'[s].status # "ABSENT" /\ row[s].status = "ABSENT"
    BY <1>2 DEF HasRows, Live
  <2>2. \E v \in Workers : wk[v].up = u /\ wk[v].pc \in {"invalid", "rows"}
    BY <2>1, RowAppears DEF Next, Action
  <2> QED
    BY <2>2 DEF Live, At
<1>3. CASE \E v \in Workers : wk'[v].up = u /\ ~At(v, "arrived")'
  <2>1. PICK v \in Workers : wk'[v].up = u /\ wk'[v].pc # "arrived"
    BY <1>3 DEF At
  <2>2. v = w
    BY <2>1, OthersStay DEF Live, At
  <2>3. CASE Keeps(w)
    <3>1. wk[w].up = u /\ wk[w].pc = "arrived"
      BY <2>1, <2>2, <2>3 DEF Keeps, Live, At
    <3>2. ~Free(w)
      BY <2>1, <2>2, FreeStep, IntakeAssumption DEF Idle
    <3> QED
      BY <3>1, <3>2 DEF At, Action, Intake, CheckUpload, CreateUpload, Arrive, StartTask,
         RefuseFile, Run, SaveInvalid, NoValidRows, StartRows, InsertRow, KeyTaken, RunFails,
         FinishRun, Raise, ProcessRow, MapRow, SaveSubmitted, Submit, SaveCleared, SaveFailed,
         RowFails, RowRaises, InRow, Retry, StartRetry, RetryRow, EndRetry, Crash
  <2>4. CASE LetsGo(w)
    BY <2>1, <2>2, <2>4, IntakeAssumption DEF LetsGo
  <2>5. CASE IsGiven(w)
    <3>1. \A n \in 0 .. MaxTaskRetries : ~StartTask(w, u, n)
      BY DEF StartTask, Live, Queued
    <3>2. ASSUME NEW s \in Slots, Listed(w, s), Slot(w)' = s
          PROVE  FALSE
      <4>1. s[1] = u
        BY <2>1, <2>2, <3>2 DEF Slot
      <4> QED
        BY <3>2, <4>1, ListedHasRow DEF Live
    <3> QED
      BY <2>1, <2>2, <2>5, <3>1, <3>2 DEF IsGiven
  <2> QED
    BY <2>3, <2>4, <2>5, Moves
<1> QED
  BY <1>1, <1>2, <1>3 DEF Live

\* What came to life is excused, or everything else that is known was.
LEMMA NewIsExcused ==
  ASSUME TypeInv, SlotInv, FileInv, Known, NEW w \in Workers, Action(w),
         NEW u \in Uploads, NEW v \in Uploads, u # v, Live(u)', ~Live(u), Live(v)'
  PROVE  Res(u)' \/ Res(v)'
<1>1. Known'
  BY KnownStep DEF Next, Action
<1>2. upload'[v].status # "ABSENT"
  <2>1. Worked(v)' \/ Queued(v)' \/ HasRows(v)'
    BY DEF Live, Worked
  <2> QED
    BY <1>1, <2>1 DEF Known
<1>3. CASE CreateUpload(w, u)
  <2>1. upload[v].status # "ABSENT"
    BY <1>2, <1>3 DEF CreateUpload, SetStatus, TypeInv, TypeOK
  <2>2. CASE upload[v].status # "COMPLETE"
    <3>1. "resent" \in Resent(u)
      BY <2>1, <2>2 DEF Resent
    <3> QED
      BY <1>3, <3>1 DEF CreateUpload, Note, Res, TypeInv, TypeOK
  <2>3. CASE upload[v].status = "COMPLETE"
    <3>1. Res(v)
      BY <1>3, <2>3 DEF FileInv, CreateUpload
    <3> QED
      BY <3>1, MishapsGrow DEF Res, Next, Action
  <2> QED
    BY <2>2, <2>3
<1>4. CASE StartRun(w) /\ At(w, "arrived") /\ wk[w].up = u
  <2>1. upload[v].status # "ABSENT"
    BY <1>2, <1>4 DEF StartRun, SetStatus, Up, TypeInv, TypeOK
  <2>2. upload[v].status # "COMPLETE"
    BY <1>4 DEF StartRun, Duplicate, Up, At
  <2>3. "resent" \in Resent(u)
    BY <2>1, <2>2 DEF Resent
  <2> QED
    BY <1>4, <2>3 DEF StartRun, Note, Res, Up, TypeInv, TypeOK
<1> QED
  BY <1>3, <1>4, LiveAppears

LEMMA FileStep ==
  ASSUME TypeInv, SlotInv, FileInv, Known, NEW w \in Workers, Action(w)
  PROVE  FileInv'
<1>0. [Next]_vars
  BY DEF Next, Action
<1>1. \A v \in Uploads : Res(v) => Res(v)'
  BY <1>0, MishapsGrow DEF Res
<1>2. ASSUME NEW u \in Uploads, NEW v \in Uploads, u # v, Live(u)', Live(v)'
      PROVE  Res(u)' \/ Res(v)'
  BY <1>1, <1>2, NewIsExcused DEF FileInv
<1>3. ASSUME NEW x \in Workers, NEW v \in Uploads, At(x, "checked")', upload'[v].status = "COMPLETE"
      PROVE  Res(v)'
  <2>1. CASE x = w
    <3>1. CheckUpload(w)
      <4>1. \A u \in Uploads : ~Arrive(w, u)
        BY <1>3, <2>1 DEF Arrive, Idle, At, TypeInv, TypeOK
      <4> QED
        BY <1>3, <2>1, <4>1, Entering DEF At
    <3> QED
      BY <1>3, <3>1 DEF CheckUpload
  <2>2. CASE x # w
    <3>1. At(x, "checked")
      BY <1>3, <2>2, OthersStay DEF At
    <3>2. CASE upload[v].status = "COMPLETE"
      BY <1>1, <3>1, <3>2 DEF FileInv
    <3>3. CASE upload[v].status # "COMPLETE"
      <4>1. FinishRun(w) /\ wk[w].up = v
        BY <1>3, <3>3, Finishing
      <4> QED
        BY <3>1, <4>1 DEF FinishRun, Note, Res, Up, TypeInv, TypeOK
    <3> QED
      BY <3>2, <3>3
  <2> QED
    BY <2>1, <2>2
<1>4. ASSUME NEW x \in Workers, At(x, "arrived")'
      PROVE  wk'[x].job # "task"
  <2>1. CASE x = w
    <3>1. ~CheckUpload(w)
      <4>1. CheckUpload(w) => wk'[w].pc = "checked"
        BY DEF CheckUpload, TypeInv, TypeOK, Worker
      <4> QED
        BY <1>4, <2>1, <4>1 DEF At
    <3>2. PICK u \in Uploads : Arrive(w, u)
      BY <1>4, <2>1, <3>1, Entering DEF At
    <3>3. PICK job \in {"arrival", "dry"} :
            wk' = [wk EXCEPT ![w] = [Idle EXCEPT !.pc = "arrived", !.job = job, !.up = u]]
      BY <3>2 DEF Arrive
    <3>4. wk'[w] = [Idle EXCEPT !.pc = "arrived", !.job = job, !.up = u]
      BY <3>3 DEF TypeInv, TypeOK
    <3> QED
      BY <2>1, <3>4 DEF Idle
  <2>2. CASE x # w
    BY <1>4, <2>2, OthersStay DEF At, FileInv
  <2> QED
    BY <2>1, <2>2
<1> QED
  BY <1>2, <1>3, <1>4 DEF FileInv

\* A file received several times has each row cleared for one of its uploads
\* only, unless one was let in while another was not COMPLETE.
THEOREM FileOnce == Spec => []FileClearedOnce
<1>1. Init => FileInv
  <2> SUFFICES ASSUME Init
               PROVE  FileInv
    OBVIOUS
  <2>1. \A u \in Uploads : ~Live(u)
    BY IntakeAssumption DEF Init, Live, Queued, HasRows, Idle, NoRow
  <2> QED
    BY <2>1 DEF Init, FileInv, At, Idle
<1>2. ASSUME FileInv, UNCHANGED vars
      PROVE  FileInv'
  BY <1>2 DEF vars, FileInv, Live, Queued, HasRows, At, Res
<1>3. TypeInv /\ SlotInv /\ Known /\ FileInv /\ [Next]_vars => FileInv'
  BY <1>2, FileStep DEF Next, Action
<1>4. TypeInv /\ SlotInv /\ FileInv => FileClearedOnce
  <2> SUFFICES ASSUME TypeInv, SlotInv, FileInv, NEW u \in Uploads, NEW v \in Uploads,
                      NEW n \in Nums, u # v, issued[<<u, n>>] > 0, issued[<<v, n>>] > 0
               PROVE  Res(u) \/ Res(v)
    BY DEF FileClearedOnce, Excused, Res
  <2>1. \A s \in Slots : issued[s] > 0 => HasRows(s[1])
    BY DEF SlotInv, Sound, Fresh, HasRows
  <2>2. Live(u) /\ Live(v)
    BY <2>1 DEF Live, Slots
  <2> QED
    BY <2>2 DEF FileInv
<1> QED
  BY <1>1, <1>3, <1>4, TypeInvariance, SlotInvariance, KnownInvariance, PTL DEF Spec
=============================================================================
