--------------------------- MODULE SagePullProofs ---------------------------
(***************************************************************************)
(* Proofs about module SagePull, for any number of rows and pullers.       *)
(***************************************************************************)
EXTENDS SagePull, TLAPS, WellFoundedInduction, FiniteSetTheorems

\* A non-empty set of naturals has a least element.
LEMMA LeastExists ==
  ASSUME NEW S \in SUBSET Nat, S # {}
  PROVE  \E x \in S : \A y \in S : x <= y
<1> DEFINE R == OpToRel(<, Nat)
<1>1. IsWellFoundedOn(R, Nat)
  BY NatLessThanWellFounded
<1>2. \E x \in S : \A y \in S : ~(<<y, x>> \in R)
  <2> HIDE DEF R
  <2> QED
    BY <1>1, WFMin
<1>3. \A x, y \in S : ~(<<y, x>> \in R) => x <= y
  BY DEF OpToRel
<1> QED
  BY <1>2, <1>3

\* So has a non-empty set of row ids a greatest one.
LEMMA GreatestExists ==
  ASSUME NEW S \in SUBSET Ids, S # {}
  PROVE  \E x \in S : \A y \in S : y <= x
<1> DEFINE T == {MaxId - x : x \in S}
<1>0. MaxId \in Nat
  BY PullAssumption
<1>1. T \in SUBSET Nat /\ T # {}
  <2>1. \A x \in S : MaxId - x \in Nat
    BY <1>0 DEF Ids
  <2> QED
    BY <2>1
<1>2. PICK t \in T : \A u \in T : t <= u
  <2> HIDE DEF T
  <2> QED
    BY <1>1, LeastExists
<1>3. PICK x \in S : t = MaxId - x
  BY <1>2
<1>4. \A y \in S : MaxId - x <= MaxId - y
  BY <1>2, <1>3
<1>5. \A y \in S : y <= x
  BY <1>0, <1>4 DEF Ids
<1> QED
  BY <1>3, <1>5

\* A pull reads rows after the bookmark it was given.
LEMMA NewRowsAfter ==
  ASSUME NEW o, NEW a
  PROVE  \A r \in NewRows(o, a) : r \in visible /\ r > a
BY DEF NewRows, Top

\* The bookmark that a pull saves is not below the one it started from, and
\* not below any row it read.
LEMMA GreatestAbove ==
  ASSUME NEW S \in SUBSET Ids, NEW d \in Nat, \A r \in S : r > d
  PROVE  /\ Greatest(S, d) \in Nat /\ Greatest(S, d) >= d
         /\ \A r \in S : r <= Greatest(S, d)
<1>1. CASE S = {}
  BY <1>1 DEF Greatest
<1>2. CASE S # {}
  <2>1. \E x \in S : \A y \in S : y <= x
    BY <1>2, GreatestExists
  <2>2. Greatest(S, d) = CHOOSE x \in S : \A y \in S : y <= x
    BY <1>2 DEF Greatest
  <2>3. Greatest(S, d) \in S /\ \A y \in S : y <= Greatest(S, d)
    BY <2>1, <2>2
  <2>4. \A x \in S : x \in Nat
    BY PullAssumption DEF Ids
  <2> QED
    BY <2>3, <2>4
<1> QED
  BY <1>1, <1>2

\* Least picks a member of a set of rows that is not empty.
LEMMA LeastIn ==
  ASSUME NEW S \in SUBSET Ids, S # {}
  PROVE  Least(S) \in S
<1>1. S \in SUBSET Nat
  BY PullAssumption DEF Ids
<1>2. \E x \in S : \A y \in S : x <= y
  BY <1>1, LeastExists
<1> QED
  BY <1>2 DEF Least

-----------------------------------------------------------------------------
(* A pull that has begun has its options, a state to continue from, and rows *)
(* above the bookmark it continues at.                                       *)

Begun(p) ==
  pc[p] # "idle" => bookmark # None /\ opts[p] \in Options

Above(p) ==
  pc[p] = "working" => \A r \in batch[p] : r > from[p]

TypeInv == TypeOK /\ \A p \in Pullers : Begun(p) /\ Above(p)

\* A pull continues at a row id once the bookmark exists.
LEMMA StartNat ==
  ASSUME TypeOK, NEW o \in Options, bookmark # None
  PROVE  Start(o) \in Nat
<1>1. o.after \in Afters \cup {None}
  BY DEF Options
<1> QED
  BY <1>1, PullAssumption DEF TypeOK, Start

\* The options of a pull add mishaps of the three kinds only.
LEMMA OptionMishapsType ==
  ASSUME NEW o
  PROVE  OptionMishaps(o) \subseteq Mishap
BY DEF OptionMishaps, Mishap

\* Every step keeps the types.
LEMMA TypeStep ==
  ASSUME TypeInv, [Next]_vars
  PROVE  TypeInv'
<1> USE DEF TypeInv, TypeOK, Begun, Above, pullerVars
<1>1. CASE UNCHANGED vars
  BY <1>1 DEF vars
<1>2. ASSUME NEW r \in Ids, Post(r)
      PROVE  TypeInv'
  BY <1>2 DEF Post, Mishap
<1>3. CASE CreateState
  <2>1. Greatest(imported, 0) \in Nat
    <3>1. \A r \in imported : r > 0
      BY PullAssumption DEF Ids
    <3> QED
      BY <3>1, GreatestAbove
  <2>2. bookmark' # None
    BY <1>3, <2>1, PullAssumption DEF CreateState
  <2> QED
    BY <1>3, <2>1, <2>2 DEF CreateState
<1>4. CASE MarkerAges
  BY <1>4 DEF MarkerAges
<1>5. ASSUME NEW p \in Pullers, NEW o \in Options, Preview(p, o)
      PROVE  TypeInv'
  <2>1. NewRows(o, Start(o)) \subseteq Ids
    BY NewRowsAfter
  <2> QED
    BY <1>5, <2>1 DEF Preview, Pulling
<1>6. ASSUME NEW p \in Pullers, NEW o \in Options, Begin(p, o)
      PROVE  TypeInv'
  <2>1. bookmark # None
    BY <1>6 DEF Begin, Asks
  <2>2. Start(o) \in Nat
    BY <2>1, StartNat
  <2>3. mishaps' \subseteq Mishap
    BY <1>6, OptionMishapsType DEF Begin, Mishap
  <2> QED
    BY <1>6, <2>1, <2>2, <2>3 DEF Begin, Continue, Pulling
<1>7. ASSUME NEW p \in Pullers, GiveUp(p)
      PROVE  TypeInv'
  <2>1. pc' \in [Pullers -> {"idle", "asked", "forcing"} \cup Pulling]
    BY <1>7 DEF GiveUp
  <2>2. opts' \in [Pullers -> Options \cup {None}]
    BY <1>7 DEF GiveUp
  <2>3. shown' \in [Pullers -> (SUBSET Ids) \cup {None}]
    BY <1>7 DEF GiveUp
  <2>4. \A q \in Pullers : Begun(q)' /\ Above(q)'
    BY <1>7 DEF GiveUp
  <2> QED
    BY <1>7, <2>1, <2>2, <2>3, <2>4 DEF GiveUp
<1>8. ASSUME NEW p \in Pullers, ForceRead(p)
      PROVE  TypeInv'
  <2>1. bookmark # None /\ opts[p] \in Options
    BY <1>8 DEF ForceRead
  <2>2. Start(opts[p]) \in Nat
    BY <2>1, StartNat
  <2>3. mishaps' \subseteq Mishap
    BY <1>8, OptionMishapsType DEF ForceRead, Mishap
  <2> QED
    BY <1>8, <2>1, <2>2, <2>3 DEF ForceRead
<1>9. ASSUME NEW p \in Pullers, ForceClaim(p)
      PROVE  TypeInv'
  BY <1>9 DEF ForceClaim, Pulling
<1>10. ASSUME NEW p \in Pullers, ReadSage(p)
       PROVE  TypeInv'
  <2>1. \A r \in NewRows(opts[p], from[p]) : r \in Ids /\ r > from[p]
    BY NewRowsAfter
  <2>2. NewRows(opts[p], from[p]) \in SUBSET Ids
    BY <2>1
  <2>3. batch' \in [Pullers -> SUBSET Ids] /\ todo' \in [Pullers -> SUBSET Ids]
    BY <1>10, <2>2 DEF ReadSage
  <2>4. \A q \in Pullers : Above(q)'
    BY <1>10, <2>1 DEF ReadSage
  <2> QED
    <3>1. pc' \in [Pullers -> {"idle", "asked", "forcing"} \cup Pulling]
      BY <1>10 DEF ReadSage, Pulling
    <3>2. shown' \in [Pullers -> (SUBSET Ids) \cup {None}]
      BY <1>10 DEF ReadSage
    <3>3. \A q \in Pullers : Begun(q)'
      BY <1>10 DEF ReadSage
    <3> QED
      BY <1>10, <2>3, <2>4, <3>1, <3>2, <3>3 DEF ReadSage
<1>11. ASSUME NEW p \in Pullers, ReadFails(p)
       PROVE  TypeInv'
  BY <1>11 DEF ReadFails, Pulling
<1>12. ASSUME NEW p \in Pullers, ProcessRow(p)
       PROVE  TypeInv'
  <2>1. Least(todo[p]) \in Ids
    BY <1>12, LeastIn DEF ProcessRow
  <2> QED
    BY <1>12, <2>1 DEF ProcessRow
<1>13. ASSUME NEW p \in Pullers, SaveBookmark(p)
       PROVE  TypeInv'
  <2>1. Greatest(batch[p], from[p]) \in Nat
    BY <1>13, GreatestAbove DEF SaveBookmark
  <2>2. bookmark' \in Nat /\ bookmark' # None
    BY <1>13, <2>1, PullAssumption DEF SaveBookmark
  <2>3. again' \in BOOLEAN
    BY <1>13 DEF SaveBookmark
  <2> QED
    BY <1>13, <2>2, <2>3 DEF SaveBookmark, Pulling
<1>14. ASSUME NEW p \in Pullers, Release(p) \/ Crash(p)
       PROVE  TypeInv'
  <2>1. Reset(p)
    BY <1>14 DEF Release, Crash
  <2>2. running' \in {"unset", "set", "stale"}
    BY <1>14 DEF Release, Crash
  <2>3. UNCHANGED <<visible, imported, bookmark, pollTodo, pulled, polled, again, mishaps>>
    BY <1>14 DEF Release, Crash
  <2> QED
    <3>1. pc' \in [Pullers -> {"idle", "asked", "forcing"} \cup Pulling]
      BY <2>1 DEF Reset
    <3>2. opts' \in [Pullers -> Options \cup {None}] /\ from' \in [Pullers -> Nat]
      BY <2>1 DEF Reset
    <3>3. batch' \in [Pullers -> SUBSET Ids] /\ todo' \in [Pullers -> SUBSET Ids]
      BY <2>1 DEF Reset
    <3>4. shown' \in [Pullers -> (SUBSET Ids) \cup {None}]
      BY <2>1 DEF Reset
    <3>5. \A q \in Pullers : Begun(q)' /\ Above(q)'
      BY <2>1, <2>3 DEF Reset
    <3> QED
      BY <2>2, <2>3, <3>1, <3>2, <3>3, <3>4, <3>5
<1>15. CASE Poll
  <2>1. Top(visible, PollLimit) \subseteq Ids
    BY DEF Top
  <2> QED
    BY <1>15, <2>1 DEF Poll
<1>16. CASE PollRow \/ PollCrash
  <2>1. CASE PollRow
    <3>1. Least(pollTodo) \in Ids
      BY <2>1, LeastIn DEF PollRow
    <3> QED
      BY <2>1, <3>1 DEF PollRow
  <2>2. CASE PollCrash
    BY <2>2 DEF PollCrash
  <2> QED
    BY <1>16, <2>1, <2>2
<1> QED
  BY <1>1, <1>2, <1>3, <1>4, <1>5, <1>6, <1>7, <1>8, <1>9, <1>10, <1>11, <1>12, <1>13, <1>14,
     <1>15, <1>16 DEF Next, Pull

\* Every reachable state is well-typed, and every pull knows where it starts.
THEOREM TypeInvariance == Spec => []TypeInv
<1>1. Init => TypeInv
  <2> SUFFICES ASSUME Init
               PROVE  TypeInv
    OBVIOUS
  <2>1. /\ visible \subseteq Ids /\ imported \subseteq Ids
        /\ pulled \subseteq Ids /\ polled \subseteq Ids /\ pollTodo \subseteq Ids
        /\ bookmark \in Nat \cup {None} /\ running \in {"unset", "set", "stale"}
        /\ again \in BOOLEAN /\ mishaps \subseteq Mishap
    BY DEF Init
  <2>2. /\ pc \in [Pullers -> {"idle", "asked", "forcing"} \cup Pulling]
        /\ from \in [Pullers -> Nat]
        /\ batch \in [Pullers -> SUBSET Ids] /\ todo \in [Pullers -> SUBSET Ids]
    BY DEF Init
  <2>3. /\ opts \in [Pullers -> Options \cup {None}]
        /\ shown \in [Pullers -> (SUBSET Ids) \cup {None}]
    BY DEF Init
  <2>4. \A p \in Pullers : Begun(p) /\ Above(p)
    BY DEF Init, Begun, Above
  <2> QED
    BY <2>1, <2>2, <2>3, <2>4 DEF TypeInv, TypeOK
<1>2. TypeInv /\ [Next]_vars => TypeInv'
  BY TypeStep
<1> QED
  BY <1>1, <1>2, PTL DEF Spec

\* Every value keeps its type in every reachable state.
THEOREM TypeCorrect == Spec => []TypeOK
BY TypeInvariance, PTL DEF TypeInv

-----------------------------------------------------------------------------
(* Unless a pull was forced or taken over, one pull at a time holds the      *)
(* marker; unless one was also told where to start, it continues at the      *)
(* bookmark, which lies at or above every row pulled so far.                 *)

Alone ==
  /\ \A p \in Pullers : pc[p] = "forcing" => "overlap" \in mishaps
  /\ \/ "overlap" \in mishaps
     \/ /\ \A p, q \in Pullers : pc[p] \in Pulling /\ pc[q] \in Pulling => p = q
        /\ \A p \in Pullers : pc[p] \in Pulling => running # "unset"

Strayed == "overlap" \in mishaps \/ "after" \in mishaps

Continues ==
  /\ \A p \in Pullers : pc[p] \in {"claimed", "working"} => from[p] = bookmark \/ Strayed
  /\ \A r \in pulled : (bookmark # None /\ r <= bookmark) \/ Strayed
  /\ again => Strayed

\* What has gone wrong is not forgotten.
LEMMA MishapsStay ==
  ASSUME [Next]_vars
  PROVE  \A x \in mishaps : x \in mishaps'
BY DEF Next, Pull, vars, pullerVars, Post, CreateState, MarkerAges, Preview, Begin, GiveUp,
   ForceRead, ForceClaim, ReadSage, ReadFails, ProcessRow, SaveBookmark, Release, Crash,
   Poll, PollRow, PollCrash

\* A step that starts a second pull next to a live one records the overlap.
LEMMA AloneStep ==
  ASSUME TypeInv, Alone, [Next]_vars
  PROVE  Alone'
<1> USE DEF TypeInv, TypeOK, pullerVars, Pulling
<1>a. "overlap" \in mishaps => "overlap" \in mishaps'
  BY MishapsStay
<1>1. ASSUME \/ UNCHANGED vars \/ CreateState \/ MarkerAges \/ Poll \/ PollRow \/ PollCrash
             \/ \E r \in Ids : Post(r)
      PROVE  Alone'
  <2>1. UNCHANGED pc /\ (running' = running \/ running' = "stale")
    BY <1>1 DEF vars, CreateState, MarkerAges, Poll, PollRow, PollCrash, Post
  <2> QED
    BY <2>1, <1>a DEF Alone
<1>2. ASSUME NEW p \in Pullers, NEW o \in Options, Preview(p, o)
      PROVE  Alone'
  BY <1>2, <1>a DEF Preview, Alone
<1>3. ASSUME NEW p \in Pullers, NEW o \in Options, Begin(p, o)
      PROVE  Alone'
  <2>1. /\ pc' = [pc EXCEPT ![p] = "claimed"] /\ running' = "set"
        /\ (\E q \in Pullers : pc[q] \in Pulling) => "overlap" \in mishaps'
    BY <1>3 DEF Begin, Continue
  <2> QED
    BY <2>1, <1>a DEF Alone
<1>4. ASSUME NEW p \in Pullers, GiveUp(p) \/ ForceRead(p)
      PROVE  Alone'
  <2>1. CASE GiveUp(p)
    BY <2>1, <1>a DEF GiveUp, Alone
  <2>2. CASE ForceRead(p)
    <3>1. "overlap" \in mishaps'
      BY <2>2 DEF ForceRead
    <3> QED
      BY <3>1 DEF Alone
  <2> QED
    BY <1>4, <2>1, <2>2
<1>5. ASSUME NEW p \in Pullers, ForceClaim(p)
      PROVE  Alone'
  <2>1. "overlap" \in mishaps'
    BY <1>5, <1>a DEF ForceClaim, Alone
  <2> QED
    BY <2>1 DEF Alone
<1>6. ASSUME NEW p \in Pullers,
             ReadSage(p) \/ ReadFails(p) \/ ProcessRow(p) \/ SaveBookmark(p)
      PROVE  Alone'
  <2>1. /\ pc[p] \in Pulling /\ UNCHANGED running
        /\ \A q \in Pullers : q # p => pc'[q] = pc[q]
        /\ pc'[p] \in Pulling
    BY <1>6 DEF ReadSage, ReadFails, ProcessRow, SaveBookmark
  <2>2. \A q \in Pullers : pc'[q] \in Pulling <=> pc[q] \in Pulling
    BY <2>1
  <2>3. \A q \in Pullers : pc'[q] = "forcing" => pc[q] = "forcing"
    BY <2>1
  <2> HIDE DEF Pulling
  <2> QED
    BY <2>1, <2>2, <2>3, <1>a DEF Alone
<1>7. ASSUME NEW p \in Pullers, Release(p) \/ Crash(p)
      PROVE  Alone'
  <2>1. pc[p] \in Pulling /\ pc' = [pc EXCEPT ![p] = "idle"]
    BY <1>7 DEF Release, Crash, Reset
  <2>2. CASE "overlap" \in mishaps
    BY <2>2, <1>a DEF Alone
  <2>3. CASE "overlap" \notin mishaps
    BY <2>1, <2>3, <1>a DEF Alone
  <2> QED
    BY <2>2, <2>3
<1> QED
  BY <1>1, <1>2, <1>3, <1>4, <1>5, <1>6, <1>7 DEF Next, Pull

\* Without a recorded overlap, at most one pull is past _begin, and the marker is
\* set as long as it is.
THEOREM AloneInvariance == Spec => []Alone
<1>1. Init => Alone
  BY DEF Init, Alone, Pulling
<1>2. TypeInv /\ Alone /\ [Next]_vars => Alone'
  BY AloneStep
<1> QED
  BY <1>1, <1>2, TypeInvariance, PTL DEF Spec

\* Two pulls never run at the same time unless one was forced, or outlived
\* STALE_AFTER.
THEOREM Exclusive == Spec => []PullsExclude
<1>1. Alone => PullsExclude
  BY DEF Alone, PullsExclude, Excused
<1> QED
  BY <1>1, AloneInvariance, PTL

\* What a pull saves, when it continued at the bookmark.
LEMMA Saved ==
  ASSUME TypeInv, NEW p \in Pullers, SaveBookmark(p)
  PROVE  /\ bookmark' \in Nat /\ bookmark' >= from[p]
         /\ \A r \in batch[p] : r > from[p] /\ r <= bookmark'
<1>1. \A r \in batch[p] : r > from[p]
  BY DEF TypeInv, Above, SaveBookmark
<1>2. batch[p] \in SUBSET Ids /\ from[p] \in Nat
  BY DEF TypeInv, TypeOK
<1>3. bookmark' = Greatest(batch[p], from[p])
  BY DEF SaveBookmark
<1> QED
  BY <1>1, <1>2, <1>3, GreatestAbove

\* A step keeps the bookmark above every row that a pull has taken.
LEMMA ContinuesStep ==
  ASSUME TypeInv, TypeInv', Alone, Continues, [Next]_vars
  PROVE  Continues'
<1> USE DEF TypeInv, TypeOK, pullerVars
<1>a. Strayed => Strayed'
  BY MishapsStay DEF Strayed
<1>1. ASSUME UNCHANGED <<bookmark, pulled, again>>,
             \A p \in Pullers : pc'[p] \in {"claimed", "working"} =>
               \/ pc[p] \in {"claimed", "working"} /\ from'[p] = from[p]
               \/ from'[p] = bookmark \/ Strayed'
      PROVE  Continues'
  BY <1>1, <1>a DEF Continues
<1>2. ASSUME \/ UNCHANGED vars \/ MarkerAges \/ Poll \/ PollRow \/ PollCrash
             \/ \E r \in Ids : Post(r)
             \/ \E p \in Pullers : ProcessRow(p) \/ ReadFails(p) \/ ReadSage(p) \/ GiveUp(p)
             \/ \E p \in Pullers, o \in Options : Preview(p, o)
      PROVE  Continues'
  <2>1. UNCHANGED <<bookmark, pulled, again, from>>
    BY <1>2 DEF vars, MarkerAges, Poll, PollRow, PollCrash, Post, ProcessRow, ReadFails,
       ReadSage, GiveUp, Preview
  <2>2. \A p \in Pullers : pc'[p] \in {"claimed", "working"} => pc[p] \in {"claimed", "working"}
    BY <1>2 DEF vars, MarkerAges, Poll, PollRow, PollCrash, Post, ProcessRow, ReadFails,
       ReadSage, GiveUp, Preview
  <2> QED
    BY <2>1, <2>2, <1>1
<1>3. CASE CreateState
  <2>1. bookmark = None
    BY <1>3 DEF CreateState
  <2>2. \A p \in Pullers : pc[p] = "idle"
    BY <2>1 DEF Begun
  <2> QED
    BY <1>3, <2>1, <2>2, <1>a DEF CreateState, Continues
<1>4. ASSUME NEW p \in Pullers, NEW o \in Options, Begin(p, o)
      PROVE  Continues'
  <2>1. from' = [from EXCEPT ![p] = Start(o)] /\ pc' = [pc EXCEPT ![p] = "claimed"]
    BY <1>4 DEF Begin, Continue
  <2>2. Start(o) = bookmark \/ Strayed'
    BY <1>4 DEF Begin, Start, OptionMishaps, Strayed
  <2>3. UNCHANGED <<bookmark, pulled, again>>
    BY <1>4 DEF Begin
  <2> QED
    BY <2>1, <2>2, <2>3, <1>1
<1>5. ASSUME NEW p \in Pullers, ForceRead(p) \/ ForceClaim(p)
      PROVE  Continues'
  <2>1. Strayed'
    BY <1>5, <1>a DEF ForceRead, ForceClaim, Alone, Strayed
  <2> QED
    BY <2>1 DEF Continues
<1>6. ASSUME NEW p \in Pullers, Release(p) \/ Crash(p)
      PROVE  Continues'
  <2>1. UNCHANGED <<bookmark, pulled, again>>
    BY <1>6 DEF Release, Crash
  <2>2. \A q \in Pullers : pc'[q] \in {"claimed", "working"} =>
          pc[q] \in {"claimed", "working"} /\ from'[q] = from[q]
    BY <1>6 DEF Release, Crash, Reset
  <2> QED
    BY <2>1, <2>2, <1>1
<1>7. ASSUME NEW p \in Pullers, SaveBookmark(p)
      PROVE  Continues'
  <2>1. CASE Strayed
    BY <2>1, <1>a DEF Continues
  <2>2. CASE ~Strayed
    <3>1. from[p] = bookmark /\ \A r \in pulled : r <= bookmark
      BY <1>7, <2>2 DEF SaveBookmark, Continues
    <3>2. /\ bookmark' \in Nat /\ bookmark' >= bookmark
          /\ \A r \in batch[p] : r > bookmark /\ r <= bookmark'
      BY <1>7, <3>1, Saved
    <3>3. bookmark \in Nat /\ \A r \in Ids : r \in Nat
      BY <1>7, <3>1, PullAssumption DEF Ids
    <3>4. \A r \in pulled' : r <= bookmark'
      BY <1>7, <3>1, <3>2, <3>3 DEF SaveBookmark
    <3>5. again' = FALSE
      <4>1. batch[p] \cap pulled = {}
        BY <3>1, <3>2, <3>3
      <4>2. again = FALSE
        BY <2>2 DEF Continues
      <4>3. again' = (again \/ batch[p] \cap pulled # {})
        BY <1>7 DEF SaveBookmark
      <4> QED
        BY <4>1, <4>2, <4>3
    <3>6. \A q \in Pullers : pc'[q] \notin {"claimed", "working"}
      BY <1>7, <2>2 DEF SaveBookmark, Alone, Strayed, Pulling
    <3>7. bookmark' # None
      BY <3>2, PullAssumption
    <3> QED
      BY <3>4, <3>5, <3>6, <3>7 DEF Continues
  <2> QED
    BY <2>1, <2>2
<1> QED
  BY <1>2, <1>3, <1>4, <1>5, <1>6, <1>7 DEF Next, Pull

\* Without a recorded overlap or a pull told where to start, the pull that runs
\* continues at the bookmark, and every pulled row is at or below it.
THEOREM ContinuesInvariance == Spec => []Continues
<1>1. Init => Continues
  BY DEF Init, Continues
<1>2. TypeInv /\ TypeInv' /\ Alone /\ Continues /\ [Next]_vars => Continues'
  BY ContinuesStep
<1> QED
  BY <1>1, <1>2, TypeInvariance, AloneInvariance, PTL DEF Spec

\* Pulls take different rows, unless they overlapped or one was told where to
\* start.
THEOREM Disjoint == Spec => []PullsAreDisjoint
<1>1. Continues => PullsAreDisjoint
  BY DEF Continues, Strayed, PullsAreDisjoint, Excused
<1> QED
  BY <1>1, ContinuesInvariance, PTL

\* The bookmark never moves back, with the same exceptions.
THEOREM BookmarkMonotone == Spec => BookmarkOnlyGrows
<1>1. TypeInv /\ Continues /\ [Next]_vars
      => [(bookmark # None => bookmark' >= bookmark) \/ Excused({"overlap", "after"})]_vars
  <2> SUFFICES ASSUME TypeInv, Continues, [Next]_vars, bookmark # None, ~Strayed
               PROVE  bookmark' >= bookmark
    BY DEF Strayed, Excused
  <2>1. bookmark \in Nat
    BY DEF TypeInv, TypeOK
  <2>2. CASE \E p \in Pullers : SaveBookmark(p)
    <3>1. PICK p \in Pullers : SaveBookmark(p)
      BY <2>2
    <3>2. from[p] = bookmark
      BY <3>1 DEF SaveBookmark, Continues
    <3> QED
      BY <3>1, <3>2, Saved
  <2>3. CASE bookmark' = bookmark
    BY <2>1, <2>3
  <2>4. bookmark' = bookmark \/ \E p \in Pullers : SaveBookmark(p)
    BY DEF Next, Pull, vars, pullerVars, Post, CreateState, MarkerAges, Preview, Begin, GiveUp,
       ForceRead, ForceClaim, ReadSage, ReadFails, ProcessRow, Release, Crash,
       Poll, PollRow, PollCrash
  <2> QED
    BY <2>2, <2>3, <2>4
<1> QED
  BY <1>1, TypeInvariance, ContinuesInvariance, PTL DEF Spec, BookmarkOnlyGrows

-----------------------------------------------------------------------------
(* As long as nothing the guarantees exclude has happened, no row is passed  *)
(* over: rows become visible in the order of their ids, the poll and the     *)
(* pulls read the lowest ones that are left, and the first bookmark is the   *)
(* highest of the rows that polls imported.                                  *)

PollsFromTheLowest ==
  /\ polled \cup pollTodo \subseteq visible
  /\ \A r \in polled : \A q \in visible : q < r => q \in polled
  /\ \A r \in pollTodo : \A q \in visible : q < r => q \in polled \cup pollTodo

PullsFromTheLowest ==
  \A p \in Pullers :
    /\ pc[p] \in {"claimed", "working"} => ~opts[p].since
    /\ pc[p] = "working" =>
         /\ batch[p] \subseteq visible
         /\ \A r \in batch[p] : \A q \in visible : q < r /\ q > from[p] => q \in batch[p]

MarkCovers ==
  /\ bookmark = None => imported \subseteq polled
  /\ bookmark # None =>
       /\ bookmark \in visible \cup {0}
       /\ \A r \in visible : r <= bookmark => r \in pulled \cup polled

Gapless == mishaps = {} => PollsFromTheLowest /\ PullsFromTheLowest /\ MarkCovers

\* With a row, the lowest k of a set hold every lower row of the set.
LEMMA TopIsLow ==
  ASSUME NEW S \in SUBSET Ids, NEW k \in Int, NEW r \in Top(S, k), NEW q \in S, q < r
  PROVE  q \in Top(S, k)
<1> DEFINE Below(x) == {y \in S : y < x}
<1>1. \A x \in Ids : x \in Int
  BY PullAssumption DEF Ids
<1>2. IsFiniteSet(Below(r))
  <2>1. IsFiniteSet(Ids)
    BY PullAssumption, FS_Interval DEF Ids
  <2> QED
    BY <2>1, FS_Subset
<1>3. Below(q) \subseteq Below(r)
  BY <1>1 DEF Top
<1>4. /\ Cardinality(Below(q)) \in Nat /\ Cardinality(Below(r)) \in Nat
      /\ Cardinality(Below(q)) <= Cardinality(Below(r))
  <2> HIDE DEF Below
  <2> QED
    BY <1>2, <1>3, FS_Subset, FS_CardinalityType
<1>5. Cardinality(Below(r)) < k
  BY DEF Top
<1>6. Cardinality(Below(q)) < k
  <2> HIDE DEF Below
  <2> QED
    BY <1>4, <1>5
<1> QED
  BY <1>6 DEF Top

\* Least is below every other member of a set of rows.
LEMMA LeastLow ==
  ASSUME NEW S \in SUBSET Ids, S # {}
  PROVE  Least(S) \in S /\ \A q \in S : Least(S) <= q
<1>1. S \in SUBSET Nat
  BY PullAssumption DEF Ids
<1>2. \E x \in S : \A y \in S : x <= y
  BY <1>1, LeastExists
<1> QED
  BY <1>2 DEF Least

\* Greatest is a member that no member exceeds, or the default.
LEMMA GreatestIn ==
  ASSUME NEW S \in SUBSET Ids, NEW d
  PROVE  \/ S = {} /\ Greatest(S, d) = d
         \/ Greatest(S, d) \in S /\ \A q \in S : q <= Greatest(S, d)
<1>1. CASE S = {}
  BY <1>1 DEF Greatest
<1>2. CASE S # {}
  <2>1. \E x \in S : \A y \in S : y <= x
    BY <1>2, GreatestExists
  <2> QED
    BY <1>2, <2>1 DEF Greatest
<1> QED
  BY <1>1, <1>2

\* The poll works upwards from the lowest row.
LEMMA PollStep ==
  ASSUME TypeInv, [Next]_vars, mishaps = {}, mishaps' = {}, PollsFromTheLowest
  PROVE  PollsFromTheLowest'
<1> USE DEF TypeInv, TypeOK, PollsFromTheLowest
<1>1. \A x \in Ids : x \in Int
  BY PullAssumption DEF Ids
<1>2. ASSUME NEW r \in Ids, Post(r)
      PROVE  PollsFromTheLowest'
  <2>1. \A q \in visible : q <= r
    BY <1>1, <1>2 DEF Post
  <2> QED
    BY <1>1, <1>2, <2>1 DEF Post
<1>3. CASE Poll
  <2>1. pollTodo' = Top(visible, PollLimit)
    BY <1>3 DEF Poll
  <2>2. \A r \in pollTodo' : \A q \in visible : q < r => q \in pollTodo'
    BY <2>1, TopIsLow, PullAssumption
  <2>3. pollTodo' \subseteq visible
    BY <2>1 DEF Top
  <2> QED
    BY <1>3, <2>2, <2>3 DEF Poll
<1>4. CASE PollRow
  <2> DEFINE x == Least(pollTodo)
  <2>1. x \in pollTodo /\ \A q \in pollTodo : x <= q
    BY <1>4, LeastLow DEF PollRow
  <2>2. polled' = polled \cup {x} /\ pollTodo' = pollTodo \ {x} /\ visible' = visible
    BY <1>4 DEF PollRow
  <2> HIDE DEF x
  <2>3. polled' \cup pollTodo' \subseteq visible'
    BY <2>1, <2>2
  <2>4. \A q \in visible : q < x => q \in polled
    BY <1>1, <2>1
  <2>5. \A r \in polled' : \A q \in visible' : q < r => q \in polled'
    BY <2>2, <2>4
  <2>6. \A r \in pollTodo' : \A q \in visible' : q < r => q \in polled' \cup pollTodo'
    BY <2>2
  <2> QED
    BY <2>3, <2>5, <2>6
<1>5. CASE PollCrash
  BY <1>5 DEF PollCrash
<1>6. CASE UNCHANGED <<visible, polled, pollTodo>>
  BY <1>6
<1>7. \/ UNCHANGED <<visible, polled, pollTodo>> \/ Poll \/ PollRow \/ PollCrash
      \/ \E r \in Ids : Post(r)
  BY DEF Next, Pull, vars, pullerVars, CreateState, MarkerAges, Preview, Begin, GiveUp,
     ForceRead, ForceClaim, ReadSage, ReadFails, ProcessRow, SaveBookmark, Release, Crash
<1> QED
  BY <1>2, <1>3, <1>4, <1>5, <1>6, <1>7

\* A batch has every visible row between the bookmark and its highest row.
LEMMA PullStep ==
  ASSUME TypeInv, Alone, [Next]_vars, mishaps = {}, mishaps' = {}, PullsFromTheLowest
  PROVE  PullsFromTheLowest'
<1> USE DEF TypeInv, TypeOK, pullerVars, PullsFromTheLowest
<1>1. \A x \in Ids : x \in Int
  BY PullAssumption DEF Ids
<1>2. ASSUME NEW r \in Ids, Post(r)
      PROVE  PullsFromTheLowest'
  <2>1. \A q \in visible : q <= r
    BY <1>1, <1>2 DEF Post
  <2>2. UNCHANGED <<pc, opts, from, batch>> /\ visible' = visible \cup {r}
    BY <1>2 DEF Post
  <2> QED
    BY <1>1, <2>1, <2>2
<1>3. CASE \/ UNCHANGED vars \/ CreateState \/ MarkerAges \/ Poll \/ PollRow \/ PollCrash
  BY <1>3 DEF vars, CreateState, MarkerAges, Poll, PollRow, PollCrash
<1>4. ASSUME NEW p \in Pullers, NEW o \in Options, Preview(p, o)
      PROVE  PullsFromTheLowest'
  BY <1>4 DEF Preview
<1>5. ASSUME NEW p \in Pullers, NEW o \in Options, Begin(p, o)
      PROVE  PullsFromTheLowest'
  <2>1. ~o.since
    BY <1>5 DEF Begin, OptionMishaps
  <2> QED
    BY <1>5, <2>1 DEF Begin, Continue
<1>6. ASSUME NEW p \in Pullers, ReadSage(p)
      PROVE  PullsFromTheLowest'
  <2> DEFINE S == {r \in visible : r > from[p]}
  <2>1. ~opts[p].since /\ opts[p].count \in Int
    <3>1. pc[p] = "claimed"
      BY <1>6 DEF ReadSage
    <3>2. opts[p] \in Options
      BY <3>1 DEF Begun
    <3>3. \A n \in Counts : n \in Int
      BY PullAssumption
    <3>4. opts[p].count \in Counts
      BY <3>2 DEF Options
    <3> QED
      BY <3>1, <3>3, <3>4
  <2>2. batch' = [batch EXCEPT ![p] = Top(S, opts[p].count)]
    <3>1. NewRows(opts[p], from[p]) = Top(S, opts[p].count)
      BY <2>1 DEF NewRows
    <3> QED
      BY <1>6, <3>1 DEF ReadSage
  <2>3. S \in SUBSET Ids
    OBVIOUS
  <2>4. \A r \in Top(S, opts[p].count) : r \in S /\ \A q \in S : q < r => q \in Top(S, opts[p].count)
    <3> HIDE DEF S
    <3>1. \A r \in Top(S, opts[p].count) : r \in S
      BY DEF Top
    <3> QED
      BY <2>1, <2>3, <3>1, TopIsLow
  <2>5. /\ UNCHANGED <<visible, opts, from>> /\ pc' = [pc EXCEPT ![p] = "working"]
        /\ pc[p] = "claimed"
    BY <1>6 DEF ReadSage
  <2>6. ASSUME NEW z \in Pullers, z # p
        PROVE  pc'[z] = pc[z] /\ batch'[z] = batch[z]
    BY <2>2, <2>5, <2>6
  <2>7. pc'[p] = "working" /\ batch'[p] = Top(S, opts[p].count)
    BY <2>2, <2>5
  <2>8. /\ batch'[p] \subseteq visible
        /\ \A r \in batch'[p] : \A q \in visible : q < r /\ q > from[p] => q \in batch'[p]
    BY <2>4, <2>7
  <2> HIDE DEF S
  <2> QED
    BY <2>1, <2>5, <2>6, <2>7, <2>8
<1>7. ASSUME NEW p \in Pullers, ForceRead(p) \/ ForceClaim(p)
      PROVE  PullsFromTheLowest'
  BY <1>7 DEF ForceRead, ForceClaim, Alone
<1>8. ASSUME NEW p \in Pullers, GiveUp(p) \/ ReadFails(p) \/ SaveBookmark(p) \/ ProcessRow(p)
      PROVE  PullsFromTheLowest'
  <2>1. UNCHANGED <<visible, from, batch>>
    BY <1>8 DEF GiveUp, ReadFails, SaveBookmark, ProcessRow
  <2>2. \A z \in Pullers : pc'[z] \in {"claimed", "working"} => pc'[z] = pc[z] /\ opts'[z] = opts[z]
    BY <1>8 DEF GiveUp, ReadFails, SaveBookmark, ProcessRow
  <2> QED
    BY <2>1, <2>2
<1>9. ASSUME NEW p \in Pullers, Release(p) \/ Crash(p)
      PROVE  PullsFromTheLowest'
  <2>1. visible' = visible
    BY <1>9 DEF Release, Crash
  <2>2. \A z \in Pullers : pc'[z] \in {"claimed", "working"} =>
          pc'[z] = pc[z] /\ opts'[z] = opts[z] /\ batch'[z] = batch[z] /\ from'[z] = from[z]
    BY <1>9 DEF Release, Crash, Reset
  <2> QED
    BY <2>1, <2>2
<1> QED
  BY <1>2, <1>3, <1>4, <1>5, <1>6, <1>7, <1>8, <1>9 DEF Next, Pull

\* The bookmark moves to a row below which nothing is left.
LEMMA MarkStep ==
  ASSUME TypeInv, Continues, [Next]_vars, mishaps = {}, mishaps' = {},
         PollsFromTheLowest, PullsFromTheLowest, MarkCovers
  PROVE  MarkCovers'
<1> USE DEF TypeInv, TypeOK, MarkCovers
<1>1. /\ \A x \in Ids : x \in Int /\ x > 0
      /\ None \notin Int
  BY PullAssumption DEF Ids
<1>2. ASSUME NEW r \in Ids, Post(r)
      PROVE  MarkCovers'
  <2>1. \A q \in visible : q < r
    BY <1>1, <1>2 DEF Post
  <2>2. bookmark # None => bookmark < r
    BY <1>1, <2>1
  <2> QED
    BY <1>1, <1>2, <2>2 DEF Post
<1>3. CASE CreateState
  <2>1. bookmark' = Greatest(imported, 0) /\ UNCHANGED <<visible, imported, pulled, polled>>
    BY <1>3 DEF CreateState
  <2>2. imported \subseteq polled
    BY <1>3 DEF CreateState
  <2>3. CASE imported = {}
    <3>1. bookmark' = 0
      BY <2>1, <2>3 DEF Greatest
    <3> QED
      BY <1>1, <2>1, <3>1
  <2>4. CASE imported # {}
    <3>1. bookmark' \in polled
      BY <2>1, <2>2, <2>4, GreatestIn
    <3>2. \A q \in visible : q <= bookmark' => q \in polled
      BY <1>1, <3>1 DEF PollsFromTheLowest
    <3> QED
      BY <1>1, <2>1, <3>1, <3>2 DEF PollsFromTheLowest
  <2> QED
    BY <2>3, <2>4
<1>4. CASE PollRow
  <2>1. imported' \subseteq imported \cup {Least(pollTodo)}
    BY <1>4 DEF PollRow
  <2> QED
    BY <1>4, <2>1 DEF PollRow
<1>5. ASSUME NEW p \in Pullers, ProcessRow(p)
      PROVE  MarkCovers'
  <2>1. bookmark # None
    BY <1>5 DEF ProcessRow, Begun
  <2> QED
    BY <1>5, <2>1 DEF ProcessRow
<1>6. ASSUME NEW p \in Pullers, SaveBookmark(p)
      PROVE  MarkCovers'
  <2>1. /\ pc[p] = "working" /\ bookmark' = Greatest(batch[p], from[p])
        /\ UNCHANGED <<visible, polled>> /\ pulled' = pulled \cup batch[p]
    BY <1>6 DEF SaveBookmark
  <2>2. from[p] = bookmark
    BY <2>1 DEF Continues, Strayed
  <2>3. bookmark # None /\ bookmark \in Int
    BY <1>1, <2>2
  <2>4. CASE batch[p] = {}
    <3>1. bookmark' = bookmark
      BY <2>1, <2>2, <2>4 DEF Greatest
    <3> QED
      BY <2>1, <2>3, <3>1
  <2>5. CASE batch[p] # {}
    <3>1. bookmark' \in batch[p] /\ batch[p] \subseteq visible
      BY <2>1, <2>5, GreatestIn DEF PullsFromTheLowest
    <3>2. \A q \in visible : q < bookmark' /\ q > bookmark => q \in batch[p]
      BY <2>1, <2>2, <3>1 DEF PullsFromTheLowest
    <3>3. \A q \in visible : q <= bookmark' => q \in pulled \cup polled \cup batch[p]
      BY <1>1, <2>3, <3>1, <3>2
    <3> QED
      BY <1>1, <2>1, <3>1, <3>3
  <2> QED
    BY <2>4, <2>5
<1>7. CASE UNCHANGED <<visible, imported, bookmark, pulled, polled>>
  BY <1>7
<1>8. \/ UNCHANGED <<visible, imported, bookmark, pulled, polled>> \/ CreateState \/ PollRow
      \/ \E r \in Ids : Post(r)
      \/ \E p \in Pullers : ProcessRow(p) \/ SaveBookmark(p)
  BY DEF Next, Pull, vars, pullerVars, MarkerAges, Preview, Begin, GiveUp,
     ForceRead, ForceClaim, ReadSage, ReadFails, Release, Crash, Poll, PollCrash
<1> QED
  BY <1>2, <1>3, <1>4, <1>5, <1>6, <1>7, <1>8

\* Without a mishap, polls and pulls leave nothing behind them.
THEOREM GaplessInvariance == Spec => []Gapless
<1>1. Init => Gapless
  BY DEF Init, Gapless, PollsFromTheLowest, PullsFromTheLowest, MarkCovers
<1>2. TypeInv /\ Alone /\ Continues /\ Gapless /\ [Next]_vars => Gapless'
  <2> SUFFICES ASSUME TypeInv, Alone, Continues, Gapless, [Next]_vars, mishaps' = {}
               PROVE  (PollsFromTheLowest /\ PullsFromTheLowest /\ MarkCovers)'
    BY DEF Gapless
  <2>1. mishaps = {}
    BY MishapsStay
  <2>2. PollsFromTheLowest /\ PullsFromTheLowest /\ MarkCovers
    BY <2>1 DEF Gapless
  <2> QED
    BY <2>1, <2>2, PollStep, PullStep, MarkStep
<1> QED
  BY <1>1, <1>2, TypeInvariance, AloneInvariance, ContinuesInvariance, PTL DEF Spec

\* No row at or below the bookmark has been passed over by pulls and polls, as
\* long as no pull overlapped another or was told where or since when to start,
\* and no row was committed after a higher one.
THEOREM NothingSkipped == Spec => []BookmarkCovers
<1>1. Gapless => BookmarkCovers
  BY DEF Gapless, MarkCovers, BookmarkCovers
<1> QED
  BY <1>1, GaplessInvariance, PTL
=============================================================================
