---------------------------- MODULE PayloadProofs ----------------------------
(***************************************************************************)
(* Proofs about what the Access Point Provider is told: SageDocuments, for *)
(* any documents, and Workbooks, for any files.                            *)
(*                                                                         *)
(* Both are about sums over lines.  The library's sum is a fold, and the   *)
(* provers can use no induction theorem that takes an operator; so the     *)
(* first part proves induction from the least element of a set of numbers, *)
(* in terms of sets, and from it what sums do.                             *)
(***************************************************************************)
EXTENDS SageDocuments, Workbooks, FiniteSetTheorems, WellFoundedInduction, TLAPS

-----------------------------------------------------------------------------
(***************************************************************************)
(* Induction and sums.                                                     *)
(***************************************************************************)
\* A non-empty set of naturals has a least element.
LEMMA LeastExists ==
  ASSUME NEW S \in SUBSET Nat, S # {}
  PROVE  \E x \in S : \A y \in S : x <= y
<1> DEFINE R == OpToRel(<, Nat)
<1>1. \E x \in S : \A y \in S : ~(<<y, x>> \in R)
  <2>1. IsWellFoundedOn(R, Nat)
    BY NatLessThanWellFounded
  <2> HIDE DEF R
  <2> QED
    BY <2>1, WFMin
<1>2. \A x, y \in S : ~(<<y, x>> \in R) => x <= y
  BY DEF OpToRel
<1> QED
  BY <1>1, <1>2

\* What holds of 0 and passes on to the next number holds of all of them.
LEMMA Induction ==
  ASSUME NEW T, 0 \in T, \A n \in Nat : n \in T => n + 1 \in T
  PROVE  Nat \subseteq T
<1> SUFFICES ASSUME Nat \ T # {}
             PROVE  FALSE
  OBVIOUS
<1>1. PICK x \in Nat \ T : \A y \in Nat \ T : x <= y
  BY LeastExists
<1>2. x # 0 /\ x - 1 \in Nat /\ x - 1 \in T
  BY <1>1
<1> QED
  BY <1>1, <1>2

\* The element of a set that a sum takes first.
Pick(s) == CHOOSE x \in s : TRUE

\* The sums over all parts of S.
Sums(f, S) ==
  CHOOSE g : g = [s \in SUBSET S |-> IF s = {} THEN 0 ELSE f[Pick(s)] + g[s \ {Pick(s)}]]

LEMMA SumIsLast ==
  ASSUME NEW f, NEW S
  PROVE  SumFunctionOnSet(f, S) = Sums(f, S)[S]
BY DEF SumFunctionOnSet, FoldFunctionOnSet, MapThenFoldSet, Sums, Pick

LEMMA PickIn ==
  ASSUME NEW s, s # {}
  PROVE  Pick(s) \in s
BY DEF Pick

\* What holds of the empty set, and of a set if it does without its first
\* element, holds of all parts of a finite set.
LEMMA PartsInduction ==
  ASSUME NEW S, IsFiniteSet(S), NEW T, {} \in T,
         \A s \in SUBSET S : s # {} /\ s \ {Pick(s)} \in T => s \in T
  PROVE  SUBSET S \subseteq T
<1> DEFINE N == {n \in Nat : \A s \in SUBSET S : Cardinality(s) = n => s \in T}
<1>1. \A s \in SUBSET S : IsFiniteSet(s) /\ Cardinality(s) \in Nat
  BY FS_Subset, FS_CardinalityType
<1>2. 0 \in N
  BY <1>1, FS_EmptySet
<1>3. \A n \in Nat : n \in N => n + 1 \in N
  <2> SUFFICES ASSUME NEW n \in N, NEW s \in SUBSET S, Cardinality(s) = n + 1
               PROVE  s \in T
    OBVIOUS
  <2>1. s # {}
    BY FS_EmptySet
  <2>2. Pick(s) \in s /\ s \ {Pick(s)} \in SUBSET S
    BY <2>1, PickIn
  <2>3. Cardinality(s \ {Pick(s)}) = n
    BY <1>1, <2>2, FS_RemoveElement
  <2> QED
    BY <2>1, <2>2, <2>3
<1>4. Nat \subseteq N
  <2> HIDE DEF N
  <2> QED
    BY <1>2, <1>3, Induction
<1> QED
  BY <1>1, <1>4

Summable(f, S) == IsFiniteSet(S) /\ \A x \in S : f[x] \in Int

\* What the sum over s is when g has the sums over smaller sets.
SumFrom(f, g, s) == IF s = {} THEN 0 ELSE f[Pick(s)] + g[s \ {Pick(s)}]
RightUpTo(f, S, g, n) == \A s \in SUBSET S : Cardinality(s) <= n => g[s] = SumFrom(f, g, s)

\* The definition of Sums is not void.
LEMMA SumsExist ==
  ASSUME NEW f, NEW S, Summable(f, S)
  PROVE  /\ Sums(f, S) \in [SUBSET S -> Int]
         /\ \A s \in SUBSET S : Sums(f, S)[s] = SumFrom(f, Sums(f, S), s)
<1> DEFINE N == {n \in Nat : \E g \in [SUBSET S -> Int] : RightUpTo(f, S, g, n)}
<1>1. \A s \in SUBSET S : IsFiniteSet(s) /\ Cardinality(s) \in Nat /\ Cardinality(s) <= Cardinality(S)
  BY FS_Subset, FS_CardinalityType DEF Summable
<1>2. \A s \in SUBSET S : s # {} => /\ Pick(s) \in s /\ s \ {Pick(s)} \in SUBSET S
                                    /\ f[Pick(s)] \in Int
                                    /\ Cardinality(s \ {Pick(s)}) = Cardinality(s) - 1
  BY <1>1, PickIn, FS_RemoveElement DEF Summable
<1>3. 0 \in N
  <2>1. [s \in SUBSET S |-> 0] \in [SUBSET S -> Int]
    OBVIOUS
  <2>2. \A s \in SUBSET S : Cardinality(s) <= 0 => s = {}
    BY <1>1, FS_EmptySet
  <2>3. RightUpTo(f, S, [s \in SUBSET S |-> 0], 0)
    BY <2>2 DEF RightUpTo, SumFrom
  <2> QED
    BY <2>1, <2>3
<1>4. ASSUME NEW n \in Nat, n \in N
      PROVE  n + 1 \in N
  <2>1. PICK g \in [SUBSET S -> Int] : RightUpTo(f, S, g, n)
    BY <1>4
  <2>2. PICK h : h = [s \in SUBSET S |-> SumFrom(f, g, s)]
    OBVIOUS
  <2>3. h \in [SUBSET S -> Int]
    <3>1. ASSUME NEW s \in SUBSET S
          PROVE  SumFrom(f, g, s) \in Int
      <4>1. CASE s = {}
        BY <4>1 DEF SumFrom
      <4>2. CASE s # {}
        <5>1. g[s \ {Pick(s)}] \in Int /\ f[Pick(s)] \in Int
          BY <1>2, <2>1, <4>2
        <5> QED
          BY <4>2, <5>1 DEF SumFrom
      <4> QED
        BY <4>1, <4>2
    <3> QED
      BY <2>2, <3>1
  <2>4. ASSUME NEW s \in SUBSET S, Cardinality(s) <= n + 1, s # {}
        PROVE  h[s] = SumFrom(f, h, s)
    <3>1. Cardinality(s \ {Pick(s)}) <= n /\ s \ {Pick(s)} \in SUBSET S
      BY <1>1, <1>2, <2>4
    <3>2. h[s \ {Pick(s)}] = g[s \ {Pick(s)}]
      BY <2>1, <2>2, <3>1 DEF RightUpTo
    <3> QED
      BY <2>2, <2>4, <3>2 DEF SumFrom
  <2>5. h[{}] = SumFrom(f, h, {})
    BY <2>2 DEF SumFrom
  <2>6. RightUpTo(f, S, h, n + 1)
    BY <2>4, <2>5 DEF RightUpTo
  <2> QED
    BY <2>3, <2>6
<1>5. Nat \subseteq N
  <2> HIDE DEF N
  <2> QED
    BY <1>3, <1>4, Induction
<1>6. PICK g \in [SUBSET S -> Int] : RightUpTo(f, S, g, Cardinality(S))
  BY <1>1, <1>5
<1>7. g = [s \in SUBSET S |-> SumFrom(f, g, s)]
  BY <1>1, <1>6 DEF RightUpTo
<1>8. Sums(f, S) = [s \in SUBSET S |-> SumFrom(f, Sums(f, S), s)]
  BY <1>7 DEF Sums, SumFrom
<1>9. \A s \in SUBSET S : Sums(f, S)[s] \in Int
  <2> DEFINE T == {s \in SUBSET S : Sums(f, S)[s] \in Int}
  <2>1. {} \in T
    BY <1>8 DEF SumFrom
  <2>2. ASSUME NEW s \in SUBSET S, s # {}, s \ {Pick(s)} \in T
        PROVE  s \in T
    <3>1. Sums(f, S)[s] = f[Pick(s)] + Sums(f, S)[s \ {Pick(s)}]
      BY <1>8, <2>2 DEF SumFrom
    <3>2. f[Pick(s)] \in Int /\ Sums(f, S)[s \ {Pick(s)}] \in Int
      BY <1>2, <2>2
    <3> QED
      BY <3>1, <3>2
  <2>3. SUBSET S \subseteq T
    <3> HIDE DEF T
    <3> QED
      BY <2>1, <2>2, PartsInduction DEF Summable
  <2> QED
    BY <2>3
<1> QED
  BY <1>8, <1>9

\* The table of a set contains the tables of its parts.
LEMMA SumsOfPart ==
  ASSUME NEW f, NEW S, Summable(f, S), NEW R \in SUBSET S
  PROVE  Sums(f, S)[R] = SumFunctionOnSet(f, R)
<1> DEFINE T == {s \in SUBSET R : Sums(f, S)[s] = Sums(f, R)[s]}
<1>1. Summable(f, R)
  BY FS_Subset DEF Summable
<1>2. \A s \in SUBSET R : /\ Sums(f, S)[s] = SumFrom(f, Sums(f, S), s)
                          /\ Sums(f, R)[s] = SumFrom(f, Sums(f, R), s)
  BY <1>1, SumsExist
<1>3. {} \in T
  BY <1>2 DEF SumFrom
<1>4. ASSUME NEW s \in SUBSET R, s # {}, s \ {Pick(s)} \in T
      PROVE  s \in T
  BY <1>2, <1>4 DEF SumFrom
<1>5. SUBSET R \subseteq T
  <2> HIDE DEF T
  <2> QED
    BY <1>1, <1>3, <1>4, PartsInduction DEF Summable
<1> QED
  BY <1>5, SumIsLast

LEMMA SumOfNone == ASSUME NEW f PROVE SumFunctionOnSet(f, {}) = 0
<1>1. Summable(f, {})
  BY FS_EmptySet DEF Summable
<1> QED
  BY <1>1, SumsExist, SumIsLast DEF SumFrom

LEMMA SumPicks ==
  ASSUME NEW f, NEW S, Summable(f, S), S # {}
  PROVE  /\ Pick(S) \in S /\ Summable(f, S \ {Pick(S)})
         /\ SumFunctionOnSet(f, S) = f[Pick(S)] + SumFunctionOnSet(f, S \ {Pick(S)})
<1>1. Pick(S) \in S
  BY PickIn
<1>4. Sums(f, S)[S \ {Pick(S)}] = SumFunctionOnSet(f, S \ {Pick(S)})
  BY SumsOfPart
<1>5. SumFunctionOnSet(f, S) = Sums(f, S)[S]
  BY SumIsLast
<1>2. Summable(f, S \ {Pick(S)})
  BY FS_Subset DEF Summable
<1>3. Sums(f, S)[S] = SumFrom(f, Sums(f, S), S)
  BY SumsExist
<1> QED
  BY <1>1, <1>2, <1>3, <1>4, <1>5 DEF SumFrom

LEMMA SumType ==
  ASSUME NEW f, NEW S, Summable(f, S)
  PROVE  SumFunctionOnSet(f, S) \in Int
<1>1. Sums(f, S) \in [SUBSET S -> Int]
  BY SumsExist
<1>2. Sums(f, S)[S] \in Int
  BY <1>1
<1> QED
  BY <1>2, SumIsLast

\* The order does not matter.
LEMMA SumTakes ==
  ASSUME NEW f, NEW S, Summable(f, S), NEW x \in S
  PROVE  /\ Summable(f, S \ {x})
         /\ SumFunctionOnSet(f, S) = f[x] + SumFunctionOnSet(f, S \ {x})
<1> DEFINE P(s) == \A y \in s : SumFunctionOnSet(f, s) = f[y] + SumFunctionOnSet(f, s \ {y})
           N == {n \in Nat : \A s \in SUBSET S : Cardinality(s) = n => P(s)}
<1>1. \A s \in SUBSET S : IsFiniteSet(s) /\ Cardinality(s) \in Nat /\ Summable(f, s)
  BY FS_Subset, FS_CardinalityType DEF Summable
<1>2. 0 \in N
  BY <1>1, FS_EmptySet
<1>3. ASSUME NEW n \in Nat, n \in N
      PROVE  n + 1 \in N
  <2> SUFFICES ASSUME NEW s \in SUBSET S, Cardinality(s) = n + 1, NEW y \in s, y # Pick(s)
               PROVE  SumFunctionOnSet(f, s) = f[y] + SumFunctionOnSet(f, s \ {y})
    <3> HIDE DEF P
    <3> SUFFICES ASSUME NEW s \in SUBSET S, Cardinality(s) = n + 1
                 PROVE  P(s)
      OBVIOUS
    <3> USE DEF P
    <3>1. \A y \in s : y = Pick(s) => SumFunctionOnSet(f, s) = f[y] + SumFunctionOnSet(f, s \ {y})
      BY <1>1, SumPicks
    <3> QED
      BY <3>1
  <2> DEFINE p == Pick(s)
             q == s \ {p}
             r == s \ {y}
  <2>1. p \in s /\ SumFunctionOnSet(f, s) = f[p] + SumFunctionOnSet(f, q)
    BY <1>1, SumPicks
  <2>2. q \in SUBSET S /\ r \in SUBSET S /\ Cardinality(q) = n /\ Cardinality(r) = n
    <3>1. IsFiniteSet(s) /\ Cardinality(s) = n + 1
      BY <1>1
    <3>2. \A z \in s : s \ {z} \in SUBSET S /\ Cardinality(s \ {z}) = n
      BY <3>1, FS_RemoveElement
    <3> QED
      BY <2>1, <3>2
  <2>3. SumFunctionOnSet(f, q) = f[y] + SumFunctionOnSet(f, q \ {y})
    BY <1>3, <2>2
  <2>4. SumFunctionOnSet(f, r) = f[p] + SumFunctionOnSet(f, r \ {p})
    BY <1>3, <2>1, <2>2
  <2>5. q \ {y} = r \ {p}
    OBVIOUS
  <2>6. f[p] \in Int /\ f[y] \in Int
    BY <2>1 DEF Summable
  <2>7. SumFunctionOnSet(f, q \ {y}) \in Int
    <3>1. q \ {y} \in SUBSET S
      BY <2>2
    <3> HIDE DEF q
    <3> QED
      BY <1>1, <3>1, SumType
  <2>8. SumFunctionOnSet(f, s) = f[y] + SumFunctionOnSet(f, r)
    <3>1. SumFunctionOnSet(f, s) = f[p] + (f[y] + SumFunctionOnSet(f, q \ {y}))
      BY <2>1, <2>3
    <3>2. SumFunctionOnSet(f, r) = f[p] + SumFunctionOnSet(f, q \ {y})
      BY <2>4, <2>5
    <3> HIDE DEF p, q, r
    <3> QED
      BY <2>6, <2>7, <3>1, <3>2
  <2> QED
    BY <2>8
<1>4. Nat \subseteq N
  <2> HIDE DEF N
  <2> QED
    BY <1>2, <1>3, Induction
<1>5. P(S)
  BY <1>1, <1>4
<1> QED
  BY <1>1, <1>5

\* Of two functions that differ by at most a third one, so do the sums.
LEMMA SumsNear ==
  ASSUME NEW f, NEW g, NEW c, NEW S, Summable(f, S), Summable(g, S), Summable(c, S),
         \A x \in S : f[x] - g[x] <= c[x] /\ g[x] - f[x] <= c[x]
  PROVE  /\ SumFunctionOnSet(f, S) - SumFunctionOnSet(g, S) <= SumFunctionOnSet(c, S)
         /\ SumFunctionOnSet(g, S) - SumFunctionOnSet(f, S) <= SumFunctionOnSet(c, S)
<1> DEFINE P(s) == /\ SumFunctionOnSet(f, s) - SumFunctionOnSet(g, s) <= SumFunctionOnSet(c, s)
                   /\ SumFunctionOnSet(g, s) - SumFunctionOnSet(f, s) <= SumFunctionOnSet(c, s)
           T == {s \in SUBSET S : P(s)}
<1>1. {} \in T
  BY SumOfNone
<1>2. ASSUME NEW s \in SUBSET S, s # {}, s \ {Pick(s)} \in T
      PROVE  s \in T
  <2>1. Summable(f, s) /\ Summable(g, s) /\ Summable(c, s)
    BY FS_Subset DEF Summable
  <2>2. /\ SumFunctionOnSet(f, s) = f[Pick(s)] + SumFunctionOnSet(f, s \ {Pick(s)})
        /\ SumFunctionOnSet(g, s) = g[Pick(s)] + SumFunctionOnSet(g, s \ {Pick(s)})
        /\ SumFunctionOnSet(c, s) = c[Pick(s)] + SumFunctionOnSet(c, s \ {Pick(s)})
        /\ Pick(s) \in S
    BY <1>2, <2>1, SumPicks
  <2>3. /\ SumFunctionOnSet(f, s \ {Pick(s)}) \in Int
        /\ SumFunctionOnSet(g, s \ {Pick(s)}) \in Int
        /\ SumFunctionOnSet(c, s \ {Pick(s)}) \in Int
    BY <1>2, <2>1, SumPicks, SumType
  <2>4. f[Pick(s)] \in Int /\ g[Pick(s)] \in Int /\ c[Pick(s)] \in Int
    BY <2>2 DEF Summable
  <2>5. P(s \ {Pick(s)})
    BY <1>2
  <2> QED
    BY <2>2, <2>3, <2>4, <2>5
<1>3. SUBSET S \subseteq T
  <2> HIDE DEF T
  <2> QED
    BY <1>1, <1>2, PartsInduction DEF Summable
<1> QED
  BY <1>3

\* Functions that agree have the same sum.
LEMMA SumsAgree ==
  ASSUME NEW f, NEW g, NEW S, Summable(f, S), \A x \in S : g[x] = f[x]
  PROVE  Summable(g, S) /\ SumFunctionOnSet(g, S) = SumFunctionOnSet(f, S)
<1>1. Summable(g, S)
  BY DEF Summable
<1> DEFINE T == {s \in SUBSET S : SumFunctionOnSet(g, s) = SumFunctionOnSet(f, s)}
<1>2. {} \in T
  BY SumOfNone
<1>3. ASSUME NEW s \in SUBSET S, s # {}, s \ {Pick(s)} \in T
      PROVE  s \in T
  <2>1. Summable(f, s) /\ Summable(g, s)
    BY <1>1, FS_Subset DEF Summable
  <2> QED
    BY <1>3, <2>1, SumPicks
<1>4. SUBSET S \subseteq T
  <2> HIDE DEF T
  <2> QED
    BY <1>2, <1>3, PartsInduction DEF Summable
<1> QED
  BY <1>1, <1>4

\* The sum of multiples is the multiple of the sum.
LEMMA SumsScale ==
  ASSUME NEW f, NEW g, NEW k \in Int, NEW S, Summable(f, S), \A x \in S : g[x] = f[x] * k
  PROVE  Summable(g, S) /\ SumFunctionOnSet(g, S) = SumFunctionOnSet(f, S) * k
<1>1. Summable(g, S)
  BY DEF Summable
<1> DEFINE T == {s \in SUBSET S : SumFunctionOnSet(g, s) = SumFunctionOnSet(f, s) * k}
<1>2. {} \in T
  BY SumOfNone
<1>3. ASSUME NEW s \in SUBSET S, s # {}, s \ {Pick(s)} \in T
      PROVE  s \in T
  <2>1. Summable(f, s) /\ Summable(g, s)
    BY <1>1, FS_Subset DEF Summable
  <2>2. /\ SumFunctionOnSet(f, s) = f[Pick(s)] + SumFunctionOnSet(f, s \ {Pick(s)})
        /\ SumFunctionOnSet(g, s) = g[Pick(s)] + SumFunctionOnSet(g, s \ {Pick(s)})
        /\ Pick(s) \in S /\ SumFunctionOnSet(f, s \ {Pick(s)}) \in Int
    BY <1>3, <2>1, SumPicks, SumType
  <2>3. f[Pick(s)] \in Int /\ g[Pick(s)] = f[Pick(s)] * k
    BY <2>2 DEF Summable
  <2>4. \A a, b \in Int : (a + b) * k = a * k + b * k
    OBVIOUS
  <2>5. SumFunctionOnSet(g, s \ {Pick(s)}) = SumFunctionOnSet(f, s \ {Pick(s)}) * k
    BY <1>3
  <2> QED
    BY <2>2, <2>3, <2>4, <2>5
<1>4. SUBSET S \subseteq T
  <2> HIDE DEF T
  <2> QED
    BY <1>2, <1>3, PartsInduction DEF Summable
<1> QED
  BY <1>1, <1>4

\* The sum of sums is the sum of the two.
LEMMA SumsAdd ==
  ASSUME NEW f, NEW g, NEW h, NEW S, Summable(f, S), Summable(g, S), \A x \in S : h[x] = f[x] + g[x]
  PROVE  Summable(h, S) /\ SumFunctionOnSet(h, S) = SumFunctionOnSet(f, S) + SumFunctionOnSet(g, S)
<1>1. Summable(h, S)
  BY DEF Summable
<1> DEFINE T == {s \in SUBSET S : SumFunctionOnSet(h, s) = SumFunctionOnSet(f, s) + SumFunctionOnSet(g, s)}
<1>2. {} \in T
  BY SumOfNone
<1>3. ASSUME NEW s \in SUBSET S, s # {}, s \ {Pick(s)} \in T
      PROVE  s \in T
  <2>1. Summable(f, s) /\ Summable(g, s) /\ Summable(h, s)
    BY <1>1, FS_Subset DEF Summable
  <2>2. /\ SumFunctionOnSet(f, s) = f[Pick(s)] + SumFunctionOnSet(f, s \ {Pick(s)})
        /\ SumFunctionOnSet(g, s) = g[Pick(s)] + SumFunctionOnSet(g, s \ {Pick(s)})
        /\ SumFunctionOnSet(h, s) = h[Pick(s)] + SumFunctionOnSet(h, s \ {Pick(s)})
        /\ Pick(s) \in S
        /\ SumFunctionOnSet(f, s \ {Pick(s)}) \in Int /\ SumFunctionOnSet(g, s \ {Pick(s)}) \in Int
    BY <1>3, <2>1, SumPicks, SumType
  <2>3. f[Pick(s)] \in Int /\ g[Pick(s)] \in Int /\ h[Pick(s)] = f[Pick(s)] + g[Pick(s)]
    BY <2>2 DEF Summable
  <2>4. SumFunctionOnSet(h, s \ {Pick(s)}) = SumFunctionOnSet(f, s \ {Pick(s)}) + SumFunctionOnSet(g, s \ {Pick(s)})
    BY <1>3
  <2> QED
    BY <2>2, <2>3, <2>4
<1>4. SUBSET S \subseteq T
  <2> HIDE DEF T
  <2> QED
    BY <1>2, <1>3, PartsInduction DEF Summable
<1> QED
  BY <1>1, <1>4

-----------------------------------------------------------------------------
(***************************************************************************)
(* Documents.  What is told about a document is a function of the reading  *)
(* and of what the buyer was taken for.                                    *)
(***************************************************************************)
\* The dictionary of a reading, for a buyer with TIN t in an invoice of kind kd.
Say(r, t, kd) ==
  [number |-> InvoiceNumber(r), date |-> r.date,
   due |-> IF r.erp = "sage200" THEN "none" ELSE r.due,
   type |-> DocumentType(r), kind |-> kd, tin |-> t,
   name |-> r.customer, address |-> r.address, net |-> r.net, vat |-> r.vat, gross |-> r.gross,
   lines |-> MapLines(r), currency |-> r.currency, rate |-> ExchangeRate(r)]

TINs == {"tin", "none"}
Kinds == {"B2B", "B2C"}

\* The reading before the submission after n of them.
Reading(n) == IF n = 0 THEN GetNewInvoices(doc) ELSE GetInvoiceById(doc)
Saying(k, t, kd) == Payload(via, Say(Reading(k - 1), t, kd))
Sayings ==
  {Payload(via, Say(r, t, kd)) : r \in {GetNewInvoices(doc), GetInvoiceById(doc)}, t \in TINs, kd \in Kinds}

KindNow == IF doc.customer \in tins THEN "B2B" ELSE "B2C"

\* What was told, and how much of it can differ while nothing changed.
Told(k) ==
  \E t \in TINs, kd \in Kinds :
    /\ told[k] = Saying(k, t, kd)
    /\ kd = "B2C" => t = "none"
    /\ ~changed => kd = KindNow /\ t = told[1].tin

DocInv ==
  /\ doc \in Documents /\ via \in {"digitax", "interswitch"}
  /\ told \in Seq(Sayings) /\ changed \in BOOLEAN
  /\ stage = "raw" => hand = Reading(Len(told))
  /\ stage = "mapped" => hand = Mapped(Reading(Len(told)))
  /\ \A k \in DOMAIN told : Told(k)

\* The two readings, and what the mapper makes of them.
LEMMA Readings ==
  ASSUME NEW d
  PROVE  /\ d.erp = "sage200" => GetInvoiceById(d) = GetNewInvoices(d)
         /\ d.erp # "sage200" => GetInvoiceById(d) = [GetNewInvoices(d) EXCEPT !.address = @ \ {3}]
BY DEF GetInvoiceById, GetNewInvoices

LEMMA ReadCustomer ==
  ASSUME NEW n
  PROVE  Reading(n).customer = doc.customer
BY DEF Reading, GetInvoiceById, GetNewInvoices, Read200, Read300, Header

LEMMA MappedSays ==
  ASSUME NEW r
  PROVE  Mapped(r) = Say(r, BuyerTIN(r), InvoiceType(r))
BY DEF Mapped, Say

\* The payload names the buyer that the dictionary names.
LEMMA PayloadTIN ==
  ASSUME NEW r, NEW t \in TINs, NEW kd \in Kinds, kd = "B2C" => t = "none", NEW a
  PROVE  Payload(a, Say(r, t, kd)).tin = t
BY DEF Payload, DigiTax, BuildB2C, BuildB2B, UBL, Say, TINs, Kinds

\* A submission adds what it says to what was told.
LEMMA DeclareStep ==
  ASSUME DocInv, NEW v \in BOOLEAN, Declare(v)
  PROVE  DocInv'
<1> USE DEF DocInv
<1> DEFINE r == Reading(Len(told))
           m == IF hand.tin # "none" /\ ~v THEN [hand EXCEPT !.tin = "none"] ELSE hand
           p == Payload(via, m)
<1>0. PICK k, kd : k = Len(told) + 1 /\ kd = InvoiceType(r)
  OBVIOUS
<1>1. /\ stage = "mapped" /\ told' = Append(told, p) /\ stage' = "posted"
      /\ changed' = (changed \/ (told # <<>> /\ told[Len(told)].tin # p.tin))
      /\ UNCHANGED <<doc, via, tins>>
  BY DEF Declare
<1>2. hand = Say(r, BuyerTIN(r), InvoiceType(r))
  BY <1>1, MappedSays
<1>3. r.customer = doc.customer
  BY ReadCustomer
<1>4. BuyerTIN(r) \in TINs /\ InvoiceType(r) \in Kinds
  BY DEF BuyerTIN, InvoiceType, TINs, Kinds
<1>5. InvoiceType(r) = KindNow /\ (InvoiceType(r) = "B2C" => BuyerTIN(r) = "none")
  BY <1>3 DEF BuyerTIN, InvoiceType, KindNow
<1>6. PICK t \in TINs : /\ m = Say(r, t, InvoiceType(r))
                        /\ InvoiceType(r) = "B2C" => t = "none"
  <2>1. hand.tin = BuyerTIN(r) /\ [hand EXCEPT !.tin = "none"] = Say(r, "none", InvoiceType(r))
    BY <1>2 DEF Say
  <2>2. CASE hand.tin # "none" /\ ~v
    BY <2>1, <2>2 DEF TINs
  <2>3. CASE ~(hand.tin # "none" /\ ~v)
    BY <1>2, <1>4, <1>5, <2>3
  <2> QED
    BY <2>2, <2>3
<1> HIDE DEF m
<1>7. p.tin = t /\ p \in Sayings
  <2>1. r \in {GetNewInvoices(doc), GetInvoiceById(doc)}
    BY DEF Reading
  <2> QED
    BY <1>4, <1>6, <2>1, PayloadTIN DEF Sayings
<1>8. Len(told) \in Nat /\ Saying(k, t, kd) = p
  <2>1. Len(told) \in Nat /\ k - 1 = Len(told)
    BY <1>0
  <2> QED
    BY <1>0, <1>6, <2>1 DEF Saying
<1> HIDE DEF p
<1>9. /\ told' \in Seq(Sayings) /\ DOMAIN told' = DOMAIN told \cup {k}
      /\ told'[k] = p /\ \A j \in DOMAIN told : told'[j] = told[j]
  BY <1>0, <1>1, <1>7
<1>10. Sayings' = Sayings /\ KindNow' = KindNow
       /\ \A j, x, y : Saying(j, x, y)' = Saying(j, x, y)
  BY <1>1 DEF Sayings, KindNow, Saying, Reading
<1>11. ASSUME NEW j \in DOMAIN told
       PROVE  Told(j)'
  <2>1. told # <<>> /\ 1 \in DOMAIN told
    BY <1>11
  <2>2. changed' \/ ~changed
    BY <1>1
  <2> QED
    BY <1>1, <1>9, <1>10, <2>1 DEF Told
<1>12. Told(k)'
  <2>1. ~changed' => t = told'[1].tin
    <3>1. CASE told = <<>>
      BY <1>0, <1>7, <1>9, <3>1
    <3>2. CASE told # <<>>
      <4>1. Len(told) \in DOMAIN told /\ 1 \in DOMAIN told
        BY <3>2
      <4>2. Told(Len(told))
        BY <4>1
      <4>3. PICK x \in TINs, y \in Kinds : /\ told[Len(told)] = Saying(Len(told), x, y)
                                           /\ y = "B2C" => x = "none"
                                           /\ ~changed => x = told[1].tin
        BY <4>2 DEF Told
      <4>4. told[Len(told)].tin = x
        BY <4>3, PayloadTIN DEF Saying
      <4> QED
        BY <1>1, <1>7, <1>9, <3>2, <4>1, <4>3, <4>4
    <3> QED
      BY <3>1, <3>2
  <2>2. told'[k] = Saying(k, t, kd)'
    BY <1>8, <1>9, <1>10
  <2>3. kd \in Kinds /\ kd = KindNow' /\ (kd = "B2C" => t = "none")
    BY <1>0, <1>4, <1>5, <1>6, <1>10
  <2> QED
    BY <2>1, <2>2, <2>3 DEF Told
<1>13. \A j \in DOMAIN told' : Told(j)'
  BY <1>9, <1>11, <1>12
<1>14. changed' \in BOOLEAN
  BY <1>1
<1> QED
  BY <1>1, <1>9, <1>10, <1>13, <1>14

\* The other steps tell nothing.
LEMMA ReadStep ==
  ASSUME DocInv, Pull \/ Repull \/ Map \/ Refuse \/ RegisterTIN \/ UNCHANGED docVars
  PROVE  DocInv'
<1> USE DEF DocInv
<1>1. UNCHANGED <<doc, via, told>>
  BY DEF Pull, Repull, Map, Refuse, RegisterTIN, docVars
<1>2. Sayings' = Sayings /\ (\A n : Reading(n)' = Reading(n))
      /\ \A j, x, y : Saying(j, x, y)' = Saying(j, x, y)
  BY <1>1 DEF Sayings, Saying, Reading
<1>3. Len(told) \in Nat /\ (told = <<>> <=> Len(told) = 0)
  OBVIOUS
<1>4. /\ stage' = "raw" => hand' = Reading(Len(told))
      /\ stage' = "mapped" => hand' = Mapped(Reading(Len(told)))' 
  <2>1. CASE Pull \/ Repull
    BY <1>3, <2>1 DEF Pull, Repull, Reading
  <2>2. CASE Map
    <3>1. tins' = tins /\ stage' = "mapped" /\ hand' = Mapped(hand) /\ hand = Reading(Len(told))
      BY <2>2 DEF Map
    <3>2. Mapped(Reading(Len(told)))' = Mapped(Reading(Len(told)))
      BY <1>1, <3>1 DEF Mapped, BuyerTIN, InvoiceType, Reading
    <3> QED
      BY <3>1, <3>2
  <2>3. CASE Refuse \/ RegisterTIN
    BY <2>3 DEF Refuse, RegisterTIN
  <2>4. CASE UNCHANGED docVars
    <3>1. UNCHANGED <<tins, stage, hand>>
      BY <2>4 DEF docVars
    <3>2. Mapped(Reading(Len(told)))' = Mapped(Reading(Len(told)))
      BY <1>1, <3>1 DEF Mapped, BuyerTIN, InvoiceType, Reading
    <3> QED
      BY <3>1, <3>2
  <2> QED
    BY <2>1, <2>2, <2>3, <2>4
<1>5. /\ changed' \in BOOLEAN
      /\ told # <<>> => changed' \/ (changed' = changed /\ tins' = tins)
  BY DEF Pull, Repull, Map, Refuse, RegisterTIN, docVars
<1>6. ASSUME NEW k \in DOMAIN told
      PROVE  Told(k)'
  <2>1. told # <<>>
    OBVIOUS
  <2>2. changed' \/ KindNow' = KindNow
    BY <1>1, <1>5, <2>1 DEF KindNow
  <2> QED
    BY <1>1, <1>2, <1>5, <2>1, <2>2 DEF Told
<1>7. Reading(Len(told))' = Reading(Len(told))
  BY <1>1, <1>2
<1> QED
  BY <1>1, <1>2, <1>4, <1>5, <1>6, <1>7

\* What is told of a document is, at every try, what the mapper makes of its
\* reading for the buyer of the moment.
THEOREM DocInvariance == DocSpec => []DocInv
<1>1. DocInit => DocInv
  <2> SUFFICES ASSUME DocInit
               PROVE  DocInv
    OBVIOUS
  <2>1. told = <<>> /\ stage = "posted" /\ changed = FALSE
    BY DEF DocInit
  <2>2. told \in Seq(Sayings) /\ \A k \in DOMAIN told : Told(k)
    BY <2>1
  <2>3. doc \in Documents /\ via \in {"digitax", "interswitch"}
    BY DEF DocInit
  <2> QED
    BY <2>1, <2>2, <2>3 DEF DocInv
<1>2. DocInv /\ [DocNext]_docVars => DocInv'
  BY ReadStep, DeclareStep DEF DocNext
<1> QED
  BY <1>1, <1>2, PTL DEF DocSpec

-----------------------------------------------------------------------------
\* What is charged does not depend on the buyer or the address.
LEMMA ChargedSame ==
  ASSUME NEW d, NEW a, NEW t, NEW kd, NEW u, NEW ke
  PROVE  Charged(Payload(a, Say(GetInvoiceById(d), t, kd))) = Charged(Payload(a, Say(GetNewInvoices(d), u, ke)))
<1> DEFINE x == GetInvoiceById(d)
           y == GetNewInvoices(d)
<1>1. x.lines = y.lines /\ x.net = y.net /\ x.vat = y.vat /\ x.gross = y.gross /\ x.erp = y.erp
  BY DEF GetInvoiceById, GetNewInvoices, Read200, Read300, Header
<1>2. MapLines(x) = MapLines(y)
  BY <1>1 DEF MapLines
<1> HIDE DEF x, y
<1>3. Say(x, t, kd).lines = Say(y, u, ke).lines /\ Say(x, t, kd).gross = Say(y, u, ke).gross
  BY <1>1, <1>2 DEF Say
<1> DEFINE m == Say(x, t, kd)
           n == Say(y, u, ke)
<1> HIDE DEF m, n
<1>4. m.lines = n.lines /\ m.gross = n.gross
  BY <1>3 DEF m, n
<1>5. CASE a = "digitax"
  <2>1. /\ Payload(a, m) = DigiTax(m) /\ Payload(a, n) = DigiTax(n)
        /\ DigiTax(m).app = "digitax" /\ DigiTax(n).app = "digitax"
        /\ DigiTax(m).items = DigiTax(n).items
    BY <1>4, <1>5 DEF Payload, DigiTax
  <2>2. Charged(DigiTax(m)) = Charged(DigiTax(n))
    BY <2>1 DEF Charged
  <2> QED
    BY <2>1, <2>2 DEF m, n, x, y
<1>6. CASE a # "digitax"
  <2>1. /\ Payload(a, m).app = "interswitch" /\ Payload(a, m).gross = m.gross
        /\ Payload(a, n).app = "interswitch" /\ Payload(a, n).gross = n.gross
    BY <1>6 DEF Payload, BuildB2C, BuildB2B, UBL
  <2>2. Charged(Payload(a, m)) = Charged(Payload(a, n))
    BY <1>4, <2>1 DEF Charged
  <2> QED
    BY <2>2 DEF m, n, x, y
<1> QED
  BY <1>5, <1>6

\* The second reading of Sage 300 lacks an address line, and so does its payload.
LEMMA AddressOnly ==
  ASSUME NEW d, d.erp # "sage200", NEW a, NEW t, NEW kd
  PROVE  Payload(a, Say(GetInvoiceById(d), t, kd))
           = [Payload(a, Say(GetNewInvoices(d), t, kd)) EXCEPT !.address = @ \ {3}]
<1> DEFINE x == GetInvoiceById(d)
           y == GetNewInvoices(d)
           m == Say(y, t, kd)
           n == [m EXCEPT !.address = @ \ {3}]
<1>1. x = [y EXCEPT !.address = @ \ {3}] /\ y = Read300(d)
  BY Readings DEF GetNewInvoices
<1>2. /\ x.number = y.number /\ x.erp = y.erp /\ x.entry = y.entry /\ x.type = y.type
      /\ x.date = y.date /\ x.due = y.due /\ x.customer = y.customer /\ x.currency = y.currency
      /\ x.rate = y.rate /\ x.gross = y.gross /\ x.vat = y.vat /\ x.net = y.net /\ x.lines = y.lines
      /\ x.address = y.address \ {3}
  BY <1>1 DEF Read300, Header
<1>3. Say(x, t, kd) = n
  <2> HIDE DEF x, y
  <2>1. /\ InvoiceNumber(x) = InvoiceNumber(y) /\ DocumentType(x) = DocumentType(y)
        /\ MapLines(x) = MapLines(y) /\ ExchangeRate(x) = ExchangeRate(y)
    BY <1>2 DEF InvoiceNumber, DocumentType, MapLines, ExchangeRate
  <2> QED
    BY <1>2, <2>1 DEF Say
<1>4. DigiTax(n) = [DigiTax(m) EXCEPT !.address = @ \ {3}]
  <2>1. /\ n.number = m.number /\ n.date = m.date /\ n.kind = m.kind /\ n.type = m.type /\ n.due = m.due
        /\ n.tin = m.tin /\ n.name = m.name /\ n.lines = m.lines /\ n.address = m.address \ {3}
    BY DEF Say
  <2> HIDE DEF m, n
  <2> DEFINE its == [k \in DOMAIN m.lines |-> Item(m.lines[k])]
  <2>2. [k \in DOMAIN n.lines |-> Item(n.lines[k])] = its
    BY <2>1
  <2> HIDE DEF its
  <2>3. DigiTax(m) =
          [app |-> "digitax", number |-> m.number, date |-> m.date, kind |-> m.kind,
           type |-> IF m.type = "380" THEN "381" ELSE m.type, due |-> m.due, tin |-> m.tin,
           name |-> m.name, address |-> m.address, items |-> its]
    BY DEF DigiTax, its
  <2>4. DigiTax(n) =
          [app |-> "digitax", number |-> n.number, date |-> n.date, kind |-> n.kind,
           type |-> IF n.type = "380" THEN "381" ELSE n.type, due |-> n.due, tin |-> n.tin,
           name |-> n.name, address |-> n.address, items |-> its]
    BY <2>2 DEF DigiTax
  <2> QED
    BY <2>1, <2>3, <2>4
<1>5. UBL(n) = [UBL(m) EXCEPT !.address = @ \ {3}]
  <2> HIDE DEF y
  <2> QED
    BY DEF UBL, Say
<1>6. BuildB2C(n) = [BuildB2C(m) EXCEPT !.address = @ \ {3}]
  <2> HIDE DEF m, n
  <2> DEFINE u == UBL(m)
  <2>1. /\ BuildB2C(n) = [[u EXCEPT !.address = @ \ {3}]
                            EXCEPT !.type = "380", !.due = "none", !.tin = "none", !.address = {}]
        /\ BuildB2C(m) = [u EXCEPT !.type = "380", !.due = "none", !.tin = "none", !.address = {}]
    BY <1>5 DEF BuildB2C
  <2>2. u = [app |-> u.app, number |-> u.number, date |-> u.date, kind |-> u.kind,
             type |-> u.type, due |-> u.due, tin |-> u.tin, name |-> u.name, address |-> u.address,
             net |-> u.net, vat |-> u.vat, gross |-> u.gross, lines |-> u.lines, subtotals |-> u.subtotals]
    BY DEF UBL
  <2> HIDE DEF u
  <2> QED
    BY <2>1, <2>2
<1>7. n.kind = m.kind
  BY DEF Say
<1> QED
  BY <1>3, <1>4, <1>5, <1>6, <1>7 DEF Payload, BuildB2B

\* A retry tells the provider what the first attempt told it, but for what the
\* second query leaves out and for what was learnt about the buyer in between.
THEOREM RetriesAgree == DocSpec => []RetryDeclaresTheSame
<1>1. DocInv => RetryDeclaresTheSame
  <2> SUFFICES ASSUME DocInv, NEW k \in 2 .. Len(told)
               PROVE  /\ Charged(told[k]) = Charged(told[1])
                      /\ \/ changed
                         \/ told[k] = told[1]
                         \/ doc.erp = "sage300" /\ told[k] = [told[1] EXCEPT !.address = @ \ {3}]
    BY DEF RetryDeclaresTheSame
  <2>1. k \in DOMAIN told /\ 1 \in DOMAIN told /\ k - 1 # 0
    BY DEF DocInv
  <2>2. PICK t \in TINs, kd \in Kinds :
          told[k] = Saying(k, t, kd) /\ (~changed => kd = KindNow /\ t = told[1].tin)
    BY <2>1 DEF DocInv, Told
  <2>3. PICK u \in TINs, ke \in Kinds :
          /\ told[1] = Saying(1, u, ke) /\ (ke = "B2C" => u = "none")
          /\ ~changed => ke = KindNow /\ u = told[1].tin
    BY <2>1 DEF DocInv, Told
  <2>4. /\ told[k] = Payload(via, Say(GetInvoiceById(doc), t, kd))
        /\ told[1] = Payload(via, Say(GetNewInvoices(doc), u, ke))
    BY <2>1, <2>2, <2>3 DEF Saying, Reading
  <2>5. Charged(told[k]) = Charged(told[1])
    BY <2>4, ChargedSame
  <2>6. ~changed => t = u /\ kd = ke
    BY <2>2, <2>3
  <2>7. doc.erp \in {"sage200", "sage300"}
    BY DocumentsAssumption DEF DocInv, Document
  <2>8. CASE doc.erp = "sage200"
    BY <2>4, <2>5, <2>6, <2>8, Readings
  <2>9. CASE doc.erp = "sage300"
    BY <2>4, <2>5, <2>6, <2>9, AddressOnly
  <2> QED
    BY <2>7, <2>8, <2>9
<1> QED
  BY <1>1, DocInvariance, PTL

-----------------------------------------------------------------------------
(***************************************************************************)
(* Rounding, and sums again.                                               *)
(***************************************************************************)
LEMMA Quotient ==
  ASSUME NEW x \in Nat, NEW d \in Nat \ {0}
  PROVE  LET q == x \div d IN
         q \in Nat /\ d * q \in Int /\ d * q <= x /\ x < d * q + d /\ (x < d => q = 0)
<1> DEFINE q == x \div d
<1>1. q \in Int /\ d * q <= x /\ x < d * q + d
  OBVIOUS
<1> HIDE DEF q
<1>2. q < 0 => d * q + d <= 0
  <2> SUFFICES ASSUME q < 0 PROVE d * q + d <= 0
    OBVIOUS
  <2>1. q + 1 <= 0 /\ d * q + d = d * (q + 1)
    BY <1>1
  <2>2. \A n \in Int : n <= 0 => d * n <= 0
    OBVIOUS
  <2> QED
    BY <1>1, <2>1, <2>2
<1>3. q >= 1 => d * q >= d
  <2>1. \A n \in Int : n >= 1 => d * n >= d
    OBVIOUS
  <2> QED
    BY <1>1, <2>1
<1>4. d * q \in Int
  BY <1>1
<1>5. q \in Nat
  BY <1>1, <1>2, <1>4
<1> QED
  BY <1>1, <1>3, <1>4, <1>5 DEF q

\* A rounded quotient is at most one half off.
LEMMA RoundedNear ==
  ASSUME NEW a \in Int, NEW b \in Nat \ {0}
  PROVE  /\ Rounded(a, b) \in Int /\ b * Rounded(a, b) \in Int
         /\ 2 * a - b <= 2 * (b * Rounded(a, b)) /\ 2 * (b * Rounded(a, b)) <= 2 * a + b
         /\ a >= 0 => Rounded(a, b) >= 0 /\ 2 * a < 2 * (b * Rounded(a, b)) + b
         /\ a <= 0 => Rounded(a, b) <= 0 /\ 2 * (b * Rounded(a, b)) - b < 2 * a
<1> DEFINE d == 2 * b
<1>1. d \in Nat \ {0}
  OBVIOUS
<1>3. CASE a >= 0
  <2> DEFINE x == 2 * a + b
             q == x \div d
  <2>1. Rounded(a, b) = q /\ x \in Nat
    BY <1>3 DEF Rounded
  <2> HIDE DEF x, d
  <2>2. q \in Nat /\ d * q <= x /\ x < d * q + d /\ (x < d => q = 0)
    BY <1>1, <2>1, Quotient
  <2> HIDE DEF q
  <2> USE DEF x, d
  <2>3. b * q \in Int /\ d * q = 2 * (b * q)
    BY <2>2
  <2>4. a = 0 => q = 0
    BY <2>2
  <2> QED
    BY <1>3, <2>1, <2>2, <2>3, <2>4
<1>4. CASE a < 0
  <2> DEFINE x == b - 2 * a
             q == x \div d
  <2>1. Rounded(a, b) = -q /\ x \in Nat
    BY <1>4 DEF Rounded
  <2> HIDE DEF x, d
  <2>2. q \in Nat /\ d * q <= x /\ x < d * q + d
    BY <1>1, <2>1, Quotient
  <2> HIDE DEF q
  <2> USE DEF x, d
  <2>3. b * q \in Int /\ d * q = 2 * (b * q) /\ b * (-q) = -(b * q)
    BY <2>2
  <2> QED
    BY <1>4, <2>1, <2>2, <2>3
<1> QED
  BY <1>3, <1>4

\* As a percentage in hundredths is.
LEMMA PercentNear ==
  ASSUME NEW a \in Int
  PROVE  /\ Rounded(a, 10000) \in Int
         /\ 2 * a - 10000 <= 20000 * Rounded(a, 10000) /\ 20000 * Rounded(a, 10000) <= 2 * a + 10000
<1> DEFINE r == Rounded(a, 10000)
<1>1. r \in Int /\ 2 * a - 10000 <= 2 * (10000 * r) /\ 2 * (10000 * r) <= 2 * a + 10000
  BY RoundedNear
<1> HIDE DEF r
<1>2. r \in Int /\ 2 * a - 10000 <= 20000 * r /\ 20000 * r <= 2 * a + 10000
  BY <1>1
<1> QED
  BY <1>2 DEF r

\* As a price in kobo is.
LEMMA HundredNear ==
  ASSUME NEW a \in Int
  PROVE  /\ Rounded(a, 100) \in Int
         /\ 2 * a - 100 <= 200 * Rounded(a, 100) /\ 200 * Rounded(a, 100) <= 2 * a + 100
<1> DEFINE r == Rounded(a, 100)
<1>1. r \in Int /\ 2 * a - 100 <= 2 * (100 * r) /\ 2 * (100 * r) <= 2 * a + 100
  BY RoundedNear
<1> HIDE DEF r
<1>2. r \in Int /\ 2 * a - 100 <= 200 * r /\ 200 * r <= 2 * a + 100
  BY <1>1
<1> QED
  BY <1>2 DEF r

\* A whole number is not rounded.
LEMMA RoundedExact ==
  ASSUME NEW a \in Int
  PROVE  Rounded(100 * a, 100) = a
<1>1. CASE a >= 0
  <2>1. (2 * (100 * a) + 100) \div 200 = a
    BY <1>1
  <2> QED
    BY <1>1, <2>1 DEF Rounded
<1>2. CASE a < 0
  <2>1. (100 - 2 * (100 * a)) \div 200 = -a
    BY <1>2
  <2> QED
    BY <1>2, <2>1 DEF Rounded
<1> QED
  BY <1>1, <1>2

\* Roundings of numbers of one sign are as near as the numbers, rounded up.
LEMMA RoundedBoth ==
  ASSUME NEW a \in Int, NEW c \in Int, (a >= 0 /\ c >= 0) \/ (a <= 0 /\ c <= 0)
  PROVE  10000 * (Rounded(a, 10000) - Rounded(c, 10000) - 1) < a - c
<1> DEFINE p == Rounded(a, 10000)
           q == Rounded(c, 10000)
<1>1. /\ p \in Int /\ 2 * a - 10000 <= 2 * (10000 * p) /\ 2 * (10000 * p) <= 2 * a + 10000
      /\ a >= 0 => 2 * a < 2 * (10000 * p) + 10000
      /\ a <= 0 => 2 * (10000 * p) - 10000 < 2 * a
  BY RoundedNear
<1>2. /\ q \in Int /\ 2 * c - 10000 <= 2 * (10000 * q) /\ 2 * (10000 * q) <= 2 * c + 10000
      /\ c >= 0 => 2 * c < 2 * (10000 * q) + 10000
      /\ c <= 0 => 2 * (10000 * q) - 10000 < 2 * c
  BY RoundedNear
<1> HIDE DEF p, q
<1>3. 10000 * (p - q - 1) < a - c
  BY <1>1, <1>2
<1> QED
  BY <1>3 DEF p, q

\* The sum over one element, and of a constant.
LEMMA SumOfOne ==
  ASSUME NEW f, NEW x, f[x] \in Int
  PROVE  SumFunctionOnSet(f, {x}) = f[x]
<1>1. Summable(f, {x}) /\ {x} \ {x} = {}
  BY FS_Singleton DEF Summable
<1> QED
  BY <1>1, SumTakes, SumOfNone

LEMMA SumOfConstant ==
  ASSUME NEW f, NEW S, IsFiniteSet(S), NEW c \in Int, \A x \in S : f[x] = c
  PROVE  Summable(f, S) /\ SumFunctionOnSet(f, S) = c * Cardinality(S)
<1>1. Summable(f, S)
  BY DEF Summable
<1> DEFINE T == {s \in SUBSET S : SumFunctionOnSet(f, s) = c * Cardinality(s)}
<1>2. {} \in T
  BY SumOfNone, FS_EmptySet
<1>3. ASSUME NEW s \in SUBSET S, s # {}, s \ {Pick(s)} \in T
      PROVE  s \in T
  <2>1. Summable(f, s)
    BY <1>1, FS_Subset DEF Summable
  <2>2. Pick(s) \in s /\ SumFunctionOnSet(f, s) = c + SumFunctionOnSet(f, s \ {Pick(s)})
    BY <1>3, <2>1, SumPicks
  <2>3. /\ Cardinality(s) \in Nat /\ Cardinality(s \ {Pick(s)}) \in Nat
        /\ Cardinality(s) = Cardinality(s \ {Pick(s)}) + 1
    BY <2>1, <2>2, FS_CardinalityType, FS_RemoveElement, FS_Subset DEF Summable
  <2>4. \A n \in Nat : c * (n + 1) = c + c * n
    OBVIOUS
  <2> QED
    BY <1>3, <2>2, <2>3, <2>4
<1>4. SUBSET S \subseteq T
  <2> HIDE DEF T
  <2> QED
    BY <1>2, <1>3, PartsInduction
<1> QED
  BY <1>1, <1>4

\* The columns of a sequence of lines can be added up.
LEMMA ColumnSummable ==
  ASSUME NEW n \in Nat, NEW f, \A k \in 1 .. n : f[k] \in Int, NEW S \in SUBSET (1 .. n)
  PROVE  Summable(f, S) /\ Cardinality(S) \in Nat /\ Cardinality(S) <= n
<1>1. IsFiniteSet(1 .. n) /\ Cardinality(1 .. n) = n
  BY FS_Interval
<1>2. IsFiniteSet(S) /\ Cardinality(S) <= Cardinality(1 .. n)
  BY <1>1, FS_Subset
<1> QED
  BY <1>1, <1>2, FS_CardinalityType DEF Summable

\* Quantities add up to a natural number.
LEMMA UnitsType ==
  ASSUME NEW L, NEW n \in Nat, DOMAIN L = 1 .. n, \A k \in DOMAIN L : L[k].qty \in Nat
  PROVE  LET f == [k \in DOMAIN L |-> L[k].qty] IN
         Units(L) \in Nat /\ Units(L) = SumFunctionOnSet(f, DOMAIN L) /\ Summable(f, DOMAIN L)
<1> DEFINE f == [k \in DOMAIN L |-> L[k].qty]
<1>1. \A k \in DOMAIN L : f[k] \in Int /\ f[k] - f[k] <= f[k]
  OBVIOUS
<1>2. Units(L) = SumFunctionOnSet(f, DOMAIN L)
  BY DEF Units, SumFunction
<1> HIDE DEF f
<1>3. Summable(f, DOMAIN L)
  BY <1>1, FS_Interval DEF Summable
<1>4. SumFunctionOnSet(f, DOMAIN L) \in Int
  BY <1>3, SumType
<1>5. SumFunctionOnSet(f, DOMAIN L) - SumFunctionOnSet(f, DOMAIN L) <= SumFunctionOnSet(f, DOMAIN L)
  BY <1>1, <1>3, SumsNear
<1>6. Units(L) \in Nat /\ Units(L) = SumFunctionOnSet(f, DOMAIN L) /\ Summable(f, DOMAIN L)
  BY <1>2, <1>3, <1>4, <1>5
<1> QED
  BY <1>6 DEF f

-----------------------------------------------------------------------------
(***************************************************************************)
(* Lines that are priced and taxed as they say, and what a payload makes   *)
(* of them.                                                                *)
(***************************************************************************)
Rates == {t \in Nat : t = 0 \/ (t > 100 /\ t <= 5000)}
Line ==
  [qty : Nat \ {0}, price : Int, net : Int, vat : Int, rate : Rates, category : {"S", "Z"}]

Priced(l) == l.net = Rounded(l.qty * l.price, 100) /\ l.vat = Rounded(l.net * l.rate, 10000)
Sound(L) == L \in Seq(Line) /\ \A k \in DOMAIN L : Priced(L[k])

\* The columns of lines.
LEMMA ColumnsOf ==
  ASSUME NEW L \in Seq(Line), NEW S \in SUBSET (1 .. Len(L))
  PROVE  /\ Len(L) \in Nat /\ DOMAIN L = 1 .. Len(L) /\ \A k \in DOMAIN L : L[k] \in Line
         /\ DOMAIN Nets(L) = DOMAIN L /\ \A k \in DOMAIN L : Nets(L)[k] = L[k].net /\ L[k].net \in Int
         /\ DOMAIN Vats(L) = DOMAIN L /\ \A k \in DOMAIN L : Vats(L)[k] = L[k].vat /\ L[k].vat \in Int
         /\ Summable(Nets(L), S) /\ Summable(Vats(L), S)
         /\ Cardinality(S) \in Nat /\ Cardinality(S) <= Len(L)
<1>1. Len(L) \in Nat /\ DOMAIN L = 1 .. Len(L) /\ \A k \in DOMAIN L : L[k] \in Line
  OBVIOUS
<1>2. \A k \in DOMAIN L : L[k].net \in Int /\ L[k].vat \in Int
  BY <1>1 DEF Line
<1>3. DOMAIN Nets(L) = DOMAIN L /\ \A k \in DOMAIN L : Nets(L)[k] = L[k].net
  BY DEF Nets
<1>4. DOMAIN Vats(L) = DOMAIN L /\ \A k \in DOMAIN L : Vats(L)[k] = L[k].vat
  BY DEF Vats
<1>5. \A k \in 1 .. Len(L) : Nets(L)[k] \in Int /\ Vats(L)[k] \in Int
  BY <1>1, <1>2, <1>3, <1>4
<1> QED
  BY <1>1, <1>2, <1>3, <1>4, <1>5, ColumnSummable

\* Quantity times the unit price in kobo is at most half a kobo for each unit
\* off the net amount, and half a kobo more; for one unit not at all.
LEMMA UnitPrice ==
  ASSUME NEW q \in Nat \ {0}, NEW x \in Int
  PROVE  LET n == Rounded(q * x, 100)
             m == q * Rounded(x, 100)
         IN /\ n \in Int /\ m \in Int
            /\ 2 * (m - n) <= q + 1 /\ 2 * (n - m) <= q + 1
            /\ q = 1 => m = n
            /\ (m >= 0 /\ n >= 0) \/ (m <= 0 /\ n <= 0)
<1> DEFINE n == Rounded(q * x, 100)
           P == Rounded(x, 100)
<1>1. q * x \in Int /\ (x >= 0 => q * x >= 0) /\ (x <= 0 => q * x <= 0)
  OBVIOUS
<1>2. /\ P \in Int /\ 2 * x - 100 <= 2 * (100 * P) /\ 2 * (100 * P) <= 2 * x + 100
      /\ (x >= 0 => P >= 0) /\ (x <= 0 => P <= 0)
  BY RoundedNear
<1>3. /\ n \in Int /\ 2 * (q * x) - 100 <= 2 * (100 * n) /\ 2 * (100 * n) <= 2 * (q * x) + 100
      /\ (q * x >= 0 => n >= 0) /\ (q * x <= 0 => n <= 0)
  BY <1>1, RoundedNear
<1>4. q = 1 => P = n
  <2>1. q = 1 => q * x = x
    OBVIOUS
  <2> QED
    BY <2>1
<1> HIDE DEF n, P
<1>5. /\ q * P \in Int /\ (q = 1 => q * P = P)
      /\ (P >= 0 => q * P >= 0) /\ (P <= 0 => q * P <= 0)
  BY <1>2
<1>6. q * (100 * P - x) = 100 * (q * P) - q * x
  BY <1>2
<1>7. -50 <= 100 * P - x /\ 100 * P - x <= 50
  BY <1>2
<1>8. \A z \in Int : -50 <= z /\ z <= 50 => -(50 * q) <= q * z /\ q * z <= 50 * q
  <2>1. \A a, b \in Int : a <= b => q * a <= q * b
    OBVIOUS
  <2>2. q * (-50) = -(50 * q) /\ q * 50 = 50 * q
    OBVIOUS
  <2> QED
    BY <2>1, <2>2
<1>9. -(50 * q) <= 100 * (q * P) - q * x /\ 100 * (q * P) - q * x <= 50 * q
  BY <1>2, <1>6, <1>7, <1>8
<1>10. 2 * (q * P - n) <= q + 1 /\ 2 * (n - q * P) <= q + 1
  <2> DEFINE a == q * P
             b == q * x
  <2>1. a \in Int /\ b \in Int
    BY <1>1, <1>5
  <2>2. -(50 * q) <= 100 * a - b /\ 100 * a - b <= 50 * q
    BY <1>9
  <2>3. 2 * b - 100 <= 2 * (100 * n) /\ 2 * (100 * n) <= 2 * b + 100
    BY <1>3
  <2> HIDE DEF a, b
  <2>4. 2 * (a - n) <= q + 1 /\ 2 * (n - a) <= q + 1
    BY <1>3, <2>1, <2>2, <2>3
  <2> QED
    BY <2>4 DEF a
<1> QED
  BY <1>1, <1>2, <1>3, <1>4, <1>5, <1>10 DEF n, P

LEMMA RateType ==
  ASSUME NEW t \in Rates
  PROVE  t \in Int /\ 0 <= t /\ t <= 5000 /\ TaxRate(t) = t
BY DEF Rates, TaxRate

\* What DigiTax charges for an item is at most a kobo for each unit off the line.
LEMMA ItemNear ==
  ASSUME NEW l \in Line, Priced(l)
  PROVE  /\ ItemTotal(Item(l)) \in Int
         /\ ItemTotal(Item(l)) - (l.net + l.vat) <= l.qty
         /\ (l.net + l.vat) - ItemTotal(Item(l)) <= l.qty
<1> DEFINE q == l.qty
           n == l.net
           m == q * Rounded(l.price, 100)
           t == l.rate
<1>1. q \in Nat \ {0} /\ l.price \in Int /\ t \in Rates
  BY DEF Line
<1>2. /\ n \in Int /\ m \in Int
      /\ 2 * (m - n) <= q + 1 /\ 2 * (n - m) <= q + 1 /\ (q = 1 => m = n)
      /\ (m >= 0 /\ n >= 0) \/ (m <= 0 /\ n <= 0)
  <2> DEFINE p == l.price
             r == Rounded(q * p, 100)
  <2>1. n = r /\ q \in Nat \ {0} /\ p \in Int /\ m = q * Rounded(p, 100)
    BY <1>1 DEF Priced
  <2> HIDE DEF q, n, m, p
  <2>2. /\ r \in Int /\ q * Rounded(p, 100) \in Int
        /\ 2 * (q * Rounded(p, 100) - r) <= q + 1 /\ 2 * (r - q * Rounded(p, 100)) <= q + 1
        /\ q = 1 => q * Rounded(p, 100) = r
        /\ (q * Rounded(p, 100) >= 0 /\ r >= 0) \/ (q * Rounded(p, 100) <= 0 /\ r <= 0)
    BY ONLY <2>1, UnitPrice, Zenon
  <2> HIDE DEF r
  <2> QED
    BY ONLY <2>1, <2>2
<1>3. ItemTotal(Item(l)) = m + Rounded(m * t, 10000) /\ l.vat = Rounded(n * t, 10000)
  <2>1. TaxRate(t) = t
    BY <1>1, RateType
  <2>2. Item(l).qty = q /\ Item(l).price = Rounded(l.price, 100) /\ Item(l).rate = t
    BY <1>1, <2>1 DEF Item
  <2> QED
    BY <2>2 DEF ItemTotal, Priced
<1>4. t \in Int /\ 0 <= t /\ t <= 5000
  BY <1>1, RateType
<1> HIDE DEF q, n, m, t
<1>5. /\ m * t \in Int /\ n * t \in Int
      /\ (m * t >= 0 /\ n * t >= 0) \/ (m * t <= 0 /\ n * t <= 0)
  <2>1. \A a \in Int : a * t \in Int /\ (a >= 0 => a * t >= 0) /\ (a <= 0 => a * t <= 0)
    BY <1>4
  <2> QED
    BY <1>2, <2>1
<1> DEFINE x == Rounded(m * t, 10000)
           y == Rounded(n * t, 10000)
<1>6. x \in Int /\ y \in Int
  BY <1>5, RoundedNear
<1>7. 10000 * (x - y - 1) < m * t - n * t /\ 10000 * (y - x - 1) < n * t - m * t
  <2> DEFINE a == m * t
             b == n * t
  <2>1. a \in Int /\ b \in Int /\ ((a >= 0 /\ b >= 0) \/ (a <= 0 /\ b <= 0))
    BY <1>5
  <2> HIDE DEF a, b
  <2>2. /\ 10000 * (Rounded(a, 10000) - Rounded(b, 10000) - 1) < a - b
        /\ 10000 * (Rounded(b, 10000) - Rounded(a, 10000) - 1) < b - a
    BY <2>1, RoundedBoth
  <2> QED
    BY <2>2 DEF a, b
<1>8. m = n => x = y
  OBVIOUS
<1> HIDE DEF x, y
<1>9. PICK e \in Nat : (m - n <= e /\ n - m <= e) /\ (e = m - n \/ e = n - m)
  <2>1. m - n \in Nat \/ n - m \in Nat
    BY <1>2
  <2>2. \A e \in Nat : e = m - n \/ e = n - m => m - n <= e /\ n - m <= e
    BY <1>2
  <2> QED
    BY <2>1, <2>2
<1>10. m * t - n * t <= 5000 * e /\ n * t - m * t <= 5000 * e
  <2>1. \A a \in Int : a <= e => a * t <= 5000 * e
    <3>1. \A a \in Int : a >= 0 => a * t <= a * 5000
      BY <1>4
    <3>2. \A a \in Int : a < 0 => a * t <= 0
      BY <1>4
    <3> QED
      BY <3>1, <3>2, <1>4
  <2>2. (m - n) * t = m * t - n * t /\ (n - m) * t = n * t - m * t
    BY <1>2, <1>4
  <2> QED
    BY <1>2, <1>9, <2>1, <2>2
<1>11. 2 * (x - y) <= e + 1 /\ 2 * (y - x) <= e + 1
  <2> DEFINE a == m * t
             b == n * t
  <2>1. a \in Int /\ b \in Int
    BY <1>5
  <2>2. a - b <= 5000 * e /\ b - a <= 5000 * e
    BY <1>10
  <2>3. 10000 * (x - y - 1) < a - b /\ 10000 * (y - x - 1) < b - a
    BY <1>7
  <2> HIDE DEF a, b
  <2> QED
    BY <1>6, <2>1, <2>2, <2>3
<1>12. q \in Nat \ {0} /\ 2 * e <= q + 1 /\ (q = 1 => e = 0) /\ (e = 0 => x = y)
  BY <1>1, <1>2, <1>8, <1>9 DEF q
<1>13. (m + x) - (n + y) <= q /\ (n + y) - (m + x) <= q
  <2>1. (m + x) - (n + y) <= e + (x - y) /\ (n + y) - (m + x) <= e + (y - x)
    BY <1>2, <1>6, <1>9
  <2>2. CASE q <= 4
    BY <1>2, <1>6, <1>11, <1>12, <2>1, <2>2
  <2>3. CASE q >= 5
    BY <1>2, <1>6, <1>11, <1>12, <2>1, <2>3
  <2> QED
    BY <1>12, <2>2, <2>3
<1> QED
  BY <1>2, <1>3, <1>6, <1>13 DEF x, y, q, n

\* DigiTax charges for sound lines what they amount to, up to a kobo for each unit.
LEMMA ItemsNear ==
  ASSUME NEW L \in Seq(Line), Sound(L)
  PROVE  LET t == SumFunction(ItemTotals([k \in DOMAIN L |-> Item(L[k])])) IN
         /\ t \in Int /\ Net(L) \in Int /\ Vat(L) \in Int /\ Units(L) \in Int
         /\ t - (Net(L) + Vat(L)) <= Units(L) /\ (Net(L) + Vat(L)) - t <= Units(L)
<1> DEFINE S == 1 .. Len(L)
           f == ItemTotals([k \in DOMAIN L |-> Item(L[k])])
           h == [k \in DOMAIN L |-> L[k].net + L[k].vat]
           c == [k \in DOMAIN L |-> L[k].qty]
<1>1. /\ Len(L) \in Nat /\ DOMAIN L = S /\ \A k \in S : L[k] \in Line
      /\ DOMAIN Nets(L) = S /\ \A k \in S : Nets(L)[k] = L[k].net /\ L[k].net \in Int
      /\ DOMAIN Vats(L) = S /\ \A k \in S : Vats(L)[k] = L[k].vat /\ L[k].vat \in Int
      /\ Summable(Nets(L), S) /\ Summable(Vats(L), S)
  BY ColumnsOf
<1>2. DOMAIN f = S /\ \A k \in S : f[k] = ItemTotal(Item(L[k]))
  BY <1>1 DEF ItemTotals
<1>3. DOMAIN c = S /\ (\A k \in S : c[k] = L[k].qty /\ c[k] \in Nat)
  BY <1>1 DEF Line
<1>4. DOMAIN h = S /\ \A k \in S : h[k] = Nets(L)[k] + Vats(L)[k]
  BY <1>1
<1>5. \A k \in S : f[k] \in Int /\ f[k] - h[k] <= c[k] /\ h[k] - f[k] <= c[k]
  BY <1>1, <1>2, <1>3, <1>4, ItemNear DEF Sound
<1>6. IsFiniteSet(S)
  BY <1>1, FS_Interval
<1> HIDE DEF S, f, h, c
<1>7. /\ Summable(h, S) /\ SumFunctionOnSet(h, S) = SumFunctionOnSet(Nets(L), S) + SumFunctionOnSet(Vats(L), S)
      /\ Summable(f, S) /\ Summable(c, S)
  <2>1. Summable(h, S) /\ SumFunctionOnSet(h, S) = SumFunctionOnSet(Nets(L), S) + SumFunctionOnSet(Vats(L), S)
    BY <1>1, <1>4, SumsAdd
  <2>2. Summable(f, S) /\ Summable(c, S)
    BY <1>3, <1>5, <1>6 DEF Summable
  <2> QED
    BY <2>1, <2>2
<1>8. /\ SumFunctionOnSet(f, S) - SumFunctionOnSet(h, S) <= SumFunctionOnSet(c, S)
      /\ SumFunctionOnSet(h, S) - SumFunctionOnSet(f, S) <= SumFunctionOnSet(c, S)
  BY <1>5, <1>7, SumsNear
<1>9. /\ SumFunction(f) = SumFunctionOnSet(f, S) /\ Units(L) = SumFunctionOnSet(c, S)
      /\ Net(L) = SumFunctionOnSet(Nets(L), S) /\ Vat(L) = SumFunctionOnSet(Vats(L), S)
  BY <1>1, <1>2, <1>3 DEF SumFunction, Units, Net, Vat, c
<1>10. /\ SumFunctionOnSet(f, S) \in Int /\ SumFunctionOnSet(c, S) \in Int
       /\ SumFunctionOnSet(Nets(L), S) \in Int /\ SumFunctionOnSet(Vats(L), S) \in Int
  BY <1>1, <1>7, SumType
<1> QED
  BY <1>7, <1>8, <1>9, <1>10 DEF f

\* The tax of the lines of one rate is that of their sum, up to half a kobo for
\* each line and half a kobo more.
LEMMA SubtotalNear ==
  ASSUME NEW L \in Seq(Line), Sound(L), NEW j \in DOMAIN L
  PROVE  LET x == SumFunctionOnSet(Nets(L), Alike(L, j))
             t == SumFunctionOnSet(Vats(L), Alike(L, j))
             y == Rounded(x * L[j].rate, 10000)
         IN t \in Int /\ y \in Int /\ t - y <= Len(L) + 1 /\ y - t <= Len(L) + 1
<1> DEFINE A == Alike(L, j)
           rho == L[j].rate
           N == Nets(L)
           V == Vats(L)
           f == [k \in DOMAIN L |-> V[k] * 20000]
           g == [k \in DOMAIN L |-> N[k] * (2 * rho)]
           c == [k \in DOMAIN L |-> 10000]
           x == SumFunctionOnSet(N, A)
           t == SumFunctionOnSet(V, A)
           y == Rounded(x * rho, 10000)
<1>1. A \in SUBSET (1 .. Len(L)) /\ Len(L) \in Nat /\ \A k \in A : k \in DOMAIN L /\ L[k].rate = rho
  BY DEF Alike
<1>2. /\ Summable(N, A) /\ Summable(V, A) /\ Cardinality(A) \in Nat /\ Cardinality(A) <= Len(L)
      /\ \A k \in A : N[k] = L[k].net /\ N[k] \in Int /\ V[k] = L[k].vat /\ V[k] \in Int
  BY <1>1, ColumnsOf
<1>3. rho \in Int
  <2>1. L[j] \in Line
    OBVIOUS
  <2>2. rho \in Rates
    BY <2>1 DEF Line
  <2> QED
    BY <2>2, RateType
<1>4. \A k \in A : V[k] = Rounded(N[k] * rho, 10000)
  BY <1>1, <1>2 DEF Sound, Priced
<1> HIDE DEF A, rho, N, V
<1>5. \A k \in A : /\ f[k] = V[k] * 20000 /\ g[k] = N[k] * (2 * rho) /\ c[k] = 10000
  BY <1>1
<1> HIDE DEF f, g, c
<1>6. \A k \in A : f[k] - g[k] <= c[k] /\ g[k] - f[k] <= c[k]
  <2> SUFFICES ASSUME NEW k \in A
               PROVE  f[k] - g[k] <= c[k] /\ g[k] - f[k] <= c[k]
    OBVIOUS
  <2> DEFINE a == N[k] * rho
  <2>1. a \in Int /\ N[k] * (2 * rho) = 2 * a
    BY <1>2, <1>3
  <2> HIDE DEF a
  <2>2. V[k] = Rounded(a, 10000)
    BY <1>4 DEF a
  <2>3. a \in Int
    BY <2>1
  <2> DEFINE v == V[k]
  <2>4. 2 * a - 10000 <= 20000 * v /\ 20000 * v <= 2 * a + 10000
    <3> HIDE DEF v
    <3>1. v = Rounded(a, 10000)
      BY <2>2 DEF v
    <3> QED
      BY <2>3, <3>1, PercentNear
  <2>5. f[k] = V[k] * 20000 /\ g[k] = 2 * a /\ c[k] = 10000 /\ V[k] \in Int
    BY <1>2, <1>5, <2>1
  <2> QED
    BY <2>2, <2>3, <2>4, <2>5
<1>7. /\ Summable(f, A) /\ SumFunctionOnSet(f, A) = t * 20000
      /\ Summable(g, A) /\ SumFunctionOnSet(g, A) = x * (2 * rho)
  <2>1. 2 * rho \in Int
    BY <1>3
  <2>2. Summable(f, A) /\ SumFunctionOnSet(f, A) = t * 20000
    <3> DEFINE w == 20000
    <3>1. Summable(V, A) /\ (\A k \in A : f[k] = V[k] * w) /\ w \in Int
      BY <1>2, <1>5
    <3> HIDE DEF w
    <3>2. Summable(f, A) /\ SumFunctionOnSet(f, A) = t * w
      BY <3>1, SumsScale
    <3> QED
      BY <3>2 DEF w
  <2> DEFINE r2 == 2 * rho
  <2>3. Summable(N, A) /\ (\A k \in A : g[k] = N[k] * r2) /\ r2 \in Int
    BY <1>2, <1>5, <2>1
  <2> HIDE DEF r2
  <2>4. Summable(g, A) /\ SumFunctionOnSet(g, A) = x * r2
    BY <2>3, SumsScale
  <2> QED
    BY <2>2, <2>4 DEF r2
<1>8. Summable(c, A) /\ SumFunctionOnSet(c, A) = 10000 * Cardinality(A)
  BY <1>2, <1>5, SumOfConstant DEF Summable
<1>9. /\ SumFunctionOnSet(f, A) - SumFunctionOnSet(g, A) <= SumFunctionOnSet(c, A)
      /\ SumFunctionOnSet(g, A) - SumFunctionOnSet(f, A) <= SumFunctionOnSet(c, A)
  BY <1>6, <1>7, <1>8, SumsNear
<1>10. x \in Int /\ t \in Int
  BY <1>2, SumType
<1> HIDE DEF x, t
<1> DEFINE a == x * rho
<1>11. a \in Int /\ SumFunctionOnSet(g, A) = 2 * a /\ SumFunctionOnSet(f, A) = t * 20000
  <2>1. a \in Int /\ x * (2 * rho) = 2 * a
    BY <1>3, <1>10
  <2> QED
    BY <1>7, <2>1
<1> HIDE DEF a
<1>12. y = Rounded(a, 10000)
  BY DEF a
<1> HIDE DEF y
<1>13. y \in Int /\ 2 * a - 10000 <= 20000 * y /\ 20000 * y <= 2 * a + 10000
  <2>1. a \in Int
    BY <1>11
  <2> QED
    BY <1>12, <2>1, PercentNear
<1>14. y \in Int /\ t - y <= Len(L) + 1 /\ y - t <= Len(L) + 1
  <2>1. y \in Int /\ 2 * a - 10000 <= 20000 * y /\ 20000 * y <= 2 * a + 10000 /\ a \in Int
    BY <1>11, <1>13
  <2>2. 20000 * t - 2 * a <= 10000 * Cardinality(A) /\ 2 * a - 20000 * t <= 10000 * Cardinality(A)
    BY <1>8, <1>9, <1>10, <1>11
  <2>3. Cardinality(A) \in Nat /\ Cardinality(A) <= Len(L) /\ Len(L) \in Nat
    BY <1>1, <1>2
  <2> QED
    BY <1>10, <2>1, <2>2, <2>3
<1> QED
  BY <1>10, <1>14 DEF x, t, y, A, rho, N, V

\* The payload of a dictionary with sound lines that add up to its totals
\* charges them, up to a kobo for each unit, and its own sums agree.
LEMMA SoundPayload ==
  ASSUME NEW m, Sound(m.lines), m.net = Net(m.lines), m.vat = Vat(m.lines), m.gross = m.net + m.vat,
         NEW a \in {"digitax", "interswitch"}
  PROVE  /\ Charged(Payload(a, m)) \in Int
         /\ Charged(Payload(a, m)) - m.gross <= Units(m.lines)
         /\ m.gross - Charged(Payload(a, m)) <= Units(m.lines)
         /\ AddsUp(Payload(a, m), 1)
<1> DEFINE L == m.lines
           p == Payload(a, m)
           its == [k \in DOMAIN L |-> Item(L[k])]
<1>1. L \in Seq(Line)
  BY DEF Sound
<1>2. LET t == SumFunction(ItemTotals(its)) IN
      /\ t \in Int /\ Net(L) \in Int /\ Vat(L) \in Int /\ Units(L) \in Int
      /\ t - (Net(L) + Vat(L)) <= Units(L) /\ (Net(L) + Vat(L)) - t <= Units(L)
  BY <1>1, ItemsNear
<1>3. CASE a = "digitax"
  <2>1. p.app = "digitax" /\ p.items = its
    BY <1>3 DEF Payload, DigiTax
  <2>2. Charged(p) = SumFunction(ItemTotals(its)) /\ AddsUp(p, 1)
    BY <2>1 DEF Charged, AddsUp
  <2> QED
    BY <1>2, <2>2
<1>4. CASE a = "interswitch"
  <2>1. /\ p.app = "interswitch" /\ p.net = m.net /\ p.vat = m.vat /\ p.gross = m.gross
        /\ p.lines = L /\ p.subtotals = Subtotals(L)
    BY <1>4 DEF Payload, BuildB2C, BuildB2B, UBL
  <2>2. Charged(p) = m.gross
    BY <2>1 DEF Charged
  <2>3. Units(L) >= 0
    BY <1>2
  <2>4. ASSUME NEW s \in Subtotals(L)
        PROVE  Abs(s.tax - Rounded(s.taxable * s.rate, 10000)) <= 1 + Len(L)
    <3>1. PICK j \in DOMAIN L :
            s = [category |-> L[j].category, rate |-> L[j].rate,
                 taxable |-> SumFunctionOnSet(Nets(L), Alike(L, j)),
                 tax |-> SumFunctionOnSet(Vats(L), Alike(L, j))]
      BY <2>4 DEF Subtotals
    <3> DEFINE x == SumFunctionOnSet(Nets(L), Alike(L, j))
               t == SumFunctionOnSet(Vats(L), Alike(L, j))
               y == Rounded(x * L[j].rate, 10000)
    <3>2. t \in Int /\ y \in Int /\ t - y <= Len(L) + 1 /\ y - t <= Len(L) + 1
      BY <1>1, SubtotalNear
    <3>3. s.tax = t /\ Rounded(s.taxable * s.rate, 10000) = y
      BY <3>1
    <3> HIDE DEF t, y
    <3>4. Len(L) \in Nat
      BY <1>1
    <3> HIDE DEF L
    <3> QED
      BY <3>2, <3>3, <3>4 DEF Abs
  <2>5. Len(L) \in Nat
    BY <1>1
  <2>6. AddsUp(p, 1)
    <3> HIDE DEF p, L
    <3>1. Abs(Net(L) - p.net) = 0 /\ Abs(Vat(L) - p.vat) = 0
      <4>1. Net(L) - p.net = 0 /\ Vat(L) - p.vat = 0
        BY <1>2, <2>1 DEF L
      <4> QED
        BY <4>1 DEF Abs
    <3>2. p.net + p.vat = p.gross
      BY <2>1
    <3>3. \A s \in p.subtotals : Abs(s.tax - Rounded(s.taxable * s.rate, 10000)) <= 1 + Len(p.lines)
      BY <2>1, <2>4
    <3>4. 0 <= 1 + Len(p.lines)
      BY <2>1, <2>5
    <3> QED
      BY <2>1, <3>1, <3>2, <3>3, <3>4 DEF AddsUp
  <2> QED
    BY <1>2, <2>2, <2>3, <2>6
<1> QED
  BY <1>3, <1>4

-----------------------------------------------------------------------------
(***************************************************************************)
(* Plain documents.                                                        *)
(***************************************************************************)
\* The reading of a document says what it says, by either query.
LEMMA ReadAmounts ==
  ASSUME NEW d \in Document, d.gross >= 0, NEW r \in {GetNewInvoices(d), GetInvoiceById(d)}
  PROVE  /\ r.erp = d.erp /\ r.gross = d.gross /\ r.vat = Abs(d.tax) /\ r.net = d.gross - Abs(d.tax)
         /\ r.lines = InvoiceLines(d)
<1>1. d.gross \in Int /\ d.erp \in {"sage200", "sage300"}
  BY DEF Document
<1>2. ASSUME NEW g, NEW t, NEW c
      PROVE  LET h == Header(d, g, t, c) IN
             h.erp = d.erp /\ h.gross = g /\ h.vat = Abs(d.tax) /\ h.net = g - Abs(d.tax)
             /\ h.lines = InvoiceLines(d)
  BY DEF Header
<1>3. CASE d.erp = "sage200"
  <2>1. r = Read200(d)
    BY <1>3 DEF GetNewInvoices, GetInvoiceById
  <2>2. \E t, c : r = Header(d, d.gross, t, c)
    <3>1. CASE d.kind \in Debits
      <4>1. CASE d.gross > 0
        BY <2>1, <3>1, <4>1 DEF Read200
      <4>2. CASE d.gross = 0
        BY <2>1, <3>1, <4>2 DEF Read200
      <4> QED
        BY <1>1, <4>1, <4>2
    <3>2. CASE d.kind \notin Debits
      BY <2>1, <3>2 DEF Read200
    <3> QED
      BY <3>1, <3>2
  <2> QED
    BY <1>2, <2>2
<1>4. CASE d.erp # "sage200"
  <2>1. PICK t : Read300(d) = Header(d, d.gross, t, d.currency)
    BY DEF Read300
  <2>2. r = Read300(d) \/ r = [Read300(d) EXCEPT !.address = @ \ {3}]
    BY <1>4 DEF GetNewInvoices, GetInvoiceById
  <2>3. CASE r = Header(d, d.gross, t, d.currency)
    BY <1>2, <2>3
  <2>4. CASE r = [Header(d, d.gross, t, d.currency) EXCEPT !.address = @ \ {3}]
    BY <2>4 DEF Header
  <2> QED
    BY <2>1, <2>2, <2>3, <2>4
<1> QED
  BY <1>3, <1>4

LEMMA LineRecord ==
  ASSUME NEW q \in Nat \ {0}, NEW x \in Int, NEW n \in Int, NEW v \in Int, NEW t \in Rates
  PROVE  [qty |-> q, price |-> x, net |-> n, vat |-> v, rate |-> t, category |-> Category(t)] \in Line
BY DEF Line, Category

\* The mapper leaves a plain document's amounts alone, and its lines are sound.
LEMMA PlainSound ==
  ASSUME NEW d \in Document, Plain(d), NEW r,
         r.erp = d.erp, r.vat = Abs(d.tax), r.net = d.gross - Abs(d.tax), r.lines = InvoiceLines(d)
  PROVE  LET L == MapLines(r) IN
         /\ Sound(L) /\ Net(L) = r.net /\ Vat(L) = r.vat
         /\ Units(L) \in Int /\ Units(d.lines) \in Int /\ Units(L) <= Units(d.lines) + 1
<1> DEFINE L == MapLines(r)
           D == d.lines
           Posted == [qty : Int, price : Int, net : Int, vat : Int, rate : Nat \cup {NoRate}]
<1>1. D \in Seq(Posted) /\ d.gross \in Int /\ d.tax \in Int /\ d.erp \in {"sage200", "sage300"}
  BY DEF Document
<1>2. \A k \in DOMAIN D : D[k] \in Posted
  <2> HIDE DEF D, Posted
  <2> QED
    BY <1>1
<1>3. \A k \in DOMAIN D :
        /\ D[k].qty > 0 /\ D[k].net = Rounded(D[k].qty * D[k].price, 100)
        /\ (d.erp = "sage200" => D[k].rate # 0)
        /\ RateOf(D[k]) \in Rates /\ D[k].vat = Rounded(D[k].net * RateOf(D[k]), 10000)
  <2>1. \A k \in DOMAIN D : PlainLine(d.erp, D[k])
    BY DEF Plain
  <2>2. \A k \in DOMAIN D : RateOf(D[k]) \in Nat
    BY <1>2 DEF RateOf, NoRate, Standard
  <2>3. \A k \in DOMAIN D : RateOf(D[k]) \in Nat /\ PlainLine(d.erp, D[k]) => RateOf(D[k]) \in Rates
    BY DEF PlainLine, Rates
  <2> HIDE DEF D
  <2> QED
    BY <2>1, <2>2, <2>3 DEF PlainLine
<1>10. IF d.linked /\ D # <<>> THEN r.net = Net(D) /\ r.vat = Vat(D)
       ELSE r.vat \in {0, Rounded(r.net * Standard, 10000)}
  BY DEF Plain, PlainTotals
<1>4. r.net \in Int /\ r.vat \in Int
  BY <1>1 DEF Abs
<1>5. IsFiniteSet(DOMAIN D)
  BY <1>1, FS_Interval
<1>6. Units(D) \in Int /\ Units(D) >= 0
  <2>1. DOMAIN D = 1 .. Len(D) /\ Len(D) \in Nat
    BY <1>1
  <2>2. \A k \in DOMAIN D : D[k].qty \in Nat
    BY <1>2, <1>3
  <2> HIDE DEF D
  <2>3. Units(D) \in Nat
    BY ONLY <2>1, <2>2, UnitsType
  <2> QED
    BY <2>3
<1>7. CASE r.lines # <<>>
  <2>1. d.linked /\ r.lines = D /\ D # <<>>
    BY <1>7 DEF InvoiceLines
  <2>2. L = [k \in DOMAIN D |-> MapLine(d.erp, D[k])]
    BY <1>7, <2>1 DEF MapLines
  <2>3. ASSUME NEW k \in DOMAIN D
        PROVE  /\ L[k] \in Line /\ Priced(L[k])
               /\ L[k].net = D[k].net /\ L[k].vat = D[k].vat /\ L[k].qty = D[k].qty
    <3>1. PICK t \in Rates : t = RateOf(D[k]) /\ D[k].vat = Rounded(D[k].net * t, 10000)
      BY <1>3
    <3>2. LineRate(d.erp, D[k]) = t
      <4>1. d.erp = "sage200" => D[k].rate # 0
        BY <1>3
      <4> HIDE DEF D
      <4> QED
        BY ONLY <3>1, <4>1 DEF LineRate, RateOf
    <3> DEFINE l == D[k]
    <3>3. /\ l.qty \in Int /\ l.price \in Int /\ l.net \in Int /\ l.vat \in Int
          /\ l.qty > 0 /\ l.net = Rounded(l.qty * l.price, 100)
      BY <1>2, <1>3
    <3>4. L[k] = MapLine(d.erp, l)
      BY <2>2
    <3> HIDE DEF l, L
    <3>5. L[k] = [qty |-> l.qty, price |-> l.price, net |-> l.net, vat |-> l.vat, rate |-> t,
                  category |-> Category(t)]
      <4>1. OrIfZero(l.qty, 1) = l.qty
        BY <3>3 DEF OrIfZero
      <4>2. OrIfZero(l.net, Rounded(l.qty * l.price, 100)) = l.net
        BY <3>3 DEF OrIfZero
      <4>3. LineRate(d.erp, l) = t
        BY <3>2 DEF l
      <4> QED
        BY <3>4, <4>1, <4>2, <4>3 DEF MapLine
    <3>6. l.qty \in Nat \ {0}
      BY <3>3
    <3>7. L[k] \in Line
      BY <3>3, <3>5, <3>6, LineRecord
    <3>8. l.vat = Rounded(l.net * t, 10000)
      BY <3>1 DEF l
    <3> QED
      BY <3>3, <3>5, <3>7, <3>8 DEF Priced, l
  <2>4. /\ DOMAIN L = DOMAIN D /\ L \in Seq(Line)
    <3>1. L \in [1 .. Len(D) -> Line] /\ DOMAIN D = 1 .. Len(D) /\ Len(D) \in Nat
      <4> HIDE DEF Posted
      <4>1. DOMAIN D = 1 .. Len(D) /\ Len(D) \in Nat
        BY <1>1
      <4> QED
        BY <2>2, <2>3, <4>1
    <3> HIDE DEF L, D
    <3> QED
      BY <3>1
  <2>5. Sound(L)
    BY <2>3, <2>4 DEF Sound
  <2> HIDE DEF L, D
  <2>6. /\ Nets(L) = Nets(D) /\ Vats(L) = Vats(D)
        /\ [k \in DOMAIN L |-> L[k].qty] = [k \in DOMAIN D |-> D[k].qty]
    BY <2>3, <2>4 DEF Nets, Vats
  <2>7. Net(L) = Net(D) /\ Vat(L) = Vat(D) /\ Units(L) = Units(D)
    BY <2>6 DEF Net, Vat, Units
  <2>8. r.net = Net(D) /\ r.vat = Vat(D)
    BY <1>10, <2>1 DEF D
  <2> QED
    BY <1>6, <2>5, <2>7, <2>8 DEF L, D
<1>8. CASE r.lines = <<>>
  <2> DEFINE t == IF r.vat > 0 THEN Standard ELSE 0
             l == HeaderLine(r.net, r.vat, t)
  <2>1. L = <<l>>
    BY <1>8 DEF MapLines
  <2>2. r.vat \in {0, Rounded(r.net * Standard, 10000)} /\ r.vat >= 0
    <3>1. ~(d.linked /\ d.lines # <<>>)
      BY <1>8 DEF InvoiceLines
    <3>2. r.vat >= 0
      BY <1>1 DEF Abs
    <3> QED
      BY <1>10, <3>1, <3>2
  <2>3. t \in Rates /\ r.vat = Rounded(r.net * t, 10000)
    <3>1. CASE r.vat > 0
      BY <2>2, <3>1 DEF Rates, Standard
    <3>2. CASE r.vat = 0
      <4>1. t = 0 /\ r.net * 0 = 0
        BY <1>4, <3>2
      <4>2. Rounded(0, 10000) = 0
        BY DEF Rounded
      <4> QED
        BY <3>2, <4>1, <4>2 DEF Rates
    <3> QED
      BY <1>4, <2>2, <3>1, <3>2
  <2> HIDE DEF t
  <2>4. l = [qty |-> 1, price |-> 100 * r.net, net |-> r.net, vat |-> r.vat, rate |-> t,
             category |-> Category(t)]
    BY DEF HeaderLine
  <2> DEFINE x == 100 * r.net
  <2>5. x \in Int /\ r.net \in Int /\ r.vat \in Int
    BY <1>4
  <2> HIDE DEF l
  <2>6. l \in Line
    <3>1. 1 \in Nat \ {0}
      OBVIOUS
    <3>2. t \in Rates
      BY <2>3
    <3> HIDE DEF x
    <3> QED
      BY <2>4, <2>5, <3>1, <3>2, LineRecord DEF x
  <2>7. Priced(l)
    <3>1. l.qty = 1 /\ l.price = 100 * r.net /\ l.net = r.net /\ l.vat = r.vat /\ l.rate = t
      BY <2>4
    <3>2. l.qty * l.price = 100 * r.net
      BY <1>4, <3>1
    <3>3. Rounded(100 * r.net, 100) = r.net
      BY <1>4, RoundedExact
    <3>4. l.net = Rounded(l.qty * l.price, 100)
      BY <3>1, <3>2, <3>3
    <3>5. l.vat = Rounded(l.net * l.rate, 10000)
      BY <2>3, <3>1
    <3> QED
      BY <3>4, <3>5 DEF Priced
  <2> HIDE DEF L
  <2>8. DOMAIN L = {1} /\ L[1] = l /\ L \in Seq(Line)
    BY <2>1, <2>6
  <2>9. Sound(L)
    BY <2>7, <2>8 DEF Sound
  <2> DEFINE c == [k \in DOMAIN L |-> L[k].qty]
  <2>10. /\ DOMAIN Nets(L) = {1} /\ Nets(L)[1] = r.net /\ DOMAIN Vats(L) = {1} /\ Vats(L)[1] = r.vat
         /\ DOMAIN c = {1} /\ c[1] = 1
    BY <2>4, <2>8 DEF Nets, Vats
  <2>11. Net(L) = SumFunctionOnSet(Nets(L), {1}) /\ Vat(L) = SumFunctionOnSet(Vats(L), {1})
         /\ Units(L) = SumFunctionOnSet(c, {1})
    BY <2>10 DEF Net, Vat, Units, SumFunction
  <2> HIDE DEF c
  <2>12. Net(L) = r.net /\ Vat(L) = r.vat /\ Units(L) = 1
    BY <1>4, <2>10, <2>11, SumOfOne
  <2>13. Units(D) >= 0 /\ Units(D) \in Int
    BY <1>6
  <2> HIDE DEF D
  <2>14. Units(L) <= Units(D) + 1
    BY <2>12, <2>13
  <2> QED
    BY <1>6, <2>9, <2>12, <2>14 DEF L, D
<1> QED
  BY <1>7, <1>8

\* A plain document is told as it was posted, at the first try and at every retry.
THEOREM PostedIsDeclared == DocSpec => []DeclaredIsPosted
<1>1. DocInv => DeclaredIsPosted
  <2> SUFFICES ASSUME DocInv, Plain(doc), NEW k \in DOMAIN told
               PROVE  /\ Abs(Charged(told[k]) - doc.gross) <= Units(doc.lines) + 1
                      /\ AddsUp(told[k], 1)
    BY DEF DeclaredIsPosted
  <2>1. doc \in Document /\ via \in {"digitax", "interswitch"}
    BY DocumentsAssumption DEF DocInv
  <2>2. PICK t \in TINs, kd \in Kinds : told[k] = Saying(k, t, kd)
    BY DEF DocInv, Told
  <2>3. PICK r \in {GetNewInvoices(doc), GetInvoiceById(doc)} : told[k] = Payload(via, Say(r, t, kd))
    BY <2>2 DEF Saying, Reading
  <2>4. doc.gross >= 0 /\ doc.gross \in Int /\ doc.tax \in Int
    BY <2>1 DEF Plain, Document
  <2>5. /\ r.erp = doc.erp /\ r.gross = doc.gross /\ r.vat = Abs(doc.tax)
        /\ r.net = doc.gross - Abs(doc.tax) /\ r.lines = InvoiceLines(doc)
    BY <2>1, <2>4, ReadAmounts
  <2> DEFINE L == MapLines(r)
             m == Say(r, t, kd)
  <2>6. /\ Sound(L) /\ Net(L) = r.net /\ Vat(L) = r.vat
        /\ Units(L) \in Int /\ Units(doc.lines) \in Int /\ Units(L) <= Units(doc.lines) + 1
    BY <2>1, <2>5, PlainSound
  <2> HIDE DEF L
  <2>7. m.lines = L /\ m.net = r.net /\ m.vat = r.vat /\ m.gross = r.gross
    BY DEF Say, L
  <2> HIDE DEF m
  <2>8. m.gross = m.net + m.vat
    BY <2>4, <2>5, <2>7 DEF Abs
  <2>9. /\ Charged(Payload(via, m)) \in Int
        /\ Charged(Payload(via, m)) - m.gross <= Units(L) /\ m.gross - Charged(Payload(via, m)) <= Units(L)
        /\ AddsUp(Payload(via, m), 1)
    BY <2>1, <2>6, <2>7, <2>8, SoundPayload
  <2>10. told[k] = Payload(via, m) /\ m.gross = doc.gross
    BY <2>3, <2>5, <2>7 DEF m
  <2> DEFINE c == Charged(told[k])
             u == Units(L)
             w == Units(doc.lines)
  <2>11. c \in Int /\ c - doc.gross <= u /\ doc.gross - c <= u /\ u <= w + 1
    BY <2>6, <2>9, <2>10
  <2>12. u \in Int /\ w \in Int
    BY <2>6
  <2> HIDE DEF c, u, w
  <2>13. Abs(c - doc.gross) <= w + 1
    BY <2>4, <2>11, <2>12 DEF Abs
  <2> QED
    BY <2>9, <2>10, <2>13 DEF c, w
<1> QED
  BY <1>1, DocInvariance, PTL

-----------------------------------------------------------------------------
(***************************************************************************)
(* Workbooks.                                                              *)
(***************************************************************************)
Increasing(q) == \A i, j \in DOMAIN q : i < j => q[i] < q[j]

\* Ascending is not void: the least element comes first, then the others.
LEMMA AscendingExists ==
  ASSUME NEW n \in Nat, NEW S \in SUBSET Nat, IsFiniteSet(S), Cardinality(S) = n
  PROVE  \E q \in [1 .. n -> S] : Increasing(q)
<1> DEFINE N == {m \in Nat : \A s \in SUBSET Nat : IsFiniteSet(s) /\ Cardinality(s) = m =>
                                \E q \in [1 .. m -> s] : Increasing(q)}
<1>1. 0 \in N
  <2> SUFFICES ASSUME NEW s \in SUBSET Nat
               PROVE  \E q \in [1 .. 0 -> s] : Increasing(q)
    OBVIOUS
  <2>1. [i \in {} |-> 0] \in [1 .. 0 -> s] /\ Increasing([i \in {} |-> 0])
    BY DEF Increasing
  <2> QED
    BY <2>1
<1>2. ASSUME NEW m \in Nat, m \in N
      PROVE  m + 1 \in N
  <2> SUFFICES ASSUME NEW s \in SUBSET Nat, IsFiniteSet(s), Cardinality(s) = m + 1
               PROVE  \E q \in [1 .. m + 1 -> s] : Increasing(q)
    OBVIOUS
  <2>1. s # {}
    BY FS_EmptySet
  <2>2. PICK x \in s : \A y \in s : x <= y
    BY <2>1, LeastExists
  <2>3. IsFiniteSet(s \ {x}) /\ Cardinality(s \ {x}) = m /\ s \ {x} \in SUBSET Nat
    <3>1. IsFiniteSet(s \ {x}) /\ Cardinality(s \ {x}) = Cardinality(s) - 1
      BY <2>2, FS_RemoveElement
    <3> QED
      BY <3>1
  <2>4. PICK q \in [1 .. m -> s \ {x}] : Increasing(q)
    BY <1>2, <2>3
  <2> DEFINE p == [i \in 1 .. m + 1 |-> IF i = 1 THEN x ELSE q[i - 1]]
  <2>5. \A i \in 1 .. m + 1 : i # 1 => i - 1 \in 1 .. m
    OBVIOUS
  <2>6. p \in [1 .. m + 1 -> s]
    BY <2>4, <2>5
  <2>7. ASSUME NEW i \in 1 .. m + 1, NEW j \in 1 .. m + 1, i < j
        PROVE  p[i] < p[j]
    <3>1. j - 1 \in 1 .. m /\ p[j] = q[j - 1] /\ q[j - 1] \in s \ {x}
      BY <2>4, <2>7
    <3>2. CASE i = 1
      <4>1. p[i] = x /\ x <= q[j - 1] /\ x # q[j - 1] /\ x \in Nat /\ q[j - 1] \in Nat
        BY <2>2, <3>1, <3>2
      <4> QED
        BY <3>1, <4>1
    <3>3. CASE i # 1
      BY <2>4, <2>7, <3>1, <3>3 DEF Increasing
    <3> QED
      BY <3>2, <3>3
  <2>8. Increasing(p)
    BY <2>6, <2>7 DEF Increasing
  <2> QED
    BY <2>6, <2>8
<1>3. Nat \subseteq N
  <2> HIDE DEF N
  <2> QED
    BY <1>1, <1>2, Induction
<1> QED
  BY <1>3

\* It takes each element once.
LEMMA AscendingTakes ==
  ASSUME NEW n \in Nat, NEW S \in SUBSET (1 .. n)
  PROVE  LET q == Ascending(S) IN
         /\ q \in Seq(S) /\ Len(q) \in Nat /\ DOMAIN q = 1 .. Len(q) /\ \A i \in DOMAIN q : q[i] \in S
         /\ \A x \in S : \E i \in DOMAIN q : q[i] = x
         /\ \A i, j \in DOMAIN q : q[i] = q[j] => i = j
<1> DEFINE m == Cardinality(S)
           q == Ascending(S)
<1>1. IsFiniteSet(S) /\ m \in Nat /\ S \in SUBSET Nat
  <2>1. IsFiniteSet(1 .. n)
    BY FS_Interval
  <2>2. IsFiniteSet(S)
    BY <2>1, FS_Subset
  <2> QED
    BY <2>2, FS_CardinalityType
<1>2. q \in [1 .. m -> S] /\ \A i, j \in DOMAIN q : i < j => q[i] < q[j]
  <2>1. \E p \in [1 .. m -> S] : \A i, j \in DOMAIN p : i < j => p[i] < p[j]
    BY <1>1, AscendingExists DEF Increasing
  <2> HIDE DEF m
  <2>2. q = CHOOSE p \in [1 .. m -> S] : \A i, j \in DOMAIN p : i < j => p[i] < p[j]
    BY DEF Ascending, m
  <2> QED
    BY <2>1, <2>2
<1> HIDE DEF m, q
<1>3. \A i, j \in 1 .. m : q[i] = q[j] => i = j
  <2> SUFFICES ASSUME NEW i \in 1 .. m, NEW j \in 1 .. m, q[i] = q[j], i # j
               PROVE  FALSE
    OBVIOUS
  <2>1. q[i] \in Nat /\ q[j] \in Nat /\ i \in DOMAIN q /\ j \in DOMAIN q
    BY <1>1, <1>2
  <2>2. i < j \/ j < i
    BY <1>1
  <2> QED
    BY <1>2, <2>1, <2>2
<1>4. q \in Injection(1 .. m, S)
  BY <1>2, <1>3 DEF Injection, IsInjective
<1>5. IsFiniteSet(1 .. m) /\ Cardinality(1 .. m) = m
  BY <1>1, FS_Interval
<1>6. q \in Surjection(1 .. m, S)
  BY <1>1, <1>4, <1>5, FS_Injection DEF m
<1>7. \A x \in S : \E i \in 1 .. m : q[i] = x
  BY <1>6 DEF Surjection
<1>8. q \in Seq(S) /\ Len(q) = m /\ DOMAIN q = 1 .. m
  BY <1>1, <1>2
<1> QED
  BY <1>1, <1>2, <1>3, <1>7, <1>8 DEF q

\* An injective sequence has an element once or never.
LEMMA Once ==
  ASSUME NEW q, NEW k, \A i, j \in DOMAIN q : q[i] = q[j] => i = j
  PROVE  LET X == {i \in DOMAIN q : q[i] = k} IN
         /\ (\E i \in DOMAIN q : q[i] = k) => Cardinality(X) = 1
         /\ ~(\E i \in DOMAIN q : q[i] = k) => Cardinality(X) = 0
<1> DEFINE X == {i \in DOMAIN q : q[i] = k}
<1>1. ASSUME NEW i \in DOMAIN q, q[i] = k
      PROVE  Cardinality(X) = 1
  <2>1. X = {i}
    BY <1>1
  <2> QED
    BY <2>1, FS_Singleton
<1>2. ASSUME ~(\E i \in DOMAIN q : q[i] = k)
      PROVE  Cardinality(X) = 0
  <2>1. X = {}
    BY <1>2
  <2> QED
    BY <2>1, FS_EmptySet
<1> QED
  BY <1>1, <1>2

\* So do two after each other that share none.
LEMMA OnceOfTwo ==
  ASSUME NEW A, NEW B, NEW q \in Seq(A), NEW r \in Seq(B), A \cap B = {}, NEW k,
         \A i, j \in DOMAIN q : q[i] = q[j] => i = j,
         \A i, j \in DOMAIN r : r[i] = r[j] => i = j,
         \A x \in A : \E i \in DOMAIN q : q[i] = x,
         \A x \in B : \E i \in DOMAIN r : r[i] = x
  PROVE  Cardinality({n \in DOMAIN (q \o r) : (q \o r)[n] = k}) = IF k \in A \cup B THEN 1 ELSE 0
<1> DEFINE s == q \o r
           a == Len(q)
           b == Len(r)
<1>1. /\ a \in Nat /\ b \in Nat /\ DOMAIN q = 1 .. a /\ DOMAIN r = 1 .. b /\ DOMAIN s = 1 .. a + b
      /\ \A i \in 1 .. a : s[i] = q[i] /\ q[i] \in A
      /\ \A i \in 1 .. b : r[i] \in B
  OBVIOUS
<1>2. \A i \in 1 .. a + b : i > a => s[i] = r[i - a] /\ i - a \in 1 .. b
  OBVIOUS
<1>3. \A i \in 1 .. b : i + a \in 1 .. a + b /\ s[i + a] = r[i]
  BY <1>1, <1>2
<1> HIDE DEF s, a, b
<1>4. \A i, j \in DOMAIN s : s[i] = s[j] => i = j
  <2> SUFFICES ASSUME NEW i \in 1 .. a + b, NEW j \in 1 .. a + b, s[i] = s[j]
               PROVE  i = j
    BY <1>1
  <2>1. CASE i <= a /\ j <= a
    BY <1>1, <2>1
  <2>2. CASE i > a /\ j > a
    <3>1. i - a \in DOMAIN r /\ j - a \in DOMAIN r /\ r[i - a] = r[j - a]
      BY <1>1, <1>2, <2>2
    <3>2. i - a = j - a
      BY <3>1
    <3> QED
      BY <1>1, <3>2
  <2>3. CASE i <= a /\ j > a
    BY <1>1, <1>2, <2>3
  <2>4. CASE i > a /\ j <= a
    BY <1>1, <1>2, <2>4
  <2> QED
    BY <1>1, <2>1, <2>2, <2>3, <2>4
<1>5. k \in A \cup B <=> \E i \in DOMAIN s : s[i] = k
  <2>1. \A i \in 1 .. a + b : i <= a => i \in 1 .. a
    BY <1>1
  <2>2. \A i \in 1 .. a : i \in 1 .. a + b
    BY <1>1
  <2>3. ASSUME NEW i \in 1 .. a + b
        PROVE  s[i] \in A \cup B
    <3>1. CASE i <= a
      BY <1>1, <2>1, <3>1
    <3>2. CASE i > a
      BY <1>1, <1>2, <3>2
    <3> QED
      BY <1>1, <3>1, <3>2
  <2>4. k \in A => \E i \in DOMAIN s : s[i] = k
    BY <1>1, <2>2
  <2>5. ASSUME k \in B
        PROVE  \E i \in DOMAIN s : s[i] = k
    <3>1. PICK i \in 1 .. b : r[i] = k
      BY <1>1, <2>5
    <3>2. i + a \in DOMAIN s /\ s[i + a] = k
      BY <1>1, <1>3, <3>1
    <3> QED
      BY <3>2
  <2> QED
    BY <1>1, <2>3, <2>4, <2>5
<1>6. LET X == {i \in DOMAIN s : s[i] = k} IN
      /\ (\E i \in DOMAIN s : s[i] = k) => Cardinality(X) = 1
      /\ ~(\E i \in DOMAIN s : s[i] = k) => Cardinality(X) = 0
  BY ONLY <1>4, Once, Zenon
<1> QED
  BY <1>5, <1>6 DEF s

\* What is parsed is a sequence of invoices.
Parsed == IF IsPrinted(book) THEN ParsePrinted(book, registered) ELSE ParseStandard(book)

LEMMA ParsedInvoices ==
  ASSUME NEW b \in Books, NEW known, NEW p, p = IF IsPrinted(b) THEN ParsePrinted(b, known) ELSE ParseStandard(b)
  PROVE  Len(p.invoices) \in Nat /\ DOMAIN p.invoices = 1 .. Len(p.invoices)
<1>1. b.rows \in Seq(Seq(Cells)) /\ b.sheets \in Seq(Sheets)
  BY BooksAssumption DEF Book
<1>2. CASE IsPrinted(b)
  <2> DEFINE found == {k \in DOMAIN b.sheets : IsInvoice(b.sheets[k])}
             heldBack == {k \in found : IsHeldBack(ParseSheet(b, k, known))}
             kept == Ascending(found \ heldBack)
  <2>1. Len(b.sheets) \in Nat /\ found \ heldBack \in SUBSET (1 .. Len(b.sheets))
    BY <1>1
  <2>2. Len(kept) \in Nat /\ DOMAIN kept = 1 .. Len(kept)
    <3> HIDE DEF found, heldBack
    <3> QED
      BY <2>1, AscendingTakes
  <2>3. p.invoices = [n \in DOMAIN kept |-> ParseSheet(b, kept[n], known)]
    BY <1>2 DEF ParsePrinted
  <2> HIDE DEF kept
  <2> QED
    BY <2>2, <2>3
<1>3. CASE ~IsPrinted(b)
  <2> DEFINE rows == {r \in DOMAIN b.rows : \E i \in DOMAIN b.rows[r] : ~IsBlank(b.rows[r][i])}
             valid == Ascending({r \in rows : IsValidRow(b, r)})
  <2>1. Len(b.rows) \in Nat /\ {r \in rows : IsValidRow(b, r)} \in SUBSET (1 .. Len(b.rows))
    BY <1>1
  <2>2. Len(valid) \in Nat /\ DOMAIN valid = 1 .. Len(valid)
    <3> HIDE DEF rows
    <3> QED
      BY <2>1, AscendingTakes
  <2>3. p.invoices = [k \in DOMAIN valid |-> ExtractRow(b, valid[k])]
    BY <1>3 DEF ParseStandard
  <2> HIDE DEF valid
  <2> QED
    BY <2>2, <2>3
<1> QED
  BY <1>2, <1>3

\* What was parsed and what was sent follow from the file and the provider.
Outgoing ==
  {[row |-> result.invoices[n].row, payload |-> Payload(provider, MappedRow(result.invoices[n]))]
     : n \in DOMAIN result.invoices}
BookInv ==
  /\ book \in Books /\ provider \in {"digitax", "interswitch"}
  /\ phase \in {"received", "parsed", "refused"} /\ done \in Nat
  /\ phase = "parsed" => result = Parsed
  /\ phase # "parsed" => sent = <<>>
  /\ sent \in Seq(Outgoing)

LEMMA ProcessRowStep ==
  ASSUME BookInv, ProcessRow
  PROVE  BookInv'
<1> USE DEF BookInv
<1> DEFINE inv == result.invoices[done + 1]
           x == [row |-> inv.row, payload |-> Payload(provider, MappedRow(inv))]
<1>1. /\ phase = "parsed" /\ done < Len(result.invoices)
      /\ UNCHANGED <<book, provider, registered, phase, result>> /\ done' = done + 1
  BY DEF ProcessRow
<1>2. sent' = sent \/ sent' = Append(sent, x)
  BY DEF ProcessRow
<1>3. Parsed' = Parsed /\ Outgoing' = Outgoing
  BY <1>1 DEF Parsed, Outgoing
<1>4. Len(result.invoices) \in Nat /\ DOMAIN result.invoices = 1 .. Len(result.invoices)
  <2>1. result = IF IsPrinted(book) THEN ParsePrinted(book, registered) ELSE ParseStandard(book)
    BY <1>1 DEF Parsed
  <2>2. book \in Books
    OBVIOUS
  <2> QED
    BY <2>1, <2>2, ParsedInvoices
<1>5. done + 1 \in DOMAIN result.invoices
  BY <1>1, <1>4
<1>6. x \in Outgoing
  BY <1>5 DEF Outgoing
<1> HIDE DEF x
<1>7. sent' \in Seq(Outgoing)
  BY <1>2, <1>6
<1> QED
  BY <1>1, <1>3, <1>7

THEOREM BookInvariance == BookSpec => []BookInv
<1>1. BookInit => BookInv
  BY DEF BookInit, BookInv
<1>2. BookInv /\ [BookNext]_bookVars => BookInv'
  <2> SUFFICES ASSUME BookInv, [BookNext]_bookVars
               PROVE  BookInv'
    OBVIOUS
  <2> USE DEF BookInv
  <2>1. CASE Parse
    <3>1. phase = "received" /\ phase' = "parsed" /\ UNCHANGED <<book, provider, registered, done, sent>>
      BY <2>1 DEF Parse
    <3>2. Parsed' = Parsed
      BY <3>1 DEF Parsed
    <3>3. result' = Parsed'
      BY <2>1, <3>2 DEF Parse, Parsed
    <3>4. sent' = <<>>
      BY <3>1
    <3> QED
      BY <3>1, <3>3, <3>4
  <2>2. CASE RefuseFile
    <3>1. phase = "received" /\ phase' = "refused" /\ UNCHANGED <<book, provider, result, done, sent>>
      BY <2>2 DEF RefuseFile
    <3>2. sent' = <<>>
      BY <3>1
    <3> QED
      BY <3>1, <3>2
  <2>3. CASE ProcessRow
    BY <2>3, ProcessRowStep
  <2>4. CASE UNCHANGED bookVars
    <3>1. UNCHANGED <<book, provider, registered, phase, result, done, sent>>
      BY <2>4 DEF bookVars
    <3>2. Parsed' = Parsed /\ Outgoing' = Outgoing
      BY <3>1 DEF Parsed, Outgoing
    <3> QED
      BY <3>1, <3>2
  <2> QED
    BY <2>1, <2>2, <2>3, <2>4 DEF BookNext
<1> QED
  BY <1>1, <1>2, PTL DEF BookSpec

\* Each sheet that is not passed over on purpose is one invoice or one error.
THEOREM SheetsStay == BookSpec => []NoSheetVanishes
<1>1. BookInv => NoSheetVanishes
  <2> SUFFICES ASSUME BookInv, phase = "parsed", IsPrinted(book), NEW k \in DOMAIN book.sheets
               PROVE  Cardinality({n \in DOMAIN result.invoices : result.invoices[n].row = k})
                        + Cardinality({n \in DOMAIN result.errors : result.errors[n] = k})
                        = IF IsSkipped(book.sheets[k]) THEN 0 ELSE 1
    BY DEF NoSheetVanishes
  <2> DEFINE all == DOMAIN book.sheets
             found == {j \in all : IsInvoice(book.sheets[j])}
             heldBack == {j \in found : IsHeldBack(ParseSheet(book, j, registered))}
             unread == {j \in all : j \notin found /\ ~IsSkipped(book.sheets[j])}
             whole == found \ heldBack
             kept == Ascending(whole)
             q == Ascending(heldBack)
             r == Ascending(unread)
  <2>1. all = 1 .. Len(book.sheets) /\ Len(book.sheets) \in Nat
    BY BooksAssumption DEF BookInv, Book
  <2>2. /\ result.invoices = [n \in DOMAIN kept |-> ParseSheet(book, kept[n], registered)]
        /\ result.errors = q \o r
    <3>1. result = ParsePrinted(book, registered)
      BY DEF BookInv, Parsed
    <3> QED
      BY <3>1 DEF ParsePrinted
  <2>3. \A j : ParseSheet(book, j, registered).row = j
    BY DEF ParseSheet
  <2>4. /\ whole \in SUBSET all /\ whole = found \ heldBack /\ heldBack \in SUBSET all /\ unread \in SUBSET all
        /\ heldBack \cap unread = {} /\ heldBack \subseteq found /\ found \cap unread = {}
    OBVIOUS
  <2>5. k \in found \cup unread <=> ~IsSkipped(book.sheets[k])
    BY DEF IsInvoice
  <2> HIDE DEF all, found, heldBack, unread, whole
  <2>6. /\ \A i, j \in DOMAIN kept : kept[i] = kept[j] => i = j
        /\ \A i \in DOMAIN kept : kept[i] \in whole
        /\ \A x \in whole : \E i \in DOMAIN kept : kept[i] = x
    <3>1. whole \in SUBSET (1 .. Len(book.sheets)) /\ Len(book.sheets) \in Nat
      BY <2>1, <2>4
    <3> QED
      BY <3>1, AscendingTakes
  <2>7. /\ q \in Seq(heldBack) /\ \A i, j \in DOMAIN q : q[i] = q[j] => i = j
        /\ \A x \in heldBack : \E i \in DOMAIN q : q[i] = x
    BY <2>1, <2>4, AscendingTakes
  <2>8. /\ r \in Seq(unread) /\ \A i, j \in DOMAIN r : r[i] = r[j] => i = j
        /\ \A x \in unread : \E i \in DOMAIN r : r[i] = x
    BY <2>1, <2>4, AscendingTakes
  <2> HIDE DEF kept, q, r
  <2>9. Cardinality({n \in DOMAIN result.errors : result.errors[n] = k})
          = IF k \in heldBack \cup unread THEN 1 ELSE 0
    <3>1. Cardinality({n \in DOMAIN (q \o r) : (q \o r)[n] = k}) = IF k \in heldBack \cup unread THEN 1 ELSE 0
      BY <2>4, <2>7, <2>8, OnceOfTwo
    <3> QED
      BY <2>2, <3>1
  <2>10. Cardinality({n \in DOMAIN result.invoices : result.invoices[n].row = k})
           = IF k \in whole THEN 1 ELSE 0
    <3>1. {n \in DOMAIN result.invoices : result.invoices[n].row = k} = {n \in DOMAIN kept : kept[n] = k}
      BY <2>2, <2>3
    <3>2. LET X == {i \in DOMAIN kept : kept[i] = k} IN
          /\ (\E i \in DOMAIN kept : kept[i] = k) => Cardinality(X) = 1
          /\ ~(\E i \in DOMAIN kept : kept[i] = k) => Cardinality(X) = 0
      <4>1. \A i, j \in DOMAIN kept : kept[i] = kept[j] => i = j
        BY <2>6
      <4> QED
        BY ONLY <4>1, Once, Zenon
    <3> QED
      <4> DEFINE X == {n \in DOMAIN kept : kept[n] = k}
      <4>1. k \in whole <=> \E i \in DOMAIN kept : kept[i] = k
        BY <2>6
      <4>2. k \in whole => Cardinality(X) = 1
        BY <3>2, <4>1
      <4>3. k \notin whole => Cardinality(X) = 0
        BY <3>2, <4>1
      <4> QED
        BY <3>1, <4>2, <4>3
  <2> QED
    BY <2>4, <2>5, <2>9, <2>10
<1> QED
  BY <1>1, BookInvariance, PTL

-----------------------------------------------------------------------------
(***************************************************************************)
(* Amounts that are as stated, up to a slack.  Here everything is in       *)
(* twenty thousandths of a kobo, where half a hundredth of a percent and   *)
(* half a kobo are whole.                                                  *)
(***************************************************************************)
LEMMA TimesRate ==
  ASSUME NEW m \in Int, NEW n \in Int, NEW t \in Rates, NEW e \in Nat, m - n <= e, n - m <= e
  PROVE  m * t \in Int /\ n * t \in Int /\ m * t - n * t <= 5000 * e /\ n * t - m * t <= 5000 * e
<1>1. t \in Int /\ 0 <= t /\ t <= 5000
  BY RateType
<1>2. \A a \in Int : a <= e => a * t <= 5000 * e
  <2>1. \A a \in Int : a >= 0 => a * t <= a * 5000
    BY <1>1
  <2>2. \A a \in Int : a < 0 => a * t <= 0
    BY <1>1
  <2> QED
    BY <1>1, <2>1, <2>2
<1>3. (m - n) * t = m * t - n * t /\ (n - m) * t = n * t - m * t
  BY <1>1
<1> QED
  BY <1>1, <1>2, <1>3

\* An amount and its tax, when the amount is e off.
LEMMA TotalNear ==
  ASSUME NEW m \in Int, NEW n \in Int, NEW t \in Rates, NEW e \in Nat, m - n <= e, n - m <= e
  PROVE  LET x == m + Rounded(m * t, 10000)
             y == n * (20000 + 2 * t)
         IN /\ x \in Int /\ y \in Int
            /\ x * 20000 - y <= 30000 * e + 10000 /\ y - x * 20000 <= 30000 * e + 10000
<1> DEFINE a == m * t
           b == n * t
           R == Rounded(m * t, 10000)
<1>1. a \in Int /\ b \in Int /\ a - b <= 5000 * e /\ b - a <= 5000 * e
  BY TimesRate
<1>2. n * (20000 + 2 * t) = 20000 * n + 2 * b
  BY RateType
<1>3. R \in Int /\ 2 * a - 10000 <= 20000 * R /\ 20000 * R <= 2 * a + 10000
  <2> HIDE DEF a
  <2>1. R = Rounded(a, 10000)
    BY DEF a
  <2> HIDE DEF R
  <2> QED
    BY <1>1, <2>1, PercentNear
<1> DEFINE y == n * (20000 + 2 * t)
<1>4. y = 20000 * n + 2 * b
  BY <1>2
<1> HIDE DEF a, b, R, y
<1>5. /\ m + R \in Int /\ y \in Int
      /\ (m + R) * 20000 - y <= 30000 * e + 10000 /\ y - (m + R) * 20000 <= 30000 * e + 10000
  BY <1>1, <1>3, <1>4
<1> QED
  BY <1>5 DEF R, y

\* Lines of one rate t, each at most c off the net amount and its tax.
Near(L, t, c) ==
  /\ L \in Seq(Line) /\ Summable(c, DOMAIN L)
  /\ \A j, k \in DOMAIN L : L[j].category = L[k].category
  /\ \A k \in DOMAIN L :
       /\ L[k].rate = t /\ ItemTotal(Item(L[k])) \in Int
       /\ ItemTotal(Item(L[k])) * 20000 - L[k].net * (20000 + 2 * t) <= c[k]
       /\ L[k].net * (20000 + 2 * t) - ItemTotal(Item(L[k])) * 20000 <= c[k]

\* What DigiTax charges for them.
Total(L) == SumFunction(ItemTotals([k \in DOMAIN L |-> Item(L[k])]))
LEMMA ItemsStated ==
  ASSUME NEW L, NEW t \in Rates, NEW c, Near(L, t, c)
  PROVE  LET y == Net(L) * (20000 + 2 * t)
             s == SumFunctionOnSet(c, DOMAIN L)
         IN /\ Total(L) \in Int /\ y \in Int /\ s \in Int /\ Net(L) \in Int /\ Vat(L) \in Int
            /\ Total(L) * 20000 - y <= s /\ y - Total(L) * 20000 <= s
<1> DEFINE S == 1 .. Len(L)
           f == ItemTotals([k \in DOMAIN L |-> Item(L[k])])
           N == Nets(L)
           w == 20000 + 2 * t
           d == 20000
           g == [k \in DOMAIN L |-> N[k] * w]
           h == [k \in DOMAIN L |-> f[k] * d]
<1>1. /\ Len(L) \in Nat /\ DOMAIN L = S /\ \A k \in S : L[k] \in Line
      /\ DOMAIN N = S /\ \A k \in S : N[k] = L[k].net /\ L[k].net \in Int
      /\ DOMAIN Vats(L) = S /\ Summable(N, S) /\ Summable(Vats(L), S)
  <2>1. L \in Seq(Line)
    BY DEF Near
  <2> QED
    BY <2>1, ColumnsOf
<1>2. DOMAIN f = S /\ \A k \in S : f[k] = ItemTotal(Item(L[k])) /\ f[k] \in Int
  BY <1>1 DEF ItemTotals, Near
<1>3. w \in Int /\ d \in Int
  BY RateType
<1>4. \A k \in S : g[k] = N[k] * w /\ h[k] = f[k] * d
  BY <1>1
<1>5. \A k \in S : h[k] - g[k] <= c[k] /\ g[k] - h[k] <= c[k]
  <2> HIDE DEF S, g, h
  <2> SUFFICES ASSUME NEW k \in S
               PROVE  h[k] - g[k] <= c[k] /\ g[k] - h[k] <= c[k]
    OBVIOUS
  <2>1. h[k] = ItemTotal(Item(L[k])) * 20000 /\ g[k] = L[k].net * (20000 + 2 * t)
    BY <1>1, <1>2, <1>4
  <2>2. k \in DOMAIN L
    BY <1>1
  <2>3. /\ ItemTotal(Item(L[k])) * 20000 - L[k].net * (20000 + 2 * t) <= c[k]
        /\ L[k].net * (20000 + 2 * t) - ItemTotal(Item(L[k])) * 20000 <= c[k]
    BY <2>2 DEF Near
  <2> QED
    BY <2>1, <2>3
<1>6. IsFiniteSet(S) /\ Summable(c, S)
  BY <1>1, FS_Interval DEF Near
<1> HIDE DEF S, f, N, w, d, g, h
<1>7. Summable(f, S)
  BY <1>2, <1>6 DEF Summable
<1>8. Summable(g, S) /\ SumFunctionOnSet(g, S) = SumFunctionOnSet(N, S) * w
  <2>1. Summable(N, S) /\ (\A k \in S : g[k] = N[k] * w) /\ w \in Int
    BY <1>1, <1>3, <1>4
  <2> QED
    BY <2>1, SumsScale
<1>9. Summable(h, S) /\ SumFunctionOnSet(h, S) = SumFunctionOnSet(f, S) * d
  BY <1>3, <1>4, <1>7, SumsScale
<1>10. /\ SumFunctionOnSet(h, S) - SumFunctionOnSet(g, S) <= SumFunctionOnSet(c, S)
       /\ SumFunctionOnSet(g, S) - SumFunctionOnSet(h, S) <= SumFunctionOnSet(c, S)
  BY <1>5, <1>6, <1>8, <1>9, SumsNear
<1>11. /\ SumFunctionOnSet(f, S) \in Int /\ SumFunctionOnSet(N, S) \in Int /\ SumFunctionOnSet(c, S) \in Int
       /\ SumFunctionOnSet(Vats(L), S) \in Int /\ SumFunctionOnSet(g, S) \in Int
  BY <1>1, <1>6, <1>7, <1>8, SumType
<1>12. /\ SumFunction(f) = SumFunctionOnSet(f, S) /\ Net(L) = SumFunctionOnSet(N, S)
       /\ Vat(L) = SumFunctionOnSet(Vats(L), S) /\ DOMAIN L = S
  BY <1>1, <1>2 DEF SumFunction, Net, Vat, N
<1>13. Net(L) * w \in Int
  BY <1>8, <1>11, <1>12
<1>14. Total(L) = SumFunction(f)
  BY DEF Total, f
<1> QED
  BY <1>8, <1>9, <1>10, <1>11, <1>12, <1>13, <1>14 DEF w, d

Slack(u, gross, tolerance) == u + 2 + gross \div 20000 + 2 * tolerance

\* A tax that is the rate's, to half a hundredth of a percent and half a kobo.
AsRated(n, t, tax, gross) ==
  2 * (n * t) - 20000 * tax <= 10000 + gross /\ 20000 * tax - 2 * (n * t) <= 10000 + gross

\* A dictionary with such lines, whose net amounts add up to its own within a
\* tolerance and whose tax is the rate's, up to half a hundredth of a percent.
Stated(m, u, t, tolerance, c) ==
  /\ u \in Nat /\ t \in Rates /\ tolerance \in Nat
  /\ Near(m.lines, t, c) /\ SumFunctionOnSet(c, DOMAIN m.lines) <= 20000 * u + 10000
  /\ m.net \in Int /\ m.vat \in Int /\ m.gross \in Nat /\ m.gross = m.net + m.vat
  /\ Vat(m.lines) = m.vat
  /\ Net(m.lines) - m.net <= tolerance /\ m.net - Net(m.lines) <= tolerance
  /\ AsRated(m.net, t, m.vat, m.gross)

LEMMA StatedPayload ==
  ASSUME NEW m, NEW u, NEW t, NEW tolerance, NEW c, Stated(m, u, t, tolerance, c),
         NEW a \in {"digitax", "interswitch"}
  PROVE  /\ Abs(Charged(Payload(a, m)) - m.gross) <= Slack(u, m.gross, tolerance)
         /\ AddsUp(Payload(a, m), Slack(u, m.gross, tolerance))
<1> DEFINE L == m.lines
           p == Payload(a, m)
           its == [k \in DOMAIN L |-> Item(L[k])]
           F == Total(L)
           s == SumFunctionOnSet(c, DOMAIN L)
           N == Net(L)
           W == N * (20000 + 2 * t)
           g == m.gross
           n == m.net
           v == m.vat
           G == g \div 20000
           sl == Slack(u, g, tolerance)
<1> USE DEF Stated
<1>1. /\ F \in Int /\ W \in Int /\ s \in Int /\ N \in Int /\ s <= 20000 * u + 10000
      /\ F * 20000 - W <= s /\ W - F * 20000 <= s
  <2>1. Near(L, t, c) /\ t \in Rates /\ s <= 20000 * u + 10000
    OBVIOUS
  <2> HIDE DEF L, Stated
  <2>2. /\ F \in Int /\ W \in Int /\ s \in Int /\ N \in Int /\ Vat(L) \in Int
        /\ F * 20000 - W <= s /\ W - F * 20000 <= s
    BY <2>1, ItemsStated
  <2> QED
    BY <2>1, <2>2
<1>2. t \in Int
  BY RateType
<1> DEFINE x == n * t
           y == N * t
<1>3. x \in Int /\ y \in Int /\ y - x <= 5000 * tolerance /\ x - y <= 5000 * tolerance
  BY <1>1, TimesRate
<1>4. W = 20000 * N + 2 * y
  BY <1>1, <1>2
<1>5. G \in Nat /\ g < 20000 * G + 20000 /\ g \in Nat
  <2>1. 20000 \in Nat \ {0}
    OBVIOUS
  <2> QED
    BY <2>1, Quotient
<1>6. sl = u + 2 + G + 2 * tolerance
  BY DEF Slack
<1>7. /\ u \in Nat /\ tolerance \in Nat /\ n \in Int /\ v \in Int /\ g = n + v /\ Vat(L) = v
      /\ N - n <= tolerance /\ n - N <= tolerance
      /\ 2 * x - 20000 * v <= 10000 + g /\ 20000 * v - 2 * x <= 10000 + g
  BY DEF AsRated
<1>8. L \in Seq(Line) /\ Len(L) \in Nat /\ DOMAIN L = 1 .. Len(L)
  BY DEF Near
<1>9. \A j, k \in DOMAIN L : L[j].category = L[k].category /\ L[j].rate = L[k].rate /\ L[k].rate = t
  BY DEF Near
<1> DEFINE z == Rounded(y, 10000)
<1>10. z \in Int /\ 2 * y - 10000 <= 20000 * z /\ 20000 * z <= 2 * y + 10000
  <2> HIDE DEF y
  <2>1. z = Rounded(y, 10000) /\ y \in Int
    BY <1>3
  <2> HIDE DEF z
  <2> QED
    BY <2>1, PercentNear
<1>11. z = Rounded(N * t, 10000)
  OBVIOUS
<1> HIDE DEF Stated, F, W, s, N, x, y, z, g, n, v, G, sl
<1>12. F - g <= sl /\ g - F <= sl
  BY <1>1, <1>3, <1>4, <1>5, <1>6, <1>7
<1>13. v - z <= sl /\ z - v <= sl /\ 0 <= sl /\ N - n <= sl /\ n - N <= sl /\ sl \in Int
  BY <1>1, <1>3, <1>5, <1>6, <1>7, <1>10
<1>14. CASE a = "digitax"
  <2>1. p.app = "digitax" /\ p.items = its
    BY <1>14 DEF Payload, DigiTax
  <2>2. Charged(p) = F /\ AddsUp(p, sl)
    BY <2>1 DEF Charged, AddsUp, F, Total
  <2>3. Abs(F - g) <= sl
    BY <1>1, <1>5, <1>12 DEF Abs
  <2> QED
    BY <2>2, <2>3 DEF g, sl
<1>15. CASE a = "interswitch"
  <2>1. /\ p.app = "interswitch" /\ p.net = n /\ p.vat = v /\ p.gross = g
        /\ p.lines = L /\ p.subtotals = Subtotals(L)
    BY <1>15 DEF Payload, BuildB2C, BuildB2B, UBL, g, n, v
  <2>2. Charged(p) = g
    BY <2>1 DEF Charged
  <2>3. ASSUME NEW st \in Subtotals(L)
        PROVE  Abs(st.tax - Rounded(st.taxable * st.rate, 10000)) <= sl + Len(L)
    <3>1. PICK j \in DOMAIN L :
            st = [category |-> L[j].category, rate |-> L[j].rate,
                  taxable |-> SumFunctionOnSet(Nets(L), Alike(L, j)),
                  tax |-> SumFunctionOnSet(Vats(L), Alike(L, j))]
      BY <2>3 DEF Subtotals
    <3>2. Alike(L, j) = DOMAIN L
      BY <1>9 DEF Alike
    <3>3. SumFunctionOnSet(Nets(L), DOMAIN L) = N /\ SumFunctionOnSet(Vats(L), DOMAIN L) = v
      BY <1>7 DEF N, Net, Vat, SumFunction, Nets, Vats
    <3>4. st.tax = v /\ st.taxable = N /\ st.rate = t
      BY <1>9, <3>1, <3>2, <3>3
    <3>5. Abs(v - z) <= sl + Len(L)
      <4> HIDE DEF L
      <4> QED
        BY <1>7, <1>8, <1>10, <1>13 DEF Abs
    <3> QED
      BY <1>11, <3>4, <3>5
  <2>4. Abs(N - n) <= sl + Len(L) /\ Abs(Vat(L) - v) <= sl + Len(L)
    <3> HIDE DEF L
    <3>1. Vat(L) - v = 0
      BY <1>7
    <3> QED
      BY <1>1, <1>7, <1>8, <1>13, <3>1 DEF Abs
  <2>5. AddsUp(p, sl)
    <3> HIDE DEF p, L
    <3>1. p.net + p.vat = p.gross
      BY <1>7, <2>1
    <3>2. Abs(Net(p.lines) - p.net) <= sl + Len(p.lines) /\ Abs(Vat(p.lines) - p.vat) <= sl + Len(p.lines)
      BY <2>1, <2>4 DEF N
    <3>3. \A st \in p.subtotals : Abs(st.tax - Rounded(st.taxable * st.rate, 10000)) <= sl + Len(p.lines)
      BY <2>1, <2>3
    <3> QED
      BY <3>1, <3>2, <3>3 DEF AddsUp
  <2>6. Abs(g - g) <= sl
    BY <1>5, <1>13 DEF Abs
  <2> QED
    BY <2>2, <2>5, <2>6 DEF g, sl
<1> QED
  BY <1>14, <1>15

-----------------------------------------------------------------------------
(***************************************************************************)
(* Rows of the template.                                                   *)
(***************************************************************************)
LEMMA TemplateFits ==
  /\ Len(Columns) = 11 /\ DOMAIN Columns = 1 .. 11 /\ Len(Template) = 11 /\ DOMAIN Template = 1 .. 11
  /\ \A n \in 1 .. 11 : Columns[n] \in GoodFor(Template[n])
<1>1. Len(Columns) = 11 /\ DOMAIN Columns = 1 .. 11 /\ Len(Template) = 11 /\ DOMAIN Template = 1 .. 11
  BY DEF Columns, Template
<1>2. \A n \in 1 .. 11 : n \in {1, 2, 3, 4, 5, 6, 7, 8, 9, 10, 11}
  OBVIOUS
<1>3. /\ Columns[1] = "number" /\ Columns[2] = "date" /\ Columns[3] = "buyer" /\ Columns[4] = "tin"
      /\ Columns[5] = "description" /\ Columns[6] = "qty" /\ Columns[7] = "price" /\ Columns[8] = "rate"
      /\ Columns[9] = "vat" /\ Columns[10] = "gross" /\ Columns[11] = "currency"
  BY DEF Columns
<1>4. /\ Template[1] = "Invoice Number" /\ Template[2] = "Invoice Date" /\ Template[3] = "Buyer Name"
      /\ Template[4] = "Buyer TIN" /\ Template[5] = "Item Description" /\ Template[6] = "Quantity"
      /\ Template[7] = "Unit Price (excl VAT)" /\ Template[8] = "VAT Rate" /\ Template[9] = "VAT Amount"
      /\ Template[10] = "Gross Amount" /\ Template[11] = "Currency"
  BY DEF Template
<1>5. /\ "number" \in GoodFor("Invoice Number") /\ "date" \in GoodFor("Invoice Date")
      /\ "buyer" \in GoodFor("Buyer Name") /\ "tin" \in GoodFor("Buyer TIN")
      /\ "description" \in GoodFor("Item Description") /\ "qty" \in GoodFor("Quantity")
      /\ "price" \in GoodFor("Unit Price (excl VAT)") /\ "rate" \in GoodFor("VAT Rate")
      /\ "vat" \in GoodFor("VAT Amount") /\ "gross" \in GoodFor("Gross Amount")
      /\ "currency" \in GoodFor("Currency")
  BY DEF GoodFor
<1>6. ASSUME NEW n \in 1 .. 11
      PROVE  Columns[n] \in GoodFor(Template[n])
  <2> USE <1>3, <1>4, <1>5
  <2>1. CASE n = 1
    BY <2>1
  <2>2. CASE n = 2
    BY <2>2
  <2>3. CASE n = 3
    BY <2>3
  <2>4. CASE n = 4
    BY <2>4
  <2>5. CASE n = 5
    BY <2>5
  <2>6. CASE n = 6
    BY <2>6
  <2>7. CASE n = 7
    BY <2>7
  <2>8. CASE n = 8
    BY <2>8
  <2>9. CASE n = 9
    BY <2>9
  <2>10. CASE n = 10
    BY <2>10
  <2>11. CASE n = 11
    BY <2>11
  <2> QED
    BY <1>2, <2>1, <2>2, <2>3, <2>4, <2>5, <2>6, <2>7, <2>8, <2>9, <2>10, <2>11
<1> QED
  BY <1>1, <1>6

\* The first n positions, and what the next field claims after them.
Ident(n) == [i \in 1 .. n |-> i]
Claim(map, n) ==
  LET free == {i \in DOMAIN Template : Columns[n] \in GoodFor(Template[i]) /\ i \notin Range(map)}
  IN Append(map, IF free = {} THEN 0 ELSE Min(free))

LEMMA ClaimsNext ==
  ASSUME NEW n \in 1 .. 11
  PROVE  Claim(Ident(n - 1), n) = Ident(n)
<1> DEFINE free == {i \in DOMAIN Template : Columns[n] \in GoodFor(Template[i]) /\ i \notin Range(Ident(n - 1))}
<1>1. Range(Ident(n - 1)) = 1 .. n - 1
  <2>1. Range(Ident(n - 1)) = {Ident(n - 1)[i] : i \in 1 .. n - 1}
    BY DEF Range, Ident
  <2>2. \A i \in 1 .. n - 1 : Ident(n - 1)[i] = i
    BY DEF Ident
  <2> QED
    BY <2>1, <2>2
<1>2. n \in free
  BY <1>1, TemplateFits
<1>3. \A y \in free : y \in Int /\ n <= y
  BY <1>1, TemplateFits
<1> HIDE DEF free
<1>4. Min(free) = n
  <2>1. n \in free /\ \A y \in free : n <= y
    BY <1>2, <1>3
  <2>2. \A x \in free : (\A y \in free : x <= y) => x = n
    BY <1>2, <1>3
  <2>3. Min(free) = CHOOSE x \in free : \A y \in free : x <= y
    BY DEF Min
  <2>4. Min(free) \in free /\ \A y \in free : Min(free) <= y
    BY <2>1, <2>3
  <2> QED
    BY <2>2, <2>4
<1>5. Claim(Ident(n - 1), n) = Append(Ident(n - 1), n)
  BY <1>2, <1>4 DEF Claim, free
<1>6. Ident(n - 1) \in Seq(Int) /\ Len(Ident(n - 1)) = n - 1
  BY DEF Ident
<1>7. Append(Ident(n - 1), n) = Ident(n)
  BY <1>6 DEF Ident
<1> QED
  BY <1>5, <1>7

\* The template's columns are found where they stand.
LEMMA DetectsTemplate == DetectColumns(Template) = Ident(11)
<1> DEFINE F(g) == [n \in 0 .. Len(Columns) |-> IF n = 0 THEN <<>> ELSE Claim(g[n - 1], n)]
           G == [n \in 0 .. 11 |-> Ident(n)]
           g == CHOOSE h : h = F(h)
<1>1. DetectColumns(Template) = g[Len(Columns)]
  BY DEF DetectColumns, Claim
<1>2. G = F(G)
  <2>1. Ident(0) = <<>>
    BY DEF Ident
  <2>2. \A n \in 0 .. 11 : n # 0 => n \in 1 .. 11 /\ n - 1 \in 0 .. 11
    OBVIOUS
  <2>3. \A n \in 0 .. 11 : (IF n = 0 THEN <<>> ELSE Claim(G[n - 1], n)) = Ident(n)
    BY <2>1, <2>2, ClaimsNext
  <2>4. F(G) = [n \in 0 .. 11 |-> Ident(n)]
    BY <2>3, TemplateFits
  <2> QED
    BY <2>4
<1>3. g = F(g)
  <2> HIDE DEF F, G
  <2> QED
    BY <1>2
<1>4. /\ g[0] = <<>>
      /\ \A n \in 1 .. 11 : g[n] = Claim(g[n - 1], n)
  <2> HIDE DEF g
  <2>1. \A n \in 0 .. 11 : g[n] = IF n = 0 THEN <<>> ELSE Claim(g[n - 1], n)
    BY <1>3, TemplateFits
  <2> QED
    BY <2>1
<1> HIDE DEF g
<1> DEFINE T == {n \in Nat : n <= 11 => g[n] = Ident(n)}
<1>5. 0 \in T
  BY <1>4 DEF Ident
<1>6. ASSUME NEW n \in Nat, n \in T
      PROVE  n + 1 \in T
  <2> SUFFICES ASSUME n + 1 <= 11
               PROVE  g[n + 1] = Ident(n + 1)
    OBVIOUS
  <2>1. n + 1 \in 1 .. 11 /\ (n + 1) - 1 = n /\ g[n] = Ident(n)
    BY <1>6
  <2> QED
    BY <1>4, <2>1, ClaimsNext
<1>7. Nat \subseteq T
  <2> HIDE DEF T
  <2> QED
    BY <1>5, <1>6, Induction
<1> QED
  BY <1>1, <1>7, TemplateFits

LEMMA FieldAt ==
  LET At(f) == CHOOSE n \in DOMAIN Columns : Columns[n] = f IN
  At("qty") = 6 /\ At("price") = 7 /\ At("rate") = 8 /\ At("vat") = 9 /\ At("gross") = 10
<1>1. DOMAIN Columns = 1 .. 11
  BY TemplateFits
<1>2. /\ Columns[1] = "number" /\ Columns[2] = "date" /\ Columns[3] = "buyer" /\ Columns[4] = "tin"
      /\ Columns[5] = "description" /\ Columns[6] = "qty" /\ Columns[7] = "price" /\ Columns[8] = "rate"
      /\ Columns[9] = "vat" /\ Columns[10] = "gross" /\ Columns[11] = "currency"
  BY DEF Columns
<1>3. \A n \in 1 .. 11 : n \in {1, 2, 3, 4, 5, 6, 7, 8, 9, 10, 11}
  OBVIOUS
<1>4. /\ \A n \in 1 .. 11 : Columns[n] = "qty" <=> n = 6
      /\ \A n \in 1 .. 11 : Columns[n] = "price" <=> n = 7
      /\ \A n \in 1 .. 11 : Columns[n] = "rate" <=> n = 8
      /\ \A n \in 1 .. 11 : Columns[n] = "vat" <=> n = 9
      /\ \A n \in 1 .. 11 : Columns[n] = "gross" <=> n = 10
  BY <1>2, <1>3
<1>5. ASSUME NEW f, NEW m \in 1 .. 11, \A n \in 1 .. 11 : Columns[n] = f <=> n = m
      PROVE  (CHOOSE n \in DOMAIN Columns : Columns[n] = f) = m
  BY <1>1, <1>5
<1> QED
  BY <1>4, <1>5

LEMMA TemplateCells ==
  ASSUME NEW b, b.headers = Template, NEW r
  PROVE  /\ Cell(b, r, "qty") = b.rows[r][6] /\ Cell(b, r, "price") = b.rows[r][7]
         /\ Cell(b, r, "rate") = b.rows[r][8] /\ Cell(b, r, "vat") = b.rows[r][9]
         /\ Cell(b, r, "gross") = b.rows[r][10]
<1>1. \A n \in 6 .. 10 : DetectColumns(b.headers)[n] = n
  BY DetectsTemplate DEF Ident
<1> DEFINE At(f) == CHOOSE n \in DOMAIN Columns : Columns[n] = f
<1>2. At("qty") = 6 /\ At("price") = 7 /\ At("rate") = 8 /\ At("vat") = 9 /\ At("gross") = 10
  BY FieldAt
<1>3. \A f : Cell(b, r, f) = LET i == DetectColumns(b.headers)[At(f)] IN
                             IF i = 0 THEN Nothing ELSE b.rows[r][i]
  BY DEF Cell
<1> HIDE DEF At
<1>4. \A f : At(f) \in 6 .. 10 => Cell(b, r, f) = b.rows[r][At(f)]
  BY <1>1, <1>3
<1> QED
  BY <1>2, <1>4

\* A rate in the sheet's ten thousandths of a percent, and the VAT that it makes
\* of a net amount.
IsRate(v) == v \in Int /\ (v = 0 \/ (v >= 10100 /\ v <= 500000))
Share(n, v) == Rounded(n * v, 1000000)

LEMMA SheetRate ==
  ASSUME NEW v, IsRate(v)
  PROVE  LET t == Rounded(v, 100) IN
         t \in Rates /\ v >= 0 /\ 100 * t - v <= 50 /\ v - 100 * t <= 50
<1> DEFINE t == Rounded(v, 100)
<1>1. v \in Int /\ v >= 0 /\ (v # 0 => v >= 10100 /\ v <= 500000)
  BY DEF IsRate
<1>2. t \in Int /\ 2 * v - 100 <= 200 * t /\ 200 * t <= 2 * v + 100
  <2>1. v \in Int
    BY <1>1
  <2> QED
    BY ONLY <2>1, HundredNear
<1>3. v = 0 => t = 0
  BY DEF Rounded
<1> HIDE DEF t
<1>4. t \in Rates
  <2>1. CASE v = 0
    BY <1>3, <2>1 DEF Rates
  <2>2. CASE v # 0
    <3>1. 101 <= t /\ t <= 5000
      BY <1>1, <1>2, <2>2
    <3> QED
      BY <1>2, <3>1 DEF Rates
  <2> QED
    BY <2>1, <2>2
<1>5. 100 * t - v <= 50 /\ v - 100 * t <= 50
  BY <1>1, <1>2
<1> QED
  BY <1>1, <1>4, <1>5 DEF t

LEMMA MillionNear ==
  ASSUME NEW a \in Int, a >= 0
  PROVE  LET r == Rounded(a, 1000000) IN
         r \in Int /\ r >= 0 /\ 2 * a - 1000000 <= 2000000 * r /\ 2000000 * r <= 2 * a + 1000000
<1> DEFINE r == Rounded(a, 1000000)
<1>1. r \in Int /\ r >= 0 /\ 2 * a - 1000000 <= 2 * (1000000 * r) /\ 2 * (1000000 * r) <= 2 * a + 1000000
  BY RoundedNear
<1> HIDE DEF r
<1>2. r \in Int /\ r >= 0 /\ 2 * a - 1000000 <= 2000000 * r /\ 2000000 * r <= 2 * a + 1000000
  BY <1>1
<1> QED
  BY <1>2 DEF r

\* The VAT of a net amount by either rate.
LEMMA SheetVAT ==
  ASSUME NEW n \in Nat, NEW v, IsRate(v)
  PROVE  Share(n, v) \in Nat /\ AsRated(n, Rounded(v, 100), Share(n, v), n)
<1> DEFINE t == Rounded(v, 100)
           x == Share(n, v)
           a == n * v
           b == n * t
<1>1. t \in Rates /\ v \in Int /\ v >= 0 /\ 100 * t - v <= 50 /\ v - 100 * t <= 50
  BY SheetRate DEF IsRate
<1>2. t \in Int
  BY <1>1, RateType
<1>3. a \in Int /\ b \in Int /\ a >= 0
  <2> HIDE DEF t
  <2>1. \A p \in Int : n * p \in Int /\ (p >= 0 => n * p >= 0)
    OBVIOUS
  <2> QED
    BY <1>1, <1>2, <2>1
<1>4. 100 * b - a <= 50 * n /\ a - 100 * b <= 50 * n
  <2> HIDE DEF t
  <2>1. 100 * b - a = n * (100 * t - v) /\ a - 100 * b = n * (v - 100 * t)
    BY <1>1, <1>2
  <2>2. \A p \in Int : p <= 50 => n * p <= 50 * n
    <3>1. \A p, q \in Int : p <= q => n * p <= n * q
      OBVIOUS
    <3>2. n * 50 = 50 * n
      OBVIOUS
    <3> QED
      BY <3>1, <3>2
  <2> QED
    BY <1>1, <1>2, <2>1, <2>2
<1>5. x \in Int /\ x >= 0 /\ 2 * a - 1000000 <= 2000000 * x /\ 2000000 * x <= 2 * a + 1000000
  <2>1. x = Rounded(a, 1000000)
    BY DEF Share
  <2> HIDE DEF a, x
  <2> QED
    BY <1>3, <2>1, MillionNear
<1> HIDE DEF t, x, a
<1>6. 2 * b - 20000 * x <= 10000 + n /\ 20000 * x - 2 * b <= 10000 + n
  <2> HIDE DEF b
  <2> QED
    BY <1>3, <1>4, <1>5
<1>7. x \in Nat /\ AsRated(n, t, x, n)
  BY <1>5, <1>6 DEF AsRated
<1> QED
  BY <1>7 DEF t, x

\* A quantity and a unit price that are at most e off the net amount, in kobo.
Off(q, p, n, e) == q * Rounded(p, 100) - n <= e /\ n - q * Rounded(p, 100) <= e

\* What DigiTax charges for a line whose unit price is.
LEMMA LineStated ==
  ASSUME NEW l \in Line, NEW e \in Nat, Off(l.qty, l.price, l.net, e)
  PROVE  LET x == ItemTotal(Item(l))
             y == l.net * (20000 + 2 * l.rate)
         IN x \in Int /\ x * 20000 - y <= 30000 * e + 10000 /\ y - x * 20000 <= 30000 * e + 10000
<1> DEFINE q == l.qty
           p == l.price
           n == l.net
           m == q * Rounded(p, 100)
           t == l.rate
<1>1. q \in Nat \ {0} /\ p \in Int /\ n \in Int /\ t \in Rates
  BY DEF Line
<1>2. m \in Int
  <2> HIDE DEF q, p
  <2> QED
    BY <1>1, UnitPrice
<1>3. ItemTotal(Item(l)) = m + Rounded(m * t, 10000)
  <2>1. TaxRate(t) = t
    BY <1>1, RateType
  <2>2. Item(l).qty = q /\ Item(l).price = Rounded(p, 100) /\ Item(l).rate = t
    BY <1>1, <2>1 DEF Item
  <2> QED
    BY <2>2 DEF ItemTotal
<1>4. m - n <= e /\ n - m <= e
  BY DEF Off
<1> HIDE DEF q, p, n, m, t
<1>5. LET x == m + Rounded(m * t, 10000)
          y == n * (20000 + 2 * t)
      IN x \in Int /\ x * 20000 - y <= 30000 * e + 10000 /\ y - x * 20000 <= 30000 * e + 10000
  BY <1>1, <1>2, <1>4, TotalNear
<1> QED
  BY <1>3, <1>5 DEF n, t

\* The rounding of a unit price, in the units sold.
LEMMA PriceSlack ==
  ASSUME NEW q \in Nat \ {0}, NEW x \in Int
  PROVE  \E e \in Nat : Off(q, x, Rounded(q * x, 100), e) /\ 30000 * e + 10000 <= 20000 * q + 10000
<1> DEFINE n == Rounded(q * x, 100)
           m == q * Rounded(x, 100)
<1>1. /\ n \in Int /\ m \in Int
      /\ 2 * (m - n) <= q + 1 /\ 2 * (n - m) <= q + 1 /\ (q = 1 => m = n)
  <2>1. n = Rounded(q * x, 100) /\ m = q * Rounded(x, 100)
    OBVIOUS
  <2> HIDE DEF n, m
  <2> QED
    BY ONLY <2>1, UnitPrice
<1> HIDE DEF n, m
<1> DEFINE e == IF m >= n THEN m - n ELSE n - m
<1>2. e \in Nat /\ m - n <= e /\ n - m <= e /\ 2 * e <= q + 1 /\ (q = 1 => e = 0)
  BY <1>1
<1> HIDE DEF e
<1>3. 30000 * e + 10000 <= 20000 * q + 10000
  <2>1. CASE q = 1
    BY <1>2, <2>1
  <2>2. CASE q = 2
    BY <1>2, <2>2
  <2>3. CASE q >= 3
    BY <1>2, <2>3
  <2> QED
    BY <2>1, <2>2, <2>3
<1>4. Off(q, x, n, e)
  BY <1>2 DEF Off, m
<1> QED
  BY <1>2, <1>3, <1>4 DEF n

\* The line of an invoice without lines.
LineOf(q, x, n, v, t) ==
  [qty |-> q, price |-> x, net |-> n, vat |-> v, rate |-> t, category |-> Category(t)]

LEMMA OneLine ==
  ASSUME NEW inv, inv.lines = <<>>, NEW q, NEW x, NEW n, NEW v, NEW t,
         inv.qty = q, inv.price = x, inv.net = n, inv.vat = v, inv.rate = t
  PROVE  BuildLines(inv) = <<LineOf(q, x, n, v, t)>>
<1> DEFINE c == Category(t)
<1>1. \A h : [h EXCEPT !.qty = q, !.price = x] = [[h EXCEPT !.qty = q] EXCEPT !.price = x]
  OBVIOUS
<1>2. \A p : [[qty |-> 1, price |-> p, net |-> n, vat |-> v, rate |-> t, category |-> c] EXCEPT !.qty = q]
            = [qty |-> q, price |-> p, net |-> n, vat |-> v, rate |-> t, category |-> c]
  OBVIOUS
<1>3. \A p : [[qty |-> q, price |-> p, net |-> n, vat |-> v, rate |-> t, category |-> c] EXCEPT !.price = x]
            = [qty |-> q, price |-> x, net |-> n, vat |-> v, rate |-> t, category |-> c]
  OBVIOUS
<1>4. PICK p : HeaderLine(n, v, t) = [qty |-> 1, price |-> p, net |-> n, vat |-> v, rate |-> t, category |-> c]
  BY DEF HeaderLine
<1> HIDE DEF c
<1>5. [HeaderLine(n, v, t) EXCEPT !.qty = q, !.price = x]
      = [qty |-> q, price |-> x, net |-> n, vat |-> v, rate |-> t, category |-> c]
  <2> DEFINE h == HeaderLine(n, v, t)
             g == [qty |-> q, price |-> p, net |-> n, vat |-> v, rate |-> t, category |-> c]
  <2>1. [h EXCEPT !.qty = q] = g
    BY <1>2, <1>4
  <2>2. [g EXCEPT !.price = x] = [qty |-> q, price |-> x, net |-> n, vat |-> v, rate |-> t, category |-> c]
    BY <1>3
  <2> HIDE DEF h, g
  <2>3. [h EXCEPT !.qty = q, !.price = x]
        = [qty |-> q, price |-> x, net |-> n, vat |-> v, rate |-> t, category |-> c]
    BY <1>1, <2>1, <2>2
  <2> QED
    BY <2>3 DEF h
<1>6. BuildLines(inv) = <<[HeaderLine(n, v, t) EXCEPT !.qty = q, !.price = x]>>
  BY DEF BuildLines
<1> QED
  BY <1>5, <1>6 DEF c, LineOf

\* The line that an invoice without lines becomes.
LEMMA OneLineStated ==
  ASSUME NEW l \in Line, NEW c \in Nat, NEW e \in Nat, 30000 * e + 10000 <= c,
         Off(l.qty, l.price, l.net, e)
  PROVE  /\ \E f : Near(<<l>>, l.rate, f) /\ SumFunctionOnSet(f, DOMAIN <<l>>) = c
         /\ Net(<<l>>) = l.net /\ Vat(<<l>>) = l.vat
<1> DEFINE f == [k \in {1} |-> c]
           L == <<l>>
           t == l.rate
           y == l.net * (20000 + 2 * t)
<1>0. PICK o : o = 1
  OBVIOUS
<1>1. L \in Seq(Line) /\ DOMAIN L = {o} /\ L[o] = l /\ f[o] = c /\ f[o] \in Int
  BY <1>0
<1>2. Summable(f, {o}) /\ SumFunctionOnSet(f, {o}) = c
  <2> HIDE DEF f, L
  <2>1. IsFiniteSet({o})
    BY ONLY FS_Singleton
  <2>2. f[o] \in Int /\ f[o] = c
    BY <1>1
  <2>3. Summable(f, {o})
    BY ONLY <2>1, <2>2 DEF Summable
  <2>4. SumFunctionOnSet(f, {o}) = f[o]
    BY ONLY <2>2, SumOfOne
  <2> QED
    BY <2>2, <2>3, <2>4
<1>3. /\ ItemTotal(Item(l)) \in Int
      /\ ItemTotal(Item(l)) * 20000 - y <= 30000 * e + 10000
      /\ y - ItemTotal(Item(l)) * 20000 <= 30000 * e + 10000
  BY LineStated
<1>4. y \in Int
  <2>1. l.net \in Int /\ l.rate \in Rates
    BY DEF Line
  <2>2. 20000 + 2 * t \in Int
    BY <2>1, RateType
  <2> QED
    BY <2>1, <2>2
<1>5. ItemTotal(Item(l)) * 20000 - y <= c /\ y - ItemTotal(Item(l)) * 20000 <= c
  <2> HIDE DEF y
  <2> QED
    BY <1>3, <1>4
<1>6. Near(L, t, f)
  <2> HIDE DEF f, L
  <2> QED
    BY <1>1, <1>2, <1>3, <1>5 DEF Near
<1>7. Net(L) = l.net /\ Vat(L) = l.vat
  <2>1. l.net \in Int /\ l.vat \in Int
    BY DEF Line
  <2>2. DOMAIN Nets(L) = {o} /\ Nets(L)[o] = l.net /\ DOMAIN Vats(L) = {o} /\ Vats(L)[o] = l.vat
    BY <1>1 DEF Nets, Vats
  <2> HIDE DEF L
  <2>3. SumFunctionOnSet(Nets(L), {o}) = l.net /\ SumFunctionOnSet(Vats(L), {o}) = l.vat
    BY <2>1, <2>2, SumOfOne
  <2> QED
    BY <2>2, <2>3 DEF Net, Vat, SumFunction
<1>8. DOMAIN L = {o} /\ SumFunctionOnSet(f, {o}) = c
  BY <1>1, <1>2
<1>9. SumFunctionOnSet(f, DOMAIN L) = c
  <2> HIDE DEF f, L
  <2> QED
    BY ONLY <1>8
<1> QED
  BY <1>6, <1>7, <1>9

\* A row of the template whose own amounts agree.
LEMMA RowStated ==
  ASSUME NEW b \in Books, b.headers = Template, NEW r \in DOMAIN b.rows, IsValidRow(b, r),
         NEW stated, stated = StatedByRow(b.rows[r]), stated.gross >= 0
  PROVE  LET m == MappedRow(ExtractRow(b, r)) IN
         m.gross = stated.gross /\ \E t, c : Stated(m, stated.units, t, 0, c)
<1> DEFINE R == b.rows[r]
           q == R[6].v \div 10000
           x == R[7].v
           v == R[8].v
           n == Rounded(q * x, 100)
           V == Share(n, v)
           t == Rounded(v, 100)
           inv == ExtractRow(b, r)
<1>1. \A i \in 6 .. 10 : R[i].v \in Int
  <2>1. b.rows \in Seq(Seq(Cells))
    BY BooksAssumption DEF Book
  <2>2. R \in Seq(Cells) /\ Len(R) = 11
    BY <2>1, BooksAssumption, TemplateFits
  <2>3. \A i \in 1 .. 11 : R[i] \in Cells
    <3> HIDE DEF R
    <3>1. R \in Seq(Cells)
      BY <2>2
    <3>2. DOMAIN R = 1 .. Len(R) /\ \A i \in DOMAIN R : R[i] \in Cells
      BY ONLY <3>1
    <3> QED
      BY ONLY <2>2, <3>2
  <2>4. \A z \in Cells : z.v \in Int
    BY DEF Cells
  <2> HIDE DEF R
  <2> QED
    BY <2>3, <2>4
<1>2. /\ \A i \in 6 .. 10 : R[i].is = "number"
      /\ R[9].v = 100 * V /\ R[10].v = 100 * (n + V)
      /\ v = 0 \/ (v >= 10100 /\ v <= 500000)
      /\ stated = [gross |-> n + V, units |-> q]
  <2> DEFINE A == /\ \A i \in 6 .. 10 : R[i].is = "number"
                  /\ R[9].v = 100 * V /\ R[10].v = 100 * (n + V)
                  /\ v = 0 \/ (v >= 10100 /\ v <= 500000)
  <2>1. stated = IF A THEN [gross |-> n + V, units |-> q] ELSE [gross |-> -1, units |-> 0]
    BY DEF StatedByRow, Share
  <2>2. A
    <3> HIDE DEF A
    <3>1. ~A => stated.gross = -1
      BY <2>1
    <3> QED
      BY <3>1
  <2> QED
    BY <2>1, <2>2
<1>3. /\ \A d : ParseDecimal(Cell(b, r, "qty"), d) = R[6].v /\ ParseDecimal(Cell(b, r, "price"), d) = x
      /\ \A d : ParseDecimal(Cell(b, r, "rate"), d) = v /\ ParseDecimal(Cell(b, r, "vat"), d) = R[9].v
      /\ \A d : ParseDecimal(Cell(b, r, "gross"), d) = R[10].v
  <2>1. R[6].is = "number" /\ R[7].is = "number" /\ R[8].is = "number" /\ R[9].is = "number" /\ R[10].is = "number"
    BY <1>2
  <2> QED
    BY <2>1, TemplateCells DEF ParseDecimal
<1>4. /\ inv.qty = q /\ inv.price = x /\ inv.rate = t /\ inv.lines = <<>>
      /\ inv.vat = Rounded(R[9].v, 100) /\ inv.gross = Rounded(R[10].v, 100) /\ inv.net = inv.gross - inv.vat
  BY <1>3 DEF ExtractRow
<1>5. q > 0 /\ x >= 0
  BY <1>4 DEF IsValidRow
<1>6. q \in Nat \ {0} /\ x \in Nat
  BY <1>1, <1>5
<1>7. IsRate(v)
  BY <1>1, <1>2 DEF IsRate
<1> HIDE DEF q, x, v, R, inv
<1>8. n \in Nat
  <2>1. q * x \in Int /\ q * x >= 0
    <3>1. \A a, z \in Nat : a * z \in Int /\ a * z >= 0
      OBVIOUS
    <3> QED
      BY <1>6, <3>1
  <2> QED
    BY <2>1, RoundedNear
<1> HIDE DEF n
<1>9. V \in Nat /\ AsRated(n, t, V, n)
  BY <1>7, <1>8, SheetVAT
<1>10. t \in Rates
  BY <1>7, SheetRate
<1> HIDE DEF V, t
<1>12. inv.vat = V /\ inv.gross = n + V /\ inv.net = n
  <2>1. Rounded(100 * V, 100) = V /\ Rounded(100 * (n + V), 100) = n + V
    <3>1. \A z \in Int : Rounded(100 * z, 100) = z
      BY ONLY RoundedExact
    <3>2. V \in Int /\ n + V \in Int
      BY <1>8, <1>9
    <3> QED
      BY ONLY <3>1, <3>2
  <2>2. inv.vat = Rounded(100 * V, 100) /\ inv.gross = Rounded(100 * (n + V), 100)
    <3>1. R[9].v = 100 * V /\ R[10].v = 100 * (n + V)
      BY <1>2
    <3> QED
      BY ONLY <1>4, <3>1
  <2> QED
    BY ONLY <1>4, <1>8, <1>9, <2>1, <2>2
<1> DEFINE l == LineOf(q, x, n, V, t)
           m == MappedRow(inv)
<1>13. m.lines = <<l>> /\ m.net = n /\ m.vat = V /\ m.gross = n + V
  <2>1. BuildLines(inv) = <<l>>
    BY <1>4, <1>12, OneLine
  <2>3. m.lines = BuildLines(inv) /\ m.net = inv.net /\ m.vat = inv.vat /\ m.gross = inv.gross
    BY DEF MappedRow
  <2> HIDE DEF m, l
  <2> QED
    BY <1>12, <2>1, <2>3
<1>14. /\ l \in Line
       /\ l.qty = q /\ l.price = x /\ l.net = n /\ l.vat = V /\ l.rate = t
  BY <1>6, <1>8, <1>9, <1>10, LineRecord DEF LineOf
<1>15. PICK e \in Nat : Off(q, x, n, e) /\ 30000 * e + 10000 <= 20000 * q + 10000
  BY <1>6, PriceSlack DEF n
<1> DEFINE c == 20000 * q + 10000
<1>16. /\ \E f : Near(<<l>>, l.rate, f) /\ SumFunctionOnSet(f, DOMAIN <<l>>) = c
       /\ Net(<<l>>) = l.net /\ Vat(<<l>>) = l.vat
  <2>1. c \in Nat /\ 30000 * e + 10000 <= c
    BY <1>6, <1>15
  <2>2. Off(l.qty, l.price, l.net, e)
    BY <1>14, <1>15
  <2> HIDE DEF l, c
  <2> QED
    BY <1>14, <2>1, <2>2, OneLineStated
<1>17. PICK f : Near(<<l>>, t, f) /\ SumFunctionOnSet(f, DOMAIN <<l>>) = c
  BY <1>14, <1>16
<1>18. Stated(m, q, t, 0, f)
  <2>1. Net(m.lines) = n /\ Vat(m.lines) = V
    BY <1>13, <1>14, <1>16
  <2>2. Near(m.lines, t, f) /\ SumFunctionOnSet(f, DOMAIN m.lines) = 20000 * q + 10000
    BY <1>13, <1>17
  <2> HIDE DEF m, l
  <2>3. AsRated(n, t, V, n + V)
    <3>1. n * t \in Int
      BY <1>8, <1>10, RateType
    <3> QED
      BY <1>8, <1>9, <3>1 DEF AsRated
  <2> QED
    BY <1>6, <1>8, <1>9, <1>10, <1>13, <2>1, <2>2, <2>3 DEF Stated
<1> QED
  BY <1>2, <1>13, <1>18 DEF inv

-----------------------------------------------------------------------------
(***************************************************************************)
(* Printed sheets.                                                         *)
(***************************************************************************)
LEMMA ExtremesIn ==
  ASSUME NEW n \in Nat, NEW S \in SUBSET (1 .. n), S # {}
  PROVE  Min(S) \in S /\ Max(S) \in S
<1>1. S \in SUBSET Nat
  OBVIOUS
<1>2. \E x \in S : \A y \in S : x <= y
  BY <1>1, LeastExists
<1> DEFINE D == {n - x : x \in S}
<1>3. D \in SUBSET Nat /\ D # {}
  <2>1. \A x \in S : n - x \in Nat
    OBVIOUS
  <2> QED
    BY <2>1
<1>4. PICK d \in D : \A z \in D : d <= z
  <2> HIDE DEF D
  <2> QED
    BY <1>3, LeastExists
<1>5. PICK x \in S : d = n - x
  BY <1>4
<1>6. \A y \in S : x >= y
  <2> SUFFICES ASSUME NEW y \in S PROVE x >= y
    OBVIOUS
  <2>1. n - y \in D
    OBVIOUS
  <2>2. n - x <= n - y
    BY <1>4, <1>5, <2>1
  <2> QED
    BY <2>2
<1> QED
  BY <1>2, <1>6 DEF Min, Max

\* The amounts of a row are positive.
LEMMA AmountsPositive ==
  ASSUME NEW row \in PrintedRows, Positive(row) # {}
  PROVE  FirstAmount(row) \in Nat \ {0} /\ LastAmount(row) \in Nat \ {0}
<1>1. row.nums \in Seq(Int)
  BY DEF PrintedRows
<1>2. Len(row.nums) \in Nat /\ DOMAIN row.nums = 1 .. Len(row.nums) /\ \A i \in DOMAIN row.nums : row.nums[i] \in Int
  BY ONLY <1>1
<1>3. Positive(row) \in SUBSET (1 .. Len(row.nums))
  BY <1>2 DEF Positive
<1>4. Min(Positive(row)) \in Positive(row) /\ Max(Positive(row)) \in Positive(row)
  BY ONLY <1>2, <1>3, ExtremesIn, Positive(row) # {}
<1>5. \A i \in Positive(row) : row.nums[i] \in Nat \ {0}
  BY <1>2 DEF Positive
<1> QED
  BY <1>4, <1>5 DEF FirstAmount, LastAmount

LEMMA SheetRows ==
  ASSUME NEW s \in Sheets
  PROVE  /\ Len(s.body) \in Nat /\ DOMAIN s.body = 1 .. Len(s.body)
         /\ \A k \in DOMAIN s.body : s.body[k] \in PrintedRows /\ s.body[k].qty \in Int
<1>1. s.body \in Seq(PrintedRows)
  BY DEF Sheets
<1>2. Len(s.body) \in Nat /\ DOMAIN s.body = 1 .. Len(s.body) /\ \A k \in DOMAIN s.body : s.body[k] \in PrintedRows
  BY ONLY <1>1
<1>3. \A r \in PrintedRows : r.qty \in Int
  BY DEF PrintedRows
<1> QED
  BY <1>2, <1>3

\* The amount of a labelled row, the TOTAL and the VAT.
LEMMA LabelledPositive ==
  ASSUME NEW s \in Sheets, NEW label, Labelled(s, label) # {}
  PROVE  First(s, label) \in Nat \ {0}
<1> DEFINE S == Labelled(s, label)
           k == Min(S)
<1>1. S \in SUBSET (1 .. Len(s.body)) /\ Len(s.body) \in Nat
  BY SheetRows DEF Labelled
<1>2. k \in S
  <2> HIDE DEF S
  <2>1. S # {}
    BY DEF S
  <2> QED
    BY <1>1, <2>1, ExtremesIn
<1> HIDE DEF k
<1>3. s.body[k] \in PrintedRows /\ Positive(s.body[k]) # {}
  BY <1>2, SheetRows DEF Labelled
<1> QED
  BY <1>3, AmountsPositive DEF First, k

LEMMA SheetAmounts ==
  ASSUME NEW s \in Sheets, Labelled(s, "total") # {}
  PROVE  FindGross(s) \in Nat \ {0} /\ FindVAT(s) \in Nat
<1>1. FindGross(s) \in Nat \ {0}
  BY LabelledPositive DEF FindGross
<1>2. CASE Labelled(s, "vat") # {}
  BY <1>1, <1>2, LabelledPositive DEF FindVAT
<1>3. CASE Labelled(s, "vat") = {} /\ BareAmounts(s) = {}
  BY <1>1, <1>3 DEF FindVAT
<1>4. CASE Labelled(s, "vat") = {} /\ BareAmounts(s) # {}
  <2> DEFINE S == BareAmounts(s)
             k == Max(S)
  <2>1. S \in SUBSET (1 .. Len(s.body)) /\ Len(s.body) \in Nat
    BY SheetRows DEF BareAmounts
  <2>2. k \in S
    <3> HIDE DEF S
    <3>1. S # {}
      BY <1>4 DEF S
    <3> QED
      BY <2>1, <3>1, ExtremesIn
  <2>3. FindVAT(s) = FirstAmount(s.body[k])
    BY <1>4 DEF FindVAT
  <2> HIDE DEF k
  <2>4. s.body[k] \in PrintedRows /\ Cardinality(Positive(s.body[k])) = 1
    BY <2>2, SheetRows DEF BareAmounts
  <2>5. Positive(s.body[k]) # {}
    BY <2>4, FS_EmptySet
  <2> QED
    BY <1>1, <2>3, <2>4, <2>5, AmountsPositive
<1> QED
  BY <1>2, <1>3, <1>4

\* The lines of a sheet.
LEMMA SheetLines ==
  ASSUME NEW s \in Sheets
  PROVE  LET q == FindLines(s) IN
         /\ Len(q) \in Nat /\ DOMAIN q = 1 .. Len(q)
         /\ \A n \in DOMAIN q : q[n].qty \in Nat \ {0} /\ q[n].net \in Nat \ {0}
<1> DEFINE S == {k \in DOMAIN s.body : IsLine(s, k)}
           a == Ascending(S)
           q == FindLines(s)
<1>1. Len(s.body) \in Nat /\ S \in SUBSET (1 .. Len(s.body))
  BY SheetRows
<1>2. Len(a) \in Nat /\ DOMAIN a = 1 .. Len(a) /\ \A i \in DOMAIN a : a[i] \in S
  <2> HIDE DEF S
  <2> QED
    BY <1>1, AscendingTakes
<1>3. q = [n \in DOMAIN a |-> [qty |-> s.body[a[n]].qty, net |-> LastAmount(s.body[a[n]])]]
  BY DEF FindLines
<1>4. \A k \in S : s.body[k].qty \in Nat \ {0} /\ LastAmount(s.body[k]) \in Nat \ {0}
  <2> SUFFICES ASSUME NEW k \in S
               PROVE  s.body[k].qty \in Nat \ {0} /\ LastAmount(s.body[k]) \in Nat \ {0}
    OBVIOUS
  <2>1. s.body[k] \in PrintedRows /\ s.body[k].qty \in Int
    BY SheetRows
  <2>2. s.body[k].qty > 0 /\ Positive(s.body[k]) # {}
    BY DEF IsLine
  <2> QED
    BY <2>1, <2>2, AmountsPositive
<1> HIDE DEF S, a, q
<1>5. DOMAIN q = 1 .. Len(a) /\ \A n \in DOMAIN q : q[n].qty \in Nat \ {0} /\ q[n].net \in Nat \ {0}
  BY <1>2, <1>3, <1>4
<1>6. Len(q) = Len(a)
  BY <1>2, <1>3
<1> QED
  BY <1>2, <1>5, <1>6 DEF q

\* The rate of a sheet follows from its totals.
LEMMA PrintedRate ==
  ASSUME NEW n \in Nat \ {0}, NEW v \in Nat, v = 0 \/ (10000 * v >= 101 * n /\ 2 * v <= n),
         NEW t, t = IF v > 0 THEN Rounded(10000 * v, n) ELSE 0
  PROVE  t \in Rates /\ AsRated(n, t, v, n + v)
<1>1. CASE v = 0
  <2>1. t = 0 /\ n * t = 0
    BY <1>1
  <2> QED
    BY <1>1, <2>1 DEF AsRated, Rates
<1>2. CASE v # 0
  <2> DEFINE a == 10000 * v
             p == n * t
  <2>1. t = Rounded(a, n) /\ a \in Int
    BY <1>2
  <2> HIDE DEF a
  <2>2. t \in Int /\ p \in Int /\ 2 * a - n <= 2 * p /\ 2 * p <= 2 * a + n
    BY ONLY <2>1, RoundedNear, n \in Nat \ {0}
  <2>3. a = 10000 * v /\ a >= 101 * n /\ 2 * v <= n
    BY <1>2 DEF a
  <2>4. t <= 100 => p <= 100 * n
    <3>1. \A z, w \in Int : z <= w => n * z <= n * w
      OBVIOUS
    <3> QED
      BY <2>2, <3>1
  <2>5. t >= 5001 => p >= 5001 * n
    <3>1. \A z, w \in Int : z <= w => n * z <= n * w
      OBVIOUS
    <3> QED
      BY <2>2, <3>1
  <2>6. 101 <= t /\ t <= 5000
    <3> HIDE DEF p
    <3> QED
      BY <2>2, <2>3, <2>4, <2>5
  <2>7. 2 * p - 20000 * v <= 10000 + (n + v) /\ 20000 * v - 2 * p <= 10000 + (n + v)
    <3> HIDE DEF p
    <3> QED
      BY <2>2, <2>3
  <2>8. t \in Rates
    BY <2>2, <2>6 DEF Rates
  <2> QED
    BY <2>7, <2>8 DEF AsRated
<1> QED
  BY <1>1, <1>2

\* The unit price of a line is rounded twice, which its units allow for.
Allowed(q, p, n) == \E e \in Nat : Off(q, p, n, e) /\ 30000 * e + 10000 <= 20000 * q
LEMMA PrintedPrice ==
  ASSUME NEW q \in Nat \ {0}, NEW n \in Int, NEW P, P = Rounded(100 * n, q)
  PROVE  P \in Int /\ Allowed(q, P, n)
<1> DEFINE a == 100 * n
           R == Rounded(P, 100)
           x == q * P
           m == q * R
<1>1. a \in Int /\ P = Rounded(a, q)
  OBVIOUS
<1> HIDE DEF a
<1>2. P \in Int /\ x \in Int /\ 2 * a - q <= 2 * x /\ 2 * x <= 2 * a + q
  BY <1>1, RoundedNear
<1>3. R \in Int /\ 2 * P - 100 <= 200 * R /\ 200 * R <= 2 * P + 100
  BY <1>2, HundredNear
<1> HIDE DEF R
<1>4. m \in Int /\ 200 * m - 2 * x <= 100 * q /\ 2 * x - 200 * m <= 100 * q
  <2> DEFINE d == 200 * R - 2 * P
  <2>1. d \in Int /\ d <= 100 /\ -d <= 100
    BY <1>2, <1>3
  <2>2. m \in Int /\ q * d = 200 * m - 2 * x /\ q * (-d) = 2 * x - 200 * m
    BY <1>2, <1>3
  <2>3. \A z \in Int : z <= 100 => q * z <= 100 * q
    <3>1. \A z, w \in Int : z <= w => q * z <= q * w
      OBVIOUS
    <3>2. q * 100 = 100 * q
      OBVIOUS
    <3> QED
      BY <3>1, <3>2
  <2> HIDE DEF d, m, x
  <2> QED
    BY <2>1, <2>2, <2>3
<1> HIDE DEF m, x
<1> DEFINE e == IF m >= n THEN m - n ELSE n - m
<1>5. e \in Nat /\ m - n <= e /\ n - m <= e /\ 200 * e <= 101 * q
  BY <1>2, <1>4 DEF a
<1> HIDE DEF e
<1>6. 30000 * e + 10000 <= 20000 * q
  <2>1. CASE q = 1
    BY <1>5, <2>1
  <2>2. CASE q = 2
    BY <1>5, <2>2
  <2>3. CASE q >= 3
    BY <1>5, <2>3
  <2> QED
    BY <2>1, <2>2, <2>3
<1>7. Off(q, P, n, e)
  BY <1>5 DEF Off, m, R
<1>8. P \in Int /\ Allowed(q, P, n)
  BY <1>2, <1>5, <1>6, <1>7 DEF Allowed
<1> QED
  BY <1>8

\* The lines that are made of a sheet's: each is as near as its units allow, and
\* the last one makes up the VAT.
LEMMA LinesStated ==
  ASSUME NEW inv, NEW n \in Nat \ {0}, DOMAIN inv.lines = 1 .. n, Len(inv.lines) = n,
         \A k \in 1 .. n : inv.lines[k].qty \in Nat \ {0} /\ inv.lines[k].net \in Nat \ {0},
         inv.rate \in Rates, inv.vat \in Int
  PROVE  LET L == LinesFromSheet(inv) IN
         /\ \E c : Near(L, inv.rate, c) /\ SumFunctionOnSet(c, DOMAIN L) = Units(inv.lines) * 20000
         /\ Net(L) = Net(inv.lines) /\ Vat(L) = inv.vat
<1> DEFINE L == LinesFromSheet(inv)
           t == inv.rate
           D == inv.lines
           S == 1 .. n
           VatOf(k) == Rounded(D[k].net * t, 10000)
           V == [j \in S |-> VatOf(j)]
           rest == SumFunctionOnSet(V, 1 .. n - 1)
<1>1. /\ DOMAIN L = S
      /\ \A k \in S :
           L[k] = [qty |-> D[k].qty, net |-> D[k].net, rate |-> t,
                   price |-> Rounded(100 * D[k].net, D[k].qty), category |-> Category(t),
                   vat |-> IF k < n THEN VatOf(k) ELSE inv.vat - rest]
  BY DEF LinesFromSheet
<1>2. \A k \in S : V[k] = VatOf(k) /\ VatOf(k) \in Int
  <2> SUFFICES ASSUME NEW k \in S
               PROVE  V[k] = VatOf(k) /\ VatOf(k) \in Int
    OBVIOUS
  <2>1. D[k].net * t \in Int
    <3>1. D[k].net \in Int /\ t \in Int
      BY RateType
    <3> QED
      BY ONLY <3>1
  <2>2. VatOf(k) \in Int
    BY ONLY <2>1, PercentNear
  <2> QED
    BY <2>2
<1>3. IsFiniteSet(S) /\ IsFiniteSet(1 .. n - 1) /\ S \ {n} = 1 .. n - 1 /\ n \in S
  <2>1. \A z \in Int : IsFiniteSet(1 .. z)
    BY FS_Interval
  <2>2. (1 .. n) \ {n} = 1 .. n - 1 /\ n \in 1 .. n
    OBVIOUS
  <2> QED
    BY <2>1, <2>2
<1> HIDE DEF L, V, VatOf, S
<1>4. Summable(V, 1 .. n - 1) /\ rest \in Int
  <2>1. 1 .. n - 1 \subseteq S
    BY <1>3
  <2>2. Summable(V, 1 .. n - 1)
    BY <1>2, <1>3, <2>1 DEF Summable
  <2> QED
    BY <2>2, SumType
<1> HIDE DEF rest
<1>5. \A k \in S : /\ L[k].qty = D[k].qty /\ L[k].net = D[k].net /\ L[k].rate = t
                   /\ L[k].price = Rounded(100 * D[k].net, D[k].qty) /\ L[k].category = Category(t)
                   /\ L[k].vat = IF k < n THEN VatOf(k) ELSE inv.vat - rest
  BY <1>1
<1>6. \A k \in S : D[k].qty \in Nat \ {0} /\ D[k].net \in Nat \ {0}
  BY DEF S
<1>7. ASSUME NEW k \in S
      PROVE  /\ L[k] \in Line /\ ItemTotal(Item(L[k])) \in Int
             /\ ItemTotal(Item(L[k])) * 20000 - L[k].net * (20000 + 2 * t) <= D[k].qty * 20000
             /\ L[k].net * (20000 + 2 * t) - ItemTotal(Item(L[k])) * 20000 <= D[k].qty * 20000
  <2> DEFINE q == D[k].qty
             m == D[k].net
             P == Rounded(100 * m, q)
             l == L[k]
  <2>1. q \in Nat \ {0} /\ m \in Int
    BY <1>6, <1>7
  <2>2. P \in Int /\ Allowed(q, P, m)
    <3>1. P = Rounded(100 * m, q)
      OBVIOUS
    <3> HIDE DEF q, m, P
    <3> QED
      BY ONLY <2>1, <3>1, PrintedPrice
  <2>3. PICK e \in Nat : Off(q, P, m, e) /\ 30000 * e + 10000 <= 20000 * q
    BY <2>2 DEF Allowed
  <2>4. l.vat \in Int
    BY <1>2, <1>4, <1>5, <1>7
  <2>5. l = [qty |-> q, net |-> m, rate |-> t, price |-> P, category |-> Category(t), vat |-> l.vat]
    BY <1>1, <1>5, <1>7
  <2>6. l \in Line
    <3> HIDE DEF q, m, P, l
    <3>1. Category(t) \in {"S", "Z"}
      BY DEF Category
    <3> QED
      BY <2>1, <2>2, <2>4, <2>5, <3>1 DEF Line
  <2>7. l.qty = q /\ l.price = P /\ l.net = m /\ l.rate = t
    BY <1>5, <1>7
  <2> HIDE DEF q, m, P, l
  <2>8. /\ ItemTotal(Item(l)) \in Int
        /\ ItemTotal(Item(l)) * 20000 - l.net * (20000 + 2 * l.rate) <= 30000 * e + 10000
        /\ l.net * (20000 + 2 * l.rate) - ItemTotal(Item(l)) * 20000 <= 30000 * e + 10000
    BY <2>3, <2>6, <2>7, LineStated
  <2> DEFINE y == l.net * (20000 + 2 * t)
             z == ItemTotal(Item(l))
  <2>9. y \in Int
    <3>1. 20000 + 2 * t \in Int
      BY RateType
    <3> QED
      BY <2>1, <2>7, <3>1
  <2>10. z \in Int /\ z * 20000 - y <= 30000 * e + 10000 /\ y - z * 20000 <= 30000 * e + 10000
    BY <2>7, <2>8
  <2> HIDE DEF y, z
  <2>11. z * 20000 - y <= q * 20000 /\ y - z * 20000 <= q * 20000
    BY <2>1, <2>3, <2>9, <2>10
  <2> QED
    BY <2>6, <2>8, <2>11 DEF y, z, l, q
<1> DEFINE f == [k \in DOMAIN D |-> D[k].qty]
           c == [k \in S |-> D[k].qty * 20000]
<1>8. Units(D) = SumFunctionOnSet(f, S) /\ Summable(f, S) /\ \A k \in S : c[k] = f[k] * 20000 /\ c[k] = D[k].qty * 20000
  <2>1. DOMAIN D = S /\ \A k \in S : D[k].qty \in Nat
    BY <1>6 DEF S
  <2>2. Units(D) = SumFunctionOnSet(f, DOMAIN D) /\ Summable(f, DOMAIN D)
    BY <2>1, UnitsType DEF S
  <2> QED
    BY <2>1, <2>2
<1> HIDE DEF f, c
<1>9. Summable(c, S) /\ SumFunctionOnSet(c, S) = Units(D) * 20000
  BY <1>8, SumsScale
<1>10. L \in Seq(Line)
  <2>1. \A k \in S : L[k] \in Line
    BY <1>7
  <2>2. L = [k \in 1 .. n |-> L[k]]
    BY <1>1 DEF L, LinesFromSheet, S
  <2> QED
    BY <2>1, <2>2 DEF S
<1>11. Near(L, t, c)
  <2>1. \A j, k \in DOMAIN L : L[j].category = L[k].category
    BY <1>1, <1>5
  <2>2. \A k \in DOMAIN L :
          /\ L[k].rate = t /\ ItemTotal(Item(L[k])) \in Int
          /\ ItemTotal(Item(L[k])) * 20000 - L[k].net * (20000 + 2 * t) <= c[k]
          /\ L[k].net * (20000 + 2 * t) - ItemTotal(Item(L[k])) * 20000 <= c[k]
    BY <1>1, <1>5, <1>7, <1>8
  <2> QED
    BY <1>1, <1>9, <1>10, <2>1, <2>2 DEF Near
<1>12. DOMAIN Nets(L) = S /\ DOMAIN Nets(D) = S /\ DOMAIN Vats(L) = S
       /\ \A k \in S : Nets(L)[k] = L[k].net /\ Nets(D)[k] = D[k].net /\ Vats(L)[k] = L[k].vat
  BY <1>1 DEF Nets, Vats, S
<1>13. Net(L) = Net(D)
  <2>1. Summable(Nets(D), S) /\ \A k \in S : Nets(L)[k] = Nets(D)[k]
    <3>1. \A k \in S : Nets(D)[k] \in Int /\ Nets(L)[k] = Nets(D)[k]
      BY <1>5, <1>6, <1>12
    <3> QED
      BY <1>3, <3>1 DEF Summable
  <2>2. SumFunctionOnSet(Nets(L), S) = SumFunctionOnSet(Nets(D), S)
    BY <2>1, SumsAgree
  <2> QED
    BY <1>12, <2>2 DEF Net, SumFunction
<1>14. Vat(L) = inv.vat
  <2>1. \A k \in S : Vats(L)[k] \in Int
    BY <1>2, <1>4, <1>5, <1>12
  <2>2. Summable(Vats(L), S)
    BY <1>3, <2>1 DEF Summable
  <2>3. SumFunctionOnSet(Vats(L), S) = Vats(L)[n] + SumFunctionOnSet(Vats(L), 1 .. n - 1)
    <3>1. SumFunctionOnSet(Vats(L), S) = Vats(L)[n] + SumFunctionOnSet(Vats(L), S \ {n})
      BY ONLY <1>3, <2>2, SumTakes
    <3> QED
      BY <1>3, <3>1
  <2>4. \A k \in 1 .. n - 1 : Vats(L)[k] = V[k]
    <3>1. \A k \in 1 .. n - 1 : k \in S /\ k < n
      BY <1>3
    <3> QED
      BY <1>2, <1>5, <1>12, <3>1
  <2>5. SumFunctionOnSet(Vats(L), 1 .. n - 1) = rest
    BY <1>4, <2>4, SumsAgree DEF rest
  <2>6. Vats(L)[n] = inv.vat - rest
    BY <1>3, <1>5, <1>12
  <2>7. Vat(L) = SumFunctionOnSet(Vats(L), S)
    BY <1>12 DEF Vat, SumFunction
  <2> QED
    BY <1>4, <2>3, <2>5, <2>6, <2>7
<1> QED
  BY <1>1, <1>9, <1>11, <1>13, <1>14 DEF L

\* A sheet that was kept, whose VAT is such a share of its TOTAL.
LEMMA SheetStated ==
  ASSUME NEW b \in Books, NEW k \in DOMAIN b.sheets, NEW known, ~IsHeldBack(ParseSheet(b, k, known)),
         NEW stated, stated = StatedBySheet(b.sheets[k]), stated.gross >= 0
  PROVE  LET m == MappedRow(ParseSheet(b, k, known)) IN
         m.gross = stated.gross /\ \E t, c : Stated(m, stated.units, t, Tolerance, c)
<1> DEFINE s == b.sheets[k]
           g == FindGross(s)
           v == FindVAT(s)
           n == g - v
           D == FindLines(s)
           u == Units(D)
           t == IF v > 0 THEN Rounded(10000 * v, n) ELSE 0
           inv == ParseSheet(b, k, known)
           m == MappedRow(inv)
           h == Len(D)
<1>1. s \in Sheets
  <2>1. b.sheets \in Seq(Sheets)
    BY BooksAssumption DEF Book
  <2> QED
    BY <2>1
<1>2. /\ Labelled(s, "total") # {}
      /\ v = 0 \/ (10000 * v >= 101 * n /\ 3 * v <= g)
      /\ stated = [gross |-> g, units |-> u]
  <2> DEFINE A == Labelled(s, "total") # {} /\ (v = 0 \/ (10000 * v >= 101 * n /\ 3 * v <= g))
  <2>1. stated = IF A THEN [gross |-> g, units |-> u] ELSE [gross |-> -1, units |-> 0]
    BY DEF StatedBySheet
  <2>2. A
    <3> HIDE DEF A
    <3>1. ~A => stated.gross = -1
      BY <2>1
    <3> QED
      BY <3>1
  <2> QED
    BY <2>1, <2>2
<1> HIDE DEF s
<1>3. g \in Nat \ {0} /\ v \in Nat
  BY <1>1, <1>2, SheetAmounts
<1>4. /\ h \in Nat /\ DOMAIN D = 1 .. h
      /\ \A j \in DOMAIN D : D[j].qty \in Nat \ {0} /\ D[j].net \in Nat \ {0}
  BY <1>1, SheetLines
<1> HIDE DEF g, v, D
<1>5. n \in Nat \ {0} /\ g = n + v /\ (v = 0 \/ (10000 * v >= 101 * n /\ 2 * v <= n))
  BY <1>2, <1>3
<1> HIDE DEF n
<1>6. t \in Rates /\ AsRated(n, t, v, n + v)
  BY <1>3, <1>5, PrintedRate
<1>7. u \in Nat
  <2>1. \A j \in DOMAIN D : D[j].qty \in Nat
    BY <1>4
  <2> QED
    BY <1>4, <2>1, UnitsType
<1>8. /\ inv.net = n /\ inv.vat = v /\ inv.gross = g /\ inv.qty = 1 /\ inv.price = 100 * n
      /\ inv.rate = t /\ inv.lines = D
  <2>1. inv.rate = IF n > 0 /\ v > 0 THEN Rounded(10000 * v, n) ELSE 0
    BY DEF ParseSheet, n, v, g, s
  <2>2. n > 0
    BY <1>5
  <2> QED
    BY <2>1, <2>2 DEF ParseSheet, n, v, g, s, D
<1> HIDE DEF t, u, inv, h
<1>9. m.lines = BuildLines(inv) /\ m.net = n /\ m.vat = v /\ m.gross = g
  BY <1>8 DEF MappedRow
<1> HIDE DEF m
<1> SUFFICES \E c : /\ Near(m.lines, t, c) /\ SumFunctionOnSet(c, DOMAIN m.lines) <= 20000 * u + 10000
                    /\ Vat(m.lines) = v
                    /\ Net(m.lines) - n <= Tolerance /\ n - Net(m.lines) <= Tolerance
  <2>1. g \in Nat /\ n \in Int /\ v \in Int /\ Tolerance \in Nat
    BY <1>3, <1>5 DEF Tolerance
  <2>2. m.gross = stated.gross /\ stated.units = u
    BY <1>2, <1>9
  <2> QED
    BY <1>5, <1>6, <1>7, <1>9, <2>1, <2>2 DEF Stated, m, inv
<1>10. CASE D = <<>>
  <2> DEFINE l == LineOf(1, 100 * n, n, v, t)
  <2>1. m.lines = <<l>>
    BY <1>8, <1>9, <1>10, OneLine
  <2>2. /\ l \in Line
        /\ l.qty = 1 /\ l.price = 100 * n /\ l.net = n /\ l.vat = v /\ l.rate = t
    BY <1>3, <1>5, <1>6, LineRecord DEF LineOf
  <2>3. Off(l.qty, l.price, l.net, 0)
    <3>1. Rounded(100 * n, 100) = n
      BY <1>5, RoundedExact
    <3> HIDE DEF l
    <3> QED
      BY <1>5, <2>2, <3>1 DEF Off
  <2> HIDE DEF l
  <2>4. /\ \E f : Near(<<l>>, l.rate, f) /\ SumFunctionOnSet(f, DOMAIN <<l>>) = 10000
        /\ Net(<<l>>) = l.net /\ Vat(<<l>>) = l.vat
    <3>1. 10000 \in Nat /\ 0 \in Nat /\ 30000 * 0 + 10000 <= 10000
      OBVIOUS
    <3> QED
      BY <2>2, <2>3, <3>1, OneLineStated
  <2>5. PICK f : Near(<<l>>, t, f) /\ SumFunctionOnSet(f, DOMAIN <<l>>) = 10000
    BY <2>2, <2>4
  <2>6. Net(m.lines) - n <= Tolerance /\ n - Net(m.lines) <= Tolerance /\ Vat(m.lines) = v
    BY <1>5, <2>1, <2>2, <2>4 DEF Tolerance
  <2>7. SumFunctionOnSet(f, DOMAIN m.lines) <= 20000 * u + 10000
    BY <1>7, <2>1, <2>5
  <2> QED
    BY <2>1, <2>5, <2>6, <2>7
<1>11. CASE D # <<>>
  <2>1. m.lines = LinesFromSheet(inv)
    BY <1>8, <1>9, <1>11 DEF BuildLines
  <2>2. h \in Nat \ {0}
    <3>1. h # 0
      <4>1. D = [j \in 1 .. h |-> D[j]]
        BY <1>4 DEF D, FindLines
      <4> QED
        BY <1>4, <1>11, <4>1
    <3> QED
      BY <1>4, <3>1
  <2>3. /\ \E c : Near(m.lines, t, c) /\ SumFunctionOnSet(c, DOMAIN m.lines) = u * 20000
        /\ Net(m.lines) = Net(D) /\ Vat(m.lines) = v
    <3>1. inv.vat \in Int /\ inv.rate \in Rates /\ inv.rate = t /\ inv.vat = v /\ inv.lines = D
      BY <1>3, <1>6, <1>8
    <3>2. /\ DOMAIN inv.lines = 1 .. h /\ Len(inv.lines) = h
          /\ \A j \in 1 .. h : inv.lines[j].qty \in Nat \ {0} /\ inv.lines[j].net \in Nat \ {0}
      BY <1>4, <1>8 DEF h
    <3>3. /\ \E c : Near(LinesFromSheet(inv), inv.rate, c)
                    /\ SumFunctionOnSet(c, DOMAIN LinesFromSheet(inv)) = Units(inv.lines) * 20000
          /\ Net(LinesFromSheet(inv)) = Net(inv.lines) /\ Vat(LinesFromSheet(inv)) = inv.vat
      BY ONLY <2>2, <3>1, <3>2, LinesStated
    <3> QED
      BY <2>1, <3>1, <3>3 DEF u
  <2>4. ~(Abs(Net(D) - n) > Tolerance)
    <3>1. ~IsHeldBack(inv)
      BY DEF inv
    <3> QED
      BY <1>8, <1>11, <3>1 DEF IsHeldBack
  <2>5. Net(D) \in Int
    <3>1. \A j \in DOMAIN D : Nets(D)[j] \in Int /\ Nets(D)[j] = D[j].net
      BY <1>4 DEF Nets
    <3>2. DOMAIN Nets(D) = DOMAIN D /\ IsFiniteSet(DOMAIN D)
      BY <1>4, FS_Interval DEF Nets
    <3>3. Summable(Nets(D), DOMAIN D)
      BY <3>1, <3>2 DEF Summable
    <3> QED
      BY <3>2, <3>3, SumType DEF Net, SumFunction
  <2>6. Net(D) - n <= Tolerance /\ n - Net(D) <= Tolerance
    BY <1>5, <2>4, <2>5 DEF Abs, Tolerance
  <2>7. u * 20000 <= 20000 * u + 10000
    BY <1>7
  <2> QED
    BY <2>3, <2>6, <2>7
<1> QED
  BY <1>10, <1>11

\* What was kept of a workbook, and what was read of a standard sheet.
LEMMA ParsedFrom ==
  ASSUME NEW b \in Books, NEW known, NEW p, p = IF IsPrinted(b) THEN ParsePrinted(b, known) ELSE ParseStandard(b),
         NEW n \in DOMAIN p.invoices
  PROVE  LET inv == p.invoices[n] k == p.invoices[n].row IN
         /\ IsPrinted(b) => k \in DOMAIN b.sheets /\ inv = ParseSheet(b, k, known) /\ ~IsHeldBack(inv)
         /\ ~IsPrinted(b) => k \in DOMAIN b.rows /\ inv = ExtractRow(b, k) /\ IsValidRow(b, k)
<1>1. b.rows \in Seq(Seq(Cells)) /\ b.sheets \in Seq(Sheets)
  BY BooksAssumption DEF Book
<1>2. CASE IsPrinted(b)
  <2> DEFINE found == {k \in DOMAIN b.sheets : IsInvoice(b.sheets[k])}
             heldBack == {k \in found : IsHeldBack(ParseSheet(b, k, known))}
             whole == found \ heldBack
             kept == Ascending(whole)
  <2>1. Len(b.sheets) \in Nat /\ whole \in SUBSET (1 .. Len(b.sheets))
    BY <1>1
  <2>2. \A x \in whole : x \in DOMAIN b.sheets /\ ~IsHeldBack(ParseSheet(b, x, known))
    OBVIOUS
  <2>3. p.invoices = [j \in DOMAIN kept |-> ParseSheet(b, kept[j], known)]
    BY <1>2 DEF ParsePrinted
  <2> HIDE DEF whole
  <2>4. \A i \in DOMAIN kept : kept[i] \in whole
    BY <2>1, AscendingTakes
  <2> HIDE DEF kept
  <2>5. n \in DOMAIN kept /\ p.invoices[n] = ParseSheet(b, kept[n], known)
    BY <2>3
  <2>6. p.invoices[n].row = kept[n]
    BY <2>5 DEF ParseSheet
  <2> QED
    BY <1>2, <2>2, <2>4, <2>5, <2>6
<1>3. CASE ~IsPrinted(b)
  <2> DEFINE rows == {r \in DOMAIN b.rows : \E i \in DOMAIN b.rows[r] : ~IsBlank(b.rows[r][i])}
             whole == {r \in rows : IsValidRow(b, r)}
             valid == Ascending(whole)
  <2>1. Len(b.rows) \in Nat /\ whole \in SUBSET (1 .. Len(b.rows))
    BY <1>1
  <2>2. \A x \in whole : x \in DOMAIN b.rows /\ IsValidRow(b, x)
    OBVIOUS
  <2>3. p.invoices = [j \in DOMAIN valid |-> ExtractRow(b, valid[j])]
    BY <1>3 DEF ParseStandard
  <2> HIDE DEF whole
  <2>4. \A i \in DOMAIN valid : valid[i] \in whole
    BY <2>1, AscendingTakes
  <2> HIDE DEF valid
  <2>5. n \in DOMAIN valid /\ p.invoices[n] = ExtractRow(b, valid[n])
    BY <2>3
  <2>6. p.invoices[n].row = valid[n]
    BY <2>5 DEF ExtractRow
  <2> QED
    BY <1>3, <2>2, <2>4, <2>5, <2>6
<1> QED
  BY <1>2, <1>3

\* Of a file whose rows or sheets state their amounts consistently, the provider
\* is told what they state: whatever the workbook.
THEOREM StatedIsDeclared == BookSpec => []DeclaredAddsUp
<1>1. BookInv => DeclaredAddsUp
  <2> SUFFICES ASSUME BookInv, NEW i \in DOMAIN sent
               PROVE  LET stated == IF IsPrinted(book) THEN StatedBySheet(book.sheets[sent[i].row])
                                    ELSE StatedByRow(book.rows[sent[i].row])
                          slack == stated.units + 2 + stated.gross \div 20000
                                     + (IF IsPrinted(book) THEN 2 * Tolerance ELSE 0)
                      IN (IsPrinted(book) \/ book.headers = Template) /\ stated.gross >= 0 =>
                           /\ Abs(Charged(sent[i].payload) - stated.gross) <= slack
                           /\ AddsUp(sent[i].payload, slack)
    BY DEF DeclaredAddsUp
  <2>1. phase = "parsed" /\ result = Parsed /\ sent[i] \in Outgoing
    <3>1. sent \in Seq(Outgoing) /\ (phase # "parsed" => sent = <<>>) /\ (phase = "parsed" => result = Parsed)
      BY DEF BookInv
    <3>2. sent[i] \in Outgoing /\ sent # <<>>
      BY <3>1
    <3> QED
      BY <3>1, <3>2
  <2>2. book \in Books /\ provider \in {"digitax", "interswitch"}
    BY DEF BookInv
  <2>3. PICK n \in DOMAIN result.invoices :
          sent[i] = [row |-> result.invoices[n].row, payload |-> Payload(provider, MappedRow(result.invoices[n]))]
    BY <2>1 DEF Outgoing
  <2> DEFINE inv == result.invoices[n]
             k == inv.row
             m == MappedRow(inv)
             p == Payload(provider, m)
             stated == IF IsPrinted(book) THEN StatedBySheet(book.sheets[k]) ELSE StatedByRow(book.rows[k])
             tolerance == IF IsPrinted(book) THEN Tolerance ELSE 0
  <2>4. sent[i].row = k /\ sent[i].payload = p
    BY <2>3
  <2>5. /\ IsPrinted(book) => k \in DOMAIN book.sheets /\ inv = ParseSheet(book, k, registered) /\ ~IsHeldBack(inv)
        /\ ~IsPrinted(book) => k \in DOMAIN book.rows /\ inv = ExtractRow(book, k) /\ IsValidRow(book, k)
    <3>1. result = IF IsPrinted(book) THEN ParsePrinted(book, registered) ELSE ParseStandard(book)
      BY <2>1 DEF Parsed
    <3> QED
      BY <2>2, <3>1, ParsedFrom
  <2> HIDE DEF inv, k
  <2>6. ASSUME IsPrinted(book) \/ book.headers = Template, stated.gross >= 0
        PROVE  m.gross = stated.gross /\ \E t, c : Stated(m, stated.units, t, tolerance, c)
    <3>1. CASE IsPrinted(book)
      BY <2>2, <2>5, <2>6, <3>1, SheetStated
    <3>2. CASE ~IsPrinted(book)
      BY <2>2, <2>5, <2>6, <3>2, RowStated
    <3> QED
      BY <3>1, <3>2
  <2> HIDE DEF m, stated
  <2>7. ASSUME IsPrinted(book) \/ book.headers = Template, stated.gross >= 0
        PROVE  LET slack == stated.units + 2 + stated.gross \div 20000
                              + (IF IsPrinted(book) THEN 2 * Tolerance ELSE 0)
               IN Abs(Charged(p) - stated.gross) <= slack /\ AddsUp(p, slack)
    <3>1. PICK t, c : Stated(m, stated.units, t, tolerance, c)
      BY <2>6, <2>7
    <3>2. m.gross = stated.gross
      BY <2>6, <2>7
    <3>3. /\ Abs(Charged(p) - m.gross) <= Slack(stated.units, m.gross, tolerance)
          /\ AddsUp(p, Slack(stated.units, m.gross, tolerance))
      BY <2>2, <3>1, StatedPayload
    <3>4. Slack(stated.units, stated.gross, tolerance)
          = stated.units + 2 + stated.gross \div 20000 + (IF IsPrinted(book) THEN 2 * Tolerance ELSE 0)
      BY DEF Slack, Tolerance
    <3> QED
      BY <3>2, <3>3, <3>4
  <2> QED
    BY <2>4, <2>7 DEF stated
<1> QED
  BY <1>1, BookInvariance, PTL

=============================================================================
