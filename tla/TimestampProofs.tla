---------------------------- MODULE TimestampProofs ----------------------------
(***************************************************************************)
(* Proofs about the order of the stored texts, for any base and number of  *)
(* digits, and about the first of finitely many rows in such an order.     *)
(***************************************************************************)
EXTENDS Timestamps, FiniteSetTheorems, TLAPS

LEMMA WrittenType ==
  ASSUME NEW f \in Nat, NEW i \in 1 .. Digits
  PROVE  Written(f, i) \in Int
<1> DEFINE power == Base ^ (Digits - i)
           digit == (f \div power) % Base
<1>1. Base \in Nat \ {0} /\ power \in Int
  BY TimestampAssumption
<1>2. Written(f, i) = Base \/ Written(f, i) = digit
  BY Zenon DEF Written
<1>3. digit \in Int
  <2> HIDE DEF power
  <2> QED
    BY <1>1
<1> HIDE DEF digit
<1> QED
  BY <1>1, <1>2, <1>3

LEMMA InstantType ==
  ASSUME NEW t \in Instants
  PROVE  t.sec \in Nat /\ t.frac \in Nat
<1>1. t.sec \in Nat /\ t.frac \in Fractions
  BY DEF Instants
<1>2. Base ^ Digits - 1 \in Int
  BY TimestampAssumption
<1> QED
  BY <1>1, <1>2 DEF Fractions

-----------------------------------------------------------------------------
(* The texts of two fractions differ first at one digit.                   *)

LEMMA FractionTextTransitive ==
  ASSUME NEW f \in Nat, NEW g \in Nat, NEW h \in Nat,
         FractionTextBefore(f, g), FractionTextBefore(g, h)
  PROVE  FractionTextBefore(f, h)
<1>0. Digits \in Nat
  BY TimestampAssumption
<1>1. PICK i \in 1 .. Digits :
        /\ Written(f, i) < Written(g, i)
        /\ \A j \in 1 .. (i - 1) : Written(f, j) = Written(g, j)
  BY DEF FractionTextBefore
<1>2. PICK k \in 1 .. Digits :
        /\ Written(g, k) < Written(h, k)
        /\ \A j \in 1 .. (k - 1) : Written(g, j) = Written(h, j)
  BY DEF FractionTextBefore
<1>3. \A j \in 1 .. Digits :
        Written(f, j) \in Int /\ Written(g, j) \in Int /\ Written(h, j) \in Int
  BY WrittenType
<1>4. CASE i <= k
  <2>1. Written(f, i) < Written(h, i)
    BY <1>0, <1>1, <1>2, <1>3, <1>4
  <2>2. \A j \in 1 .. (i - 1) : Written(f, j) = Written(h, j)
    BY <1>0, <1>1, <1>2, <1>4
  <2> QED
    BY <2>1, <2>2 DEF FractionTextBefore
<1>5. CASE k < i
  <2>1. Written(f, k) < Written(h, k)
    BY <1>0, <1>1, <1>2, <1>3, <1>5
  <2>2. \A j \in 1 .. (k - 1) : Written(f, j) = Written(h, j)
    BY <1>0, <1>1, <1>2, <1>5
  <2> QED
    BY <2>1, <2>2 DEF FractionTextBefore
<1> QED
  BY <1>0, <1>4, <1>5

LEMMA FractionTextIrreflexive ==
  ASSUME NEW f \in Nat
  PROVE  ~ FractionTextBefore(f, f)
  BY WrittenType DEF FractionTextBefore

(***************************************************************************)
(* Whatever the fractions, ORDER BY and the comparisons of SQLite rest on  *)
(* a strict order of the texts: no row waits for itself, no two for each   *)
(* other, and no chain of rows leads back to its first.                    *)
(***************************************************************************)
THEOREM TextOrderIsStrict ==
  /\ \A s \in Instants : ~ TextBefore(s, s)
  /\ \A s, t, u \in Instants : TextBefore(s, t) /\ TextBefore(t, u) => TextBefore(s, u)
<1>1. ASSUME NEW s \in Instants PROVE ~ TextBefore(s, s)
  BY InstantType, FractionTextIrreflexive DEF TextBefore
<1>2. ASSUME NEW s \in Instants, NEW t \in Instants, NEW u \in Instants,
             TextBefore(s, t), TextBefore(t, u)
      PROVE  TextBefore(s, u)
  <2>1. /\ s.sec \in Nat /\ t.sec \in Nat /\ u.sec \in Nat
        /\ s.frac \in Nat /\ t.frac \in Nat /\ u.frac \in Nat
    BY InstantType
  <2>2. CASE s.sec = t.sec /\ t.sec = u.sec
    BY <1>2, <2>1, <2>2, FractionTextTransitive DEF TextBefore
  <2>3. CASE ~ (s.sec = t.sec /\ t.sec = u.sec)
    BY <1>2, <2>1, <2>3 DEF TextBefore
  <2> QED
    BY <2>2, <2>3
<1> QED
  BY <1>1, <1>2

-----------------------------------------------------------------------------
(* Least elements, for the rows that sort first.                           *)

LEMMA LeastNumber ==
  ASSUME NEW S \in SUBSET Nat, S # {}
  PROVE  \E i \in S : \A j \in Nat : j < i => j \notin S
<1> DEFINE less == OpToRel(<, Nat)
<1>1. IsWellFoundedOn(less, Nat) /\ \A i, j \in Nat : j < i => <<j, i>> \in less
  BY NatLessThanWellFounded DEF OpToRel
<1> HIDE DEF less
<1>2. PICK i \in S : \A j \in S : ~ (<<j, i>> \in less)
  BY <1>1, WFMin
<1> QED
  BY <1>1, <1>2

\* Under a strict order, given by its pairs, some element of a finite set has
\* none before it: one with the fewest elements before it.
LEMMA FirstElement ==
  ASSUME NEW S, IsFiniteSet(S), S # {}, NEW R,
         \A x \in S : <<x, x>> \notin R,
         \A x, y, z \in S : <<x, y>> \in R /\ <<y, z>> \in R => <<x, z>> \in R
  PROVE  \E x \in S : \A y \in S : <<y, x>> \notin R
<1> DEFINE before == [x \in S |-> {y \in S : <<y, x>> \in R}]
           size   == [x \in S |-> Cardinality(before[x])]
           sizes  == {n \in Nat : \E x \in S : n = size[x]}
<1>1. ASSUME NEW x \in S
      PROVE  /\ before[x] \in SUBSET S /\ IsFiniteSet(before[x])
             /\ size[x] = Cardinality(before[x]) /\ size[x] \in Nat
  <2>1. before[x] \in SUBSET S
    OBVIOUS
  <2>2. IsFiniteSet(before[x])
    BY <2>1, FS_Subset, Zenon
  <2>3. Cardinality(before[x]) \in Nat
    BY <2>2, FS_CardinalityType, Zenon
  <2> QED
    BY <2>1, <2>2, <2>3
<1>2. \A x, y \in S : <<y, x>> \in R => before[y] \in SUBSET before[x] /\ before[y] # before[x]
  OBVIOUS
<1>3. ASSUME NEW x \in S, NEW y \in S, <<y, x>> \in R PROVE size[y] < size[x]
  <2>1. PICK small, big : small = before[y] /\ big = before[x]
    OBVIOUS
  <2>2. IsFiniteSet(big) /\ small \in SUBSET big /\ small # big
    BY <1>1, <1>2, <1>3, <2>1, Zenon
  <2>3. Cardinality(small) <= Cardinality(big) /\ Cardinality(big) # Cardinality(small)
    BY <2>2, FS_Subset, Zenon
  <2>4. size[x] = Cardinality(big) /\ size[y] = Cardinality(small)
    BY <1>1, <2>1, Zenon
  <2>5. size[x] \in Nat /\ size[y] \in Nat
    BY <1>1
  <2> HIDE DEF size
  <2> QED
    BY <2>3, <2>4, <2>5
<1> HIDE DEF before, size
<1>4. PICK n \in sizes : \A m \in Nat : m < n => m \notin sizes
  <2>1. sizes \in SUBSET Nat /\ sizes # {}
    BY <1>1
  <2> HIDE DEF sizes
  <2> QED
    BY <2>1, LeastNumber
<1>5. PICK x \in S : n = size[x]
  OBVIOUS
<1>6. \A y \in S : ~ (size[y] < size[x])
  BY <1>1, <1>4, <1>5
<1> QED
  BY <1>3, <1>6

\* Under a total order there are, for each limit, elements that come first.
LEMMA FirstElements ==
  ASSUME NEW S, IsFiniteSet(S), NEW R, NEW limit \in Nat,
         \A x \in S : <<x, x>> \notin R,
         \A x, y, z \in S : <<x, y>> \in R /\ <<y, z>> \in R => <<x, z>> \in R,
         \A x, y \in S : x = y \/ <<x, y>> \in R \/ <<y, x>> \in R
  PROVE  \E B \in SUBSET S : /\ \A x \in B, y \in S \ B : <<x, y>> \in R
                             /\ B = S \/ Cardinality(B) = limit
                             /\ Cardinality(B) \in Nat /\ Cardinality(B) <= limit
<1> DEFINE Good(B, k) == /\ \A x \in B, y \in S \ B : <<x, y>> \in R
                         /\ B = S \/ Cardinality(B) = k
                         /\ Cardinality(B) \in Nat /\ Cardinality(B) <= k
           Bad == {k \in Nat : ~ \E B \in SUBSET S : Good(B, k)}
<1>1. Bad = {}
  <2> SUFFICES ASSUME Bad # {} PROVE FALSE
    OBVIOUS
  <2>1. PICK k \in Bad : \A j \in Nat : j < k => j \notin Bad
    <3>1. Bad \in SUBSET Nat
      OBVIOUS
    <3> HIDE DEF Bad
    <3> QED
      BY <3>1, LeastNumber
  <2>2. k \in Nat /\ ~ \E B \in SUBSET S : Good(B, k)
    BY <2>1
  <2>3. k # 0
    <3>1. Good({}, 0)
      BY FS_EmptySet
    <3> QED
      BY <2>2, <3>1
  <2>4. PICK B \in SUBSET S : Good(B, k - 1)
    <3>1. k - 1 \in Nat /\ k - 1 < k
      BY <2>2, <2>3
    <3>2. k - 1 \notin Bad
      BY <2>1, <3>1
    <3> QED
      BY <3>1, <3>2
  <2>5. B # S /\ Cardinality(B) = k - 1
    BY <2>2, <2>4
  <2>6. PICK x \in S \ B : \A y \in S \ B : <<y, x>> \notin R
    <3>1. PICK T : T = S \ B
      OBVIOUS
    <3>2. T \in SUBSET S /\ T # {}
      BY <2>5, <3>1
    <3>3. IsFiniteSet(T)
      BY <3>2, FS_Subset, Zenon
    <3>4. \E x \in T : \A y \in T : <<y, x>> \notin R
      BY <3>2, <3>3, FirstElement
    <3> QED
      BY <3>1, <3>4
  <2>7. Cardinality(B \cup {x}) = k
    <3>1. IsFiniteSet(B)
      BY FS_Subset, Zenon
    <3>2. Cardinality(B \cup {x}) = Cardinality(B) + 1
      BY <3>1, <2>6, FS_AddElement
    <3> QED
      BY <2>2, <2>5, <3>2
  <2>8. \A z \in B \cup {x}, y \in S \ (B \cup {x}) : <<z, y>> \in R
    BY <2>4, <2>6
  <2> QED
    BY <2>2, <2>7, <2>8
<1>2. limit \notin Bad
  BY <1>1
<1> QED
  BY <1>2

-----------------------------------------------------------------------------
(* Instants whose texts sort as they do.                                   *)

SortAsTexts(S) == \A s, t \in S : NotAfter(s, t) => s = t \/ TextBefore(s, t)

\* On such instants the two orders are one.
LEMMA TextOrderIsOrder ==
  ASSUME NEW S, S \subseteq Instants, SortAsTexts(S), NEW s \in S, NEW t \in S
  PROVE  TextBefore(s, t) <=> Before(s, t)
<1>1. /\ s \in Instants /\ t \in Instants
      /\ s.sec \in Nat /\ s.frac \in Nat /\ t.sec \in Nat /\ t.frac \in Nat
  BY InstantType
<1>2. ASSUME TextBefore(s, t), ~ Before(s, t) PROVE FALSE
  <2>1. t = s \/ TextBefore(t, s)
    BY <1>2 DEF SortAsTexts, NotAfter
  <2> QED
    BY <1>1, <1>2, <2>1, TextOrderIsStrict
<1>3. ASSUME Before(s, t) PROVE TextBefore(s, t)
  <2>1. NotAfter(s, t) /\ s # t
    BY <1>1, <1>3 DEF NotAfter, Before
  <2> QED
    BY <2>1 DEF SortAsTexts
<1> QED
  BY <1>2, <1>3

\* Whole seconds are such instants.
LEMMA WholeSecondsSortAsTexts ==
  ASSUME NEW S, S \subseteq Instants, \A t \in S : t.frac = 0
  PROVE  SortAsTexts(S)
<1> SUFFICES ASSUME NEW s \in S, NEW t \in S, NotAfter(s, t)
             PROVE  s = t \/ TextBefore(s, t)
  BY DEF SortAsTexts
<1>1. s \in Instants /\ t \in Instants /\ s.frac = t.frac
  OBVIOUS
<1>2. s.sec <= t.sec
  BY <1>1 DEF NotAfter, Before, Instants
<1>3. CASE s.sec = t.sec
  BY <1>1, <1>3 DEF Instants
<1>4. CASE s.sec < t.sec
  BY <1>4 DEF TextBefore
<1> QED
  BY <1>1, <1>2, <1>3, <1>4 DEF Instants
=============================================================================
