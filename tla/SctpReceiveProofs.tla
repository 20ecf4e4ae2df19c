------------------------- MODULE SctpReceiveProofs -------------------------
(***************************************************************************)
(* Proofs about SctpReceive, for every modulus up to 2^32 and every number *)
(* of chunks below half of it.  First the serial numbers of Tsn, then the  *)
(* order of decimal strings, then what sorting by it gives, then the loop  *)
(* over the sorted TSNs, then the gaps of a SACK, then the steps.          *)
(***************************************************************************)
EXTENDS SctpReceive, FiniteSetTheorems, NaturalsInduction, TLAPS

(***************************************************************************)
(* Serial number arithmetic, for every modulus; nothing here needs the     *)
(* transitivity that serial numbers do not have                            *)
(***************************************************************************)

\* Two TSNs are never each above the other (uint32Gt), so that a received chunk is
\* not at the same time old and new.
THEOREM NeverBothAbove ==
    \A a, b \in TSN : ~(uint32Gt(a, b) /\ uint32Gt(b, a))
BY HalfAssumption DEF TSN, Modulo, uint32Gt

\* Any two TSNs that are different are ordered, unless they are exactly half the
\* space apart: then neither is above the other, and a chunk is neither new nor a
\* duplicate for the tests of markReceived.
THEOREM OrderedUnlessOpposite ==
    \A a, b \in TSN :
        \/ a = b \/ uint32Gt(a, b) \/ uint32Gt(b, a)
        \/ a - b = Half \/ b - a = Half
BY HalfAssumption DEF TSN, Modulo, uint32Gt

\* The remainder of a number in range, and of the modulus.
LEMMA RemainderInRange ==
    /\ \A a \in TSN : JsRem(a) = a
    /\ JsRem(Modulo) = 0
<1>1. Modulo \in Nat \ {0}
  BY HalfAssumption DEF Modulo
<1>2. \A a \in TSN : JsRem(a) = a
  BY <1>1 DEF TSN, JsRem
<1>3. JsRem(Modulo) = 0
  BY <1>1 DEF JsRem
<1> QED
  BY <1>2, <1>3

\* The next TSN is a TSN, also at the wrap-around.
THEOREM PlusOneIsTsn == \A a \in TSN : tsnPlusOne(a) \in TSN
<1> SUFFICES ASSUME NEW a \in TSN
             PROVE  tsnPlusOne(a) \in TSN
  OBVIOUS
<1>1. CASE a + 1 = Modulo
  BY <1>1, RemainderInRange, HalfAssumption DEF tsnPlusOne, TSN, Modulo
<1>2. CASE a + 1 # Modulo
  <2>1. a + 1 \in TSN
    BY <1>2, HalfAssumption DEF TSN, Modulo
  <2> QED
    BY <2>1, RemainderInRange DEF tsnPlusOne
<1> QED
  BY <1>1, <1>2

\* The next TSN is above the one before it, also at the wrap-around: two TSNs are
\* not enough for it, four are (the code has 2^32).
THEOREM PlusOneIsAbove ==
    Half > 1 => \A a \in TSN : uint32Gt(tsnPlusOne(a), a)
<1> SUFFICES ASSUME Half > 1, NEW a \in TSN
             PROVE  uint32Gt(tsnPlusOne(a), a)
  OBVIOUS
<1>1. CASE a + 1 = Modulo
  BY <1>1, RemainderInRange, HalfAssumption DEF tsnPlusOne, TSN, Modulo, uint32Gt
<1>2. CASE a + 1 # Modulo
  <2>1. a + 1 \in TSN
    BY <1>2, HalfAssumption DEF TSN, Modulo
  <2>2. tsnPlusOne(a) = a + 1
    BY <2>1, RemainderInRange DEF tsnPlusOne
  <2> QED
    BY <2>2, HalfAssumption DEF TSN, Modulo, uint32Gt
<1> QED
  BY <1>1, <1>2

\* The TSN before a TSN other than 0 is a TSN; that of 0 is -1, which is none, and
\* which a receiver holds as its cumulative TSN when the peer starts with 0.
THEOREM MinusOneIsTsnUnlessZero ==
    \A a \in TSN : tsnMinusOne(a) \in TSN <=> a # 0
<1> SUFFICES ASSUME NEW a \in TSN
             PROVE  tsnMinusOne(a) \in TSN <=> a # 0
  OBVIOUS
<1>1. CASE a = 0
  <2>1. 1 % Modulo = 1
    <3>1. 1 \in TSN
      BY HalfAssumption DEF TSN, Modulo
    <3> QED
      BY <3>1, RemainderInRange DEF JsRem
  <2>2. tsnMinusOne(a) = -1
    BY <1>1, <2>1 DEF tsnMinusOne, JsRem
  <2> QED
    BY <1>1, <2>2 DEF TSN
<1>2. CASE a # 0
  <2>1. a - 1 \in TSN
    BY <1>2, HalfAssumption DEF TSN, Modulo
  <2> QED
    BY <1>2, <2>1, RemainderInRange DEF tsnMinusOne
<1> QED
  BY <1>1, <1>2

(***************************************************************************)
(* Induction over the naturals and over finite sets, as facts about sets   *)
(***************************************************************************)

\* A set of naturals has a least element.
LEMMA Least ==
    ASSUME NEW S \in SUBSET Nat, S # {}
    PROVE  \E n \in S : \A m \in S : n <= m
<1> DEFINE R == OpToRel(<, Nat)
<1>1. IsWellFoundedOn(R, Nat)
  BY NatLessThanWellFounded
<1>2. PICK n \in S : \A m \in S : <<m, n>> \notin R
  <2> HIDE DEF R
  <2> QED
    BY <1>1, WFMin
<1>3. \A m \in S : ~(m < n)
  BY <1>2 DEF OpToRel
<1> QED
  BY <1>3

\* before[t] is what comes before t in a strict total order on S.
StrictOrder(S, before) ==
    /\ \A t \in S : t \notin before[t]
    /\ \A s, t \in S : s = t \/ s \in before[t] \/ t \in before[s]
    /\ \A r, s, t \in S : r \in before[s] /\ s \in before[t] => r \in before[t]

\* Each position is taken by one element, and the order is that of the positions.
Ranked(S, before) ==
    /\ Cardinality(S) \in Nat
    /\ \A t \in S : Cardinality(S \cap before[t]) \in 0 .. Cardinality(S) - 1
    /\ \A s, t \in S : s \in before[t] =>
          Cardinality(S \cap before[s]) < Cardinality(S \cap before[t])
    /\ \A i \in 0 .. Cardinality(S) - 1 : \E t \in S : Cardinality(S \cap before[t]) = i

\* A strict total order numbers the elements of a finite set.
LEMMA Positions ==
    ASSUME NEW S, IsFiniteSet(S), NEW before, StrictOrder(S, before)
    PROVE  Ranked(S, before)
<1>0. /\ \A t \in S : t \notin before[t]
      /\ \A s, t \in S : s = t \/ s \in before[t] \/ t \in before[s]
      /\ \A r, s, t \in S : r \in before[s] /\ s \in before[t] => r \in before[t]
  BY DEF StrictOrder
<1> DEFINE Rank(t) == Cardinality(S \cap before[t])
           N == Cardinality(S)
           f == [t \in S |-> Rank(t)]
<1>1. N \in Nat
  BY FS_CardinalityType
<1>2. ASSUME NEW t \in S
      PROVE  Rank(t) \in 0 .. N - 1
  <2>1. IsFiniteSet(S \cap before[t]) /\ Rank(t) <= N /\ (N = Rank(t) => S = S \cap before[t])
    BY FS_Subset
  <2>2. Rank(t) \in Nat
    BY <2>1, FS_CardinalityType
  <2>3. S # S \cap before[t]
    BY <1>0, <1>2
  <2> QED
    BY <1>1, <2>1, <2>2, <2>3
<1>3. ASSUME NEW s \in S, NEW t \in S, s \in before[t]
      PROVE  Rank(s) < Rank(t)
  <2>1. S \cap before[s] \in SUBSET (S \cap before[t])
    BY <1>0, <1>3
  <2>2. S \cap before[s] # S \cap before[t]
    BY <1>0, <1>3
  <2>3. IsFiniteSet(S \cap before[t])
    BY FS_Subset
  <2>4. Rank(s) <= Rank(t) /\ Rank(s) # Rank(t)
    BY <2>1, <2>2, <2>3, FS_Subset
  <2> QED
    BY <1>2, <2>4
<1>4. f \in Injection(S, 0 .. N - 1)
  <2>1. f \in [S -> 0 .. N - 1]
    BY <1>2
  <2>2. ASSUME NEW s \in S, NEW t \in S, f[s] = f[t]
        PROVE  s = t
    <3>1. ~(Rank(s) < Rank(t)) /\ ~(Rank(t) < Rank(s))
      BY <1>2, <2>2
    <3> QED
      BY <1>0, <1>3, <3>1
  <2> QED
    BY <2>1, <2>2 DEF Injection, IsInjective
<1>5. IsFiniteSet(0 .. N - 1) /\ Cardinality(0 .. N - 1) = N
  BY <1>1, FS_Interval
<1>6. f \in Surjection(S, 0 .. N - 1)
  <2> HIDE DEF f
  <2> QED
    BY <1>4, <1>5, FS_Injection
<1>7. \A i \in 0 .. N - 1 : \E t \in S : Rank(t) = i
  BY <1>6 DEF Surjection
<1> QED
  BY <1>1, <1>2, <1>3, <1>7 DEF Ranked

(***************************************************************************)
(* The order of decimal strings                                            *)
(***************************************************************************)

\* TSNs have at most ten digits.
LEMMA TenDigits == \A t \in TSN : t \in Nat /\ t <= 4294967295
BY HalfAssumption, SendsAssumption, SMT DEF TSN, Modulo

\* Every TSN has a magnitude.
LEMMA MagnitudeIs ==
    ASSUME NEW n \in TSN
    PROVE  /\ Magnitude(n) \in Powers
           /\ Magnitude(n) \in Nat \ {0}
           /\ n \div Magnitude(n) \in 1 .. 9 \/ (n = 0 /\ Magnitude(n) = 1)
<1> DEFINE Fits(m) == n \div m \in 1 .. 9 \/ (n = 0 /\ m = 1)
<1>1. n \in Nat /\ n <= 4294967295
  BY TenDigits, SMT
<1>2. \E m \in Powers : Fits(m)
  <2>1. CASE n < 10
    <3>1. Fits(1)
      BY <1>1, <2>1, SMT
    <3> QED
      BY <3>1, SMT DEF Powers
  <2>2. CASE 10 <= n /\ n < 100
    <3>1. Fits(10)
      BY <1>1, <2>2, SMT
    <3> QED
      BY <3>1, SMT DEF Powers
  <2>3. CASE 100 <= n /\ n < 1000
    <3>1. Fits(100)
      BY <1>1, <2>3, SMT
    <3> QED
      BY <3>1, SMT DEF Powers
  <2>4. CASE 1000 <= n /\ n < 10000
    <3>1. Fits(1000)
      BY <1>1, <2>4, SMT
    <3> QED
      BY <3>1, SMT DEF Powers
  <2>5. CASE 10000 <= n /\ n < 100000
    <3>1. Fits(10000)
      BY <1>1, <2>5, SMT
    <3> QED
      BY <3>1, SMT DEF Powers
  <2>6. CASE 100000 <= n /\ n < 1000000
    <3>1. Fits(100000)
      BY <1>1, <2>6, SMT
    <3> QED
      BY <3>1, SMT DEF Powers
  <2>7. CASE 1000000 <= n /\ n < 10000000
    <3>1. Fits(1000000)
      BY <1>1, <2>7, SMT
    <3> QED
      BY <3>1, SMT DEF Powers
  <2>8. CASE 10000000 <= n /\ n < 100000000
    <3>1. Fits(10000000)
      BY <1>1, <2>8, SMT
    <3> QED
      BY <3>1, SMT DEF Powers
  <2>9. CASE 100000000 <= n /\ n < 1000000000
    <3>1. Fits(100000000)
      BY <1>1, <2>9, SMT
    <3> QED
      BY <3>1, SMT DEF Powers
  <2>10. CASE 1000000000 <= n
    <3>1. Fits(1000000000)
      BY <1>1, <2>10, SMT
    <3> QED
      BY <3>1, SMT DEF Powers
  <2> QED
    BY <1>1, <2>1, <2>2, <2>3, <2>4, <2>5, <2>6, <2>7, <2>8, <2>9, <2>10, SMT
<1>3. Magnitude(n) \in Powers /\ Fits(Magnitude(n))
  <2> HIDE DEF Fits
  <2>1. Magnitude(n) = CHOOSE m \in Powers : Fits(m)
    BY SMT DEF Magnitude, Fits
  <2> QED
    BY <1>2, <2>1, SMT
<1> QED
  BY <1>3, SMT DEF Powers

\* What is smaller in one proportion and not greater in the next is smaller in both.
LEMMA Proportions ==
    ASSUME NEW a \in Nat, NEW b \in Nat, NEW c \in Nat,
           NEW p \in Nat \ {0}, NEW q \in Nat \ {0}, NEW r \in Nat \ {0}
    PROVE  /\ a * q < b * p /\ b * r <= c * q => a * r < c * p
           /\ a * q <= b * p /\ b * r < c * q => a * r < c * p
           /\ a * q = b * p /\ b * r = c * q => a * r = c * p
<1>0. /\ a * q \in Nat /\ b * p \in Nat /\ b * r \in Nat /\ c * q \in Nat
      /\ a * r \in Nat /\ c * p \in Nat
  OBVIOUS
<1>1. \A x, y \in Nat : \A k \in Nat \ {0} :
         (x < y <=> x * k < y * k) /\ (x <= y <=> x * k <= y * k)
  <2> SUFFICES ASSUME NEW x \in Nat, NEW y \in Nat, NEW k \in Nat \ {0}
               PROVE  (x < y <=> x * k < y * k) /\ (x <= y <=> x * k <= y * k)
    OBVIOUS
  <2> QED
    BY Z3
<1>2. /\ (a * q) * r = (a * r) * q
      /\ (b * p) * r = (b * r) * p
      /\ (c * q) * p = (c * p) * q
  OBVIOUS
<1>3. /\ (a * q) * r \in Nat /\ (b * p) * r \in Nat /\ (c * q) * p \in Nat
      /\ (b * r) * p \in Nat /\ (a * r) * q \in Nat /\ (c * p) * q \in Nat
  OBVIOUS
<1>4. /\ a * q < b * p => (a * r) * q < (b * r) * p
      /\ a * q <= b * p => (a * r) * q <= (b * r) * p
      /\ b * r < c * q => (b * r) * p < (c * p) * q
      /\ b * r <= c * q => (b * r) * p <= (c * p) * q
  BY <1>0, <1>1, <1>2
<1>5. /\ (a * r) * q < (c * p) * q => a * r < c * p
      /\ (a * r) * q = (c * p) * q => a * r = c * p
  BY <1>0, <1>1
<1>6. /\ a * q < b * p /\ b * r <= c * q => (a * r) * q < (c * p) * q
      /\ a * q <= b * p /\ b * r < c * q => (a * r) * q < (c * p) * q
  BY <1>3, <1>4
<1>7. a * q = b * p /\ b * r = c * q => (a * r) * q = (c * p) * q
  BY <1>2
<1> QED
  BY <1>5, <1>6, <1>7

\* The decimal strings of two TSNs are never each before the other, those of different
\* TSNs are ordered, and no string comes before "0".
LEMMA StringOrder ==
    /\ \A a \in TSN : ~StringBefore(a, a)
    /\ \A a, b \in TSN : a = b \/ StringBefore(a, b) \/ StringBefore(b, a)
    /\ \A a, b, c \in TSN : StringBefore(a, b) /\ StringBefore(b, c) => StringBefore(a, c)
    /\ \A a \in TSN : ~StringBefore(a, 0)
<1>1. ASSUME NEW a \in TSN
      PROVE  ~StringBefore(a, a)
  <2>1. a \in Nat /\ Magnitude(a) \in Nat
    BY TenDigits, MagnitudeIs, SMT
  <2> QED
    BY <2>1, SMT DEF StringBefore
<1>2. ASSUME NEW a \in TSN, NEW b \in TSN, a # b
      PROVE  StringBefore(a, b) \/ StringBefore(b, a)
  <2>1. a \in Nat /\ b \in Nat /\ Magnitude(a) \in Nat \ {0} /\ Magnitude(b) \in Nat \ {0}
    BY TenDigits, MagnitudeIs, SMT
  <2> DEFINE p == Magnitude(a)
             q == Magnitude(b)
             x == a * q
             y == b * p
  <2>2. x \in Nat /\ y \in Nat
    BY <2>1, SMT
  <2>3. CASE x < y \/ y < x
    BY <2>3, SMT DEF StringBefore
  <2>4. CASE x = y /\ p # q
    BY <2>1, <2>4, SMT DEF StringBefore
  <2>5. CASE x = y /\ p = q
    <3> HIDE DEF p, q
    <3>1. p \in Nat \ {0} /\ a * p = b * p
      BY <2>1, <2>5, SMT DEF p, q
    <3>2. (a - b) * p = 0
      BY <2>1, <3>1, SMT
    <3>3. a - b = 0
      BY <2>1, <3>1, <3>2, SMT
    <3> QED
      BY <1>2, <2>1, <3>3, SMT
  <2> QED
    BY <2>2, <2>3, <2>4, <2>5, SMT
<1>3. ASSUME NEW a \in TSN, NEW b \in TSN, NEW c \in TSN,
             StringBefore(a, b), StringBefore(b, c)
      PROVE  StringBefore(a, c)
  <2> DEFINE p == Magnitude(a)
             q == Magnitude(b)
             r == Magnitude(c)
  <2>1. /\ a \in Nat /\ b \in Nat /\ c \in Nat
        /\ p \in Nat \ {0} /\ q \in Nat \ {0} /\ r \in Nat \ {0}
    BY TenDigits, MagnitudeIs, SMT
  <2>2. a * q < b * p \/ (a * q = b * p /\ p < q)
    BY <1>3, SMT DEF StringBefore
  <2>3. b * r < c * q \/ (b * r = c * q /\ q < r)
    BY <1>3, SMT DEF StringBefore
  <2>4. a * r < c * p \/ (a * r = c * p /\ p < r) => StringBefore(a, c)
    BY SMT DEF StringBefore
  <2> HIDE DEF p, q, r
  <2>5. a * q \in Nat /\ b * p \in Nat /\ b * r \in Nat /\ c * q \in Nat
    BY <2>1, SMT
  <2>6. /\ a * q < b * p /\ b * r <= c * q => a * r < c * p
        /\ a * q <= b * p /\ b * r < c * q => a * r < c * p
        /\ a * q = b * p /\ b * r = c * q => a * r = c * p
    BY <2>1, Proportions, SMT
  <2>7. a * r < c * p \/ (a * r = c * p /\ p < r)
    BY <2>1, <2>2, <2>3, <2>5, <2>6, SMT
  <2> QED
    BY <2>4, <2>7
<1>4. ASSUME NEW a \in TSN
      PROVE  ~StringBefore(a, 0)
  <2>1. 0 \in TSN
    BY HalfAssumption, SMT DEF TSN, Modulo
  <2>2. a \in Nat /\ Magnitude(a) \in Nat \ {0}
    BY TenDigits, MagnitudeIs, SMT
  <2>3. Magnitude(0) = 1
    <3> DEFINE m == Magnitude(0)
    <3>1. m \in Nat \ {0} /\ (0 \div m \in 1 .. 9 \/ m = 1)
      BY <2>1, MagnitudeIs, SMT
    <3> HIDE DEF m
    <3>2. 0 \div m = 0
      BY <3>1, SMT
    <3>3. m = 1
      BY <3>1, <3>2, SMT
    <3> QED
      BY <3>3 DEF m
  <2> DEFINE p == Magnitude(a)
  <2>4. StringBefore(a, 0) => a * 1 < 0 * p \/ (a * 1 = 0 * p /\ p < 1)
    BY <2>3, SMT DEF StringBefore
  <2> HIDE DEF p
  <2>5. p \in Nat \ {0}
    BY <2>2 DEF p
  <2> QED
    BY <2>2, <2>4, <2>5, SMT
<1> QED
  BY <1>1, <1>2, <1>3, <1>4

(***************************************************************************)
(* Sorting                                                                 *)
(***************************************************************************)

\* Sorted lists each element of a finite set of TSNs once, in the order of the strings.
LEMMA SortedIs ==
    ASSUME NEW S \in SUBSET TSN, IsFiniteSet(S)
    PROVE  /\ Cardinality(S) \in Nat
           /\ \A i \in 1 .. Cardinality(S) : Sorted(S)[i] \in S
           /\ \A t \in S : \E i \in 1 .. Cardinality(S) : Sorted(S)[i] = t
           /\ \A i, j \in 1 .. Cardinality(S) :
                 i < j <=> StringBefore(Sorted(S)[i], Sorted(S)[j])
<1> DEFINE N == Cardinality(S)
           Rank(t) == Cardinality(S \cap Before[t])
<1>1. \A s, t \in TSN : s \in Before[t] <=> StringBefore(s, t)
  BY DEF Before
<1>2. /\ \A t \in S : t \notin Before[t]
      /\ \A s, t \in S : s = t \/ s \in Before[t] \/ t \in Before[s]
      /\ \A r, s, t \in S : r \in Before[s] /\ s \in Before[t] => r \in Before[t]
  BY <1>1, StringOrder
<1>3. /\ N \in Nat
      /\ \A t \in S : Rank(t) \in 0 .. N - 1
      /\ \A s, t \in S : s \in Before[t] => Rank(s) < Rank(t)
      /\ \A i \in 0 .. N - 1 : \E t \in S : Rank(t) = i
  <2>1. StrictOrder(S, Before)
    BY <1>2 DEF StrictOrder
  <2>2. Ranked(S, Before)
    BY <2>1, Positions
  <2> QED
    BY <2>2 DEF Ranked
<1> HIDE DEF Rank
<1>4. ASSUME NEW i \in 1 .. N
      PROVE  Sorted(S)[i] \in S /\ Rank(Sorted(S)[i]) = i - 1
  <2>1. i - 1 \in 0 .. N - 1
    BY <1>3
  <2>2. \E t \in S : Rank(t) = i - 1
    BY <1>3, <2>1
  <2>3. Sorted(S)[i] = CHOOSE t \in S : Rank(t) = i - 1
    BY DEF Sorted, Rank
  <2> QED
    BY <2>2, <2>3
<1>5. \A s, t \in S : Rank(s) = Rank(t) => s = t
  BY <1>2, <1>3
<1>6. ASSUME NEW t \in S
      PROVE  \E i \in 1 .. N : Sorted(S)[i] = t
  <2>1. Rank(t) + 1 \in 1 .. N
    BY <1>3
  <2>2. Rank(Sorted(S)[Rank(t) + 1]) = Rank(t) /\ Sorted(S)[Rank(t) + 1] \in S
    BY <1>3, <1>4, <2>1
  <2> QED
    BY <1>5, <2>1, <2>2
<1>7. ASSUME NEW i \in 1 .. N, NEW j \in 1 .. N
      PROVE  i < j <=> StringBefore(Sorted(S)[i], Sorted(S)[j])
  <2> DEFINE s == Sorted(S)[i]
             t == Sorted(S)[j]
  <2>1. s \in S /\ t \in S /\ Rank(s) = i - 1 /\ Rank(t) = j - 1
    BY <1>4
  <2> HIDE DEF s, t
  <2>2. s \in Before[t] <=> StringBefore(s, t)
    BY <1>1, <2>1
  <2>3. s \in Before[t] => i < j
    BY <1>3, <2>1
  <2>4. i < j => s # t /\ t \notin Before[s]
    <3>1. t \in Before[s] => j - 1 < i - 1
      BY <1>3, <2>1
    <3> QED
      BY <1>3, <2>1, <3>1
  <2>5. i < j => s \in Before[t]
    BY <1>2, <2>1, <2>4
  <2> QED
    BY <2>2, <2>3, <2>5 DEF s, t
<1> QED
  BY <1>3, <1>4, <1>6, <1>7

(***************************************************************************)
(* The window of TSNs that a sender uses: less than half of all            *)
(***************************************************************************)

\* The remainder of what is below twice the modulus.
LEMMA RemainderBelowTwice ==
    \A x \in Nat : x < 2 * Modulo => JsRem(x) = IF x < Modulo THEN x ELSE x - Modulo
<1> SUFFICES ASSUME NEW x \in Nat, x < 2 * Modulo
             PROVE  JsRem(x) = IF x < Modulo THEN x ELSE x - Modulo
  OBVIOUS
<1>1. Modulo \in Nat \ {0}
  BY HalfAssumption DEF Modulo
<1>2. CASE x < Modulo
  BY <1>1, <1>2, RemainderInRange DEF TSN
<1>3. CASE x >= Modulo
  <2> DEFINE m == Modulo
  <2> HIDE DEF m
  <2>1. m \in Nat \ {0} /\ x >= m /\ x < 2 * m
    BY <1>1, <1>3 DEF m
  <2>2. x % m = x - m
    BY <2>1
  <2> QED
    BY <2>1, <2>2 DEF m, JsRem
<1> QED
  BY <1>1, <1>2, <1>3

\* In the window after a TSN the serial order is the order of the positions.
LEMMA Window ==
    ASSUME NEW a \in TSN \ {0}
    PROVE  /\ \A i \in -1 .. Modulo - 2 :
                 /\ Nth(a, i) = IF a + i < Modulo THEN a + i ELSE a + i - Modulo
                 /\ Nth(a, i) \in TSN
           /\ \A i, j \in -1 .. Modulo - 2 : Nth(a, i) = Nth(a, j) => i = j
           /\ \A i, j \in -1 .. Half - 2 : uint32Gt(Nth(a, i), Nth(a, j)) <=> i > j
           /\ \A i \in -1 .. Modulo - 2, k \in Nat :
                 i + k <= Modulo - 2 => JsRem(Nth(a, i) + k) = Nth(a, i + k)
<1>0. Half \in Nat \ {0} /\ Modulo = 2 * Half /\ a \in 1 .. Modulo - 1
  BY HalfAssumption DEF TSN, Modulo
<1>1. ASSUME NEW i \in -1 .. Modulo - 2
      PROVE  /\ Nth(a, i) = IF a + i < Modulo THEN a + i ELSE a + i - Modulo
             /\ Nth(a, i) \in 0 .. Modulo - 1
  <2>1. a + i \in Nat /\ a + i < 2 * Modulo
    BY <1>0
  <2> DEFINE x == a + i
  <2>2. JsRem(x) = IF x < Modulo THEN x ELSE x - Modulo
    <3> HIDE DEF x
    <3> QED
      BY <2>1, RemainderBelowTwice DEF x
  <2> QED
    BY <1>0, <2>1, <2>2 DEF Nth
<1>2. ASSUME NEW i \in -1 .. Modulo - 2, NEW j \in -1 .. Modulo - 2, Nth(a, i) = Nth(a, j)
      PROVE  i = j
  BY <1>0, <1>1, <1>2
<1>3. ASSUME NEW i \in -1 .. Half - 2, NEW j \in -1 .. Half - 2
      PROVE  uint32Gt(Nth(a, i), Nth(a, j)) <=> i > j
  <2>1. i \in -1 .. Modulo - 2 /\ j \in -1 .. Modulo - 2
    BY <1>0
  <2>2. /\ Nth(a, i) = IF a + i < Modulo THEN a + i ELSE a + i - Modulo
        /\ Nth(a, j) = IF a + j < Modulo THEN a + j ELSE a + j - Modulo
    BY <1>1, <2>1
  <2> QED
    BY <1>0, <2>2 DEF uint32Gt
<1>4. ASSUME NEW i \in -1 .. Modulo - 2, NEW k \in Nat, i + k <= Modulo - 2
      PROVE  JsRem(Nth(a, i) + k) = Nth(a, i + k)
  <2>1. i + k \in -1 .. Modulo - 2
    BY <1>0, <1>4
  <2>2. /\ Nth(a, i) = IF a + i < Modulo THEN a + i ELSE a + i - Modulo
        /\ Nth(a, i + k) = IF a + (i + k) < Modulo THEN a + (i + k) ELSE a + (i + k) - Modulo
    BY <1>1, <2>1
  <2>3. Nth(a, i) + k \in Nat /\ Nth(a, i) + k < 2 * Modulo
    BY <1>0, <1>4, <2>2
  <2> DEFINE x == Nth(a, i) + k
  <2>4. JsRem(x) = IF x < Modulo THEN x ELSE x - Modulo
    <3> HIDE DEF x
    <3> QED
      BY <2>3, RemainderBelowTwice DEF x
  <2> QED
    BY <1>0, <1>4, <2>2, <2>4
<1> QED
  BY <1>1, <1>2, <1>3, <1>4 DEF TSN

(***************************************************************************)
(* The loop of markReceived                                                *)
(***************************************************************************)

\* The loop stops, and where it stops the next TSN is not the next in the order.
LEMMA StepsIs ==
    ASSUME NEW S, Cardinality(S) \in Nat, NEW last
    PROVE  /\ Steps(last, S) \in 0 .. Cardinality(S)
           /\ Follow(Sorted(S), last, Steps(last, S))
           /\ Steps(last, S) = Cardinality(S) \/ ~Follow(Sorted(S), last, Steps(last, S) + 1)
<1> DEFINE N == Cardinality(S)
           F(n) == Follow(Sorted(S), last, n)
           T == {n \in 0 .. N : n = N \/ ~F(n + 1)}
<1>1. PICK n \in T : \A m \in T : n <= m
  <2>1. N \in T
    OBVIOUS
  <2>2. T \in SUBSET Nat /\ T # {}
    BY <2>1
  <2> HIDE DEF T
  <2> QED
    BY <2>2, Least
<1>2. n \in 0 .. N /\ (n = N \/ ~F(n + 1))
  OBVIOUS
<1>3. F(n)
  <2>1. CASE n = 0
    BY <2>1 DEF Follow
  <2>2. CASE n # 0
    <3>1. n - 1 \in 0 .. N /\ n - 1 # N /\ (n - 1) + 1 = n
      BY <1>2, <2>2
    <3>2. n - 1 \notin T
      BY <1>1, <1>2
    <3> HIDE DEF F
    <3> QED
      BY <3>1, <3>2
  <2> QED
    BY <2>1, <2>2
<1>4. Steps(last, S) = CHOOSE m \in 0 .. N : F(m) /\ (m = N \/ ~F(m + 1))
  BY DEF Steps
<1> HIDE DEF F, N
<1>5. Steps(last, S) \in 0 .. N /\ F(Steps(last, S))
      /\ (Steps(last, S) = N \/ ~F(Steps(last, S) + 1))
  BY <1>2, <1>3, <1>4
<1> QED
  BY <1>5 DEF F, N

\* The TSNs of the window are as many as their positions.
LEMMA FromIsFinite ==
    ASSUME NEW a \in TSN \ {0}, NEW k \in 0 .. MaxSends, NEW S \in SUBSET From(a, k)
    PROVE  /\ S \subseteq TSN
           /\ IsFiniteSet(S)
           /\ Cardinality(S) \in 0 .. MaxSends - k
<1>1. MaxSends \in Nat /\ MaxSends < Half /\ Half \in Nat /\ Modulo = 2 * Half
  BY HalfAssumption, SendsAssumption, SMT DEF Modulo
<1>2. \A i \in k .. MaxSends - 1 : i \in -1 .. Modulo - 2
  BY <1>1
<1>3. S \subseteq TSN
  BY <1>2, Window DEF From
<1> DEFINE f == [t \in S |-> CHOOSE i \in k .. MaxSends - 1 : t = Nth(a, i)]
<1>4. \A t \in S : f[t] \in k .. MaxSends - 1 /\ t = Nth(a, f[t])
  BY DEF From
<1>5. f \in Injection(S, k .. MaxSends - 1)
  BY <1>4 DEF Injection, IsInjective
<1>6. IsFiniteSet(k .. MaxSends - 1) /\ Cardinality(k .. MaxSends - 1) = MaxSends - k
  <2> DEFINE last == MaxSends - 1
  <2>1. k \in Int /\ last \in Int
    BY <1>1
  <2> HIDE DEF last
  <2>2. IsFiniteSet(k .. last) /\ Cardinality(k .. last) = IF k > last THEN 0 ELSE last - k + 1
    BY <2>1, FS_Interval
  <2> QED
    BY <1>1, <2>2 DEF last
<1>7. IsFiniteSet(S) /\ Cardinality(S) <= MaxSends - k
  <2> HIDE DEF f
  <2> QED
    BY <1>5, <1>6, FS_Injection
<1>8. Cardinality(S) \in Nat
  BY <1>7, FS_CardinalityType
<1> QED
  BY <1>1, <1>3, <1>7, <1>8

\* The cumulative TSN passes TSNs that are kept, and no others; what it passes is kept no
\* more.  The next one is only left if it is not the first of the rest in the order.
LEMMA AdvanceIs ==
    ASSUME NEW a \in TSN \ {0}, NEW k \in 0 .. MaxSends, NEW S \in SUBSET From(a, k)
    PROVE  \E n \in 0 .. MaxSends - k :
              LET last == Advance(Nth(a, k - 1), S)
                  rest == Above(last, S)
              IN  /\ last = Nth(a, k + n - 1)
                  /\ \A i \in k .. k + n - 1 : Nth(a, i) \in S
                  /\ rest \subseteq From(a, k + n)
                  /\ \A t \in S \ rest : uint32Gte(last, t)
                  /\ Nth(a, k + n) \in rest =>
                        \E t \in rest : /\ uint32Gt(t, Nth(a, k + n))
                                        /\ ~StringBefore(Nth(a, k + n), t)
<1> DEFINE before == Nth(a, k - 1)
           order == Sorted(S)
           n == Steps(before, S)
           N == Cardinality(S)
           last == Advance(before, S)
           rest == Above(last, S)
           next == Nth(a, k + n)
<1>0. MaxSends \in Nat /\ MaxSends < Half /\ Half \in Nat /\ Modulo = 2 * Half
  BY HalfAssumption, SendsAssumption, SMT DEF Modulo
<1>1. S \subseteq TSN /\ IsFiniteSet(S) /\ N \in 0 .. MaxSends - k
  BY FromIsFinite
<1>2. /\ \A i \in 1 .. N : order[i] \in S
      /\ \A t \in S : \E i \in 1 .. N : order[i] = t
      /\ \A i, j \in 1 .. N : i < j <=> StringBefore(order[i], order[j])
  BY <1>1, SortedIs
<1>3. /\ n \in 0 .. N
      /\ Follow(order, before, n)
      /\ n = N \/ ~Follow(order, before, n + 1)
  <2>1. N \in Nat
    BY <1>0, <1>1
  <2> QED
    BY <2>1, StepsIs
<1> HIDE DEF n
<1>4. n \in 0 .. MaxSends - k
  BY <1>0, <1>1, <1>3
<1>5. \A i \in 0 .. n + 1 : JsRem(before + i) = Nth(a, k - 1 + i)
  <2> SUFFICES ASSUME NEW i \in 0 .. n + 1
               PROVE  JsRem(before + i) = Nth(a, k - 1 + i)
    OBVIOUS
  <2>1. k - 1 \in -1 .. Modulo - 2 /\ i \in Nat /\ (k - 1) + i <= Modulo - 2
    BY <1>0, <1>4
  <2> QED
    BY <2>1, Window
<1>6. \A i \in 1 .. n : order[i] = Nth(a, k - 1 + i)
  BY <1>3, <1>4, <1>5 DEF Follow
<1>7. last = Nth(a, k + n - 1)
  <2>1. last = JsRem(before + n)
    BY DEF Advance, n
  <2>2. (k - 1) + n = k + n - 1
    BY <1>0, <1>4
  <2> QED
    BY <1>4, <1>5, <2>1, <2>2
<1> HIDE DEF last
<1>8. \A i \in k .. k + n - 1 : Nth(a, i) \in S
  <2> SUFFICES ASSUME NEW i \in k .. k + n - 1
               PROVE  Nth(a, i) \in S
    OBVIOUS
  <2>1. i - k + 1 \in 1 .. n /\ i - k + 1 \in 1 .. N /\ k - 1 + (i - k + 1) = i
    BY <1>0, <1>1, <1>3, <1>4
  <2> QED
    BY <1>2, <1>6, <2>1
<1>9. ASSUME NEW j \in k .. MaxSends - 1
      PROVE  uint32Gt(Nth(a, j), last) <=> j >= k + n
  <2>1. j \in -1 .. Half - 2 /\ k + n - 1 \in -1 .. Half - 2
    BY <1>0, <1>4
  <2>2. uint32Gt(Nth(a, j), Nth(a, k + n - 1)) <=> j > k + n - 1
    BY <2>1, Window
  <2> QED
    BY <1>0, <1>4, <1>7, <2>2
<1>10. \A t \in S : t \in rest <=> \E j \in k + n .. MaxSends - 1 : t = Nth(a, j)
  <2> SUFFICES ASSUME NEW t \in S
               PROVE  t \in rest <=> \E j \in k + n .. MaxSends - 1 : t = Nth(a, j)
    OBVIOUS
  <2>1. PICK i \in k .. MaxSends - 1 : t = Nth(a, i)
    BY DEF From
  <2>2. t \in rest <=> i >= k + n
    BY <1>9, <2>1 DEF Above
  <2>3. ASSUME NEW j \in k + n .. MaxSends - 1, t = Nth(a, j)
        PROVE  i >= k + n
    <3>1. i \in -1 .. Modulo - 2 /\ j \in -1 .. Modulo - 2
      BY <1>0, <1>4
    <3>2. Nth(a, i) = Nth(a, j)
      BY <2>1, <2>3
    <3>3. i = j
      BY <3>1, <3>2, Window
    <3> QED
      BY <1>0, <1>4, <3>3
  <2> QED
    BY <1>0, <1>4, <2>1, <2>2, <2>3
<1>11. \A t \in S \ rest : uint32Gte(last, t)
  <2> SUFFICES ASSUME NEW t \in S \ rest
               PROVE  uint32Gte(last, t)
    OBVIOUS
  <2>1. PICK i \in k .. MaxSends - 1 : t = Nth(a, i)
    BY DEF From
  <2>2. i < k + n
    BY <1>0, <1>4, <1>10, <2>1
  <2>3. i \in -1 .. Half - 2 /\ k + n - 1 \in -1 .. Half - 2
    BY <1>0, <1>4
  <2>4. k + n - 1 > i => uint32Gt(last, t)
    BY <1>7, <2>1, <2>3, Window
  <2> QED
    BY <1>0, <1>4, <1>7, <2>1, <2>2, <2>4 DEF uint32Gte
<1>12. ASSUME next \in rest
       PROVE  \E t \in rest : uint32Gt(t, next) /\ ~StringBefore(next, t)
  <2>1. next \in S
    BY <1>12 DEF Above
  <2>2. PICK p \in 1 .. N : order[p] = next
    BY <1>2, <2>1
  <2>3. /\ \A i \in k - 1 .. k + n : i \in -1 .. Modulo - 2
        /\ \A i \in k .. MaxSends - 1 : i \in -1 .. Modulo - 2
    BY <1>0, <1>4
  <2>4. p > n
    <3>1. ASSUME p <= n PROVE FALSE
      <4>1. next = Nth(a, k - 1 + p)
        BY <1>3, <1>6, <2>2, <3>1
      <4>2. k - 1 + p \in k - 1 .. k + n /\ k + n \in k - 1 .. k + n
        BY <1>0, <1>1, <1>4, <3>1
      <4> DEFINE i == k - 1 + p
                 j == k + n
      <4>3. i = j
        <5>1. Nth(a, i) = Nth(a, j) /\ i \in -1 .. Modulo - 2 /\ j \in -1 .. Modulo - 2
          BY <2>3, <4>1, <4>2
        <5> HIDE DEF i, j
        <5> QED
          BY <5>1, Window
      <4> QED
        BY <1>0, <1>4, <3>1, <4>3
    <3> QED
      BY <1>1, <1>4, <3>1
  <2>5. n + 1 \in 1 .. N /\ n # N
    BY <1>1, <1>3, <2>4
  <2>6. PICK i \in 1 .. n + 1 : order[i] # JsRem(before + i)
    BY <1>3, <2>5 DEF Follow
  <2>7. i = n + 1
    <3>1. i \notin 1 .. n
      BY <1>3, <2>6 DEF Follow
    <3> QED
      BY <1>4, <3>1
  <2>8. JsRem(before + (n + 1)) = next
    <3>1. n + 1 \in 0 .. n + 1 /\ k - 1 + (n + 1) = k + n
      BY <1>0, <1>4
    <3> QED
      BY <1>5, <3>1
  <2> DEFINE t == order[n + 1]
  <2>9. t # next /\ t \in S
    BY <1>2, <2>5, <2>6, <2>7, <2>8
  <2>10. p > n + 1
    <3>1. p # n + 1
      BY <2>2, <2>9
    <3> QED
      BY <1>1, <1>4, <2>4, <3>1
  <2>11. ~StringBefore(next, t)
    BY <1>1, <1>2, <1>4, <2>2, <2>5, <2>10
  <2>12. PICK j \in k .. MaxSends - 1 : t = Nth(a, j)
    BY <2>9 DEF From
  <2>13. j >= k + n
    <3>1. ASSUME j < k + n PROVE FALSE
      <4>1. j - k + 1 \in 1 .. n /\ k - 1 + (j - k + 1) = j
        BY <1>0, <1>4, <3>1
      <4>2. order[j - k + 1] = t
        BY <1>6, <2>12, <4>1
      <4>3. j - k + 1 \in 1 .. N /\ j - k + 1 < n + 1
        BY <1>1, <1>3, <4>1
      <4>4. StringBefore(t, t)
        BY <1>2, <2>5, <4>2, <4>3
      <4> QED
        BY <1>1, <2>9, <4>4, StringOrder
    <3> QED
      BY <1>0, <1>4, <3>1
  <2>14. j # k + n
    BY <2>9, <2>12
  <2>15. uint32Gt(t, next)
    <3>1. j \in -1 .. Half - 2 /\ k + n \in -1 .. Half - 2 /\ j > k + n
      BY <1>0, <1>4, <2>13, <2>14
    <3> QED
      BY <2>12, <3>1, Window
  <2>16. t \in rest
    BY <1>10, <2>9, <2>12, <2>13
  <2> QED
    BY <2>11, <2>15, <2>16
<1>13. rest \subseteq From(a, k + n)
  BY <1>10 DEF From, Above
<1> QED
  BY <1>4, <1>7, <1>8, <1>11, <1>12, <1>13 DEF last

(***************************************************************************)
(* The gaps of a SACK                                                      *)
(***************************************************************************)

\* The TSNs of a gap are consecutive numbers, because nothing comes before "0".
LEMMA GapIsRun ==
    ASSUME NEW S \in SUBSET TSN, IsFiniteSet(S),
           NEW i \in 1 .. Cardinality(S), NEW j \in i .. Cardinality(S),
           IsGap(Sorted(S), Cardinality(S), i, j)
    PROVE  /\ Sorted(S)[i] <= Sorted(S)[j]
           /\ Sorted(S)[i] .. Sorted(S)[j] \subseteq S
<1> DEFINE N == Cardinality(S)
           order == Sorted(S)
           T == {d \in Nat : i + d <= j /\ order[i + d] # order[i] + d}
<1>1. /\ N \in Nat
      /\ \A m \in 1 .. N : order[m] \in S
      /\ \A l, m \in 1 .. N : l < m <=> StringBefore(order[l], order[m])
  BY SortedIs
<1>2. i \in Nat /\ j \in Nat /\ 1 <= i /\ i <= j /\ j <= N
  BY <1>1
<1>3. \A m \in i + 1 .. j : ~Opens(order, m)
  BY DEF IsGap
<1>4. TSN \subseteq Int /\ \A t \in TSN : t + 1 \in TSN \/ t = Modulo - 1
  BY HalfAssumption, SMT DEF TSN, Modulo
<1>5. T = {}
  <2>1. ASSUME T # {} PROVE FALSE
    <3>1. PICK d \in T : \A m \in T : d <= m
      <4>1. T \in SUBSET Nat
        OBVIOUS
      <4> HIDE DEF T
      <4> QED
        BY <2>1, <4>1, Least
    <3>2. d \in Nat /\ i + d <= j /\ order[i + d] # order[i] + d
      OBVIOUS
    <3>3. d # 0
      <4>1. i \in 1 .. N /\ i + 0 = i
        BY <1>2
      <4>2. order[i] \in Int
        BY <1>1, <1>4, <4>1
      <4> QED
        BY <3>2, <4>1, <4>2
    <3>4. d - 1 \in Nat /\ i + (d - 1) <= j /\ i + d \in i + 1 .. j
      BY <1>2, <3>2, <3>3
    <3>5. order[i + (d - 1)] = order[i] + (d - 1)
      <4>1. d - 1 \notin T
        BY <3>1, <3>2
      <4> QED
        BY <3>4, <4>1
    <3> DEFINE l == i + (d - 1)
               m == i + d
    <3>6. l \in 1 .. N /\ m \in 1 .. N /\ l < m /\ m - 1 = l
      BY <1>1, <1>2, <3>2, <3>4
    <3>7. order[m] = tsnPlusOne(order[l])
      BY <1>3, <3>4, <3>6 DEF Opens
    <3>8. order[l] \in TSN /\ order[m] \in TSN /\ StringBefore(order[l], order[m])
      BY <1>1, <3>6
    <3>9. order[m] # 0
      BY <3>8, StringOrder
    <3>10. order[m] = order[l] + 1
      <4>1. CASE order[l] + 1 \in TSN
        BY <3>7, <4>1, RemainderInRange DEF tsnPlusOne
      <4>2. CASE order[l] = Modulo - 1
        <5>1. order[l] + 1 = Modulo
          BY <4>2, HalfAssumption, SMT DEF Modulo
        <5>2. order[m] = 0
          BY <3>7, <5>1, RemainderInRange DEF tsnPlusOne
        <5> QED
          BY <3>9, <5>2
      <4> QED
        BY <1>4, <3>8, <4>1, <4>2
    <3>11. order[i] \in Int
      <4>1. i \in 1 .. N
        BY <1>2
      <4> QED
        BY <1>1, <1>4, <4>1
    <3>12. order[m] = order[i] + d
      BY <3>2, <3>5, <3>10, <3>11
    <3> QED
      BY <3>2, <3>12
  <2> QED
    BY <2>1
<1>6. \A d \in 0 .. j - i : order[i + d] = order[i] + d
  <2> SUFFICES ASSUME NEW d \in 0 .. j - i
               PROVE  order[i + d] = order[i] + d
    OBVIOUS
  <2>1. d \in Nat /\ i + d <= j
    BY <1>2
  <2>2. d \notin T
    BY <1>5
  <2> QED
    BY <2>1, <2>2
<1>7. order[i] \in Int
  <2>1. i \in 1 .. N
    BY <1>2
  <2> QED
    BY <1>1, <1>4, <2>1
<1>8. order[j] = order[i] + (j - i)
  <2>1. j - i \in 0 .. j - i /\ i + (j - i) = j
    BY <1>2
  <2> QED
    BY <1>6, <2>1
<1>9. ASSUME NEW x \in order[i] .. order[j]
      PROVE  x \in S
  <2>1. x - order[i] \in 0 .. j - i /\ x = order[i] + (x - order[i])
    BY <1>2, <1>7, <1>8
  <2>2. order[i + (x - order[i])] = x
    BY <1>6, <2>1
  <2>3. i + (x - order[i]) \in 1 .. N
    BY <1>1, <1>2, <1>7, <2>1
  <2> QED
    BY <1>1, <2>2, <2>3
<1> QED
  BY <1>2, <1>7, <1>8, <1>9

\* An offset is the difference, for the remainder keeps its sign.
LEMMA OffsetIs ==
    \A t, last \in TSN : Offset(t, last) = t - last
<1> SUFFICES ASSUME NEW t \in TSN, NEW last \in TSN
             PROVE  Offset(t, last) = t - last
  OBVIOUS
<1>1. Modulo \in Nat \ {0} /\ t \in 0 .. Modulo - 1 /\ last \in 0 .. Modulo - 1
  BY HalfAssumption, SMT DEF Modulo, TSN
<1>2. CASE t >= last
  <2>1. t - last \in TSN
    BY <1>1, <1>2 DEF TSN
  <2> QED
    BY <2>1, RemainderInRange DEF Offset
<1>3. CASE t < last
  <2> DEFINE d == last - t
  <2>1. d \in TSN /\ d > 0 /\ t - last = -d
    BY <1>1, <1>3 DEF TSN
  <2>2. JsRem(d) = d
    BY <2>1, RemainderInRange
  <2> HIDE DEF d
  <2>3. d \in Int
    BY <1>1, <2>1 DEF TSN
  <2>4. d % Modulo = d
    BY <2>1, <2>2, <2>3 DEF JsRem
  <2>5. JsRem(-d) = -d
    <3>1. ~(-d >= 0) /\ -(-d) = d
      BY <2>1, <2>3
    <3> QED
      BY <2>4, <3>1 DEF JsRem
  <2> QED
    BY <2>1, <2>5 DEF Offset
<1> QED
  BY <1>1, <1>2, <1>3

\* What the gaps of a SACK cover is kept, or is the cumulative TSN itself: a TSN that has
\* wrapped around has a negative offset, which is packed as 0.
LEMMA GapsAreKept ==
    ASSUME MaxSends <= MaxGap, NEW a \in TSN \ {0}, NEW k \in 0 .. MaxSends,
           NEW S \in SUBSET From(a, k),
           NEW g \in Gaps(Nth(a, k - 1), S), NEW d \in g.start .. g.end
    PROVE  JsRem(Nth(a, k - 1) + d) \in S \cup {Nth(a, k - 1)}
<1> DEFINE last == Nth(a, k - 1)
           N == Cardinality(S)
           order == Sorted(S)
<1>0. /\ MaxSends \in Nat /\ MaxSends < Half /\ Half \in Nat /\ Modulo = 2 * Half
      /\ MaxGap \in Nat
  BY HalfAssumption, SendsAssumption, SMT DEF Modulo
<1>1. S \subseteq TSN /\ IsFiniteSet(S) /\ N \in 0 .. MaxSends - k
  BY FromIsFinite
<1>2. PICK i \in 1 .. N, j \in 1 .. N :
         /\ i <= j
         /\ IsGap(order, N, i, j)
         /\ g = [start |-> Pack(order[i], last), end |-> Pack(order[j], last)]
  BY DEF Gaps
<1> DEFINE first == order[i]
           final == order[j]
<1>3. first <= final /\ first .. final \subseteq S
  <2>1. j \in i .. N
    BY <1>1, <1>2
  <2> QED
    BY <1>1, <1>2, <2>1, GapIsRun
<1>4. first \in S /\ final \in S
  BY <1>1, SortedIs
<1>5. /\ \A m \in -1 .. MaxSends - 1 :
            Nth(a, m) = IF a + m < Modulo THEN a + m ELSE a + m - Modulo
      /\ last \in TSN
  <2>1. \A m \in -1 .. MaxSends - 1 : m \in -1 .. Modulo - 2
    BY <1>0
  <2>2. k - 1 \in -1 .. Modulo - 2
    BY <1>0
  <2> QED
    BY <2>1, <2>2, Window
<1>6. a \in 1 .. Modulo - 1
  BY <1>0 DEF TSN
<1>7. ASSUME NEW t \in S
      PROVE  t # last /\ (t > last => t - last <= MaxSends)
  <2>1. PICK m \in k .. MaxSends - 1 : t = Nth(a, m)
    BY DEF From
  <2>2. m \in -1 .. MaxSends - 1 /\ k - 1 \in -1 .. MaxSends - 1 /\ m > k - 1
    BY <1>0
  <2>3. /\ t = IF a + m < Modulo THEN a + m ELSE a + m - Modulo
        /\ last = IF a + (k - 1) < Modulo THEN a + (k - 1) ELSE a + (k - 1) - Modulo
    BY <1>5, <2>1, <2>2
  <2> QED
    BY <1>0, <1>6, <2>2, <2>3
<1>8. g.start = Clamp(first - last, MaxGap) /\ g.end = Clamp(final - last, MaxGap)
  <2>1. Offset(first, last) = first - last /\ Offset(final, last) = final - last
    BY <1>1, <1>4, <1>5, OffsetIs
  <2> QED
    BY <1>2, <2>1 DEF Pack
<1> HIDE DEF last, first, final, N, order
<1>9. last \in 0 .. Modulo - 1 /\ first \in 0 .. Modulo - 1 /\ final \in 0 .. Modulo - 1
  BY <1>1, <1>4, <1>5 DEF TSN
<1>10. CASE first > last
  <2>1. g.start = first - last /\ g.end = final - last
    BY <1>0, <1>3, <1>4, <1>7, <1>8, <1>9, <1>10 DEF Clamp
  <2>2. last + d \in first .. final
    BY <1>9, <2>1
  <2>3. last + d \in S
    BY <1>3, <2>2
  <2>4. JsRem(last + d) = last + d
    BY <1>1, <2>3, RemainderInRange
  <2> QED
    BY <2>3, <2>4 DEF last
<1>11. CASE first < last
  <2>1. final < last
    <3>1. ASSUME final >= last PROVE FALSE
      <4>1. last \in first .. final
        BY <1>9, <1>11, <3>1
      <4>2. last \in S
        BY <1>3, <4>1
      <4> QED
        BY <1>7, <4>2
    <3> QED
      BY <1>9, <3>1
  <2>2. g.start = 0 /\ g.end = 0
    BY <1>8, <1>9, <1>11, <2>1 DEF Clamp
  <2>3. last + d = last
    BY <1>9, <2>2
  <2>4. JsRem(last + d) = last
    BY <1>5, <2>3, RemainderInRange
  <2> QED
    BY <2>4 DEF last
<1>12. first # last
  BY <1>4, <1>7
<1> QED
  BY <1>9, <1>10, <1>11, <1>12

(***************************************************************************)
(* What the receiver keeps                                                 *)
(***************************************************************************)

\* The cumulative TSN is the one before the k-th of the window.
Placed(a, k, last, kept, ever) ==
    /\ last = Nth(a, k - 1)
    /\ kept \subseteq From(a, k)
    /\ \A i \in 0 .. k - 1 : Nth(a, i) \in ever

\* The three last parts of IInv, of any state.
Tracked(a, last, kept, arrived, ever) ==
    /\ \E k \in 0 .. MaxSends : Placed(a, k, last, kept, ever)
    /\ \A t \in arrived : uint32Gte(last, t) \/ t \in kept
    /\ (\A x, y \in kept : uint32Gt(y, x) => StringBefore(x, y)) =>
          tsnPlusOne(last) \notin kept

\* The bounds that the window lemmas are used with.
LEMMA Bounds ==
    /\ Half \in Nat /\ Modulo = 2 * Half /\ Modulo \in Nat
    /\ MaxSends \in Nat /\ 1 <= MaxSends /\ MaxSends < Half
    /\ MaxGap \in Nat
    /\ InitialTsns \subseteq TSN \ {0}
BY HalfAssumption, SendsAssumption, SMT DEF Modulo

\* At or above is the order of the positions, and each TSN has one position.
LEMMA AtOrAbove ==
    ASSUME NEW a \in TSN \ {0}, NEW i \in -1 .. MaxSends - 1, NEW j \in -1 .. MaxSends - 1
    PROVE  /\ uint32Gte(Nth(a, i), Nth(a, j)) <=> i >= j
           /\ uint32Gt(Nth(a, i), Nth(a, j)) <=> i > j
           /\ Nth(a, i) = Nth(a, j) => i = j
           /\ Nth(a, i) \in TSN
           /\ tsnPlusOne(Nth(a, i)) = Nth(a, i + 1)
<1>1. i \in -1 .. Half - 2 /\ j \in -1 .. Half - 2
  BY Bounds
<1>2. i \in -1 .. Modulo - 2 /\ j \in -1 .. Modulo - 2 /\ 1 \in Nat /\ i + 1 <= Modulo - 2
  BY Bounds
<1>3. uint32Gt(Nth(a, i), Nth(a, j)) <=> i > j
  BY <1>1, Window
<1>4. Nth(a, i) = Nth(a, j) => i = j
  BY <1>2, Window
<1>5. Nth(a, i) \in TSN
  BY <1>2, Window
<1>6. JsRem(Nth(a, i) + 1) = Nth(a, i + 1)
  BY <1>2, Window
<1> QED
  BY <1>1, <1>3, <1>4, <1>5, <1>6 DEF uint32Gte, tsnPlusOne

\* After the loop and the filter everything that arrived is tracked.
LEMMA LoopTracks ==
    ASSUME NEW a \in TSN \ {0}, NEW k \in 0 .. MaxSends, NEW S \in SUBSET From(a, k),
           NEW arrived \in SUBSET From(a, 0), NEW ever, S \subseteq ever,
           \A i \in 0 .. k - 1 : Nth(a, i) \in ever,
           \A t \in arrived : uint32Gte(Nth(a, k - 1), t) \/ t \in S
    PROVE  LET last == Advance(Nth(a, k - 1), S)
           IN  Tracked(a, last, Above(last, S), arrived, ever)
<1> DEFINE last == Advance(Nth(a, k - 1), S)
           rest == Above(last, S)
<1>1. PICK n \in 0 .. MaxSends - k :
         /\ last = Nth(a, k + n - 1)
         /\ \A i \in k .. k + n - 1 : Nth(a, i) \in S
         /\ rest \subseteq From(a, k + n)
         /\ \A t \in S \ rest : uint32Gte(last, t)
         /\ Nth(a, k + n) \in rest =>
               \E t \in rest : /\ uint32Gt(t, Nth(a, k + n))
                               /\ ~StringBefore(Nth(a, k + n), t)
  BY AdvanceIs
<1> HIDE DEF last, rest
<1>2. k + n \in 0 .. MaxSends /\ k + n - 1 \in -1 .. MaxSends - 1
      /\ k - 1 \in -1 .. MaxSends - 1 /\ k + n - 1 >= k - 1 /\ (k + n - 1) + 1 = k + n
  BY Bounds
<1>3. Placed(a, k + n, last, rest, ever)
  <2>1. ASSUME NEW i \in 0 .. k + n - 1
        PROVE  Nth(a, i) \in ever
    <3>1. i \in 0 .. k - 1 \/ i \in k .. k + n - 1
      BY <1>2
    <3> QED
      BY <1>1, <3>1
  <2> QED
    BY <1>1, <2>1 DEF Placed
<1>4. ASSUME NEW t \in arrived
      PROVE  uint32Gte(last, t) \/ t \in rest
  <2>1. CASE t \in S
    BY <1>1, <2>1
  <2>2. CASE uint32Gte(Nth(a, k - 1), t)
    <3>1. PICK i \in 0 .. MaxSends - 1 : t = Nth(a, i)
      BY DEF From
    <3>2. i \in -1 .. MaxSends - 1
      BY Bounds
    <3>3. k - 1 >= i
      BY <1>2, <2>2, <3>1, <3>2, AtOrAbove
    <3>4. k + n - 1 >= i
      BY <1>2, <3>2, <3>3
    <3> QED
      BY <1>1, <1>2, <3>1, <3>2, <3>4, AtOrAbove
  <2> QED
    BY <2>1, <2>2
<1>5. tsnPlusOne(last) = Nth(a, k + n)
  BY <1>1, <1>2, AtOrAbove
<1>6. ASSUME \A x, y \in rest : uint32Gt(y, x) => StringBefore(x, y)
      PROVE  tsnPlusOne(last) \notin rest
  BY <1>1, <1>5, <1>6
<1> QED
  BY <1>2, <1>3, <1>4, <1>6 DEF Tracked, last, rest

\* IInv in terms of Tracked.
LEMMA IInvIsTracked ==
    IInv <=> /\ TypeOK
             /\ SentInOrder
             /\ KnownWereSent
             /\ Tracked(initialTsn, lastReceivedTsn, sackMisOrdered, received, everReceived)
BY DEF IInv, CumulativeInWindow, ArrivalsAreKept, NoLagInDecimalOrder, OrderAgrees,
       Tracked, Placed

LEMMA IInvIsTrackedNext ==
    /\ TypeOK'
    /\ SentInOrder'
    /\ KnownWereSent'
    /\ Tracked(initialTsn', lastReceivedTsn', sackMisOrdered', received', everReceived')
    => IInv'
BY DEF IInv, CumulativeInWindow, ArrivalsAreKept, NoLagInDecimalOrder, OrderAgrees,
       Tracked, Placed, From, Nth

\* The TSNs sent are TSNs of the window.
LEMMA SentInWindow ==
    ASSUME TypeOK, SentInOrder
    PROVE  /\ initialTsn \in TSN \ {0}
           /\ sent \subseteq From(initialTsn, 0)
           /\ IsFiniteSet(sent)
           /\ Cardinality(sent) \in 0 .. MaxSends
<1>1. initialTsn \in TSN \ {0}
  BY Bounds DEF TypeOK
<1>2. Cardinality(sent) \in 0 .. MaxSends
  BY DEF SentInOrder
<1>3. \A i \in 0 .. Cardinality(sent) - 1 : i \in 0 .. MaxSends - 1
  BY <1>2, Bounds
<1>4. sent \subseteq From(initialTsn, 0)
  BY <1>3 DEF SentInOrder, From
<1>5. 0 \in 0 .. MaxSends
  BY Bounds
<1> QED
  BY <1>1, <1>2, <1>4, <1>5, FromIsFinite

(***************************************************************************)
(* The inductive invariant                                                 *)
(***************************************************************************)

\* What a SACK carries fits its fields.
LEMMA SackIsSack ==
    ASSUME NEW a \in TSN \ {0}, NEW k \in 0 .. MaxSends, NEW S \in SUBSET From(a, k)
    PROVE  [cumulativeTsn |-> Clamp(Nth(a, k - 1), Modulo - 1),
            gaps |-> Gaps(Nth(a, k - 1), S)] \in Sack
<1> DEFINE last == Nth(a, k - 1)
           N == Cardinality(S)
<1>1. S \subseteq TSN /\ IsFiniteSet(S) /\ N \in Nat
  BY FromIsFinite
<1>2. k - 1 \in -1 .. MaxSends - 1
  BY Bounds
<1>3. last \in TSN
  BY <1>2, AtOrAbove
<1>4. Clamp(last, Modulo - 1) \in TSN
  BY <1>3, Bounds DEF Clamp, TSN
<1>5. ASSUME NEW i \in 1 .. N
      PROVE  Pack(Sorted(S)[i], last) \in 0 .. MaxGap
  <2>1. Sorted(S)[i] \in TSN
    BY <1>1, SortedIs
  <2>2. Offset(Sorted(S)[i], last) \in Int
    <3>1. Offset(Sorted(S)[i], last) = Sorted(S)[i] - last
      BY <1>3, <2>1, OffsetIs
    <3> QED
      BY <1>3, <2>1, <3>1, Bounds DEF TSN
  <2> QED
    BY <2>2, Bounds DEF Pack, Clamp
<1>6. Gaps(last, S) \subseteq Gap
  <2> HIDE DEF last
  <2> SUFFICES ASSUME NEW g \in Gaps(last, S)
               PROVE  g \in Gap
    OBVIOUS
  <2>1. PICK i \in 1 .. N, j \in 1 .. N :
           g = [start |-> Pack(Sorted(S)[i], last), end |-> Pack(Sorted(S)[j], last)]
    <3>1. \A i \in 1 .. N : i .. N \subseteq 1 .. N
      BY <1>1
    <3> QED
      BY <3>1 DEF Gaps
  <2> QED
    BY <1>5, <2>1 DEF Gap
<1> QED
  BY <1>4, <1>6 DEF Sack

\* A state that tracks its arrivals can send a SACK.
LEMMA TrackedSack ==
    ASSUME NEW a \in TSN \ {0}, NEW last, NEW kept, NEW arrived, NEW ever,
           Tracked(a, last, kept, arrived, ever)
    PROVE  /\ last \in TSN
           /\ kept \subseteq TSN
           /\ [cumulativeTsn |-> Clamp(last, Modulo - 1), gaps |-> Gaps(last, kept)] \in Sack
<1>1. PICK k \in 0 .. MaxSends : Placed(a, k, last, kept, ever)
  BY DEF Tracked
<1>2. last = Nth(a, k - 1) /\ kept \in SUBSET From(a, k) /\ k - 1 \in -1 .. MaxSends - 1
  BY <1>1, Bounds DEF Placed
<1>3. last \in TSN
  BY <1>2, AtOrAbove
<1>4. kept \subseteq TSN
  BY <1>2, FromIsFinite
<1> QED
  BY <1>2, <1>3, <1>4, SackIsSack

\* The receiver starts below the first TSN.
LEMMA InitHolds == Init => IInv
<1> SUFFICES ASSUME Init
             PROVE  IInv
  OBVIOUS
<1>1. initialTsn \in TSN \ {0} /\ initialTsn \in Int
  BY Bounds DEF Init, TSN
<1>2. /\ 0 \in 0 .. MaxSends
      /\ -1 \in -1 .. MaxSends - 1
      /\ 0 \in -1 .. MaxSends - 1
  BY Bounds
<1>3. lastReceivedTsn = Nth(initialTsn, -1)
  <2>1. initialTsn - 1 = initialTsn + (-1)
    BY <1>1
  <2> QED
    BY <2>1 DEF Init, tsnMinusOne, Nth
<1>4. localTsn = Nth(initialTsn, 0)
  <2>1. initialTsn + 0 = initialTsn
    BY <1>1
  <2> QED
    BY <1>1, <2>1, RemainderInRange DEF Init, Nth
<1>5. lastReceivedTsn \in TSN /\ localTsn \in TSN
  BY <1>1, <1>2, <1>3, <1>4, AtOrAbove
<1>6. SentInOrder
  <2>1. Cardinality(sent) = 0
    BY FS_EmptySet DEF Init
  <2>2. \A i : i \notin 0 .. 0 - 1
    OBVIOUS
  <2> QED
    BY <1>2, <1>4, <2>1, <2>2 DEF SentInOrder, Init
<1>7. KnownWereSent
  BY DEF Init, KnownWereSent
<1>8. Tracked(initialTsn, lastReceivedTsn, sackMisOrdered, received, everReceived)
  <2>1. Placed(initialTsn, 0, lastReceivedTsn, sackMisOrdered, everReceived)
    <3>1. 0 - 1 = -1 /\ \A i : i \notin 0 .. -1
      OBVIOUS
    <3> QED
      BY <1>3, <3>1 DEF Placed, Init
  <2> QED
    BY <1>2, <2>1 DEF Tracked, Init
<1>9. TypeOK
  <2>1. Clamp(lastReceivedTsn, Modulo - 1) \in TSN
    BY <1>5, Bounds DEF Clamp, TSN
  <2>2. sack \in Sack
    BY <2>1 DEF Init, Sack
  <2> QED
    BY <1>5, <2>2 DEF Init, TypeOK
<1> QED
  BY <1>6, <1>7, <1>8, <1>9, IInvIsTracked

\* Sending takes the next position.
LEMMA SendDataHolds == IInv /\ SendData => IInv'
<1> SUFFICES ASSUME IInv, SendData
             PROVE  IInv'
  OBVIOUS
<1> USE DEF SendData
<1> DEFINE n == Cardinality(sent)
<1>1. /\ TypeOK /\ SentInOrder /\ KnownWereSent
      /\ Tracked(initialTsn, lastReceivedTsn, sackMisOrdered, received, everReceived)
  BY IInvIsTracked
<1>2. /\ initialTsn \in TSN \ {0}
      /\ IsFiniteSet(sent)
      /\ n \in 0 .. MaxSends
  BY <1>1, SentInWindow
<1>3. n \in -1 .. MaxSends - 1 /\ n + 1 \in 0 .. MaxSends
  BY <1>2, Bounds
<1>4. localTsn = Nth(initialTsn, n) /\ sent = {Nth(initialTsn, i) : i \in 0 .. n - 1}
  BY <1>1 DEF SentInOrder
<1>5. localTsn' = Nth(initialTsn, n + 1) /\ localTsn' \in TSN
  <2>1. n + 1 \in -1 .. Modulo - 2
    BY <1>3, Bounds
  <2>2. localTsn' = Nth(initialTsn, n + 1)
    BY <1>2, <1>3, <1>4, AtOrAbove
  <2> QED
    BY <1>2, <2>1, <2>2, Window
<1>6. localTsn \notin sent
  <2> SUFFICES ASSUME NEW i \in 0 .. n - 1, Nth(initialTsn, n) = Nth(initialTsn, i)
               PROVE  FALSE
    BY <1>4
  <2> HIDE DEF n
  <2>1. i \in -1 .. MaxSends - 1
    BY <1>2, <1>3, Bounds
  <2>2. n = i
    BY <1>2, <1>3, <2>1, AtOrAbove
  <2> QED
    BY <1>3, <2>2
<1>7. Cardinality(sent') = n + 1
  BY <1>2, <1>6, FS_AddElement
<1>8. SentInOrder'
  <2>1. 0 .. (n + 1) - 1 = (0 .. n - 1) \cup {n}
    <3> HIDE DEF n
    <3> QED
      BY <1>2, <1>3, Bounds
  <2>2. sent' = {Nth(initialTsn, i) : i \in 0 .. (n + 1) - 1}
    BY <1>4, <2>1
  <2> QED
    BY <1>3, <1>5, <1>7, <2>2 DEF SentInOrder, Nth
<1>9. KnownWereSent'
  BY <1>1 DEF KnownWereSent
<1>10. TypeOK'
  BY <1>1, <1>5 DEF TypeOK
<1>11. Tracked(initialTsn', lastReceivedTsn', sackMisOrdered', received', everReceived')
  BY <1>1
<1> QED
  BY <1>8, <1>9, <1>10, <1>11, IInvIsTrackedNext

\* Giving up a chunk that was sent.
LEMMA ForwardTsnHolds == IInv /\ ForwardTsn => IInv'
<1> SUFFICES ASSUME IInv, ForwardTsn
             PROVE  IInv'
  OBVIOUS
<1>1. /\ TypeOK /\ SentInOrder /\ KnownWereSent
      /\ Tracked(initialTsn, lastReceivedTsn, sackMisOrdered, received, everReceived)
  BY IInvIsTracked
<1>2. TypeOK'
  BY <1>1 DEF TypeOK, ForwardTsn
<1>3. SentInOrder'
  BY <1>1 DEF SentInOrder, ForwardTsn, Nth
<1>4. KnownWereSent'
  BY <1>1 DEF KnownWereSent, ForwardTsn
<1>5. Tracked(initialTsn', lastReceivedTsn', sackMisOrdered', received', everReceived')
  BY <1>1 DEF ForwardTsn
<1> QED
  BY <1>2, <1>3, <1>4, <1>5, IInvIsTrackedNext

\* A state from which a SACK may leave.
LEMMA SendsSack ==
    ASSUME TypeOK, SentInOrder', KnownWereSent', initialTsn' \in InitialTsns,
           localTsn' \in TSN, sent' \subseteq TSN,
           Tracked(initialTsn', lastReceivedTsn', sackMisOrdered', received', everReceived'),
           SendSack \/ (sackNeeded' \in BOOLEAN /\ UNCHANGED sack)
    PROVE  IInv'
<1>1. initialTsn' \in TSN \ {0}
  BY Bounds
<1>2. /\ lastReceivedTsn' \in TSN
      /\ sackMisOrdered' \subseteq TSN
      /\ [cumulativeTsn |-> Clamp(lastReceivedTsn', Modulo - 1),
          gaps |-> Gaps(lastReceivedTsn', sackMisOrdered')] \in Sack
  BY <1>1, TrackedSack
<1>3. sack' \in Sack /\ sackNeeded' \in BOOLEAN
  BY <1>2 DEF SendSack, TypeOK
<1>4. TypeOK'
  BY <1>2, <1>3 DEF TypeOK, KnownWereSent
<1> QED
  BY <1>4, IInvIsTrackedNext

\* A data chunk that arrives is a duplicate, or goes through the loop with those kept.
LEMMA ReceiveDataHolds == IInv /\ ReceiveData => IInv'
<1> SUFFICES ASSUME IInv, ReceiveData
             PROVE  IInv'
  OBVIOUS
<1>1. /\ TypeOK /\ SentInOrder /\ KnownWereSent
      /\ Tracked(initialTsn, lastReceivedTsn, sackMisOrdered, received, everReceived)
  BY IInvIsTracked
<1>2. initialTsn \in TSN \ {0} /\ sent \subseteq From(initialTsn, 0)
  BY <1>1, SentInWindow
<1>3. PICK tsn \in sent :
         /\ IF IsDuplicate(tsn)
            THEN UNCHANGED <<lastReceivedTsn, sackMisOrdered>>
            ELSE /\ lastReceivedTsn' = Advance(lastReceivedTsn, sackMisOrdered \cup {tsn})
                 /\ sackMisOrdered' = Above(lastReceivedTsn', sackMisOrdered \cup {tsn})
         /\ SendSack \/ (sackNeeded' = TRUE /\ UNCHANGED sack)
         /\ received' = received \cup {tsn}
         /\ everReceived' = everReceived \cup {tsn}
  BY DEF ReceiveData
<1>4. UNCHANGED <<initialTsn, localTsn, sent, forwarded>>
  BY DEF ReceiveData
<1>5. PICK k \in 0 .. MaxSends :
         Placed(initialTsn, k, lastReceivedTsn, sackMisOrdered, everReceived)
  BY <1>1 DEF Tracked
<1>6. /\ lastReceivedTsn = Nth(initialTsn, k - 1)
      /\ sackMisOrdered \subseteq From(initialTsn, k)
      /\ \A i \in 0 .. k - 1 : Nth(initialTsn, i) \in everReceived
  BY <1>5 DEF Placed
<1>7. \A t \in received : uint32Gte(lastReceivedTsn, t) \/ t \in sackMisOrdered
  BY <1>1 DEF Tracked
<1>8. Tracked(initialTsn, lastReceivedTsn', sackMisOrdered', received', everReceived')
  <2>1. CASE IsDuplicate(tsn)
    <3>1. lastReceivedTsn' = lastReceivedTsn /\ sackMisOrdered' = sackMisOrdered
      BY <1>3, <2>1
    <3>2. Placed(initialTsn, k, lastReceivedTsn', sackMisOrdered', everReceived')
      BY <1>3, <1>6, <3>1 DEF Placed
    <3>3. \A t \in received' : uint32Gte(lastReceivedTsn', t) \/ t \in sackMisOrdered'
      BY <1>3, <1>7, <2>1, <3>1 DEF IsDuplicate
    <3> QED
      BY <1>1, <3>1, <3>2, <3>3 DEF Tracked
  <2>2. CASE ~IsDuplicate(tsn)
    <3> DEFINE S == sackMisOrdered \cup {tsn}
    <3>1. PICK i \in 0 .. MaxSends - 1 : tsn = Nth(initialTsn, i)
      BY <1>2 DEF From
    <3>2. i \in -1 .. MaxSends - 1 /\ k - 1 \in -1 .. MaxSends - 1
      BY Bounds
    <3>3. i >= k
      <4>1. ~(k - 1 >= i)
        BY <1>2, <1>6, <2>2, <3>1, <3>2, AtOrAbove DEF IsDuplicate
      <4> QED
        BY <3>2, <4>1, Bounds
    <3>4. i \in k .. MaxSends - 1
      BY <3>2, <3>3, Bounds
    <3>5. S \in SUBSET From(initialTsn, k)
      BY <1>6, <3>1, <3>4 DEF From
    <3>6. S \subseteq everReceived' /\ \A j \in 0 .. k - 1 : Nth(initialTsn, j) \in everReceived'
      BY <1>1, <1>3, <1>6 DEF KnownWereSent
    <3>7. received' \in SUBSET From(initialTsn, 0)
      BY <1>1, <1>2, <1>3 DEF KnownWereSent
    <3>8. \A t \in received' : uint32Gte(Nth(initialTsn, k - 1), t) \/ t \in S
      BY <1>3, <1>6, <1>7
    <3>9. /\ lastReceivedTsn' = Advance(Nth(initialTsn, k - 1), S)
          /\ sackMisOrdered' = Above(lastReceivedTsn', S)
      BY <1>3, <1>6, <2>2
    <3> HIDE DEF S
    <3> QED
      BY <1>2, <3>5, <3>6, <3>7, <3>8, <3>9, LoopTracks
  <2> QED
    BY <2>1, <2>2
<1>9. SentInOrder'
  BY <1>1, <1>4 DEF SentInOrder, Nth
<1>10. KnownWereSent'
  <2>1. sackMisOrdered' \subseteq sackMisOrdered \cup {tsn}
    BY <1>3 DEF Above
  <2> QED
    BY <1>1, <1>3, <1>4, <2>1 DEF KnownWereSent
<1> QED
  BY <1>1, <1>3, <1>4, <1>8, <1>9, <1>10, SendsSack DEF TypeOK

\* What a FORWARD-TSN covers is at or below it.
LEMMA UpToIs ==
    ASSUME TypeOK, SentInOrder, NEW p \in 0 .. Cardinality(sent) - 1
    PROVE  /\ UpTo(Nth(initialTsn, p)) \subseteq sent
           /\ \A i \in 0 .. p : Nth(initialTsn, i) \in UpTo(Nth(initialTsn, p))
           /\ \A j \in p .. MaxSends - 1 : \A t \in UpTo(Nth(initialTsn, p)) :
                 uint32Gte(Nth(initialTsn, j), t)
<1> DEFINE n == Cardinality(sent)
<1>1. initialTsn \in TSN \ {0} /\ n \in 0 .. MaxSends
  BY SentInWindow
<1>2. sent = {Nth(initialTsn, i) : i \in 0 .. n - 1}
  BY DEF SentInOrder
<1> HIDE DEF n
<1>3. \A i \in 0 .. n - 1 : i \in -1 .. MaxSends - 1
  BY <1>1, Bounds
<1>4. p \in 0 .. n - 1 /\ p \in Int
  BY DEF n
<1>5. ASSUME NEW i \in 0 .. p
      PROVE  Nth(initialTsn, i) \in UpTo(Nth(initialTsn, p))
  <2>1. i \in 0 .. n - 1 /\ p >= i
    BY <1>1, <1>4, Bounds
  <2>2. Nth(initialTsn, i) \in sent
    BY <1>2, <2>1
  <2>3. uint32Gte(Nth(initialTsn, p), Nth(initialTsn, i))
    BY <1>1, <1>3, <1>4, <2>1, AtOrAbove
  <2> QED
    BY <2>2, <2>3 DEF UpTo
<1>6. ASSUME NEW j \in p .. MaxSends - 1, NEW t \in UpTo(Nth(initialTsn, p))
      PROVE  uint32Gte(Nth(initialTsn, j), t)
  <2>1. PICK i \in 0 .. n - 1 : t = Nth(initialTsn, i)
    BY <1>2 DEF UpTo
  <2>2. uint32Gte(Nth(initialTsn, p), Nth(initialTsn, i))
    BY <2>1 DEF UpTo
  <2>3. p >= i
    BY <1>1, <1>3, <1>4, <2>2, AtOrAbove
  <2>4. j \in -1 .. MaxSends - 1 /\ j >= i
    BY <1>1, <1>4, <2>3, Bounds
  <2> QED
    BY <1>1, <1>3, <2>1, <2>4, AtOrAbove
<1> QED
  BY <1>5, <1>6 DEF UpTo

\* A FORWARD-TSN moves the cumulative TSN to a position where everything before it was
\* given up, and the loop goes on from there.
LEMMA ReceiveForwardTsnHolds == IInv /\ ReceiveForwardTsn => IInv'
<1> SUFFICES ASSUME IInv, ReceiveForwardTsn
             PROVE  IInv'
  OBVIOUS
<1>1. /\ TypeOK /\ SentInOrder /\ KnownWereSent
      /\ Tracked(initialTsn, lastReceivedTsn, sackMisOrdered, received, everReceived)
  BY IInvIsTracked
<1>2. /\ initialTsn \in TSN \ {0}
      /\ sent \subseteq From(initialTsn, 0)
      /\ Cardinality(sent) \in 0 .. MaxSends
  BY <1>1, SentInWindow
<1>3. PICK cumulative \in forwarded :
         /\ IF uint32Gte(lastReceivedTsn, cumulative)
            THEN UNCHANGED <<lastReceivedTsn, sackMisOrdered>>
            ELSE LET kept == Above(cumulative, sackMisOrdered)
                 IN  /\ lastReceivedTsn' = Advance(cumulative, kept)
                     /\ sackMisOrdered' = Above(lastReceivedTsn', kept)
         /\ SendSack
         /\ received' = received \cup UpTo(cumulative)
         /\ everReceived' = everReceived \cup UpTo(cumulative)
  BY DEF ReceiveForwardTsn
<1>4. UNCHANGED <<initialTsn, localTsn, sent, forwarded>>
  BY DEF ReceiveForwardTsn
<1>5. PICK k \in 0 .. MaxSends :
         Placed(initialTsn, k, lastReceivedTsn, sackMisOrdered, everReceived)
  BY <1>1 DEF Tracked
<1>6. /\ lastReceivedTsn = Nth(initialTsn, k - 1)
      /\ sackMisOrdered \subseteq From(initialTsn, k)
      /\ \A i \in 0 .. k - 1 : Nth(initialTsn, i) \in everReceived
  BY <1>5 DEF Placed
<1>7. \A t \in received : uint32Gte(lastReceivedTsn, t) \/ t \in sackMisOrdered
  BY <1>1 DEF Tracked
<1>8. PICK p \in 0 .. Cardinality(sent) - 1 : cumulative = Nth(initialTsn, p)
  BY <1>1 DEF SentInOrder, KnownWereSent
<1>9. /\ UpTo(cumulative) \subseteq sent
      /\ \A i \in 0 .. p : Nth(initialTsn, i) \in UpTo(cumulative)
      /\ \A j \in p .. MaxSends - 1 : \A t \in UpTo(cumulative) :
            uint32Gte(Nth(initialTsn, j), t)
  BY <1>1, <1>8, UpToIs
<1>10. /\ p \in -1 .. MaxSends - 1 /\ p \in 0 .. MaxSends - 1
       /\ k - 1 \in -1 .. MaxSends - 1
  <2> DEFINE n == Cardinality(sent)
  <2> HIDE DEF n
  <2>1. n \in 0 .. MaxSends /\ p \in 0 .. n - 1
    BY <1>2 DEF n
  <2> QED
    BY <2>1, Bounds
<1>11. received' \in SUBSET From(initialTsn, 0)
  BY <1>1, <1>2, <1>3, <1>9 DEF KnownWereSent
<1>12. Tracked(initialTsn, lastReceivedTsn', sackMisOrdered', received', everReceived')
  <2>1. CASE uint32Gte(lastReceivedTsn, cumulative)
    <3>1. lastReceivedTsn' = lastReceivedTsn /\ sackMisOrdered' = sackMisOrdered
      BY <1>3, <2>1
    <3>2. Placed(initialTsn, k, lastReceivedTsn', sackMisOrdered', everReceived')
      BY <1>3, <1>6, <3>1 DEF Placed
    <3>3. k - 1 \in p .. MaxSends - 1
      <4>1. k - 1 >= p
        BY <1>2, <1>6, <1>8, <1>10, <2>1, AtOrAbove
      <4> QED
        BY <1>10, <4>1, Bounds
    <3>4. \A t \in received' : uint32Gte(lastReceivedTsn', t) \/ t \in sackMisOrdered'
      BY <1>3, <1>6, <1>7, <1>9, <3>1, <3>3
    <3> QED
      BY <1>1, <3>1, <3>2, <3>4 DEF Tracked
  <2>2. CASE ~uint32Gte(lastReceivedTsn, cumulative)
    <3> DEFINE kept == Above(cumulative, sackMisOrdered)
    <3>1. k <= p
      <4>1. ~(k - 1 >= p)
        BY <1>2, <1>6, <1>8, <1>10, <2>2, AtOrAbove
      <4> QED
        BY <1>10, <4>1, Bounds
    <3>2. ASSUME NEW t \in sackMisOrdered
          PROVE  uint32Gte(cumulative, t) \/ (t \in kept /\ t \in From(initialTsn, p + 1))
      <4>1. PICK i \in k .. MaxSends - 1 : t = Nth(initialTsn, i)
        BY <1>6 DEF From
      <4>2. i \in -1 .. MaxSends - 1
        BY <1>10, Bounds
      <4>3. CASE p >= i
        BY <1>2, <1>8, <1>10, <4>1, <4>2, <4>3, AtOrAbove
      <4>4. CASE i > p
        <5>1. i \in p + 1 .. MaxSends - 1
          BY <1>10, <4>2, <4>4, Bounds
        <5>2. uint32Gt(t, cumulative)
          BY <1>2, <1>8, <1>10, <4>1, <4>2, <4>4, AtOrAbove
        <5> QED
          BY <4>1, <5>1, <5>2 DEF Above, From
      <4> QED
        BY <1>10, <4>2, <4>3, <4>4, Bounds
    <3>3. kept \in SUBSET From(initialTsn, p + 1)
      <4> SUFFICES ASSUME NEW t \in sackMisOrdered, uint32Gt(t, cumulative)
                   PROVE  t \in From(initialTsn, p + 1)
        BY DEF Above
      <4>1. PICK i \in k .. MaxSends - 1 : t = Nth(initialTsn, i)
        BY <1>6 DEF From
      <4>2. i \in -1 .. MaxSends - 1
        BY <1>10, Bounds
      <4>3. i > p
        BY <1>2, <1>8, <1>10, <4>1, <4>2, AtOrAbove
      <4>4. i \in p + 1 .. MaxSends - 1
        BY <1>10, <4>2, <4>3, Bounds
      <4> QED
        BY <4>1, <4>4 DEF From
    <3>4. kept \subseteq everReceived'
      BY <1>1, <1>3 DEF Above, KnownWereSent
    <3>5. p + 1 \in 0 .. MaxSends /\ (p + 1) - 1 = p
      BY <1>10, Bounds
    <3>6. \A i \in 0 .. (p + 1) - 1 : Nth(initialTsn, i) \in everReceived'
      BY <1>3, <1>9, <3>5
    <3>7. ASSUME NEW t \in received'
          PROVE  uint32Gte(Nth(initialTsn, (p + 1) - 1), t) \/ t \in kept
      <4>1. CASE t \in UpTo(cumulative)
        <5>1. p \in p .. MaxSends - 1
          BY <1>10, Bounds
        <5> QED
          BY <1>9, <3>5, <4>1, <5>1
      <4>2. CASE t \in sackMisOrdered
        BY <1>8, <3>2, <3>5, <4>2
      <4>3. CASE uint32Gte(lastReceivedTsn, t)
        <5>1. PICK i \in 0 .. MaxSends - 1 : t = Nth(initialTsn, i)
          BY <1>11 DEF From
        <5>2. i \in -1 .. MaxSends - 1
          BY Bounds
        <5>3. k - 1 >= i
          BY <1>2, <1>6, <1>10, <4>3, <5>1, <5>2, AtOrAbove
        <5>4. p >= i
          BY <1>10, <3>1, <5>2, <5>3, Bounds
        <5> QED
          BY <1>2, <1>10, <3>5, <5>1, <5>2, <5>4, AtOrAbove
      <4> QED
        BY <1>3, <1>7, <4>1, <4>2, <4>3
    <3>8. /\ lastReceivedTsn' = Advance(Nth(initialTsn, (p + 1) - 1), kept)
          /\ sackMisOrdered' = Above(lastReceivedTsn', kept)
      BY <1>3, <1>8, <2>2, <3>5
    <3> HIDE DEF kept
    <3> QED
      BY <1>2, <1>11, <3>3, <3>4, <3>5, <3>6, <3>7, <3>8, LoopTracks
  <2> QED
    BY <2>1, <2>2
<1>13. SentInOrder'
  BY <1>1, <1>4 DEF SentInOrder, Nth
<1>14. KnownWereSent'
  <2>1. sackMisOrdered' \subseteq sackMisOrdered
    BY <1>3 DEF Above
  <2> QED
    BY <1>1, <1>3, <1>4, <1>9, <2>1 DEF KnownWereSent
<1> QED
  BY <1>1, <1>3, <1>4, <1>12, <1>13, <1>14, SendsSack DEF TypeOK

\* A repeated INIT puts the cumulative TSN back to the first position, where what is
\* kept is above it.
LEMMA ReceiveInitHolds == IInv /\ ReceiveInit => IInv'
<1> SUFFICES ASSUME IInv, ReceiveInit
             PROVE  IInv'
  OBVIOUS
<1>1. /\ TypeOK /\ SentInOrder /\ KnownWereSent
      /\ Tracked(initialTsn, lastReceivedTsn, sackMisOrdered, received, everReceived)
  BY IInvIsTracked
<1>2. initialTsn \in TSN \ {0} /\ initialTsn \in Int
  BY <1>1, SentInWindow DEF TSN
<1>3. /\ lastReceivedTsn' = tsnMinusOne(initialTsn)
      /\ received' = {}
      /\ UNCHANGED <<initialTsn, localTsn, sent, forwarded, sackMisOrdered, everReceived>>
      /\ IF sackNeeded THEN SendSack ELSE UNCHANGED <<sackNeeded, sack>>
  BY DEF ReceiveInit
<1>4. PICK k \in 0 .. MaxSends :
         Placed(initialTsn, k, lastReceivedTsn, sackMisOrdered, everReceived)
  BY <1>1 DEF Tracked
<1>5. lastReceivedTsn = Nth(initialTsn, k - 1) /\ sackMisOrdered \subseteq From(initialTsn, k)
  BY <1>4 DEF Placed
<1>6. lastReceivedTsn' = Nth(initialTsn, -1)
  <2>1. initialTsn - 1 = initialTsn + (-1)
    BY <1>2
  <2> QED
    BY <1>3, <2>1 DEF tsnMinusOne, Nth
<1>7. Placed(initialTsn, 0, lastReceivedTsn', sackMisOrdered', everReceived')
  <2>1. 0 - 1 = -1 /\ \A i : i \notin 0 .. -1
    OBVIOUS
  <2>2. From(initialTsn, k) \subseteq From(initialTsn, 0)
    <3>1. k .. MaxSends - 1 \subseteq 0 .. MaxSends - 1
      BY Bounds
    <3> QED
      BY <3>1 DEF From
  <2> QED
    BY <1>3, <1>5, <1>6, <2>1, <2>2 DEF Placed
<1>8. ASSUME \A x, y \in sackMisOrdered' : uint32Gt(y, x) => StringBefore(x, y)
      PROVE  tsnPlusOne(lastReceivedTsn') \notin sackMisOrdered'
  <2>1. CASE k = 0
    <3>1. lastReceivedTsn' = lastReceivedTsn
      BY <1>5, <1>6, <2>1
    <3> QED
      BY <1>1, <1>3, <1>8, <3>1 DEF Tracked
  <2>2. CASE k # 0
    <3>1. -1 \in -1 .. MaxSends - 1 /\ 0 \in -1 .. MaxSends - 1 /\ -1 + 1 = 0
      BY Bounds
    <3>2. tsnPlusOne(lastReceivedTsn') = Nth(initialTsn, 0)
      BY <1>2, <1>6, <3>1, AtOrAbove
    <3>3. Nth(initialTsn, 0) \notin From(initialTsn, k)
      <4> SUFFICES ASSUME NEW i \in k .. MaxSends - 1, Nth(initialTsn, 0) = Nth(initialTsn, i)
                   PROVE  FALSE
        BY DEF From
      <4>1. i \in -1 .. MaxSends - 1 /\ i # 0
        BY <2>2, Bounds
      <4> QED
        BY <1>2, <3>1, <4>1, AtOrAbove
    <3> QED
      BY <1>3, <1>5, <3>2, <3>3
  <2> QED
    BY <2>1, <2>2
<1>9. Tracked(initialTsn, lastReceivedTsn', sackMisOrdered', received', everReceived')
  <2>1. 0 \in 0 .. MaxSends
    BY Bounds
  <2> QED
    BY <1>3, <1>7, <1>8, <2>1 DEF Tracked
<1>10. SentInOrder'
  BY <1>1, <1>3 DEF SentInOrder, Nth
<1>11. KnownWereSent'
  BY <1>1, <1>3 DEF KnownWereSent
<1>12. SendSack \/ (sackNeeded' \in BOOLEAN /\ UNCHANGED sack)
  BY <1>1, <1>3 DEF TypeOK
<1> QED
  BY <1>1, <1>3, <1>9, <1>10, <1>11, <1>12, SendsSack DEF TypeOK

\* A SACK that is due leaves with another packet.
LEMMA ReceiveOtherHolds == IInv /\ ReceiveOther => IInv'
<1> SUFFICES ASSUME IInv, ReceiveOther
             PROVE  IInv'
  OBVIOUS
<1>1. /\ TypeOK /\ SentInOrder /\ KnownWereSent
      /\ Tracked(initialTsn, lastReceivedTsn, sackMisOrdered, received, everReceived)
  BY IInvIsTracked
<1>2. SentInOrder' /\ KnownWereSent'
  BY <1>1 DEF SentInOrder, KnownWereSent, ReceiveOther, Nth
<1> QED
  BY <1>1, <1>2, SendsSack DEF TypeOK, ReceiveOther

LEMMA UnchangedHolds == IInv /\ UNCHANGED vars => IInv'
<1> SUFFICES ASSUME IInv, UNCHANGED vars
             PROVE  IInv'
  OBVIOUS
<1>1. /\ TypeOK /\ SentInOrder /\ KnownWereSent
      /\ Tracked(initialTsn, lastReceivedTsn, sackMisOrdered, received, everReceived)
  BY IInvIsTracked
<1>2. TypeOK' /\ SentInOrder' /\ KnownWereSent'
  BY <1>1 DEF TypeOK, SentInOrder, KnownWereSent, Nth, vars
<1> QED
  BY <1>1, <1>2, IInvIsTrackedNext DEF vars

\* The positions of the window hold in every reachable state: what was sent is a prefix
\* of it, the cumulative TSN is in it, what is kept is above.
THEOREM Invariance == Spec => []IInv
<1>1. IInv /\ [Next]_vars => IInv'
  BY SendDataHolds, ForwardTsnHolds, ReceiveDataHolds, ReceiveForwardTsnHolds,
     ReceiveInitHolds, ReceiveOtherHolds, UnchangedHolds DEF Next
<1> QED
  BY <1>1, InitHolds, PTL DEF Spec

\* Every value stays in its type: the TSNs of receiveChunk and sendSack in 32 bits, the
\* offsets of a SACK in 16.
THEOREM TypeCorrect == Spec => []TypeOK
<1>1. IInv => TypeOK
  BY DEF IInv
<1> QED
  BY <1>1, Invariance, PTL

\* The cumulative TSN passes nothing that neither arrived nor was given up, whatever
\* order markReceived sees the TSNs in and however often the INIT is repeated.
THEOREM CumulativeEarned == Spec => []CumulativeIsEarned
<1>1. IInv => CumulativeIsEarned
  <2> SUFFICES ASSUME IInv, NEW t \in Sendable, uint32Gte(lastReceivedTsn, t)
               PROVE  t \in everReceived
    BY DEF CumulativeIsEarned
  <2>1. initialTsn \in TSN \ {0}
    BY SentInWindow DEF IInv
  <2>2. PICK k \in 0 .. MaxSends :
           /\ lastReceivedTsn = Nth(initialTsn, k - 1)
           /\ \A i \in 0 .. k - 1 : Nth(initialTsn, i) \in everReceived
    BY DEF IInv, CumulativeInWindow
  <2>3. PICK j \in 0 .. MaxSends - 1 : t = Nth(initialTsn, j)
    BY DEF Sendable, From
  <2>4. j \in -1 .. MaxSends - 1 /\ k - 1 \in -1 .. MaxSends - 1
    BY Bounds
  <2>5. k - 1 >= j
    BY <2>1, <2>2, <2>3, <2>4, AtOrAbove
  <2> QED
    BY <2>2, <2>3, <2>4, <2>5
<1> QED
  BY <1>1, Invariance, PTL

\* What arrived since the last INIT is at or below the cumulative TSN or kept above it:
\* the filters of markReceived and receiveForwardTsnChunk drop nothing else.
THEOREM ArrivalsKept == Spec => []ArrivalsAreKept
<1>1. IInv => ArrivalsAreKept
  BY DEF IInv
<1> QED
  BY <1>1, Invariance, PTL

\* The decimal order of sort() holds the cumulative TSN back only where it is not the
\* serial order.
THEOREM NoLag == Spec => []NoLagInDecimalOrder
<1>1. IInv => NoLagInDecimalOrder
  BY DEF IInv
<1> QED
  BY <1>1, Invariance, PTL

\* What a SACK that leaves acknowledges has arrived, where no offset is clamped.
LEMMA SackTells ==
    ASSUME MaxSends <= MaxGap, NEW a \in TSN \ {0}, NEW last, NEW kept, NEW arrived, NEW ever,
           Tracked(a, last, kept, arrived, ever), kept \subseteq ever,
           NEW s, s.cumulativeTsn = Clamp(last, Modulo - 1), s.gaps = Gaps(last, kept),
           NEW t \in From(a, 0),
           \/ uint32Gte(s.cumulativeTsn, t)
           \/ \E g \in s.gaps : \E d \in g.start .. g.end : t = JsRem(s.cumulativeTsn + d)
    PROVE  t \in ever
<1>1. PICK k \in 0 .. MaxSends : Placed(a, k, last, kept, ever)
  BY DEF Tracked
<1>2. /\ last = Nth(a, k - 1)
      /\ kept \in SUBSET From(a, k)
      /\ \A i \in 0 .. k - 1 : Nth(a, i) \in ever
      /\ k - 1 \in -1 .. MaxSends - 1
  BY <1>1, Bounds DEF Placed
<1>3. s.cumulativeTsn = last
  <2>1. last \in TSN
    BY <1>2, AtOrAbove
  <2> QED
    BY <2>1, Bounds DEF Clamp, TSN
<1>4. PICK j \in 0 .. MaxSends - 1 : t = Nth(a, j)
  BY DEF From
<1>5. j \in -1 .. MaxSends - 1
  BY Bounds
<1>6. uint32Gte(last, t) => t \in ever
  <2>1. uint32Gte(last, t) => k - 1 >= j
    BY <1>2, <1>4, <1>5, AtOrAbove
  <2> QED
    BY <1>2, <1>4, <1>5, <2>1
<1>7. ASSUME NEW g \in s.gaps, NEW d \in g.start .. g.end, t = JsRem(s.cumulativeTsn + d)
      PROVE  t \in ever
  <2>1. t \in kept \cup {last}
    BY <1>2, <1>3, <1>7, GapsAreKept
  <2> QED
    BY <1>6, <2>1 DEF uint32Gte
<1> QED
  BY <1>3, <1>6, <1>7

\* A SACK never acknowledges what did not arrive, in spite of the order of the gaps and
\* of the offsets that have wrapped around.  Where more chunks are in flight than an
\* offset can count, packing clamps the offsets: hence the hypothesis.
THEOREM SackTruthful ==
    ASSUME MaxSends <= MaxGap
    PROVE  Spec => []SackIsTruthful
<1>1. Init => SackIsTruthful
  <2> SUFFICES ASSUME Init, NEW t \in Sendable, t \in Acknowledged(sack)
               PROVE  t \in everReceived
    BY DEF SackIsTruthful
  <2>1. IInv
    BY InitHolds
  <2>2. initialTsn \in TSN \ {0}
    BY <2>1, SentInWindow DEF IInv
  <2>3. lastReceivedTsn = Nth(initialTsn, -1)
    <3>1. initialTsn \in Int /\ initialTsn - 1 = initialTsn + (-1)
      BY <2>2 DEF TSN
    <3> QED
      BY <3>1 DEF Init, tsnMinusOne, Nth
  <2>4. -1 \in -1 .. MaxSends - 1
    BY Bounds
  <2>5. sack.cumulativeTsn = lastReceivedTsn /\ sack.gaps = {}
    <3>1. lastReceivedTsn \in TSN
      BY <2>2, <2>3, <2>4, AtOrAbove
    <3> QED
      BY <3>1, Bounds DEF Init, Clamp, TSN
  <2>6. uint32Gte(Nth(initialTsn, -1), t)
    BY <2>3, <2>5 DEF Acknowledged
  <2>7. PICK j \in 0 .. MaxSends - 1 : t = Nth(initialTsn, j)
    BY DEF Sendable, From
  <2>8. j \in -1 .. MaxSends - 1 /\ ~(-1 >= j)
    BY Bounds
  <2> QED
    BY <2>2, <2>4, <2>6, <2>7, <2>8, AtOrAbove
<1>2. IInv /\ IInv' /\ SackIsTruthful /\ [Next]_vars => SackIsTruthful'
  <2> SUFFICES ASSUME IInv, IInv', SackIsTruthful, [Next]_vars
               PROVE  SackIsTruthful'
    OBVIOUS
  <2>1. initialTsn' = initialTsn /\ everReceived \subseteq everReceived'
    BY DEF Next, vars, SendData, ForwardTsn, ReceiveData, ReceiveForwardTsn, ReceiveInit,
           ReceiveOther
  <2>2. sack' = sack \/ SendSack
    BY DEF Next, vars, SendData, ForwardTsn, ReceiveData, ReceiveForwardTsn, ReceiveInit,
           ReceiveOther
  <2>3. CASE sack' = sack
    BY <2>1, <2>3 DEF SackIsTruthful, Acknowledged, Sendable, From, Nth
  <2>4. CASE SendSack
    <3>1. sack'.cumulativeTsn = Clamp(lastReceivedTsn', Modulo - 1)
          /\ sack'.gaps = Gaps(lastReceivedTsn', sackMisOrdered')
      BY <2>4 DEF SendSack
    <3>2. Tracked(initialTsn', lastReceivedTsn', sackMisOrdered', received', everReceived')
      BY DEF IInv, CumulativeInWindow, ArrivalsAreKept, NoLagInDecimalOrder, OrderAgrees,
             Tracked, Placed, From, Nth
    <3>3. initialTsn' \in TSN \ {0} /\ sackMisOrdered' \subseteq everReceived'
      BY Bounds DEF IInv, TypeOK, KnownWereSent
    <3>4. ASSUME NEW t \in From(initialTsn', 0),
                 \/ uint32Gte(sack'.cumulativeTsn, t)
                 \/ \E g \in sack'.gaps : \E d \in g.start .. g.end :
                       t = JsRem(sack'.cumulativeTsn + d)
          PROVE  t \in everReceived'
      BY <3>1, <3>2, <3>3, <3>4, SackTells
    <3> QED
      BY <3>4 DEF SackIsTruthful, Acknowledged, Sendable, From, Nth
  <2> QED
    BY <2>2, <2>3, <2>4
<1> QED
  BY <1>1, <1>2, Invariance, PTL DEF Spec
=============================================================================
