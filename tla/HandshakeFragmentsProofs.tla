---------------------- MODULE HandshakeFragmentsProofs ----------------------
(***************************************************************************)
(* Proofs about HandshakeFragments, for every flight, every size of a      *)
(* fragment and every bound on the buffer.  First how a message is cut,    *)
(* then one record, then the records of a datagram, then the steps.        *)
(***************************************************************************)
EXTENDS HandshakeFragments, Integers, NaturalsInduction, WellFoundedInduction, TLAPS

\* A set of naturals has a least element.
LEMMA Least ==
    ASSUME NEW S \in SUBSET Nat, S # {}
    PROVE  \E n \in S : \A m \in S : n <= m
<1> DEFINE R == OpToRel(<, Nat)
<1>1. IsWellFoundedOn(R, Nat)
  BY NatLessThanWellFounded
<1>2. PICK n \in S : \A m \in S : <<m, n>> \notin R
  <2> HIDE DEF R
  <2> QED
    BY <1>1, WFMin
<1>3. \A m \in S : ~(m < n)
  BY <1>2 DEF OpToRel
<1> QED
  BY <1>3

(***************************************************************************)
(* The invariant                                                           *)
(***************************************************************************)

Fragments == UNION {Range(Chunk(m)) : m \in Messages}

Known == [known : BOOLEAN, filled : SUBSET Int]

TypeOK ==
    /\ apart \in BOOLEAN
    /\ buffer \in Seq(Fragments)
    /\ cache \in [Messages -> Known]
    /\ due \in Datagrams \cup {Broken}
    /\ disturbed \in BOOLEAN
    /\ passed \in BOOLEAN

\* The first fragments of a message.
Beginning(m, i) == [k \in 1 .. i |-> Chunk(m)[k]]

\* What a flight that has come in order so far has left.
PassKeepsUp ==
    due # Broken =>
        /\ \A m \in Messages : m < due[1] => cache[m].known
        /\ apart /\ due[2] > 1 => buffer # <<>>

\* While nothing goes wrong a fragment is due, and the buffer holds those of its message
\* that came before it.
BufferIsBeginning ==
    /\ ~disturbed => due # Broken
    /\ apart /\ ~disturbed => buffer = Beginning(due[1], due[2] - 1)

IInv ==
    /\ TypeOK
    /\ WholeUnlessTornApart
    /\ OnePassSuffices
    /\ PassKeepsUp
    /\ BufferIsBeginning

(***************************************************************************)
(* How a message is cut                                                    *)
(***************************************************************************)

LEMMA Flight ==
    /\ Len(Sizes) \in Nat \ {0}
    /\ Messages = 1 .. Len(Sizes)
    /\ \A m \in Messages : Sizes[m] \in Nat
    /\ MaxFragment \in Nat \ {0}
BY FragmentAssumption DEF Messages

LEMMA Products ==
    ASSUME NEW a \in Nat, NEW b \in Nat, NEW c \in Nat
    PROVE  /\ a * c \in Nat
           /\ (a + 1) * c = a * c + c
           /\ a <= b => a * c <= b * c
<1>1. a * c \in Nat /\ (a + 1) * c = a * c + c
  OBVIOUS
<1>2. ASSUME a <= b
      PROVE  a * c <= b * c
  <2>1. PICK k \in Nat : b = a + k
    <3>1. b - a \in Nat /\ b = a + (b - a)
      BY <1>2
    <3> QED
      BY <3>1
  <2>2. b * c = a * c + k * c /\ k * c \in Nat /\ a * c \in Nat
    BY <2>1
  <2> QED
    BY <2>2
<1> QED
  BY <1>1, <1>2

LEMMA Quotient ==
    ASSUME NEW a \in Nat, NEW c \in Nat \ {0}
    PROVE  /\ a \div c \in Nat
           /\ (a \div c) * c <= a /\ a < (a \div c) * c + c
OBVIOUS

\* chunk() takes whole fragments as long as more than one is left.
LEMMA PiecesAre ==
    ASSUME NEW m \in Messages
    PROVE  /\ Pieces(m) \in Nat \ {0}
           /\ (Pieces(m) - 1) * MaxFragment <= Sizes[m]
           /\ Pieces(m) > 1 => (Pieces(m) - 1) * MaxFragment < Sizes[m]
           /\ Sizes[m] <= Pieces(m) * MaxFragment
<1>1. Sizes[m] \in Nat /\ MaxFragment \in Nat /\ MaxFragment >= 1
  BY Flight
<1>2. CASE Sizes[m] = 0
  <2>1. Pieces(m) = 1
    BY <1>2 DEF Pieces
  <2> QED
    BY <1>1, <1>2, <2>1
<1>3. CASE Sizes[m] # 0
  <2> DEFINE s == Sizes[m]
             x == s + MaxFragment - 1
             n == x \div MaxFragment
  <2>1. Pieces(m) = n
    BY <1>3 DEF Pieces
  <2>2. n \in Nat /\ n * MaxFragment <= x /\ x < n * MaxFragment + MaxFragment
    <3>1. x \in Nat
      BY <1>1
    <3> HIDE DEF x
    <3> QED
      BY <1>1, <3>1, Quotient
  <2>3. s \in Nat /\ s >= 1
    BY <1>1, <1>3
  <2> HIDE DEF s, n
  <2>4. n # 0
    BY <1>1, <2>2, <2>3
  <2>5. (n - 1) * MaxFragment = n * MaxFragment - MaxFragment
    BY <1>1, <2>2, <2>4
  <2>6. n * MaxFragment \in Nat
    BY <1>1, <2>2
  <2>7. (n - 1) * MaxFragment < s /\ s <= n * MaxFragment
    BY <1>1, <2>2, <2>3, <2>5, <2>6
  <2> QED
    BY <1>1, <2>1, <2>2, <2>4, <2>7 DEF s
<1> QED
  BY <1>2, <1>3

LEMMA PieceIs ==
    ASSUME NEW m \in Messages, NEW i \in 1 .. Pieces(m)
    PROVE  LET f == Chunk(m)[i]
           IN  /\ f.message = m
               /\ f.offset = (i - 1) * MaxFragment
               /\ f.offset \in Nat /\ f.size \in Nat
               /\ i < Pieces(m) => f.size = MaxFragment
               /\ i = Pieces(m) => f.offset + f.size = Sizes[m]
               /\ EndsMessage(f) <=> i = Pieces(m)
               /\ f.size = Length(f) <=> Pieces(m) = 1
<1> DEFINE f == Chunk(m)[i]
           n == Pieces(m)
           s == Sizes[m]
           start == (i - 1) * MaxFragment
<1>1. n \in Nat \ {0} /\ s \in Nat /\ MaxFragment \in Nat /\ MaxFragment >= 1
  BY Flight, PiecesAre
<1>2. f = [message |-> m, offset |-> start,
           size |-> IF start + MaxFragment <= s THEN MaxFragment ELSE s - start]
  BY DEF Chunk
<1>3. i \in 1 .. n
  OBVIOUS
<1>4. /\ (n - 1) * MaxFragment <= s /\ (n > 1 => (n - 1) * MaxFragment < s)
      /\ s <= n * MaxFragment
  BY PiecesAre
<1>5. start \in Nat /\ start + MaxFragment = i * MaxFragment /\ i * MaxFragment \in Nat
  <2>1. i - 1 \in Nat /\ (i - 1) + 1 = i
    BY <1>1, <1>3
  <2> QED
    BY <1>1, <2>1, Products
<1>6. CASE i < n
  <2>1. i * MaxFragment <= (n - 1) * MaxFragment
    <3>1. i \in Nat /\ n - 1 \in Nat /\ i <= n - 1 /\ n > 1
      BY <1>1, <1>3, <1>6
    <3> QED
      BY <1>1, <3>1, Products
  <2>2. (n - 1) * MaxFragment < s /\ n > 1 /\ (n - 1) * MaxFragment \in Nat
    <3>1. n > 1 /\ n - 1 \in Nat
      BY <1>1, <1>3, <1>6
    <3> QED
      BY <1>1, <1>4, <3>1, Products
  <2> HIDE DEF f, n, s, start
  <2>3. start + MaxFragment < s
    BY <1>1, <1>5, <2>1, <2>2
  <2>4. f.message = m /\ f.offset = start /\ f.size = MaxFragment
    BY <1>1, <1>2, <1>5, <2>3
  <2>5. MaxFragment # s
    BY <1>1, <1>5, <2>3
  <2> QED
    BY <1>1, <1>5, <1>6, <2>2, <2>3, <2>4, <2>5 DEF EndsMessage, Length, f, n, s, start
<1>7. CASE i = n
  <2>1. start <= s /\ s <= start + MaxFragment /\ (n > 1 => start < s)
    BY <1>4, <1>5, <1>7
  <2>2. n > 1 => start >= 1
    <3>1. n > 1 => start = (i - 2) * MaxFragment + MaxFragment /\ (i - 2) * MaxFragment \in Nat
      <4>1. n > 1 => i - 2 \in Nat /\ (i - 2) + 1 = i - 1
        BY <1>1, <1>3, <1>7
      <4> QED
        BY <1>1, <4>1, Products
    <3> QED
      BY <1>1, <3>1
  <2>3. n = 1 => start = 0
    BY <1>1, <1>7
  <2> HIDE DEF f, n, s, start
  <2>4. f.message = m /\ f.offset = start /\ f.size = s - start
    BY <1>1, <1>2, <1>5, <2>1
  <2>5. s - start \in Nat /\ start + (s - start) = s
    BY <1>1, <1>5, <2>1
  <2>6. s - start = s <=> n = 1
    BY <1>1, <1>5, <2>2, <2>3
  <2> QED
    BY <1>5, <1>7, <2>4, <2>5, <2>6 DEF EndsMessage, Length, f, n, s, start
<1> QED
  BY <1>1, <1>3, <1>6, <1>7

LEMMA ChunkIs ==
    ASSUME NEW m \in Messages
    PROVE  /\ Chunk(m) \in Seq(Fragments)
           /\ Len(Chunk(m)) = Pieces(m)
           /\ DOMAIN Chunk(m) = 1 .. Pieces(m)
           /\ \A i \in 1 .. Pieces(m) : Chunk(m)[i] \in Fragments
<1>1. Pieces(m) \in Nat /\ DOMAIN Chunk(m) = 1 .. Pieces(m)
  BY PiecesAre DEF Chunk
<1>2. \A i \in 1 .. Pieces(m) : Chunk(m)[i] \in Fragments
  BY <1>1 DEF Fragments, Range
<1>3. Chunk(m) = [i \in 1 .. Pieces(m) |-> Chunk(m)[i]]
  BY DEF Chunk
<1>4. Chunk(m) \in Seq(Fragments) /\ Len(Chunk(m)) = Pieces(m)
  BY <1>1, <1>2, <1>3
<1> QED
  BY <1>1, <1>2, <1>4

LEMMA FragmentIs ==
    ASSUME NEW f \in Fragments
    PROVE  \E m \in Messages : \E i \in 1 .. Pieces(m) : f = Chunk(m)[i]
BY ChunkIs DEF Fragments, Range

\* assemble() of all fragments of a message is the message.
LEMMA PiecesCover ==
    ASSUME NEW m \in Messages
    PROVE  Assemble(Range(Chunk(m))) = 0 .. Sizes[m] - 1
<1> DEFINE n == Pieces(m)
           s == Sizes[m]
<1>1. n \in Nat \ {0} /\ s \in Nat /\ MaxFragment \in Nat /\ MaxFragment >= 1
  BY Flight, PiecesAre
<1>2. (n - 1) * MaxFragment <= s /\ s <= n * MaxFragment
  BY PiecesAre
<1>3. Range(Chunk(m)) = {Chunk(m)[i] : i \in 1 .. n}
  BY ChunkIs DEF Range
<1>4. ASSUME NEW i \in 1 .. n, NEW u \in Units(Chunk(m)[i])
      PROVE  u \in 0 .. s - 1
  <2> DEFINE f == Chunk(m)[i]
  <2>1. /\ f.offset = (i - 1) * MaxFragment /\ f.offset \in Nat /\ f.size \in Nat
        /\ i < n => f.size = MaxFragment
        /\ i = n => f.offset + f.size = s
    BY PieceIs
  <2>2. f.offset + f.size <= s
    <3>1. CASE i = n
      BY <1>1, <2>1, <3>1
    <3>2. CASE i # n
      <4>1. i \in Nat /\ i - 1 \in Nat /\ n - 1 \in Nat /\ i <= n - 1 /\ i < n
        BY <1>1, <3>2
      <4>2. i * MaxFragment <= (n - 1) * MaxFragment
        BY <1>1, <4>1, Products
      <4>3. (i - 1) * MaxFragment + MaxFragment = i * MaxFragment
        BY <1>1, <4>1
      <4>4. i * MaxFragment \in Nat /\ (n - 1) * MaxFragment \in Nat
        BY <1>1, <4>1, Products
      <4> HIDE DEF n, s, f
      <4>5. f.offset + f.size = i * MaxFragment
        BY <2>1, <4>1, <4>3
      <4> QED
        BY <1>1, <1>2, <4>2, <4>4, <4>5
    <3> QED
      BY <3>1, <3>2
  <2>3. u \in Int /\ f.offset <= u /\ u <= f.offset + f.size - 1
    BY <2>1 DEF Units
  <2> HIDE DEF f, s
  <2> QED
    BY <1>1, <2>1, <2>2, <2>3
<1>5. ASSUME NEW u \in 0 .. s - 1
      PROVE  \E i \in 1 .. n : u \in Units(Chunk(m)[i])
  <2> DEFINE k == u \div MaxFragment
  <2>1. u \in Nat /\ u < s
    BY <1>1
  <2>2. k \in Nat /\ k * MaxFragment <= u /\ u < k * MaxFragment + MaxFragment
    BY <1>1, <2>1, Quotient
  <2> HIDE DEF k, n, s
  <2>3. k < n
    <3> SUFFICES ASSUME n <= k
                 PROVE  FALSE
      BY <1>1, <2>2
    <3>1. n * MaxFragment <= k * MaxFragment /\ n * MaxFragment \in Nat /\ k * MaxFragment \in Nat
      BY <1>1, <2>2, Products
    <3> QED
      BY <1>1, <1>2, <2>1, <2>2, <3>1
  <2> DEFINE i == k + 1
             f == Chunk(m)[i]
  <2>4. i \in 1 .. n /\ i - 1 = k
    BY <1>1, <2>2, <2>3
  <2>5. /\ f.offset = k * MaxFragment /\ f.offset \in Nat /\ f.size \in Nat
        /\ i < n => f.size = MaxFragment
        /\ i = n => f.offset + f.size = s
    BY <2>4, PieceIs DEF n, s
  <2> HIDE DEF i, f
  <2>6. f.offset <= u /\ u <= f.offset + f.size - 1
    <3>1. CASE i < n
      BY <2>1, <2>2, <2>5, <3>1
    <3>2. CASE i = n
      BY <1>1, <2>1, <2>2, <2>5, <3>2
    <3> QED
      BY <1>1, <2>4, <3>1, <3>2
  <2>7. u \in Units(f)
    BY <2>1, <2>5, <2>6 DEF Units
  <2> QED
    BY <2>4, <2>7 DEF f
<1> QED
  BY <1>3, <1>4, <1>5 DEF Assemble

(***************************************************************************)
(* One record                                                              *)
(***************************************************************************)

CacheType == [Messages -> Known]

\* The message put together, unless there is one already.
WithWhole(c, m) ==
    [k \in Messages |->
        IF k = m /\ ~c[m].known THEN [known |-> TRUE, filled |-> 0 .. Sizes[m] - 1] ELSE c[k]]

LEMMA CachedNone ==
    ASSUME NEW c \in CacheType
    PROVE  Cached(c, {}) = c
<1>1. Cached(c, {}) = [m \in Messages |-> c[m]]
  BY DEF Cached
<1> QED
  BY <1>1 DEF CacheType

LEMMA CachedAll ==
    ASSUME NEW c \in CacheType, NEW m \in Messages
    PROVE  Cached(c, Range(Chunk(m))) = WithWhole(c, m)
<1> DEFINE all == Range(Chunk(m))
           parts(k) == {f \in all : f.message = k}
<1>1. all # {} /\ \A f \in all : f.message = m
  <2>1. Pieces(m) \in Nat \ {0} /\ all = {Chunk(m)[i] : i \in 1 .. Pieces(m)}
    BY PiecesAre, ChunkIs DEF Range
  <2>2. 1 \in 1 .. Pieces(m)
    BY <2>1
  <2>3. \A i \in 1 .. Pieces(m) : Chunk(m)[i].message = m
    BY PieceIs
  <2> QED
    BY <2>1, <2>2, <2>3
<1>2. parts(m) = all
  BY <1>1
<1>3. \A k \in Messages : k # m => parts(k) = {}
  BY <1>1
<1>4. Assemble(all) = 0 .. Sizes[m] - 1
  BY PiecesCover
<1> HIDE DEF all
<1>5. \A k \in Messages :
        (IF c[k].known \/ parts(k) = {} THEN c[k]
         ELSE [known |-> TRUE, filled |-> Assemble(parts(k))]) = WithWhole(c, m)[k]
  BY <1>1, <1>2, <1>3, <1>4 DEF WithWhole
<1>6. Cached(c, all) = [k \in Messages |->
        IF c[k].known \/ parts(k) = {} THEN c[k]
        ELSE [known |-> TRUE, filled |-> Assemble(parts(k))]]
  BY DEF Cached
<1>7. WithWhole(c, m) = [k \in Messages |-> WithWhole(c, m)[k]]
  BY DEF WithWhole
<1> QED
  BY <1>5, <1>6, <1>7 DEF all

\* Whatever is handed on, the cache keeps what it has.
LEMMA CachedKeeps ==
    ASSUME NEW c \in CacheType, NEW out \in SUBSET Fragments
    PROVE  /\ Cached(c, out) \in CacheType
           /\ \A m \in Messages : c[m].known => Cached(c, out)[m].known
           /\ \A f \in out : Cached(c, out)[f.message].known
<1>1. ASSUME NEW m \in Messages
      PROVE  /\ Cached(c, out)[m] \in Known
             /\ c[m].known => Cached(c, out)[m].known
             /\ (\E f \in out : f.message = m) => Cached(c, out)[m].known
  <2> DEFINE parts == {f \in out : f.message = m}
  <2>1. Cached(c, out)[m] = IF c[m].known \/ parts = {} THEN c[m]
                            ELSE [known |-> TRUE, filled |-> Assemble(parts)]
    BY DEF Cached
  <2>2. Assemble(parts) \in SUBSET Int
    <3>1. \A f \in parts : Units(f) \subseteq Int
      BY DEF Units
    <3> QED
      BY <3>1 DEF Assemble
  <2>3. c[m] \in Known
    BY DEF CacheType
  <2> HIDE DEF parts
  <2>4. Cached(c, out)[m] \in Known /\ (c[m].known => Cached(c, out)[m].known)
        /\ (parts # {} => Cached(c, out)[m].known)
    BY <2>1, <2>2, <2>3 DEF Known
  <2> QED
    BY <2>4 DEF parts
<1>2. Cached(c, out) = [m \in Messages |-> Cached(c, out)[m]]
  BY DEF Cached
<1>3. \A f \in out : f.message \in Messages
  BY FragmentIs, PieceIs
<1> QED
  BY <1>1, <1>2, <1>3 DEF CacheType

\* What a record leaves of any buffer and any cache.
LEMMA RecordKeeps ==
    ASSUME NEW b \in Seq(Fragments), NEW c \in CacheType,
           NEW m \in Messages, NEW i \in 1 .. Pieces(m)
    PROVE  LET r == Record([buffer |-> b, cache |-> c], Chunk(m)[i])
           IN  /\ r.buffer \in Seq(Fragments)
               /\ r.cache \in CacheType
               /\ \A k \in Messages : c[k].known => r.cache[k].known
               /\ i < Pieces(m) => r.buffer # <<>>
               /\ i = Pieces(m) /\ (i > 1 => b # <<>>) => r.cache[m].known
<1> DEFINE f == Chunk(m)[i]
           whole == f.size = Length(f)
           kept == IF whole THEN b ELSE Append(b, f)
           out == (IF Ended(kept) THEN Range(kept) ELSE {}) \cup (IF whole THEN {f} ELSE {})
           r == Record([buffer |-> b, cache |-> c], f)
<1>1. r = [buffer |-> IF Ended(kept) THEN <<>> ELSE kept, cache |-> Cached(c, out)]
  BY DEF Record
<1>2. /\ f \in Fragments /\ f.message = m
      /\ EndsMessage(f) <=> i = Pieces(m)
      /\ whole <=> Pieces(m) = 1
  BY ChunkIs, PieceIs
<1>3. Pieces(m) \in Nat \ {0} /\ i \in 1 .. Pieces(m)
  BY PiecesAre
<1> HIDE DEF f
<1>4. kept \in Seq(Fragments)
  BY <1>2
<1>5. ~whole => /\ Len(kept) = Len(b) + 1 /\ kept[Len(kept)] = f
                /\ f \in Range(kept) /\ kept # <<>>
  <2>1. ~whole => /\ Len(kept) = Len(b) + 1 /\ kept[Len(kept)] = f
                  /\ Len(kept) \in DOMAIN kept /\ kept # <<>>
    BY <1>2
  <2> QED
    BY <2>1 DEF Range
<1>6. Range(kept) \subseteq Fragments
  <2>1. \A j \in DOMAIN kept : kept[j] \in Fragments
    BY <1>4
  <2> QED
    BY <2>1 DEF Range
<1> HIDE DEF kept
<1>7. out \in SUBSET Fragments
  BY <1>2, <1>6
<1>8. i < Pieces(m) => ~Ended(kept) /\ kept # <<>>
  BY <1>2, <1>3, <1>5 DEF Ended
<1>9. i = Pieces(m) /\ (i > 1 => b # <<>>) => f \in out
  <2>1. CASE whole
    BY <2>1
  <2>2. CASE ~whole /\ i = Pieces(m) /\ (i > 1 => b # <<>>)
    <3>1. b # <<>> /\ Len(b) > 0
      BY <1>2, <1>3, <2>2
    <3>2. Ended(kept)
      BY <1>2, <1>5, <2>2, <3>1 DEF Ended
    <3> QED
      BY <1>5, <2>2, <3>2
  <2> QED
    BY <2>1, <2>2
<1>10. /\ Cached(c, out) \in CacheType
       /\ \A k \in Messages : c[k].known => Cached(c, out)[k].known
       /\ \A g \in out : Cached(c, out)[g.message].known
  BY <1>7, CachedKeeps
<1> HIDE DEF out, whole
<1>11. r.buffer = (IF Ended(kept) THEN <<>> ELSE kept) /\ r.cache = Cached(c, out)
  BY <1>1
<1> HIDE DEF r
<1>12. r.buffer \in Seq(Fragments)
  <2>1. <<>> \in Seq(Fragments)
    OBVIOUS
  <2> QED
    BY <1>4, <1>11, <2>1
<1>13. r.cache[m].known \/ ~(i = Pieces(m) /\ (i > 1 => b # <<>>))
  BY <1>2, <1>9, <1>10, <1>11
<1>14. /\ r.buffer \in Seq(Fragments)
       /\ r.cache \in CacheType
       /\ \A k \in Messages : c[k].known => r.cache[k].known
       /\ i < Pieces(m) => r.buffer # <<>>
       /\ i = Pieces(m) /\ (i > 1 => b # <<>>) => r.cache[m].known
  BY <1>8, <1>10, <1>11, <1>12, <1>13
<1> QED
  BY <1>14 DEF r, f

\* What is left after the first i fragments of a message, of an empty buffer.
AfterPieces(c, m, i) ==
    [buffer |-> IF i < Pieces(m) THEN Beginning(m, i) ELSE <<>>,
     cache |-> IF i < Pieces(m) THEN c ELSE WithWhole(c, m)]

LEMMA BeginningIs ==
    ASSUME NEW m \in Messages
    PROVE  /\ Beginning(m, 0) = <<>>
           /\ Beginning(m, Pieces(m)) = Chunk(m)
           /\ \A i \in 1 .. Pieces(m) :
                /\ Append(Beginning(m, i - 1), Chunk(m)[i]) = Beginning(m, i)
                /\ Len(Beginning(m, i)) = i
                /\ Beginning(m, i)[i] = Chunk(m)[i]
<1>1. Pieces(m) \in Nat /\ \A i \in 1 .. Pieces(m) : Chunk(m)[i] \in Fragments
  BY PiecesAre, ChunkIs
<1>2. Beginning(m, 0) = <<>>
  BY DEF Beginning
<1>3. Beginning(m, Pieces(m)) = Chunk(m)
  BY DEF Beginning, Chunk
<1>4. ASSUME NEW i \in 1 .. Pieces(m)
      PROVE  /\ Append(Beginning(m, i - 1), Chunk(m)[i]) = Beginning(m, i)
             /\ Len(Beginning(m, i)) = i
             /\ Beginning(m, i)[i] = Chunk(m)[i]
  <2>1. i \in Nat /\ i - 1 \in Nat /\ i - 1 + 1 = i
    BY <1>1
  <2>2. Beginning(m, i - 1) \in Seq(Fragments) /\ Len(Beginning(m, i - 1)) = i - 1
    BY <1>1, <2>1 DEF Beginning
  <2>3. Append(Beginning(m, i - 1), Chunk(m)[i]) =
            [k \in 1 .. i |-> IF k = i THEN Chunk(m)[i] ELSE Beginning(m, i - 1)[k]]
    BY <2>1, <2>2
  <2>4. \A k \in 1 .. i : (IF k = i THEN Chunk(m)[i] ELSE Beginning(m, i - 1)[k]) = Chunk(m)[k]
    BY <2>1 DEF Beginning
  <2> QED
    BY <1>1, <2>1, <2>3, <2>4 DEF Beginning
<1> QED
  BY <1>2, <1>3, <1>4

\* A fragment that comes in its place: nothing is handed on before the last.
LEMMA RecordInOrder ==
    ASSUME NEW c \in CacheType, NEW m \in Messages, NEW i \in 1 .. Pieces(m)
    PROVE  Record([buffer |-> Beginning(m, i - 1), cache |-> c], Chunk(m)[i])
             = AfterPieces(c, m, i)
<1> DEFINE f == Chunk(m)[i]
           b == Beginning(m, i - 1)
           whole == f.size = Length(f)
           kept == IF whole THEN b ELSE Append(b, f)
           out == (IF Ended(kept) THEN Range(kept) ELSE {}) \cup (IF whole THEN {f} ELSE {})
<1>1. Record([buffer |-> b, cache |-> c], f)
        = [buffer |-> IF Ended(kept) THEN <<>> ELSE kept, cache |-> Cached(c, out)]
  BY DEF Record
<1>2. Pieces(m) \in Nat \ {0} /\ i \in 1 .. Pieces(m)
  BY PiecesAre
<1>3. (EndsMessage(f) <=> i = Pieces(m)) /\ (whole <=> Pieces(m) = 1)
  BY PieceIs
<1>4. CASE Pieces(m) = 1
  <2>1. i = 1 /\ kept = <<>>
    <3>1. i = 1 /\ b = Beginning(m, 0)
      BY <1>2, <1>4
    <3> QED
      BY <1>3, <1>4, <3>1, BeginningIs
  <2>2. ~Ended(kept)
    <3>1. Len(kept) = 0
      BY <2>1
    <3> HIDE DEF kept
    <3> QED
      BY <3>1 DEF Ended
  <2>3. out = Range(Chunk(m))
    <3>1. Range(Chunk(m)) = {Chunk(m)[k] : k \in 1 .. 1}
      BY <1>4, ChunkIs DEF Range
    <3>2. {Chunk(m)[k] : k \in 1 .. 1} = {Chunk(m)[1]}
      OBVIOUS
    <3> QED
      BY <1>3, <1>4, <2>1, <2>2, <3>1, <3>2
  <2> HIDE DEF out, kept
  <2> QED
    BY <1>1, <1>2, <1>4, <2>1, <2>2, <2>3, CachedAll DEF AfterPieces
<1>5. CASE Pieces(m) # 1
  <2>1. kept = Beginning(m, i) /\ Len(kept) = i /\ kept[i] = f
    BY <1>3, <1>5, BeginningIs
  <2>2. Ended(kept) <=> i = Pieces(m)
    BY <1>2, <1>3, <1>5, <2>1 DEF Ended
  <2>3. out = IF i = Pieces(m) THEN Range(kept) ELSE {}
    BY <1>3, <1>5, <2>2
  <2>4. i = Pieces(m) => kept = Chunk(m)
    BY <2>1, BeginningIs
  <2> HIDE DEF out, kept
  <2>5. CASE i = Pieces(m)
    BY <1>1, <1>2, <2>2, <2>3, <2>4, <2>5, CachedAll DEF AfterPieces
  <2>6. CASE i # Pieces(m)
    <3>1. i < Pieces(m)
      BY <1>2, <2>6
    <3> QED
      BY <1>1, <2>1, <2>2, <2>3, <2>6, <3>1, CachedNone DEF AfterPieces
  <2> QED
    BY <2>5, <2>6
<1> QED
  BY <1>4, <1>5

(***************************************************************************)
(* The records of a datagram                                               *)
(***************************************************************************)

\* What takes the turns of the loop is what the loop computes.
LEMMA RecordsAre ==
    ASSUME NEW st, NEW packets, Len(packets) \in Nat, NEW g,
           g = [i \in 0 .. Len(packets) |->
                   IF i = 0 THEN st ELSE Record(g[i - 1], packets[i])]
    PROVE  Records(st, packets) = g[Len(packets)]
<1> DEFINE n == Len(packets)
           Loop(f) == f = [i \in 0 .. n |-> IF i = 0 THEN st ELSE Record(f[i - 1], packets[i])]
           F == CHOOSE f : Loop(f)
<1>1. Records(st, packets) = F[n]
  BY DEF Records
<1>2. Loop(g) /\ n \in Nat
  OBVIOUS
<1>3. Loop(F)
  BY <1>2
<1> HIDE DEF F, n
<1>4. /\ \A i \in 0 .. n : F[i] = IF i = 0 THEN st ELSE Record(F[i - 1], packets[i])
      /\ \A i \in 0 .. n : g[i] = IF i = 0 THEN st ELSE Record(g[i - 1], packets[i])
  BY <1>2, <1>3
<1> HIDE DEF Loop
<1> DEFINE Bad == {k \in 0 .. n : F[k] # g[k]}
<1>5. Bad = {}
  <2> SUFFICES ASSUME Bad # {}
               PROVE  FALSE
    OBVIOUS
  <2>1. PICK k \in Bad : \A j \in Bad : k <= j
    <3>1. Bad \in SUBSET Nat
      BY <1>2
    <3> HIDE DEF Bad
    <3> QED
      BY <3>1, Least
  <2>2. k \in 0 .. n /\ F[k] # g[k]
    BY <2>1
  <2>3. k # 0
    BY <1>2, <1>4, <2>2
  <2>4. k - 1 \in 0 .. n /\ ~(k <= k - 1)
    BY <1>2, <2>2, <2>3
  <2>5. F[k - 1] = g[k - 1]
    BY <2>1, <2>4
  <2> QED
    BY <1>4, <2>2, <2>3, <2>5
<1>6. F[n] = g[n]
  <2>1. n \in 0 .. n
    BY <1>2
  <2>2. n \notin Bad
    BY <1>5
  <2> QED
    BY <2>1, <2>2
<1> QED
  BY <1>1, <1>6 DEF n

LEMMA OneRecord ==
    ASSUME NEW st, NEW f
    PROVE  Records(st, <<f>>) = Record(st, f)
<1> DEFINE packets == <<f>>
           g == [i \in 0 .. 1 |-> IF i = 0 THEN st ELSE Record(st, f)]
<1>1. Len(packets) = 1 /\ packets[1] = f
  OBVIOUS
<1>2. g[0] = st /\ g[1] = Record(st, f)
  OBVIOUS
<1> HIDE DEF packets
<1>3. g = [i \in 0 .. Len(packets) |-> IF i = 0 THEN st ELSE Record(g[i - 1], packets[i])]
  <2>1. \A i \in 0 .. 1 : g[i] = IF i = 0 THEN st ELSE Record(g[i - 1], packets[i])
    BY <1>1, <1>2
  <2>2. g = [i \in 0 .. 1 |-> g[i]]
    OBVIOUS
  <2> HIDE DEF g
  <2> QED
    BY <1>1, <2>1, <2>2
<1> HIDE DEF g
<1>4. Records(st, packets) = g[Len(packets)]
  BY <1>1, <1>3, RecordsAre
<1> QED
  BY <1>1, <1>2, <1>4 DEF packets

\* A datagram that has all fragments of a message: it is handed on whole.
LEMMA RecordsOfMessage ==
    ASSUME NEW c \in CacheType, NEW m \in Messages
    PROVE  Records([buffer |-> <<>>, cache |-> c], Chunk(m))
             = [buffer |-> <<>>, cache |-> WithWhole(c, m)]
<1> DEFINE st == [buffer |-> <<>>, cache |-> c]
           n == Pieces(m)
           g == [i \in 0 .. n |-> AfterPieces(c, m, i)]
<1>1. n \in Nat \ {0} /\ Len(Chunk(m)) = n
  BY PiecesAre, ChunkIs
<1>2. AfterPieces(c, m, 0) = st
  BY <1>1, BeginningIs DEF AfterPieces
<1>3. ASSUME NEW i \in 1 .. n
      PROVE  AfterPieces(c, m, i) = Record(AfterPieces(c, m, i - 1), Chunk(m)[i])
  <2>1. i - 1 < n
    BY <1>1
  <2>2. AfterPieces(c, m, i - 1) = [buffer |-> Beginning(m, i - 1), cache |-> c]
    BY <2>1 DEF AfterPieces
  <2> QED
    BY <2>2, RecordInOrder
<1> HIDE DEF st
<1>4. g = [i \in 0 .. n |-> IF i = 0 THEN st ELSE Record(g[i - 1], Chunk(m)[i])]
  <2>1. ASSUME NEW i \in 0 .. n
        PROVE  g[i] = IF i = 0 THEN st ELSE Record(g[i - 1], Chunk(m)[i])
    <3>1. CASE i = 0
      BY <1>1, <1>2, <3>1
    <3>2. CASE i # 0
      <4>1. i \in 1 .. n /\ i - 1 \in 0 .. n
        BY <1>1, <3>2
      <4>2. g[i] = AfterPieces(c, m, i) /\ g[i - 1] = AfterPieces(c, m, i - 1)
        BY <4>1
      <4> HIDE DEF g
      <4> QED
        BY <1>3, <3>2, <4>1, <4>2
    <3> QED
      BY <3>1, <3>2
  <2>2. g = [i \in 0 .. n |-> g[i]]
    OBVIOUS
  <2> HIDE DEF g
  <2> QED
    BY <2>1, <2>2
<1>5. g[n] = AfterPieces(c, m, n)
  BY <1>1
<1> HIDE DEF g, n
<1>6. Records(st, Chunk(m)) = g[n]
  BY <1>1, <1>4, RecordsAre
<1>7. AfterPieces(c, m, n) = [buffer |-> <<>>, cache |-> WithWhole(c, m)]
  BY <1>1 DEF AfterPieces, n
<1> QED
  BY <1>5, <1>6, <1>7 DEF st

(***************************************************************************)
(* The datagrams of the flight                                             *)
(***************************************************************************)

LEMMA SplitIs ==
    ASSUME NEW m \in Messages
    PROVE  /\ apart => /\ DOMAIN Split(m) = 1 .. Pieces(m)
                       /\ Len(Split(m)) = Pieces(m)
                       /\ \A i \in 1 .. Pieces(m) : Split(m)[i] = <<Chunk(m)[i]>>
           /\ ~apart => /\ DOMAIN Split(m) = {1}
                        /\ Len(Split(m)) = 1
                        /\ Split(m)[1] = Chunk(m)
<1>1. Pieces(m) \in Nat \ {0}
  BY PiecesAre
<1>2. CASE apart
  <2>1. Split(m) = [i \in 1 .. Pieces(m) |-> <<Chunk(m)[i]>>]
    BY <1>2 DEF Split
  <2> QED
    BY <1>1, <1>2, <2>1
<1>3. CASE ~apart
  <2>1. Split(m) = <<Chunk(m)>>
    BY <1>3 DEF Split
  <2> QED
    BY <1>3, <2>1
<1> QED
  BY <1>2, <1>3

LEMMA SomeDatagram ==
    /\ \A m \in Messages : <<m, 1>> \in Datagrams
    /\ First \in Datagrams /\ First # Broken
    /\ \A d \in Datagrams :
          /\ d = <<d[1], d[2]>> /\ d # Broken
          /\ d[1] \in Messages /\ d[2] \in DOMAIN Split(d[1])
          /\ d[2] \in 1 .. Len(Split(d[1])) /\ Len(Split(d[1])) \in Nat
    /\ \A m \in Messages, i \in Nat : i \in DOMAIN Split(m) => <<m, i>> \in Datagrams
<1>1. \A m \in Messages : Pieces(m) \in Nat \ {0}
  BY PiecesAre
<1>2. \A m \in Messages : Len(Split(m)) \in Nat \ {0} /\ DOMAIN Split(m) = 1 .. Len(Split(m))
  <2> SUFFICES ASSUME NEW m \in Messages
               PROVE  Len(Split(m)) \in Nat \ {0} /\ DOMAIN Split(m) = 1 .. Len(Split(m))
    OBVIOUS
  <2>1. CASE apart
    BY <1>1, <2>1, SplitIs
  <2>2. CASE ~apart
    <3>1. {1} = 1 .. 1
      OBVIOUS
    <3> QED
      BY <2>2, <3>1, SplitIs
  <2> QED
    BY <2>1, <2>2
<1>3. \A m \in Messages : \A i : i \in DOMAIN Split(m) => <<m, i>> \in Datagrams
  BY DEF Datagrams
<1>4. \A m \in Messages : 1 \in DOMAIN Split(m)
  BY <1>2
<1>5. 1 \in Messages /\ 0 \notin Messages
  BY Flight
<1>6. \A d \in Datagrams : d = <<d[1], d[2]>> /\ d[1] \in Messages /\ d[2] \in DOMAIN Split(d[1])
  BY DEF Datagrams
<1>7. \A d \in Datagrams : d # Broken
  BY <1>5, <1>6 DEF Broken
<1> QED
  BY <1>2, <1>3, <1>4, <1>5, <1>6, <1>7 DEF First

\* The order of the flight.
LEMMA AfterIs ==
    ASSUME NEW m \in Messages, NEW i \in DOMAIN Split(m)
    PROVE  LET a == After(<<m, i>>)
           IN  /\ a \in Datagrams
               /\ i < Len(Split(m)) => a = <<m, i + 1>>
               /\ ~(i < Len(Split(m))) =>
                     \/ m + 1 \in Messages /\ a = <<m + 1, 1>>
                     \/ m = Len(Sizes) /\ a = <<1, 1>>
<1> DEFINE a == After(<<m, i>>)
<1>1. a = IF i < Len(Split(m)) THEN <<m, i + 1>>
          ELSE IF m < Len(Sizes) THEN <<m + 1, 1>> ELSE <<1, 1>>
  BY DEF After, First
<1>2. /\ i \in 1 .. Len(Split(m)) /\ Len(Split(m)) \in Nat
      /\ DOMAIN Split(m) = 1 .. Len(Split(m))
  <2>1. CASE apart
    BY <2>1, SplitIs, PiecesAre
  <2>2. CASE ~apart
    <3>1. {1} = 1 .. 1
      OBVIOUS
    <3> QED
      BY <2>2, <3>1, SplitIs
  <2> QED
    BY <2>1, <2>2
<1>3. m \in 1 .. Len(Sizes) /\ Len(Sizes) \in Nat /\ Messages = 1 .. Len(Sizes)
  BY Flight
<1>4. i < Len(Split(m)) => i + 1 \in DOMAIN Split(m) /\ i + 1 \in Nat
  BY <1>2
<1>5. m < Len(Sizes) => m + 1 \in Messages
  BY <1>3
<1>6. ~(m < Len(Sizes)) => m = Len(Sizes)
  BY <1>3
<1>7. 1 \in Messages
  BY <1>3
<1> QED
  BY <1>1, <1>4, <1>5, <1>6, <1>7, SomeDatagram

(***************************************************************************)
(* The steps                                                               *)
(***************************************************************************)

LEMMA InitHolds == Init => IInv
<1> SUFFICES ASSUME Init
             PROVE  IInv
  OBVIOUS
<1>1. /\ apart \in BOOLEAN /\ buffer = <<>>
      /\ cache = [m \in Messages |-> [known |-> FALSE, filled |-> {}]]
      /\ due = First /\ disturbed = FALSE /\ passed = FALSE
  BY DEF Init
<1>2. cache \in [Messages -> Known] /\ \A m \in Messages : ~cache[m].known
  <2>1. [known |-> FALSE, filled |-> {}] \in Known
    BY DEF Known
  <2> QED
    BY <1>1, <2>1
<1>3. TypeOK
  <2>1. <<>> \in Seq(Fragments)
    OBVIOUS
  <2>2. First \in Datagrams
    BY SomeDatagram
  <2> QED
    BY <1>1, <1>2, <2>1, <2>2 DEF TypeOK
<1>4. WholeUnlessTornApart /\ OnePassSuffices
  BY <1>1, <1>2 DEF WholeUnlessTornApart, OnePassSuffices
<1>5. PassKeepsUp
  <2>1. \A m \in Messages : ~(m < 1)
    BY Flight
  <2> QED
    BY <1>1, <2>1 DEF PassKeepsUp, First
<1>6. BufferIsBeginning
  <2>1. 1 \in Messages /\ 1 - 1 = 0
    BY Flight
  <2>2. Beginning(1, 0) = <<>>
    BY <2>1, BeginningIs
  <2> QED
    BY <1>1, <2>1, <2>2, SomeDatagram DEF BufferIsBeginning, First
<1> QED
  BY <1>3, <1>4, <1>5, <1>6 DEF IInv

\* What any datagram of the flight does to the buffer and the cache.
Received(m, i) ==
    /\ buffer' \in Seq(Fragments)
    /\ cache' \in CacheType
    /\ \A k \in Messages : cache[k].known => cache'[k].known
    /\ apart /\ i < Len(Split(m)) => buffer' # <<>>
    /\ i = Len(Split(m)) /\ (apart /\ i > 1 => buffer # <<>>) => cache'[m].known

\* What is whole stays so, if nothing went wrong or the fragments come together.
StaysWhole ==
    /\ ~(apart /\ disturbed') => \A k \in Messages :
          cache'[k].known => cache'[k].filled = 0 .. Sizes[k] - 1
    /\ ~apart => buffer' = <<>>
    /\ apart /\ ~disturbed' => buffer' = Beginning(due'[1], due'[2] - 1)

LEMMA WithWholeIs ==
    ASSUME NEW c \in CacheType, NEW m \in Messages
    PROVE  /\ WithWhole(c, m) \in CacheType
           /\ WithWhole(c, m)[m].known
           /\ \A k \in Messages : c[k].known => WithWhole(c, m)[k].known
           /\ (\A k \in Messages : c[k].known => c[k].filled = 0 .. Sizes[k] - 1) =>
                 \A k \in Messages : WithWhole(c, m)[k].known =>
                     WithWhole(c, m)[k].filled = 0 .. Sizes[k] - 1
<1> DEFINE w == [known |-> TRUE, filled |-> 0 .. Sizes[m] - 1]
<1>1. w \in Known /\ w.known /\ w.filled = 0 .. Sizes[m] - 1
  BY DEF Known
<1> HIDE DEF w
<1>2. WithWhole(c, m) = [k \in Messages |-> IF k = m /\ ~c[m].known THEN w ELSE c[k]]
  BY DEF WithWhole, w
<1>3. \A k \in Messages : c[k] \in Known
  BY DEF CacheType
<1> QED
  BY <1>1, <1>2, <1>3 DEF CacheType

LEMMA ReceiveTogether ==
    ASSUME IInv, NEW m \in Messages, NEW i \in DOMAIN Split(m), Receive(<<m, i>>), ~apart
    PROVE  Received(m, i) /\ StaysWhole
<1>1. buffer = <<>> /\ cache \in CacheType /\ \A k \in Messages : cache[k].known => Whole(k)
  BY DEF IInv, TypeOK, WholeUnlessTornApart, CacheType
<1>2. i = 1 /\ Len(Split(m)) = 1 /\ Split(m)[i] = Chunk(m)
  BY SplitIs
<1> DEFINE d == <<m, i>>
           st == Records([buffer |-> buffer, cache |-> cache], Packets(d))
<1>3. Packets(d) = Chunk(m)
  BY <1>2 DEF Packets
<1>4. st = [buffer |-> <<>>, cache |-> WithWhole(cache, m)]
  BY <1>1, <1>3, RecordsOfMessage
<1>5. buffer' = st.buffer /\ cache' = st.cache
  BY DEF Receive
<1> HIDE DEF st
<1>6. buffer' = <<>> /\ cache' = WithWhole(cache, m)
  BY <1>4, <1>5
<1>7. \A k \in Messages : cache[k].known => cache[k].filled = 0 .. Sizes[k] - 1
  BY <1>1 DEF Whole
<1>8. Received(m, i)
  <2>1. <<>> \in Seq(Fragments)
    OBVIOUS
  <2> QED
    BY <1>1, <1>6, <2>1, WithWholeIs DEF Received
<1>9. StaysWhole
  BY <1>1, <1>6, <1>7, WithWholeIs DEF StaysWhole
<1> QED
  BY <1>8, <1>9

LEMMA ReceiveApart ==
    ASSUME IInv, NEW m \in Messages, NEW i \in DOMAIN Split(m), Receive(<<m, i>>), apart
    PROVE  Received(m, i) /\ StaysWhole
<1>1. buffer \in Seq(Fragments) /\ cache \in CacheType
  BY DEF IInv, TypeOK, CacheType
<1>2. /\ i \in 1 .. Pieces(m) /\ Len(Split(m)) = Pieces(m)
      /\ Split(m)[i] = <<Chunk(m)[i]>>
  BY SplitIs
<1> DEFINE d == <<m, i>>
           f == Chunk(m)[i]
           st == Records([buffer |-> buffer, cache |-> cache], Packets(d))
           r == Record([buffer |-> buffer, cache |-> cache], f)
<1>3. Packets(d) = <<f>>
  BY <1>2 DEF Packets
<1>4. st = r
  BY <1>3, OneRecord
<1>5. buffer' = st.buffer /\ cache' = st.cache
  BY DEF Receive
<1>6. buffer' = r.buffer /\ cache' = r.cache
  BY <1>4, <1>5
<1>7. /\ r.buffer \in Seq(Fragments)
      /\ r.cache \in CacheType
      /\ \A k \in Messages : cache[k].known => r.cache[k].known
      /\ i < Pieces(m) => r.buffer # <<>>
      /\ i = Pieces(m) /\ (i > 1 => buffer # <<>>) => r.cache[m].known
  BY <1>1, <1>2, RecordKeeps
<1> HIDE DEF r, st
<1>8. Received(m, i)
  BY <1>2, <1>6, <1>7 DEF Received
<1>9. StaysWhole
  <2> SUFFICES ASSUME ~disturbed'
               PROVE  /\ \A k \in Messages :
                            cache'[k].known => cache'[k].filled = 0 .. Sizes[k] - 1
                      /\ buffer' = Beginning(due'[1], due'[2] - 1)
    BY DEF StaysWhole
  <2>1. ~disturbed /\ d = due /\ due' = After(d)
    BY DEF Receive
  <2>2. buffer = Beginning(m, i - 1) /\ \A k \in Messages : cache[k].known => Whole(k)
    <3>1. buffer = Beginning(due[1], due[2] - 1)
      BY <2>1 DEF IInv, BufferIsBeginning
    <3>2. due[1] = m /\ due[2] = i
      BY <2>1
    <3> QED
      BY <2>1, <3>1, <3>2 DEF IInv, WholeUnlessTornApart
  <2>3. r = AfterPieces(cache, m, i)
    BY <1>1, <1>2, <2>2, RecordInOrder DEF r
  <2>4. /\ After(d) \in Datagrams
        /\ i < Pieces(m) => After(d) = <<m, i + 1>>
        /\ ~(i < Pieces(m)) =>
              \/ m + 1 \in Messages /\ After(d) = <<m + 1, 1>>
              \/ m = Len(Sizes) /\ After(d) = <<1, 1>>
    BY <1>2, AfterIs
  <2>5. \A k \in Messages : cache[k].known => cache[k].filled = 0 .. Sizes[k] - 1
    BY <2>2 DEF Whole
  <2>6. CASE i < Pieces(m)
    <3>1. buffer' = Beginning(m, i) /\ cache' = cache
      BY <1>6, <2>3, <2>6 DEF AfterPieces
    <3>2. due'[1] = m /\ due'[2] = i + 1 /\ (i + 1) - 1 = i
      <4>1. i \in Int
        BY <1>2
      <4> QED
        BY <2>1, <2>4, <2>6, <4>1
    <3> QED
      BY <2>5, <3>1, <3>2
  <2>7. CASE ~(i < Pieces(m))
    <3>1. buffer' = <<>> /\ cache' = WithWhole(cache, m)
      BY <1>6, <2>3, <2>7 DEF AfterPieces
    <3>2. due'[1] \in Messages /\ due'[2] = 1 /\ 1 - 1 = 0
      BY <2>1, <2>4, <2>7, Flight
    <3>3. Beginning(due'[1], 0) = <<>>
      BY <3>2, BeginningIs
    <3> QED
      BY <1>1, <2>5, <3>1, <3>2, <3>3, WithWholeIs
  <2> QED
    BY <2>6, <2>7
<1> QED
  BY <1>8, <1>9

LEMMA ReceiveHolds ==
    ASSUME IInv, NEW d \in Datagrams, Receive(d)
    PROVE  IInv'
<1> DEFINE m == d[1]
           i == d[2]
           n == Len(Split(m))
<1>1. /\ d = <<m, i>> /\ d # Broken /\ m \in Messages /\ i \in DOMAIN Split(m)
      /\ i \in 1 .. n /\ n \in Nat
  BY SomeDatagram
<1>2. /\ due' = IF d \in {due, First} THEN After(d) ELSE Broken
      /\ disturbed' = (disturbed \/ d # due)
      /\ passed' = (passed \/ (d = due /\ After(d) = First))
      /\ apart' = apart
  BY DEF Receive
<1>3. Received(m, i) /\ StaysWhole
  <2>1. Receive(<<m, i>>)
    BY <1>1
  <2> HIDE DEF m, i
  <2> QED
    BY <1>1, <2>1, ReceiveTogether, ReceiveApart
<1>4. /\ After(d) \in Datagrams
      /\ i < n => After(d) = <<m, i + 1>>
      /\ ~(i < n) =>
            \/ m + 1 \in Messages /\ After(d) = <<m + 1, 1>>
            \/ m = Len(Sizes) /\ After(d) = <<1, 1>>
  <2> HIDE DEF m, i
  <2> QED
    BY <1>1, AfterIs DEF n
<1>5. Datagrams' = Datagrams
  BY <1>2 DEF Datagrams, Split
<1>6. Messages = 1 .. Len(Sizes) /\ Len(Sizes) \in Nat /\ m \in Nat
  BY <1>1, Flight
<1>7. First = <<1, 1>>
  BY DEF First
<1>8. d = First => m = 1 /\ i = 1
  BY <1>7
<1> HIDE DEF m, i, n
<1>9. d \in {due, First} =>
        /\ \A k \in Messages : k < m => cache'[k].known
        /\ ~(i < n) => cache'[m].known
  <2>1. CASE d = due
    <3>1. due # Broken /\ due[1] = m /\ due[2] = i
      BY <1>1, <2>1 DEF m, i
    <3>2. /\ \A k \in Messages : k < m => cache[k].known
          /\ apart /\ i > 1 => buffer # <<>>
      BY <3>1 DEF IInv, PassKeepsUp
    <3>3. ~(i < n) => i = n
      BY <1>1
    <3> QED
      BY <1>3, <3>2, <3>3 DEF Received, n
  <2>2. CASE d = First
    <3>1. m = 1 /\ i = 1
      BY <1>8, <2>2
    <3>2. ~(i < n) => i = n
      BY <1>1
    <3>3. \A k \in Messages : ~(k < m)
      BY <1>6, <3>1
    <3> QED
      BY <1>3, <3>1, <3>2, <3>3 DEF Received, n
  <2> QED
    BY <2>1, <2>2
<1>10. TypeOK'
  <2>1. buffer' \in Seq(Fragments) /\ cache' \in [Messages -> Known]
    BY <1>3 DEF Received, CacheType
  <2>2. due' \in Datagrams' \cup {Broken}
    BY <1>2, <1>4, <1>5
  <2>3. disturbed' \in BOOLEAN /\ passed' \in BOOLEAN /\ apart' \in BOOLEAN
    BY <1>2 DEF IInv, TypeOK
  <2> QED
    BY <2>1, <2>2, <2>3 DEF TypeOK
<1>11. WholeUnlessTornApart'
  BY <1>2, <1>3 DEF StaysWhole, WholeUnlessTornApart, Whole
<1>12. OnePassSuffices'
  <2> SUFFICES ASSUME passed', NEW k \in Messages
               PROVE  cache'[k].known
    BY DEF OnePassSuffices
  <2>1. CASE passed
    BY <1>3, <2>1 DEF IInv, OnePassSuffices, Received
  <2>2. CASE d = due /\ After(d) = First
    <3>1. ~(i < n)
      <4>1. i + 1 # 1
        BY <1>1
      <4> QED
        BY <1>4, <1>7, <2>2, <4>1
    <3>2. m = Len(Sizes)
      <4>1. m + 1 # 1
        BY <1>1, <1>6
      <4> QED
        BY <1>4, <1>7, <2>2, <3>1, <4>1
    <3>3. k < m \/ k = m
      BY <1>6, <3>2
    <3> QED
      BY <1>9, <2>2, <3>1, <3>3
  <2> QED
    BY <1>2, <2>1, <2>2
<1>13. PassKeepsUp'
  <2> SUFFICES ASSUME due' # Broken
               PROVE  /\ \A k \in Messages : k < due'[1] => cache'[k].known
                      /\ apart' /\ due'[2] > 1 => buffer' # <<>>
    BY DEF PassKeepsUp
  <2>1. d \in {due, First} /\ due' = After(d)
    BY <1>2
  <2>2. CASE i < n
    <3>1. due'[1] = m
      BY <1>4, <2>1, <2>2
    <3> QED
      BY <1>2, <1>3, <1>9, <2>1, <2>2, <3>1 DEF Received, n
  <2>3. CASE ~(i < n)
    <3>1. due'[2] = 1 /\ (due'[1] = m + 1 \/ due'[1] = 1)
      BY <1>4, <2>1, <2>3
    <3>2. \A k \in Messages : k < due'[1] => k < m \/ k = m
      BY <1>6, <3>1
    <3>3. ~(due'[2] > 1)
      BY <3>1
    <3> QED
      BY <1>9, <2>1, <2>3, <3>2, <3>3
  <2> QED
    BY <2>2, <2>3
<1>14. BufferIsBeginning'
  <2>1. ~disturbed' => due' # Broken
    BY <1>2, <1>4, SomeDatagram
  <2>2. apart' /\ ~disturbed' => buffer' = Beginning(due'[1], due'[2] - 1)
    BY <1>2, <1>3 DEF StaysWhole
  <2> QED
    BY <2>1, <2>2 DEF BufferIsBeginning
<1> QED
  BY <1>10, <1>11, <1>12, <1>13, <1>14 DEF IInv

LEMMA UnchangedHolds == IInv /\ UNCHANGED vars => IInv'
BY DEF vars, IInv, TypeOK, WholeUnlessTornApart, OnePassSuffices, PassKeepsUp,
       BufferIsBeginning, Whole, Datagrams, Split

\* The inductive invariant: a pass that has come in order so far has handed on every
\* message before the one that is due, and the buffer is not empty while a message is
\* under way; while nothing went wrong it holds exactly the beginning of that message.
THEOREM Invariance == Spec => []IInv
<1>1. IInv /\ [Next]_vars => IInv'
  BY ReceiveHolds, UnchangedHolds DEF Next
<1> QED
  BY <1>1, InitHolds, PTL DEF Spec

\* A message that is handed on is whole, whatever is lost, repeated or reordered, unless
\* its fragments come in datagrams of their own, and then as long as nothing is
\* (handleFragmentHandshake, chunk and assemble).
THEOREM HandedOnWhole == Spec => []WholeUnlessTornApart
<1>1. IInv => WholeUnlessTornApart
  BY DEF IInv
<1> QED
  BY <1>1, Invariance, PTL

\* One transmission of the flight in order hands on all its messages, whatever was left in
\* the buffer before (handleFragmentHandshake looks at the last fragment only).
THEOREM OnePass == Spec => []OnePassSuffices
<1>1. IInv => OnePassSuffices
  BY DEF IInv
<1> QED
  BY <1>1, Invariance, PTL
=============================================================================
