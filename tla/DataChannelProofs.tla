------------------------- MODULE DataChannelProofs -------------------------
(***************************************************************************)
(* Proofs about DataChannel, for every number of channels, ids, requests   *)
(* and messages.  First the flush of the queue and the reset request, as   *)
(* facts about the values they are given, then one section for each        *)
(* invariant.                                                              *)
(***************************************************************************)
EXTENDS DataChannel, FiniteSetTheorems, NaturalsInduction, TLAPS

\* A set of naturals has a least element.
LEMMA Least ==
    ASSUME NEW S \in SUBSET Nat, S # {}
    PROVE  \E n \in S : \A m \in S : n <= m
<1> DEFINE R == OpToRel(<, Nat)
<1>1. IsWellFoundedOn(R, Nat)
  BY NatLessThanWellFounded
<1>2. PICK n \in S : \A m \in S : <<m, n>> \notin R
  <2> HIDE DEF R
  <2> QED
    BY <1>1, WFMin
<1>3. \A m \in S : ~(m < n)
  BY <1>2 DEF OpToRel
<1> QED
  BY <1>3

LEMMA PeerIs ==
    ASSUME NEW e \in Endpoint
    PROVE  Peer(e) \in Endpoint /\ Peer(e) # e /\ Peer(Peer(e)) = e
BY BoundsAssumption DEF Endpoint, Peer

(***************************************************************************)
(* The state of one endpoint                                               *)
(***************************************************************************)

\* The register is true: a channel is registered for the id it has.
Sound(chans, table, queue) ==
    /\ chans \in Seq(Channel)
    /\ Len(chans) <= MaxChannels
    /\ table \in [StreamId -> {NoChannel} \cup DOMAIN chans]
    /\ \A s \in StreamId : table[s] # NoChannel => chans[table[s]].id = s
    /\ queue \in Seq(QueueItem)
    /\ \A i \in DOMAIN queue : queue[i].channel \in DOMAIN chans

\* What the turns of the flush, a loop over the queue, leave of what it starts with.
Turned(e, chans, table, queue, acc) ==
    /\ acc.channels \in Seq(Channel)
    /\ Len(acc.channels) = Len(chans)
    /\ acc.table \in [StreamId -> {NoChannel} \cup DOMAIN chans]
    /\ \A s \in StreamId : acc.table[s] # NoChannel => acc.channels[acc.table[s]].id = s
    /\ \A c \in DOMAIN chans :
          /\ acc.channels[c].readyState = chans[c].readyState
          /\ acc.channels[c].negotiated = chans[c].negotiated
          /\ \/ acc.channels[c].id = chans[c].id
             \/ /\ chans[c].id = Unassigned
                /\ acc.channels[c].id \in StreamId
                /\ acc.table[acc.channels[c].id] = c
                /\ \E i \in DOMAIN queue : queue[i].channel = c
                /\ e = Client => acc.channels[c].id # 0
    /\ \A s \in StreamId :
          \/ acc.table[s] = table[s]
          \/ /\ table[s] = NoChannel
             /\ acc.table[s] \in DOMAIN chans
             /\ chans[acc.table[s]].id = Unassigned
    /\ acc.streams \subseteq StreamId
    /\ \A m \in acc.out :
          \E i \in DOMAIN queue :
              /\ queue[i].kind # "DATA"
              /\ acc.channels[queue[i].channel].id \in StreamId
              /\ m = [type |-> queue[i].kind, to |-> Peer(e),
                      stream |-> acc.channels[queue[i].channel].id]

(***************************************************************************)
(* The flush                                                               *)
(***************************************************************************)

\* An endpoint that has a channel without an id has an id for it.
LEMMA FreeIdIs ==
    ASSUME NEW e \in Endpoint,
           NEW chans \in Seq(Channel), Len(chans) <= MaxChannels,
           NEW table \in [StreamId -> {NoChannel} \cup DOMAIN chans],
           \A s \in StreamId : table[s] # NoChannel => chans[table[s]].id = s,
           NEW c \in DOMAIN chans, chans[c].id = Unassigned
    PROVE  /\ FreeId(e, table) \in StreamId
           /\ table[FreeId(e, table)] = NoChannel
           /\ e = Client => FreeId(e, table) # 0
<1> DEFINE p == IF e = Client THEN 1 ELSE 0
           Free == {s \in StreamId : s % 2 = p /\ table[s] = NoChannel}
           f == [k \in 1 .. MaxChannels |-> table[p + 2 * (k - 1)]]
           T == (1 .. MaxChannels) \ {c}
<1>1. MaxId \in Nat /\ MaxChannels \in Nat /\ 2 * MaxChannels <= MaxId + 1
  BY BoundsAssumption, IdsSuffice
<1>2. c \in 1 .. MaxChannels /\ DOMAIN chans \subseteq 1 .. MaxChannels /\ DOMAIN chans \subseteq Nat
  BY <1>1
<1>3. p \in {0, 1}
  OBVIOUS
<1>4. ASSUME NEW k \in 1 .. MaxChannels
      PROVE  p + 2 * (k - 1) \in StreamId /\ (p + 2 * (k - 1)) % 2 = p
  <2> HIDE DEF p
  <2> QED
    BY <1>1, <1>3 DEF StreamId
<1>5. Free # {}
  <2> SUFFICES ASSUME Free = {}
               PROVE  FALSE
    OBVIOUS
  <2>1. ASSUME NEW k \in 1 .. MaxChannels
        PROVE  /\ f[k] \in T
               /\ chans[f[k]].id = p + 2 * (k - 1)
    <3>1. p + 2 * (k - 1) \in StreamId /\ table[p + 2 * (k - 1)] # NoChannel
      BY <1>4
    <3>2. chans[f[k]].id = p + 2 * (k - 1) /\ f[k] \in DOMAIN chans
      <4> HIDE DEF p
      <4> QED
        BY <3>1
    <3>3. p + 2 * (k - 1) # Unassigned
      <4> HIDE DEF p
      <4> QED
        BY <1>1, <3>1 DEF StreamId, Unassigned
    <3> HIDE DEF f, p
    <3> QED
      BY <1>2, <3>2, <3>3
  <2>2. IsFiniteSet(1 .. MaxChannels) /\ Cardinality(1 .. MaxChannels) = MaxChannels
    BY <1>1, FS_Interval
  <2>3. IsFiniteSet(T) /\ Cardinality(T) = MaxChannels - 1
    BY <1>1, <1>2, <2>2, FS_RemoveElement
  <2>4. f \in [1 .. MaxChannels -> T]
    <3>1. \A k \in 1 .. MaxChannels : f[k] \in T
      BY <2>1
    <3> QED
      BY <3>1
  <2>5. PICK j, k \in 1 .. MaxChannels : j # k /\ f[j] = f[k]
    <3> HIDE DEF f, T
    <3> QED
      BY <1>1, <2>2, <2>3, <2>4, FS_PigeonHole
  <2>6. p + 2 * (j - 1) = p + 2 * (k - 1)
    <3> HIDE DEF f, p
    <3> QED
      BY <2>1, <2>5
  <2> HIDE DEF f, p
  <2> QED
    BY <1>1, <1>3, <2>5, <2>6
<1>6. PICK s \in Free : \A r \in Free : s <= r
  <2>1. Free \in SUBSET Nat
    BY <1>1 DEF StreamId
  <2> HIDE DEF Free
  <2> QED
    BY <1>5, <2>1, Least
<1>7. \E t \in StreamId : /\ t % 2 = IF e = Client THEN 1 ELSE 0
                          /\ table[t] = NoChannel
                          /\ \A r \in StreamId : r < t /\ r % 2 = t % 2 => table[r] # NoChannel
  <2>1. s \in StreamId /\ s % 2 = p /\ table[s] = NoChannel
    BY <1>6
  <2>2. ASSUME NEW r \in StreamId, r < s, r % 2 = s % 2
        PROVE  table[r] # NoChannel
    <3>1. ~(s <= r)
      BY <1>1, <2>1, <2>2 DEF StreamId
    <3> QED
      BY <1>6, <2>1, <2>2, <3>1
  <2> QED
    BY <2>1, <2>2
<1>8. /\ FreeId(e, table) \in StreamId
      /\ FreeId(e, table) % 2 = IF e = Client THEN 1 ELSE 0
      /\ table[FreeId(e, table)] = NoChannel
  BY <1>7 DEF FreeId
<1> QED
  BY <1>8

LEMMA TurnedAtFirst ==
    ASSUME NEW e \in Endpoint, NEW chans, NEW table, NEW queue, Sound(chans, table, queue),
           NEW streams \in SUBSET StreamId
    PROVE  Turned(e, chans, table, queue,
                  [channels |-> chans, table |-> table, streams |-> streams, out |-> {}])
BY DEF Turned, Sound

\* One turn.
LEMMA OneTurn ==
    ASSUME NEW e \in Endpoint, NEW chans, NEW table, NEW queue, Sound(chans, table, queue),
           NEW acc, Turned(e, chans, table, queue, acc), NEW i \in DOMAIN queue
    PROVE  Turned(e, chans, table, queue, FlushItem(e, acc, queue[i]))
<1> DEFINE item == queue[i]
           c == item.channel
           new == acc.channels[c].id = Unassigned
           s == IF new THEN FreeId(e, acc.table) ELSE acc.channels[c].id
           a == [acc.channels EXCEPT ![c].id = s]
           b == IF new THEN [acc.table EXCEPT ![s] = c] ELSE acc.table
           o == IF item.kind = "DATA" THEN acc.out
                ELSE acc.out \cup {[type |-> item.kind, to |-> Peer(e), stream |-> s]}
           res == FlushItem(e, acc, item)
<1>1. res = [channels |-> a, table |-> b, streams |-> acc.streams \cup {s}, out |-> o]
  BY DEF FlushItem
<1>2. /\ chans \in Seq(Channel) /\ Len(chans) \in Nat /\ Len(chans) <= MaxChannels
      /\ DOMAIN chans = 1 .. Len(chans)
      /\ table \in [StreamId -> {NoChannel} \cup DOMAIN chans]
      /\ c \in DOMAIN chans
  BY DEF Sound
<1>3. /\ acc.channels \in Seq(Channel)
      /\ Len(acc.channels) = Len(chans)
      /\ acc.table \in [StreamId -> {NoChannel} \cup DOMAIN chans]
      /\ \A r \in StreamId : acc.table[r] # NoChannel => acc.channels[acc.table[r]].id = r
  BY DEF Turned
<1>4. DOMAIN acc.channels = DOMAIN chans
  BY <1>2, <1>3
<1>5. \A d \in DOMAIN chans : acc.channels[d] \in Channel
  BY <1>3, <1>4
<1>6. NoChannel \notin DOMAIN chans
  BY <1>2 DEF NoChannel
<1>7. Unassigned \notin StreamId
  BY BoundsAssumption DEF Unassigned, StreamId
<1>8. new => /\ s \in StreamId
             /\ acc.table[s] = NoChannel
             /\ e = Client => s # 0
  <2>1. Len(acc.channels) <= MaxChannels
    BY <1>2, <1>3
  <2> QED
    BY <1>2, <1>3, <1>4, <2>1, FreeIdIs
<1>9. s \in StreamId
  BY <1>2, <1>5, <1>8 DEF Channel
<1> HIDE DEF s
<1>10. /\ a \in Seq(Channel) /\ Len(a) = Len(chans)
       /\ a[c] = [acc.channels[c] EXCEPT !.id = s]
       /\ \A d \in DOMAIN chans : d # c => a[d] = acc.channels[d]
  <2>1. [acc.channels[c] EXCEPT !.id = s] \in Channel
    BY <1>2, <1>5, <1>9 DEF Channel
  <2>2. a = [acc.channels EXCEPT ![c] = [acc.channels[c] EXCEPT !.id = s]]
    OBVIOUS
  <2> HIDE DEF a
  <2> QED
    BY <1>2, <1>3, <1>4, <2>1, <2>2
<1>11. /\ a[c].id = s
       /\ a[c].readyState = acc.channels[c].readyState
       /\ a[c].negotiated = acc.channels[c].negotiated
       /\ ~new => s = acc.channels[c].id
  BY <1>2, <1>5, <1>10 DEF Channel, s
<1> HIDE DEF a
<1>12. b \in [StreamId -> {NoChannel} \cup DOMAIN chans]
  BY <1>2, <1>3, <1>9
<1>13. ASSUME NEW r \in StreamId, b[r] # NoChannel
       PROVE  a[b[r]].id = r
  <2>1. CASE new /\ r = s
    BY <1>3, <1>9, <1>11, <2>1
  <2>2. CASE ~(new /\ r = s)
    <3>1. b[r] = acc.table[r] /\ acc.table[r] \in DOMAIN chans /\ acc.channels[acc.table[r]].id = r
      BY <1>3, <1>13, <2>2
    <3>2. CASE acc.table[r] = c
      BY <1>7, <1>11, <3>1, <3>2
    <3>3. CASE acc.table[r] # c
      BY <1>10, <3>1, <3>3
    <3> QED
      BY <3>2, <3>3
  <2> QED
    BY <2>1, <2>2
<1>14. \A d \in DOMAIN chans :
          /\ acc.channels[d].readyState = chans[d].readyState
          /\ acc.channels[d].negotiated = chans[d].negotiated
          /\ \/ acc.channels[d].id = chans[d].id
             \/ /\ chans[d].id = Unassigned
                /\ acc.channels[d].id \in StreamId
                /\ acc.table[acc.channels[d].id] = d
                /\ \E j \in DOMAIN queue : queue[j].channel = d
                /\ e = Client => acc.channels[d].id # 0
  BY DEF Turned
<1>15. ASSUME NEW d \in DOMAIN chans
       PROVE  /\ a[d].readyState = chans[d].readyState
              /\ a[d].negotiated = chans[d].negotiated
              /\ \/ a[d].id = chans[d].id
                 \/ /\ chans[d].id = Unassigned
                    /\ a[d].id \in StreamId
                    /\ b[a[d].id] = d
                    /\ \E j \in DOMAIN queue : queue[j].channel = d
                    /\ e = Client => a[d].id # 0
  <2>1. CASE d = c /\ new
    <3>1. chans[d].id = Unassigned
      BY <1>7, <1>14, <2>1
    <3>2. b[s] = c
      BY <1>3, <1>9, <2>1
    <3> QED
      BY <1>8, <1>9, <1>11, <1>14, <2>1, <3>1, <3>2
  <2>2. CASE ~(d = c /\ new)
    <3>1. a[d].id = acc.channels[d].id /\ a[d].readyState = acc.channels[d].readyState
            /\ a[d].negotiated = acc.channels[d].negotiated
      BY <1>10, <1>11, <2>2
    <3>2. acc.channels[d].id \in StreamId /\ acc.table[acc.channels[d].id] = d
            => b[acc.channels[d].id] = d
      BY <1>3, <1>6, <1>8, <1>9
    <3> QED
      BY <1>14, <3>1, <3>2
  <2> QED
    BY <2>1, <2>2
<1>16. ASSUME NEW r \in StreamId
       PROVE  \/ b[r] = table[r]
              \/ /\ table[r] = NoChannel
                 /\ b[r] \in DOMAIN chans
                 /\ chans[b[r]].id = Unassigned
  <2>1. \/ acc.table[r] = table[r]
        \/ /\ table[r] = NoChannel
           /\ acc.table[r] \in DOMAIN chans
           /\ chans[acc.table[r]].id = Unassigned
    BY DEF Turned
  <2>2. CASE new /\ r = s
    <3>1. b[r] = c /\ acc.table[r] = NoChannel
      BY <1>3, <1>8, <1>9, <2>2
    <3>2. table[r] = NoChannel
      BY <1>6, <2>1, <3>1
    <3>3. chans[c].id = Unassigned
      BY <1>2, <1>7, <1>14, <2>2
    <3> QED
      BY <1>2, <3>1, <3>2, <3>3
  <2>3. CASE ~(new /\ r = s)
    BY <1>3, <2>1, <2>3
  <2> QED
    BY <2>2, <2>3
<1>17. acc.streams \cup {s} \subseteq StreamId
  BY <1>9 DEF Turned
<1>18. ASSUME NEW m \in o
       PROVE  \E j \in DOMAIN queue :
                  /\ queue[j].kind # "DATA"
                  /\ a[queue[j].channel].id \in StreamId
                  /\ m = [type |-> queue[j].kind, to |-> Peer(e),
                          stream |-> a[queue[j].channel].id]
  <2>1. CASE m \in acc.out
    <3>1. PICK j \in DOMAIN queue :
              /\ queue[j].kind # "DATA"
              /\ acc.channels[queue[j].channel].id \in StreamId
              /\ m = [type |-> queue[j].kind, to |-> Peer(e),
                      stream |-> acc.channels[queue[j].channel].id]
      BY <2>1 DEF Turned
    <3>2. queue[j].channel \in DOMAIN chans
      BY DEF Sound
    <3>3. a[queue[j].channel].id = acc.channels[queue[j].channel].id
      BY <1>7, <1>10, <1>11, <3>1, <3>2
    <3> QED
      BY <3>1, <3>3
  <2>2. CASE item.kind # "DATA" /\ m = [type |-> item.kind, to |-> Peer(e), stream |-> s]
    BY <1>9, <1>11, <2>2
  <2> QED
    BY <2>1, <2>2
<1> HIDE DEF b, o
<1>19. /\ res.channels = a /\ res.table = b /\ res.streams = acc.streams \cup {s} /\ res.out = o
  BY <1>1
<1> HIDE DEF res
<1>20. Turned(e, chans, table, queue, res)
  BY <1>10, <1>12, <1>13, <1>15, <1>16, <1>17, <1>18, <1>19 DEF Turned
<1> QED
  BY <1>20 DEF res

\* The turns up to n, as the loop takes them.
TurnsTo(e, start, queue, n, f) ==
    /\ f = [i \in 0 .. n |-> f[i]]
    /\ f[0] = start
    /\ \A i \in 1 .. n : f[i] = FlushItem(e, f[i - 1], queue[i])

LEMMA TurnsExist ==
    ASSUME NEW e, NEW start, NEW queue, NEW n \in Nat
    PROVE  \E f : TurnsTo(e, start, queue, n, f)
<1> DEFINE Bad == {k \in Nat : \A f : ~TurnsTo(e, start, queue, k, f)}
<1> SUFFICES ASSUME Bad # {}
             PROVE  FALSE
  OBVIOUS
<1>1. PICK k \in Bad : \A j \in Bad : k <= j
  <2>1. Bad \in SUBSET Nat
    OBVIOUS
  <2> HIDE DEF Bad
  <2> QED
    BY <2>1, Least
<1>2. k \in Nat /\ \A f : ~TurnsTo(e, start, queue, k, f)
  BY <1>1
<1>3. CASE k = 0
  <2>1. TurnsTo(e, start, queue, 0, [i \in 0 .. 0 |-> start])
    BY DEF TurnsTo
  <2> QED
    BY <1>2, <1>3, <2>1
<1>4. CASE k # 0
  <2>1. k - 1 \in Nat /\ k - 1 \notin Bad
    <3>1. k - 1 \in Nat /\ ~(k <= k - 1)
      BY <1>2, <1>4
    <3> QED
      BY <1>1, <3>1
  <2>2. PICK f : TurnsTo(e, start, queue, k - 1, f)
    BY <2>1
  <2> DEFINE g == [i \in 0 .. k |-> IF i = k THEN FlushItem(e, f[k - 1], queue[k]) ELSE f[i]]
  <2>3. g = [i \in 0 .. k |-> g[i]] /\ g[0] = start
    BY <1>2, <1>4, <2>2 DEF TurnsTo
  <2>4. ASSUME NEW i \in 1 .. k
        PROVE  g[i] = FlushItem(e, g[i - 1], queue[i])
    <3>1. i - 1 \in 0 .. k /\ i - 1 # k /\ g[i - 1] = f[i - 1] /\ i \in 0 .. k
      BY <1>2, <1>4
    <3>2. CASE i = k
      <4>1. g[k] = FlushItem(e, f[k - 1], queue[k])
        BY <1>2
      <4> HIDE DEF g
      <4> QED
        BY <3>1, <3>2, <4>1
    <3>3. CASE i # k
      <4>1. i \in 1 .. k - 1
        BY <1>2, <3>3
      <4>2. g[i] = f[i] /\ f[i] = FlushItem(e, f[i - 1], queue[i])
        BY <2>2, <3>1, <3>3, <4>1 DEF TurnsTo
      <4> QED
        BY <3>1, <4>2
    <3> QED
      BY <3>2, <3>3
  <2> HIDE DEF g
  <2>5. TurnsTo(e, start, queue, k, g)
    BY <2>3, <2>4 DEF TurnsTo
  <2> QED
    BY <1>2, <2>5
<1> QED
  BY <1>3, <1>4

\* The loop.
LEMMA FlushItemsTurned ==
    ASSUME NEW e \in Endpoint, NEW chans, NEW table, NEW queue, Sound(chans, table, queue),
           NEW streams \in SUBSET StreamId
    PROVE  Turned(e, chans, table, queue,
                  FlushItems(e, [channels |-> chans, table |-> table,
                                 streams |-> streams, out |-> {}], queue))
<1> DEFINE start == [channels |-> chans, table |-> table, streams |-> streams, out |-> {}]
           n == Len(queue)
           Loop(f) == f = [i \in 0 .. n |->
                              IF i = 0 THEN start ELSE FlushItem(e, f[i - 1], queue[i])]
           F == CHOOSE f : Loop(f)
<1>1. n \in Nat /\ DOMAIN queue = 1 .. n
  BY DEF Sound
<1>2. FlushItems(e, start, queue) = F[n]
  BY DEF FlushItems
<1>3. Turned(e, chans, table, queue, start)
  BY TurnedAtFirst
<1> HIDE DEF start, n
<1>4. PICK g : TurnsTo(e, start, queue, n, g)
  BY <1>1, TurnsExist
<1>5. Loop(g)
  <2>1. DOMAIN g = 0 .. n
    BY <1>4 DEF TurnsTo
  <2>2. ASSUME NEW i \in 0 .. n
        PROVE  g[i] = IF i = 0 THEN start ELSE FlushItem(e, g[i - 1], queue[i])
    <3>1. i # 0 => i \in 1 .. n
      BY <1>1
    <3> QED
      BY <1>4, <3>1 DEF TurnsTo
  <2>3. g = [i \in 0 .. n |-> g[i]]
    BY <1>4, <2>1 DEF TurnsTo
  <2> QED
    BY <2>1, <2>2, <2>3
<1>6. Loop(F)
  BY <1>5
<1>7. /\ F[0] = start
      /\ \A i \in 1 .. n : F[i] = FlushItem(e, F[i - 1], queue[i])
  <2>1. \A i \in 0 .. n : F[i] = IF i = 0 THEN start ELSE FlushItem(e, F[i - 1], queue[i])
    <3> HIDE DEF F
    <3> QED
      BY <1>6
  <2> HIDE DEF F
  <2> QED
    BY <1>1, <2>1
<1> HIDE DEF F, Loop
<1> DEFINE Bad == {k \in 0 .. n : ~Turned(e, chans, table, queue, F[k])}
<1>8. Bad = {}
  <2> SUFFICES ASSUME Bad # {}
               PROVE  FALSE
    OBVIOUS
  <2>1. PICK k \in Bad : \A j \in Bad : k <= j
    <3>1. Bad \in SUBSET Nat
      BY <1>1
    <3> HIDE DEF Bad
    <3> QED
      BY <3>1, Least
  <2>2. k \in 1 .. n
    BY <1>1, <1>3, <1>7, <2>1
  <2>3. k - 1 \in 0 .. n /\ ~(k <= k - 1)
    BY <1>1, <2>2
  <2>4. Turned(e, chans, table, queue, F[k - 1])
    BY <2>1, <2>3
  <2>5. Turned(e, chans, table, queue, FlushItem(e, F[k - 1], queue[k]))
    BY <1>1, <2>2, <2>4, OneTurn
  <2> QED
    BY <1>7, <2>1, <2>2, <2>5
<1>9. Turned(e, chans, table, queue, F[n])
  BY <1>1, <1>8
<1> QED
  BY <1>2, <1>9 DEF start

(***************************************************************************)
(* filter()                                                                *)
(***************************************************************************)

\* The prefixes of what is left, as they grow.
LeftTo(s, keep, n, f) ==
    /\ f = [i \in 0 .. n |-> f[i]]
    /\ f[0] = <<>>
    /\ \A i \in 1 .. n : f[i] = IF i \in keep THEN Append(f[i - 1], s[i]) ELSE f[i - 1]

LEMMA LeftExists ==
    ASSUME NEW s, NEW keep, NEW n \in Nat
    PROVE  \E f : LeftTo(s, keep, n, f)
<1> DEFINE Bad == {k \in Nat : \A f : ~LeftTo(s, keep, k, f)}
<1> SUFFICES ASSUME Bad # {}
             PROVE  FALSE
  OBVIOUS
<1>1. PICK k \in Bad : \A j \in Bad : k <= j
  <2>1. Bad \in SUBSET Nat
    OBVIOUS
  <2> HIDE DEF Bad
  <2> QED
    BY <2>1, Least
<1>2. k \in Nat /\ \A f : ~LeftTo(s, keep, k, f)
  BY <1>1
<1>3. CASE k = 0
  <2>1. LeftTo(s, keep, 0, [i \in 0 .. 0 |-> <<>>])
    BY DEF LeftTo
  <2> QED
    BY <1>2, <1>3, <2>1
<1>4. CASE k # 0
  <2>1. k - 1 \in Nat /\ k - 1 \notin Bad
    <3>1. k - 1 \in Nat /\ ~(k <= k - 1)
      BY <1>2, <1>4
    <3> QED
      BY <1>1, <3>1
  <2>2. PICK f : LeftTo(s, keep, k - 1, f)
    BY <2>1
  <2> DEFINE last == IF k \in keep THEN Append(f[k - 1], s[k]) ELSE f[k - 1]
             g == [i \in 0 .. k |-> IF i = k THEN last ELSE f[i]]
  <2>3. g = [i \in 0 .. k |-> g[i]] /\ g[0] = <<>>
    BY <1>2, <1>4, <2>2 DEF LeftTo
  <2>4. ASSUME NEW i \in 1 .. k
        PROVE  g[i] = IF i \in keep THEN Append(g[i - 1], s[i]) ELSE g[i - 1]
    <3>1. i - 1 \in 0 .. k /\ i - 1 # k /\ g[i - 1] = f[i - 1] /\ i \in 0 .. k
      BY <1>2, <1>4
    <3>2. CASE i = k
      <4>1. g[k] = last
        BY <1>2
      <4> HIDE DEF g
      <4> QED
        BY <3>1, <3>2, <4>1
    <3>3. CASE i # k
      <4>1. i \in 1 .. k - 1
        BY <1>2, <3>3
      <4>2. g[i] = f[i] /\ f[i] = IF i \in keep THEN Append(f[i - 1], s[i]) ELSE f[i - 1]
        BY <2>2, <3>1, <3>3, <4>1 DEF LeftTo
      <4> QED
        BY <3>1, <4>2
    <3> QED
      BY <3>2, <3>3
  <2> HIDE DEF g
  <2>5. LeftTo(s, keep, k, g)
    BY <2>3, <2>4 DEF LeftTo
  <2> QED
    BY <1>2, <2>5
<1> QED
  BY <1>3, <1>4

\* What is left is a sequence, of items at places that are kept.
LEMMA FilteredIs ==
    ASSUME NEW T, NEW s \in Seq(T), NEW keep \in SUBSET DOMAIN s
    PROVE  /\ Filtered(s, keep) \in Seq(T)
           /\ \A j \in DOMAIN Filtered(s, keep) : \E i \in keep : Filtered(s, keep)[j] = s[i]
<1> DEFINE n == Len(s)
           Loop(f) == f = [i \in 0 .. n |->
                              IF i = 0 THEN <<>>
                              ELSE IF i \in keep THEN Append(f[i - 1], s[i]) ELSE f[i - 1]]
           F == CHOOSE f : Loop(f)
           Good(q) == q \in Seq(T) /\ \A j \in DOMAIN q : \E i \in keep : q[j] = s[i]
<1>1. n \in Nat /\ DOMAIN s = 1 .. n
  OBVIOUS
<1>2. Filtered(s, keep) = F[n]
  BY DEF Filtered
<1> HIDE DEF n
<1>4. PICK g : LeftTo(s, keep, n, g)
  BY <1>1, LeftExists
<1>5. Loop(g)
  <2>1. DOMAIN g = 0 .. n
    BY <1>4 DEF LeftTo
  <2>2. ASSUME NEW i \in 0 .. n
        PROVE  g[i] = IF i = 0 THEN <<>>
                      ELSE IF i \in keep THEN Append(g[i - 1], s[i]) ELSE g[i - 1]
    <3>1. i # 0 => i \in 1 .. n
      BY <1>1
    <3> QED
      BY <1>4, <3>1 DEF LeftTo
  <2>3. g = [i \in 0 .. n |-> g[i]]
    BY <1>4, <2>1 DEF LeftTo
  <2> QED
    BY <2>1, <2>2, <2>3
<1>6. Loop(F)
  BY <1>5
<1>7. /\ F[0] = <<>>
      /\ \A i \in 1 .. n : F[i] = IF i \in keep THEN Append(F[i - 1], s[i]) ELSE F[i - 1]
  <2>1. \A i \in 0 .. n : F[i] = IF i = 0 THEN <<>>
                                 ELSE IF i \in keep THEN Append(F[i - 1], s[i]) ELSE F[i - 1]
    <3> HIDE DEF F
    <3> QED
      BY <1>6
  <2> HIDE DEF F
  <2> QED
    BY <1>1, <2>1
<1> HIDE DEF F, Loop
<1> DEFINE Bad == {k \in 0 .. n : ~Good(F[k])}
<1>8. Bad = {}
  <2> SUFFICES ASSUME Bad # {}
               PROVE  FALSE
    OBVIOUS
  <2>1. PICK k \in Bad : \A j \in Bad : k <= j
    <3>1. Bad \in SUBSET Nat
      BY <1>1
    <3> HIDE DEF Bad
    <3> QED
      BY <3>1, Least
  <2>2. Good(<<>>)
    OBVIOUS
  <2>3. k \in 1 .. n
    <3> HIDE DEF Good
    <3> QED
      BY <1>1, <1>7, <2>1, <2>2
  <2>4. k - 1 \in 0 .. n /\ ~(k <= k - 1)
    BY <1>1, <2>3
  <2>5. Good(F[k - 1])
    <3> HIDE DEF Good
    <3> QED
      BY <2>1, <2>4
  <2>6. k \in keep => Good(Append(F[k - 1], s[k]))
    <3> SUFFICES ASSUME k \in keep
                 PROVE  Good(Append(F[k - 1], s[k]))
      OBVIOUS
    <3> DEFINE q == F[k - 1]
    <3>1. s[k] \in T /\ q \in Seq(T)
      BY <1>1, <2>3, <2>5
    <3>2. Append(q, s[k]) \in Seq(T) /\ DOMAIN Append(q, s[k]) = 1 .. Len(q) + 1
            /\ Len(q) \in Nat
      BY <3>1
    <3>3. ASSUME NEW j \in DOMAIN Append(q, s[k])
          PROVE  \E i \in keep : Append(q, s[k])[j] = s[i]
      <4>1. CASE j = Len(q) + 1
        BY <3>1, <4>1
      <4>2. CASE j # Len(q) + 1
        <5>1. j \in DOMAIN q /\ Append(q, s[k])[j] = q[j]
          BY <3>1, <3>2, <4>2
        <5> QED
          BY <2>5, <5>1
      <4> QED
        BY <4>1, <4>2
    <3> QED
      BY <3>2, <3>3
  <2>7. Good(F[k])
    <3> HIDE DEF Good
    <3> QED
      BY <1>7, <2>3, <2>5, <2>6
  <2> QED
    BY <2>1, <2>7
<1>9. Good(F[n])
  <2> HIDE DEF Good
  <2> QED
    BY <1>1, <1>8
<1> QED
  BY <1>2, <1>9

(***************************************************************************)
(* Type correctness: TypeOK needs that the register is true, without which *)
(* an endpoint could run out of ids                                        *)
(***************************************************************************)

Ids == StreamId \cup {Unassigned}

Timer == [armed : BOOLEAN, failures : Nat]

\* TypeOK but for the channels.
RestOK ==
    /\ phase \in [Endpoint -> {"connecting", "established", "closed"}]
    /\ reconfigQueue \in [Endpoint -> Seq(Ids)]
    /\ reconfigRequest \in [Endpoint -> Request]
    /\ reconfigRequestSeq \in [Endpoint -> Nat]
    /\ timerReconfig \in [Endpoint -> Timer]
    /\ performed \in [Endpoint -> SUBSET Nat]
    /\ net \subseteq Message

TypeInv ==
    /\ TypeOK
    /\ \A e \in Endpoint : Sound(channels[e], dataChannels[e], dataChannelQueue[e])

LEMMA TypeOKParts ==
    ASSUME TypeOK
    PROVE  RestOK
BY DEF TypeOK, RestOK, Ids, Timer

\* A step changes the channels of one endpoint.
LEMMA OneEndpoint ==
    ASSUME TypeInv, RestOK', NEW e \in Endpoint,
           NEW chans, NEW table, NEW queue, Sound(chans, table, queue),
           NEW streams \in SUBSET StreamId,
           channels' = [channels EXCEPT ![e] = chans],
           dataChannels' = [dataChannels EXCEPT ![e] = table],
           dataChannelQueue' = [dataChannelQueue EXCEPT ![e] = queue],
           outboundStreamSeq' = [outboundStreamSeq EXCEPT ![e] = streams]
    PROVE  TypeInv'
<1>1. /\ channels \in [Endpoint -> Seq(Channel)]
      /\ dataChannels \in [Endpoint -> [StreamId -> Nat]]
      /\ dataChannelQueue \in [Endpoint -> Seq(QueueItem)]
      /\ outboundStreamSeq \in [Endpoint -> SUBSET StreamId]
  BY DEF TypeInv, TypeOK
<1>2. \A d \in Endpoint : Sound(channels[d], dataChannels[d], dataChannelQueue[d])
  BY DEF TypeInv
<1>3. /\ channels'[e] = chans /\ dataChannels'[e] = table /\ dataChannelQueue'[e] = queue
      /\ \A d \in Endpoint : d # e => /\ channels'[d] = channels[d]
                                      /\ dataChannels'[d] = dataChannels[d]
                                      /\ dataChannelQueue'[d] = dataChannelQueue[d]
  BY <1>1
<1>4. \A d \in Endpoint : Sound(channels'[d], dataChannels'[d], dataChannelQueue'[d])
  BY <1>2, <1>3
<1>5. chans \in Seq(Channel) /\ queue \in Seq(QueueItem)
  BY DEF Sound
<1>6. table \in [StreamId -> Nat]
  BY <1>5 DEF Sound, NoChannel
<1>7. /\ channels' \in [Endpoint -> Seq(Channel)]
      /\ dataChannels' \in [Endpoint -> [StreamId -> Nat]]
      /\ dataChannelQueue' \in [Endpoint -> Seq(QueueItem)]
      /\ outboundStreamSeq' \in [Endpoint -> SUBSET StreamId]
  BY <1>1, <1>5, <1>6
<1>8. \A d \in Endpoint :
          /\ Len(channels'[d]) <= MaxChannels
          /\ \A s \in StreamId : dataChannels'[d][s] \in {NoChannel} \cup DOMAIN channels'[d]
  BY <1>4 DEF Sound
<1>9. TypeOK'
  BY <1>7, <1>8 DEF TypeOK, RestOK, Ids, Timer
<1> QED
  BY <1>4, <1>9 DEF TypeInv

\* What is flushed is sound again, and its messages are messages.
LEMMA TurnedIs ==
    ASSUME NEW e \in Endpoint, NEW chans, NEW table, NEW queue, Sound(chans, table, queue),
           NEW acc, Turned(e, chans, table, queue, acc)
    PROVE  /\ Sound(acc.channels, acc.table, <<>>)
           /\ Sound(acc.channels, acc.table, queue)
           /\ acc.out \subseteq Message
           /\ acc.streams \subseteq StreamId
           /\ DOMAIN acc.channels = DOMAIN chans
<1>1. /\ chans \in Seq(Channel) /\ Len(chans) <= MaxChannels
      /\ queue \in Seq(QueueItem) /\ \A i \in DOMAIN queue : queue[i].channel \in DOMAIN chans
  BY DEF Sound
<1>2. /\ acc.channels \in Seq(Channel) /\ Len(acc.channels) = Len(chans)
      /\ acc.table \in [StreamId -> {NoChannel} \cup DOMAIN chans]
      /\ \A s \in StreamId : acc.table[s] # NoChannel => acc.channels[acc.table[s]].id = s
      /\ acc.streams \subseteq StreamId
  BY DEF Turned
<1>3. DOMAIN acc.channels = DOMAIN chans
  BY <1>1, <1>2
<1>4. <<>> \in Seq(QueueItem) /\ DOMAIN <<>> = {}
  OBVIOUS
<1>5. ASSUME NEW m \in acc.out
      PROVE  m \in Message
  <2>1. PICK i \in DOMAIN queue :
            /\ queue[i].kind # "DATA"
            /\ acc.channels[queue[i].channel].id \in StreamId
            /\ m = [type |-> queue[i].kind, to |-> Peer(e),
                    stream |-> acc.channels[queue[i].channel].id]
    BY <1>5 DEF Turned
  <2>2. queue[i] \in QueueItem
    BY <1>1
  <2>3. queue[i].kind \in {"OPEN", "ACK"}
    BY <2>1, <2>2 DEF QueueItem
  <2>4. m \in [type : {"OPEN", "ACK"}, to : Endpoint, stream : StreamId]
    BY <2>1, <2>3, PeerIs
  <2> QED
    BY <2>4 DEF Message
<1>6. Sound(acc.channels, acc.table, queue)
  BY <1>1, <1>2, <1>3 DEF Sound
<1>7. Sound(acc.channels, acc.table, <<>>)
  BY <1>1, <1>2, <1>3, <1>4 DEF Sound
<1> QED
  BY <1>2, <1>3, <1>5, <1>6, <1>7

LEMMA FlushIs ==
    ASSUME TypeOK, NEW e \in Endpoint,
           NEW chans, NEW table, NEW queue, Sound(chans, table, queue),
           NEW sent, Flush(e, chans, table, queue, sent)
    PROVE  \E acc :
              /\ Turned(e, chans, table, queue, acc)
              /\ channels' = [channels EXCEPT ![e] = acc.channels]
              /\ dataChannels' = [dataChannels EXCEPT ![e] = acc.table]
              /\ outboundStreamSeq' = [outboundStreamSeq EXCEPT ![e] = acc.streams]
              /\ dataChannelQueue' = [dataChannelQueue EXCEPT ![e] =
                     IF phase'[e] = "established" THEN <<>> ELSE queue]
              /\ net' = net \cup sent \cup acc.out
              /\ phase'[e] # "established" =>
                     acc.channels = chans /\ acc.table = table /\ acc.out = {}
<1> DEFINE start == [channels |-> chans, table |-> table,
                     streams |-> outboundStreamSeq[e], out |-> {}]
           done == IF phase'[e] = "established" THEN FlushItems(e, start, queue) ELSE start
<1>1. outboundStreamSeq[e] \in SUBSET StreamId
  BY DEF TypeOK
<1>2. Turned(e, chans, table, queue, start)
  BY <1>1, TurnedAtFirst
<1>3. Turned(e, chans, table, queue, FlushItems(e, start, queue))
  BY <1>1, FlushItemsTurned
<1>4. Turned(e, chans, table, queue, done)
  BY <1>2, <1>3
<1>5. phase'[e] # "established" =>
         done.channels = chans /\ done.table = table /\ done.out = {}
  OBVIOUS
<1>6. /\ channels' = [channels EXCEPT ![e] = done.channels]
      /\ dataChannels' = [dataChannels EXCEPT ![e] = done.table]
      /\ outboundStreamSeq' = [outboundStreamSeq EXCEPT ![e] = done.streams]
      /\ dataChannelQueue' = [dataChannelQueue EXCEPT ![e] =
             IF phase'[e] = "established" THEN <<>> ELSE queue]
      /\ net' = net \cup sent \cup done.out
  BY DEF Flush
<1> HIDE DEF done
<1> QED
  BY <1>4, <1>5, <1>6

\* A step that flushes.
LEMMA FlushTyped ==
    ASSUME TypeInv, phase' \in [Endpoint -> {"connecting", "established", "closed"}],
           NEW e \in Endpoint,
           NEW chans, NEW table, NEW queue, Sound(chans, table, queue),
           NEW sent \in SUBSET Message, Flush(e, chans, table, queue, sent),
           UNCHANGED <<resetVars, performed>>
    PROVE  TypeInv'
<1>1. TypeOK /\ RestOK
  BY TypeOKParts DEF TypeInv
<1>2. PICK acc :
          /\ Turned(e, chans, table, queue, acc)
          /\ channels' = [channels EXCEPT ![e] = acc.channels]
          /\ dataChannels' = [dataChannels EXCEPT ![e] = acc.table]
          /\ outboundStreamSeq' = [outboundStreamSeq EXCEPT ![e] = acc.streams]
          /\ dataChannelQueue' = [dataChannelQueue EXCEPT ![e] =
                 IF phase'[e] = "established" THEN <<>> ELSE queue]
          /\ net' = net \cup sent \cup acc.out
  BY <1>1, FlushIs
<1>3. /\ Sound(acc.channels, acc.table, <<>>)
      /\ Sound(acc.channels, acc.table, queue)
      /\ acc.out \subseteq Message
      /\ acc.streams \subseteq StreamId
  BY <1>2, TurnedIs
<1>4. RestOK'
  BY <1>1, <1>2, <1>3 DEF RestOK, resetVars
<1> DEFINE q == IF phase'[e] = "established" THEN <<>> ELSE queue
<1>5. Sound(acc.channels, acc.table, q)
  BY <1>3
<1>6. dataChannelQueue' = [dataChannelQueue EXCEPT ![e] = q]
  BY <1>2
<1>7. acc.streams \in SUBSET StreamId
  BY <1>3
<1>8. /\ channels' = [channels EXCEPT ![e] = acc.channels]
      /\ dataChannels' = [dataChannels EXCEPT ![e] = acc.table]
      /\ outboundStreamSeq' = [outboundStreamSeq EXCEPT ![e] = acc.streams]
  BY <1>2
<1> HIDE DEF q
<1> QED
  BY <1>4, <1>5, <1>6, <1>7, <1>8, OneEndpoint, Zenon

(***************************************************************************)
(* The reset request and the streams that are reset                        *)
(***************************************************************************)

\* A mapped sequence is a sequence of the same length.
LEMMA MappedIs ==
    ASSUME NEW S, NEW n \in Nat, NEW f, f = [i \in 1 .. n |-> f[i]],
           \A i \in 1 .. n : f[i] \in S
    PROVE  f \in Seq(S) /\ Len(f) = n /\ DOMAIN f = 1 .. n
OBVIOUS

\* What transmitReconfigRequest makes of a queue, a request and a timer: q, r and u.
Transmitted(queue, request, t, q, r, u) ==
    /\ q \in Seq(Ids) /\ r \in Request /\ u \in Timer
    /\ r = request \/ request = NoRequest
    /\ q # <<>> => r # NoRequest
    /\ (r = request /\ u = t) \/ u.armed
    /\ Range(queue) \cup Range(request.streams) \subseteq Range(q) \cup Range(r.streams)

LEMMA PackedIs ==
    ASSUME NEW streams \in Seq(Ids)
    PROVE  Packed(streams) \in Seq(StreamId)
<1>1. Len(streams) \in Nat /\ DOMAIN streams = 1 .. Len(streams)
  OBVIOUS
<1>2. \A i \in 1 .. Len(streams) :
          (IF streams[i] = Unassigned THEN 0 ELSE streams[i]) \in StreamId
  BY <1>1, BoundsAssumption DEF Ids, StreamId
<1> QED
  BY <1>1, <1>2 DEF Packed

\* What it does to the state, when the caller has sent out.
TransmitEffect(e, queue, request, t, out) ==
    /\ reconfigRequestSeq' \in [Endpoint -> Nat]
    /\ \E q, r, u :
          /\ Transmitted(queue, request, t, q, r, u)
          /\ reconfigQueue' = [reconfigQueue EXCEPT ![e] = q]
          /\ reconfigRequest' = [reconfigRequest EXCEPT ![e] = r]
          /\ timerReconfig' = [timerReconfig EXCEPT ![e] = u]
    /\ \E o \in SUBSET Message :
          /\ net' = net \cup out \cup o
          /\ \A m \in o : m.type = "RESET"

LEMMA TransmitIs ==
    ASSUME RestOK, NEW e \in Endpoint,
           NEW queue \in Seq(Ids), NEW request \in Request, NEW t \in Timer, NEW out,
           TransmitReconfigRequest(e, queue, request, t, out)
    PROVE  TransmitEffect(e, queue, request, t, out)
<1>1. reconfigRequestSeq \in [Endpoint -> Nat]
  BY DEF RestOK
<1>2. CASE queue # <<>> /\ request = NoRequest
  <2> DEFINE n == IF Len(queue) < MaxStreams THEN Len(queue) ELSE MaxStreams
             streams == SubSeq(queue, 1, n)
             rest == SubSeq(queue, n + 1, Len(queue))
             seq == reconfigRequestSeq[e]
             r == [seq |-> seq, streams |-> streams]
             m == [type |-> "RESET", to |-> Peer(e), seq |-> seq, streams |-> Packed(streams)]
  <2>1. /\ reconfigQueue' = [reconfigQueue EXCEPT ![e] = rest]
        /\ reconfigRequestSeq' = [reconfigRequestSeq EXCEPT ![e] = seq + 1]
        /\ reconfigRequest' = [reconfigRequest EXCEPT ![e] = r]
        /\ timerReconfig' = [timerReconfig EXCEPT ![e] = StartTimer(t)]
        /\ net' = net \cup out \cup {m}
    BY <1>2 DEF TransmitReconfigRequest
  <2>2. seq \in Nat
    BY <1>1
  <2>3. Len(queue) \in Nat \ {0} /\ n \in 1 .. Len(queue)
    BY <1>2, BoundsAssumption
  <2> HIDE DEF n
  <2>4. /\ streams \in Seq(Ids) /\ Len(streams) = n /\ rest \in Seq(Ids)
        /\ Len(rest) = Len(queue) - n
        /\ \A i \in 1 .. n : streams[i] = queue[i]
        /\ \A i \in 1 .. Len(queue) - n : rest[i] = queue[n + i]
    BY <2>3
  <2> HIDE DEF streams, rest, seq
  <2>5. r \in Request
    BY <2>2, <2>4 DEF Request, Ids
  <2>6. r # NoRequest
    <3>1. streams # <<>>
      BY <2>3, <2>4
    <3> QED
      BY <3>1 DEF NoRequest
  <2>7. StartTimer(t) \in Timer /\ StartTimer(t).armed
    BY DEF StartTimer, Timer
  <2>8. Range(queue) \subseteq Range(rest) \cup Range(r.streams)
    <3>1. ASSUME NEW i \in DOMAIN queue
          PROVE  queue[i] \in Range(rest) \cup Range(streams)
      <4>1. i \in 1 .. Len(queue)
        OBVIOUS
      <4>2. CASE i <= n
        <5>1. i \in DOMAIN streams /\ streams[i] = queue[i]
          BY <2>3, <2>4, <4>1, <4>2
        <5> QED
          BY <5>1 DEF Range
      <4>3. CASE ~(i <= n)
        <5>1. i - n \in DOMAIN rest /\ n + (i - n) = i
          BY <2>3, <2>4, <4>1, <4>3
        <5>2. rest[i - n] = queue[i]
          BY <2>3, <2>4, <5>1
        <5> QED
          BY <5>1, <5>2 DEF Range
      <4> QED
        BY <4>2, <4>3
    <3> QED
      BY <3>1 DEF Range
  <2>9. Range(request.streams) = {}
    BY <1>2 DEF NoRequest, Range
  <2>10. Transmitted(queue, request, t, rest, r, StartTimer(t))
    BY <1>2, <2>4, <2>5, <2>6, <2>7, <2>8, <2>9 DEF Transmitted
  <2>11. m \in Message /\ m.type = "RESET"
    <3>1. m \in [type : {"RESET"}, to : Endpoint, seq : Nat, streams : Seq(StreamId)]
      BY <2>2, <2>4, PackedIs, PeerIs
    <3> QED
      BY <3>1 DEF Message
  <2>12. reconfigRequestSeq' \in [Endpoint -> Nat]
    BY <1>1, <2>1, <2>2
  <2>13. {m} \in SUBSET Message /\ \A x \in {m} : x.type = "RESET"
    BY <2>11
  <2> HIDE DEF r, m
  <2> QED
    BY <2>1, <2>10, <2>12, <2>13 DEF TransmitEffect
<1>3. CASE ~(queue # <<>> /\ request = NoRequest)
  <2>1. /\ reconfigQueue' = [reconfigQueue EXCEPT ![e] = queue]
        /\ reconfigRequest' = [reconfigRequest EXCEPT ![e] = request]
        /\ timerReconfig' = [timerReconfig EXCEPT ![e] = t]
        /\ net' = net \cup out \cup {}
        /\ UNCHANGED reconfigRequestSeq
    BY <1>3 DEF TransmitReconfigRequest
  <2>2. Transmitted(queue, request, t, queue, request, t)
    BY <1>3 DEF Transmitted
  <2>3. {} \in SUBSET Message /\ \A m \in {} : m.type = "RESET"
    OBVIOUS
  <2> QED
    BY <1>1, <2>1, <2>2, <2>3 DEF TransmitEffect
<1> QED
  BY <1>2, <1>3

\* The ids a sequence of streams names.
IdsOf(streams) == {s \in StreamId : \E i \in DOMAIN streams : streams[i] = s}

\* What closing the channels registered for ids makes of the channels: a and b.
ClosedFor(chans, table, ids, a, b) ==
    /\ a \in Seq(Channel) /\ Len(a) = Len(chans)
    /\ \A c \in DOMAIN chans :
          /\ a[c].id = chans[c].id /\ a[c].negotiated = chans[c].negotiated
          /\ (\E s \in ids : table[s] = c) => a[c].readyState = "closed"
          /\ ~(\E s \in ids : table[s] = c) => a[c].readyState = chans[c].readyState
    /\ b \in [StreamId -> {NoChannel} \cup DOMAIN chans]
    /\ \A s \in StreamId : b[s] = IF s \in ids THEN NoChannel ELSE table[s]

LEMMA ReconfigStreamsIs ==
    ASSUME TypeInv, NEW e \in Endpoint, NEW streams, ReconfigStreams(e, streams)
    PROVE  \E a, b :
              /\ ClosedFor(channels[e], dataChannels[e], IdsOf(streams), a, b)
              /\ Sound(a, b, dataChannelQueue[e])
              /\ channels' = [channels EXCEPT ![e] = a]
              /\ dataChannels' = [dataChannels EXCEPT ![e] = b]
<1> DEFINE ids == IdsOf(streams)
           chans == channels[e]
           table == dataChannels[e]
           queue == dataChannelQueue[e]
           Hit(c) == \E s \in ids : table[s] = c
           a == [c \in DOMAIN chans |->
                    IF Hit(c) THEN [chans[c] EXCEPT !.readyState = "closed"] ELSE chans[c]]
           b == [s \in StreamId |-> IF s \in ids THEN NoChannel ELSE table[s]]
<1>1. /\ channels \in [Endpoint -> Seq(Channel)]
      /\ dataChannels \in [Endpoint -> [StreamId -> Nat]]
      /\ Sound(chans, table, queue)
  BY DEF TypeInv, TypeOK
<1>2. channels' = [channels EXCEPT ![e] = a] /\ dataChannels' = [dataChannels EXCEPT ![e] = b]
  BY <1>1 DEF ReconfigStreams, IdsOf
<1>3. /\ chans \in Seq(Channel) /\ Len(chans) \in Nat /\ DOMAIN chans = 1 .. Len(chans)
      /\ Len(chans) <= MaxChannels
      /\ table \in [StreamId -> {NoChannel} \cup DOMAIN chans]
      /\ \A s \in StreamId : table[s] # NoChannel => chans[table[s]].id = s
      /\ queue \in Seq(QueueItem)
      /\ \A i \in DOMAIN queue : queue[i].channel \in DOMAIN chans
  BY <1>1 DEF Sound
<1> HIDE DEF ids, chans, table, queue, Hit
<1>4. ASSUME NEW c \in DOMAIN chans
      PROVE  /\ a[c] \in Channel
             /\ a[c].id = chans[c].id /\ a[c].negotiated = chans[c].negotiated
             /\ Hit(c) => a[c].readyState = "closed"
             /\ ~Hit(c) => a[c].readyState = chans[c].readyState
  <2>1. chans[c] \in Channel
    BY <1>3
  <2> QED
    BY <2>1 DEF Channel
<1>5. a \in Seq(Channel) /\ Len(a) = Len(chans) /\ DOMAIN a = DOMAIN chans
  <2>1. a = [i \in 1 .. Len(chans) |-> a[i]]
    BY <1>3
  <2>2. \A i \in 1 .. Len(chans) : a[i] \in Channel
    BY <1>3, <1>4
  <2> HIDE DEF a
  <2> QED
    BY <1>3, <2>1, <2>2, MappedIs
<1>6. b \in [StreamId -> {NoChannel} \cup DOMAIN chans]
  BY <1>3
<1>7. \A s \in StreamId : b[s] = IF s \in ids THEN NoChannel ELSE table[s]
  OBVIOUS
<1> HIDE DEF a, b
<1>8. ClosedFor(chans, table, ids, a, b)
  BY <1>4, <1>5, <1>6, <1>7 DEF ClosedFor, Hit
<1>9. Sound(a, b, queue)
  <2>1. \A s \in StreamId : b[s] # NoChannel => a[b[s]].id = s
    BY <1>3, <1>4, <1>7
  <2> QED
    BY <1>3, <1>5, <1>6, <2>1 DEF Sound
<1>10. /\ ClosedFor(channels[e], dataChannels[e], IdsOf(streams), a, b)
       /\ Sound(a, b, dataChannelQueue[e])
  BY <1>8, <1>9 DEF chans, table, queue, ids
<1> QED
  BY <1>2, <1>10

(***************************************************************************)
(* What the actions hand to the flush                                      *)
(***************************************************************************)

\* What the connected listener makes of the channels: a.
OpenedFor(chans, table, a) ==
    /\ a \in Seq(Channel) /\ Len(a) = Len(chans)
    /\ \A c \in DOMAIN chans :
          /\ a[c].id = chans[c].id /\ a[c].negotiated = chans[c].negotiated
          /\ \/ a[c].readyState = chans[c].readyState
             \/ /\ a[c].readyState = "open"
                /\ chans[c].negotiated
                /\ \E s \in StreamId : table[s] = c

LEMMA ConnectedIs ==
    ASSUME TypeInv, NEW e \in Endpoint, NEW sent, Connected(e, sent)
    PROVE  \E a : /\ OpenedFor(channels[e], dataChannels[e], a)
                  /\ Sound(a, dataChannels[e], dataChannelQueue[e])
                  /\ Flush(e, a, dataChannels[e], dataChannelQueue[e], sent)
<1> DEFINE chans == channels[e]
           table == dataChannels[e]
           queue == dataChannelQueue[e]
           Hit(c) == channels[e][c].negotiated /\ \E s \in StreamId : dataChannels[e][s] = c
           a == [c \in DOMAIN channels[e] |->
                    IF Hit(c) THEN [channels[e][c] EXCEPT !.readyState = "open"]
                    ELSE channels[e][c]]
<1>1. Flush(e, a, table, queue, sent)
  BY DEF Connected
<1>2. Sound(chans, table, queue)
  BY DEF TypeInv
<1>3. /\ chans \in Seq(Channel) /\ Len(chans) \in Nat /\ DOMAIN chans = 1 .. Len(chans)
      /\ Len(chans) <= MaxChannels
      /\ table \in [StreamId -> {NoChannel} \cup DOMAIN chans]
      /\ \A s \in StreamId : table[s] # NoChannel => chans[table[s]].id = s
      /\ queue \in Seq(QueueItem)
      /\ \A i \in DOMAIN queue : queue[i].channel \in DOMAIN chans
  BY <1>2 DEF Sound
<1>4. ASSUME NEW c \in DOMAIN chans
      PROVE  /\ a[c] \in Channel
             /\ a[c].id = chans[c].id /\ a[c].negotiated = chans[c].negotiated
             /\ Hit(c) => a[c].readyState = "open"
             /\ ~Hit(c) => a[c].readyState = chans[c].readyState
  <2>1. chans[c] \in Channel
    BY <1>3
  <2> HIDE DEF Hit
  <2> QED
    BY <2>1 DEF Channel
<1>5. a \in Seq(Channel) /\ Len(a) = Len(chans) /\ DOMAIN a = DOMAIN chans
  <2>1. a = [i \in 1 .. Len(chans) |-> a[i]]
    BY <1>3
  <2>2. \A i \in 1 .. Len(chans) : a[i] \in Channel
    BY <1>3, <1>4
  <2> HIDE DEF a, chans
  <2> QED
    BY <1>3, <2>1, <2>2, MappedIs
<1> HIDE DEF a
<1>6. OpenedFor(chans, table, a)
  BY <1>4, <1>5 DEF OpenedFor
<1>7. Sound(a, table, queue)
  <2>1. \A s \in StreamId : table[s] # NoChannel => a[table[s]].id = s
    BY <1>3, <1>4
  <2> HIDE DEF chans, table, queue
  <2> QED
    BY <1>3, <1>5, <2>1 DEF Sound
<1> QED
  BY <1>1, <1>6, <1>7

\* One more channel, registered for its id or not.
LEMMA AddedSound ==
    ASSUME NEW chans, NEW table, NEW queue, Sound(chans, table, queue),
           Len(chans) < MaxChannels, NEW rec \in Channel, NEW b,
           \/ b = table
           \/ rec.id \in StreamId /\ b = [table EXCEPT ![rec.id] = Len(chans) + 1]
    PROVE  /\ Sound(Append(chans, rec), b, queue)
           /\ Append(chans, rec) \in Seq(Channel)
           /\ Len(Append(chans, rec)) = Len(chans) + 1
           /\ DOMAIN chans = 1 .. Len(chans) /\ Len(chans) \in Nat
           /\ DOMAIN Append(chans, rec) = 1 .. Len(chans) + 1
           /\ \A c \in DOMAIN chans : c # Len(chans) + 1 /\ Append(chans, rec)[c] = chans[c]
           /\ Append(chans, rec)[Len(chans) + 1] = rec
<1>1. /\ chans \in Seq(Channel) /\ Len(chans) \in Nat /\ DOMAIN chans = 1 .. Len(chans)
      /\ table \in [StreamId -> {NoChannel} \cup DOMAIN chans]
      /\ \A s \in StreamId : table[s] # NoChannel => chans[table[s]].id = s
      /\ queue \in Seq(QueueItem)
      /\ \A i \in DOMAIN queue : queue[i].channel \in DOMAIN chans
  BY DEF Sound
<1> DEFINE a == Append(chans, rec)
           n == Len(chans) + 1
<1>2. /\ a \in Seq(Channel) /\ Len(a) = n
      /\ DOMAIN a = 1 .. n
      /\ \A c \in DOMAIN chans : c # n /\ a[c] = chans[c]
      /\ a[n] = rec
  BY <1>1
<1>3. DOMAIN chans \subseteq DOMAIN a /\ n \in DOMAIN a
  BY <1>1, <1>2
<1>4. n <= MaxChannels
  BY <1>1, BoundsAssumption
<1> HIDE DEF a
<1>5. b \in [StreamId -> {NoChannel} \cup DOMAIN a]
  BY <1>1, <1>3
<1>6. \A s \in StreamId : b[s] # NoChannel => a[b[s]].id = s
  BY <1>1, <1>2, <1>3
<1>7. Sound(a, b, queue)
  BY <1>1, <1>2, <1>3, <1>4, <1>5, <1>6 DEF Sound
<1> QED
  BY <1>1, <1>2, <1>7 DEF a

\* One more item in the queue.
LEMMA QueuedItems ==
    ASSUME NEW T, NEW queue \in Seq(T), NEW item \in T
    PROVE  \A i \in DOMAIN Append(queue, item) :
               \/ Append(queue, item)[i] = item
               \/ /\ i \in DOMAIN queue
                  /\ Append(queue, item)[i] = queue[i]
<1> DEFINE q == Append(queue, item)
<1>1. DOMAIN queue = 1 .. Len(queue) /\ Len(queue) \in Nat
  OBVIOUS
<1>2. DOMAIN q = 1 .. Len(queue) + 1 /\ q[Len(queue) + 1] = item
  OBVIOUS
<1>3. \A i \in 1 .. Len(queue) : q[i] = queue[i]
  OBVIOUS
<1> HIDE DEF q
<1>4. ASSUME NEW i \in 1 .. Len(queue) + 1
      PROVE  i = Len(queue) + 1 \/ i \in 1 .. Len(queue)
  BY <1>1
<1>5. \A i \in DOMAIN q : \/ q[i] = item
                          \/ /\ i \in DOMAIN queue
                             /\ q[i] = queue[i]
  BY <1>1, <1>2, <1>3, <1>4
<1> QED
  BY <1>5 DEF q

LEMMA QueuedSound ==
    ASSUME NEW chans, NEW table, NEW queue, Sound(chans, table, queue),
           NEW c \in DOMAIN chans, NEW kind \in {"OPEN", "ACK", "DATA"},
           NEW item, item = [channel |-> c, kind |-> kind]
    PROVE  /\ Sound(chans, table, Append(queue, item))
           /\ \A i \in DOMAIN Append(queue, item) :
                 \/ Append(queue, item)[i] = item
                 \/ /\ i \in DOMAIN queue
                    /\ Append(queue, item)[i] = queue[i]
<1> DEFINE q == Append(queue, item)
<1>1. /\ chans \in Seq(Channel) /\ Len(chans) \in Nat /\ Len(chans) <= MaxChannels
      /\ DOMAIN chans = 1 .. Len(chans)
      /\ table \in [StreamId -> {NoChannel} \cup DOMAIN chans]
      /\ \A s \in StreamId : table[s] # NoChannel => chans[table[s]].id = s
      /\ queue \in Seq(QueueItem)
      /\ \A i \in DOMAIN queue : queue[i].channel \in DOMAIN chans
  BY DEF Sound
<1>2. c \in 1 .. MaxChannels
  BY <1>1, BoundsAssumption
<1>3. item \in QueueItem /\ item.channel = c
  BY <1>2 DEF QueueItem
<1>4. q \in Seq(QueueItem)
  BY <1>1, <1>3
<1>5. \A i \in DOMAIN q : \/ q[i] = item
                          \/ /\ i \in DOMAIN queue
                             /\ q[i] = queue[i]
  BY <1>1, <1>3, QueuedItems
<1> HIDE DEF q
<1>6. Sound(chans, table, q)
  BY <1>1, <1>3, <1>4, <1>5 DEF Sound
<1> QED
  BY <1>5, <1>6 DEF q

\* createDataChannel.
LEMMA CreateDataChannelIs ==
    ASSUME TypeInv, NEW e \in Endpoint, CreateDataChannel(e)
    PROVE  \E id \in OpenIds \cup {Unassigned} :
              LET c == Len(channels[e]) + 1
                  rec == [id |-> id, readyState |-> "connecting", negotiated |-> FALSE]
                  registers == id \notin {Unassigned, 0}
                  a == Append(channels[e], rec)
                  b == IF registers THEN [dataChannels[e] EXCEPT ![id] = c]
                       ELSE dataChannels[e]
                  q == Append(dataChannelQueue[e], [channel |-> c, kind |-> "OPEN"])
              IN  /\ Len(channels[e]) < MaxChannels
                  /\ rec \in Channel
                  /\ registers => id \in StreamId /\ dataChannels[e][id] = NoChannel
                  /\ Sound(a, b, dataChannelQueue[e])
                  /\ Sound(a, b, q)
                  /\ Flush(e, a, b, q, {})
<1>1. PICK id \in OpenIds \cup {Unassigned} :
          LET c == Len(channels[e]) + 1
              registers == id \notin {Unassigned, 0}
          IN  /\ registers => dataChannels[e][id] = NoChannel
              /\ Flush(e,
                       Append(channels[e],
                              [id |-> id, readyState |-> "connecting", negotiated |-> FALSE]),
                       IF registers THEN [dataChannels[e] EXCEPT ![id] = c]
                       ELSE dataChannels[e],
                       Append(dataChannelQueue[e], [channel |-> c, kind |-> "OPEN"]),
                       {})
  BY DEF CreateDataChannel
<1> DEFINE c == Len(channels[e]) + 1
           rec == [id |-> id, readyState |-> "connecting", negotiated |-> FALSE]
           registers == id \notin {Unassigned, 0}
           a == Append(channels[e], rec)
           b == IF registers THEN [dataChannels[e] EXCEPT ![id] = c] ELSE dataChannels[e]
           q == Append(dataChannelQueue[e], [channel |-> c, kind |-> "OPEN"])
<1>2. Len(channels[e]) < MaxChannels
  BY DEF CreateDataChannel
<1>3. id \in StreamId \cup {Unassigned}
  BY BoundsAssumption
<1>4. rec \in Channel /\ rec.id = id
  BY <1>3 DEF Channel
<1>5. registers => id \in StreamId
  BY <1>3
<1>6. Sound(channels[e], dataChannels[e], dataChannelQueue[e])
  BY DEF TypeInv
<1>7. \/ b = dataChannels[e]
      \/ rec.id \in StreamId /\ b = [dataChannels[e] EXCEPT ![rec.id] = Len(channels[e]) + 1]
  BY <1>4, <1>5
<1> HIDE DEF rec, b
<1>8. /\ Sound(a, b, dataChannelQueue[e])
      /\ Len(channels[e]) \in Nat
      /\ DOMAIN a = 1 .. Len(channels[e]) + 1
  BY <1>2, <1>4, <1>6, <1>7, AddedSound
<1>9. c \in DOMAIN a
  BY <1>8
<1> HIDE DEF a, c
<1>10. Sound(a, b, q)
  BY <1>8, <1>9, QueuedSound
<1>11. Flush(e, a, b, q, {}) /\ (registers => dataChannels[e][id] = NoChannel)
  BY <1>1 DEF a, b, c, rec
<1> QED
  BY <1>2, <1>4, <1>5, <1>8, <1>10, <1>11 DEF a, b, c, rec

\* DATA_CHANNEL_OPEN.
LEMMA ReceiveOpenIs ==
    ASSUME TypeInv, NEW e \in Endpoint, ReceiveOpen(e)
    PROVE  \E m \in net : \E a, b, c :
              LET q == Append(dataChannelQueue[e], [channel |-> c, kind |-> "ACK"])
              IN  /\ m.type = "OPEN" /\ m.to = e /\ m.stream \in StreamId
                  /\ c \in DOMAIN a /\ a[c].id = m.stream
                  /\ b = [dataChannels[e] EXCEPT ![m.stream] = c]
                  /\ \/ /\ dataChannels[e][m.stream] = c
                        /\ a = channels[e] /\ b = dataChannels[e]
                     \/ /\ dataChannels[e][m.stream] = NoChannel
                        /\ c = Len(channels[e]) + 1 /\ c <= MaxChannels
                        /\ a = Append(channels[e], [id |-> m.stream, readyState |-> "open",
                                                    negotiated |-> FALSE])
                  /\ Sound(a, b, dataChannelQueue[e])
                  /\ Sound(a, b, q)
                  /\ Flush(e, a, b, q, {})
<1>1. PICK m \in net :
          LET known == dataChannels[e][m.stream] # NoChannel
              c == IF known THEN dataChannels[e][m.stream] ELSE Len(channels[e]) + 1
          IN  /\ m.type = "OPEN" /\ m.to = e
              /\ c <= MaxChannels
              /\ Flush(e,
                       IF known THEN channels[e]
                       ELSE Append(channels[e], [id |-> m.stream, readyState |-> "open",
                                                 negotiated |-> FALSE]),
                       [dataChannels[e] EXCEPT ![m.stream] = c],
                       Append(dataChannelQueue[e], [channel |-> c, kind |-> "ACK"]),
                       {})
  BY DEF ReceiveOpen
<1> DEFINE known == dataChannels[e][m.stream] # NoChannel
           rec == [id |-> m.stream, readyState |-> "open", negotiated |-> FALSE]
           c == IF known THEN dataChannels[e][m.stream] ELSE Len(channels[e]) + 1
           a == IF known THEN channels[e] ELSE Append(channels[e], rec)
           b == [dataChannels[e] EXCEPT ![m.stream] = c]
           q == Append(dataChannelQueue[e], [channel |-> c, kind |-> "ACK"])
<1>2. m \in Message
  BY DEF TypeInv, TypeOK
<1>3. m.stream \in StreamId
  BY <1>1, <1>2 DEF Message
<1>4. Sound(channels[e], dataChannels[e], dataChannelQueue[e])
  BY DEF TypeInv
<1>5. rec \in Channel /\ rec.id = m.stream
  BY <1>3 DEF Channel
<1>6. c <= MaxChannels /\ Flush(e, a, b, q, {})
  BY <1>1
<1>7. CASE known
  <2>1. c = dataChannels[e][m.stream] /\ a = channels[e]
    BY <1>7
  <2>2. /\ c \in DOMAIN channels[e] /\ channels[e][c].id = m.stream
        /\ b = dataChannels[e]
    BY <1>3, <1>4, <1>7 DEF Sound
  <2>3. Sound(a, b, dataChannelQueue[e]) /\ c \in DOMAIN a /\ a[c].id = m.stream
    BY <1>4, <2>1, <2>2
  <2> HIDE DEF known, a, b, c
  <2>4. Sound(a, b, q)
    BY <2>3, QueuedSound
  <2> QED
    BY <1>1, <1>3, <1>6, <2>1, <2>2, <2>3, <2>4 DEF b
<1>8. CASE ~known
  <2>1. c = Len(channels[e]) + 1 /\ a = Append(channels[e], rec)
          /\ dataChannels[e][m.stream] = NoChannel
    BY <1>8
  <2>2. b = [dataChannels[e] EXCEPT ![rec.id] = Len(channels[e]) + 1]
    BY <1>5, <2>1
  <2> HIDE DEF known, a, b, c, rec
  <2>3. Len(channels[e]) \in Nat /\ Len(channels[e]) < MaxChannels
    <3>1. channels[e] \in Seq(Channel)
      BY <1>4 DEF Sound
    <3> QED
      BY <1>6, <2>1, <3>1, BoundsAssumption
  <2>4. /\ Sound(Append(channels[e], rec), b, dataChannelQueue[e])
        /\ DOMAIN Append(channels[e], rec) = 1 .. Len(channels[e]) + 1
        /\ Append(channels[e], rec)[Len(channels[e]) + 1] = rec
    BY <1>3, <1>4, <1>5, <2>2, <2>3, AddedSound
  <2>5. Sound(a, b, dataChannelQueue[e]) /\ c \in DOMAIN a /\ a[c].id = m.stream
    BY <1>5, <2>1, <2>3, <2>4
  <2>6. Sound(a, b, q)
    BY <2>5, QueuedSound
  <2> QED
    BY <1>1, <1>3, <1>6, <2>1, <2>5, <2>6 DEF b, rec
<1> QED
  BY <1>7, <1>8

\* One channel changes its state.
StateSetTo(chans, c, st, a) ==
    /\ DOMAIN a = DOMAIN chans
    /\ \A d \in DOMAIN a : /\ a[d].id = chans[d].id
                           /\ a[d].negotiated = chans[d].negotiated
                           /\ d # c => a[d] = chans[d]
    /\ a[c].readyState = st

SetsState(e, c, st) == channels' = [channels EXCEPT ![e][c].readyState = st]

LEMMA StateSet ==
    ASSUME TypeInv, NEW e \in Endpoint, NEW c \in DOMAIN channels[e],
           NEW st \in {"connecting", "open", "closing", "closed"},
           SetsState(e, c, st)
    PROVE  \E a : /\ channels' = [channels EXCEPT ![e] = a]
                  /\ Sound(a, dataChannels[e], dataChannelQueue[e])
                  /\ StateSetTo(channels[e], c, st, a)
<1> DEFINE chans == channels[e]
           a == [chans EXCEPT ![c] = [chans[c] EXCEPT !.readyState = st]]
<1>1. channels \in [Endpoint -> Seq(Channel)]
      /\ Sound(chans, dataChannels[e], dataChannelQueue[e])
  BY DEF TypeInv, TypeOK
<1>2. channels' = [channels EXCEPT ![e] = a]
  BY <1>1 DEF SetsState
<1>3. /\ chans \in Seq(Channel) /\ Len(chans) \in Nat /\ DOMAIN chans = 1 .. Len(chans)
      /\ c \in DOMAIN chans
  BY <1>1 DEF Sound
<1> HIDE DEF chans
<1>4. chans[c] \in Channel
  BY <1>3
<1> DEFINE rec == [chans[c] EXCEPT !.readyState = st]
<1>5. /\ rec \in Channel /\ rec.id = chans[c].id
      /\ rec.negotiated = chans[c].negotiated /\ rec.readyState = st
  BY <1>4 DEF Channel
<1> HIDE DEF rec
<1>6. a = [chans EXCEPT ![c] = rec]
  BY DEF rec
<1> HIDE DEF a
<1>7. /\ a \in Seq(Channel) /\ Len(a) = Len(chans) /\ DOMAIN a = DOMAIN chans
      /\ a[c] = rec
      /\ \A d \in DOMAIN a : d # c => a[d] = chans[d]
  BY <1>3, <1>5, <1>6
<1>8. \A d \in DOMAIN a : /\ a[d].id = chans[d].id
                          /\ a[d].negotiated = chans[d].negotiated
                          /\ d # c => a[d] = chans[d]
  BY <1>5, <1>7
<1>9. Sound(a, dataChannels[e], dataChannelQueue[e])
  <2>1. \A s \in StreamId : dataChannels[e][s] # NoChannel => a[dataChannels[e][s]].id = s
    BY <1>1, <1>7, <1>8 DEF Sound
  <2> QED
    BY <1>1, <1>7, <2>1 DEF Sound
<1>10. a[c].readyState = st
  BY <1>5, <1>7
<1>11. StateSetTo(chans, c, st, a)
  BY <1>7, <1>8, <1>10 DEF StateSetTo
<1> QED
  BY <1>2, <1>9, <1>11 DEF chans

\* A part of the queue.
LEMMA FilteredSound ==
    ASSUME NEW chans, NEW table, NEW queue, Sound(chans, table, queue),
           NEW keep \in SUBSET DOMAIN queue
    PROVE  /\ Sound(chans, table, Filtered(queue, keep))
           /\ \A j \in DOMAIN Filtered(queue, keep) :
                 \E i \in keep : Filtered(queue, keep)[j] = queue[i]
<1>1. queue \in Seq(QueueItem) /\ \A i \in DOMAIN queue : queue[i].channel \in DOMAIN chans
  BY DEF Sound
<1>2. /\ Filtered(queue, keep) \in Seq(QueueItem)
      /\ \A j \in DOMAIN Filtered(queue, keep) :
            \E i \in keep : Filtered(queue, keep)[j] = queue[i]
  BY <1>1, FilteredIs
<1>3. \A j \in DOMAIN Filtered(queue, keep) : Filtered(queue, keep)[j].channel \in DOMAIN chans
  BY <1>1, <1>2
<1> QED
  BY <1>2, <1>3 DEF Sound

\* What dataChannelClose makes, before the association is established, of the channels,
\* the register and the queue: a, b and q.
Forgotten(chans, table, queue, c, a, b, q) ==
    /\ DOMAIN a = DOMAIN chans
    /\ \A d \in DOMAIN a : /\ a[d].id = chans[d].id
                           /\ a[d].negotiated = chans[d].negotiated
                           /\ d # c => a[d] = chans[d]
    /\ a[c].readyState = "closed"
    /\ b = IF chans[c].id \in {Unassigned, 0} THEN table
           ELSE [table EXCEPT ![chans[c].id] = NoChannel]
    /\ \A j \in DOMAIN q : \E i \in DOMAIN queue :
          /\ q[j] = queue[i]
          /\ chans[q[j].channel].id # chans[c].id

LEMMA ForgetChannelIs ==
    ASSUME TypeInv, NEW e \in Endpoint, NEW c \in DOMAIN channels[e], ForgetChannel(e, c)
    PROVE  \E a, b, q :
              /\ channels' = [channels EXCEPT ![e] = a]
              /\ dataChannels' = [dataChannels EXCEPT ![e] = b]
              /\ dataChannelQueue' = [dataChannelQueue EXCEPT ![e] = q]
              /\ Sound(a, b, q)
              /\ Forgotten(channels[e], dataChannels[e], dataChannelQueue[e], c, a, b, q)
<1> DEFINE id == channels[e][c].id
           queue == dataChannelQueue[e]
           keep == {i \in DOMAIN queue : channels[e][queue[i].channel].id # id}
           q == Filtered(queue, keep)
           b == IF id \in {Unassigned, 0} THEN dataChannels[e]
                ELSE [dataChannels[e] EXCEPT ![id] = NoChannel]
<1>1. /\ channels \in [Endpoint -> Seq(Channel)]
      /\ dataChannels \in [Endpoint -> [StreamId -> Nat]]
      /\ dataChannelQueue \in [Endpoint -> Seq(QueueItem)]
      /\ Sound(channels[e], dataChannels[e], queue)
  BY DEF TypeInv, TypeOK
<1>2. SetsState(e, c, "closed")
  BY DEF ForgetChannel, SetsState
<1>3. PICK a : /\ channels' = [channels EXCEPT ![e] = a]
               /\ Sound(a, dataChannels[e], queue)
               /\ StateSetTo(channels[e], c, "closed", a)
  BY <1>2, StateSet
<1>4. dataChannelQueue' = [dataChannelQueue EXCEPT ![e] = q]
  BY <1>1 DEF ForgetChannel
<1>5. dataChannels' = [dataChannels EXCEPT ![e] = b]
  BY <1>1 DEF ForgetChannel
<1>6. /\ Sound(a, dataChannels[e], q)
      /\ \A j \in DOMAIN q : \E i \in keep : q[j] = queue[i]
  <2>1. keep \in SUBSET DOMAIN queue
    OBVIOUS
  <2> HIDE DEF keep, queue
  <2> QED
    BY <1>3, <2>1, FilteredSound
<1>7. \A j \in DOMAIN q : \E i \in DOMAIN queue :
          /\ q[j] = queue[i]
          /\ channels[e][q[j].channel].id # id
  <2> HIDE DEF q, queue, id
  <2> QED
    BY <1>6
<1> HIDE DEF q
<1>8. Sound(a, b, q)
  BY <1>6 DEF Sound
<1>9. b = IF channels[e][c].id \in {Unassigned, 0} THEN dataChannels[e]
          ELSE [dataChannels[e] EXCEPT ![channels[e][c].id] = NoChannel]
  OBVIOUS
<1>10. \A j \in DOMAIN q : \E i \in DOMAIN dataChannelQueue[e] :
           /\ q[j] = dataChannelQueue[e][i]
           /\ channels[e][q[j].channel].id # channels[e][c].id
  BY <1>7
<1> HIDE DEF b, id, queue
<1>11. Forgotten(channels[e], dataChannels[e], dataChannelQueue[e], c, a, b, q)
  BY <1>3, <1>9, <1>10 DEF Forgotten, StateSetTo
<1> QED
  BY <1>3, <1>4, <1>5, <1>8, <1>11

(***************************************************************************)
(* TypeInv is inductive                                                    *)
(***************************************************************************)

\* A step of the association or of the channels that flushes nothing.
LEMMA ChannelsTyped ==
    ASSUME TypeInv, RestOK', NEW e \in Endpoint, NEW a, NEW b, NEW q, Sound(a, b, q),
           channels' = [channels EXCEPT ![e] = a],
           dataChannels' = [dataChannels EXCEPT ![e] = b],
           dataChannelQueue' = [dataChannelQueue EXCEPT ![e] = q],
           UNCHANGED outboundStreamSeq
    PROVE  TypeInv'
<1>1. outboundStreamSeq \in [Endpoint -> SUBSET StreamId]
  BY DEF TypeInv, TypeOK
<1>2. /\ outboundStreamSeq[e] \in SUBSET StreamId
      /\ outboundStreamSeq' = [outboundStreamSeq EXCEPT ![e] = outboundStreamSeq[e]]
  BY <1>1
<1> QED
  BY <1>2, OneEndpoint, Zenon

\* Steps that leave a variable of the channels as it is.
LEMMA Kept ==
    ASSUME TypeOK, NEW e \in Endpoint
    PROVE  /\ UNCHANGED channels => channels' = [channels EXCEPT ![e] = channels[e]]
           /\ UNCHANGED dataChannels => dataChannels' = [dataChannels EXCEPT ![e] = dataChannels[e]]
           /\ UNCHANGED dataChannelQueue =>
                 dataChannelQueue' = [dataChannelQueue EXCEPT ![e] = dataChannelQueue[e]]
BY DEF TypeOK

LEMMA PhaseTyped ==
    ASSUME TypeOK, NEW e \in Endpoint
    PROVE  /\ \A p \in {"connecting", "established", "closed"} :
                 phase' = [phase EXCEPT ![e] = p] =>
                     phase' \in [Endpoint -> {"connecting", "established", "closed"}]
           /\ UNCHANGED phase => phase' \in [Endpoint -> {"connecting", "established", "closed"}]
BY DEF TypeOK

LEMMA EstablishTyped ==
    ASSUME TypeInv, EstablishServer \/ EstablishClient
    PROVE  TypeInv'
<1>1. Client \in Endpoint /\ Server \in Endpoint
  BY DEF Endpoint
<1>2. CASE EstablishServer
  <2> DEFINE sent == {[type |-> "COOKIE_ACK", to |-> Client]}
  <2>1. Connected(Server, sent) /\ UNCHANGED <<resetVars, performed>>
    BY <1>2 DEF EstablishServer
  <2>2. phase' \in [Endpoint -> {"connecting", "established", "closed"}]
    BY <1>1, <1>2, PhaseTyped DEF EstablishServer, TypeInv
  <2>3. sent \in SUBSET Message
    BY <1>1 DEF Message
  <2> HIDE DEF sent
  <2>4. PICK a : /\ Sound(a, dataChannels[Server], dataChannelQueue[Server])
                 /\ Flush(Server, a, dataChannels[Server], dataChannelQueue[Server], sent)
    BY <1>1, <2>1, ConnectedIs
  <2> QED
    BY <1>1, <2>1, <2>2, <2>3, <2>4, FlushTyped, Zenon
<1>3. CASE EstablishClient
  <2>1. Connected(Client, {}) /\ UNCHANGED <<resetVars, performed>>
    BY <1>3 DEF EstablishClient
  <2>2. phase' \in [Endpoint -> {"connecting", "established", "closed"}]
    BY <1>1, <1>3, PhaseTyped DEF EstablishClient, TypeInv
  <2>3. {} \in SUBSET Message
    OBVIOUS
  <2>4. PICK a : /\ Sound(a, dataChannels[Client], dataChannelQueue[Client])
                 /\ Flush(Client, a, dataChannels[Client], dataChannelQueue[Client], {})
    BY <1>1, <2>1, ConnectedIs
  <2> QED
    BY <1>1, <2>1, <2>2, <2>3, <2>4, FlushTyped, Zenon
<1> QED
  BY <1>2, <1>3

\* What closing the association leaves.
LEMMA DropIs ==
    ASSUME TypeInv, NEW e \in Endpoint, Drop(e)
    PROVE  /\ phase' = [phase EXCEPT ![e] = "closed"]
           /\ UNCHANGED <<dataChannelQueue, outboundStreamSeq>>
           /\ \/ phase[e] = "closed" /\ UNCHANGED <<channels, dataChannels>>
              \/ \E a, b : /\ ClosedFor(channels[e], dataChannels[e], StreamId, a, b)
                           /\ Sound(a, b, dataChannelQueue[e])
                           /\ channels' = [channels EXCEPT ![e] = a]
                           /\ dataChannels' = [dataChannels EXCEPT ![e] = b]
<1>1. /\ phase' = [phase EXCEPT ![e] = "closed"]
      /\ UNCHANGED <<dataChannelQueue, outboundStreamSeq>>
      /\ \/ phase[e] = "closed" /\ UNCHANGED <<channels, dataChannels>>
         \/ ReconfigStreams(e, [s \in 1 .. MaxId + 1 |-> s - 1])
  BY DEF Drop
<1> DEFINE all == [s \in 1 .. MaxId + 1 |-> s - 1]
<1>2. IdsOf(all) = StreamId
  <2>1. ASSUME NEW s \in StreamId
        PROVE  s + 1 \in DOMAIN all /\ all[s + 1] = s
    BY BoundsAssumption DEF StreamId
  <2> HIDE DEF all
  <2> QED
    BY <2>1 DEF IdsOf
<1> HIDE DEF all
<1>3. CASE ReconfigStreams(e, all)
  BY <1>1, <1>2, <1>3, ReconfigStreamsIs
<1> QED
  BY <1>1, <1>3 DEF all

LEMMA DropTyped ==
    ASSUME TypeInv, RestOK', NEW e \in Endpoint, Drop(e)
    PROVE  TypeInv'
<1>1. TypeOK /\ Sound(channels[e], dataChannels[e], dataChannelQueue[e])
  BY DEF TypeInv
<1>2. /\ UNCHANGED <<dataChannelQueue, outboundStreamSeq>>
      /\ \/ UNCHANGED <<channels, dataChannels>>
         \/ \E a, b : /\ Sound(a, b, dataChannelQueue[e])
                      /\ channels' = [channels EXCEPT ![e] = a]
                      /\ dataChannels' = [dataChannels EXCEPT ![e] = b]
  BY DropIs
<1>3. PICK a, b : /\ Sound(a, b, dataChannelQueue[e])
                  /\ channels' = [channels EXCEPT ![e] = a]
                  /\ dataChannels' = [dataChannels EXCEPT ![e] = b]
  BY <1>1, <1>2, Kept
<1>4. /\ dataChannelQueue' = [dataChannelQueue EXCEPT ![e] = dataChannelQueue[e]]
      /\ UNCHANGED outboundStreamSeq
  BY <1>1, <1>2, Kept
<1> QED
  BY <1>3, <1>4, ChannelsTyped, Zenon

LEMMA CloseAssociationTyped ==
    ASSUME TypeInv, NEW e \in Endpoint, CloseAssociation(e)
    PROVE  TypeInv'
<1>1. TypeOK /\ RestOK
  BY TypeOKParts DEF TypeInv
<1>2. Drop(e) /\ UNCHANGED <<resetVars, net, performed>>
  BY DEF CloseAssociation
<1>3. phase' \in [Endpoint -> {"connecting", "established", "closed"}]
  BY <1>1, <1>2, PhaseTyped DEF Drop
<1>4. RestOK'
  BY <1>1, <1>2, <1>3 DEF RestOK, resetVars
<1> QED
  BY <1>2, <1>4, DropTyped

LEMMA CreateTyped ==
    ASSUME TypeInv, NEW e \in Endpoint, CreateDataChannel(e)
    PROVE  TypeInv'
<1>1. PICK a, b, q : Sound(a, b, q) /\ Flush(e, a, b, q, {})
  BY CreateDataChannelIs
<1>2. UNCHANGED <<resetVars, performed>>
  BY DEF CreateDataChannel
<1>3. phase' \in [Endpoint -> {"connecting", "established", "closed"}]
  BY PhaseTyped DEF CreateDataChannel, TypeInv
<1>4. {} \in SUBSET Message
  OBVIOUS
<1> QED
  BY <1>1, <1>2, <1>3, <1>4, FlushTyped, Zenon

LEMMA ReceiveOpenTyped ==
    ASSUME TypeInv, NEW e \in Endpoint, ReceiveOpen(e)
    PROVE  TypeInv'
<1>1. PICK a, b, q : Sound(a, b, q) /\ Flush(e, a, b, q, {})
  BY ReceiveOpenIs
<1>2. UNCHANGED <<resetVars, performed>>
  BY DEF ReceiveOpen
<1>3. phase' \in [Endpoint -> {"connecting", "established", "closed"}]
  BY PhaseTyped DEF ReceiveOpen, TypeInv
<1>4. {} \in SUBSET Message
  OBVIOUS
<1> QED
  BY <1>1, <1>2, <1>3, <1>4, FlushTyped, Zenon

LEMMA SendDataTyped ==
    ASSUME TypeInv, NEW e \in Endpoint, SendData(e)
    PROVE  TypeInv'
<1>1. PICK c \in DOMAIN channels[e] :
          Flush(e, channels[e], dataChannels[e],
                Append(dataChannelQueue[e], [channel |-> c, kind |-> "DATA"]), {})
  BY DEF SendData
<1>2. Sound(channels[e], dataChannels[e], dataChannelQueue[e])
  BY DEF TypeInv
<1> DEFINE q == Append(dataChannelQueue[e], [channel |-> c, kind |-> "DATA"])
<1>3. Sound(channels[e], dataChannels[e], q)
  BY <1>2, QueuedSound
<1>4. UNCHANGED <<resetVars, performed>>
  BY DEF SendData
<1>5. phase' \in [Endpoint -> {"connecting", "established", "closed"}]
  BY PhaseTyped DEF SendData, TypeInv
<1>6. {} \in SUBSET Message /\ Flush(e, channels[e], dataChannels[e], q, {})
  BY <1>1
<1> HIDE DEF q
<1> QED
  BY <1>3, <1>4, <1>5, <1>6, FlushTyped, Zenon

\* createDataChannel with negotiation.
LEMMA CreateNegotiatedIs ==
    ASSUME TypeInv, NEW e \in Endpoint, CreateNegotiated(e)
    PROVE  \E id \in NegotiatedIds, st \in {"connecting", "open"} :
              LET rec == [id |-> id, readyState |-> st, negotiated |-> TRUE]
                  a == Append(channels[e], rec)
                  b == [dataChannels[e] EXCEPT ![id] = Len(channels[e]) + 1]
              IN  /\ Len(channels[e]) < MaxChannels
                  /\ rec \in Channel /\ id \in StreamId
                  /\ dataChannels[e][id] = NoChannel
                  /\ channels' = [channels EXCEPT ![e] = a]
                  /\ dataChannels' = [dataChannels EXCEPT ![e] = b]
                  /\ Sound(a, b, dataChannelQueue[e])
<1> DEFINE st == IF phase[e] = "established" THEN "open" ELSE "connecting"
<1>1. PICK id \in NegotiatedIds :
          /\ dataChannels[e][id] = NoChannel
          /\ channels' = [channels EXCEPT ![e] =
                 Append(@, [id |-> id, readyState |-> st, negotiated |-> TRUE])]
          /\ dataChannels' = [dataChannels EXCEPT ![e][id] = Len(channels[e]) + 1]
  BY DEF CreateNegotiated
<1>2. st \in {"connecting", "open"}
  OBVIOUS
<1> HIDE DEF st
<1> DEFINE rec == [id |-> id, readyState |-> st, negotiated |-> TRUE]
           a == Append(channels[e], rec)
           b == [dataChannels[e] EXCEPT ![id] = Len(channels[e]) + 1]
<1>3. /\ channels \in [Endpoint -> Seq(Channel)]
      /\ dataChannels \in [Endpoint -> [StreamId -> Nat]]
      /\ Sound(channels[e], dataChannels[e], dataChannelQueue[e])
  BY DEF TypeInv, TypeOK
<1>4. channels' = [channels EXCEPT ![e] = a] /\ dataChannels' = [dataChannels EXCEPT ![e] = b]
  BY <1>1, <1>3
<1>5. id \in StreamId
  BY BoundsAssumption
<1>6. rec \in Channel /\ rec.id = id
  BY <1>2, <1>5 DEF Channel
<1>7. Len(channels[e]) < MaxChannels
  BY DEF CreateNegotiated
<1> HIDE DEF rec
<1>8. Sound(a, b, dataChannelQueue[e])
  BY <1>3, <1>5, <1>6, <1>7, AddedSound
<1> QED
  BY <1>1, <1>2, <1>4, <1>5, <1>6, <1>7, <1>8 DEF rec

LEMMA CreateNegotiatedTyped ==
    ASSUME TypeInv, NEW e \in Endpoint, CreateNegotiated(e)
    PROVE  TypeInv'
<1>1. TypeOK /\ RestOK
  BY TypeOKParts DEF TypeInv
<1>2. PICK a, b : /\ channels' = [channels EXCEPT ![e] = a]
                  /\ dataChannels' = [dataChannels EXCEPT ![e] = b]
                  /\ Sound(a, b, dataChannelQueue[e])
  BY CreateNegotiatedIs
<1>3. /\ dataChannelQueue' = [dataChannelQueue EXCEPT ![e] = dataChannelQueue[e]]
      /\ UNCHANGED outboundStreamSeq
  BY <1>1, Kept DEF CreateNegotiated
<1>4. RestOK'
  BY <1>1 DEF CreateNegotiated, RestOK, resetVars
<1> QED
  BY <1>2, <1>3, <1>4, ChannelsTyped, Zenon

\* A step changes the reset state of one endpoint.
LEMMA RestTyped ==
    ASSUME RestOK, UNCHANGED phase, NEW e \in Endpoint,
           NEW q \in Seq(Ids), NEW r \in Request, NEW u \in Timer,
           reconfigQueue' = [reconfigQueue EXCEPT ![e] = q],
           reconfigRequest' = [reconfigRequest EXCEPT ![e] = r],
           timerReconfig' = [timerReconfig EXCEPT ![e] = u],
           reconfigRequestSeq' \in [Endpoint -> Nat],
           performed' \in [Endpoint -> SUBSET Nat],
           net' \subseteq Message
    PROVE  RestOK'
BY DEF RestOK

\* What dataChannelClose does while the association is established: the id is put in the
\* queue, which is tried when nothing else is in it.
ResetEffect(e, c) ==
    LET queue == Append(reconfigQueue[e], channels[e][c].id)
    IN  /\ phase[e] = "established"
        /\ queue \in Seq(Ids)
        /\ UNCHANGED <<dataChannels, dataChannelQueue>>
        /\ SetsState(e, c, "closing")
        /\ reconfigRequestSeq' \in [Endpoint -> Nat]
        /\ \E q, r, u :
              /\ q \in Seq(Ids) /\ r \in Request /\ u \in Timer
              /\ r = reconfigRequest[e] \/ reconfigRequest[e] = NoRequest
              /\ (reconfigQueue[e] # <<>> => reconfigRequest[e] # NoRequest)
                    => Transmitted(queue, reconfigRequest[e], timerReconfig[e], q, r, u)
              /\ reconfigQueue' = [reconfigQueue EXCEPT ![e] = q]
              /\ reconfigRequest' = [reconfigRequest EXCEPT ![e] = r]
              /\ timerReconfig' = [timerReconfig EXCEPT ![e] = u]
        /\ \E o \in SUBSET Message : net' = net \cup o /\ \A m \in o : m.type = "RESET"

LEMMA ResetChannelIs ==
    ASSUME TypeInv, NEW e \in Endpoint, NEW c \in DOMAIN channels[e], ResetChannel(e, c)
    PROVE  ResetEffect(e, c)
<1> DEFINE id == channels[e][c].id
           queue == Append(reconfigQueue[e], id)
<1>1. /\ TypeOK /\ RestOK
      /\ Sound(channels[e], dataChannels[e], dataChannelQueue[e])
  BY TypeOKParts DEF TypeInv
<1>2. /\ reconfigQueue[e] \in Seq(Ids) /\ reconfigRequest[e] \in Request
      /\ timerReconfig[e] \in Timer /\ reconfigRequestSeq \in [Endpoint -> Nat]
      /\ reconfigRequest \in [Endpoint -> Request]
      /\ timerReconfig \in [Endpoint -> Timer]
  BY <1>1 DEF RestOK
<1>3. id \in Ids
  <2>1. channels[e][c] \in Channel
    BY <1>1 DEF Sound
  <2> QED
    BY <2>1 DEF Channel, Ids
<1>4. /\ phase[e] = "established"
      /\ UNCHANGED <<dataChannels, dataChannelQueue>>
      /\ SetsState(e, c, "closing")
      /\ IF Len(queue) = 1
         THEN TransmitReconfigRequest(e, queue, reconfigRequest[e], timerReconfig[e], {})
         ELSE /\ reconfigQueue' = [reconfigQueue EXCEPT ![e] = queue]
              /\ UNCHANGED <<reconfigRequest, reconfigRequestSeq, timerReconfig, net>>
  BY DEF ResetChannel, SetsState
<1> HIDE DEF id
<1>5. queue \in Seq(Ids) /\ Len(queue) = Len(reconfigQueue[e]) + 1 /\ queue # <<>>
  BY <1>2, <1>3
<1>6. Len(queue) # 1 => reconfigQueue[e] # <<>>
  BY <1>2, <1>5
<1> HIDE DEF queue
<1>7. CASE Len(queue) = 1
  <2>1. TransmitReconfigRequest(e, queue, reconfigRequest[e], timerReconfig[e], {})
    BY <1>4, <1>7
  <2>2. TransmitEffect(e, queue, reconfigRequest[e], timerReconfig[e], {})
    BY <1>1, <1>2, <1>5, <2>1, TransmitIs
  <2>3. PICK q, r, u :
              /\ Transmitted(queue, reconfigRequest[e], timerReconfig[e], q, r, u)
              /\ reconfigQueue' = [reconfigQueue EXCEPT ![e] = q]
              /\ reconfigRequest' = [reconfigRequest EXCEPT ![e] = r]
              /\ timerReconfig' = [timerReconfig EXCEPT ![e] = u]
    BY <2>2 DEF TransmitEffect
  <2>4. /\ q \in Seq(Ids) /\ r \in Request /\ u \in Timer
        /\ r = reconfigRequest[e] \/ reconfigRequest[e] = NoRequest
    BY <2>3 DEF Transmitted
  <2>5. /\ reconfigRequestSeq' \in [Endpoint -> Nat]
        /\ \E o \in SUBSET Message : net' = net \cup o /\ \A m \in o : m.type = "RESET"
    BY <2>2 DEF TransmitEffect
  <2> QED
    BY <1>4, <1>5, <2>3, <2>4, <2>5 DEF queue, id, ResetEffect
<1>8. CASE Len(queue) # 1
  <2>1. /\ reconfigQueue' = [reconfigQueue EXCEPT ![e] = queue]
        /\ UNCHANGED <<reconfigRequest, reconfigRequestSeq, timerReconfig, net>>
    BY <1>4, <1>8
  <2>2. /\ reconfigRequest' = [reconfigRequest EXCEPT ![e] = reconfigRequest[e]]
        /\ timerReconfig' = [timerReconfig EXCEPT ![e] = timerReconfig[e]]
    BY <1>2, <2>1
  <2>3. (reconfigQueue[e] # <<>> => reconfigRequest[e] # NoRequest)
           => Transmitted(queue, reconfigRequest[e], timerReconfig[e],
                          queue, reconfigRequest[e], timerReconfig[e])
    BY <1>2, <1>5, <1>6, <1>8 DEF Transmitted
  <2>4. {} \in SUBSET Message /\ net' = net \cup {} /\ \A m \in {} : m.type = "RESET"
    BY <2>1
  <2> QED
    BY <1>2, <1>4, <1>5, <2>1, <2>2, <2>3, <2>4 DEF queue, id, ResetEffect
<1> QED
  BY <1>7, <1>8

LEMMA CloseTyped ==
    ASSUME TypeInv, NEW e \in Endpoint, Close(e)
    PROVE  TypeInv'
<1>1. TypeOK /\ RestOK
  BY TypeOKParts DEF TypeInv
<1>2. UNCHANGED <<phase, outboundStreamSeq, performed>>
  BY DEF Close
<1>3. PICK c \in DOMAIN channels[e] : ResetChannel(e, c) \/ ForgetChannel(e, c)
  BY DEF Close
<1>4. CASE ResetChannel(e, c)
  <2>0. ResetEffect(e, c)
    BY <1>4, ResetChannelIs
  <2>1. PICK q, r, u :
            /\ q \in Seq(Ids) /\ r \in Request /\ u \in Timer
            /\ reconfigQueue' = [reconfigQueue EXCEPT ![e] = q]
            /\ reconfigRequest' = [reconfigRequest EXCEPT ![e] = r]
            /\ timerReconfig' = [timerReconfig EXCEPT ![e] = u]
    BY <2>0 DEF ResetEffect
  <2>2. /\ UNCHANGED <<dataChannels, dataChannelQueue>>
        /\ SetsState(e, c, "closing")
        /\ reconfigRequestSeq' \in [Endpoint -> Nat]
    BY <2>0 DEF ResetEffect
  <2>3. PICK o \in SUBSET Message : net' = net \cup o
    BY <2>0 DEF ResetEffect
  <2>4. PICK a : channels' = [channels EXCEPT ![e] = a]
                 /\ Sound(a, dataChannels[e], dataChannelQueue[e])
    BY <2>2, StateSet
  <2>5. net' \subseteq Message /\ performed' \in [Endpoint -> SUBSET Nat]
    BY <1>1, <1>2, <2>3 DEF RestOK
  <2>6. UNCHANGED phase
    BY <1>2
  <2>7. RestOK'
    BY <1>1, <2>1, <2>2, <2>5, <2>6, RestTyped
  <2>8. /\ dataChannels' = [dataChannels EXCEPT ![e] = dataChannels[e]]
        /\ dataChannelQueue' = [dataChannelQueue EXCEPT ![e] = dataChannelQueue[e]]
    BY <1>1, <2>2, Kept
  <2>9. UNCHANGED outboundStreamSeq
    BY <1>2
  <2> QED
    BY <2>4, <2>7, <2>8, <2>9, ChannelsTyped, Zenon
<1>5. CASE ForgetChannel(e, c)
  <2>1. PICK a, b, q : /\ channels' = [channels EXCEPT ![e] = a]
                       /\ dataChannels' = [dataChannels EXCEPT ![e] = b]
                       /\ dataChannelQueue' = [dataChannelQueue EXCEPT ![e] = q]
                       /\ Sound(a, b, q)
    BY <1>5, ForgetChannelIs
  <2>2. RestOK'
    BY <1>1, <1>2, <1>5 DEF ForgetChannel, RestOK, resetVars
  <2>3. UNCHANGED outboundStreamSeq
    BY <1>2
  <2> QED
    BY <2>1, <2>2, <2>3, ChannelsTyped, Zenon
<1> QED
  BY <1>3, <1>4, <1>5

\* DATA_CHANNEL_ACK.
LEMMA ReceiveAckIs ==
    ASSUME TypeInv, NEW e \in Endpoint, ReceiveAck(e)
    PROVE  \E m \in net :
              LET c == dataChannels[e][m.stream]
              IN  /\ m.type = "ACK" /\ m.to = e /\ m.stream \in StreamId
                  /\ c \in DOMAIN channels[e]
                  /\ channels[e][c].id = m.stream
                  /\ SetsState(e, c, "open")
<1>1. PICK m \in net :
          /\ m.type = "ACK" /\ m.to = e
          /\ dataChannels[e][m.stream] # NoChannel
          /\ SetsState(e, dataChannels[e][m.stream], "open")
  BY DEF ReceiveAck, SetsState
<1>2. m \in Message
  BY DEF TypeInv, TypeOK
<1>3. m.stream \in StreamId
  BY <1>1, <1>2 DEF Message
<1>4. Sound(channels[e], dataChannels[e], dataChannelQueue[e])
  BY DEF TypeInv
<1>5. /\ dataChannels[e][m.stream] \in DOMAIN channels[e]
      /\ channels[e][dataChannels[e][m.stream]].id = m.stream
  BY <1>1, <1>3, <1>4 DEF Sound
<1> QED
  BY <1>1, <1>3, <1>5

LEMMA ReceiveAckTyped ==
    ASSUME TypeInv, NEW e \in Endpoint, ReceiveAck(e)
    PROVE  TypeInv'
<1>1. TypeOK /\ RestOK
  BY TypeOKParts DEF TypeInv
<1>2. PICK c \in DOMAIN channels[e] : SetsState(e, c, "open")
  <2>1. PICK m \in net :
            /\ dataChannels[e][m.stream] \in DOMAIN channels[e]
            /\ SetsState(e, dataChannels[e][m.stream], "open")
    BY ReceiveAckIs
  <2> QED
    BY <2>1
<1>3. PICK a : channels' = [channels EXCEPT ![e] = a]
               /\ Sound(a, dataChannels[e], dataChannelQueue[e])
  BY <1>2, StateSet
<1>4. UNCHANGED <<phase, dataChannels, dataChannelQueue, outboundStreamSeq, resetVars,
                  net, performed>>
  BY DEF ReceiveAck
<1>5. RestOK'
  BY <1>1, <1>4 DEF RestOK, resetVars
<1>6. /\ dataChannels' = [dataChannels EXCEPT ![e] = dataChannels[e]]
      /\ dataChannelQueue' = [dataChannelQueue EXCEPT ![e] = dataChannelQueue[e]]
      /\ UNCHANGED outboundStreamSeq
  BY <1>1, <1>4, Kept
<1> QED
  BY <1>3, <1>5, <1>6, ChannelsTyped, Zenon

\* A reset request of the peer.
LEMMA ReceiveResetIs ==
    ASSUME TypeInv, NEW e \in Endpoint, ReceiveReset(e)
    PROVE  \E m \in net, back \in Seq(Ids) :
              LET queue == reconfigQueue[e] \o back
              IN  /\ phase[e] = "established"
                  /\ m.type = "RESET" /\ m.to = e /\ m.seq \in Nat
                  /\ queue \in Seq(Ids)
                  /\ TransmitReconfigRequest(e, queue, reconfigRequest[e], timerReconfig[e],
                         {[type |-> "RESPONSE", to |-> Peer(e), seq |-> m.seq]})
                  /\ ReconfigStreams(e, m.streams)
                  /\ performed' = [performed EXCEPT ![e] = @ \cup {m.seq}]
                  /\ UNCHANGED <<phase, dataChannelQueue, outboundStreamSeq>>
<1>1. RestOK
  BY TypeOKParts DEF TypeInv
<1>2. PICK m \in net :
          LET back == Filtered(m.streams,
                          {i \in DOMAIN m.streams : m.streams[i] \in outboundStreamSeq[e]})
              queue == reconfigQueue[e] \o back
          IN  /\ m.type = "RESET" /\ m.to = e
              /\ TransmitReconfigRequest(e, queue, reconfigRequest[e], timerReconfig[e],
                     {[type |-> "RESPONSE", to |-> Peer(e), seq |-> m.seq]})
              /\ ReconfigStreams(e, m.streams)
              /\ performed' = [performed EXCEPT ![e] = @ \cup {m.seq}]
  BY DEF ReceiveReset
<1> DEFINE keep == {i \in DOMAIN m.streams : m.streams[i] \in outboundStreamSeq[e]}
           back == Filtered(m.streams, keep)
<1>3. m \in Message
  BY <1>1 DEF RestOK
<1>4. m.streams \in Seq(StreamId) /\ m.seq \in Nat
  BY <1>2, <1>3 DEF Message
<1>5. m.streams \in Seq(Ids)
  BY <1>4 DEF Ids
<1>6. back \in Seq(Ids)
  <2>1. keep \in SUBSET DOMAIN m.streams
    OBVIOUS
  <2> HIDE DEF keep
  <2> QED
    BY <1>5, <2>1, FilteredIs
<1>7. reconfigQueue[e] \o back \in Seq(Ids)
  <2>1. reconfigQueue[e] \in Seq(Ids)
    BY <1>1 DEF RestOK
  <2> HIDE DEF back
  <2> QED
    BY <1>6, <2>1
<1>8. phase[e] = "established" /\ UNCHANGED <<phase, dataChannelQueue, outboundStreamSeq>>
  BY DEF ReceiveReset
<1>9. TransmitReconfigRequest(e, reconfigQueue[e] \o back, reconfigRequest[e], timerReconfig[e],
          {[type |-> "RESPONSE", to |-> Peer(e), seq |-> m.seq]})
  BY <1>2
<1> HIDE DEF back
<1> QED
  BY <1>2, <1>4, <1>6, <1>7, <1>8, <1>9

LEMMA ReceiveResetTyped ==
    ASSUME TypeInv, NEW e \in Endpoint, ReceiveReset(e)
    PROVE  TypeInv'
<1>1. TypeOK /\ RestOK
  BY TypeOKParts DEF TypeInv
<1>2. PICK m \in net, back \in Seq(Ids) :
          LET queue == reconfigQueue[e] \o back
          IN  /\ m.seq \in Nat
              /\ queue \in Seq(Ids)
              /\ TransmitReconfigRequest(e, queue, reconfigRequest[e], timerReconfig[e],
                     {[type |-> "RESPONSE", to |-> Peer(e), seq |-> m.seq]})
              /\ ReconfigStreams(e, m.streams)
              /\ performed' = [performed EXCEPT ![e] = @ \cup {m.seq}]
              /\ UNCHANGED <<phase, dataChannelQueue, outboundStreamSeq>>
  BY ReceiveResetIs
<1> DEFINE queue == reconfigQueue[e] \o back
           out == {[type |-> "RESPONSE", to |-> Peer(e), seq |-> m.seq]}
<1>3. queue \in Seq(Ids) /\ reconfigRequest[e] \in Request /\ timerReconfig[e] \in Timer
  BY <1>1, <1>2 DEF RestOK
<1>4. TransmitReconfigRequest(e, queue, reconfigRequest[e], timerReconfig[e], out)
  BY <1>2
<1>5. out \subseteq Message
  BY <1>2, PeerIs DEF Message
<1> HIDE DEF queue, out
<1>6. TransmitEffect(e, queue, reconfigRequest[e], timerReconfig[e], out)
  BY <1>1, <1>3, <1>4, TransmitIs
<1>7. PICK q, r, u :
            /\ Transmitted(queue, reconfigRequest[e], timerReconfig[e], q, r, u)
            /\ reconfigQueue' = [reconfigQueue EXCEPT ![e] = q]
            /\ reconfigRequest' = [reconfigRequest EXCEPT ![e] = r]
            /\ timerReconfig' = [timerReconfig EXCEPT ![e] = u]
  BY <1>6 DEF TransmitEffect
<1>8. q \in Seq(Ids) /\ r \in Request /\ u \in Timer
  BY <1>7 DEF Transmitted
<1>9. net' \subseteq Message /\ reconfigRequestSeq' \in [Endpoint -> Nat]
  BY <1>1, <1>5, <1>6 DEF RestOK, TransmitEffect
<1>10. performed' \in [Endpoint -> SUBSET Nat]
  BY <1>1, <1>2 DEF RestOK
<1>11. UNCHANGED phase /\ UNCHANGED outboundStreamSeq
  BY <1>2
<1>12. RestOK'
  BY <1>1, <1>7, <1>8, <1>9, <1>10, <1>11, RestTyped
<1>13. PICK a, b : /\ Sound(a, b, dataChannelQueue[e])
                   /\ channels' = [channels EXCEPT ![e] = a]
                   /\ dataChannels' = [dataChannels EXCEPT ![e] = b]
  BY <1>2, ReconfigStreamsIs
<1>14. dataChannelQueue' = [dataChannelQueue EXCEPT ![e] = dataChannelQueue[e]]
  BY <1>1, <1>2, Kept
<1> QED
  BY <1>11, <1>12, <1>13, <1>14, ChannelsTyped, Zenon

LEMMA ReceiveResponseTyped ==
    ASSUME TypeInv, NEW e \in Endpoint, ReceiveResponse(e)
    PROVE  TypeInv'
<1>1. TypeOK /\ RestOK
  BY TypeOKParts DEF TypeInv
<1> DEFINE streams == reconfigRequest[e].streams
           t == CancelTimer(timerReconfig[e])
<1>2. /\ outboundStreamSeq' = [outboundStreamSeq EXCEPT ![e] = @ \ Range(streams)]
      /\ ReconfigStreams(e, streams)
      /\ TransmitReconfigRequest(e, reconfigQueue[e], NoRequest, t, {})
      /\ UNCHANGED <<phase, dataChannelQueue, performed>>
  BY DEF ReceiveResponse
<1>3. reconfigQueue[e] \in Seq(Ids) /\ NoRequest \in Request
  <2>1. reconfigQueue[e] \in Seq(Ids)
    BY <1>1 DEF RestOK
  <2>2. <<>> \in Seq(StreamId \cup {Unassigned}) /\ 0 \in Nat
    OBVIOUS
  <2> QED
    BY <2>1, <2>2 DEF NoRequest, Request
<1>4. t \in Timer
  <2>1. timerReconfig[e] \in Timer
    BY <1>1 DEF RestOK
  <2> QED
    BY <2>1 DEF CancelTimer, Timer
<1> HIDE DEF t
<1>5. TransmitEffect(e, reconfigQueue[e], NoRequest, t, {})
  BY <1>1, <1>2, <1>3, <1>4, TransmitIs
<1>6. PICK q, r, u :
            /\ Transmitted(reconfigQueue[e], NoRequest, t, q, r, u)
            /\ reconfigQueue' = [reconfigQueue EXCEPT ![e] = q]
            /\ reconfigRequest' = [reconfigRequest EXCEPT ![e] = r]
            /\ timerReconfig' = [timerReconfig EXCEPT ![e] = u]
  BY <1>5 DEF TransmitEffect
<1>7. q \in Seq(Ids) /\ r \in Request /\ u \in Timer
  BY <1>6 DEF Transmitted
<1>8. /\ net' \subseteq Message /\ performed' \in [Endpoint -> SUBSET Nat]
      /\ UNCHANGED phase
      /\ reconfigRequestSeq' \in [Endpoint -> Nat]
  BY <1>1, <1>2, <1>5 DEF RestOK, TransmitEffect
<1>9. RestOK'
  BY <1>1, <1>6, <1>7, <1>8, RestTyped
<1>10. PICK a, b : /\ Sound(a, b, dataChannelQueue[e])
                   /\ channels' = [channels EXCEPT ![e] = a]
                   /\ dataChannels' = [dataChannels EXCEPT ![e] = b]
  BY <1>2, ReconfigStreamsIs
<1>11. dataChannelQueue' = [dataChannelQueue EXCEPT ![e] = dataChannelQueue[e]]
  BY <1>1, <1>2, Kept
<1> DEFINE left == outboundStreamSeq[e] \ Range(streams)
<1>12. outboundStreamSeq' = [outboundStreamSeq EXCEPT ![e] = left] /\ left \in SUBSET StreamId
  BY <1>1, <1>2 DEF TypeOK
<1> HIDE DEF left
<1> QED
  BY <1>9, <1>10, <1>11, <1>12, OneEndpoint, Zenon

LEMMA TimerReconfigExpiredTyped ==
    ASSUME TypeInv, NEW e \in Endpoint, TimerReconfigExpired(e)
    PROVE  TypeInv'
<1>1. TypeOK /\ RestOK
  BY TypeOKParts DEF TypeInv
<1>2. UNCHANGED <<reconfigQueue, reconfigRequest, reconfigRequestSeq, net, performed>>
  BY DEF TimerReconfigExpired
<1>3. timerReconfig' \in [Endpoint -> Timer]
  <2>1. /\ timerReconfig \in [Endpoint -> Timer]
        /\ timerReconfig[e].failures + 1 \in Nat
    BY <1>1 DEF RestOK, Timer
  <2>2. CASE timerReconfig' = [timerReconfig EXCEPT ![e] =
                                  [failures |-> @.failures + 1, armed |-> FALSE]]
    <3>1. [failures |-> timerReconfig[e].failures + 1, armed |-> FALSE] \in Timer
      BY <2>1 DEF Timer
    <3> QED
      BY <2>1, <2>2, <3>1
  <2>3. CASE timerReconfig' = [timerReconfig EXCEPT ![e].failures = @ + 1]
    <3>1. [timerReconfig[e] EXCEPT !.failures = @ + 1] \in Timer
      BY <2>1 DEF Timer
    <3>2. timerReconfig' = [timerReconfig EXCEPT ![e] =
                               [timerReconfig[e] EXCEPT !.failures = @ + 1]]
      BY <2>1, <2>3
    <3> QED
      BY <2>1, <3>1, <3>2
  <2> QED
    BY <2>2, <2>3 DEF TimerReconfigExpired
<1>4. Drop(e) \/ UNCHANGED <<phase, channelVars>>
  BY DEF TimerReconfigExpired
<1>5. phase' \in [Endpoint -> {"connecting", "established", "closed"}]
  BY <1>1, <1>4, PhaseTyped DEF Drop
<1>6. RestOK'
  BY <1>1, <1>2, <1>3, <1>5 DEF RestOK
<1>7. CASE Drop(e)
  BY <1>6, <1>7, DropTyped
<1>8. CASE UNCHANGED <<phase, channelVars>>
  <2>1. UNCHANGED <<channels, dataChannels, dataChannelQueue, outboundStreamSeq>>
    BY <1>8 DEF channelVars
  <2>2. TypeOK'
    BY <1>1, <1>6, <2>1 DEF TypeOK, RestOK, Ids, Timer
  <2> QED
    BY <2>1, <2>2 DEF TypeInv
<1> QED
  BY <1>4, <1>7, <1>8

LEMMA TypeInvInit == Init => TypeInv
<1> SUFFICES ASSUME Init
             PROVE  TypeInv
  OBVIOUS
<1>1. /\ <<>> \in Seq(Channel) /\ <<>> \in Seq(QueueItem)
      /\ <<>> \in Seq(StreamId \cup {Unassigned})
      /\ Len(<<>>) = 0 /\ DOMAIN <<>> = {}
  OBVIOUS
<1>2. NoRequest \in Request
  BY <1>1 DEF NoRequest, Request
<1>3. 0 <= MaxChannels
  BY BoundsAssumption
<1>4. [s \in StreamId |-> NoChannel] \in [StreamId -> Nat]
  BY DEF NoChannel
<1>5. TypeOK
  BY <1>1, <1>2, <1>3, <1>4 DEF Init, TypeOK
<1>6. Sound(<<>>, [s \in StreamId |-> NoChannel], <<>>)
  BY <1>1, <1>3 DEF Sound
<1> QED
  BY <1>5, <1>6 DEF Init, TypeInv

LEMMA TypeInvStep == TypeInv /\ [Next]_vars => TypeInv'
<1> SUFFICES ASSUME TypeInv, [Next]_vars
             PROVE  TypeInv'
  OBVIOUS
<1>1. CASE EstablishServer \/ EstablishClient
  BY <1>1, EstablishTyped
<1>2. ASSUME NEW e \in Endpoint, CloseAssociation(e)
      PROVE  TypeInv'
  BY <1>2, CloseAssociationTyped
<1>3. ASSUME NEW e \in Endpoint, CreateDataChannel(e)
      PROVE  TypeInv'
  BY <1>3, CreateTyped
<1>4. ASSUME NEW e \in Endpoint, CreateNegotiated(e)
      PROVE  TypeInv'
  BY <1>4, CreateNegotiatedTyped
<1>5. ASSUME NEW e \in Endpoint, SendData(e)
      PROVE  TypeInv'
  BY <1>5, SendDataTyped
<1>6. ASSUME NEW e \in Endpoint, Close(e)
      PROVE  TypeInv'
  BY <1>6, CloseTyped
<1>7. ASSUME NEW e \in Endpoint, ReceiveOpen(e)
      PROVE  TypeInv'
  BY <1>7, ReceiveOpenTyped
<1>8. ASSUME NEW e \in Endpoint, ReceiveAck(e)
      PROVE  TypeInv'
  BY <1>8, ReceiveAckTyped
<1>9. ASSUME NEW e \in Endpoint, ReceiveReset(e)
      PROVE  TypeInv'
  BY <1>9, ReceiveResetTyped
<1>10. ASSUME NEW e \in Endpoint, ReceiveResponse(e)
       PROVE  TypeInv'
  BY <1>10, ReceiveResponseTyped
<1>11. ASSUME NEW e \in Endpoint, TimerReconfigExpired(e)
       PROVE  TypeInv'
  BY <1>11, TimerReconfigExpiredTyped
<1>12. CASE UNCHANGED vars
  BY <1>12 DEF vars, channelVars, resetVars, TypeInv, TypeOK
<1> QED
  BY <1>1, <1>2, <1>3, <1>4, <1>5, <1>6, <1>7, <1>8, <1>9, <1>10, <1>11, <1>12 DEF Next

\* Whatever the endpoints do, their state has its types, and each register is true: a
\* registered channel has the id it is registered for (dataChannelOpen, dataChannelFlush).
THEOREM TypeInvariance == Spec => []TypeInv
BY TypeInvInit, TypeInvStep, PTL DEF Spec

\* The state has its type, whatever ids the user gives and whenever it sends: above all,
\* the flush finds a free id of its parity for every channel that needs one, since a
\* channel is only registered for the id it has (dataChannelFlush).
THEOREM TypeCorrect == Spec => []TypeOK
<1>1. TypeInv => TypeOK
  BY DEF TypeInv
<1> QED
  BY <1>1, TypeInvariance, PTL

(***************************************************************************)
(* LiveIsRegistered, which is inductive as it stands                       *)
(***************************************************************************)

LiveIn(chans, table) ==
    \A c \in DOMAIN chans :
        chans[c].readyState # "closed" /\ chans[c].id # Unassigned => table[chans[c].id] = c

\* A channel and its place in the register.
LEMMA PlaceIs ==
    ASSUME NEW chans, NEW table, NEW queue, Sound(chans, table, queue)
    PROVE  /\ DOMAIN chans = 1 .. Len(chans) /\ Len(chans) \in Nat
           /\ NoChannel \notin DOMAIN chans
           /\ \A c \in DOMAIN chans : /\ chans[c] \in Channel
                                      /\ chans[c].id # Unassigned => chans[c].id \in StreamId
           /\ table \in [StreamId -> {NoChannel} \cup DOMAIN chans]
           /\ \A s \in StreamId, c \in DOMAIN chans : table[s] = c => chans[c].id = s
           /\ Unassigned \notin StreamId
<1>1. /\ chans \in Seq(Channel)
      /\ table \in [StreamId -> {NoChannel} \cup DOMAIN chans]
      /\ \A s \in StreamId : table[s] # NoChannel => chans[table[s]].id = s
  BY DEF Sound
<1>2. DOMAIN chans = 1 .. Len(chans) /\ Len(chans) \in Nat
  BY <1>1
<1>3. NoChannel \notin DOMAIN chans
  BY <1>2 DEF NoChannel
<1>4. \A c \in DOMAIN chans : chans[c] \in Channel
  BY <1>1
<1>5. \A c \in DOMAIN chans : chans[c].id # Unassigned => chans[c].id \in StreamId
  BY <1>4 DEF Channel
<1>6. Unassigned \notin StreamId
  BY BoundsAssumption DEF Unassigned, StreamId
<1> QED
  BY <1>1, <1>2, <1>3, <1>4, <1>5, <1>6

LEMMA TurnedLive ==
    ASSUME NEW e \in Endpoint, NEW chans, NEW table, NEW queue, Sound(chans, table, queue),
           NEW acc, Turned(e, chans, table, queue, acc), LiveIn(chans, table)
    PROVE  LiveIn(acc.channels, acc.table)
<1>1. DOMAIN acc.channels = DOMAIN chans
  BY TurnedIs
<1>2. SUFFICES ASSUME NEW c \in DOMAIN chans,
                      acc.channels[c].readyState # "closed", acc.channels[c].id # Unassigned
               PROVE  acc.table[acc.channels[c].id] = c
  BY <1>1 DEF LiveIn
<1>3. /\ acc.channels[c].readyState = chans[c].readyState
      /\ \/ acc.channels[c].id = chans[c].id
         \/ acc.table[acc.channels[c].id] = c
  BY DEF Turned
<1>4. CASE acc.channels[c].id = chans[c].id
  <2>1. table[chans[c].id] = c /\ chans[c].id \in StreamId
    BY <1>2, <1>3, <1>4, PlaceIs DEF LiveIn
  <2>2. table[chans[c].id] # NoChannel
    BY <2>1, PlaceIs
  <2>3. acc.table[chans[c].id] = table[chans[c].id]
    BY <2>1, <2>2 DEF Turned
  <2> QED
    BY <1>4, <2>1, <2>3
<1> QED
  BY <1>3, <1>4

LEMMA OpenedLive ==
    ASSUME NEW chans, NEW table, NEW queue, Sound(chans, table, queue), LiveIn(chans, table),
           NEW a, OpenedFor(chans, table, a)
    PROVE  LiveIn(a, table)
<1>1. DOMAIN a = DOMAIN chans
  <2>1. a \in Seq(Channel) /\ Len(a) = Len(chans)
    BY DEF OpenedFor
  <2> QED
    BY <2>1, PlaceIs
<1>2. SUFFICES ASSUME NEW c \in DOMAIN chans,
                      a[c].readyState # "closed", a[c].id # Unassigned
               PROVE  table[a[c].id] = c
  BY <1>1 DEF LiveIn
<1>3. /\ a[c].id = chans[c].id
      /\ a[c].readyState = chans[c].readyState \/ \E s \in StreamId : table[s] = c
  BY DEF OpenedFor
<1>4. CASE a[c].readyState = chans[c].readyState
  BY <1>2, <1>3, <1>4 DEF LiveIn
<1>5. CASE \E s \in StreamId : table[s] = c
  BY <1>3, <1>5, PlaceIs
<1> QED
  BY <1>3, <1>4, <1>5

LEMMA AddedLive ==
    ASSUME NEW chans, NEW table, NEW queue, Sound(chans, table, queue), LiveIn(chans, table),
           Len(chans) < MaxChannels, NEW rec \in Channel, NEW b,
           \/ rec.id = Unassigned /\ b = table
           \/ /\ rec.id \in StreamId /\ table[rec.id] = NoChannel
              /\ b = [table EXCEPT ![rec.id] = Len(chans) + 1]
    PROVE  LiveIn(Append(chans, rec), b)
<1> DEFINE a == Append(chans, rec)
           n == Len(chans) + 1
<1>1. \/ b = table
      \/ rec.id \in StreamId /\ b = [table EXCEPT ![rec.id] = n]
  OBVIOUS
<1>2. /\ Len(chans) \in Nat
      /\ DOMAIN chans = 1 .. Len(chans)
      /\ DOMAIN a = 1 .. n
      /\ \A c \in DOMAIN chans : c # n /\ a[c] = chans[c]
      /\ a[n] = rec
  BY <1>1, AddedSound
<1> HIDE DEF a
<1>3. SUFFICES ASSUME NEW c \in DOMAIN a, a[c].readyState # "closed", a[c].id # Unassigned
               PROVE  b[a[c].id] = c
  BY DEF LiveIn, a
<1>4. table \in [StreamId -> {NoChannel} \cup DOMAIN chans]
  BY PlaceIs
<1>5. CASE c = n
  <2>1. rec.id # Unassigned /\ a[c].id = rec.id
    BY <1>2, <1>3, <1>5
  <2> QED
    BY <1>4, <1>5, <2>1
<1>6. CASE c # n
  <2>1. c \in DOMAIN chans
    BY <1>2, <1>6
  <2>2. a[c] = chans[c]
    BY <1>2, <2>1
  <2>3. table[chans[c].id] = c /\ chans[c].id \in StreamId /\ c # NoChannel
    BY <1>3, <2>1, <2>2, PlaceIs DEF LiveIn
  <2> QED
    BY <1>4, <2>2, <2>3
<1> QED
  BY <1>5, <1>6

LEMMA ForgottenLive ==
    ASSUME NEW chans, NEW table, NEW queue, Sound(chans, table, queue), LiveIn(chans, table),
           NEW c \in DOMAIN chans, chans[c].readyState # "closed",
           NEW a, NEW b, NEW q, Forgotten(chans, table, queue, c, a, b, q)
    PROVE  LiveIn(a, b)
<1>1. /\ DOMAIN a = DOMAIN chans
      /\ \A d \in DOMAIN a : a[d].id = chans[d].id /\ (d # c => a[d] = chans[d])
      /\ a[c].readyState = "closed"
      /\ b = IF chans[c].id \in {Unassigned, 0} THEN table
             ELSE [table EXCEPT ![chans[c].id] = NoChannel]
  BY DEF Forgotten
<1>2. SUFFICES ASSUME NEW d \in DOMAIN chans,
                      a[d].readyState # "closed", a[d].id # Unassigned
               PROVE  b[a[d].id] = d
  BY <1>1 DEF LiveIn
<1>3. d # c /\ a[d] = chans[d]
  BY <1>1, <1>2
<1>4. table[chans[d].id] = d /\ chans[d].id \in StreamId
  BY <1>2, <1>3, PlaceIs DEF LiveIn
<1>5. chans[c].id # Unassigned => table[chans[c].id] = c
  BY DEF LiveIn
<1>6. chans[c].id # Unassigned => chans[c].id # chans[d].id
  BY <1>3, <1>4, <1>5
<1>7. table \in [StreamId -> {NoChannel} \cup DOMAIN chans]
  BY PlaceIs
<1> QED
  BY <1>1, <1>3, <1>4, <1>6, <1>7

LEMMA ClosedForLive ==
    ASSUME NEW chans, NEW table, NEW queue, Sound(chans, table, queue), LiveIn(chans, table),
           NEW ids, NEW a, NEW b, ClosedFor(chans, table, ids, a, b)
    PROVE  LiveIn(a, b)
<1>1. DOMAIN a = DOMAIN chans
  <2>1. a \in Seq(Channel) /\ Len(a) = Len(chans)
    BY DEF ClosedFor
  <2> QED
    BY <2>1, PlaceIs
<1>2. SUFFICES ASSUME NEW c \in DOMAIN chans,
                      a[c].readyState # "closed", a[c].id # Unassigned
               PROVE  b[a[c].id] = c
  BY <1>1 DEF LiveIn
<1>3. /\ a[c].id = chans[c].id
      /\ ~(\E s \in ids : table[s] = c)
      /\ a[c].readyState = chans[c].readyState
  BY <1>2 DEF ClosedFor
<1>4. table[chans[c].id] = c /\ chans[c].id \in StreamId
  BY <1>2, <1>3, PlaceIs DEF LiveIn
<1>5. b[chans[c].id] = table[chans[c].id]
  BY <1>3, <1>4 DEF ClosedFor
<1> QED
  BY <1>3, <1>4, <1>5

LEMMA OneLive ==
    ASSUME TypeInv, LiveIsRegistered, NEW e \in Endpoint, NEW a, NEW b, LiveIn(a, b),
           channels' = [channels EXCEPT ![e] = a],
           dataChannels' = [dataChannels EXCEPT ![e] = b]
    PROVE  LiveIsRegistered'
<1>1. /\ channels \in [Endpoint -> Seq(Channel)]
      /\ dataChannels \in [Endpoint -> [StreamId -> Nat]]
  BY DEF TypeInv, TypeOK
<1>2. /\ channels'[e] = a /\ dataChannels'[e] = b
      /\ \A d \in Endpoint : d # e => /\ channels'[d] = channels[d]
                                      /\ dataChannels'[d] = dataChannels[d]
  BY <1>1
<1>3. \A d \in Endpoint : LiveIn(channels[d], dataChannels[d])
  BY DEF LiveIsRegistered, LiveIn
<1>4. \A d \in Endpoint : LiveIn(channels'[d], dataChannels'[d])
  BY <1>2, <1>3
<1> QED
  BY <1>4 DEF LiveIsRegistered, LiveIn

LEMMA FlushLive ==
    ASSUME TypeInv, LiveIsRegistered, NEW e \in Endpoint,
           NEW chans, NEW table, NEW queue, Sound(chans, table, queue), LiveIn(chans, table),
           NEW sent, Flush(e, chans, table, queue, sent)
    PROVE  LiveIsRegistered'
<1>1. TypeOK
  BY DEF TypeInv
<1>2. PICK acc :
          /\ Turned(e, chans, table, queue, acc)
          /\ channels' = [channels EXCEPT ![e] = acc.channels]
          /\ dataChannels' = [dataChannels EXCEPT ![e] = acc.table]
  BY <1>1, FlushIs
<1>3. LiveIn(acc.channels, acc.table)
  BY <1>2, TurnedLive
<1> QED
  BY <1>2, <1>3, OneLive

LEMMA LiveOf ==
    ASSUME TypeInv, LiveIsRegistered, NEW e \in Endpoint
    PROVE  /\ Sound(channels[e], dataChannels[e], dataChannelQueue[e])
           /\ LiveIn(channels[e], dataChannels[e])
BY DEF TypeInv, LiveIsRegistered, LiveIn

LEMMA ConnectedLive ==
    ASSUME TypeInv, LiveIsRegistered, NEW e \in Endpoint, NEW sent, Connected(e, sent)
    PROVE  LiveIsRegistered'
<1>1. PICK a : /\ OpenedFor(channels[e], dataChannels[e], a)
               /\ Sound(a, dataChannels[e], dataChannelQueue[e])
               /\ Flush(e, a, dataChannels[e], dataChannelQueue[e], sent)
  BY ConnectedIs
<1>2. LiveIn(a, dataChannels[e])
  BY <1>1, LiveOf, OpenedLive
<1> QED
  BY <1>1, <1>2, FlushLive

LEMMA DropLive ==
    ASSUME TypeInv, LiveIsRegistered, NEW e \in Endpoint, Drop(e)
    PROVE  LiveIsRegistered'
<1>1. \/ UNCHANGED <<channels, dataChannels>>
      \/ \E a, b : /\ ClosedFor(channels[e], dataChannels[e], StreamId, a, b)
                   /\ channels' = [channels EXCEPT ![e] = a]
                   /\ dataChannels' = [dataChannels EXCEPT ![e] = b]
  BY DropIs
<1>2. CASE UNCHANGED <<channels, dataChannels>>
  BY <1>2 DEF LiveIsRegistered
<1>3. ASSUME NEW a, NEW b, ClosedFor(channels[e], dataChannels[e], StreamId, a, b),
             channels' = [channels EXCEPT ![e] = a],
             dataChannels' = [dataChannels EXCEPT ![e] = b]
      PROVE  LiveIsRegistered'
  <2>1. LiveIn(a, b)
    BY <1>3, LiveOf, ClosedForLive
  <2> QED
    BY <1>3, <2>1, OneLive
<1> QED
  BY <1>1, <1>2, <1>3

LEMMA StreamsLive ==
    ASSUME TypeInv, LiveIsRegistered, NEW e \in Endpoint, NEW streams,
           ReconfigStreams(e, streams)
    PROVE  LiveIsRegistered'
<1>1. PICK a, b : /\ ClosedFor(channels[e], dataChannels[e], IdsOf(streams), a, b)
                  /\ channels' = [channels EXCEPT ![e] = a]
                  /\ dataChannels' = [dataChannels EXCEPT ![e] = b]
  BY ReconfigStreamsIs
<1>2. LiveIn(a, b)
  BY <1>1, LiveOf, ClosedForLive
<1> QED
  BY <1>1, <1>2, OneLive

LEMMA CreateLive ==
    ASSUME TypeInv, LiveIsRegistered, 0 \notin OpenIds, NEW e \in Endpoint,
           CreateDataChannel(e)
    PROVE  LiveIsRegistered'
<1>1. PICK id \in OpenIds \cup {Unassigned} :
          LET c == Len(channels[e]) + 1
              rec == [id |-> id, readyState |-> "connecting", negotiated |-> FALSE]
              registers == id \notin {Unassigned, 0}
              a == Append(channels[e], rec)
              b == IF registers THEN [dataChannels[e] EXCEPT ![id] = c]
                   ELSE dataChannels[e]
              q == Append(dataChannelQueue[e], [channel |-> c, kind |-> "OPEN"])
          IN  /\ Len(channels[e]) < MaxChannels
              /\ rec \in Channel
              /\ registers => id \in StreamId /\ dataChannels[e][id] = NoChannel
              /\ Sound(a, b, dataChannelQueue[e])
              /\ Sound(a, b, q)
              /\ Flush(e, a, b, q, {})
  BY CreateDataChannelIs, Zenon
<1> DEFINE c == Len(channels[e]) + 1
           rec == [id |-> id, readyState |-> "connecting", negotiated |-> FALSE]
           registers == id \notin {Unassigned, 0}
           a == Append(channels[e], rec)
           b == IF registers THEN [dataChannels[e] EXCEPT ![id] = c] ELSE dataChannels[e]
           q == Append(dataChannelQueue[e], [channel |-> c, kind |-> "OPEN"])
<1>2. /\ Len(channels[e]) < MaxChannels
      /\ rec \in Channel /\ rec.id = id
      /\ registers => id \in StreamId /\ dataChannels[e][id] = NoChannel
      /\ Sound(a, b, q)
      /\ Flush(e, a, b, q, {})
  BY <1>1
<1>3. id = 0 => FALSE
  BY BoundsAssumption DEF Unassigned
<1>4. \/ rec.id = Unassigned /\ b = dataChannels[e]
      \/ /\ rec.id \in StreamId /\ dataChannels[e][rec.id] = NoChannel
         /\ b = [dataChannels[e] EXCEPT ![rec.id] = c]
  BY <1>2, <1>3
<1> HIDE DEF rec, b
<1>5. LiveIn(a, b)
  BY <1>2, <1>4, LiveOf, AddedLive
<1> HIDE DEF a, q, registers
<1> QED
  BY <1>2, <1>5, FlushLive

LEMMA CreateNegotiatedLive ==
    ASSUME TypeInv, LiveIsRegistered, NEW e \in Endpoint, CreateNegotiated(e)
    PROVE  LiveIsRegistered'
<1>1. PICK id \in NegotiatedIds, st \in {"connecting", "open"} :
          LET rec == [id |-> id, readyState |-> st, negotiated |-> TRUE]
              a == Append(channels[e], rec)
              b == [dataChannels[e] EXCEPT ![id] = Len(channels[e]) + 1]
          IN  /\ Len(channels[e]) < MaxChannels
              /\ rec \in Channel /\ id \in StreamId
              /\ dataChannels[e][id] = NoChannel
              /\ channels' = [channels EXCEPT ![e] = a]
              /\ dataChannels' = [dataChannels EXCEPT ![e] = b]
              /\ Sound(a, b, dataChannelQueue[e])
  BY CreateNegotiatedIs, Zenon
<1> DEFINE rec == [id |-> id, readyState |-> st, negotiated |-> TRUE]
           a == Append(channels[e], rec)
           b == [dataChannels[e] EXCEPT ![id] = Len(channels[e]) + 1]
<1>2. /\ Len(channels[e]) < MaxChannels
      /\ rec \in Channel /\ rec.id = id /\ rec.id \in StreamId
      /\ dataChannels[e][rec.id] = NoChannel
      /\ b = [dataChannels[e] EXCEPT ![rec.id] = Len(channels[e]) + 1]
      /\ channels' = [channels EXCEPT ![e] = a]
      /\ dataChannels' = [dataChannels EXCEPT ![e] = b]
  BY <1>1
<1> HIDE DEF rec, b
<1>3. LiveIn(a, b)
  BY <1>2, LiveOf, AddedLive
<1> HIDE DEF a
<1> QED
  BY <1>2, <1>3, OneLive

LEMMA SendDataLive ==
    ASSUME TypeInv, LiveIsRegistered, NEW e \in Endpoint, SendData(e)
    PROVE  LiveIsRegistered'
<1>1. PICK c \in DOMAIN channels[e] :
          Flush(e, channels[e], dataChannels[e],
                Append(dataChannelQueue[e], [channel |-> c, kind |-> "DATA"]), {})
  BY DEF SendData
<1> DEFINE q == Append(dataChannelQueue[e], [channel |-> c, kind |-> "DATA"])
<1>2. Sound(channels[e], dataChannels[e], q)
  BY LiveOf, QueuedSound
<1>3. LiveIn(channels[e], dataChannels[e]) /\ Flush(e, channels[e], dataChannels[e], q, {})
  BY <1>1, LiveOf
<1> HIDE DEF q
<1> QED
  BY <1>2, <1>3, FlushLive

LEMMA StateSetLive ==
    ASSUME TypeInv, LiveIsRegistered, NEW e \in Endpoint, NEW c \in DOMAIN channels[e],
           NEW st \in {"connecting", "open", "closing", "closed"},
           SetsState(e, c, st),
           UNCHANGED dataChannels,
           \/ channels[e][c].readyState # "closed"
           \/ dataChannels[e][channels[e][c].id] = c
    PROVE  LiveIsRegistered'
<1>0. TypeOK
  BY DEF TypeInv
<1>1. PICK a : /\ channels' = [channels EXCEPT ![e] = a]
               /\ Sound(a, dataChannels[e], dataChannelQueue[e])
               /\ StateSetTo(channels[e], c, st, a)
  BY <1>0, StateSet
<1>2. LiveIn(channels[e], dataChannels[e])
  BY LiveOf
<1>3. LiveIn(a, dataChannels[e])
  BY <1>1, <1>2 DEF LiveIn, StateSetTo
<1>4. dataChannels' = [dataChannels EXCEPT ![e] = dataChannels[e]]
  BY <1>0, Kept
<1> QED
  BY <1>1, <1>3, <1>4, OneLive

LEMMA CloseLive ==
    ASSUME TypeInv, LiveIsRegistered, NEW e \in Endpoint, Close(e)
    PROVE  LiveIsRegistered'
<1>1. PICK c \in DOMAIN channels[e] :
          /\ channels[e][c].readyState \in {"connecting", "open"}
          /\ ResetChannel(e, c) \/ ForgetChannel(e, c)
  BY DEF Close
<1>2. channels[e][c].readyState # "closed"
  BY <1>1
<1>3. CASE ResetChannel(e, c)
  <2>1. ResetEffect(e, c)
    BY <1>3, ResetChannelIs
  <2>2. /\ SetsState(e, c, "closing")
        /\ UNCHANGED dataChannels
    BY <2>1 DEF ResetEffect
  <2>3. "closing" \in {"connecting", "open", "closing", "closed"}
    OBVIOUS
  <2> QED
    BY <1>2, <2>2, <2>3, StateSetLive
<1>4. CASE ForgetChannel(e, c)
  <2>1. PICK a, b, q :
            /\ channels' = [channels EXCEPT ![e] = a]
            /\ dataChannels' = [dataChannels EXCEPT ![e] = b]
            /\ Forgotten(channels[e], dataChannels[e], dataChannelQueue[e], c, a, b, q)
    BY <1>4, ForgetChannelIs
  <2>2. LiveIn(a, b)
    BY <1>2, <2>1, LiveOf, ForgottenLive
  <2> QED
    BY <2>1, <2>2, OneLive
<1> QED
  BY <1>1, <1>3, <1>4

LEMMA ReceiveOpenLive ==
    ASSUME TypeInv, LiveIsRegistered, NEW e \in Endpoint, ReceiveOpen(e)
    PROVE  LiveIsRegistered'
<1>1. PICK m \in net : \E a, b, c :
          LET q == Append(dataChannelQueue[e], [channel |-> c, kind |-> "ACK"])
          IN  /\ m.type = "OPEN" /\ m.to = e /\ m.stream \in StreamId
              /\ c \in DOMAIN a /\ a[c].id = m.stream
              /\ b = [dataChannels[e] EXCEPT ![m.stream] = c]
              /\ \/ /\ dataChannels[e][m.stream] = c
                    /\ a = channels[e] /\ b = dataChannels[e]
                 \/ /\ dataChannels[e][m.stream] = NoChannel
                    /\ c = Len(channels[e]) + 1 /\ c <= MaxChannels
                    /\ a = Append(channels[e], [id |-> m.stream, readyState |-> "open",
                                                negotiated |-> FALSE])
              /\ Sound(a, b, dataChannelQueue[e])
              /\ Sound(a, b, q)
              /\ Flush(e, a, b, q, {})
  BY ReceiveOpenIs, Zenon
<1>2. PICK a, b, c :
          LET q == Append(dataChannelQueue[e], [channel |-> c, kind |-> "ACK"])
          IN  /\ m.type = "OPEN" /\ m.to = e /\ m.stream \in StreamId
              /\ c \in DOMAIN a /\ a[c].id = m.stream
              /\ b = [dataChannels[e] EXCEPT ![m.stream] = c]
              /\ \/ /\ dataChannels[e][m.stream] = c
                    /\ a = channels[e] /\ b = dataChannels[e]
                 \/ /\ dataChannels[e][m.stream] = NoChannel
                    /\ c = Len(channels[e]) + 1 /\ c <= MaxChannels
                    /\ a = Append(channels[e], [id |-> m.stream, readyState |-> "open",
                                                negotiated |-> FALSE])
              /\ Sound(a, b, dataChannelQueue[e])
              /\ Sound(a, b, q)
              /\ Flush(e, a, b, q, {})
  BY <1>1, Zenon
<1> DEFINE rec == [id |-> m.stream, readyState |-> "open", negotiated |-> FALSE]
           q == Append(dataChannelQueue[e], [channel |-> c, kind |-> "ACK"])
<1>3. LiveIn(a, b)
  <2>1. CASE a = channels[e] /\ b = dataChannels[e]
    BY <2>1, LiveOf
  <2>2. CASE /\ dataChannels[e][m.stream] = NoChannel
             /\ c = Len(channels[e]) + 1 /\ c <= MaxChannels
             /\ a = Append(channels[e], rec)
    <3>1. rec \in Channel /\ rec.id = m.stream
      BY <1>2 DEF Channel
    <3>2. Len(channels[e]) < MaxChannels
      <4>1. Len(channels[e]) \in Nat
        BY LiveOf, PlaceIs
      <4> QED
        BY <2>2, <4>1, BoundsAssumption
    <3>3. /\ rec.id \in StreamId /\ dataChannels[e][rec.id] = NoChannel
          /\ b = [dataChannels[e] EXCEPT ![rec.id] = Len(channels[e]) + 1]
      BY <1>2, <2>2, <3>1
    <3> HIDE DEF rec
    <3> QED
      BY <2>2, <3>1, <3>2, <3>3, LiveOf, AddedLive
  <2> QED
    BY <1>2, <2>1, <2>2
<1>4. Sound(a, b, q) /\ Flush(e, a, b, q, {})
  BY <1>2
<1> HIDE DEF q
<1> QED
  BY <1>3, <1>4, FlushLive

LEMMA ReceiveAckLive ==
    ASSUME TypeInv, LiveIsRegistered, NEW e \in Endpoint, ReceiveAck(e)
    PROVE  LiveIsRegistered'
<1>1. PICK m \in net :
          LET c == dataChannels[e][m.stream]
          IN  /\ m.type = "ACK" /\ m.to = e /\ m.stream \in StreamId
              /\ c \in DOMAIN channels[e]
              /\ channels[e][c].id = m.stream
              /\ SetsState(e, c, "open")
  BY ReceiveAckIs, Zenon
<1> DEFINE c == dataChannels[e][m.stream]
<1>2. /\ c \in DOMAIN channels[e]
      /\ dataChannels[e][channels[e][c].id] = c
      /\ SetsState(e, c, "open")
  BY <1>1
<1>3. "open" \in {"connecting", "open", "closing", "closed"} /\ UNCHANGED dataChannels
  BY DEF ReceiveAck
<1> HIDE DEF c
<1> QED
  BY <1>2, <1>3, StateSetLive

\* LiveIsRegistered is inductive, where the user does not ask for the id 0.
LEMMA LiveStep ==
    ASSUME 0 \notin OpenIds
    PROVE  TypeInv /\ LiveIsRegistered /\ [Next]_vars => LiveIsRegistered'
<1> SUFFICES ASSUME TypeInv, LiveIsRegistered, [Next]_vars
             PROVE  LiveIsRegistered'
  OBVIOUS
<1>0. Client \in Endpoint /\ Server \in Endpoint
  BY DEF Endpoint
<1>1. CASE EstablishServer
  BY <1>0, <1>1, ConnectedLive DEF EstablishServer
<1>2. CASE EstablishClient
  BY <1>0, <1>2, ConnectedLive DEF EstablishClient
<1>3. ASSUME NEW e \in Endpoint, CloseAssociation(e)
      PROVE  LiveIsRegistered'
  BY <1>3, DropLive DEF CloseAssociation
<1>4. ASSUME NEW e \in Endpoint, CreateDataChannel(e)
      PROVE  LiveIsRegistered'
  BY <1>4, CreateLive
<1>5. ASSUME NEW e \in Endpoint, CreateNegotiated(e)
      PROVE  LiveIsRegistered'
  BY <1>5, CreateNegotiatedLive
<1>6. ASSUME NEW e \in Endpoint, SendData(e)
      PROVE  LiveIsRegistered'
  BY <1>6, SendDataLive
<1>7. ASSUME NEW e \in Endpoint, Close(e)
      PROVE  LiveIsRegistered'
  BY <1>7, CloseLive
<1>8. ASSUME NEW e \in Endpoint, ReceiveOpen(e)
      PROVE  LiveIsRegistered'
  BY <1>8, ReceiveOpenLive
<1>9. ASSUME NEW e \in Endpoint, ReceiveAck(e)
      PROVE  LiveIsRegistered'
  BY <1>9, ReceiveAckLive
<1>10. ASSUME NEW e \in Endpoint, ReceiveReset(e)
       PROVE  LiveIsRegistered'
  BY <1>10, StreamsLive DEF ReceiveReset
<1>11. ASSUME NEW e \in Endpoint, ReceiveResponse(e)
       PROVE  LiveIsRegistered'
  BY <1>11, StreamsLive DEF ReceiveResponse
<1>12. ASSUME NEW e \in Endpoint, TimerReconfigExpired(e)
       PROVE  LiveIsRegistered'
  <2>1. CASE Drop(e)
    BY <2>1, DropLive
  <2>2. CASE UNCHANGED channelVars
    BY <2>2 DEF channelVars, LiveIsRegistered
  <2> QED
    BY <1>12, <2>1, <2>2 DEF TimerReconfigExpired
<1>13. CASE UNCHANGED vars
  BY <1>13 DEF vars, channelVars, LiveIsRegistered
<1> QED
  BY <1>1, <1>2, <1>3, <1>4, <1>5, <1>6, <1>7, <1>8, <1>9, <1>10, <1>11, <1>12, <1>13 DEF Next

\* Two live channels never share an id, and messages reach each: a live channel with an id
\* is the one registered for it.  The id 0 of the user is excluded, because dataChannelOpen
\* does not register it ("if (channel.id)"); negotiated ids, and sending on closed channels,
\* are not.
THEOREM LiveRegistered ==
    ASSUME 0 \notin OpenIds
    PROVE  Spec => []LiveIsRegistered
<1>1. Init => LiveIsRegistered
  BY DEF Init, LiveIsRegistered
<1>2. TypeInv /\ LiveIsRegistered /\ [Next]_vars => LiveIsRegistered'
  BY LiveStep
<1> QED
  BY <1>1, <1>2, TypeInvariance, PTL DEF Spec

(***************************************************************************)
(* NoResetIsStuck: while the association is established nothing waits in   *)
(* the queue for it, and before that nothing waits for a reset             *)
(***************************************************************************)

Scheduled(chans, table, waiting) ==
    \A c \in DOMAIN chans, s \in StreamId :
        chans[c].readyState = "closing" /\ table[s] = c => chans[c].id \in waiting

NoneCloses(chans) == \A c \in DOMAIN chans : chans[c].readyState # "closing"

ChainIn(ph, chans, table, queue, rq, req, t) ==
    /\ ph = "connecting" => rq = <<>> /\ req = NoRequest /\ NoneCloses(chans)
    /\ ph = "established" =>
          /\ queue = <<>>
          /\ req # NoRequest => t.armed
          /\ rq # <<>> => req # NoRequest
          /\ Scheduled(chans, table, Range(rq) \cup Range(req.streams))

ChainInv ==
    \A e \in Endpoint : ChainIn(phase[e], channels[e], dataChannels[e], dataChannelQueue[e],
                                reconfigQueue[e], reconfigRequest[e], timerReconfig[e])

\* The step is one of e.
OthersKept(e) ==
    \A d \in Endpoint : d # e =>
        /\ phase'[d] = phase[d] /\ channels'[d] = channels[d]
        /\ dataChannels'[d] = dataChannels[d] /\ dataChannelQueue'[d] = dataChannelQueue[d]
        /\ reconfigQueue'[d] = reconfigQueue[d] /\ reconfigRequest'[d] = reconfigRequest[d]
        /\ timerReconfig'[d] = timerReconfig[d]

LEMMA ChainLeadsTo == ChainInv => NoResetIsStuck
<1> SUFFICES ASSUME ChainInv
             PROVE  NoResetIsStuck
  OBVIOUS
<1>1. ASSUME NEW e \in Endpoint, phase[e] = "established"
      PROVE  /\ reconfigRequest[e] # NoRequest => timerReconfig[e].armed
             /\ reconfigQueue[e] # <<>> => reconfigRequest[e] # NoRequest
             /\ Scheduled(channels[e], dataChannels[e],
                          Range(reconfigQueue[e]) \cup Range(reconfigRequest[e].streams))
  BY <1>1 DEF ChainInv, ChainIn
<1>2. RequestIsTimed
  BY <1>1 DEF RequestIsTimed
<1>3. QueueIsServed
  BY <1>1 DEF QueueIsServed
<1>4. ClosingIsScheduled
  BY <1>1 DEF ClosingIsScheduled, Closing, Registered, Waiting, Scheduled
<1> QED
  BY <1>2, <1>3, <1>4 DEF NoResetIsStuck

LEMMA OneChain ==
    ASSUME ChainInv, NEW e \in Endpoint, OthersKept(e),
           ChainIn(phase'[e], channels'[e], dataChannels'[e], dataChannelQueue'[e],
                   reconfigQueue'[e], reconfigRequest'[e], timerReconfig'[e])
    PROVE  ChainInv'
BY DEF ChainInv, OthersKept

\* Turns leave what closes with its reset ahead of it, when no channel in the queue closes
\* without an id.
LEMMA TurnedScheduled ==
    ASSUME NEW e \in Endpoint, NEW chans, NEW table, NEW queue, Sound(chans, table, queue),
           NEW acc, Turned(e, chans, table, queue, acc),
           NEW waiting, Scheduled(chans, table, waiting),
           \A i \in DOMAIN queue :
               LET c == queue[i].channel
               IN  chans[c].readyState = "closing" => chans[c].id # Unassigned
    PROVE  Scheduled(acc.channels, acc.table, waiting)
<1>1. DOMAIN acc.channels = DOMAIN chans
  BY TurnedIs
<1>2. SUFFICES ASSUME NEW c \in DOMAIN chans, NEW s \in StreamId,
                      acc.channels[c].readyState = "closing", acc.table[s] = c
               PROVE  acc.channels[c].id \in waiting
  BY <1>1 DEF Scheduled
<1>3. /\ acc.channels[c].readyState = chans[c].readyState
      /\ \/ acc.channels[c].id = chans[c].id
         \/ /\ chans[c].id = Unassigned
            /\ \E i \in DOMAIN queue : queue[i].channel = c
  BY DEF Turned
<1>4. acc.channels[c].id = chans[c].id
  BY <1>2, <1>3
<1>5. acc.channels[c].id = s /\ s # Unassigned
  <2>1. acc.table[s] # NoChannel
    BY <1>2, PlaceIs
  <2> QED
    BY <1>2, <2>1, PlaceIs DEF Turned
<1>6. table[s] = c
  BY <1>2, <1>4, <1>5 DEF Turned
<1> QED
  BY <1>2, <1>3, <1>4, <1>6 DEF Scheduled

LEMMA FlushOthers ==
    ASSUME TypeInv, NEW e \in Endpoint,
           NEW a, NEW b, NEW q,
           channels' = [channels EXCEPT ![e] = a],
           dataChannels' = [dataChannels EXCEPT ![e] = b],
           dataChannelQueue' = [dataChannelQueue EXCEPT ![e] = q]
    PROVE  /\ channels'[e] = a /\ dataChannels'[e] = b /\ dataChannelQueue'[e] = q
           /\ \A d \in Endpoint : d # e => /\ channels'[d] = channels[d]
                                           /\ dataChannels'[d] = dataChannels[d]
                                           /\ dataChannelQueue'[d] = dataChannelQueue[d]
<1>1. /\ channels \in [Endpoint -> Seq(Channel)]
      /\ dataChannels \in [Endpoint -> [StreamId -> Nat]]
      /\ dataChannelQueue \in [Endpoint -> Seq(QueueItem)]
  BY DEF TypeInv, TypeOK
<1> QED
  BY <1>1

LEMMA FlushChain ==
    ASSUME TypeInv, ChainInv, NEW e \in Endpoint,
           NEW chans, NEW table, NEW queue, Sound(chans, table, queue),
           NEW sent, Flush(e, chans, table, queue, sent),
           UNCHANGED resetVars,
           \A d \in Endpoint : d # e => phase'[d] = phase[d],
           phase'[e] = phase[e] \/ (phase[e] = "connecting" /\ phase'[e] = "established"),
           phase[e] = "connecting" => NoneCloses(chans),
           phase[e] = "established" =>
               /\ Scheduled(chans, table,
                            Range(reconfigQueue[e]) \cup Range(reconfigRequest[e].streams))
               /\ \A i \in DOMAIN queue :
                     LET c == queue[i].channel
                     IN  chans[c].readyState = "closing" => chans[c].id # Unassigned
    PROVE  ChainInv'
<1>1. TypeOK
  BY DEF TypeInv
<1>2. PICK acc :
          /\ Turned(e, chans, table, queue, acc)
          /\ channels' = [channels EXCEPT ![e] = acc.channels]
          /\ dataChannels' = [dataChannels EXCEPT ![e] = acc.table]
          /\ dataChannelQueue' = [dataChannelQueue EXCEPT ![e] =
                 IF phase'[e] = "established" THEN <<>> ELSE queue]
  BY <1>1, FlushIs
<1> DEFINE q == IF phase'[e] = "established" THEN <<>> ELSE queue
           waiting == Range(reconfigQueue[e]) \cup Range(reconfigRequest[e].streams)
<1>3. dataChannelQueue' = [dataChannelQueue EXCEPT ![e] = q]
  BY <1>2
<1>4. phase'[e] = "established" => q = <<>>
  OBVIOUS
<1> HIDE DEF q
<1>5. /\ channels'[e] = acc.channels /\ dataChannels'[e] = acc.table /\ dataChannelQueue'[e] = q
      /\ \A d \in Endpoint : d # e => /\ channels'[d] = channels[d]
                                      /\ dataChannels'[d] = dataChannels[d]
                                      /\ dataChannelQueue'[d] = dataChannelQueue[d]
  <2>1. /\ channels' = [channels EXCEPT ![e] = acc.channels]
        /\ dataChannels' = [dataChannels EXCEPT ![e] = acc.table]
    BY <1>2
  <2> QED
    BY <1>3, <2>1, FlushOthers, Zenon
<1>6. UNCHANGED <<reconfigQueue, reconfigRequest, timerReconfig>>
  BY DEF resetVars
<1>7. OthersKept(e)
  BY <1>5, <1>6 DEF OthersKept
<1>8. /\ DOMAIN acc.channels = DOMAIN chans
      /\ \A c \in DOMAIN chans : acc.channels[c].readyState = chans[c].readyState
  <2>1. DOMAIN acc.channels = DOMAIN chans
    BY <1>2, TurnedIs
  <2> QED
    BY <1>2, <2>1 DEF Turned
<1>9. CASE phase[e] = "connecting"
  <2>1. NoneCloses(acc.channels)
    BY <1>8, <1>9 DEF NoneCloses
  <2>2. reconfigQueue[e] = <<>> /\ reconfigRequest[e] = NoRequest
    BY <1>9 DEF ChainInv, ChainIn
  <2>3. Scheduled(acc.channels, acc.table, waiting)
    BY <2>1 DEF NoneCloses, Scheduled
  <2>4. ChainIn(phase'[e], acc.channels, acc.table, q,
                reconfigQueue[e], reconfigRequest[e], timerReconfig[e])
    BY <1>4, <2>1, <2>2, <2>3 DEF ChainIn
  <2> QED
    BY <1>5, <1>6, <1>7, <2>4, OneChain
<1>10. CASE phase[e] = "established"
  <2>1. Scheduled(acc.channels, acc.table, waiting)
    BY <1>2, <1>10, TurnedScheduled
  <2>2. /\ reconfigRequest[e] # NoRequest => timerReconfig[e].armed
        /\ reconfigQueue[e] # <<>> => reconfigRequest[e] # NoRequest
    BY <1>10 DEF ChainInv, ChainIn
  <2>3. ChainIn(phase'[e], acc.channels, acc.table, q,
                reconfigQueue[e], reconfigRequest[e], timerReconfig[e])
    BY <1>4, <1>10, <2>1, <2>2 DEF ChainIn
  <2> QED
    BY <1>5, <1>6, <1>7, <2>3, OneChain
<1>11. CASE phase[e] \notin {"connecting", "established"}
  <2>1. ChainIn(phase'[e], acc.channels, acc.table, q,
                reconfigQueue[e], reconfigRequest[e], timerReconfig[e])
    BY <1>11 DEF ChainIn
  <2> QED
    BY <1>5, <1>6, <1>7, <2>1, OneChain
<1> QED
  BY <1>9, <1>10, <1>11

LEMMA ChainOf ==
    ASSUME TypeInv, ChainInv, NEW e \in Endpoint
    PROVE  /\ Sound(channels[e], dataChannels[e], dataChannelQueue[e])
           /\ ChainIn(phase[e], channels[e], dataChannels[e], dataChannelQueue[e],
                      reconfigQueue[e], reconfigRequest[e], timerReconfig[e])
           /\ phase \in [Endpoint -> {"connecting", "established", "closed"}]
BY DEF TypeInv, ChainInv, TypeOK

LEMMA EstablishChain ==
    ASSUME TypeInv, ChainInv, NEW e \in Endpoint, NEW sent, Connected(e, sent),
           phase[e] # "closed", phase' = [phase EXCEPT ![e] = "established"],
           UNCHANGED resetVars
    PROVE  ChainInv'
<1>1. PICK a : /\ OpenedFor(channels[e], dataChannels[e], a)
               /\ Sound(a, dataChannels[e], dataChannelQueue[e])
               /\ Flush(e, a, dataChannels[e], dataChannelQueue[e], sent)
  BY ConnectedIs
<1>2. /\ \A d \in Endpoint : d # e => phase'[d] = phase[d]
      /\ phase'[e] = phase[e] \/ (phase[e] = "connecting" /\ phase'[e] = "established")
  BY ChainOf
<1>3. DOMAIN a = DOMAIN channels[e]
  <2>1. a \in Seq(Channel) /\ Len(a) = Len(channels[e])
    BY <1>1 DEF OpenedFor
  <2> QED
    BY <2>1, ChainOf, PlaceIs
<1>4. \A c \in DOMAIN a : /\ a[c].id = channels[e][c].id
                          /\ a[c].readyState = "closing" => channels[e][c].readyState = "closing"
  BY <1>1, <1>3 DEF OpenedFor
<1>5. phase[e] = "connecting" => NoneCloses(a)
  BY <1>3, <1>4, ChainOf DEF ChainIn, NoneCloses
<1>6. ASSUME phase[e] = "established"
      PROVE  /\ Scheduled(a, dataChannels[e],
                          Range(reconfigQueue[e]) \cup Range(reconfigRequest[e].streams))
             /\ \A i \in DOMAIN dataChannelQueue[e] :
                   LET c == dataChannelQueue[e][i].channel
                   IN  a[c].readyState = "closing" => a[c].id # Unassigned
  <2>1. /\ dataChannelQueue[e] = <<>>
        /\ Scheduled(channels[e], dataChannels[e],
                     Range(reconfigQueue[e]) \cup Range(reconfigRequest[e].streams))
    BY <1>6, ChainOf DEF ChainIn
  <2>2. DOMAIN dataChannelQueue[e] = {}
    BY <2>1
  <2> QED
    BY <1>3, <1>4, <2>1, <2>2 DEF Scheduled
<1> QED
  BY <1>1, <1>2, <1>5, <1>6, FlushChain

\* A new channel does not close.
LEMMA AddedScheduled ==
    ASSUME NEW chans, NEW table, NEW queue, Sound(chans, table, queue),
           Len(chans) < MaxChannels, NEW rec \in Channel, rec.readyState # "closing", NEW b,
           \/ b = table
           \/ rec.id \in StreamId /\ b = [table EXCEPT ![rec.id] = Len(chans) + 1]
    PROVE  /\ \A w : Scheduled(chans, table, w) => Scheduled(Append(chans, rec), b, w)
           /\ NoneCloses(chans) => NoneCloses(Append(chans, rec))
<1> DEFINE a == Append(chans, rec)
           n == Len(chans) + 1
<1>1. /\ Len(chans) \in Nat
      /\ DOMAIN chans = 1 .. Len(chans)
      /\ DOMAIN a = 1 .. n
      /\ \A c \in DOMAIN chans : c # n /\ a[c] = chans[c]
      /\ a[n] = rec
  BY AddedSound
<1>2. table \in [StreamId -> {NoChannel} \cup DOMAIN chans]
  BY PlaceIs
<1> HIDE DEF a
<1>3. ASSUME NEW c \in DOMAIN a, a[c].readyState = "closing"
      PROVE  /\ c \in DOMAIN chans /\ a[c] = chans[c]
             /\ \A s \in StreamId : b[s] = c => table[s] = c
  <2>1. c # n
    BY <1>1, <1>3
  <2>2. c \in DOMAIN chans
    BY <1>1, <2>1
  <2> QED
    BY <1>1, <1>2, <2>1, <2>2
<1>4. \A w : Scheduled(chans, table, w) => Scheduled(a, b, w)
  BY <1>3 DEF Scheduled
<1>5. NoneCloses(chans) => NoneCloses(a)
  BY <1>3 DEF NoneCloses
<1> QED
  BY <1>4, <1>5 DEF a

LEMMA CreateChain ==
    ASSUME TypeInv, ChainInv, NEW e \in Endpoint, CreateDataChannel(e)
    PROVE  ChainInv'
<1>1. PICK id \in OpenIds \cup {Unassigned} :
          LET c == Len(channels[e]) + 1
              rec == [id |-> id, readyState |-> "connecting", negotiated |-> FALSE]
              registers == id \notin {Unassigned, 0}
              a == Append(channels[e], rec)
              b == IF registers THEN [dataChannels[e] EXCEPT ![id] = c]
                   ELSE dataChannels[e]
              q == Append(dataChannelQueue[e], [channel |-> c, kind |-> "OPEN"])
          IN  /\ Len(channels[e]) < MaxChannels
              /\ rec \in Channel
              /\ registers => id \in StreamId /\ dataChannels[e][id] = NoChannel
              /\ Sound(a, b, dataChannelQueue[e])
              /\ Sound(a, b, q)
              /\ Flush(e, a, b, q, {})
  BY CreateDataChannelIs, Zenon
<1> DEFINE c == Len(channels[e]) + 1
           rec == [id |-> id, readyState |-> "connecting", negotiated |-> FALSE]
           registers == id \notin {Unassigned, 0}
           a == Append(channels[e], rec)
           b == IF registers THEN [dataChannels[e] EXCEPT ![id] = c] ELSE dataChannels[e]
           q == Append(dataChannelQueue[e], [channel |-> c, kind |-> "OPEN"])
<1>2. /\ Len(channels[e]) < MaxChannels
      /\ rec \in Channel /\ rec.id = id /\ rec.readyState # "closing"
      /\ registers => id \in StreamId
      /\ Sound(a, b, dataChannelQueue[e])
      /\ Sound(a, b, q)
      /\ Flush(e, a, b, q, {})
  BY <1>1
<1>3. \/ b = dataChannels[e]
      \/ rec.id \in StreamId /\ b = [dataChannels[e] EXCEPT ![rec.id] = c]
  BY <1>2
<1>4. Sound(channels[e], dataChannels[e], dataChannelQueue[e])
  BY ChainOf
<1> HIDE DEF rec, b
<1>5. /\ \A w : Scheduled(channels[e], dataChannels[e], w) => Scheduled(a, b, w)
      /\ NoneCloses(channels[e]) => NoneCloses(a)
  BY <1>2, <1>3, <1>4, AddedScheduled
<1>6. c \in DOMAIN a /\ a[c] = rec
  <2>1. /\ Len(channels[e]) \in Nat
        /\ DOMAIN a = 1 .. Len(channels[e]) + 1
        /\ a[Len(channels[e]) + 1] = rec
    BY <1>2, <1>3, <1>4, AddedSound
  <2> QED
    BY <2>1
<1> HIDE DEF a, c, registers
<1>7. \A i \in DOMAIN q : \/ q[i] = [channel |-> c, kind |-> "OPEN"]
                          \/ /\ i \in DOMAIN dataChannelQueue[e]
                             /\ q[i] = dataChannelQueue[e][i]
  BY <1>2, <1>6, QueuedSound
<1>8. ASSUME phase[e] = "established"
      PROVE  /\ Scheduled(a, b, Range(reconfigQueue[e]) \cup Range(reconfigRequest[e].streams))
             /\ \A i \in DOMAIN q : LET d == q[i].channel
                                    IN  a[d].readyState = "closing" => a[d].id # Unassigned
  <2>1. /\ dataChannelQueue[e] = <<>>
        /\ Scheduled(channels[e], dataChannels[e],
                     Range(reconfigQueue[e]) \cup Range(reconfigRequest[e].streams))
    BY <1>8, ChainOf DEF ChainIn
  <2>2. DOMAIN dataChannelQueue[e] = {}
    BY <2>1
  <2>3. \A i \in DOMAIN q : q[i].channel = c
    BY <1>7, <2>2
  <2> QED
    BY <1>2, <1>5, <1>6, <2>1, <2>3
<1>9. phase[e] = "connecting" => NoneCloses(a)
  BY <1>5, ChainOf DEF ChainIn
<1>10. UNCHANGED resetVars /\ UNCHANGED phase
  BY DEF CreateDataChannel
<1> HIDE DEF q
<1> QED
  BY <1>2, <1>8, <1>9, <1>10, FlushChain

LEMMA SendDataChain ==
    ASSUME TypeInv, ChainInv, ~SendAfterClose, NEW e \in Endpoint, SendData(e)
    PROVE  ChainInv'
<1>1. PICK c \in DOMAIN channels[e] :
          /\ channels[e][c].readyState \in {"connecting", "open"}
          /\ Flush(e, channels[e], dataChannels[e],
                   Append(dataChannelQueue[e], [channel |-> c, kind |-> "DATA"]), {})
  BY DEF SendData
<1> DEFINE q == Append(dataChannelQueue[e], [channel |-> c, kind |-> "DATA"])
<1>2. Sound(channels[e], dataChannels[e], q)
  BY ChainOf, QueuedSound
<1>3. ASSUME phase[e] = "established"
      PROVE  /\ Scheduled(channels[e], dataChannels[e],
                          Range(reconfigQueue[e]) \cup Range(reconfigRequest[e].streams))
             /\ \A i \in DOMAIN q :
                   LET d == q[i].channel
                   IN  channels[e][d].readyState = "closing" => channels[e][d].id # Unassigned
  <2>1. /\ dataChannelQueue[e] = <<>>
        /\ Scheduled(channels[e], dataChannels[e],
                     Range(reconfigQueue[e]) \cup Range(reconfigRequest[e].streams))
    BY <1>3, ChainOf DEF ChainIn
  <2>2. \A i \in DOMAIN q : q[i].channel = c
    BY <2>1
  <2> QED
    BY <1>1, <2>1, <2>2
<1>4. phase[e] = "connecting" => NoneCloses(channels[e])
  BY ChainOf DEF ChainIn
<1>5. UNCHANGED resetVars /\ UNCHANGED phase
  BY DEF SendData
<1>6. Flush(e, channels[e], dataChannels[e], q, {})
  BY <1>1
<1> HIDE DEF q
<1> QED
  BY <1>2, <1>3, <1>4, <1>5, <1>6, FlushChain

LEMMA ReceiveOpenChain ==
    ASSUME TypeInv, ChainInv, NEW e \in Endpoint, ReceiveOpen(e)
    PROVE  ChainInv'
<1>1. PICK m \in net : \E a, b, c :
          LET q == Append(dataChannelQueue[e], [channel |-> c, kind |-> "ACK"])
          IN  /\ m.type = "OPEN" /\ m.to = e /\ m.stream \in StreamId
              /\ c \in DOMAIN a /\ a[c].id = m.stream
              /\ b = [dataChannels[e] EXCEPT ![m.stream] = c]
              /\ \/ /\ dataChannels[e][m.stream] = c
                    /\ a = channels[e] /\ b = dataChannels[e]
                 \/ /\ dataChannels[e][m.stream] = NoChannel
                    /\ c = Len(channels[e]) + 1 /\ c <= MaxChannels
                    /\ a = Append(channels[e], [id |-> m.stream, readyState |-> "open",
                                                negotiated |-> FALSE])
              /\ Sound(a, b, dataChannelQueue[e])
              /\ Sound(a, b, q)
              /\ Flush(e, a, b, q, {})
  BY ReceiveOpenIs, Zenon
<1>2. PICK a, b, c :
          LET q == Append(dataChannelQueue[e], [channel |-> c, kind |-> "ACK"])
          IN  /\ m.type = "OPEN" /\ m.to = e /\ m.stream \in StreamId
              /\ c \in DOMAIN a /\ a[c].id = m.stream
              /\ b = [dataChannels[e] EXCEPT ![m.stream] = c]
              /\ \/ /\ dataChannels[e][m.stream] = c
                    /\ a = channels[e] /\ b = dataChannels[e]
                 \/ /\ dataChannels[e][m.stream] = NoChannel
                    /\ c = Len(channels[e]) + 1 /\ c <= MaxChannels
                    /\ a = Append(channels[e], [id |-> m.stream, readyState |-> "open",
                                                negotiated |-> FALSE])
              /\ Sound(a, b, dataChannelQueue[e])
              /\ Sound(a, b, q)
              /\ Flush(e, a, b, q, {})
  BY <1>1, Zenon
<1> DEFINE rec == [id |-> m.stream, readyState |-> "open", negotiated |-> FALSE]
           q == Append(dataChannelQueue[e], [channel |-> c, kind |-> "ACK"])
<1>3. /\ \A w : Scheduled(channels[e], dataChannels[e], w) => Scheduled(a, b, w)
      /\ NoneCloses(channels[e]) => NoneCloses(a)
  <2>1. CASE a = channels[e] /\ b = dataChannels[e]
    BY <2>1
  <2>2. CASE /\ dataChannels[e][m.stream] = NoChannel
             /\ c = Len(channels[e]) + 1 /\ c <= MaxChannels
             /\ a = Append(channels[e], rec)
    <3>1. rec \in Channel /\ rec.id = m.stream /\ rec.readyState # "closing"
      BY <1>2 DEF Channel
    <3>2. Len(channels[e]) < MaxChannels
      <4>1. Len(channels[e]) \in Nat
        BY ChainOf, PlaceIs
      <4> QED
        BY <2>2, <4>1, BoundsAssumption
    <3>3. rec.id \in StreamId /\ b = [dataChannels[e] EXCEPT ![rec.id] = Len(channels[e]) + 1]
      BY <1>2, <2>2, <3>1
    <3> HIDE DEF rec
    <3> QED
      BY <2>2, <3>1, <3>2, <3>3, ChainOf, AddedScheduled
  <2> QED
    BY <1>2, <2>1, <2>2
<1>4. Sound(a, b, q) /\ Flush(e, a, b, q, {}) /\ a[c].id \in StreamId
  BY <1>2
<1>5. ASSUME phase[e] = "established"
      PROVE  /\ Scheduled(a, b, Range(reconfigQueue[e]) \cup Range(reconfigRequest[e].streams))
             /\ \A i \in DOMAIN q : LET d == q[i].channel
                                    IN  a[d].readyState = "closing" => a[d].id # Unassigned
  <2>1. /\ dataChannelQueue[e] = <<>>
        /\ Scheduled(channels[e], dataChannels[e],
                     Range(reconfigQueue[e]) \cup Range(reconfigRequest[e].streams))
    BY <1>5, ChainOf DEF ChainIn
  <2>2. \A i \in DOMAIN q : q[i].channel = c
    BY <2>1
  <2>3. Unassigned \notin StreamId
    BY ChainOf, PlaceIs
  <2> QED
    BY <1>3, <1>4, <2>1, <2>2, <2>3
<1>6. phase[e] = "connecting" => NoneCloses(a)
  BY <1>3, ChainOf DEF ChainIn
<1>7. UNCHANGED resetVars /\ UNCHANGED phase
  BY DEF ReceiveOpen
<1> HIDE DEF q
<1> QED
  BY <1>4, <1>5, <1>6, <1>7, FlushChain

LEMMA ResetOthers ==
    ASSUME TypeInv, NEW e \in Endpoint,
           NEW q, NEW r, NEW u,
           reconfigQueue' = [reconfigQueue EXCEPT ![e] = q],
           reconfigRequest' = [reconfigRequest EXCEPT ![e] = r],
           timerReconfig' = [timerReconfig EXCEPT ![e] = u]
    PROVE  /\ reconfigQueue'[e] = q /\ reconfigRequest'[e] = r /\ timerReconfig'[e] = u
           /\ \A d \in Endpoint : d # e => /\ reconfigQueue'[d] = reconfigQueue[d]
                                           /\ reconfigRequest'[d] = reconfigRequest[d]
                                           /\ timerReconfig'[d] = timerReconfig[d]
<1>1. RestOK
  BY TypeOKParts DEF TypeInv
<1>2. /\ reconfigQueue \in [Endpoint -> Seq(Ids)]
      /\ reconfigRequest \in [Endpoint -> Request]
      /\ timerReconfig \in [Endpoint -> Timer]
  BY <1>1 DEF RestOK
<1> QED
  BY <1>2

\* A step that only changes channels.
LEMMA ChannelsChain ==
    ASSUME TypeInv, ChainInv, NEW e \in Endpoint, NEW a, NEW b,
           channels' = [channels EXCEPT ![e] = a],
           dataChannels' = [dataChannels EXCEPT ![e] = b],
           UNCHANGED <<phase, dataChannelQueue, resetVars>>,
           NoneCloses(channels[e]) => NoneCloses(a),
           \A w : Scheduled(channels[e], dataChannels[e], w) => Scheduled(a, b, w)
    PROVE  ChainInv'
<1>1. TypeOK /\ UNCHANGED <<phase, dataChannelQueue, reconfigQueue, reconfigRequest, timerReconfig>>
  BY DEF TypeInv, resetVars
<1>2. dataChannelQueue' = [dataChannelQueue EXCEPT ![e] = dataChannelQueue[e]]
  BY <1>1, Kept
<1>3. /\ channels'[e] = a /\ dataChannels'[e] = b /\ dataChannelQueue'[e] = dataChannelQueue[e]
      /\ \A d \in Endpoint : d # e => /\ channels'[d] = channels[d]
                                      /\ dataChannels'[d] = dataChannels[d]
                                      /\ dataChannelQueue'[d] = dataChannelQueue[d]
  BY <1>2, FlushOthers
<1>4. OthersKept(e)
  BY <1>1, <1>3 DEF OthersKept
<1>5. ChainIn(phase[e], a, b, dataChannelQueue[e],
              reconfigQueue[e], reconfigRequest[e], timerReconfig[e])
  BY ChainOf DEF ChainIn
<1> QED
  BY <1>1, <1>3, <1>4, <1>5, OneChain

LEMMA CreateNegotiatedChain ==
    ASSUME TypeInv, ChainInv, NEW e \in Endpoint, CreateNegotiated(e)
    PROVE  ChainInv'
<1>1. PICK id \in NegotiatedIds, st \in {"connecting", "open"} :
          LET rec == [id |-> id, readyState |-> st, negotiated |-> TRUE]
              a == Append(channels[e], rec)
              b == [dataChannels[e] EXCEPT ![id] = Len(channels[e]) + 1]
          IN  /\ Len(channels[e]) < MaxChannels
              /\ rec \in Channel /\ id \in StreamId
              /\ dataChannels[e][id] = NoChannel
              /\ channels' = [channels EXCEPT ![e] = a]
              /\ dataChannels' = [dataChannels EXCEPT ![e] = b]
              /\ Sound(a, b, dataChannelQueue[e])
  BY CreateNegotiatedIs, Zenon
<1> DEFINE rec == [id |-> id, readyState |-> st, negotiated |-> TRUE]
           a == Append(channels[e], rec)
           b == [dataChannels[e] EXCEPT ![id] = Len(channels[e]) + 1]
<1>2. /\ Len(channels[e]) < MaxChannels
      /\ rec \in Channel /\ rec.id = id /\ rec.id \in StreamId /\ rec.readyState # "closing"
      /\ b = [dataChannels[e] EXCEPT ![rec.id] = Len(channels[e]) + 1]
      /\ channels' = [channels EXCEPT ![e] = a]
      /\ dataChannels' = [dataChannels EXCEPT ![e] = b]
  BY <1>1
<1> HIDE DEF rec, b
<1>3. /\ \A w : Scheduled(channels[e], dataChannels[e], w) => Scheduled(a, b, w)
      /\ NoneCloses(channels[e]) => NoneCloses(a)
  BY <1>2, ChainOf, AddedScheduled
<1>4. UNCHANGED <<phase, dataChannelQueue, resetVars>>
  BY DEF CreateNegotiated
<1> HIDE DEF a
<1> QED
  BY <1>2, <1>3, <1>4, ChannelsChain

LEMMA ReceiveAckChain ==
    ASSUME TypeInv, ChainInv, NEW e \in Endpoint, ReceiveAck(e)
    PROVE  ChainInv'
<1>1. PICK c \in DOMAIN channels[e] : SetsState(e, c, "open")
  <2>1. PICK m \in net :
            /\ dataChannels[e][m.stream] \in DOMAIN channels[e]
            /\ SetsState(e, dataChannels[e][m.stream], "open")
    BY ReceiveAckIs
  <2> QED
    BY <2>1
<1>2. PICK a : /\ channels' = [channels EXCEPT ![e] = a]
               /\ Sound(a, dataChannels[e], dataChannelQueue[e])
               /\ StateSetTo(channels[e], c, "open", a)
  BY <1>1, StateSet
<1>3. UNCHANGED <<phase, dataChannels, dataChannelQueue, resetVars>>
  BY DEF ReceiveAck
<1>4. TypeOK
  BY DEF TypeInv
<1>5. dataChannels' = [dataChannels EXCEPT ![e] = dataChannels[e]]
  BY <1>3, <1>4, Kept
<1>6. /\ NoneCloses(channels[e]) => NoneCloses(a)
      /\ \A w : Scheduled(channels[e], dataChannels[e], w) => Scheduled(a, dataChannels[e], w)
  BY <1>2 DEF StateSetTo, NoneCloses, Scheduled
<1> QED
  BY <1>2, <1>3, <1>5, <1>6, ChannelsChain

\* A step after which the association is closed.
LEMMA DropChain ==
    ASSUME TypeInv, ChainInv, NEW e \in Endpoint, Drop(e),
           UNCHANGED <<reconfigQueue, reconfigRequest>>,
           \A d \in Endpoint : d # e => timerReconfig'[d] = timerReconfig[d]
    PROVE  ChainInv'
<1>1. TypeOK
  BY DEF TypeInv
<1>2. /\ phase' = [phase EXCEPT ![e] = "closed"]
      /\ UNCHANGED dataChannelQueue
      /\ \/ UNCHANGED <<channels, dataChannels>>
         \/ \E a, b : /\ channels' = [channels EXCEPT ![e] = a]
                      /\ dataChannels' = [dataChannels EXCEPT ![e] = b]
  BY DropIs
<1>3. PICK a, b : /\ channels' = [channels EXCEPT ![e] = a]
                  /\ dataChannels' = [dataChannels EXCEPT ![e] = b]
  BY <1>1, <1>2, Kept
<1>4. dataChannelQueue' = [dataChannelQueue EXCEPT ![e] = dataChannelQueue[e]]
  BY <1>1, <1>2, Kept
<1>5. \A d \in Endpoint : d # e => /\ channels'[d] = channels[d]
                                   /\ dataChannels'[d] = dataChannels[d]
                                   /\ dataChannelQueue'[d] = dataChannelQueue[d]
  BY <1>3, <1>4, FlushOthers
<1>6. phase'[e] = "closed" /\ \A d \in Endpoint : d # e => phase'[d] = phase[d]
  BY <1>2, ChainOf
<1>7. OthersKept(e)
  BY <1>5, <1>6 DEF OthersKept
<1>8. ChainIn(phase'[e], channels'[e], dataChannels'[e], dataChannelQueue'[e],
              reconfigQueue'[e], reconfigRequest'[e], timerReconfig'[e])
  BY <1>6 DEF ChainIn
<1> QED
  BY <1>7, <1>8, OneChain

\* Channels that are closed for their ids leave no closing channel to these.
LEMMA ClosedForScheduled ==
    ASSUME NEW chans, NEW table, NEW queue, Sound(chans, table, queue),
           NEW ids, NEW a, NEW b, ClosedFor(chans, table, ids, a, b),
           NEW w, Scheduled(chans, table, w)
    PROVE  Scheduled(a, b, w \ ids)
<1>1. DOMAIN a = DOMAIN chans
  <2>1. a \in Seq(Channel) /\ Len(a) = Len(chans)
    BY DEF ClosedFor
  <2> QED
    BY <2>1, PlaceIs
<1>2. SUFFICES ASSUME NEW c \in DOMAIN chans, NEW s \in StreamId,
                      a[c].readyState = "closing", b[s] = c
               PROVE  a[c].id \in w \ ids
  BY <1>1 DEF Scheduled
<1>3. a[c].id = chans[c].id /\ a[c].readyState = chans[c].readyState
  BY <1>2 DEF ClosedFor
<1>4. s \notin ids /\ table[s] = c
  <2>1. c # NoChannel
    BY PlaceIs
  <2> QED
    BY <1>2, <2>1 DEF ClosedFor
<1>5. chans[c].id = s
  BY <1>4, PlaceIs
<1> QED
  BY <1>2, <1>3, <1>4, <1>5 DEF Scheduled

\* What is transmitted is timed and served, and nothing that waits is forgotten.
LEMMA TransmittedChain ==
    ASSUME NEW queue, NEW request, NEW t, NEW q, NEW r, NEW u,
           Transmitted(queue, request, t, q, r, u),
           request # NoRequest => t.armed,
           NEW chans, NEW table,
           Scheduled(chans, table, Range(queue) \cup Range(request.streams))
    PROVE  ChainIn("established", chans, table, <<>>, q, r, u)
<1>1. /\ r = request \/ request = NoRequest
      /\ q # <<>> => r # NoRequest
      /\ (r = request /\ u = t) \/ u.armed
      /\ Range(queue) \cup Range(request.streams) \subseteq Range(q) \cup Range(r.streams)
  BY DEF Transmitted
<1>2. r # NoRequest => u.armed
  BY <1>1
<1>3. Scheduled(chans, table, Range(q) \cup Range(r.streams))
  BY <1>1 DEF Scheduled
<1> QED
  BY <1>1, <1>2, <1>3 DEF ChainIn

\* A step of an established association that changes the reset state, too.
LEMMA ResetChain ==
    ASSUME TypeInv, ChainInv, NEW e \in Endpoint, phase[e] = "established",
           UNCHANGED <<phase, dataChannelQueue>>,
           NEW a, NEW b, NEW q, NEW r, NEW u,
           channels' = [channels EXCEPT ![e] = a],
           dataChannels' = [dataChannels EXCEPT ![e] = b],
           reconfigQueue' = [reconfigQueue EXCEPT ![e] = q],
           reconfigRequest' = [reconfigRequest EXCEPT ![e] = r],
           timerReconfig' = [timerReconfig EXCEPT ![e] = u],
           ChainIn("established", a, b, <<>>, q, r, u)
    PROVE  ChainInv'
<1>1. TypeOK
  BY DEF TypeInv
<1>2. dataChannelQueue' = [dataChannelQueue EXCEPT ![e] = dataChannelQueue[e]]
  BY <1>1, Kept
<1>3. /\ channels'[e] = a /\ dataChannels'[e] = b /\ dataChannelQueue'[e] = dataChannelQueue[e]
      /\ \A d \in Endpoint : d # e => /\ channels'[d] = channels[d]
                                      /\ dataChannels'[d] = dataChannels[d]
                                      /\ dataChannelQueue'[d] = dataChannelQueue[d]
  BY <1>2, FlushOthers
<1>4. /\ reconfigQueue'[e] = q /\ reconfigRequest'[e] = r /\ timerReconfig'[e] = u
      /\ \A d \in Endpoint : d # e => /\ reconfigQueue'[d] = reconfigQueue[d]
                                      /\ reconfigRequest'[d] = reconfigRequest[d]
                                      /\ timerReconfig'[d] = timerReconfig[d]
  BY ResetOthers
<1>5. OthersKept(e)
  BY <1>3, <1>4 DEF OthersKept
<1>6. dataChannelQueue[e] = <<>>
  BY ChainOf DEF ChainIn
<1>7. phase'[e] = "established"
  OBVIOUS
<1>8. ChainIn(phase'[e], channels'[e], dataChannels'[e], dataChannelQueue'[e],
              reconfigQueue'[e], reconfigRequest'[e], timerReconfig'[e])
  BY <1>3, <1>4, <1>6, <1>7, Zenon
<1> QED
  BY <1>5, <1>8, OneChain

LEMMA RangeOfAppend ==
    ASSUME NEW T, NEW s \in Seq(T), NEW x \in T
    PROVE  Range(s) \subseteq Range(Append(s, x)) /\ x \in Range(Append(s, x))
<1>1. /\ DOMAIN s = 1 .. Len(s) /\ Len(s) \in Nat
      /\ DOMAIN Append(s, x) = 1 .. Len(s) + 1
      /\ Append(s, x)[Len(s) + 1] = x
      /\ \A i \in 1 .. Len(s) : Append(s, x)[i] = s[i]
  OBVIOUS
<1>2. Len(s) + 1 \in DOMAIN Append(s, x) /\ DOMAIN s \subseteq DOMAIN Append(s, x)
  BY <1>1
<1> QED
  BY <1>1, <1>2 DEF Range

LEMMA RangeOfConcat ==
    ASSUME NEW T, NEW s \in Seq(T), NEW t \in Seq(T)
    PROVE  Range(s) \subseteq Range(s \o t)
<1>1. /\ DOMAIN s = 1 .. Len(s) /\ Len(s) \in Nat /\ Len(t) \in Nat
      /\ DOMAIN (s \o t) = 1 .. Len(s) + Len(t)
      /\ \A i \in 1 .. Len(s) : (s \o t)[i] = s[i]
  OBVIOUS
<1>2. DOMAIN s \subseteq DOMAIN (s \o t)
  BY <1>1
<1> QED
  BY <1>1, <1>2 DEF Range

LEMMA CloseChain ==
    ASSUME TypeInv, ChainInv, NEW e \in Endpoint, Close(e)
    PROVE  ChainInv'
<1>1. PICK c \in DOMAIN channels[e] : ResetChannel(e, c) \/ ForgetChannel(e, c)
  BY DEF Close
<1>2. UNCHANGED phase
  BY DEF Close
<1>3. TypeOK /\ RestOK
  BY TypeOKParts DEF TypeInv
<1>4. CASE ResetChannel(e, c)
  <2> DEFINE id == channels[e][c].id
             rq == reconfigQueue[e]
             queue == Append(reconfigQueue[e], id)
             request == reconfigRequest[e]
             t == timerReconfig[e]
             table == dataChannels[e]
  <2>1. ResetEffect(e, c)
    BY <1>4, ResetChannelIs
  <2>2. phase[e] = "established"
    BY <2>1 DEF ResetEffect
  <2>3. /\ request # NoRequest => t.armed
        /\ rq # <<>> => request # NoRequest
        /\ Scheduled(channels[e], table, Range(rq) \cup Range(request.streams))
    BY <2>2, ChainOf DEF ChainIn
  <2>4. PICK q, r, u :
            /\ Transmitted(queue, request, t, q, r, u)
            /\ reconfigQueue' = [reconfigQueue EXCEPT ![e] = q]
            /\ reconfigRequest' = [reconfigRequest EXCEPT ![e] = r]
            /\ timerReconfig' = [timerReconfig EXCEPT ![e] = u]
    <3>1. PICK q, r, u :
              /\ q \in Seq(Ids) /\ r \in Request /\ u \in Timer
              /\ r = reconfigRequest[e] \/ reconfigRequest[e] = NoRequest
              /\ (reconfigQueue[e] # <<>> => reconfigRequest[e] # NoRequest)
                    => Transmitted(Append(reconfigQueue[e], channels[e][c].id),
                                   reconfigRequest[e], timerReconfig[e], q, r, u)
              /\ reconfigQueue' = [reconfigQueue EXCEPT ![e] = q]
              /\ reconfigRequest' = [reconfigRequest EXCEPT ![e] = r]
              /\ timerReconfig' = [timerReconfig EXCEPT ![e] = u]
      BY <2>1 DEF ResetEffect
    <3>2. Transmitted(queue, request, t, q, r, u)
      BY <2>3, <3>1
    <3> HIDE DEF queue, request, t
    <3> QED
      BY <3>1, <3>2
  <2>5. SetsState(e, c, "closing") /\ UNCHANGED <<dataChannels, dataChannelQueue>>
    BY <2>1 DEF ResetEffect
  <2>6. PICK a : /\ channels' = [channels EXCEPT ![e] = a]
                 /\ Sound(a, table, dataChannelQueue[e])
                 /\ StateSetTo(channels[e], c, "closing", a)
    BY <2>5, StateSet
  <2>7. rq \in Seq(Ids) /\ id \in Ids
    <3>1. channels[e][c] \in Channel
      BY ChainOf, PlaceIs
    <3> QED
      BY <1>3, <3>1 DEF Channel, Ids, RestOK
  <2>8. Range(rq) \subseteq Range(queue) /\ id \in Range(queue)
    BY <2>7, RangeOfAppend
  <2>9. Scheduled(a, table, Range(queue) \cup Range(request.streams))
    <3> HIDE DEF queue, rq, request, table
    <3>1. ASSUME NEW d \in DOMAIN a, NEW s \in StreamId,
                 a[d].readyState = "closing", table[s] = d
          PROVE  a[d].id \in Range(queue) \cup Range(request.streams)
      <4>1. CASE d = c
        BY <2>6, <2>8, <4>1 DEF StateSetTo
      <4>2. CASE d # c
        <5>1. d \in DOMAIN channels[e] /\ a[d] = channels[e][d]
          BY <2>6, <4>2 DEF StateSetTo
        <5>2. a[d].id \in Range(rq) \cup Range(request.streams)
          BY <2>3, <3>1, <5>1 DEF Scheduled
        <5> QED
          BY <2>8, <5>2
      <4> QED
        BY <4>1, <4>2
    <3> QED
      BY <3>1 DEF Scheduled
  <2> HIDE DEF queue, request, t, table
  <2>10. ChainIn("established", a, table, <<>>, q, r, u)
    BY <2>3, <2>4, <2>9, TransmittedChain
  <2>11. dataChannels' = [dataChannels EXCEPT ![e] = table]
    BY <1>3, <2>5, Kept DEF table
  <2> QED
    BY <1>2, <2>2, <2>4, <2>5, <2>6, <2>10, <2>11, ResetChain
<1>5. CASE ForgetChannel(e, c)
  <2>1. PICK a, b, q : /\ channels' = [channels EXCEPT ![e] = a]
                       /\ dataChannels' = [dataChannels EXCEPT ![e] = b]
                       /\ dataChannelQueue' = [dataChannelQueue EXCEPT ![e] = q]
                       /\ Forgotten(channels[e], dataChannels[e], dataChannelQueue[e], c, a, b, q)
    BY <1>5, ForgetChannelIs
  <2>2. phase[e] # "established" /\ UNCHANGED <<reconfigQueue, reconfigRequest, timerReconfig>>
    BY <1>5 DEF ForgetChannel, resetVars
  <2>3. /\ channels'[e] = a /\ dataChannels'[e] = b /\ dataChannelQueue'[e] = q
        /\ \A d \in Endpoint : d # e => /\ channels'[d] = channels[d]
                                        /\ dataChannels'[d] = dataChannels[d]
                                        /\ dataChannelQueue'[d] = dataChannelQueue[d]
    BY <2>1, FlushOthers
  <2>4. OthersKept(e)
    BY <1>2, <2>2, <2>3 DEF OthersKept
  <2>5. NoneCloses(channels[e]) => NoneCloses(a)
    BY <2>1 DEF Forgotten, NoneCloses
  <2>6. ChainIn(phase[e], a, b, q, reconfigQueue[e], reconfigRequest[e], timerReconfig[e])
    BY <2>2, <2>5, ChainOf DEF ChainIn
  <2> QED
    BY <1>2, <2>2, <2>3, <2>4, <2>6, OneChain
<1> QED
  BY <1>1, <1>4, <1>5

LEMMA ReceiveResetChain ==
    ASSUME TypeInv, ChainInv, NEW e \in Endpoint, ReceiveReset(e)
    PROVE  ChainInv'
<1>1. RestOK
  BY TypeOKParts DEF TypeInv
<1>2. PICK m \in net, back \in Seq(Ids) :
          LET queue == reconfigQueue[e] \o back
          IN  /\ phase[e] = "established"
              /\ m.type = "RESET" /\ m.to = e /\ m.seq \in Nat
              /\ queue \in Seq(Ids)
              /\ TransmitReconfigRequest(e, queue, reconfigRequest[e], timerReconfig[e],
                     {[type |-> "RESPONSE", to |-> Peer(e), seq |-> m.seq]})
              /\ ReconfigStreams(e, m.streams)
              /\ performed' = [performed EXCEPT ![e] = @ \cup {m.seq}]
              /\ UNCHANGED <<phase, dataChannelQueue, outboundStreamSeq>>
  BY ReceiveResetIs
<1> DEFINE rq == reconfigQueue[e]
           queue == rq \o back
           request == reconfigRequest[e]
           t == timerReconfig[e]
           out == {[type |-> "RESPONSE", to |-> Peer(e), seq |-> m.seq]}
           ids == IdsOf(m.streams)
<1>3. queue \in Seq(Ids) /\ rq \in Seq(Ids) /\ request \in Request /\ t \in Timer
  BY <1>1, <1>2 DEF RestOK
<1>4. TransmitReconfigRequest(e, queue, request, t, out)
  BY <1>2
<1>5. /\ phase[e] = "established"
      /\ request # NoRequest => t.armed
      /\ Scheduled(channels[e], dataChannels[e], Range(rq) \cup Range(request.streams))
  BY <1>2, ChainOf DEF ChainIn
<1>6. Range(rq) \subseteq Range(queue)
  BY <1>3, RangeOfConcat
<1> HIDE DEF queue, request, t, out, ids, rq
<1>7. TransmitEffect(e, queue, request, t, out)
  BY <1>1, <1>3, <1>4, TransmitIs
<1>8. PICK q, r, u :
            /\ Transmitted(queue, request, t, q, r, u)
            /\ reconfigQueue' = [reconfigQueue EXCEPT ![e] = q]
            /\ reconfigRequest' = [reconfigRequest EXCEPT ![e] = r]
            /\ timerReconfig' = [timerReconfig EXCEPT ![e] = u]
  BY <1>7 DEF TransmitEffect
<1>9. ReconfigStreams(e, m.streams)
  BY <1>2
<1>10. PICK a, b : /\ ClosedFor(channels[e], dataChannels[e], ids, a, b)
                   /\ channels' = [channels EXCEPT ![e] = a]
                   /\ dataChannels' = [dataChannels EXCEPT ![e] = b]
  BY <1>9, ReconfigStreamsIs DEF ids
<1>11. Scheduled(a, b, (Range(rq) \cup Range(request.streams)) \ ids)
  BY <1>5, <1>10, ChainOf, ClosedForScheduled
<1>12. Scheduled(a, b, Range(queue) \cup Range(request.streams))
  BY <1>6, <1>11 DEF Scheduled
<1>13. ChainIn("established", a, b, <<>>, q, r, u)
  BY <1>5, <1>8, <1>12, TransmittedChain
<1>14. UNCHANGED <<phase, dataChannelQueue>>
  BY <1>2
<1> QED
  BY <1>5, <1>8, <1>10, <1>13, <1>14, ResetChain

LEMMA ReceiveResponseChain ==
    ASSUME TypeInv, ChainInv, NEW e \in Endpoint, ReceiveResponse(e)
    PROVE  ChainInv'
<1>1. RestOK
  BY TypeOKParts DEF TypeInv
<1> DEFINE rq == reconfigQueue[e]
           streams == reconfigRequest[e].streams
           t == CancelTimer(timerReconfig[e])
           ids == IdsOf(streams)
<1>2. /\ phase[e] = "established"
      /\ ReconfigStreams(e, streams)
      /\ TransmitReconfigRequest(e, rq, NoRequest, t, {})
      /\ UNCHANGED <<phase, dataChannelQueue>>
  BY DEF ReceiveResponse
<1>3. rq \in Seq(Ids) /\ NoRequest \in Request /\ t \in Timer
  <2>1. rq \in Seq(Ids) /\ timerReconfig[e] \in Timer
    BY <1>1 DEF RestOK
  <2>2. <<>> \in Seq(StreamId \cup {Unassigned}) /\ 0 \in Nat
    OBVIOUS
  <2> QED
    BY <2>1, <2>2 DEF NoRequest, Request, CancelTimer, Timer
<1>4. Scheduled(channels[e], dataChannels[e], Range(rq) \cup Range(streams))
  BY <1>2, ChainOf DEF ChainIn
<1> HIDE DEF rq, streams, t, ids
<1>5. TransmitEffect(e, rq, NoRequest, t, {})
  BY <1>1, <1>2, <1>3, TransmitIs
<1>6. PICK q, r, u :
            /\ Transmitted(rq, NoRequest, t, q, r, u)
            /\ reconfigQueue' = [reconfigQueue EXCEPT ![e] = q]
            /\ reconfigRequest' = [reconfigRequest EXCEPT ![e] = r]
            /\ timerReconfig' = [timerReconfig EXCEPT ![e] = u]
  BY <1>5 DEF TransmitEffect
<1>7. PICK a, b : /\ ClosedFor(channels[e], dataChannels[e], ids, a, b)
                  /\ Sound(a, b, dataChannelQueue[e])
                  /\ channels' = [channels EXCEPT ![e] = a]
                  /\ dataChannels' = [dataChannels EXCEPT ![e] = b]
  BY <1>2, ReconfigStreamsIs DEF ids
<1>8. Scheduled(a, b, (Range(rq) \cup Range(streams)) \ ids)
  BY <1>4, <1>7, ChainOf, ClosedForScheduled
<1>9. Scheduled(a, b, Range(rq) \cup Range(NoRequest.streams))
  <2>1. \A x \in Range(streams) : x \in StreamId => x \in ids
    BY DEF Range, ids, IdsOf
  <2>2. ASSUME NEW c \in DOMAIN a, NEW s \in StreamId, a[c].readyState = "closing", b[s] = c
        PROVE  a[c].id \in Range(rq) \cup Range(NoRequest.streams)
    <3>1. a[c].id \in (Range(rq) \cup Range(streams)) \ ids
      BY <1>8, <2>2 DEF Scheduled
    <3>2. a[c].id = s
      BY <1>7, <2>2, PlaceIs
    <3> QED
      BY <2>1, <3>1, <3>2
  <2> QED
    BY <2>2 DEF Scheduled
<1>10. ChainIn("established", a, b, <<>>, q, r, u)
  BY <1>6, <1>9, TransmittedChain
<1> QED
  BY <1>2, <1>6, <1>7, <1>10, ResetChain

LEMMA TimerReconfigExpiredChain ==
    ASSUME TypeInv, ChainInv, NEW e \in Endpoint, TimerReconfigExpired(e)
    PROVE  ChainInv'
<1>1. timerReconfig \in [Endpoint -> Timer]
  BY TypeOKParts DEF TypeInv, RestOK
<1>2. UNCHANGED <<reconfigQueue, reconfigRequest>>
  BY DEF TimerReconfigExpired
<1>3. \A d \in Endpoint : d # e => timerReconfig'[d] = timerReconfig[d]
  BY <1>1 DEF TimerReconfigExpired
<1>4. CASE Drop(e)
  BY <1>2, <1>3, <1>4, DropChain
<1>5. CASE ~Drop(e)
  <2>1. /\ timerReconfig' = [timerReconfig EXCEPT ![e].failures = @ + 1]
        /\ UNCHANGED <<phase, channelVars>>
    BY <1>5 DEF TimerReconfigExpired
  <2>2. timerReconfig'[e].armed = timerReconfig[e].armed
    BY <1>1, <2>1 DEF Timer
  <2>3. UNCHANGED <<phase, channels, dataChannels, dataChannelQueue>>
    BY <2>1 DEF channelVars
  <2>4. OthersKept(e)
    BY <1>2, <1>3, <2>3 DEF OthersKept
  <2>5. ChainIn(phase[e], channels[e], dataChannels[e], dataChannelQueue[e],
                reconfigQueue[e], reconfigRequest[e], timerReconfig'[e])
    BY <2>2, ChainOf DEF ChainIn
  <2> QED
    BY <1>2, <2>3, <2>4, <2>5, OneChain
<1> QED
  BY <1>4, <1>5

LEMMA ChainStep ==
    ASSUME ~SendAfterClose
    PROVE  TypeInv /\ ChainInv /\ [Next]_vars => ChainInv'
<1> SUFFICES ASSUME TypeInv, ChainInv, [Next]_vars
             PROVE  ChainInv'
  OBVIOUS
<1>0. Client \in Endpoint /\ Server \in Endpoint
  BY DEF Endpoint
<1>1. CASE EstablishServer
  BY <1>0, <1>1, EstablishChain DEF EstablishServer
<1>2. CASE EstablishClient
  <2>1. phase[Client] # "closed"
    BY <1>2 DEF EstablishClient
  <2> QED
    BY <1>0, <1>2, <2>1, EstablishChain DEF EstablishClient
<1>3. ASSUME NEW e \in Endpoint, CloseAssociation(e)
      PROVE  ChainInv'
  BY <1>3, DropChain DEF CloseAssociation, resetVars
<1>4. ASSUME NEW e \in Endpoint, CreateDataChannel(e)
      PROVE  ChainInv'
  BY <1>4, CreateChain
<1>5. ASSUME NEW e \in Endpoint, CreateNegotiated(e)
      PROVE  ChainInv'
  BY <1>5, CreateNegotiatedChain
<1>6. ASSUME NEW e \in Endpoint, SendData(e)
      PROVE  ChainInv'
  BY <1>6, SendDataChain
<1>7. ASSUME NEW e \in Endpoint, Close(e)
      PROVE  ChainInv'
  BY <1>7, CloseChain
<1>8. ASSUME NEW e \in Endpoint, ReceiveOpen(e)
      PROVE  ChainInv'
  BY <1>8, ReceiveOpenChain
<1>9. ASSUME NEW e \in Endpoint, ReceiveAck(e)
      PROVE  ChainInv'
  BY <1>9, ReceiveAckChain
<1>10. ASSUME NEW e \in Endpoint, ReceiveReset(e)
       PROVE  ChainInv'
  BY <1>10, ReceiveResetChain
<1>11. ASSUME NEW e \in Endpoint, ReceiveResponse(e)
       PROVE  ChainInv'
  BY <1>11, ReceiveResponseChain
<1>12. ASSUME NEW e \in Endpoint, TimerReconfigExpired(e)
       PROVE  ChainInv'
  BY <1>12, TimerReconfigExpiredChain
<1>13. CASE UNCHANGED vars
  BY <1>13 DEF vars, channelVars, resetVars, ChainInv
<1> QED
  BY <1>1, <1>2, <1>3, <1>4, <1>5, <1>6, <1>7, <1>8, <1>9, <1>10, <1>11, <1>12, <1>13 DEF Next

LEMMA ChainInit == Init => ChainInv
<1> SUFFICES ASSUME Init, NEW e \in Endpoint
             PROVE  ChainIn(phase[e], channels[e], dataChannels[e], dataChannelQueue[e],
                            reconfigQueue[e], reconfigRequest[e], timerReconfig[e])
  BY DEF ChainInv
<1>1. /\ phase[e] = "connecting" /\ channels[e] = <<>>
      /\ reconfigQueue[e] = <<>> /\ reconfigRequest[e] = NoRequest
  BY DEF Init
<1>2. NoneCloses(channels[e])
  BY <1>1 DEF NoneCloses
<1> QED
  BY <1>1, <1>2 DEF ChainIn

\* No reset is left behind: what closes has its id on the way, what is on the way has a
\* request, and what is requested has a timer, whatever the close of one side, the resets
\* of the other, the responses and the timer do, in whatever order.  A user that sends on a
\* closing channel is excluded: datachannelSend takes the data, and the flush gives a
\* closing channel without an id one that nobody resets.
THEOREM ResetsNeverStick ==
    ASSUME ~SendAfterClose
    PROVE  Spec => []NoResetIsStuck
<1>1. TypeInv /\ ChainInv /\ [Next]_vars => ChainInv'
  BY ChainStep
<1> QED
  BY <1>1, ChainInit, ChainLeadsTo, TypeInvariance, PTL DEF Spec

(***************************************************************************)
(* CompletionIsEarned                                                      *)
(***************************************************************************)

\* A response is only under way when its request was performed.
ResponsesEarned ==
    \A m \in net : m.type = "RESPONSE" => m.seq \in performed[Peer(m.to)]

\* What CompletionIsEarned asks of a step and an endpoint.
Completes(e) ==
    phase'[e] = "established" /\ reconfigRequest[e] # NoRequest
        /\ reconfigRequest'[e] # reconfigRequest[e] =>
        reconfigRequest[e].seq \in performed[Peer(e)]

EarnedStep == ResponsesEarned' /\ \A e \in Endpoint : Completes(e)

\* The flush sends no response.
LEMMA FlushSends ==
    ASSUME TypeOK, NEW e \in Endpoint,
           NEW chans, NEW table, NEW queue, Sound(chans, table, queue),
           NEW sent, Flush(e, chans, table, queue, sent)
    PROVE  \A m \in net' : m \in net \cup sent \/ m.type # "RESPONSE"
<1>1. PICK acc : /\ Turned(e, chans, table, queue, acc)
                 /\ net' = net \cup sent \cup acc.out
  BY FlushIs
<1>2. ASSUME NEW m \in acc.out
      PROVE  m.type # "RESPONSE"
  <2>1. PICK i \in DOMAIN queue :
            m = [type |-> queue[i].kind, to |-> Peer(e),
                 stream |-> acc.channels[queue[i].channel].id]
    BY <1>1 DEF Turned
  <2>2. queue \in Seq(QueueItem)
    BY DEF Sound
  <2>3. queue[i] \in QueueItem
    BY <2>1, <2>2
  <2> QED
    BY <2>1, <2>3 DEF QueueItem
<1> QED
  BY <1>1, <1>2

\* A step that leaves the requests alone and sends no response.
LEMMA NothingEarned ==
    ASSUME ResponsesEarned, UNCHANGED <<reconfigRequest, performed>>,
           \A m \in net' : m \in net \/ m.type # "RESPONSE"
    PROVE  EarnedStep
BY DEF ResponsesEarned, EarnedStep, Completes

\* A flush is such a step.
LEMMA FlushEarns ==
    ASSUME TypeInv, ResponsesEarned, UNCHANGED <<resetVars, performed>>, NEW e \in Endpoint,
           NEW chans, NEW table, NEW queue, Sound(chans, table, queue),
           NEW sent, \A m \in sent : m.type # "RESPONSE", Flush(e, chans, table, queue, sent)
    PROVE  EarnedStep
<1>1. \A m \in net' : m \in net \cup sent \/ m.type # "RESPONSE"
  BY FlushSends DEF TypeInv
<1>2. \A m \in net' : m \in net \/ m.type # "RESPONSE"
  BY <1>1
<1> QED
  BY <1>2, NothingEarned DEF resetVars

LEMMA ConnectedEarns ==
    ASSUME TypeInv, ResponsesEarned, UNCHANGED <<resetVars, performed>>, NEW e \in Endpoint,
           NEW sent, \A m \in sent : m.type # "RESPONSE", Connected(e, sent)
    PROVE  EarnedStep
<1>1. PICK a : /\ Sound(a, dataChannels[e], dataChannelQueue[e])
               /\ Flush(e, a, dataChannels[e], dataChannelQueue[e], sent)
  BY ConnectedIs
<1> QED
  BY <1>1, FlushEarns

LEMMA CreateEarns ==
    ASSUME TypeInv, ResponsesEarned, NEW e \in Endpoint, CreateDataChannel(e)
    PROVE  EarnedStep
<1>1. PICK id \in OpenIds \cup {Unassigned} :
          LET c == Len(channels[e]) + 1
              rec == [id |-> id, readyState |-> "connecting", negotiated |-> FALSE]
              registers == id \notin {Unassigned, 0}
              a == Append(channels[e], rec)
              b == IF registers THEN [dataChannels[e] EXCEPT ![id] = c]
                   ELSE dataChannels[e]
              q == Append(dataChannelQueue[e], [channel |-> c, kind |-> "OPEN"])
          IN  /\ Len(channels[e]) < MaxChannels
              /\ rec \in Channel
              /\ registers => id \in StreamId /\ dataChannels[e][id] = NoChannel
              /\ Sound(a, b, dataChannelQueue[e])
              /\ Sound(a, b, q)
              /\ Flush(e, a, b, q, {})
  BY CreateDataChannelIs, Zenon
<1> DEFINE c == Len(channels[e]) + 1
           a == Append(channels[e], [id |-> id, readyState |-> "connecting", negotiated |-> FALSE])
           b == IF id \notin {Unassigned, 0} THEN [dataChannels[e] EXCEPT ![id] = c]
                ELSE dataChannels[e]
           q == Append(dataChannelQueue[e], [channel |-> c, kind |-> "OPEN"])
<1>2. Sound(a, b, q) /\ Flush(e, a, b, q, {})
  BY <1>1
<1>3. UNCHANGED <<resetVars, performed>>
  BY DEF CreateDataChannel
<1> HIDE DEF a, b, q
<1> QED
  BY <1>2, <1>3, FlushEarns

LEMMA SendDataEarns ==
    ASSUME TypeInv, ResponsesEarned, NEW e \in Endpoint, SendData(e)
    PROVE  EarnedStep
<1>1. PICK c \in DOMAIN channels[e] :
          Flush(e, channels[e], dataChannels[e],
                Append(dataChannelQueue[e], [channel |-> c, kind |-> "DATA"]), {})
  BY DEF SendData
<1> DEFINE q == Append(dataChannelQueue[e], [channel |-> c, kind |-> "DATA"])
<1>2. Sound(channels[e], dataChannels[e], dataChannelQueue[e])
  BY DEF TypeInv
<1>3. Sound(channels[e], dataChannels[e], q)
  BY <1>2, QueuedSound
<1>4. Flush(e, channels[e], dataChannels[e], q, {}) /\ UNCHANGED <<resetVars, performed>>
  BY <1>1 DEF SendData
<1> HIDE DEF q
<1> QED
  BY <1>3, <1>4, FlushEarns

LEMMA ReceiveOpenEarns ==
    ASSUME TypeInv, ResponsesEarned, NEW e \in Endpoint, ReceiveOpen(e)
    PROVE  EarnedStep
<1>1. PICK m \in net : \E a, b, c :
          LET q == Append(dataChannelQueue[e], [channel |-> c, kind |-> "ACK"])
          IN  /\ m.type = "OPEN" /\ m.to = e /\ m.stream \in StreamId
              /\ c \in DOMAIN a /\ a[c].id = m.stream
              /\ b = [dataChannels[e] EXCEPT ![m.stream] = c]
              /\ \/ /\ dataChannels[e][m.stream] = c
                    /\ a = channels[e] /\ b = dataChannels[e]
                 \/ /\ dataChannels[e][m.stream] = NoChannel
                    /\ c = Len(channels[e]) + 1 /\ c <= MaxChannels
                    /\ a = Append(channels[e], [id |-> m.stream, readyState |-> "open",
                                                negotiated |-> FALSE])
              /\ Sound(a, b, dataChannelQueue[e])
              /\ Sound(a, b, q)
              /\ Flush(e, a, b, q, {})
  BY ReceiveOpenIs, Zenon
<1>2. PICK a, b, q : Sound(a, b, q) /\ Flush(e, a, b, q, {})
  BY <1>1, Zenon
<1>3. UNCHANGED <<resetVars, performed>>
  BY DEF ReceiveOpen
<1> QED
  BY <1>2, <1>3, FlushEarns

\* A new request takes the place of no other.
LEMMA OnlyWhenNone ==
    ASSUME RestOK, NEW e \in Endpoint, NEW r,
           r = reconfigRequest[e] \/ reconfigRequest[e] = NoRequest,
           reconfigRequest' = [reconfigRequest EXCEPT ![e] = r]
    PROVE  \A d \in Endpoint : Completes(d)
<1>1. reconfigRequest \in [Endpoint -> Request]
  BY DEF RestOK
<1>2. ASSUME NEW d \in Endpoint
      PROVE  Completes(d)
  <2>1. reconfigRequest'[d] = IF d = e THEN r ELSE reconfigRequest[d]
    BY <1>1
  <2> QED
    BY <2>1 DEF Completes
<1> QED
  BY <1>2

LEMMA CloseEarns ==
    ASSUME TypeInv, ResponsesEarned, NEW e \in Endpoint, Close(e)
    PROVE  EarnedStep
<1>0. RestOK
  BY TypeOKParts DEF TypeInv
<1>1. PICK c \in DOMAIN channels[e] : ResetChannel(e, c) \/ ForgetChannel(e, c)
  BY DEF Close
<1>2. UNCHANGED performed
  BY DEF Close
<1>3. CASE ResetChannel(e, c)
  <2>1. ResetEffect(e, c)
    BY <1>3, ResetChannelIs
  <2>2. PICK q, r, u :
            /\ q \in Seq(Ids) /\ r \in Request /\ u \in Timer
            /\ r = reconfigRequest[e] \/ reconfigRequest[e] = NoRequest
            /\ reconfigRequest' = [reconfigRequest EXCEPT ![e] = r]
    BY <2>1 DEF ResetEffect
  <2>3. PICK o \in SUBSET Message : net' = net \cup o /\ \A m \in o : m.type = "RESET"
    BY <2>1 DEF ResetEffect
  <2>4. ResponsesEarned'
    BY <1>2, <2>3 DEF ResponsesEarned
  <2> QED
    BY <1>0, <2>2, <2>4, OnlyWhenNone DEF EarnedStep
<1>4. CASE ForgetChannel(e, c)
  BY <1>2, <1>4, NothingEarned DEF ForgetChannel, resetVars
<1> QED
  BY <1>1, <1>3, <1>4

LEMMA ReceiveResetEarns ==
    ASSUME TypeInv, ResponsesEarned, NEW e \in Endpoint, ReceiveReset(e)
    PROVE  EarnedStep
<1>1. RestOK
  BY TypeOKParts DEF TypeInv
<1>2. PICK m \in net, back \in Seq(Ids) :
          LET queue == reconfigQueue[e] \o back
          IN  /\ phase[e] = "established"
              /\ m.type = "RESET" /\ m.to = e /\ m.seq \in Nat
              /\ queue \in Seq(Ids)
              /\ TransmitReconfigRequest(e, queue, reconfigRequest[e], timerReconfig[e],
                     {[type |-> "RESPONSE", to |-> Peer(e), seq |-> m.seq]})
              /\ ReconfigStreams(e, m.streams)
              /\ performed' = [performed EXCEPT ![e] = @ \cup {m.seq}]
              /\ UNCHANGED <<phase, dataChannelQueue, outboundStreamSeq>>
  BY ReceiveResetIs
<1> DEFINE queue == reconfigQueue[e] \o back
           request == reconfigRequest[e]
           t == timerReconfig[e]
           answer == [type |-> "RESPONSE", to |-> Peer(e), seq |-> m.seq]
<1>3. /\ queue \in Seq(Ids) /\ request \in Request /\ t \in Timer
      /\ TransmitReconfigRequest(e, queue, request, t, {answer})
  BY <1>1, <1>2 DEF RestOK
<1>4. TransmitEffect(e, queue, request, t, {answer})
  <2> HIDE DEF queue, request, t, answer
  <2> QED
    BY <1>1, <1>3, TransmitIs
<1>5. PICK q, r, u :
          /\ Transmitted(queue, request, t, q, r, u)
          /\ reconfigRequest' = [reconfigRequest EXCEPT ![e] = r]
  <2> HIDE DEF queue, request, t, answer
  <2> QED
    BY <1>4 DEF TransmitEffect
<1>6. r = reconfigRequest[e] \/ reconfigRequest[e] = NoRequest
  BY <1>5 DEF Transmitted
<1>7. \A d \in Endpoint : Completes(d)
  BY <1>1, <1>5, <1>6, OnlyWhenNone
<1>8. PICK o \in SUBSET Message : /\ net' = net \cup {answer} \cup o
                                  /\ \A n \in o : n.type = "RESET"
  <2> HIDE DEF queue, request, t, answer
  <2> QED
    BY <1>4 DEF TransmitEffect
<1>9. /\ m.seq \in performed'[e]
      /\ \A d \in Endpoint : performed[d] \subseteq performed'[d]
  BY <1>1, <1>2 DEF RestOK
<1>10. ASSUME NEW n \in net', n.type = "RESPONSE"
       PROVE  n.seq \in performed'[Peer(n.to)]
  <2>1. CASE n = answer
    <3>1. n.seq = m.seq /\ Peer(n.to) = e
      BY <2>1, PeerIs
    <3> QED
      BY <1>9, <3>1
  <2>2. CASE n \in net
    <3>1. n \in Message
      BY <1>1, <2>2 DEF RestOK
    <3>2. n.to \in Endpoint
      BY <3>1 DEF Message
    <3>3. Peer(n.to) \in Endpoint /\ n.seq \in performed[Peer(n.to)]
      BY <1>10, <2>2, <3>2, PeerIs DEF ResponsesEarned
    <3> QED
      BY <1>9, <3>3
  <2>3. n = answer \/ n \in net
    <3> HIDE DEF answer
    <3> QED
      BY <1>8, <1>10
  <2> QED
    BY <2>1, <2>2, <2>3
<1> QED
  BY <1>7, <1>10 DEF EarnedStep, ResponsesEarned

LEMMA ReceiveResponseEarns ==
    ASSUME TypeInv, ResponsesEarned, NEW e \in Endpoint, ReceiveResponse(e)
    PROVE  EarnedStep
<1>1. RestOK
  BY TypeOKParts DEF TypeInv
<1>2. UNCHANGED performed
  BY DEF ReceiveResponse
<1>3. reconfigRequest[e].seq \in performed[Peer(e)]
  <2>1. PICK m \in net : m.type = "RESPONSE" /\ m.to = e /\ m.seq = reconfigRequest[e].seq
    BY DEF ReceiveResponse
  <2> QED
    BY <2>1 DEF ResponsesEarned
<1> DEFINE queue == reconfigQueue[e]
           t == CancelTimer(timerReconfig[e])
<1>4. TransmitReconfigRequest(e, queue, NoRequest, t, {})
  BY DEF ReceiveResponse
<1>5. queue \in Seq(Ids) /\ NoRequest \in Request /\ t \in Timer
  <2>1. queue \in Seq(Ids) /\ timerReconfig[e] \in Timer
    BY <1>1 DEF RestOK
  <2>2. <<>> \in Seq(StreamId \cup {Unassigned}) /\ 0 \in Nat
    OBVIOUS
  <2> QED
    BY <2>1, <2>2 DEF NoRequest, Request, CancelTimer, Timer
<1> HIDE DEF queue, t
<1>6. TransmitEffect(e, queue, NoRequest, t, {})
  BY <1>1, <1>4, <1>5, TransmitIs
<1>7. PICK q, r, u :
          /\ Transmitted(queue, NoRequest, t, q, r, u)
          /\ reconfigRequest' = [reconfigRequest EXCEPT ![e] = r]
  BY <1>6 DEF TransmitEffect
<1>8. \A d \in Endpoint : Completes(d)
  <2>1. \A d \in Endpoint : d # e => reconfigRequest'[d] = reconfigRequest[d]
    BY <1>1, <1>7 DEF RestOK
  <2> QED
    BY <1>3, <2>1 DEF Completes
<1>9. PICK o \in SUBSET Message : net' = net \cup {} \cup o /\ \A m \in o : m.type = "RESET"
  BY <1>6 DEF TransmitEffect
<1>10. ResponsesEarned'
  BY <1>2, <1>9 DEF ResponsesEarned
<1> QED
  BY <1>8, <1>10 DEF EarnedStep

LEMMA CompletionStep == TypeInv /\ ResponsesEarned /\ [Next]_vars => EarnedStep
<1> SUFFICES ASSUME TypeInv, ResponsesEarned, [Next]_vars
             PROVE  EarnedStep
  OBVIOUS
<1>0. Client \in Endpoint /\ Server \in Endpoint
  BY DEF Endpoint
<1>1. CASE EstablishServer
  BY <1>0, <1>1, ConnectedEarns DEF EstablishServer
<1>2. CASE EstablishClient
  BY <1>0, <1>2, ConnectedEarns DEF EstablishClient
<1>3. ASSUME NEW e \in Endpoint, CloseAssociation(e)
      PROVE  EarnedStep
  BY <1>3, NothingEarned DEF CloseAssociation, resetVars
<1>4. ASSUME NEW e \in Endpoint, CreateDataChannel(e)
      PROVE  EarnedStep
  BY <1>4, CreateEarns
<1>5. ASSUME NEW e \in Endpoint, CreateNegotiated(e)
      PROVE  EarnedStep
  BY <1>5, NothingEarned DEF CreateNegotiated, resetVars
<1>6. ASSUME NEW e \in Endpoint, SendData(e)
      PROVE  EarnedStep
  BY <1>6, SendDataEarns
<1>7. ASSUME NEW e \in Endpoint, Close(e)
      PROVE  EarnedStep
  BY <1>7, CloseEarns
<1>8. ASSUME NEW e \in Endpoint, ReceiveOpen(e)
      PROVE  EarnedStep
  BY <1>8, ReceiveOpenEarns
<1>9. ASSUME NEW e \in Endpoint, ReceiveAck(e)
      PROVE  EarnedStep
  BY <1>9, NothingEarned DEF ReceiveAck, resetVars
<1>10. ASSUME NEW e \in Endpoint, ReceiveReset(e)
       PROVE  EarnedStep
  BY <1>10, ReceiveResetEarns
<1>11. ASSUME NEW e \in Endpoint, ReceiveResponse(e)
       PROVE  EarnedStep
  BY <1>11, ReceiveResponseEarns
<1>12. ASSUME NEW e \in Endpoint, TimerReconfigExpired(e)
       PROVE  EarnedStep
  BY <1>12, NothingEarned DEF TimerReconfigExpired
<1>13. CASE UNCHANGED vars
  BY <1>13, NothingEarned DEF vars, resetVars
<1> QED
  BY <1>1, <1>2, <1>3, <1>4, <1>5, <1>6, <1>7, <1>8, <1>9, <1>10, <1>11, <1>12, <1>13 DEF Next

\* A request is only taken for done when the peer performed that very request: the number
\* that ReceiveResponse compares is enough, however late or often a response arrives, and
\* nothing but a response ends a request.
THEOREM CompletionEarned == Spec => CompletionIsEarned
<1>1. Init => ResponsesEarned
  BY DEF Init, ResponsesEarned
<1>2. TypeInv /\ ResponsesEarned /\ [Next]_vars => ResponsesEarned'
  BY CompletionStep DEF EarnedStep
<1>3. TypeInv /\ ResponsesEarned /\ [Next]_vars =>
          [\A e \in Endpoint :
              phase'[e] = "established" /\ reconfigRequest[e] # NoRequest
                  /\ reconfigRequest'[e] # reconfigRequest[e] =>
                  reconfigRequest[e].seq \in performed[Peer(e)]]_vars
  BY CompletionStep DEF EarnedStep, Completes
<1> QED
  BY <1>1, <1>2, <1>3, TypeInvariance, PTL DEF Spec, CompletionIsEarned

(***************************************************************************)
(* ClosedStaysClosed                                                       *)
(***************************************************************************)

\* What the flush may register is not closed.
OpenItems(chans, queue) ==
    \A i \in DOMAIN queue :
        chans[queue[i].channel].id = Unassigned => chans[queue[i].channel].readyState # "closed"

\* No OPEN of the client, and no ACK of the server, is for the id 0.
NonZeroItems(e, chans, queue) ==
    \A i \in DOMAIN queue :
        /\ e = Client /\ queue[i].kind = "OPEN" => chans[queue[i].channel].id # 0
        /\ e = Server /\ queue[i].kind = "ACK" => chans[queue[i].channel].id \notin {0, Unassigned}

\* A closed channel is not registered, but for one of the client with the id 0, which
\* dataChannelClose leaves in the register.
ClosedIsGone(e, chans, table) ==
    \A s \in StreamId, c \in DOMAIN chans :
        table[s] = c /\ chans[c].readyState = "closed" => e = Client /\ s = 0

NegotiatedNonZero(chans) ==
    \A c \in DOMAIN chans : chans[c].negotiated => chans[c].id \notin {0, Unassigned}

SealedIn(e, ph, chans, table, queue) ==
    /\ ClosedIsGone(e, chans, table)
    /\ NegotiatedNonZero(chans)
    /\ ph # "closed" => OpenItems(chans, queue)
    /\ e = Server /\ ph # "established" => table[0] = NoChannel
    /\ NonZeroItems(e, chans, queue)

\* The messages that dataChannelFlush sends say the same of the id 0.
NonZeroMessage(m) ==
    \/ m.type = "OPEN" /\ m.to = Server
    \/ m.type = "ACK" /\ m.to = Client
    => m.stream # 0

Sealed ==
    /\ \A e \in Endpoint :
          SealedIn(e, phase[e], channels[e], dataChannels[e], dataChannelQueue[e])
    /\ \A m \in net : NonZeroMessage(m)

\* A closed channel stays closed in a.
StillClosed(chans, a) ==
    \A c \in DOMAIN chans : chans[c].readyState = "closed" => a[c].readyState = "closed"

SealedStep ==
    /\ Sealed'
    /\ \A e \in Endpoint : StillClosed(channels[e], channels'[e])

LEMMA SealOf ==
    ASSUME TypeInv, Sealed, NEW e \in Endpoint
    PROVE  /\ Sound(channels[e], dataChannels[e], dataChannelQueue[e])
           /\ SealedIn(e, phase[e], channels[e], dataChannels[e], dataChannelQueue[e])
BY DEF TypeInv, Sealed

\* A step of one endpoint.
LEMMA OneSealed ==
    ASSUME TypeInv, Sealed, NEW e \in Endpoint, NEW a, NEW b, NEW q,
           channels' = [channels EXCEPT ![e] = a],
           dataChannels' = [dataChannels EXCEPT ![e] = b],
           dataChannelQueue' = [dataChannelQueue EXCEPT ![e] = q],
           \A d \in Endpoint : d # e => phase'[d] = phase[d],
           \A m \in net' : m \in net \/ NonZeroMessage(m),
           SealedIn(e, phase'[e], a, b, q), StillClosed(channels[e], a)
    PROVE  SealedStep
<1>1. /\ channels'[e] = a /\ dataChannels'[e] = b /\ dataChannelQueue'[e] = q
      /\ \A d \in Endpoint : d # e => /\ channels'[d] = channels[d]
                                      /\ dataChannels'[d] = dataChannels[d]
                                      /\ dataChannelQueue'[d] = dataChannelQueue[d]
  BY FlushOthers
<1>2. \A d \in Endpoint : SealedIn(d, phase'[d], channels'[d], dataChannels'[d], dataChannelQueue'[d])
  BY <1>1 DEF Sealed
<1>3. \A m \in net' : NonZeroMessage(m)
  BY DEF Sealed
<1>4. \A d \in Endpoint : StillClosed(channels[d], channels'[d])
  BY <1>1 DEF StillClosed
<1> QED
  BY <1>2, <1>3, <1>4 DEF Sealed, SealedStep, NonZeroMessage

LEMMA TurnedSealed ==
    ASSUME NEW e \in Endpoint, NEW chans, NEW table, NEW queue, Sound(chans, table, queue),
           NEW acc, Turned(e, chans, table, queue, acc),
           ClosedIsGone(e, chans, table), NegotiatedNonZero(chans),
           OpenItems(chans, queue), NonZeroItems(e, chans, queue)
    PROVE  /\ ClosedIsGone(e, acc.channels, acc.table)
           /\ NegotiatedNonZero(acc.channels)
           /\ StillClosed(chans, acc.channels)
           /\ \A m \in acc.out : NonZeroMessage(m)
<1>1. DOMAIN acc.channels = DOMAIN chans /\ Sound(acc.channels, acc.table, queue)
  BY TurnedIs
<1>2. \A c \in DOMAIN chans :
          /\ acc.channels[c].readyState = chans[c].readyState
          /\ acc.channels[c].negotiated = chans[c].negotiated
          /\ \/ acc.channels[c].id = chans[c].id
             \/ /\ chans[c].id = Unassigned
                /\ acc.channels[c].id \in StreamId
                /\ \E i \in DOMAIN queue : queue[i].channel = c
                /\ e = Client => acc.channels[c].id # 0
  BY DEF Turned
<1>3. ASSUME NEW s \in StreamId, NEW c \in DOMAIN chans,
             acc.table[s] = c, acc.channels[c].readyState = "closed"
      PROVE  e = Client /\ s = 0
  <2>1. chans[c].readyState = "closed"
    BY <1>2, <1>3
  <2>2. CASE table[s] = c
    BY <2>1, <2>2 DEF ClosedIsGone
  <2>3. CASE table[s] # c
    <3>1. chans[c].id = Unassigned
      BY <1>3, <2>3 DEF Turned
    <3>2. acc.channels[c].id = s
      BY <1>1, <1>3, PlaceIs
    <3>3. s # Unassigned
      BY <1>1, PlaceIs
    <3>4. PICK i \in DOMAIN queue : queue[i].channel = c
      BY <1>2, <3>1, <3>2, <3>3
    <3> QED
      BY <2>1, <3>1, <3>4 DEF OpenItems
  <2> QED
    BY <2>2, <2>3
<1>4. NegotiatedNonZero(acc.channels)
  BY <1>1, <1>2 DEF NegotiatedNonZero
<1>5. ASSUME NEW m \in acc.out
      PROVE  NonZeroMessage(m)
  <2>1. PICK i \in DOMAIN queue :
            m = [type |-> queue[i].kind, to |-> Peer(e),
                 stream |-> acc.channels[queue[i].channel].id]
    BY DEF Turned
  <2>2. queue[i].channel \in DOMAIN chans
    BY DEF Sound
  <2> DEFINE c == queue[i].channel
  <2>3. \/ acc.channels[c].id = chans[c].id
        \/ chans[c].id = Unassigned /\ (e = Client => acc.channels[c].id # 0)
    BY <1>2, <2>2
  <2>4. /\ e = Client /\ queue[i].kind = "OPEN" => chans[c].id # 0
        /\ e = Server /\ queue[i].kind = "ACK" => chans[c].id \notin {0, Unassigned}
    BY DEF NonZeroItems
  <2>5. /\ m.type = queue[i].kind /\ m.to = Peer(e) /\ m.stream = acc.channels[c].id
    BY <2>1
  <2>6. /\ Peer(e) = Server => e = Client
        /\ Peer(e) = Client => e = Server
    BY BoundsAssumption DEF Peer, Endpoint
  <2> HIDE DEF c
  <2> QED
    BY <2>3, <2>4, <2>5, <2>6 DEF NonZeroMessage
<1> QED
  BY <1>1, <1>2, <1>3, <1>4, <1>5 DEF ClosedIsGone, StillClosed

LEMMA FlushSealed ==
    ASSUME TypeInv, Sealed, NEW e \in Endpoint,
           NEW chans, NEW table, NEW queue, Sound(chans, table, queue),
           NEW sent, \A m \in sent : NonZeroMessage(m),
           Flush(e, chans, table, queue, sent),
           \A d \in Endpoint : d # e => phase'[d] = phase[d],
           SealedIn(e, phase'[e], chans, table, queue), StillClosed(channels[e], chans),
           DOMAIN channels[e] \subseteq DOMAIN chans
    PROVE  SealedStep
<1>1. PICK acc :
          /\ Turned(e, chans, table, queue, acc)
          /\ channels' = [channels EXCEPT ![e] = acc.channels]
          /\ dataChannels' = [dataChannels EXCEPT ![e] = acc.table]
          /\ dataChannelQueue' = [dataChannelQueue EXCEPT ![e] =
                 IF phase'[e] = "established" THEN <<>> ELSE queue]
          /\ net' = net \cup sent \cup acc.out
          /\ phase'[e] # "established" =>
                 acc.channels = chans /\ acc.table = table /\ acc.out = {}
  BY FlushIs DEF TypeInv
<1>2. CASE phase'[e] = "established"
  <2>1. /\ ClosedIsGone(e, chans, table) /\ NegotiatedNonZero(chans)
        /\ OpenItems(chans, queue) /\ NonZeroItems(e, chans, queue)
    BY <1>2 DEF SealedIn
  <2>2. /\ ClosedIsGone(e, acc.channels, acc.table)
        /\ NegotiatedNonZero(acc.channels)
        /\ StillClosed(chans, acc.channels)
        /\ \A m \in acc.out : NonZeroMessage(m)
    BY <1>1, <2>1, TurnedSealed
  <2>3. OpenItems(acc.channels, <<>>) /\ NonZeroItems(e, acc.channels, <<>>)
    BY DEF OpenItems, NonZeroItems
  <2>4. SealedIn(e, phase'[e], acc.channels, acc.table, <<>>)
    BY <1>2, <2>2, <2>3 DEF SealedIn
  <2>5. StillClosed(channels[e], acc.channels)
    BY <2>2 DEF StillClosed
  <2>6. \A m \in net' : m \in net \/ NonZeroMessage(m)
    BY <1>1, <2>2
  <2>7. dataChannelQueue' = [dataChannelQueue EXCEPT ![e] = <<>>]
    BY <1>1, <1>2
  <2> QED
    BY <1>1, <2>4, <2>5, <2>6, <2>7, OneSealed
<1>3. CASE phase'[e] # "established"
  <2>1. /\ channels' = [channels EXCEPT ![e] = chans]
        /\ dataChannels' = [dataChannels EXCEPT ![e] = table]
        /\ dataChannelQueue' = [dataChannelQueue EXCEPT ![e] = queue]
    BY <1>1, <1>3
  <2>2. \A m \in net' : m \in net \/ NonZeroMessage(m)
    BY <1>1, <1>3
  <2> QED
    BY <2>1, <2>2, OneSealed
<1> QED
  BY <1>2, <1>3

\* A channel is added that is not closed.
LEMMA AddedSealed ==
    ASSUME NEW e \in Endpoint, NEW ph, NEW chans, NEW table, NEW queue,
           Sound(chans, table, queue), SealedIn(e, ph, chans, table, queue),
           Len(chans) < MaxChannels, NEW rec \in Channel, rec.readyState # "closed",
           rec.negotiated => rec.id \notin {0, Unassigned}, NEW b,
           \/ b = table
           \/ /\ rec.id \in StreamId /\ (e = Server => rec.id # 0)
              /\ b = [table EXCEPT ![rec.id] = Len(chans) + 1]
    PROVE  /\ SealedIn(e, ph, Append(chans, rec), b, queue)
           /\ StillClosed(chans, Append(chans, rec))
<1> DEFINE a == Append(chans, rec)
           n == Len(chans) + 1
<1>1. /\ DOMAIN a = 1 .. n
      /\ DOMAIN chans = 1 .. Len(chans)
      /\ \A c \in DOMAIN chans : c # n /\ a[c] = chans[c]
      /\ a[n] = rec
  BY AddedSound
<1>2. \A i \in DOMAIN queue : queue[i].channel \in DOMAIN chans
  BY DEF Sound
<1>3. table \in [StreamId -> {NoChannel} \cup DOMAIN chans]
  BY PlaceIs
<1>4. \A c \in DOMAIN a : c \in DOMAIN chans \/ c = n
  BY <1>1, PlaceIs
<1> HIDE DEF a, n
<1>5. ASSUME NEW s \in StreamId, NEW c \in DOMAIN a, b[s] = c, a[c].readyState = "closed"
      PROVE  e = Client /\ s = 0
  <2>1. c # n
    BY <1>1, <1>5
  <2>2. c \in DOMAIN chans /\ a[c] = chans[c]
    BY <1>1, <1>4, <2>1
  <2>3. table[s] = c
    BY <1>3, <1>5, <2>1 DEF n
  <2> QED
    BY <1>5, <2>2, <2>3 DEF SealedIn, ClosedIsGone
<1>6. NegotiatedNonZero(a)
  BY <1>1, <1>4 DEF SealedIn, NegotiatedNonZero
<1>7. ph # "closed" => OpenItems(a, queue)
  BY <1>1, <1>2 DEF SealedIn, OpenItems
<1>8. NonZeroItems(e, a, queue)
  BY <1>1, <1>2 DEF SealedIn, NonZeroItems
<1>9. e = Server /\ ph # "established" => b[0] = NoChannel
  <2>1. 0 \in StreamId
    BY BoundsAssumption DEF StreamId
  <2> QED
    BY <1>3, <2>1 DEF SealedIn
<1>10. StillClosed(chans, a)
  BY <1>1 DEF StillClosed
<1>11. ClosedIsGone(e, a, b)
  BY <1>5 DEF ClosedIsGone
<1>12. SealedIn(e, ph, a, b, queue)
  BY <1>6, <1>7, <1>8, <1>9, <1>11 DEF SealedIn
<1> QED
  BY <1>10, <1>12 DEF a

\* An item is queued for a channel that the flush may register.
LEMMA QueuedSealed ==
    ASSUME NEW e \in Endpoint, NEW ph, NEW chans, NEW table, NEW queue,
           Sound(chans, table, queue), SealedIn(e, ph, chans, table, queue),
           NEW c \in DOMAIN chans, NEW kind \in {"OPEN", "ACK", "DATA"},
           chans[c].id = Unassigned => chans[c].readyState # "closed",
           e = Client /\ kind = "OPEN" => chans[c].id # 0,
           e = Server /\ kind = "ACK" => chans[c].id \notin {0, Unassigned}
    PROVE  SealedIn(e, ph, chans, table, Append(queue, [channel |-> c, kind |-> kind]))
<1> DEFINE item == [channel |-> c, kind |-> kind]
           q == Append(queue, item)
<1>1. \A i \in DOMAIN q : q[i] = item \/ (i \in DOMAIN queue /\ q[i] = queue[i])
  BY QueuedSound
<1>2. item.channel = c /\ item.kind = kind
  OBVIOUS
<1> HIDE DEF item, q
<1>3. ph # "closed" => OpenItems(chans, q)
  BY <1>1, <1>2 DEF SealedIn, OpenItems
<1>4. NonZeroItems(e, chans, q)
  BY <1>1, <1>2 DEF SealedIn, NonZeroItems
<1>5. SealedIn(e, ph, chans, table, q)
  BY <1>3, <1>4 DEF SealedIn
<1> QED
  BY <1>5 DEF q, item

\* The channels of some streams are closed and leave the register.
LEMMA ClosedForSealed ==
    ASSUME NEW e \in Endpoint, NEW ph, NEW chans, NEW table, NEW queue,
           Sound(chans, table, queue), SealedIn(e, ph, chans, table, queue),
           NEW ids \in SUBSET StreamId, NEW a, NEW b, ClosedFor(chans, table, ids, a, b)
    PROVE  /\ SealedIn(e, ph, a, b, queue)
           /\ StillClosed(chans, a)
           /\ ids = StreamId => SealedIn(e, "closed", a, b, queue)
<1>0. DOMAIN a = DOMAIN chans
  <2>1. a \in Seq(Channel) /\ Len(a) = Len(chans)
    BY DEF ClosedFor
  <2> QED
    BY <2>1, PlaceIs
<1>1. /\ \A c \in DOMAIN chans :
            /\ a[c].id = chans[c].id /\ a[c].negotiated = chans[c].negotiated
            /\ (\E s \in ids : table[s] = c) => a[c].readyState = "closed"
            /\ ~(\E s \in ids : table[s] = c) => a[c].readyState = chans[c].readyState
      /\ \A s \in StreamId : b[s] = IF s \in ids THEN NoChannel ELSE table[s]
  BY DEF ClosedFor
<1>2. \A s \in StreamId, c \in DOMAIN chans : table[s] = c => chans[c].id = s
  BY PlaceIs
<1>3. NoChannel \notin DOMAIN chans /\ Unassigned \notin StreamId
  BY PlaceIs
<1>4. ASSUME NEW s \in StreamId, NEW c \in DOMAIN a, b[s] = c, a[c].readyState = "closed"
      PROVE  e = Client /\ s = 0
  <2>1. c \in DOMAIN chans /\ s \notin ids /\ table[s] = c
    BY <1>0, <1>1, <1>3, <1>4
  <2>2. ~(\E r \in ids : table[r] = c)
    BY <1>2, <2>1
  <2>3. chans[c].readyState = "closed"
    BY <1>1, <1>4, <2>1, <2>2
  <2> QED
    BY <2>1, <2>3 DEF SealedIn, ClosedIsGone
<1>5. ClosedIsGone(e, a, b)
  BY <1>4 DEF ClosedIsGone
<1>6. NegotiatedNonZero(a)
  BY <1>0, <1>1 DEF SealedIn, NegotiatedNonZero
<1>7. \A i \in DOMAIN queue : queue[i].channel \in DOMAIN chans
  BY DEF Sound
<1>8. ASSUME ph # "closed"
      PROVE  OpenItems(a, queue)
  <2> SUFFICES ASSUME NEW i \in DOMAIN queue, a[queue[i].channel].id = Unassigned
               PROVE  a[queue[i].channel].readyState # "closed"
    BY DEF OpenItems
  <2> DEFINE c == queue[i].channel
  <2>1. c \in DOMAIN chans /\ chans[c].id = Unassigned
    BY <1>1, <1>7
  <2>2. ~(\E s \in ids : table[s] = c)
    BY <1>2, <1>3, <2>1
  <2>3. a[c].readyState = chans[c].readyState
    BY <1>1, <2>1, <2>2
  <2> QED
    BY <1>8, <2>1, <2>3 DEF SealedIn, OpenItems
<1>9. NonZeroItems(e, a, queue)
  BY <1>1, <1>7 DEF SealedIn, NonZeroItems
<1>10. 0 \in StreamId
  BY BoundsAssumption DEF StreamId
<1>11. SealedIn(e, ph, a, b, queue)
  BY <1>1, <1>5, <1>6, <1>8, <1>9, <1>10 DEF SealedIn
<1>12. ids = StreamId => SealedIn(e, "closed", a, b, queue)
  BY <1>1, <1>5, <1>6, <1>9, <1>10 DEF SealedIn
<1>13. StillClosed(chans, a)
  BY <1>1 DEF StillClosed
<1> QED
  BY <1>11, <1>12, <1>13

\* A channel that is not closed gets another state.
LEMMA StateSetSealed ==
    ASSUME NEW e \in Endpoint, NEW ph, NEW chans, NEW table, NEW queue,
           Sound(chans, table, queue), SealedIn(e, ph, chans, table, queue),
           NEW c \in DOMAIN chans, chans[c].readyState # "closed",
           NEW st, st # "closed", NEW a, StateSetTo(chans, c, st, a)
    PROVE  SealedIn(e, ph, a, table, queue) /\ StillClosed(chans, a)
<1>1. /\ DOMAIN a = DOMAIN chans
      /\ \A d \in DOMAIN a : /\ a[d].id = chans[d].id
                             /\ a[d].negotiated = chans[d].negotiated
                             /\ a[d].readyState = "closed" <=> chans[d].readyState = "closed"
  BY DEF StateSetTo
<1>2. \A i \in DOMAIN queue : queue[i].channel \in DOMAIN chans
  BY DEF Sound
<1>3. ClosedIsGone(e, a, table)
  BY <1>1 DEF SealedIn, ClosedIsGone
<1>4. NegotiatedNonZero(a)
  BY <1>1 DEF SealedIn, NegotiatedNonZero
<1>5. ph # "closed" => OpenItems(a, queue)
  BY <1>1, <1>2 DEF SealedIn, OpenItems
<1>6. NonZeroItems(e, a, queue)
  BY <1>1, <1>2 DEF SealedIn, NonZeroItems
<1>7. StillClosed(chans, a)
  BY <1>1 DEF StillClosed
<1> QED
  BY <1>3, <1>4, <1>5, <1>6, <1>7 DEF SealedIn

\* dataChannelClose before the association is established.
LEMMA ForgottenSealed ==
    ASSUME NEW e \in Endpoint, NEW ph, ph # "established", NEW chans, NEW table, NEW queue,
           Sound(chans, table, queue), SealedIn(e, ph, chans, table, queue),
           NEW c \in DOMAIN chans, NEW a, NEW b, NEW q, Sound(a, b, q),
           Forgotten(chans, table, queue, c, a, b, q)
    PROVE  SealedIn(e, ph, a, b, q) /\ StillClosed(chans, a)
<1>1. /\ DOMAIN a = DOMAIN chans
      /\ \A d \in DOMAIN a : /\ a[d].id = chans[d].id
                             /\ a[d].negotiated = chans[d].negotiated
                             /\ d # c => a[d] = chans[d]
      /\ a[c].readyState = "closed"
      /\ b = IF chans[c].id \in {Unassigned, 0} THEN table
             ELSE [table EXCEPT ![chans[c].id] = NoChannel]
      /\ \A j \in DOMAIN q : \E i \in DOMAIN queue :
            /\ q[j] = queue[i]
            /\ chans[q[j].channel].id # chans[c].id
  BY DEF Forgotten
<1>2. /\ table \in [StreamId -> {NoChannel} \cup DOMAIN chans]
      /\ NoChannel \notin DOMAIN chans /\ Unassigned \notin StreamId
      /\ \A s \in StreamId, d \in DOMAIN chans : table[s] = d => chans[d].id = s
  BY PlaceIs
<1>3. \A s \in StreamId : b[s] = table[s] \/ b[s] = NoChannel
  BY <1>1, <1>2
<1>4. ASSUME NEW s \in StreamId, NEW d \in DOMAIN a, b[s] = d, a[d].readyState = "closed"
      PROVE  e = Client /\ s = 0
  <2>1. table[s] = d /\ d \in DOMAIN chans
    BY <1>1, <1>2, <1>3, <1>4
  <2>2. CASE d # c
    BY <1>1, <1>4, <2>1, <2>2 DEF SealedIn, ClosedIsGone
  <2>3. CASE d = c
    <3>1. chans[c].id = s
      BY <1>2, <2>1, <2>3
    <3>2. s = 0
      BY <1>1, <1>2, <1>4, <3>1
    <3>3. e # Server
      BY <1>2, <2>1, <3>2 DEF SealedIn
    <3> QED
      BY <3>2, <3>3 DEF Endpoint
  <2> QED
    BY <2>2, <2>3
<1>5. ClosedIsGone(e, a, b)
  BY <1>4 DEF ClosedIsGone
<1>6. NegotiatedNonZero(a)
  BY <1>1 DEF SealedIn, NegotiatedNonZero
<1>7. \A j \in DOMAIN q : q[j].channel \in DOMAIN a
  BY DEF Sound
<1>8. ASSUME ph # "closed"
      PROVE  OpenItems(a, q)
  <2> SUFFICES ASSUME NEW j \in DOMAIN q, a[q[j].channel].id = Unassigned
               PROVE  a[q[j].channel].readyState # "closed"
    BY DEF OpenItems
  <2>1. PICK i \in DOMAIN queue : q[j] = queue[i] /\ chans[q[j].channel].id # chans[c].id
    BY <1>1
  <2>2. a[q[j].channel] = chans[q[j].channel]
    BY <1>1, <1>7, <2>1
  <2> QED
    BY <1>8, <2>1, <2>2 DEF SealedIn, OpenItems
<1>9. NonZeroItems(e, a, q)
  <2> SUFFICES ASSUME NEW j \in DOMAIN q
               PROVE  /\ e = Client /\ q[j].kind = "OPEN" => a[q[j].channel].id # 0
                      /\ e = Server /\ q[j].kind = "ACK" =>
                            a[q[j].channel].id \notin {0, Unassigned}
    BY DEF NonZeroItems
  <2>1. PICK i \in DOMAIN queue : q[j] = queue[i]
    BY <1>1
  <2>2. a[q[j].channel].id = chans[q[j].channel].id
    BY <1>1, <1>7
  <2> QED
    BY <2>1, <2>2 DEF SealedIn, NonZeroItems
<1>10. e = Server => b[0] = NoChannel
  <2>1. 0 \in StreamId
    BY BoundsAssumption DEF StreamId
  <2> QED
    BY <1>3, <2>1 DEF SealedIn
<1>11. StillClosed(chans, a)
  BY <1>1 DEF StillClosed
<1> QED
  BY <1>5, <1>6, <1>8, <1>9, <1>10, <1>11 DEF SealedIn

\* A step that leaves the channels alone.
LEMMA NothingSealed ==
    ASSUME Sealed, UNCHANGED <<phase, channels, dataChannels, dataChannelQueue>>,
           \A m \in net' : m \in net \/ NonZeroMessage(m)
    PROVE  SealedStep
BY DEF Sealed, SealedStep, SealedIn, ClosedIsGone, NegotiatedNonZero, OpenItems,
       NonZeroItems, NonZeroMessage, StillClosed

LEMMA ConnectedSealed ==
    ASSUME TypeInv, Sealed, NEW e \in Endpoint, phase[e] # "closed",
           phase' = [phase EXCEPT ![e] = "established"],
           NEW sent, \A m \in sent : NonZeroMessage(m), Connected(e, sent)
    PROVE  SealedStep
<1>1. PICK a : /\ OpenedFor(channels[e], dataChannels[e], a)
               /\ Sound(a, dataChannels[e], dataChannelQueue[e])
               /\ Flush(e, a, dataChannels[e], dataChannelQueue[e], sent)
  BY ConnectedIs
<1>2. phase'[e] = "established" /\ \A d \in Endpoint : d # e => phase'[d] = phase[d]
  BY DEF TypeInv, TypeOK
<1> DEFINE chans == channels[e]
           table == dataChannels[e]
           queue == dataChannelQueue[e]
<1>3. Sound(chans, table, queue) /\ SealedIn(e, phase[e], chans, table, queue)
  BY SealOf
<1>4. /\ OpenedFor(chans, table, a) /\ Sound(a, table, queue) /\ Flush(e, a, table, queue, sent)
  BY <1>1
<1> HIDE DEF chans, table, queue
<1>5. DOMAIN a = DOMAIN chans
  <2>1. a \in Seq(Channel) /\ Len(a) = Len(chans)
    BY <1>4 DEF OpenedFor
  <2> QED
    BY <1>3, <2>1, PlaceIs
<1>6. \A c \in DOMAIN chans :
          /\ a[c].id = chans[c].id /\ a[c].negotiated = chans[c].negotiated
          /\ \/ a[c].readyState = chans[c].readyState
             \/ /\ a[c].readyState = "open"
                /\ chans[c].negotiated
                /\ \E s \in StreamId : table[s] = c
  BY <1>4 DEF OpenedFor
<1>7. ASSUME NEW c \in DOMAIN chans, chans[c].readyState = "closed"
      PROVE  a[c].readyState = "closed"
  <2> SUFFICES ASSUME chans[c].negotiated, NEW s \in StreamId, table[s] = c
               PROVE  FALSE
    BY <1>6, <1>7
  <2>1. s = 0
    BY <1>3, <1>7 DEF SealedIn, ClosedIsGone
  <2>2. chans[c].id = 0
    BY <1>3, <2>1, PlaceIs
  <2> QED
    BY <1>3, <2>2 DEF SealedIn, NegotiatedNonZero
<1>8. \A i \in DOMAIN queue : queue[i].channel \in DOMAIN chans
  BY <1>3 DEF Sound
<1>9. \A c \in DOMAIN chans : a[c].readyState = "closed" => chans[c].readyState = "closed"
  BY <1>6
<1>10. ClosedIsGone(e, a, table)
  BY <1>3, <1>5, <1>9 DEF SealedIn, ClosedIsGone
<1>11. NegotiatedNonZero(a)
  BY <1>3, <1>5, <1>6 DEF SealedIn, NegotiatedNonZero
<1>12. OpenItems(a, queue)
  BY <1>3, <1>6, <1>8, <1>9 DEF SealedIn, OpenItems
<1>13. NonZeroItems(e, a, queue)
  BY <1>3, <1>6, <1>8 DEF SealedIn, NonZeroItems
<1>14. SealedIn(e, phase'[e], a, table, queue)
  BY <1>2, <1>10, <1>11, <1>12, <1>13 DEF SealedIn
<1>15. StillClosed(channels[e], a) /\ DOMAIN channels[e] \subseteq DOMAIN a
  BY <1>5, <1>7 DEF StillClosed, chans
<1> QED
  BY <1>2, <1>4, <1>14, <1>15, FlushSealed

LEMMA CreateSealed ==
    ASSUME TypeInv, Sealed, 0 \notin OpenIds, NEW e \in Endpoint, CreateDataChannel(e)
    PROVE  SealedStep
<1>1. PICK id \in OpenIds \cup {Unassigned} :
          LET c == Len(channels[e]) + 1
              rec == [id |-> id, readyState |-> "connecting", negotiated |-> FALSE]
              registers == id \notin {Unassigned, 0}
              a == Append(channels[e], rec)
              b == IF registers THEN [dataChannels[e] EXCEPT ![id] = c]
                   ELSE dataChannels[e]
              q == Append(dataChannelQueue[e], [channel |-> c, kind |-> "OPEN"])
          IN  /\ Len(channels[e]) < MaxChannels
              /\ rec \in Channel
              /\ registers => id \in StreamId /\ dataChannels[e][id] = NoChannel
              /\ Sound(a, b, dataChannelQueue[e])
              /\ Sound(a, b, q)
              /\ Flush(e, a, b, q, {})
  BY CreateDataChannelIs, Zenon
<1> DEFINE c == Len(channels[e]) + 1
           rec == [id |-> id, readyState |-> "connecting", negotiated |-> FALSE]
           registers == id \notin {Unassigned, 0}
           a == Append(channels[e], rec)
           b == IF registers THEN [dataChannels[e] EXCEPT ![id] = c] ELSE dataChannels[e]
           q == Append(dataChannelQueue[e], [channel |-> c, kind |-> "OPEN"])
<1>2. /\ Len(channels[e]) < MaxChannels
      /\ rec \in Channel /\ rec.id = id /\ rec.readyState = "connecting" /\ ~rec.negotiated
      /\ registers => id \in StreamId
      /\ Sound(a, b, dataChannelQueue[e])
      /\ Sound(a, b, q)
      /\ Flush(e, a, b, q, {})
  BY <1>1
<1>3. id # 0
  BY BoundsAssumption DEF Unassigned
<1>4. \/ b = dataChannels[e]
      \/ /\ rec.id \in StreamId /\ (e = Server => rec.id # 0)
         /\ b = [dataChannels[e] EXCEPT ![rec.id] = c]
  BY <1>2, <1>3
<1>5. UNCHANGED phase
  BY DEF CreateDataChannel
<1>6. /\ Sound(channels[e], dataChannels[e], dataChannelQueue[e])
      /\ SealedIn(e, phase[e], channels[e], dataChannels[e], dataChannelQueue[e])
  BY SealOf
<1> HIDE DEF rec, b, registers
<1>7. /\ SealedIn(e, phase[e], a, b, dataChannelQueue[e])
      /\ StillClosed(channels[e], a)
  BY <1>2, <1>4, <1>6, AddedSealed
<1>8. /\ c \in DOMAIN a /\ a[c] = rec
      /\ DOMAIN channels[e] \subseteq DOMAIN a
  <2>1. channels[e] \in Seq(Channel)
    BY <1>6 DEF Sound
  <2> QED
    BY <1>2, <2>1
<1> HIDE DEF a, c
<1>9. SealedIn(e, phase[e], a, b, q)
  BY <1>2, <1>3, <1>7, <1>8, QueuedSealed
<1> HIDE DEF q
<1> QED
  BY <1>2, <1>5, <1>7, <1>8, <1>9, FlushSealed

LEMMA CreateNegotiatedSealed ==
    ASSUME TypeInv, Sealed, 0 \notin NegotiatedIds, NEW e \in Endpoint, CreateNegotiated(e)
    PROVE  SealedStep
<1>1. PICK id \in NegotiatedIds, st \in {"connecting", "open"} :
          LET rec == [id |-> id, readyState |-> st, negotiated |-> TRUE]
              a == Append(channels[e], rec)
              b == [dataChannels[e] EXCEPT ![id] = Len(channels[e]) + 1]
          IN  /\ Len(channels[e]) < MaxChannels
              /\ rec \in Channel /\ id \in StreamId
              /\ dataChannels[e][id] = NoChannel
              /\ channels' = [channels EXCEPT ![e] = a]
              /\ dataChannels' = [dataChannels EXCEPT ![e] = b]
              /\ Sound(a, b, dataChannelQueue[e])
  BY CreateNegotiatedIs, Zenon
<1> DEFINE rec == [id |-> id, readyState |-> st, negotiated |-> TRUE]
           a == Append(channels[e], rec)
           b == [dataChannels[e] EXCEPT ![id] = Len(channels[e]) + 1]
<1>2. /\ Len(channels[e]) < MaxChannels
      /\ rec \in Channel /\ rec.id = id /\ rec.readyState = st
      /\ channels' = [channels EXCEPT ![e] = a]
      /\ dataChannels' = [dataChannels EXCEPT ![e] = b]
      /\ rec.id \in StreamId
      /\ b = [dataChannels[e] EXCEPT ![rec.id] = Len(channels[e]) + 1]
  BY <1>1
<1>3. rec.id \notin {0, Unassigned} /\ rec.readyState # "closed"
  BY <1>2, PlaceIs, SealOf
<1>4. /\ Sound(channels[e], dataChannels[e], dataChannelQueue[e])
      /\ SealedIn(e, phase[e], channels[e], dataChannels[e], dataChannelQueue[e])
  BY SealOf
<1>5. UNCHANGED <<phase, dataChannelQueue, net>>
  BY DEF CreateNegotiated
<1> HIDE DEF rec, b
<1>6. /\ SealedIn(e, phase[e], a, b, dataChannelQueue[e])
      /\ StillClosed(channels[e], a)
  BY <1>2, <1>3, <1>4, AddedSealed
<1>7. dataChannelQueue' = [dataChannelQueue EXCEPT ![e] = dataChannelQueue[e]]
  BY <1>5, Kept DEF TypeInv
<1> HIDE DEF a
<1> QED
  BY <1>2, <1>5, <1>6, <1>7, OneSealed

LEMMA SendDataSealed ==
    ASSUME TypeInv, Sealed, ~SendAfterClose, NEW e \in Endpoint, SendData(e)
    PROVE  SealedStep
<1>1. PICK c \in DOMAIN channels[e] :
          /\ channels[e][c].readyState \in {"connecting", "open"}
          /\ Flush(e, channels[e], dataChannels[e],
                   Append(dataChannelQueue[e], [channel |-> c, kind |-> "DATA"]), {})
  BY DEF SendData
<1> DEFINE q == Append(dataChannelQueue[e], [channel |-> c, kind |-> "DATA"])
<1>2. Sound(channels[e], dataChannels[e], q)
  BY SealOf, QueuedSound
<1>3. SealedIn(e, phase[e], channels[e], dataChannels[e], q)
  BY <1>1, SealOf, QueuedSealed
<1>4. UNCHANGED phase
  BY DEF SendData
<1>5. Flush(e, channels[e], dataChannels[e], q, {})
  BY <1>1
<1>6. StillClosed(channels[e], channels[e])
  BY DEF StillClosed
<1> HIDE DEF q
<1> QED
  BY <1>2, <1>3, <1>4, <1>5, <1>6, FlushSealed

LEMMA ReceiveOpenSealed ==
    ASSUME TypeInv, Sealed, NEW e \in Endpoint, ReceiveOpen(e)
    PROVE  SealedStep
<1>1. PICK m \in net : \E a, b, c :
          LET q == Append(dataChannelQueue[e], [channel |-> c, kind |-> "ACK"])
          IN  /\ m.type = "OPEN" /\ m.to = e /\ m.stream \in StreamId
              /\ c \in DOMAIN a /\ a[c].id = m.stream
              /\ b = [dataChannels[e] EXCEPT ![m.stream] = c]
              /\ \/ /\ dataChannels[e][m.stream] = c
                    /\ a = channels[e] /\ b = dataChannels[e]
                 \/ /\ dataChannels[e][m.stream] = NoChannel
                    /\ c = Len(channels[e]) + 1 /\ c <= MaxChannels
                    /\ a = Append(channels[e], [id |-> m.stream, readyState |-> "open",
                                                negotiated |-> FALSE])
              /\ Sound(a, b, dataChannelQueue[e])
              /\ Sound(a, b, q)
              /\ Flush(e, a, b, q, {})
  BY ReceiveOpenIs, Zenon
<1>2. PICK a, b, c :
          LET q == Append(dataChannelQueue[e], [channel |-> c, kind |-> "ACK"])
          IN  /\ m.type = "OPEN" /\ m.to = e /\ m.stream \in StreamId
              /\ c \in DOMAIN a /\ a[c].id = m.stream
              /\ b = [dataChannels[e] EXCEPT ![m.stream] = c]
              /\ \/ /\ dataChannels[e][m.stream] = c
                    /\ a = channels[e] /\ b = dataChannels[e]
                 \/ /\ dataChannels[e][m.stream] = NoChannel
                    /\ c = Len(channels[e]) + 1 /\ c <= MaxChannels
                    /\ a = Append(channels[e], [id |-> m.stream, readyState |-> "open",
                                                negotiated |-> FALSE])
              /\ Sound(a, b, dataChannelQueue[e])
              /\ Sound(a, b, q)
              /\ Flush(e, a, b, q, {})
  BY <1>1, Zenon
<1> DEFINE rec == [id |-> m.stream, readyState |-> "open", negotiated |-> FALSE]
           q == Append(dataChannelQueue[e], [channel |-> c, kind |-> "ACK"])
<1>3. e = Server => m.stream # 0
  BY <1>2 DEF Sealed, NonZeroMessage
<1>4. /\ Sound(channels[e], dataChannels[e], dataChannelQueue[e])
      /\ SealedIn(e, phase[e], channels[e], dataChannels[e], dataChannelQueue[e])
  BY SealOf
<1>5. /\ SealedIn(e, phase[e], a, b, dataChannelQueue[e])
      /\ StillClosed(channels[e], a)
      /\ DOMAIN channels[e] \subseteq DOMAIN a
  <2>1. CASE a = channels[e] /\ b = dataChannels[e]
    BY <1>4, <2>1 DEF StillClosed
  <2>2. CASE /\ dataChannels[e][m.stream] = NoChannel
             /\ c = Len(channels[e]) + 1 /\ c <= MaxChannels
             /\ a = Append(channels[e], rec)
    <3>1. /\ rec \in Channel /\ rec.id = m.stream /\ rec.readyState = "open"
          /\ ~rec.negotiated
      BY <1>2 DEF Channel
    <3>2. Len(channels[e]) < MaxChannels
      <4>1. Len(channels[e]) \in Nat
        BY SealOf, PlaceIs
      <4> QED
        BY <2>2, <4>1, BoundsAssumption
    <3>3. /\ rec.id \in StreamId /\ (e = Server => rec.id # 0)
          /\ b = [dataChannels[e] EXCEPT ![rec.id] = Len(channels[e]) + 1]
      BY <1>2, <1>3, <2>2, <3>1
    <3>4. DOMAIN channels[e] \subseteq DOMAIN Append(channels[e], rec)
      <4>1. channels[e] \in Seq(Channel)
        BY <1>4 DEF Sound
      <4> QED
        BY <4>1
    <3> HIDE DEF rec
    <3>5. /\ SealedIn(e, phase[e], Append(channels[e], rec), b, dataChannelQueue[e])
          /\ StillClosed(channels[e], Append(channels[e], rec))
      BY <1>4, <3>1, <3>2, <3>3, AddedSealed
    <3> QED
      BY <2>2, <3>4, <3>5
  <2> QED
    BY <1>2, <2>1, <2>2
<1>6. /\ Sound(a, b, dataChannelQueue[e]) /\ Sound(a, b, q) /\ Flush(e, a, b, q, {})
      /\ c \in DOMAIN a /\ a[c].id \in StreamId /\ (e = Server => a[c].id # 0)
  BY <1>2, <1>3
<1>7. a[c].id # Unassigned
  BY <1>6, PlaceIs
<1>8. SealedIn(e, phase[e], a, b, q)
  BY <1>5, <1>6, <1>7, QueuedSealed, BoundsAssumption
<1>9. UNCHANGED phase
  BY DEF ReceiveOpen
<1> HIDE DEF q
<1> QED
  BY <1>5, <1>6, <1>8, <1>9, FlushSealed

LEMMA ReceiveAckSealed ==
    ASSUME TypeInv, Sealed, NEW e \in Endpoint, ReceiveAck(e)
    PROVE  SealedStep
<1>1. PICK m \in net :
          LET c == dataChannels[e][m.stream]
          IN  /\ m.type = "ACK" /\ m.to = e /\ m.stream \in StreamId
              /\ c \in DOMAIN channels[e]
              /\ channels[e][c].id = m.stream
              /\ SetsState(e, c, "open")
  BY ReceiveAckIs, Zenon
<1> DEFINE c == dataChannels[e][m.stream]
<1>2. c \in DOMAIN channels[e] /\ SetsState(e, c, "open")
  BY <1>1
<1>3. /\ Sound(channels[e], dataChannels[e], dataChannelQueue[e])
      /\ SealedIn(e, phase[e], channels[e], dataChannels[e], dataChannelQueue[e])
  BY SealOf
<1>4. channels[e][c].readyState # "closed"
  <2>1. e = Client => m.stream # 0
    BY <1>1 DEF Sealed, NonZeroMessage
  <2> QED
    BY <1>1, <1>3, <2>1 DEF SealedIn, ClosedIsGone
<1>5. UNCHANGED <<phase, dataChannels, dataChannelQueue, net>>
  BY DEF ReceiveAck
<1> HIDE DEF c
<1>6. PICK a : /\ channels' = [channels EXCEPT ![e] = a]
               /\ StateSetTo(channels[e], c, "open", a)
  BY <1>2, StateSet
<1>7. SealedIn(e, phase[e], a, dataChannels[e], dataChannelQueue[e]) /\ StillClosed(channels[e], a)
  BY <1>2, <1>3, <1>4, <1>6, StateSetSealed
<1>8. /\ dataChannels' = [dataChannels EXCEPT ![e] = dataChannels[e]]
      /\ dataChannelQueue' = [dataChannelQueue EXCEPT ![e] = dataChannelQueue[e]]
  BY <1>5, Kept DEF TypeInv
<1> QED
  BY <1>5, <1>6, <1>7, <1>8, OneSealed

LEMMA CloseSealed ==
    ASSUME TypeInv, Sealed, NEW e \in Endpoint, Close(e)
    PROVE  SealedStep
<1>1. PICK c \in DOMAIN channels[e] :
          /\ channels[e][c].readyState \in {"connecting", "open"}
          /\ ResetChannel(e, c) \/ ForgetChannel(e, c)
  BY DEF Close
<1>2. UNCHANGED phase
  BY DEF Close
<1>3. /\ Sound(channels[e], dataChannels[e], dataChannelQueue[e])
      /\ SealedIn(e, phase[e], channels[e], dataChannels[e], dataChannelQueue[e])
  BY SealOf
<1>4. CASE ResetChannel(e, c)
  <2>1. ResetEffect(e, c)
    BY <1>4, ResetChannelIs
  <2>2. SetsState(e, c, "closing") /\ UNCHANGED <<dataChannels, dataChannelQueue>>
    BY <2>1 DEF ResetEffect
  <2>3. PICK o \in SUBSET Message : net' = net \cup o /\ \A m \in o : m.type = "RESET"
    BY <2>1 DEF ResetEffect
  <2>4. PICK a : /\ channels' = [channels EXCEPT ![e] = a]
                 /\ StateSetTo(channels[e], c, "closing", a)
    BY <2>2, StateSet
  <2>5. SealedIn(e, phase[e], a, dataChannels[e], dataChannelQueue[e]) /\ StillClosed(channels[e], a)
    BY <1>1, <1>3, <2>4, StateSetSealed
  <2>6. /\ dataChannels' = [dataChannels EXCEPT ![e] = dataChannels[e]]
        /\ dataChannelQueue' = [dataChannelQueue EXCEPT ![e] = dataChannelQueue[e]]
    BY <2>2, Kept DEF TypeInv
  <2>7. \A m \in net' : m \in net \/ NonZeroMessage(m)
    BY <2>3 DEF NonZeroMessage
  <2> QED
    BY <1>2, <2>4, <2>5, <2>6, <2>7, OneSealed
<1>5. CASE ForgetChannel(e, c)
  <2>1. PICK a, b, q : /\ channels' = [channels EXCEPT ![e] = a]
                       /\ dataChannels' = [dataChannels EXCEPT ![e] = b]
                       /\ dataChannelQueue' = [dataChannelQueue EXCEPT ![e] = q]
                       /\ Sound(a, b, q)
                       /\ Forgotten(channels[e], dataChannels[e], dataChannelQueue[e], c, a, b, q)
    BY <1>5, ForgetChannelIs
  <2>2. phase[e] # "established" /\ UNCHANGED net
    BY <1>5 DEF ForgetChannel
  <2>3. SealedIn(e, phase[e], a, b, q) /\ StillClosed(channels[e], a)
    BY <1>3, <2>1, <2>2, ForgottenSealed
  <2> QED
    BY <1>2, <2>1, <2>2, <2>3, OneSealed
<1> QED
  BY <1>1, <1>4, <1>5

LEMMA DropSealed ==
    ASSUME TypeInv, Sealed, NEW e \in Endpoint, Drop(e), UNCHANGED net
    PROVE  SealedStep
<1>1. /\ phase' = [phase EXCEPT ![e] = "closed"]
      /\ UNCHANGED dataChannelQueue
      /\ \/ phase[e] = "closed" /\ UNCHANGED <<channels, dataChannels>>
         \/ \E a, b : /\ ClosedFor(channels[e], dataChannels[e], StreamId, a, b)
                      /\ Sound(a, b, dataChannelQueue[e])
                      /\ channels' = [channels EXCEPT ![e] = a]
                      /\ dataChannels' = [dataChannels EXCEPT ![e] = b]
  BY DropIs
<1>2. phase'[e] = "closed" /\ \A d \in Endpoint : d # e => phase'[d] = phase[d]
  BY <1>1 DEF TypeInv, TypeOK
<1>3. CASE phase[e] = "closed" /\ UNCHANGED <<channels, dataChannels>>
  <2>1. UNCHANGED phase
    BY <1>1, <1>3 DEF TypeInv, TypeOK
  <2> QED
    BY <1>1, <1>3, <2>1, NothingSealed
<1>4. ASSUME NEW a, NEW b, ClosedFor(channels[e], dataChannels[e], StreamId, a, b),
             channels' = [channels EXCEPT ![e] = a],
             dataChannels' = [dataChannels EXCEPT ![e] = b]
      PROVE  SealedStep
  <2>1. /\ Sound(channels[e], dataChannels[e], dataChannelQueue[e])
        /\ SealedIn(e, phase[e], channels[e], dataChannels[e], dataChannelQueue[e])
    BY SealOf
  <2>2. SealedIn(e, "closed", a, b, dataChannelQueue[e]) /\ StillClosed(channels[e], a)
    BY <1>4, <2>1, ClosedForSealed
  <2>3. dataChannelQueue' = [dataChannelQueue EXCEPT ![e] = dataChannelQueue[e]]
    BY <1>1, Kept DEF TypeInv
  <2> QED
    BY <1>2, <1>4, <2>2, <2>3, OneSealed
<1> QED
  BY <1>1, <1>3, <1>4

\* The streams of a request or of a response.
LEMMA StreamsSealed ==
    ASSUME TypeInv, Sealed, NEW e \in Endpoint, NEW streams, ReconfigStreams(e, streams),
           UNCHANGED <<phase, dataChannelQueue>>,
           \A m \in net' : m \in net \/ NonZeroMessage(m)
    PROVE  SealedStep
<1>1. PICK a, b : /\ ClosedFor(channels[e], dataChannels[e], IdsOf(streams), a, b)
                  /\ channels' = [channels EXCEPT ![e] = a]
                  /\ dataChannels' = [dataChannels EXCEPT ![e] = b]
  BY ReconfigStreamsIs
<1>2. /\ Sound(channels[e], dataChannels[e], dataChannelQueue[e])
      /\ SealedIn(e, phase[e], channels[e], dataChannels[e], dataChannelQueue[e])
  BY SealOf
<1>3. IdsOf(streams) \in SUBSET StreamId
  BY DEF IdsOf
<1>4. SealedIn(e, phase[e], a, b, dataChannelQueue[e]) /\ StillClosed(channels[e], a)
  BY <1>1, <1>2, <1>3, ClosedForSealed
<1>5. dataChannelQueue' = [dataChannelQueue EXCEPT ![e] = dataChannelQueue[e]]
  BY Kept DEF TypeInv
<1> QED
  BY <1>1, <1>4, <1>5, OneSealed

\* A reset request or its response sends nothing else.
LEMMA TransmitSends ==
    ASSUME RestOK, NEW e \in Endpoint,
           NEW queue \in Seq(Ids), NEW request \in Request, NEW t \in Timer,
           NEW out, \A m \in out : m.type = "RESPONSE",
           TransmitReconfigRequest(e, queue, request, t, out)
    PROVE  \A m \in net' : m \in net \/ NonZeroMessage(m)
<1>1. TransmitEffect(e, queue, request, t, out)
  BY TransmitIs
<1>2. PICK o \in SUBSET Message : net' = net \cup out \cup o /\ \A m \in o : m.type = "RESET"
  BY <1>1 DEF TransmitEffect
<1> QED
  BY <1>2 DEF NonZeroMessage

LEMMA ReceiveResetSealed ==
    ASSUME TypeInv, Sealed, NEW e \in Endpoint, ReceiveReset(e)
    PROVE  SealedStep
<1>1. RestOK
  BY TypeOKParts DEF TypeInv
<1>2. PICK m \in net, back \in Seq(Ids) :
          LET queue == reconfigQueue[e] \o back
          IN  /\ phase[e] = "established"
              /\ m.type = "RESET" /\ m.to = e /\ m.seq \in Nat
              /\ queue \in Seq(Ids)
              /\ TransmitReconfigRequest(e, queue, reconfigRequest[e], timerReconfig[e],
                     {[type |-> "RESPONSE", to |-> Peer(e), seq |-> m.seq]})
              /\ ReconfigStreams(e, m.streams)
              /\ performed' = [performed EXCEPT ![e] = @ \cup {m.seq}]
              /\ UNCHANGED <<phase, dataChannelQueue, outboundStreamSeq>>
  BY ReceiveResetIs
<1> DEFINE queue == reconfigQueue[e] \o back
           request == reconfigRequest[e]
           t == timerReconfig[e]
           out == {[type |-> "RESPONSE", to |-> Peer(e), seq |-> m.seq]}
<1>3. /\ queue \in Seq(Ids) /\ request \in Request /\ t \in Timer
      /\ TransmitReconfigRequest(e, queue, request, t, out)
      /\ \A n \in out : n.type = "RESPONSE"
  BY <1>1, <1>2 DEF RestOK
<1>4. ReconfigStreams(e, m.streams) /\ UNCHANGED <<phase, dataChannelQueue>>
  BY <1>2
<1> HIDE DEF queue, request, t, out
<1>5. \A n \in net' : n \in net \/ NonZeroMessage(n)
  BY <1>1, <1>3, TransmitSends
<1> QED
  BY <1>4, <1>5, StreamsSealed

LEMMA ReceiveResponseSealed ==
    ASSUME TypeInv, Sealed, NEW e \in Endpoint, ReceiveResponse(e)
    PROVE  SealedStep
<1>1. RestOK
  BY TypeOKParts DEF TypeInv
<1> DEFINE queue == reconfigQueue[e]
           streams == reconfigRequest[e].streams
           t == CancelTimer(timerReconfig[e])
<1>2. /\ ReconfigStreams(e, streams)
      /\ TransmitReconfigRequest(e, queue, NoRequest, t, {})
      /\ UNCHANGED <<phase, dataChannelQueue>>
  BY DEF ReceiveResponse
<1>3. queue \in Seq(Ids) /\ NoRequest \in Request /\ t \in Timer
  <2>1. queue \in Seq(Ids) /\ timerReconfig[e] \in Timer
    BY <1>1 DEF RestOK
  <2>2. <<>> \in Seq(StreamId \cup {Unassigned}) /\ 0 \in Nat
    OBVIOUS
  <2> QED
    BY <2>1, <2>2 DEF NoRequest, Request, CancelTimer, Timer
<1> HIDE DEF queue, streams, t
<1>4. \A n \in net' : n \in net \/ NonZeroMessage(n)
  BY <1>1, <1>2, <1>3, TransmitSends
<1> QED
  BY <1>2, <1>4, StreamsSealed

LEMMA EstablishSealed ==
    ASSUME TypeInv, Sealed, EstablishServer \/ EstablishClient
    PROVE  SealedStep
<1>1. Client \in Endpoint /\ Server \in Endpoint
  BY DEF Endpoint
<1>2. CASE EstablishServer
  <2> DEFINE sent == {[type |-> "COOKIE_ACK", to |-> Client]}
  <2>1. \A m \in sent : NonZeroMessage(m)
    BY DEF NonZeroMessage
  <2>2. /\ phase[Server] # "closed" /\ phase' = [phase EXCEPT ![Server] = "established"]
        /\ Connected(Server, sent)
    BY <1>2 DEF EstablishServer
  <2> HIDE DEF sent
  <2> QED
    BY <1>1, <2>1, <2>2, ConnectedSealed
<1>3. CASE EstablishClient
  BY <1>1, <1>3, ConnectedSealed DEF EstablishClient
<1> QED
  BY <1>2, <1>3

LEMMA SealStep ==
    ASSUME 0 \notin OpenIds, 0 \notin NegotiatedIds, ~SendAfterClose
    PROVE  TypeInv /\ Sealed /\ [Next]_vars => SealedStep
<1> SUFFICES ASSUME TypeInv, Sealed, [Next]_vars
             PROVE  SealedStep
  OBVIOUS
<1>1. CASE EstablishServer \/ EstablishClient
  BY <1>1, EstablishSealed
<1>3. ASSUME NEW e \in Endpoint, CloseAssociation(e)
      PROVE  SealedStep
  BY <1>3, DropSealed DEF CloseAssociation
<1>4. ASSUME NEW e \in Endpoint, CreateDataChannel(e)
      PROVE  SealedStep
  BY <1>4, CreateSealed
<1>5. ASSUME NEW e \in Endpoint, CreateNegotiated(e)
      PROVE  SealedStep
  BY <1>5, CreateNegotiatedSealed
<1>6. ASSUME NEW e \in Endpoint, SendData(e)
      PROVE  SealedStep
  BY <1>6, SendDataSealed
<1>7. ASSUME NEW e \in Endpoint, Close(e)
      PROVE  SealedStep
  BY <1>7, CloseSealed
<1>8. ASSUME NEW e \in Endpoint, ReceiveOpen(e)
      PROVE  SealedStep
  BY <1>8, ReceiveOpenSealed
<1>9. ASSUME NEW e \in Endpoint, ReceiveAck(e)
      PROVE  SealedStep
  BY <1>9, ReceiveAckSealed
<1>10. ASSUME NEW e \in Endpoint, ReceiveReset(e)
       PROVE  SealedStep
  BY <1>10, ReceiveResetSealed
<1>11. ASSUME NEW e \in Endpoint, ReceiveResponse(e)
       PROVE  SealedStep
  BY <1>11, ReceiveResponseSealed
<1>12. ASSUME NEW e \in Endpoint, TimerReconfigExpired(e)
       PROVE  SealedStep
  <2>1. UNCHANGED net
    BY <1>12 DEF TimerReconfigExpired
  <2>2. CASE Drop(e)
    BY <2>1, <2>2, DropSealed
  <2>3. CASE UNCHANGED <<phase, channelVars>>
    BY <2>1, <2>3, NothingSealed DEF channelVars
  <2> QED
    BY <1>12, <2>2, <2>3 DEF TimerReconfigExpired
<1>13. CASE UNCHANGED vars
  BY <1>13, NothingSealed DEF vars, channelVars
<1> QED
  BY <1>1, <1>3, <1>4, <1>5, <1>6, <1>7, <1>8, <1>9, <1>10, <1>11, <1>12, <1>13 DEF Next

LEMMA SealInit == Init => Sealed
<1> SUFFICES ASSUME Init
             PROVE  Sealed
  OBVIOUS
<1>1. net = {}
  BY DEF Init
<1>2. ASSUME NEW e \in Endpoint
      PROVE  SealedIn(e, phase[e], channels[e], dataChannels[e], dataChannelQueue[e])
  <2>1. /\ channels[e] = <<>> /\ dataChannelQueue[e] = <<>>
        /\ dataChannels[e] = [s \in StreamId |-> NoChannel]
    BY <1>2 DEF Init
  <2>2. 0 \in StreamId
    BY BoundsAssumption DEF StreamId
  <2> QED
    BY <2>1, <2>2 DEF SealedIn, ClosedIsGone, NegotiatedNonZero, OpenItems, NonZeroItems
<1> QED
  BY <1>1, <1>2 DEF Sealed

\* A channel that is closed stays closed: the listeners only see registered channels, and
\* the flush only registers channels whose messages dataChannelClose left in the queue.  A
\* user that asks for the id 0 is excluded, and so is one that sends on a closed channel:
\* with either the code opens closed channels again ("if (channel.id)" in dataChannelClose
\* leaves the channel 0 in the register, and dataChannelFlush gives a closed channel an id).
THEOREM ClosedForGood ==
    ASSUME 0 \notin OpenIds, 0 \notin NegotiatedIds, ~SendAfterClose
    PROVE  Spec => ClosedStaysClosed
<1>1. TypeInv /\ Sealed /\ [Next]_vars => Sealed'
  BY SealStep DEF SealedStep
<1>2. TypeInv /\ Sealed /\ [Next]_vars =>
          [\A e \in Endpoint : \A c \in DOMAIN channels[e] :
              channels[e][c].readyState = "closed" =>
                  channels'[e][c].readyState = "closed"]_vars
  BY SealStep DEF SealedStep, StillClosed
<1> QED
  BY <1>1, <1>2, SealInit, TypeInvariance, PTL DEF Spec, ClosedStaysClosed
=============================================================================
