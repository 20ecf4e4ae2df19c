---------------------------- MODULE SctpReceive ----------------------------
(***************************************************************************)
(* How an SCTP endpoint keeps track of the data chunks it has received     *)
(* (src/src/sctp/sctp.ts: markReceived, receiveForwardTsnChunk, sendSack   *)
(* and the INIT case of receiveChunk), and what it acknowledges.           *)
(*                                                                         *)
(* The sender is another stack or fudano.  Chunks are lost, repeated and   *)
(* reordered; a fudano sender never repeats a lost chunk and never sends   *)
(* FORWARD-TSN, another stack does both.                                   *)
(***************************************************************************)
EXTENDS Tsn, FiniteSets

CONSTANTS
    InitialTsns,       \* the first TSNs that a sender may have drawn
    MaxSends,          \* bound: how many data chunks are sent
    MaxGap             \* largest gap offset a SACK can carry, 65535 in the code

ASSUME SendsAssumption ==
    /\ Half - 1 <= 2147483647
    /\ InitialTsns \subseteq TSN \ {0}
    /\ MaxSends \in 1 .. Half - 1
    /\ MaxGap \in Nat

VARIABLES
    initialTsn,        \* sender: initialTsn of its INIT
    localTsn,          \* sender: the TSN of the next chunk
    sent,              \* network: the TSNs of the data chunks sent
    forwarded,         \* network: cumulativeTsn of the FORWARD-TSN chunks sent
    lastReceivedTsn,   \* receiver: the cumulative TSN
    sackMisOrdered,    \* receiver: TSNs above the cumulative one
    sackNeeded,        \* receiver: a SACK is due
    sack,              \* the last SACK that left the receiver
    received,          \* ghost: TSNs that arrived since the last INIT
    everReceived       \* ghost: TSNs that arrived, or that the peer gave up

vars == <<initialTsn, localTsn, sent, forwarded, lastReceivedTsn, sackMisOrdered,
          sackNeeded, sack, received, everReceived>>

Gap == [start : 0 .. MaxGap, end : 0 .. MaxGap]

\* SackChunk on the wire.  The duplicates it lists are left out: no sender here reads
\* them, nor the order of the gaps.
Sack == [cumulativeTsn : TSN, gaps : SUBSET Gap]

TypeOK ==
    /\ initialTsn \in InitialTsns
    /\ localTsn \in TSN
    /\ sent \subseteq TSN
    /\ forwarded \subseteq TSN
    /\ lastReceivedTsn \in TSN
    /\ sackMisOrdered \subseteq TSN
    /\ sackNeeded \in BOOLEAN
    /\ sack \in Sack
    /\ received \subseteq TSN
    /\ everReceived \subseteq TSN

-----------------------------------------------------------------------------
(* Sorting: [...set].sort() compares numbers by their decimal strings *)

\* A TSN has up to ten digits.
Powers == {1, 10, 100, 1000, 10000, 100000, 1000000, 10000000, 100000000, 1000000000}

\* The power of ten with as many digits as n.
Magnitude(n) == CHOOSE m \in Powers : n \div m \in 1 .. 9 \/ (n = 0 /\ m = 1)

\* "10" before "9"; a string before any longer one it begins.
StringBefore(a, b) ==
    LET x == a * Magnitude(b)
        y == b * Magnitude(a)
    IN  x < y \/ (x = y /\ Magnitude(a) < Magnitude(b))

\* The TSNs that come before t.
Before == [t \in TSN |-> {x \in TSN : StringBefore(x, t)}]

\* The i-th has i - 1 before it.
Sorted(tsns) ==
    [i \in 1 .. Cardinality(tsns) |->
        CHOOSE t \in tsns : Cardinality(tsns \cap Before[t]) = i - 1]

\* Variant: the loop does not stop at a hole.
AdvanceOverHoles(last, tsns) == JsRem(last + Cardinality(tsns))

\* Variant: only the TSN that has just arrived is looked at.
AdvanceOnce(last, tsns) ==
    IF JsRem(last + 1) \in tsns THEN JsRem(last + 1) ELSE last

\* The first n of the sorted TSNs are the next ones after the cumulative TSN.
Follow(order, last, n) == \A i \in 1 .. n : order[i] = JsRem(last + i)

\* How far the loop over the sorted TSNs gets: it stops at the first one that is not
\* the next.
Steps(last, tsns) ==
    LET order == Sorted(tsns)
    IN  CHOOSE n \in 0 .. Cardinality(tsns) :
            Follow(order, last, n) /\ (n = Cardinality(tsns) \/ ~Follow(order, last, n + 1))

\* The cumulative TSN after the loop.
Advance(last, tsns) == JsRem(last + Steps(last, tsns))

\* Variant: the filter keeps what it should drop.
AtOrBelow(last, tsns) == {x \in tsns : uint32Gte(last, x)}

\* filter(isObsolete): what is above the cumulative TSN.
Above(last, tsns) == {x \in tsns : uint32Gt(x, last)}

-----------------------------------------------------------------------------
(* Sending the SACK: the last thing handleData does for a DATA or FORWARD-TSN *)

Clamp(n, limit) == IF n < 0 THEN 0 ELSE IF n > limit THEN limit ELSE n

\* A TSN that follows the one before it in the sorted order extends the last gap, any
\* other opens a new one.
Opens(order, i) == i = 1 \/ order[i] # tsnPlusOne(order[i - 1])

\* The i-th to the j-th of n are one gap.
IsGap(order, n, i, j) ==
    /\ Opens(order, i)
    /\ \A k \in i + 1 .. j : ~Opens(order, k)
    /\ j = n \/ Opens(order, j + 1)

\* Packing clamps the offset.
Pack(tsn, last) == Clamp(Offset(tsn, last), MaxGap)

\* The gaps sendSack collects.
Gaps(last, tsns) ==
    LET order == Sorted(tsns)
        n == Cardinality(tsns)
    IN  UNION {{[start |-> Pack(order[i], last), end |-> Pack(order[j], last)] :
                    j \in {k \in i .. n : IsGap(order, n, i, k)}} : i \in 1 .. n}

SendSack ==
    /\ sack' = [cumulativeTsn |-> Clamp(lastReceivedTsn', Modulo - 1),
                gaps |-> Gaps(lastReceivedTsn', sackMisOrdered')]
    /\ sackNeeded' = FALSE

-----------------------------------------------------------------------------

Init ==
    /\ initialTsn \in InitialTsns
    /\ localTsn = initialTsn
    /\ sent = {}
    /\ forwarded = {}
    /\ lastReceivedTsn = tsnMinusOne(initialTsn)
    /\ sackMisOrdered = {}
    /\ sack = [cumulativeTsn |-> Clamp(lastReceivedTsn, Modulo - 1), gaps |-> {}]
    /\ sackNeeded = FALSE
    /\ received = {}
    /\ everReceived = {}

\* send(): the next TSN.
SendData ==
    /\ Cardinality(sent) < MaxSends
    /\ sent' = sent \cup {localTsn}
    /\ localTsn' = tsnPlusOne(localTsn)
    /\ UNCHANGED <<initialTsn, forwarded, lastReceivedTsn, sackMisOrdered, sackNeeded,
                   sack, received, everReceived>>

\* A peer of another stack gives up on every chunk up to one that it sent.
ForwardTsn ==
    /\ \E tsn \in sent : forwarded' = forwarded \cup {tsn}
    /\ UNCHANGED <<initialTsn, localTsn, sent, lastReceivedTsn, sackMisOrdered, sackNeeded,
                   sack, received, everReceived>>

\* receiveDataChunk for a TSN that markReceived takes for a duplicate.
IsDuplicate(tsn) == uint32Gte(lastReceivedTsn, tsn) \/ tsn \in sackMisOrdered

\* receiveDataChunk: markReceived, deliver, then sendSack.  Where the data channel
\* layer throws on what is delivered, the SACK stays due.
ReceiveData ==
    /\ \E tsn \in sent :
          /\ IF IsDuplicate(tsn)
             THEN UNCHANGED <<lastReceivedTsn, sackMisOrdered>>
             ELSE /\ lastReceivedTsn' = Advance(lastReceivedTsn, sackMisOrdered \cup {tsn})
                  /\ sackMisOrdered' = Above(lastReceivedTsn', sackMisOrdered \cup {tsn})
          /\ SendSack \/ (sackNeeded' = TRUE /\ UNCHANGED sack)
          /\ received' = received \cup {tsn}
          /\ everReceived' = everReceived \cup {tsn}
    /\ UNCHANGED <<initialTsn, localTsn, sent, forwarded>>

\* The TSNs a FORWARD-TSN up to cumulative covers.
UpTo(cumulative) == {x \in sent : uint32Gte(cumulative, x)}

\* receiveForwardTsnChunk, then sendSack, also when the chunk brings nothing new.
ReceiveForwardTsn ==
    /\ \E cumulative \in forwarded :
          /\ IF uint32Gte(lastReceivedTsn, cumulative)
             THEN UNCHANGED <<lastReceivedTsn, sackMisOrdered>>
             ELSE LET kept == Above(cumulative, sackMisOrdered)
                  IN  /\ lastReceivedTsn' = Advance(cumulative, kept)
                      /\ sackMisOrdered' = Above(lastReceivedTsn', kept)
          /\ SendSack
          /\ received' = received \cup UpTo(cumulative)
          /\ everReceived' = everReceived \cup UpTo(cumulative)
    /\ UNCHANGED <<initialTsn, localTsn, sent, forwarded>>

\* The server receives the INIT once more, at any time: the cumulative TSN starts
\* again, the TSNs above it stay.  The packet also brings a SACK that is due.
ReceiveInit ==
    /\ lastReceivedTsn' = tsnMinusOne(initialTsn)
    /\ received' = {}
    /\ UNCHANGED <<initialTsn, localTsn, sent, forwarded, sackMisOrdered, everReceived>>
    /\ IF sackNeeded THEN SendSack ELSE UNCHANGED <<sackNeeded, sack>>

\* Any other packet brings the SACK that is due.
ReceiveOther ==
    /\ sackNeeded
    /\ UNCHANGED <<initialTsn, localTsn, sent, forwarded, lastReceivedTsn, sackMisOrdered,
                   received, everReceived>>
    /\ SendSack

Next ==
    \/ SendData
    \/ ForwardTsn
    \/ ReceiveData
    \/ ReceiveForwardTsn
    \/ ReceiveInit
    \/ ReceiveOther

Spec == Init /\ [][Next]_vars
-----------------------------------------------------------------------------
(* Properties *)

\* The i-th TSN after a.
Nth(a, i) == JsRem(a + i)

\* The TSNs of a sender that starts with a, from the k-th on.
From(a, k) == {Nth(a, i) : i \in k .. MaxSends - 1}

Sendable == From(initialTsn, 0)

\* What a SACK tells the sender has arrived: the TSNs up to the cumulative one and
\* those in its gaps.
Acknowledged(s) ==
    {t \in Sendable : uint32Gte(s.cumulativeTsn, t)} \cup
    UNION {{JsRem(s.cumulativeTsn + i) : i \in g.start .. g.end} : g \in s.gaps}

\* The cumulative TSN never passes a chunk that neither arrived nor was given up,
\* through wrap-around, repeated INITs and any order of arrival (markReceived).
CumulativeIsEarned ==
    \A t \in Sendable : uint32Gte(lastReceivedTsn, t) => t \in everReceived

\* No arrival is forgotten: since the last INIT every TSN that arrived is at or below
\* the cumulative TSN or is kept above it (the filters of markReceived).
ArrivalsAreKept ==
    \A t \in received : uint32Gte(lastReceivedTsn, t) \/ t \in sackMisOrdered

\* A SACK acknowledges nothing that did not arrive: a sender that believes it loses
\* nothing (sendSack, with the order sort() really gives and the packed offsets).
SackIsTruthful ==
    Acknowledged(sack) \cap Sendable \subseteq everReceived

\* Where the decimal order of the TSNs kept is their order as serial numbers, the
\* cumulative TSN does not lag: the next TSN is never among those kept above it.
OrderAgrees ==
    \A a, b \in sackMisOrdered : uint32Gt(b, a) => StringBefore(a, b)

NoLagInDecimalOrder ==
    OrderAgrees => tsnPlusOne(lastReceivedTsn) \notin sackMisOrdered

-----------------------------------------------------------------------------
(* The inductive invariant behind these *)

\* The TSNs sent are the first ones of the window.
SentInOrder ==
    LET n == Cardinality(sent)
    IN  /\ n \in 0 .. MaxSends
        /\ localTsn = Nth(initialTsn, n)
        /\ sent = {Nth(initialTsn, i) : i \in 0 .. n - 1}

\* Nothing is known that was not sent.
KnownWereSent ==
    /\ forwarded \subseteq sent
    /\ received \subseteq everReceived
    /\ sackMisOrdered \subseteq everReceived
    /\ everReceived \subseteq sent

\* The cumulative TSN is at a position of the window: what is kept is above it, what is
\* at or below it has arrived.
CumulativeInWindow ==
    \E k \in 0 .. MaxSends :
        /\ lastReceivedTsn = Nth(initialTsn, k - 1)
        /\ sackMisOrdered \subseteq From(initialTsn, k)
        /\ \A i \in 0 .. k - 1 : Nth(initialTsn, i) \in everReceived

IInv ==
    /\ TypeOK
    /\ SentInOrder
    /\ KnownWereSent
    /\ CumulativeInWindow
    /\ ArrivalsAreKept
    /\ NoLagInDecimalOrder
=============================================================================
