-------------------------- MODULE HandshakeFragments --------------------------
(* How the handshake messages of one flight are cut into fragments, sent in     *)
(* datagrams and put together again: src/dtls/record and src/dtls/socket.ts.    *)
(* Datagrams are lost, repeated and reordered, and the flight is sent again; so *)
(* any datagram of the flight may come at any time.  A fudano sender puts the   *)
(* fragments of a message into one datagram; another stack may send each in one *)
(* of its own.  The messages have different types, which are numbered as the    *)
(* messages are.                                                                *)
EXTENDS Naturals, Sequences, Functions

CONSTANTS
    Sizes,          \* the flight: the length of each message, in units
    MaxFragment,    \* units a fragment may have
    MaxBuffer       \* bound: fragments in the buffer

ASSUME FragmentAssumption ==
    /\ Sizes \in Seq(Nat) /\ Sizes # <<>>
    /\ MaxFragment \in Nat \ {0}
    /\ MaxBuffer \in Nat

VARIABLES
    apart,          \* the sender puts each fragment into a datagram of its own
    buffer,         \* bufferFragmentedHandshakes
    cache,          \* handshakeCache of the flight: message to what was put together
    due,            \* ghost: the datagram that comes next if nothing goes wrong
    disturbed,      \* ghost: datagrams were lost, repeated or reordered
    passed          \* ghost: the flight has come as a whole, in order

vars == <<apart, buffer, cache, due, disturbed, passed>>

Messages == DOMAIN Sizes

-----------------------------------------------------------------------------
(* Sending *)

\* FragmentedHandshake.chunk: a message without content is one fragment.
Pieces(m) == IF Sizes[m] = 0 THEN 1 ELSE (Sizes[m] + MaxFragment - 1) \div MaxFragment

Chunk(m) ==
    [i \in 1 .. Pieces(m) |->
        LET start == (i - 1) * MaxFragment
        IN  [message |-> m, offset |-> start,
             size |-> IF start + MaxFragment <= Sizes[m] THEN MaxFragment
                      ELSE Sizes[m] - start]]

\* Variant: every packet is sent by itself.
SplitAlways(m) == [i \in 1 .. Pieces(m) |-> <<Chunk(m)[i]>>]

\* createPacket, and Buffer.concat of its packets where a flight is built: the datagrams
\* of a message, each with its records.
Split(m) ==
    IF apart THEN [i \in 1 .. Pieces(m) |-> <<Chunk(m)[i]>>] ELSE <<Chunk(m)>>

\* The datagrams of the flight, named by message and place.
Datagrams == UNION {{m} \X DOMAIN Split(m) : m \in Messages}

First == <<1, 1>>

\* createFragments: message after message; after the last the flight is sent again.
After(d) ==
    IF d[2] < Len(Split(d[1])) THEN <<d[1], d[2] + 1>>
    ELSE IF d[1] < Len(Sizes) THEN <<d[1] + 1, 1>>
    ELSE First

\* No datagram is due: the flight has to start again.
Broken == <<0, 0>>

-----------------------------------------------------------------------------
(* Receiving *)

Length(f) == Sizes[f.message]

Units(f) == f.offset .. f.offset + f.size - 1

\* The fragment that came last is the last of its message.
EndsMessage(f) == f.offset + f.size = Length(f)

\* Variant: three fragments are needed.
ThirdLast(fragments) == Len(fragments) > 2 /\ EndsMessage(fragments[Len(fragments)])

\* handleFragmentHandshake looks at the fragment that came last, and at no hole before it.
Ended(fragments) == Len(fragments) > 1 /\ EndsMessage(fragments[Len(fragments)])

\* assemble: the fragments of one message; what none of them brings is zeros.
Assemble(fragments) == UNION {Units(f) : f \in fragments}

\* bufferHandshakeCache keeps the first message of a type.
Cached(c, handshakes) ==
    [m \in Messages |->
        LET parts == {f \in handshakes : f.message = m}
        IN  IF c[m].known \/ parts = {} THEN c[m]
            ELSE [known |-> TRUE, filled |-> Assemble(parts)]]

\* parsePacket: the records of a datagram, in their order.
Packets(d) == Split(d[1])[d[2]]

\* One record of a datagram: udpOnMessage and handleFragmentHandshake.
Record(st, f) ==
    LET whole == f.size = Length(f)
        kept == IF whole THEN st.buffer ELSE Append(st.buffer, f)
        out == (IF Ended(kept) THEN Range(kept) ELSE {}) \cup (IF whole THEN {f} ELSE {})
    IN  [buffer |-> IF Ended(kept) THEN <<>> ELSE kept, cache |-> Cached(st.cache, out)]

\* udpOnMessage: the records of a datagram, one by one.
Records(st, packets) ==
    LET after[i \in 0 .. Len(packets)] ==
            IF i = 0 THEN st ELSE Record(after[i - 1], packets[i])
    IN  after[Len(packets)]

Init ==
    /\ apart \in BOOLEAN
    /\ buffer = <<>>
    /\ cache = [m \in Messages |-> [known |-> FALSE, filled |-> {}]]
    /\ due = First /\ disturbed = FALSE /\ passed = FALSE

\* A datagram of the flight, at its first or a later transmission.
Receive(d) ==
    /\ LET st == Records([buffer |-> buffer, cache |-> cache], Packets(d))
       IN  buffer' = st.buffer /\ cache' = st.cache
    /\ due' = IF d \in {due, First} THEN After(d) ELSE Broken
    /\ disturbed' = (disturbed \/ d # due)
    /\ passed' = (passed \/ (d = due /\ After(d) = First))
    /\ UNCHANGED apart

Next ==
    \E d \in Datagrams : Len(buffer) + Len(Packets(d)) <= MaxBuffer /\ Receive(d)

Spec == Init /\ [][Next]_vars

-----------------------------------------------------------------------------
(* Properties *)

Whole(m) == cache[m].filled = 0 .. Sizes[m] - 1

\* handleFragmentHandshake (socket.ts:159-177) with chunk and assemble (fragment.ts:53-106):
\* each message is handed on whole, and nothing of it before, as long as nothing was lost,
\* repeated or reordered; and whatever the network does between two ends that send the
\* fragments of a message in one datagram (createPacket), where no fragment waits either.
WholeUnlessTornApart ==
    /\ ~ (apart /\ disturbed) => \A m \in Messages : cache[m].known => Whole(m)
    /\ ~ apart => buffer = <<>>

\* Flight.transmit sends the same flight again, fragments included: whatever is left in
\* the buffer by then, one transmission that comes in order hands on all its messages.
OnePassSuffices == passed => \A m \in Messages : cache[m].known
=============================================================================
