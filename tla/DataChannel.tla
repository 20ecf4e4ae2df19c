---------------------------- MODULE DataChannel ----------------------------
(***************************************************************************)
(* Data channels over one SCTP association between two fudano endpoints    *)
(* (src/src/transport/sctp.ts, src/src/dataChannel.ts, and the stream      *)
(* reset of src/src/sctp/sctp.ts): the ids that channels get, the OPEN/ACK *)
(* handshake, and the close by a reset request and its response.           *)
(*                                                                         *)
(* The network is the set of messages sent: each is received never, once   *)
(* or often and in any order, as DTLS over UDP may do it, and a DATA chunk *)
(* is delivered also when markReceived calls it a duplicate.  Data of the  *)
(* user is only modelled by what sending it changes.  The association is   *)
(* reduced to connecting, established and closed, and an established end   *)
(* has been started, so that dataChannelId is set.  That a server can be   *)
(* established before start(), and again after it was closed, is left to   *)
(* SctpAssociation.                                                        *)
(***************************************************************************)
EXTENDS Naturals, Sequences, Functions

CONSTANTS
    Client, Server,
    OpenIds,           \* ids the user gives to channels that are not negotiated
    NegotiatedIds,     \* ids the user gives to negotiated channels
    SendAfterClose,    \* whether the user sends on channels it has closed
    MaxStreams,        \* RECONFIG_MAX_STREAMS
    MaxFailures,       \* SCTP_MAX_ASSOCIATION_RETRANS
    MaxId,             \* bound: stream ids that are used
    MaxChannels,       \* bound: RTCDataChannel objects of one endpoint
    MaxQueue,          \* bound: length of dataChannelQueue and of reconfigQueue
    MaxRequests        \* bound: reset requests of one endpoint

StreamId == 0 .. MaxId

ASSUME BoundsAssumption ==
    /\ Client # Server
    /\ MaxStreams \in Nat \ {0}
    /\ MaxFailures \in Nat
    /\ MaxId \in Nat /\ MaxChannels \in Nat /\ MaxQueue \in Nat /\ MaxRequests \in Nat
    /\ OpenIds \subseteq StreamId
    /\ NegotiatedIds \subseteq StreamId
    /\ SendAfterClose \in BOOLEAN

\* Every endpoint has an id of its parity for each of its channels.
ASSUME IdsSuffice == 2 * MaxChannels <= MaxId + 1

Endpoint == {Client, Server}

Peer(e) == IF e = Client THEN Server ELSE Client

Unassigned == MaxId + 1        \* an id that is undefined
NoChannel == 0                 \* no entry in dataChannels
NoRequest == [seq |-> 0, streams |-> <<>>]

Channel == [id : StreamId \cup {Unassigned},
            readyState : {"connecting", "open", "closing", "closed"},
            negotiated : BOOLEAN]

QueueItem == [channel : 1 .. MaxChannels, kind : {"OPEN", "ACK", "DATA"}]

Request == [seq : Nat, streams : Seq(StreamId \cup {Unassigned})]

Message ==
    [type : {"OPEN", "ACK"}, to : Endpoint, stream : StreamId]
        \cup [type : {"RESET"}, to : Endpoint, seq : Nat, streams : Seq(StreamId)]
        \cup [type : {"RESPONSE"}, to : Endpoint, seq : Nat]
        \cup [type : {"COOKIE_ACK"}, to : Endpoint]

VARIABLES
    phase,             \* phase[e]: the association state
    channels,          \* channels[e]: the RTCDataChannel objects, in order of creation
    dataChannels,      \* dataChannels[e][id]: the registered channel
    dataChannelQueue,  \* dataChannelQueue[e]: what waits for the association
    outboundStreamSeq, \* outboundStreamSeq[e]: the ids with a sequence number
    reconfigQueue,     \* reconfigQueue[e]: the ids that wait for a reset
    reconfigRequest,   \* reconfigRequest[e]: the request without a response
    reconfigRequestSeq,
    timerReconfig,     \* timerReconfig[e]: handle set or not, and failures
    net,               \* every message sent so far
    performed          \* ghost: performed[e]: the requests of its peer that e answered

channelVars == <<channels, dataChannels, dataChannelQueue, outboundStreamSeq>>
resetVars == <<reconfigQueue, reconfigRequest, reconfigRequestSeq, timerReconfig>>
vars == <<phase, channelVars, resetVars, net, performed>>

TypeOK ==
    /\ phase \in [Endpoint -> {"connecting", "established", "closed"}]
    /\ channels \in [Endpoint -> Seq(Channel)]
    /\ dataChannels \in [Endpoint -> [StreamId -> Nat]]
    /\ dataChannelQueue \in [Endpoint -> Seq(QueueItem)]
    /\ outboundStreamSeq \in [Endpoint -> SUBSET StreamId]
    /\ reconfigQueue \in [Endpoint -> Seq(StreamId \cup {Unassigned})]
    /\ reconfigRequest \in [Endpoint -> Request]
    /\ reconfigRequestSeq \in [Endpoint -> Nat]
    /\ timerReconfig \in [Endpoint -> [armed : BOOLEAN, failures : Nat]]
    /\ performed \in [Endpoint -> SUBSET Nat]
    /\ net \subseteq Message
    /\ \A e \in Endpoint :
          /\ Len(channels[e]) <= MaxChannels
          /\ \A s \in StreamId : dataChannels[e][s] \in {NoChannel} \cup DOMAIN channels[e]

Init ==
    /\ phase = [e \in Endpoint |-> "connecting"]
    /\ channels = [e \in Endpoint |-> <<>>]
    /\ dataChannels = [e \in Endpoint |-> [s \in StreamId |-> NoChannel]]
    /\ dataChannelQueue = [e \in Endpoint |-> <<>>]
    /\ outboundStreamSeq = [e \in Endpoint |-> {}]
    /\ reconfigQueue = [e \in Endpoint |-> <<>>]
    /\ reconfigRequest = [e \in Endpoint |-> NoRequest]
    /\ reconfigRequestSeq = [e \in Endpoint |-> 0]
    /\ timerReconfig = [e \in Endpoint |-> [armed |-> FALSE, failures |-> 0]]
    /\ net = {}
    /\ performed = [e \in Endpoint |-> {}]

-----------------------------------------------------------------------------
(* dataChannelFlush *)

\* What filter() leaves of a sequence: the items at the places in keep, in their order.
Filtered(s, keep) ==
    LET left[i \in 0 .. Len(s)] ==
            IF i = 0 THEN <<>>
            ELSE IF i \in keep THEN Append(left[i - 1], s[i]) ELSE left[i - 1]
    IN  left[Len(s)]

\* Variant: the first id of the parity, free or not.
FirstId(e, table) == IF e = Client THEN 1 ELSE 0

\* The first free id of the parity of e: odd for the client, even for the server.
FreeId(e, table) ==
    CHOOSE s \in StreamId :
        /\ s % 2 = IF e = Client THEN 1 ELSE 0
        /\ table[s] = NoChannel
        /\ \A r \in StreamId : r < s /\ r % 2 = s % 2 => table[r] # NoChannel

\* One turn of the loop: a channel without an id gets one and is registered, then the
\* message is sent on its stream, which gives the stream a sequence number.
FlushItem(e, acc, item) ==
    LET c == item.channel
        new == acc.channels[c].id = Unassigned
        s == IF new THEN FreeId(e, acc.table) ELSE acc.channels[c].id
    IN  [channels |-> [acc.channels EXCEPT ![c].id = s],
         table |-> IF new THEN [acc.table EXCEPT ![s] = c] ELSE acc.table,
         streams |-> acc.streams \cup {s},
         out |-> IF item.kind = "DATA" THEN acc.out
                 ELSE acc.out \cup {[type |-> item.kind, to |-> Peer(e), stream |-> s]}]

\* The loop over the queue.
FlushItems(e, start, queue) ==
    LET after[i \in 0 .. Len(queue)] ==
            IF i = 0 THEN start ELSE FlushItem(e, after[i - 1], queue[i])
    IN  after[Len(queue)]

\* The flush, of a queue and of channels that the caller has just changed, after what
\* the caller has sent.
Flush(e, chans, table, queue, sent) ==
    LET start == [channels |-> chans, table |-> table,
                  streams |-> outboundStreamSeq[e], out |-> {}]
        done == IF phase'[e] = "established" THEN FlushItems(e, start, queue) ELSE start
    IN  /\ channels' = [channels EXCEPT ![e] = done.channels]
        /\ dataChannels' = [dataChannels EXCEPT ![e] = done.table]
        /\ outboundStreamSeq' = [outboundStreamSeq EXCEPT ![e] = done.streams]
        /\ dataChannelQueue' = [dataChannelQueue EXCEPT ![e] =
                                    IF phase'[e] = "established" THEN <<>> ELSE queue]
        /\ net' = net \cup sent \cup done.out

-----------------------------------------------------------------------------
(* transmitReconfigRequest, and the timer it starts *)

\* Variant: the handle is not kept.
StartTimerOnly(t) == IF t.armed THEN t ELSE [armed |-> FALSE, failures |-> 0]

StartTimer(t) == IF t.armed THEN t ELSE [armed |-> TRUE, failures |-> 0]

CancelTimer(t) == [t EXCEPT !.armed = FALSE]

\* Variant: ids go out as they are.
PackedAsIs(streams) == streams

\* Stream ids as they are packed: one that is undefined becomes 0.
Packed(streams) == [i \in DOMAIN streams |-> IF streams[i] = Unassigned THEN 0 ELSE streams[i]]

\* With the queue, the request and the timer as the caller leaves them, and out what
\* it has sent.
TransmitReconfigRequest(e, queue, request, t, out) ==
    IF queue # <<>> /\ request = NoRequest
    THEN LET n == IF Len(queue) < MaxStreams THEN Len(queue) ELSE MaxStreams
             streams == SubSeq(queue, 1, n)
             seq == reconfigRequestSeq[e]
         IN  /\ seq < MaxRequests
             /\ reconfigQueue' = [reconfigQueue EXCEPT ![e] = SubSeq(queue, n + 1, Len(queue))]
             /\ reconfigRequestSeq' = [reconfigRequestSeq EXCEPT ![e] = seq + 1]
             /\ reconfigRequest' =
                    [reconfigRequest EXCEPT ![e] = [seq |-> seq, streams |-> streams]]
             /\ timerReconfig' = [timerReconfig EXCEPT ![e] = StartTimer(t)]
             /\ net' = net \cup out \cup
                    {[type |-> "RESET", to |-> Peer(e), seq |-> seq, streams |-> Packed(streams)]}
    ELSE /\ reconfigQueue' = [reconfigQueue EXCEPT ![e] = queue]
         /\ reconfigRequest' = [reconfigRequest EXCEPT ![e] = request]
         /\ timerReconfig' = [timerReconfig EXCEPT ![e] = t]
         /\ net' = net \cup out
         /\ UNCHANGED reconfigRequestSeq

\* Variant: the closed channels stay registered.
ReconfigStreamsKept(e, streams) ==
    LET ids == {s \in StreamId : \E i \in DOMAIN streams : streams[i] = s}
    IN  /\ channels' = [channels EXCEPT ![e] = [c \in DOMAIN @ |->
               IF \E s \in ids : dataChannels[e][s] = c
               THEN [@[c] EXCEPT !.readyState = "closed"] ELSE @[c]]]
        /\ UNCHANGED dataChannels

\* onReconfigStreams: the channels registered for the streams are closed.
ReconfigStreams(e, streams) ==
    LET ids == {s \in StreamId : \E i \in DOMAIN streams : streams[i] = s}
    IN  /\ channels' = [channels EXCEPT ![e] = [c \in DOMAIN @ |->
               IF \E s \in ids : dataChannels[e][s] = c
               THEN [@[c] EXCEPT !.readyState = "closed"] ELSE @[c]]]
        /\ dataChannels' = [dataChannels EXCEPT ![e] = [s \in StreamId |->
               IF s \in ids THEN NoChannel ELSE @[s]]]

-----------------------------------------------------------------------------
(* The association *)

\* The 'connected' listener: negotiated channels open, the queue is flushed.
Connected(e, sent) ==
    LET Opened(c) == channels[e][c].negotiated /\ \E s \in StreamId : dataChannels[e][s] = c
    IN  Flush(e,
              [c \in DOMAIN channels[e] |->
                  IF Opened(c) THEN [channels[e][c] EXCEPT !.readyState = "open"]
                  ELSE channels[e][c]],
              dataChannels[e],
              dataChannelQueue[e],
              sent)

\* setState(ESTABLISHED) on the server, for a COOKIE_ECHO and for each copy of it.
EstablishServer ==
    /\ phase[Server] # "closed"
    /\ phase' = [phase EXCEPT ![Server] = "established"]
    /\ Connected(Server, {[type |-> "COOKIE_ACK", to |-> Client]})
    /\ UNCHANGED <<resetVars, performed>>

\* setState(ESTABLISHED) on the client, for the first COOKIE_ACK.
EstablishClient ==
    /\ phase[Client] = "connecting"
    /\ [type |-> "COOKIE_ACK", to |-> Client] \in net
    /\ phase' = [phase EXCEPT ![Client] = "established"]
    /\ Connected(Client, {})
    /\ UNCHANGED <<resetVars, performed>>

\* Variant: nobody listens to 'closed'.
DropSilently(e) ==
    /\ phase' = [phase EXCEPT ![e] = "closed"]
    /\ UNCHANGED channelVars

\* setState(CLOSED) and its 'closed' listener, which removeAllListeners makes the
\* last: the registered channels close, the others do not.
Drop(e) ==
    /\ phase' = [phase EXCEPT ![e] = "closed"]
    /\ IF phase[e] = "closed"
       THEN UNCHANGED <<channels, dataChannels>>
       ELSE ReconfigStreams(e, [s \in 1 .. MaxId + 1 |-> s - 1])
    /\ UNCHANGED <<dataChannelQueue, outboundStreamSeq>>

\* stop(), an ABORT, or a T1 or T2 that runs out.  The reset timer goes on.
CloseAssociation(e) ==
    /\ phase[e] # "closed"
    /\ Drop(e)
    /\ UNCHANGED <<resetVars, net, performed>>

-----------------------------------------------------------------------------
(* Calls of the user *)

\* createDataChannel without negotiation: dataChannelOpen.  The test for an id,
\* "if (channel.id)", does not see the id 0.
CreateDataChannel(e) ==
    /\ UNCHANGED phase
    /\ Len(channels[e]) < MaxChannels
    /\ Len(dataChannelQueue[e]) < MaxQueue
    /\ \E id \in OpenIds \cup {Unassigned} :
          LET c == Len(channels[e]) + 1
              registers == id \notin {Unassigned, 0}
          IN  /\ registers => dataChannels[e][id] = NoChannel
              /\ Flush(e,
                       Append(channels[e],
                              [id |-> id, readyState |-> "connecting", negotiated |-> FALSE]),
                       IF registers THEN [dataChannels[e] EXCEPT ![id] = c]
                       ELSE dataChannels[e],
                       Append(dataChannelQueue[e], [channel |-> c, kind |-> "OPEN"]),
                       {})
    /\ UNCHANGED <<resetVars, performed>>

\* createDataChannel with negotiation: dataChannelAddNegotiated.
CreateNegotiated(e) ==
    /\ Len(channels[e]) < MaxChannels
    /\ \E id \in NegotiatedIds :
          LET state == IF phase[e] = "established" THEN "open" ELSE "connecting"
          IN  /\ dataChannels[e][id] = NoChannel
              /\ channels' = [channels EXCEPT ![e] =
                     Append(@, [id |-> id, readyState |-> state, negotiated |-> TRUE])]
              /\ dataChannels' = [dataChannels EXCEPT ![e][id] = Len(channels[e]) + 1]
    /\ UNCHANGED <<phase, dataChannelQueue, outboundStreamSeq, resetVars, net, performed>>

\* send() on an ordered channel, whatever its state: datachannelSend.  The code takes
\* the data of a closed channel, too.
SendData(e) ==
    /\ UNCHANGED phase
    /\ Len(dataChannelQueue[e]) < MaxQueue
    /\ \E c \in DOMAIN channels[e] :
          /\ SendAfterClose \/ channels[e][c].readyState \in {"connecting", "open"}
          /\ Flush(e, channels[e], dataChannels[e],
                   Append(dataChannelQueue[e], [channel |-> c, kind |-> "DATA"]), {})
    /\ UNCHANGED <<resetVars, performed>>

\* dataChannelClose while the association is established: the id, undefined as it
\* may be, waits for a reset; the first in the queue is tried at once.
ResetChannel(e, c) ==
    LET queue == Append(reconfigQueue[e], channels[e][c].id)
    IN  /\ phase[e] = "established"
        /\ Len(queue) <= MaxQueue
        /\ channels' = [channels EXCEPT ![e][c].readyState = "closing"]
        /\ IF Len(queue) = 1
           THEN TransmitReconfigRequest(e, queue, reconfigRequest[e], timerReconfig[e], {})
           ELSE /\ reconfigQueue' = [reconfigQueue EXCEPT ![e] = queue]
                /\ UNCHANGED <<reconfigRequest, reconfigRequestSeq, timerReconfig, net>>
        /\ UNCHANGED <<dataChannels, dataChannelQueue>>

\* Variant: the channel stays registered.
ForgetOnlyTheQueue(e, c) ==
    LET id == channels[e][c].id
    IN  /\ phase[e] # "established"
        /\ channels' = [channels EXCEPT ![e][c].readyState = "closed"]
        /\ dataChannelQueue' = [dataChannelQueue EXCEPT ![e] =
               Filtered(@, {i \in DOMAIN @ : channels[e][@[i].channel].id # id})]
        /\ UNCHANGED <<dataChannels, resetVars, net>>

\* dataChannelClose before that: what is queued for the id of the channel is dropped,
\* and all channels without an id have the same.  The channel leaves the register unless
\* its id is 0, which "if (channel.id)" takes for none.
ForgetChannel(e, c) ==
    LET id == channels[e][c].id
    IN  /\ phase[e] # "established"
        /\ channels' = [channels EXCEPT ![e][c].readyState = "closed"]
        /\ dataChannelQueue' = [dataChannelQueue EXCEPT ![e] =
               Filtered(@, {i \in DOMAIN @ : channels[e][@[i].channel].id # id})]
        /\ dataChannels' = IF id \in {Unassigned, 0} THEN dataChannels
                           ELSE [dataChannels EXCEPT ![e][id] = NoChannel]
        /\ UNCHANGED <<resetVars, net>>

Close(e) ==
    /\ \E c \in DOMAIN channels[e] :
          /\ channels[e][c].readyState \in {"connecting", "open"}
          /\ ResetChannel(e, c) \/ ForgetChannel(e, c)
    /\ UNCHANGED <<phase, outboundStreamSeq, performed>>

-----------------------------------------------------------------------------
(* Messages.  DATA is received in every state of the association, RECONFIG only *)
(* when it is established.                                                      *)

\* DATA_CHANNEL_OPEN: a stream without a channel gets one, which is open at once; an
\* ACK follows in either case.
ReceiveOpen(e) ==
    /\ UNCHANGED phase
    /\ \E m \in net :
          LET known == dataChannels[e][m.stream] # NoChannel
              c == IF known THEN dataChannels[e][m.stream] ELSE Len(channels[e]) + 1
          IN  /\ m.type = "OPEN" /\ m.to = e
              /\ c <= MaxChannels
              /\ Len(dataChannelQueue[e]) < MaxQueue
              /\ Flush(e,
                       IF known THEN channels[e]
                       ELSE Append(channels[e], [id |-> m.stream, readyState |-> "open",
                                                 negotiated |-> FALSE]),
                       [dataChannels[e] EXCEPT ![m.stream] = c],
                       Append(dataChannelQueue[e], [channel |-> c, kind |-> "ACK"]),
                       {})
    /\ UNCHANGED <<resetVars, performed>>

\* DATA_CHANNEL_ACK opens the channel in whatever state it is; without a channel it
\* throws, and the DTLS socket reports the exception.
ReceiveAck(e) ==
    /\ \E m \in net :
          /\ m.type = "ACK" /\ m.to = e
          /\ dataChannels[e][m.stream] # NoChannel
          /\ channels' = [channels EXCEPT ![e][dataChannels[e][m.stream]].readyState = "open"]
    /\ UNCHANGED <<phase, dataChannels, dataChannelQueue, outboundStreamSeq, resetVars,
                   net, performed>>

\* A reset request: respond, reset in turn the streams that have a sequence number,
\* close the channels.
ReceiveReset(e) ==
    /\ phase[e] = "established"
    /\ \E m \in net :
          LET back == Filtered(m.streams,
                              {i \in DOMAIN m.streams : m.streams[i] \in outboundStreamSeq[e]})
              queue == reconfigQueue[e] \o back
          IN  /\ m.type = "RESET" /\ m.to = e
              /\ Len(queue) <= MaxQueue
              /\ TransmitReconfigRequest(e, queue, reconfigRequest[e], timerReconfig[e],
                     {[type |-> "RESPONSE", to |-> Peer(e), seq |-> m.seq]})
              /\ ReconfigStreams(e, m.streams)
              /\ performed' = [performed EXCEPT ![e] = @ \cup {m.seq}]
    /\ UNCHANGED <<phase, dataChannelQueue, outboundStreamSeq>>

\* Variant: any response will do.
ReceiveAnyResponse(e) ==
    /\ phase[e] = "established"
    /\ reconfigRequest[e] # NoRequest
    /\ \E m \in net : m.type = "RESPONSE" /\ m.to = e
    /\ LET streams == reconfigRequest[e].streams
       IN  /\ outboundStreamSeq' = [outboundStreamSeq EXCEPT ![e] = @ \ Range(streams)]
           /\ ReconfigStreams(e, streams)
           /\ TransmitReconfigRequest(e, reconfigQueue[e], NoRequest,
                                      CancelTimer(timerReconfig[e]), {})
    /\ UNCHANGED <<phase, dataChannelQueue, performed>>

\* The response to the request that waits for one: its channels close, the next
\* request follows.
ReceiveResponse(e) ==
    /\ phase[e] = "established"
    /\ reconfigRequest[e] # NoRequest
    /\ \E m \in net : /\ m.type = "RESPONSE" /\ m.to = e
                      /\ m.seq = reconfigRequest[e].seq
    /\ LET streams == reconfigRequest[e].streams
       IN  /\ outboundStreamSeq' = [outboundStreamSeq EXCEPT ![e] = @ \ Range(streams)]
           /\ ReconfigStreams(e, streams)
           /\ TransmitReconfigRequest(e, reconfigQueue[e], NoRequest,
                                      CancelTimer(timerReconfig[e]), {})
    /\ UNCHANGED <<phase, dataChannelQueue, performed>>

\* timerReconfigHandleExpired: the association is closed, or the request goes out again
\* (net keeps every message) and the handle is set anew.  Without a request the handle
\* stays as it is; the timer it named does not run any more.
TimerReconfigExpired(e) ==
    /\ timerReconfig[e].armed
    /\ IF timerReconfig[e].failures + 1 > MaxFailures
       THEN /\ Drop(e)
            /\ timerReconfig' = [timerReconfig EXCEPT ![e] = [failures |-> @.failures + 1,
                                                             armed |-> FALSE]]
       ELSE /\ timerReconfig' = [timerReconfig EXCEPT ![e].failures = @ + 1]
            /\ UNCHANGED <<phase, channelVars>>
    /\ UNCHANGED <<reconfigQueue, reconfigRequest, reconfigRequestSeq, net, performed>>

Next ==
    \/ EstablishServer
    \/ EstablishClient
    \/ \E e \in Endpoint :
          \/ CloseAssociation(e)
          \/ CreateDataChannel(e)
          \/ CreateNegotiated(e)
          \/ SendData(e)
          \/ Close(e)
          \/ ReceiveOpen(e)
          \/ ReceiveAck(e)
          \/ ReceiveReset(e)
          \/ ReceiveResponse(e)
          \/ TimerReconfigExpired(e)

\* The event loop runs the reset timer when it is due.  Nothing is assumed of the
\* network, nor of the user.
Spec == Init /\ [][Next]_vars /\ \A e \in Endpoint : WF_vars(TimerReconfigExpired(e))

-----------------------------------------------------------------------------
(* Properties *)

Registered(e, c) == \E s \in StreamId : dataChannels[e][s] = c

Closing(e, c) ==
    c \in DOMAIN channels[e] /\ channels[e][c].readyState = "closing" /\ Registered(e, c)

Waiting(e) ==
    Range(reconfigQueue[e]) \cup Range(reconfigRequest[e].streams)

\* A reset request never waits without a timer that repeats it, and closes the
\* association in the end (transmitReconfigRequest, the response case).
RequestIsTimed ==
    \A e \in Endpoint : phase[e] = "established" /\ reconfigRequest[e] # NoRequest =>
        timerReconfig[e].armed

\* The queue of ids is never left behind: where one waits, a request is on its way
\* whose response takes the next (the test for length 1 in dataChannelClose).
QueueIsServed ==
    \A e \in Endpoint : phase[e] = "established" /\ reconfigQueue[e] # <<>> =>
        reconfigRequest[e] # NoRequest

\* A registered channel that is closing has its reset ahead of it, however often its id
\* was reset, used again or reset by the peer in the meantime.
ClosingIsScheduled ==
    \A e \in Endpoint : phase[e] = "established" =>
        \A c \in DOMAIN channels[e] :
            Closing(e, c) => channels[e][c].id \in Waiting(e)

\* The three together, a chain: what closes has its id on the way, what is on the way has
\* a request, and what is requested has a timer.  None of the close, the response, the
\* reset of the peer and the timer may leave a link out, in any order they come.
NoResetIsStuck == RequestIsTimed /\ QueueIsServed /\ ClosingIsScheduled

\* A live channel with an id is the one registered for it: two live channels never
\* share an id, and messages reach each (dataChannelOpen, dataChannelFlush).
LiveIsRegistered ==
    \A e \in Endpoint : \A c \in DOMAIN channels[e] :
        channels[e][c].readyState # "closed" /\ channels[e][c].id # Unassigned =>
            dataChannels[e][channels[e][c].id] = c

\* A channel that is closed stays closed: no late ACK or OPEN for the id it had, nor,
\* for a negotiated one, the 'connected' of a first or repeated COOKIE_ECHO opens it again
\* (the listeners, which only see registered channels).  It does not hold of a negotiated
\* channel with the id 0 that is closed before the association is there: ForgetChannel
\* leaves it registered.
ClosedStaysClosed ==
    [][\A e \in Endpoint : \A c \in DOMAIN channels[e] :
          channels[e][c].readyState = "closed" => channels'[e][c].readyState = "closed"]_vars

\* A request is only taken for done when the peer has performed that very request,
\* however old the responses are that arrive.
CompletionIsEarned ==
    [][\A e \in Endpoint :
          phase'[e] = "established" /\ reconfigRequest[e] # NoRequest
              /\ reconfigRequest'[e] # reconfigRequest[e] =>
              reconfigRequest[e].seq \in performed[Peer(e)]]_vars

\* A registered channel does not stay closing, even if every packet is lost: the
\* response closes it, or the reset timer closes the association.
ClosingEnds ==
    \A e \in Endpoint : \A c \in 1 .. MaxChannels : Closing(e, c) ~> ~Closing(e, c)

\* What the comment in dataChannelFlush says of the wait for the association: it
\* lasts until then, and an id is assigned to every channel.
EstablishedAssignsIds ==
    \A e \in Endpoint : phase[e] = "established" =>
        \A c \in DOMAIN channels[e] :
            channels[e][c].readyState # "closed" => channels[e][c].id # Unassigned
=============================================================================
