-------------------------- MODULE SctpAssociation --------------------------
(***************************************************************************)
(* The life of one SCTP association between two fudano endpoints           *)
(* (src/src/sctp/sctp.ts, class SCTP): the four-way handshake, its T1      *)
(* timer, the shutdown timer T2, abort and stop.  One side is the SCTP     *)
(* client (the ICE controlling side), the other the server.                *)
(*                                                                         *)
(* The network is the set of every packet ever sent: a packet may be       *)
(* received never, once or often, and in any order.  Verification tags are *)
(* modelled by the endpoint that drew them; two random 32-bit tags are     *)
(* taken to be different and not 0.                                        *)
(*                                                                         *)
(* One action is one callback of the Node event loop.  A retransmission is *)
(* two: the timer callback, and the setImmediate callback that it defers   *)
(* the sending to; packets may be received between the two.                *)
(***************************************************************************)
EXTENDS Naturals

CONSTANTS
    Client,            \* the endpoint with isServer = false
    Server,            \* the endpoint with isServer = true
    MaxInitRetrans,    \* SCTP_MAX_INIT_RETRANS
    MaxAssocRetrans,   \* SCTP_MAX_ASSOCIATION_RETRANS
    PeerMayShutdown    \* whether a peer may be another stack, which sends SHUTDOWN

NoTag == "no tag"      \* verification tag 0

ASSUME EndpointAssumption ==
    /\ Client # Server
    /\ Client # NoTag
    /\ Server # NoTag

ASSUME RetransAssumption ==
    /\ MaxInitRetrans \in Nat
    /\ MaxAssocRetrans \in Nat
    /\ PeerMayShutdown \in BOOLEAN

Endpoint == {Client, Server}

Peer(e) == IF e = Client THEN Server ELSE Client

NoChunk == "no chunk"  \* undefined

AssociationState ==
    {"CLOSED", "COOKIE_WAIT", "COOKIE_ECHOED", "ESTABLISHED", "SHUTDOWN_SENT"}

ConnectionState == {"new", "connecting", "connected", "closed"}

ChunkType ==
    {"INIT", "INIT_ACK", "COOKIE_ECHO", "COOKIE_ACK", "ABORT", "ERROR",
     "SHUTDOWN", "SHUTDOWN_ACK", "SHUTDOWN_COMPLETE"}

Packet == [type : ChunkType, to : Endpoint, tag : Endpoint \cup {NoTag}]

\* armed: timerNHandle is set; chunk: timerNChunk; failures: timerNFailures;
\* deferred: a setImmediate that will send timerNChunk is pending.
Timer == [armed : BOOLEAN, chunk : ChunkType \cup {NoChunk},
          failures : Nat, deferred : BOOLEAN]

VARIABLES
    started,       \* started[e]: start() was called
    assoc,         \* assoc[e]: associationState
    conn,          \* conn[e]: state, what the data channel layer is told
    remoteTag,     \* remoteTag[e]: remoteVerificationTag
    t1,            \* t1[e]: waits for INIT_ACK, then for COOKIE_ACK
    t2,            \* t2[e]: waits for the end of a shutdown
    crashed,       \* crashed[e]: an exception reached the event loop
    cookieStale,   \* the cookie the client echoes is past COOKIE_LIFETIME
    net            \* every packet sent so far

vars == <<started, assoc, conn, remoteTag, t1, t2, crashed, cookieStale, net>>

TypeOK ==
    /\ started \in [Endpoint -> BOOLEAN]
    /\ assoc \in [Endpoint -> AssociationState]
    /\ conn \in [Endpoint -> ConnectionState]
    /\ remoteTag \in [Endpoint -> Endpoint \cup {NoTag}]
    /\ t1 \in [Endpoint -> Timer]
    /\ t2 \in [Endpoint -> Timer]
    /\ crashed \in [Endpoint -> BOOLEAN]
    /\ cookieStale \in BOOLEAN
    /\ net \subseteq Packet

-----------------------------------------------------------------------------
(* Timers *)

Idle == [armed |-> FALSE, chunk |-> NoChunk, failures |-> 0, deferred |-> FALSE]

\* timer1Start, t2Start.  The handle is never set when the code calls them.
Start(t, chunk) == [t EXCEPT !.armed = TRUE, !.chunk = chunk, !.failures = 0]

\* Variant: the handle is not cleared.
CancelNothing(t) == t

\* timer1Cancel, timer2Cancel: the chunk is forgotten too, but only with a handle,
\* and a pending setImmediate is not withdrawn.
Cancel(t) ==
    IF t.armed THEN [t EXCEPT !.armed = FALSE, !.chunk = NoChunk] ELSE t

\* Variant: the next timeout is not scheduled.
RearmOnce(t) == [t EXCEPT !.failures = @ + 1, !.deferred = TRUE, !.armed = FALSE]

\* timer1Expired, timer2Expired, when the limit is not passed.
Rearm(t) == [t EXCEPT !.failures = @ + 1, !.deferred = TRUE]

\* timer1Expired, timer2Expired, when the limit is passed.
GiveUp(t) == [t EXCEPT !.failures = @ + 1, !.armed = FALSE]

-----------------------------------------------------------------------------
(* Sending, and the effects that setState has *)

\* sendChunk: nothing leaves an endpoint whose state is 'closed'.
Send(e, type, tag) ==
    net' = IF conn[e] = "closed"
           THEN net
           ELSE net \cup {[type |-> type, to |-> Peer(e), tag |-> tag]}

\* setState(CLOSED), with the timers t1[e] and t2[e] as given.
Close(e, timer1, timer2) ==
    /\ assoc' = [assoc EXCEPT ![e] = "CLOSED"]
    /\ conn' = [conn EXCEPT ![e] = "closed"]
    /\ t1' = [t1 EXCEPT ![e] = Cancel(timer1)]
    /\ t2' = [t2 EXCEPT ![e] = Cancel(timer2)]

\* setState(ESTABLISHED)
Establish(e) ==
    /\ assoc' = [assoc EXCEPT ![e] = "ESTABLISHED"]
    /\ conn' = [conn EXCEPT ![e] = "connected"]

-----------------------------------------------------------------------------
(* Calls of the transports above and below *)

Init ==
    /\ started = [e \in Endpoint |-> FALSE]
    /\ assoc = [e \in Endpoint |-> "CLOSED"]
    /\ conn = [e \in Endpoint |-> "new"]
    /\ remoteTag = [e \in Endpoint |-> NoTag]
    /\ t1 = [e \in Endpoint |-> Idle]
    /\ t2 = [e \in Endpoint |-> Idle]
    /\ crashed = [e \in Endpoint |-> FALSE]
    /\ cookieStale = FALSE
    /\ net = {}

\* start() on the client, which calls init().  A connection state 'closed' left by
\* an earlier stop() is overwritten.
StartClient ==
    /\ ~crashed[Client]
    /\ ~started[Client]
    /\ started' = [started EXCEPT ![Client] = TRUE]
    /\ conn' = [conn EXCEPT ![Client] = "connecting"]
    /\ net' = net \cup {[type |-> "INIT", to |-> Server, tag |-> remoteTag[Client]]}
    /\ t1' = [t1 EXCEPT ![Client] = Start(@, "INIT")]
    /\ assoc' = [assoc EXCEPT ![Client] = "COOKIE_WAIT"]
    /\ UNCHANGED <<remoteTag, t2, crashed, cookieStale>>

\* start() on the server.  It needs nothing of it to answer: the remote port is set with
\* the remote description, and DTLS hands data on before it is connected.  A handshake
\* may thus be over already, and then 'connected' is overwritten by 'connecting'.
StartServer ==
    /\ ~crashed[Server]
    /\ ~started[Server]
    /\ started' = [started EXCEPT ![Server] = TRUE]
    /\ conn' = [conn EXCEPT ![Server] = "connecting"]
    /\ UNCHANGED <<assoc, remoteTag, t1, t2, crashed, cookieStale, net>>

\* stop(): abort() unless the association is closed already.
Stop(e) ==
    /\ ~crashed[e]
    /\ IF assoc[e] = "CLOSED" THEN UNCHANGED net ELSE Send(e, "ABORT", remoteTag[e])
    /\ Close(e, t1[e], t2[e])
    /\ UNCHANGED <<started, remoteTag, crashed, cookieStale>>

\* The DTLS transport reports 'closed': setState(CLOSED) and no ABORT.
DtlsClosed(e) ==
    /\ ~crashed[e]
    /\ Close(e, t1[e], t2[e])
    /\ UNCHANGED <<started, remoteTag, crashed, cookieStale, net>>

-----------------------------------------------------------------------------
(* Receiving: handleData, then receiveChunk.  A packet other than an INIT is *)
(* dropped unless it carries the tag of its receiver; an INIT carries tag 0. *)

Arrives(e, type) ==
    /\ ~crashed[e]
    /\ \E p \in net : /\ p.to = e
                      /\ p.type = type
                      /\ p.tag = IF type = "INIT" THEN NoTag ELSE e

\* The server answers an INIT in whatever state it is, also before start(): isServer is
\* true from the beginning.
HandleInit ==
    /\ Arrives(Server, "INIT")
    /\ remoteTag' = [remoteTag EXCEPT ![Server] = Client]
    /\ Send(Server, "INIT_ACK", Client)
    /\ UNCHANGED <<started, assoc, conn, t1, t2, crashed, cookieStale>>

\* Variant: the client does not wait for the COOKIE_ACK.
HandleInitAckAtOnce ==
    /\ Arrives(Client, "INIT_ACK")
    /\ assoc[Client] = "COOKIE_WAIT"
    /\ remoteTag' = [remoteTag EXCEPT ![Client] = Server]
    /\ Send(Client, "COOKIE_ECHO", Server)
    /\ t1' = [t1 EXCEPT ![Client] = Cancel(@)]
    /\ Establish(Client)
    /\ UNCHANGED <<started, t2, crashed, cookieStale>>

HandleInitAck ==
    /\ Arrives(Client, "INIT_ACK")
    /\ assoc[Client] = "COOKIE_WAIT"
    /\ remoteTag' = [remoteTag EXCEPT ![Client] = Server]
    /\ Send(Client, "COOKIE_ECHO", Server)
    /\ t1' = [t1 EXCEPT ![Client] = Start(Cancel(@), "COOKIE_ECHO")]
    /\ assoc' = [assoc EXCEPT ![Client] = "COOKIE_ECHOED"]
    /\ UNCHANGED <<started, conn, t2, crashed, cookieStale>>

\* A good cookie establishes the server from any state, before start() and also from
\* CLOSED after a stop: then the COOKIE_ACK is not sent, but the state becomes 'connected'.
HandleCookieEcho ==
    /\ Arrives(Server, "COOKIE_ECHO")
    /\ ~cookieStale
    /\ Send(Server, "COOKIE_ACK", remoteTag[Server])
    /\ Establish(Server)
    /\ UNCHANGED <<started, remoteTag, t1, t2, crashed, cookieStale>>

\* A cookie older than COOKIE_LIFETIME is answered with an ERROR, which its
\* receiver only logs.
HandleStaleCookieEcho ==
    /\ Arrives(Server, "COOKIE_ECHO")
    /\ cookieStale
    /\ Send(Server, "ERROR", remoteTag[Server])
    /\ UNCHANGED <<started, assoc, conn, remoteTag, t1, t2, crashed, cookieStale>>

\* Variant: a COOKIE_ACK is heeded in every state.
HandleAnyCookieAck ==
    /\ Arrives(Client, "COOKIE_ACK")
    /\ t1' = [t1 EXCEPT ![Client] = Cancel(@)]
    /\ Establish(Client)
    /\ UNCHANGED <<started, remoteTag, t2, crashed, cookieStale, net>>

HandleCookieAck ==
    /\ Arrives(Client, "COOKIE_ACK")
    /\ assoc[Client] = "COOKIE_ECHOED"
    /\ t1' = [t1 EXCEPT ![Client] = Cancel(@)]
    /\ Establish(Client)
    /\ UNCHANGED <<started, remoteTag, t2, crashed, cookieStale, net>>

HandleAbort(e) ==
    /\ Arrives(e, "ABORT")
    /\ Close(e, t1[e], t2[e])
    /\ UNCHANGED <<started, remoteTag, crashed, cookieStale, net>>

\* A SHUTDOWN is answered in any state, also 'closed', where the answer is not sent
\* but T2 starts all the same.
HandleShutdown(e) ==
    /\ Arrives(e, "SHUTDOWN")
    /\ Send(e, "SHUTDOWN_ACK", remoteTag[e])
    /\ t2' = [t2 EXCEPT ![e] = Start(Cancel(@), "SHUTDOWN_ACK")]
    /\ assoc' = [assoc EXCEPT ![e] = "SHUTDOWN_SENT"]
    /\ UNCHANGED <<started, conn, remoteTag, t1, crashed, cookieStale>>

\* Heeded only in SHUTDOWN_ACK_SENT, a state that no statement enters.
HandleShutdownComplete(e) ==
    /\ Arrives(e, "SHUTDOWN_COMPLETE")
    /\ IF assoc[e] = "SHUTDOWN_ACK_SENT"
       THEN Close(e, t1[e], Cancel(t2[e]))
       ELSE UNCHANGED <<assoc, conn, t1, t2>>
    /\ UNCHANGED <<started, remoteTag, crashed, cookieStale, net>>

-----------------------------------------------------------------------------
(* Timers: the timers phase of the event loop runs the Expired callbacks, its *)
(* check phase the deferred sending; packets are received in between.         *)

T1Expired(e) ==
    /\ ~crashed[e]
    /\ t1[e].armed
    /\ ~t1[e].deferred
    /\ IF t1[e].failures + 1 > MaxInitRetrans
       THEN Close(e, GiveUp(t1[e]), t2[e])
       ELSE /\ t1' = [t1 EXCEPT ![e] = Rearm(@)]
            /\ UNCHANGED <<assoc, conn, t2>>
    /\ UNCHANGED <<started, remoteTag, crashed, cookieStale, net>>

T2Expired(e) ==
    /\ ~crashed[e]
    /\ t2[e].armed
    /\ ~t2[e].deferred
    /\ IF t2[e].failures + 1 > MaxAssocRetrans
       THEN Close(e, t1[e], GiveUp(t2[e]))
       ELSE /\ t2' = [t2 EXCEPT ![e] = Rearm(@)]
            /\ UNCHANGED <<assoc, conn, t1>>
    /\ UNCHANGED <<started, remoteTag, crashed, cookieStale, net>>

\* sendChunk(timerNChunk!): an undefined chunk throws a TypeError that nothing
\* catches, unless the state is 'closed' and sendChunk returns first.
Retransmit(e, chunk) ==
    IF chunk = NoChunk
    THEN /\ crashed' = [crashed EXCEPT ![e] = conn[e] # "closed"]
         /\ UNCHANGED net
    ELSE /\ Send(e, chunk, remoteTag[e])
         /\ UNCHANGED crashed

T1Deferred(e) ==
    /\ ~crashed[e]
    /\ t1[e].deferred
    /\ t1' = [t1 EXCEPT ![e].deferred = FALSE]
    /\ Retransmit(e, t1[e].chunk)
    /\ UNCHANGED <<started, assoc, conn, remoteTag, t2, cookieStale>>

T2Deferred(e) ==
    /\ ~crashed[e]
    /\ t2[e].deferred
    /\ t2' = [t2 EXCEPT ![e].deferred = FALSE]
    /\ Retransmit(e, t2[e].chunk)
    /\ UNCHANGED <<started, assoc, conn, remoteTag, t1, cookieStale>>

-----------------------------------------------------------------------------
(* The environment *)

\* COOKIE_LIFETIME seconds pass before the server looks at the echoed cookie.
CookieExpires ==
    /\ assoc[Client] = "COOKIE_ECHOED"
    /\ cookieStale' = TRUE
    /\ UNCHANGED <<started, assoc, conn, remoteTag, t1, t2, crashed, net>>

\* fudano never sends SHUTDOWN; another stack at the other end of an established
\* association may, and confirms the SHUTDOWN_ACK with SHUTDOWN_COMPLETE.
PeerShutdown(e) ==
    /\ PeerMayShutdown
    /\ assoc[Peer(e)] = "ESTABLISHED"
    /\ remoteTag[Peer(e)] = e
    /\ \/ net' = net \cup {[type |-> "SHUTDOWN", to |-> e, tag |-> e]}
       \/ /\ \E p \in net : p.type = "SHUTDOWN_ACK" /\ p.to = Peer(e)
          /\ net' = net \cup {[type |-> "SHUTDOWN_COMPLETE", to |-> e, tag |-> e]}
    /\ UNCHANGED <<started, assoc, conn, remoteTag, t1, t2, crashed, cookieStale>>

Next ==
    \/ StartClient
    \/ StartServer
    \/ HandleInit
    \/ HandleInitAck
    \/ HandleCookieEcho
    \/ HandleStaleCookieEcho
    \/ HandleCookieAck
    \/ CookieExpires
    \/ \E e \in Endpoint :
          \/ Stop(e)
          \/ DtlsClosed(e)
          \/ HandleAbort(e)
          \/ HandleShutdown(e)
          \/ HandleShutdownComplete(e)
          \/ T1Expired(e)
          \/ T2Expired(e)
          \/ T1Deferred(e)
          \/ T2Deferred(e)
          \/ PeerShutdown(e)

Spec == Init /\ [][Next]_vars

\* The event loop runs every due timer and every pending setImmediate callback.
\* Nothing is assumed of the network: packets may all be lost.
Fairness ==
    \A e \in Endpoint : /\ WF_vars(T1Expired(e)) /\ WF_vars(T1Deferred(e))
                        /\ WF_vars(T2Expired(e)) /\ WF_vars(T2Deferred(e))

FairSpec == Spec /\ Fairness

-----------------------------------------------------------------------------
(* Properties *)

\* When the client is told it is connected, the server has taken its cookie, started
\* or not, and each side sends with the tag the other expects: no data sent from then
\* on is dropped for its tag (the tag check of handleData).
TagsAgree ==
    assoc[Client] = "ESTABLISHED" =>
        /\ remoteTag[Client] = Server
        /\ remoteTag[Server] = Client
        /\ \E p \in net : p.type = "COOKIE_ACK"

\* The handshake cannot stall: while the client waits, T1 is armed and holds the
\* chunk to repeat (init, the INIT_ACK case and timer1Expired keep it so).
HandshakeIsTimed ==
    /\ assoc[Client] = "COOKIE_WAIT" => t1[Client].armed /\ t1[Client].chunk = "INIT"
    /\ assoc[Client] = "COOKIE_ECHOED" =>
           t1[Client].armed /\ t1[Client].chunk = "COOKIE_ECHO"

\* T1 never fires into an association it does not belong to: once established or
\* closed, no handle is left that could close it MaxInitRetrans timeouts later.
NoStrayT1 ==
    \A e \in Endpoint : t1[e].armed => assoc[e] \notin {"ESTABLISHED", "CLOSED"}

\* A shutdown cannot stall: T2 is armed in SHUTDOWN_SENT, also when the SHUTDOWN
\* came twice, came before the COOKIE_ACK or came after the close.
ShutdownIsTimed ==
    \A e \in Endpoint : assoc[e] = "SHUTDOWN_SENT" =>
        t2[e].armed /\ t2[e].chunk = "SHUTDOWN_ACK"

\* Wherever an endpoint waits for an answer a timer is armed and holds what it repeats.
WaitIsTimed == HandshakeIsTimed /\ ShutdownIsTimed

\* 'closed' is final for an endpoint that was started, whatever packets and timers
\* come after it; the one exception is a server that a COOKIE_ECHO revives.
ClosedIsFinal ==
    [][\A e \in Endpoint :
          started[e] /\ conn[e] = "closed" /\ conn'[e] # "closed" =>
              e = Server /\ Arrives(Server, "COOKIE_ECHO")]_vars

\* An endpoint that stays closed sends nothing: neither the answers to late packets
\* nor the retransmissions of a timer that survived (the first line of sendChunk).
SilentWhenClosed ==
    [][\A e \in Endpoint :
          conn[e] = "closed" /\ conn'[e] = "closed" =>
              \A p \in net' \ net :
                  p.to = Peer(e) => p.type \in {"SHUTDOWN", "SHUTDOWN_COMPLETE"}]_vars

\* A started client does not stay 'connecting' for ever, even if every packet is
\* lost: it becomes connected, or T1 runs out and it is closed.
ClientDecides == conn[Client] = "connecting" ~> conn[Client] # "connecting"

\* The association implements what the data channel layer relies on; the server has
\* answered once a COOKIE_ACK is on its way.
Service == INSTANCE AssociationService WITH
    told <- conn,
    begun <- started,
    answered <- \E p \in net : p.type = "COOKIE_ACK"

ImplementsService == Service!Spec

-----------------------------------------------------------------------------
(* The inductive invariant behind the safety properties *)

Sent(type) == \E p \in net : p.type = type

\* Only the client uses T1, for the two chunks it repeats, and T2 repeats one.
TimerChunks ==
    /\ ~t1[Server].armed /\ t1[Server].chunk = NoChunk
    /\ t1[Client].chunk \in {NoChunk, "INIT", "COOKIE_ECHO"}
    /\ \A e \in Endpoint : t2[e].chunk \in {NoChunk, "SHUTDOWN_ACK"}

\* While the client waits for an answer its user is told 'connecting'.
WaitingIsConnecting ==
    assoc[Client] \in {"COOKIE_WAIT", "COOKIE_ECHOED"} =>
        started[Client] /\ conn[Client] = "connecting"

\* What each chunk of the handshake shows about the two ends once it was sent.
HandshakeEvidence ==
    /\ Sent("INIT_ACK") => remoteTag[Server] = Client
    /\ Sent("COOKIE_ECHO") \/ t1[Client].chunk = "COOKIE_ECHO" =>
           started[Client] /\ remoteTag[Client] = Server /\ remoteTag[Server] = Client
    /\ Sent("COOKIE_ACK") => Sent("COOKIE_ECHO")
    /\ assoc[Client] = "ESTABLISHED" => Sent("COOKIE_ACK")

IInv ==
    /\ TypeOK
    /\ HandshakeIsTimed
    /\ NoStrayT1
    /\ ShutdownIsTimed
    /\ TimerChunks
    /\ WaitingIsConnecting
    /\ HandshakeEvidence
=============================================================================
