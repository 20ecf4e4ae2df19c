----------------------- MODULE SctpAssociationProofs -----------------------
(***************************************************************************)
(* Proofs about SctpAssociation, for every number of retransmissions and   *)
(* whether or not the peer may send SHUTDOWN.                              *)
(***************************************************************************)
EXTENDS SctpAssociation, TLAPS

\* What the timer functions of the code do to a timer.
LEMMA TimerOperators ==
    ASSUME NEW t \in Timer, NEW c \in ChunkType
    PROVE  /\ Idle \in Timer
           /\ Start(t, c) \in Timer
           /\ Cancel(t) \in Timer
           /\ Rearm(t) \in Timer
           /\ GiveUp(t) \in Timer
           /\ [t EXCEPT !.deferred = FALSE] \in Timer
<1>1. Idle \in Timer
  BY DEF Idle, Timer
<1>2. Start(t, c) \in Timer
  BY DEF Start, Timer
<1>3. Cancel(t) \in Timer
  BY DEF Cancel, Timer
<1>4. t.failures + 1 \in Nat
  BY DEF Timer
<1>5. Rearm(t) \in Timer
  <2>1. \A n \in Nat : [t EXCEPT !.failures = n, !.deferred = TRUE] \in Timer
    BY DEF Timer
  <2> QED
    BY <1>4, <2>1 DEF Rearm
<1>6. GiveUp(t) \in Timer
  <2>1. \A n \in Nat : [t EXCEPT !.failures = n, !.armed = FALSE] \in Timer
    BY DEF Timer
  <2> QED
    BY <1>4, <2>1 DEF GiveUp
<1>7. [t EXCEPT !.deferred = FALSE] \in Timer
  BY DEF Timer
<1> QED
  BY <1>1, <1>2, <1>3, <1>5, <1>6, <1>7

\* The other end of an endpoint is an endpoint.
LEMMA PeerIsEndpoint == \A e \in Endpoint : Peer(e) \in Endpoint
BY DEF Peer, Endpoint

\* sendChunk keeps the network a set of packets.
LEMMA SendTyped ==
    ASSUME net \subseteq Packet, NEW e \in Endpoint, NEW type \in ChunkType,
           NEW tag \in Endpoint \cup {NoTag}, Send(e, type, tag)
    PROVE  net' \subseteq Packet
BY PeerIsEndpoint DEF Send, Packet

\* setState(CLOSED) keeps the types of what it changes.
LEMMA CloseTyped ==
    ASSUME TypeOK, NEW e \in Endpoint, NEW x \in Timer, NEW y \in Timer, Close(e, x, y)
    PROVE  /\ assoc' \in [Endpoint -> AssociationState]
           /\ conn' \in [Endpoint -> ConnectionState]
           /\ t1' \in [Endpoint -> Timer]
           /\ t2' \in [Endpoint -> Timer]
<1>1. Cancel(x) \in Timer /\ Cancel(y) \in Timer
  BY DEF Cancel, Timer
<1> QED
  BY <1>1 DEF Close, TypeOK, AssociationState, ConnectionState

\* Every variable keeps its type: Init and each action of Next.
THEOREM TypeCorrect == Spec => []TypeOK
<1>1. Init => TypeOK
  <2> SUFFICES ASSUME Init PROVE TypeOK
    OBVIOUS
  <2>1. Idle \in Timer
    BY DEF Idle, Timer
  <2>2. t1 \in [Endpoint -> Timer] /\ t2 \in [Endpoint -> Timer]
    BY <2>1 DEF Init
  <2> QED
    BY <2>2 DEF Init, TypeOK, AssociationState, ConnectionState
<1>2. TypeOK /\ [Next]_vars => TypeOK'
  <2> SUFFICES ASSUME TypeOK, [Next]_vars PROVE TypeOK'
    OBVIOUS
  <2> USE DEF Endpoint
  <2>1. CASE UNCHANGED vars
    BY <2>1 DEF vars, TypeOK
  <2>2. CASE StartClient
    <3>1. Start(t1[Client], "INIT") \in Timer
      BY TimerOperators DEF TypeOK, ChunkType
    <3>2. net' \subseteq Packet
      BY <2>2 DEF StartClient, TypeOK, Packet, ChunkType
    <3> QED
      BY <2>2, <3>1, <3>2 DEF StartClient, TypeOK, AssociationState, ConnectionState
  <2>3. CASE StartServer
    BY <2>3 DEF StartServer, TypeOK, ConnectionState
  <2>4. CASE HandleInit
    <3>1. net' \subseteq Packet
      BY <2>4, SendTyped DEF HandleInit, TypeOK, ChunkType
    <3> QED
      BY <2>4, <3>1 DEF HandleInit, TypeOK
  <2>5. CASE HandleInitAck
    <3>1. net' \subseteq Packet
      BY <2>5, SendTyped DEF HandleInitAck, TypeOK, ChunkType
    <3>2. Start(Cancel(t1[Client]), "COOKIE_ECHO") \in Timer
      <4>1. Cancel(t1[Client]) \in Timer
        BY TimerOperators DEF TypeOK, ChunkType
      <4> QED
        BY <4>1, TimerOperators DEF ChunkType
    <3> QED
      BY <2>5, <3>1, <3>2 DEF HandleInitAck, TypeOK, AssociationState
  <2>6. CASE HandleCookieEcho
    <3>1. net' \subseteq Packet
      BY <2>6, SendTyped DEF HandleCookieEcho, TypeOK, ChunkType
    <3> QED
      BY <2>6, <3>1
      DEF HandleCookieEcho, Establish, TypeOK, AssociationState, ConnectionState
  <2>7. CASE HandleStaleCookieEcho
    <3>1. net' \subseteq Packet
      BY <2>7, SendTyped DEF HandleStaleCookieEcho, TypeOK, ChunkType
    <3> QED
      BY <2>7, <3>1 DEF HandleStaleCookieEcho, TypeOK
  <2>8. CASE HandleCookieAck
    <3>1. Cancel(t1[Client]) \in Timer
      BY TimerOperators DEF TypeOK, ChunkType
    <3> QED
      BY <2>8, <3>1
      DEF HandleCookieAck, Establish, TypeOK, AssociationState, ConnectionState
  <2>9. CASE CookieExpires
    BY <2>9 DEF CookieExpires, TypeOK
  <2>10. ASSUME NEW e \in Endpoint, Stop(e) \/ DtlsClosed(e) \/ HandleAbort(e)
         PROVE  TypeOK'
    <3>1. net' \subseteq Packet
      BY <2>10, SendTyped DEF Stop, DtlsClosed, HandleAbort, TypeOK, ChunkType
    <3>2. Close(e, t1[e], t2[e])
      BY <2>10 DEF Stop, DtlsClosed, HandleAbort
    <3>3. UNCHANGED <<started, remoteTag, crashed, cookieStale>>
      BY <2>10 DEF Stop, DtlsClosed, HandleAbort
    <3> QED
      BY <3>1, <3>2, <3>3, CloseTyped DEF TypeOK
  <2>11. ASSUME NEW e \in Endpoint, HandleShutdown(e)
         PROVE  TypeOK'
    <3>1. net' \subseteq Packet
      BY <2>11, SendTyped DEF HandleShutdown, TypeOK, ChunkType
    <3>2. Start(Cancel(t2[e]), "SHUTDOWN_ACK") \in Timer
      <4>1. Cancel(t2[e]) \in Timer
        BY TimerOperators DEF TypeOK, ChunkType
      <4> QED
        BY <4>1, TimerOperators DEF ChunkType
    <3> QED
      BY <2>11, <3>1, <3>2 DEF HandleShutdown, TypeOK, AssociationState
  <2>12. ASSUME NEW e \in Endpoint, HandleShutdownComplete(e)
         PROVE  TypeOK'
    <3>1. Cancel(t2[e]) \in Timer
      BY TimerOperators DEF TypeOK, ChunkType
    <3> QED
      BY <2>12, <3>1, CloseTyped DEF HandleShutdownComplete, TypeOK
  <2>13. ASSUME NEW e \in Endpoint, T1Expired(e) \/ T2Expired(e)
         PROVE  TypeOK'
    <3>1. /\ Rearm(t1[e]) \in Timer /\ GiveUp(t1[e]) \in Timer
          /\ Rearm(t2[e]) \in Timer /\ GiveUp(t2[e]) \in Timer
      BY TimerOperators DEF TypeOK, ChunkType
    <3>2. CASE T1Expired(e)
      BY <3>1, <3>2, CloseTyped DEF T1Expired, TypeOK
    <3>3. CASE T2Expired(e)
      BY <3>1, <3>3, CloseTyped DEF T2Expired, TypeOK
    <3> QED
      BY <2>13, <3>2, <3>3
  <2>14. ASSUME NEW e \in Endpoint, T1Deferred(e) \/ T2Deferred(e)
         PROVE  TypeOK'
    <3>1. /\ [t1[e] EXCEPT !.deferred = FALSE] \in Timer
          /\ [t2[e] EXCEPT !.deferred = FALSE] \in Timer
      BY TimerOperators DEF TypeOK, ChunkType
    <3>2. \A c \in ChunkType \cup {NoChunk} : Retransmit(e, c) =>
              net' \subseteq Packet /\ crashed' \in [Endpoint -> BOOLEAN]
      BY SendTyped DEF Retransmit, TypeOK
    <3>3. CASE T1Deferred(e)
      <4>1. t1[e].chunk \in ChunkType \cup {NoChunk}
        BY DEF TypeOK, Timer
      <4> QED
        BY <3>1, <3>2, <3>3, <4>1 DEF T1Deferred, TypeOK
    <3>4. CASE T2Deferred(e)
      <4>1. t2[e].chunk \in ChunkType \cup {NoChunk}
        BY DEF TypeOK, Timer
      <4> QED
        BY <3>1, <3>2, <3>4, <4>1 DEF T2Deferred, TypeOK
    <3> QED
      BY <2>14, <3>3, <3>4
  <2>15. ASSUME NEW e \in Endpoint, PeerShutdown(e)
         PROVE  TypeOK'
    BY <2>15 DEF PeerShutdown, TypeOK, Packet, ChunkType
  <2> QED
    BY <2>1, <2>2, <2>3, <2>4, <2>5, <2>6, <2>7, <2>8, <2>9, <2>10, <2>11, <2>12,
       <2>13, <2>14, <2>15 DEF Next
<1> QED
  BY <1>1, <1>2, PTL DEF Spec

-----------------------------------------------------------------------------
(* The inductive invariant.  What is sent stays sent, so each action is judged *)
(* by the one packet it may add.                                               *)

\* The handle and the chunk that each timer function leaves.
LEMMA TimerFacts ==
    ASSUME NEW t \in Timer, NEW c \in ChunkType
    PROVE  /\ Start(t, c).armed /\ Start(t, c).chunk = c
           /\ ~Cancel(t).armed
           /\ Cancel(t).chunk \in {NoChunk, t.chunk}
           /\ Rearm(t).armed = t.armed /\ Rearm(t).chunk = t.chunk
           /\ ~GiveUp(t).armed /\ GiveUp(t).chunk = t.chunk
           /\ [t EXCEPT !.deferred = FALSE].armed = t.armed
           /\ [t EXCEPT !.deferred = FALSE].chunk = t.chunk
BY DEF Start, Cancel, Rearm, GiveUp, Timer

\* The part of the invariant that speaks of the endpoints alone, not of the network.
Local ==
    /\ HandshakeIsTimed
    /\ NoStrayT1
    /\ ShutdownIsTimed
    /\ TimerChunks
    /\ WaitingIsConnecting

\* setState(CLOSED) keeps it, whichever timer has just given up.
LEMMA CloseLocal ==
    ASSUME TypeOK, Local, NEW e \in Endpoint, NEW x \in Timer, NEW y \in Timer,
           x.chunk = t1[e].chunk, y.chunk = t2[e].chunk, Close(e, x, y),
           UNCHANGED started
    PROVE  Local'
<1>1. /\ ~Cancel(x).armed /\ Cancel(x).chunk \in {NoChunk, x.chunk}
      /\ ~Cancel(y).armed /\ Cancel(y).chunk \in {NoChunk, y.chunk}
  BY DEF Cancel, Timer
<1>2. /\ assoc'[e] = "CLOSED" /\ conn'[e] = "closed"
      /\ t1'[e] = Cancel(x) /\ t2'[e] = Cancel(y)
      /\ \A f \in Endpoint \ {e} : /\ assoc'[f] = assoc[f] /\ conn'[f] = conn[f]
                                   /\ t1'[f] = t1[f] /\ t2'[f] = t2[f]
  BY DEF Close, TypeOK
<1>3. Client \in Endpoint /\ Server \in Endpoint
  BY DEF Endpoint
<1>4. HandshakeIsTimed' /\ WaitingIsConnecting'
  BY <1>2, <1>3 DEF Local, HandshakeIsTimed, WaitingIsConnecting
<1>5. NoStrayT1'
  BY <1>1, <1>2 DEF Local, NoStrayT1
<1>6. ShutdownIsTimed'
  BY <1>1, <1>2 DEF Local, ShutdownIsTimed
<1>7. TimerChunks'
  <2>1. ~t1'[Server].armed /\ t1'[Server].chunk = NoChunk
    BY <1>1, <1>2, <1>3 DEF Local, TimerChunks
  <2>2. t1'[Client].chunk \in {NoChunk, "INIT", "COOKIE_ECHO"}
    BY <1>1, <1>2, <1>3 DEF Local, TimerChunks
  <2>3. \A f \in Endpoint : t2'[f].chunk \in {NoChunk, "SHUTDOWN_ACK"}
    BY <1>1, <1>2 DEF Local, TimerChunks
  <2> QED
    BY <2>1, <2>2, <2>3 DEF TimerChunks
<1> QED
  BY <1>4, <1>5, <1>6, <1>7 DEF Local

\* Every step keeps the timers, the announced state and the association state of
\* each endpoint in agreement.
LEMMA LocalStep == TypeOK /\ Local /\ [Next]_vars => Local'
<1> SUFFICES ASSUME TypeOK, Local, [Next]_vars PROVE Local'
  OBVIOUS
<1> USE DEF Endpoint
<1>0. /\ t1 \in [Endpoint -> Timer] /\ t2 \in [Endpoint -> Timer]
      /\ assoc \in [Endpoint -> AssociationState]
      /\ conn \in [Endpoint -> ConnectionState]
      /\ started \in [Endpoint -> BOOLEAN]
      /\ Client # Server
  BY EndpointAssumption DEF TypeOK
<1>1. CASE UNCHANGED vars
  BY <1>1 DEF vars, Local, HandshakeIsTimed, NoStrayT1, ShutdownIsTimed, TimerChunks,
              WaitingIsConnecting
<1>2. CASE StartClient
  <2>1. Start(t1[Client], "INIT").armed /\ Start(t1[Client], "INIT").chunk = "INIT"
    BY <1>0, TimerFacts DEF ChunkType
  <2> QED
    BY <1>0, <1>2, <2>1
    DEF StartClient, Local, HandshakeIsTimed, NoStrayT1, ShutdownIsTimed, TimerChunks,
        WaitingIsConnecting
<1>3. CASE StartServer
  BY <1>0, <1>3 DEF StartServer, Local, HandshakeIsTimed, NoStrayT1, ShutdownIsTimed,
                    TimerChunks, WaitingIsConnecting
<1>4. CASE HandleInit \/ HandleStaleCookieEcho \/ CookieExpires
  BY <1>4 DEF HandleInit, HandleStaleCookieEcho, CookieExpires, Local, HandshakeIsTimed,
              NoStrayT1, ShutdownIsTimed, TimerChunks, WaitingIsConnecting
<1>5. CASE HandleInitAck
  <2> DEFINE new == Start(Cancel(t1[Client]), "COOKIE_ECHO")
  <2>1. Cancel(t1[Client]) \in Timer
    BY <1>0, TimerOperators DEF ChunkType
  <2>2. new.armed /\ new.chunk = "COOKIE_ECHO"
    BY <2>1, TimerFacts DEF ChunkType
  <2> HIDE DEF new
  <2>3. t1' = [t1 EXCEPT ![Client] = new]
    BY <1>5 DEF HandleInitAck, new
  <2> QED
    BY <1>0, <1>5, <2>2, <2>3
    DEF HandleInitAck, Local, HandshakeIsTimed, NoStrayT1, ShutdownIsTimed, TimerChunks,
        WaitingIsConnecting
<1>6. CASE HandleCookieEcho
  BY <1>0, <1>6 DEF HandleCookieEcho, Establish, Local, HandshakeIsTimed, NoStrayT1,
                    ShutdownIsTimed, TimerChunks, WaitingIsConnecting
<1>7. CASE HandleCookieAck
  <2>1. ~Cancel(t1[Client]).armed /\ Cancel(t1[Client]).chunk \in {NoChunk, t1[Client].chunk}
    BY <1>0, TimerFacts DEF ChunkType
  <2> QED
    BY <1>0, <1>7, <2>1
    DEF HandleCookieAck, Establish, Local, HandshakeIsTimed, NoStrayT1, ShutdownIsTimed,
        TimerChunks, WaitingIsConnecting
<1>8. ASSUME NEW e \in Endpoint, Stop(e) \/ DtlsClosed(e) \/ HandleAbort(e)
      PROVE  Local'
  BY <1>0, <1>8, CloseLocal DEF Stop, DtlsClosed, HandleAbort
<1>9. ASSUME NEW e \in Endpoint, HandleShutdown(e)
      PROVE  Local'
  <2> DEFINE new == Start(Cancel(t2[e]), "SHUTDOWN_ACK")
  <2>1. Cancel(t2[e]) \in Timer
    BY <1>0, TimerOperators DEF ChunkType
  <2>2. new.armed /\ new.chunk = "SHUTDOWN_ACK"
    BY <2>1, TimerFacts DEF ChunkType
  <2> HIDE DEF new
  <2>3. t2' = [t2 EXCEPT ![e] = new]
    BY <1>9 DEF HandleShutdown, new
  <2> QED
    BY <1>0, <1>9, <2>2, <2>3
    DEF HandleShutdown, Local, HandshakeIsTimed, NoStrayT1, ShutdownIsTimed, TimerChunks,
        WaitingIsConnecting
<1>10. ASSUME NEW e \in Endpoint, HandleShutdownComplete(e)
       PROVE  Local'
  <2>1. assoc[e] # "SHUTDOWN_ACK_SENT"
    BY <1>0 DEF AssociationState
  <2> QED
    BY <1>10, <2>1
    DEF HandleShutdownComplete, Local, HandshakeIsTimed, NoStrayT1, ShutdownIsTimed,
        TimerChunks, WaitingIsConnecting
<1>11. ASSUME NEW e \in Endpoint, T1Expired(e)
       PROVE  Local'
  <2>1. /\ GiveUp(t1[e]) \in Timer /\ GiveUp(t1[e]).chunk = t1[e].chunk
        /\ Rearm(t1[e]).armed = t1[e].armed /\ Rearm(t1[e]).chunk = t1[e].chunk
    <3>1. t1[e] \in Timer /\ "INIT" \in ChunkType
      BY <1>0 DEF ChunkType
    <3> QED
      BY <3>1, TimerOperators, TimerFacts
  <2>2. CASE t1[e].failures + 1 > MaxInitRetrans
    BY <1>0, <1>11, <2>1, <2>2, CloseLocal DEF T1Expired
  <2>3. CASE ~(t1[e].failures + 1 > MaxInitRetrans)
    BY <1>0, <1>11, <2>1, <2>3
    DEF T1Expired, Local, HandshakeIsTimed, NoStrayT1, ShutdownIsTimed, TimerChunks,
        WaitingIsConnecting
  <2> QED
    BY <2>2, <2>3
<1>12. ASSUME NEW e \in Endpoint, T2Expired(e)
       PROVE  Local'
  <2>1. /\ GiveUp(t2[e]) \in Timer /\ GiveUp(t2[e]).chunk = t2[e].chunk
        /\ Rearm(t2[e]).armed = t2[e].armed /\ Rearm(t2[e]).chunk = t2[e].chunk
    <3>1. t2[e] \in Timer /\ "INIT" \in ChunkType
      BY <1>0 DEF ChunkType
    <3> QED
      BY <3>1, TimerOperators, TimerFacts
  <2>2. CASE t2[e].failures + 1 > MaxAssocRetrans
    BY <1>0, <1>12, <2>1, <2>2, CloseLocal DEF T2Expired
  <2>3. CASE ~(t2[e].failures + 1 > MaxAssocRetrans)
    BY <1>0, <1>12, <2>1, <2>3
    DEF T2Expired, Local, HandshakeIsTimed, NoStrayT1, ShutdownIsTimed, TimerChunks,
        WaitingIsConnecting
  <2> QED
    BY <2>2, <2>3
<1>13. ASSUME NEW e \in Endpoint, T1Deferred(e) \/ T2Deferred(e)
       PROVE  Local'
  <2> DEFINE d1 == [t1[e] EXCEPT !.deferred = FALSE]
             d2 == [t2[e] EXCEPT !.deferred = FALSE]
  <2>1. /\ d1.armed = t1[e].armed /\ d1.chunk = t1[e].chunk
        /\ d2.armed = t2[e].armed /\ d2.chunk = t2[e].chunk
    BY <1>0, TimerFacts DEF ChunkType
  <2>2. /\ t1' = [t1 EXCEPT ![e] = d1] \/ t1' = t1
        /\ t2' = [t2 EXCEPT ![e] = d2] \/ t2' = t2
        /\ UNCHANGED <<assoc, conn, started>>
    BY <1>13 DEF T1Deferred, T2Deferred
  <2> HIDE DEF d1, d2
  <2> QED
    BY <1>0, <2>1, <2>2
    DEF Local, HandshakeIsTimed, NoStrayT1, ShutdownIsTimed, TimerChunks,
        WaitingIsConnecting
<1>14. ASSUME NEW e \in Endpoint, PeerShutdown(e)
       PROVE  Local'
  BY <1>14 DEF PeerShutdown, Local, HandshakeIsTimed, NoStrayT1, ShutdownIsTimed,
               TimerChunks, WaitingIsConnecting
<1> QED
  BY <1>1, <1>2, <1>3, <1>4, <1>5, <1>6, <1>7, <1>8, <1>9, <1>10, <1>11, <1>12, <1>13,
     <1>14 DEF Next

\* An action that leaves the timers, the association state, the tags and the
\* started flags of an endpoint alone and sends nothing of the handshake keeps
\* what the handshake chunks show.
LEMMA EvidenceKept ==
    ASSUME HandshakeEvidence, net \subseteq net',
           \A t \in {"INIT_ACK", "COOKIE_ECHO", "COOKIE_ACK"} : Sent(t)' => Sent(t),
           t1'[Client].chunk = "COOKIE_ECHO" => t1[Client].chunk = "COOKIE_ECHO",
           assoc'[Client] = "ESTABLISHED" => assoc[Client] = "ESTABLISHED",
           \A e \in Endpoint : started[e] => started'[e],
           \A e \in Endpoint : remoteTag[e] # NoTag => remoteTag'[e] = remoteTag[e]
    PROVE  HandshakeEvidence'
<1>1. \A t \in {"INIT_ACK", "COOKIE_ECHO", "COOKIE_ACK"} : Sent(t)' <=> Sent(t)
  BY DEF Sent
<1>2. Client \in Endpoint /\ Server \in Endpoint
  BY DEF Endpoint
<1>3. Client # NoTag /\ Server # NoTag
  BY EndpointAssumption
<1> QED
  BY <1>1, <1>2, <1>3 DEF HandshakeEvidence

\* Every step keeps what the handshake chunks show about the two ends.
LEMMA EvidenceStep == TypeOK /\ Local /\ HandshakeEvidence /\ [Next]_vars => HandshakeEvidence'
<1> SUFFICES ASSUME TypeOK, Local, HandshakeEvidence, [Next]_vars PROVE HandshakeEvidence'
  OBVIOUS
<1> USE DEF Endpoint
<1>0. /\ t1 \in [Endpoint -> Timer]
      /\ assoc \in [Endpoint -> AssociationState]
      /\ remoteTag \in [Endpoint -> Endpoint \cup {NoTag}]
      /\ started \in [Endpoint -> BOOLEAN]
      /\ Client # Server /\ Client # NoTag /\ Server # NoTag
  BY EndpointAssumption DEF TypeOK
<1>1. CASE UNCHANGED vars
  BY <1>1 DEF vars, HandshakeEvidence, Sent
<1>2. CASE StartClient
  <2>1. t1'[Client].chunk = "INIT"
    BY <1>0, <1>2, TimerFacts DEF StartClient, ChunkType
  <2>2. \A p \in net' \ net : p.type = "INIT"
    BY <1>2 DEF StartClient
  <2> QED
    BY <1>0, <1>2, <2>1, <2>2, EvidenceKept DEF StartClient, Sent
<1>3. CASE StartServer
  BY <1>0, <1>3, EvidenceKept DEF StartServer, Sent
<1>4. CASE HandleInit
  <2>1. net \subseteq net' /\ \A p \in net' \ net : p.type = "INIT_ACK"
    BY <1>4 DEF HandleInit, Send
  <2>2. remoteTag'[Server] = Client /\ remoteTag'[Client] = remoteTag[Client]
    BY <1>0, <1>4 DEF HandleInit
  <2>3. /\ Sent("COOKIE_ECHO")' <=> Sent("COOKIE_ECHO")
        /\ Sent("COOKIE_ACK")' <=> Sent("COOKIE_ACK")
    BY <2>1 DEF Sent
  <2> QED
    BY <1>0, <1>4, <2>2, <2>3 DEF HandleInit, HandshakeEvidence
<1>5. CASE HandleInitAck
  <2>1. net \subseteq net' /\ \A p \in net' \ net : p.type = "COOKIE_ECHO"
    BY <1>5 DEF HandleInitAck, Send
  <2>2. Sent("INIT_ACK")
    BY <1>5 DEF HandleInitAck, Arrives, Sent
  <2>3. started[Client] /\ remoteTag[Server] = Client
    BY <1>5, <2>2 DEF HandleInitAck, HandshakeEvidence, Local, WaitingIsConnecting
  <2>4. Sent("COOKIE_ACK")' => Sent("COOKIE_ECHO")'
    BY <2>1 DEF Sent, HandshakeEvidence
  <2> QED
    BY <1>0, <1>5, <2>3, <2>4 DEF HandleInitAck, HandshakeEvidence
<1>6. CASE HandleCookieEcho
  <2>1. net \subseteq net' /\ \A p \in net' \ net : p.type = "COOKIE_ACK"
    BY <1>6 DEF HandleCookieEcho, Send
  <2>2. Sent("COOKIE_ECHO") /\ Sent("COOKIE_ECHO")'
    BY <1>6, <2>1 DEF HandleCookieEcho, Arrives, Sent
  <2>3. Sent("INIT_ACK")' => Sent("INIT_ACK")
    BY <2>1 DEF Sent
  <2>4. Sent("COOKIE_ACK") => Sent("COOKIE_ACK")'
    BY <2>1 DEF Sent
  <2>5. assoc'[Client] = assoc[Client]
    BY <1>0, <1>6 DEF HandleCookieEcho, Establish
  <2> QED
    BY <1>6, <2>2, <2>3, <2>4, <2>5 DEF HandleCookieEcho, HandshakeEvidence
<1>7. CASE HandleStaleCookieEcho
  <2>1. net \subseteq net' /\ \A p \in net' \ net : p.type = "ERROR"
    BY <1>7 DEF HandleStaleCookieEcho, Send
  <2> QED
    BY <1>0, <1>7, <2>1, EvidenceKept DEF HandleStaleCookieEcho, Sent
<1>8. CASE HandleCookieAck
  <2>1. Sent("COOKIE_ACK")
    BY <1>8 DEF HandleCookieAck, Arrives, Sent
  <2>2. t1'[Client].chunk \in {NoChunk, t1[Client].chunk}
    BY <1>0, <1>8, TimerFacts DEF HandleCookieAck, ChunkType
  <2>3. \A t : Sent(t)' <=> Sent(t)
    BY <1>8 DEF HandleCookieAck, Sent
  <2> QED
    BY <1>8, <2>1, <2>2, <2>3 DEF HandleCookieAck, HandshakeEvidence, NoChunk
<1>9. CASE CookieExpires
  BY <1>0, <1>9, EvidenceKept DEF CookieExpires, Sent
<1>10. ASSUME NEW e \in Endpoint, NEW x \in Timer, NEW y \in Timer, Close(e, x, y),
              x.chunk = t1[e].chunk, net \subseteq net',
              \A p \in net' \ net : p.type = "ABORT", UNCHANGED <<started, remoteTag>>
       PROVE  HandshakeEvidence'
  <2>1. Cancel(x).chunk \in {NoChunk, x.chunk}
    BY <1>10 DEF Cancel
  <2>2. t1'[Client].chunk = "COOKIE_ECHO" => t1[Client].chunk = "COOKIE_ECHO"
    BY <1>0, <1>10, <2>1 DEF Close, NoChunk
  <2>3. assoc'[Client] = "ESTABLISHED" => assoc[Client] = "ESTABLISHED"
    BY <1>0, <1>10 DEF Close
  <2> QED
    BY <1>0, <1>10, <2>2, <2>3, EvidenceKept DEF Sent
<1>11. ASSUME NEW e \in Endpoint, Stop(e) \/ DtlsClosed(e) \/ HandleAbort(e)
       PROVE  HandshakeEvidence'
  <2>1. net \subseteq net' /\ \A p \in net' \ net : p.type = "ABORT"
    BY <1>11 DEF Stop, DtlsClosed, HandleAbort, Send
  <2>2. t2[e] \in Timer
    BY DEF TypeOK
  <2> QED
    BY <1>0, <1>10, <1>11, <2>1, <2>2 DEF Stop, DtlsClosed, HandleAbort
<1>12. ASSUME NEW e \in Endpoint, HandleShutdown(e)
       PROVE  HandshakeEvidence'
  <2>1. net \subseteq net' /\ \A p \in net' \ net : p.type = "SHUTDOWN_ACK"
    BY <1>12 DEF HandleShutdown, Send
  <2> QED
    BY <1>0, <1>12, <2>1, EvidenceKept DEF HandleShutdown, Sent
<1>13. ASSUME NEW e \in Endpoint, HandleShutdownComplete(e)
       PROVE  HandshakeEvidence'
  <2>1. assoc[e] # "SHUTDOWN_ACK_SENT"
    BY <1>0 DEF AssociationState
  <2> QED
    BY <1>0, <1>13, <2>1, EvidenceKept DEF HandleShutdownComplete, Sent
<1>14. ASSUME NEW e \in Endpoint, T1Expired(e) \/ T2Expired(e)
       PROVE  HandshakeEvidence'
  <2>0. t1[e] \in Timer /\ t2[e] \in Timer /\ "INIT" \in ChunkType
    BY DEF TypeOK, ChunkType
  <2>1. /\ GiveUp(t1[e]) \in Timer /\ GiveUp(t1[e]).chunk = t1[e].chunk
        /\ GiveUp(t2[e]) \in Timer
        /\ Rearm(t1[e]).chunk = t1[e].chunk
    BY <2>0, TimerOperators, TimerFacts
  <2>2. UNCHANGED <<net, started, remoteTag>>
    BY <1>14 DEF T1Expired, T2Expired
  <2>3. CASE \E x, y \in Timer : x.chunk = t1[e].chunk /\ Close(e, x, y)
    BY <1>10, <2>2, <2>3
  <2>4. CASE UNCHANGED assoc /\ (t1' = t1 \/ t1' = [t1 EXCEPT ![e] = Rearm(t1[e])])
    BY <1>0, <2>1, <2>2, <2>4, EvidenceKept DEF Sent
  <2>5. \/ \E x, y \in Timer : x.chunk = t1[e].chunk /\ Close(e, x, y)
        \/ UNCHANGED assoc /\ (t1' = t1 \/ t1' = [t1 EXCEPT ![e] = Rearm(t1[e])])
    BY <1>14, <2>0, <2>1 DEF T1Expired, T2Expired
  <2> QED
    BY <2>3, <2>4, <2>5
<1>15. ASSUME NEW e \in Endpoint, T2Deferred(e)
       PROVE  HandshakeEvidence'
  <2>1. net \subseteq net' /\ \A p \in net' \ net : p.type = "SHUTDOWN_ACK"
    BY <1>15 DEF T2Deferred, Retransmit, Send, Local, TimerChunks
  <2> QED
    BY <1>0, <1>15, <2>1, EvidenceKept DEF T2Deferred, Sent
<1>16. ASSUME NEW e \in Endpoint, T1Deferred(e)
       PROVE  HandshakeEvidence'
  <2>1. net \subseteq net' /\ \A p \in net' \ net : p.type = t1[e].chunk /\ p.type # NoChunk
    BY <1>16 DEF T1Deferred, Retransmit, Send
  <2>2. t1'[Client].chunk = t1[Client].chunk
    <3>1. [t1[e] EXCEPT !.deferred = FALSE].chunk = t1[e].chunk
      BY <1>0, TimerFacts DEF ChunkType
    <3> QED
      BY <1>0, <1>16, <3>1 DEF T1Deferred
  <2>3. \A t \in {"INIT_ACK", "COOKIE_ACK"} : Sent(t)' => Sent(t)
    BY <2>1 DEF Sent, Local, TimerChunks
  <2>4. Sent("COOKIE_ECHO")' => Sent("COOKIE_ECHO") \/ t1[Client].chunk = "COOKIE_ECHO"
    BY <2>1 DEF Sent, Local, TimerChunks
  <2>5. \A t : Sent(t) => Sent(t)'
    BY <2>1 DEF Sent
  <2> QED
    BY <1>16, <2>2, <2>3, <2>4, <2>5 DEF T1Deferred, HandshakeEvidence
<1>17. ASSUME NEW e \in Endpoint, PeerShutdown(e)
       PROVE  HandshakeEvidence'
  <2>1. net \subseteq net' /\ \A p \in net' \ net : p.type \in {"SHUTDOWN", "SHUTDOWN_COMPLETE"}
    BY <1>17 DEF PeerShutdown
  <2> QED
    BY <1>0, <1>17, <2>1, EvidenceKept DEF PeerShutdown, Sent
<1> QED
  BY <1>1, <1>2, <1>3, <1>4, <1>5, <1>6, <1>7, <1>8, <1>9, <1>11, <1>12, <1>13, <1>14,
     <1>15, <1>16, <1>17 DEF Next

-----------------------------------------------------------------------------
(* The theorems *)

\* Before anything is sent the inductive invariant holds.
LEMMA InitIInv == Init => IInv
<1> SUFFICES ASSUME Init PROVE IInv
  OBVIOUS
<1>1. TypeOK
  <2>1. Idle \in Timer
    BY DEF Idle, Timer
  <2>2. t1 \in [Endpoint -> Timer] /\ t2 \in [Endpoint -> Timer]
    BY <2>1 DEF Init
  <2> QED
    BY <2>2 DEF Init, TypeOK, AssociationState, ConnectionState
<1>2. Client \in Endpoint /\ Server \in Endpoint
  BY DEF Endpoint
<1>3. /\ \A e \in Endpoint : ~t1[e].armed /\ t1[e].chunk = NoChunk /\ t2[e].chunk = NoChunk
      /\ \A e \in Endpoint : assoc[e] = "CLOSED"
      /\ \A type : ~Sent(type)
  BY DEF Init, Idle, Sent
<1> QED
  BY <1>1, <1>2, <1>3
  DEF IInv, HandshakeIsTimed, NoStrayT1, ShutdownIsTimed, TimerChunks,
      WaitingIsConnecting, HandshakeEvidence, NoChunk

\* The inductive invariant holds in every reachable state.
THEOREM Invariance == Spec => []IInv
<1>1. IInv /\ [Next]_vars /\ TypeOK' => IInv'
  BY LocalStep, EvidenceStep DEF IInv, Local
<1> QED
  BY <1>1, InitIInv, TypeCorrect, PTL DEF Spec

\* When the client is established the server, started or not, has sent the COOKIE_ACK,
\* and each end sends with the tag that the other one expects (TagsAgree).
THEOREM ClientFollowsServer == Spec => []TagsAgree
<1>1. IInv => TagsAgree
  BY DEF IInv, HandshakeEvidence, TagsAgree, Sent
<1> QED
  BY <1>1, Invariance, PTL

\* No T1 handle survives into an established or closed association (NoStrayT1).
THEOREM T1Withdrawn == Spec => []NoStrayT1
<1>1. IInv => NoStrayT1
  BY DEF IInv
<1> QED
  BY <1>1, Invariance, PTL

\* Wherever an endpoint waits for an answer a timer is armed and holds the chunk to
\* repeat: T1 for the client's handshake, T2 in SHUTDOWN_SENT (WaitIsTimed).
THEOREM WaitTimed == Spec => []WaitIsTimed
<1>1. IInv => WaitIsTimed
  BY DEF IInv, WaitIsTimed
<1> QED
  BY <1>1, Invariance, PTL

\* A started endpoint that is told 'closed' stays closed, but for a server that
\* receives a COOKIE_ECHO (ClosedIsFinal).
THEOREM ClosedStays == Spec => ClosedIsFinal
<1> DEFINE Final ==
      \A e \in Endpoint : started[e] /\ conn[e] = "closed" /\ conn'[e] # "closed" =>
          e = Server /\ Arrives(Server, "COOKIE_ECHO")
<1>1. IInv /\ [Next]_vars => [Final]_vars
  <2> SUFFICES ASSUME IInv, Next, NEW e \in Endpoint, started[e], conn[e] = "closed",
                      conn'[e] # "closed"
               PROVE  e = Server /\ Arrives(Server, "COOKIE_ECHO")
    OBVIOUS
  <2> USE DEF Endpoint
  <2>0. /\ conn \in [Endpoint -> ConnectionState]
        /\ assoc \in [Endpoint -> AssociationState]
        /\ Client # Server
    BY EndpointAssumption DEF IInv, TypeOK
  <2>1. CASE StartClient \/ StartServer
    BY <2>0, <2>1 DEF StartClient, StartServer
  <2>2. CASE HandleCookieEcho
    BY <2>0, <2>2 DEF HandleCookieEcho, Establish
  <2>3. CASE HandleCookieAck
    BY <2>0, <2>3 DEF HandleCookieAck, Establish, IInv, WaitingIsConnecting
  <2>4. CASE HandleInit \/ HandleInitAck \/ HandleStaleCookieEcho \/ CookieExpires
    BY <2>4 DEF HandleInit, HandleInitAck, HandleStaleCookieEcho, CookieExpires
  <2>5. ASSUME NEW f \in Endpoint,
               Stop(f) \/ DtlsClosed(f) \/ HandleAbort(f) \/ T1Expired(f) \/ T2Expired(f)
        PROVE  FALSE
    BY <2>0, <2>5 DEF Stop, DtlsClosed, HandleAbort, T1Expired, T2Expired, Close
  <2>6. ASSUME NEW f \in Endpoint,
               \/ HandleShutdown(f) \/ HandleShutdownComplete(f)
               \/ T1Deferred(f) \/ T2Deferred(f) \/ PeerShutdown(f)
        PROVE  FALSE
    BY <2>0, <2>6 DEF HandleShutdown, HandleShutdownComplete, T1Deferred, T2Deferred,
                      PeerShutdown, Close
  <2> QED
    BY <2>1, <2>2, <2>3, <2>4, <2>5, <2>6 DEF Next
<1>2. Spec => [][Final]_vars
  BY <1>1, Invariance, PTL DEF Spec
<1> QED
  BY <1>2 DEF ClosedIsFinal

\* An endpoint that stays closed sends nothing (SilentWhenClosed): what its handlers
\* send goes through sendChunk, and start() leaves the closed state.
THEOREM ClosedSendsNothing == Spec => SilentWhenClosed
<1> DEFINE Silent(e) == \A p \in net' \ net :
              p.to = Peer(e) => p.type \in {"SHUTDOWN", "SHUTDOWN_COMPLETE"}
<1>1. ASSUME TypeOK, [Next]_vars, NEW e \in Endpoint,
             conn[e] = "closed", conn'[e] = "closed"
      PROVE  Silent(e)
  <2>1. ASSUME NEW f \in Endpoint, NEW type, NEW tag, Send(f, type, tag)
        PROVE  Silent(e)
    <3>1. CASE f = e
      BY <1>1, <2>1, <3>1 DEF Send
    <3>2. CASE f # e
      <4>1. Peer(f) # Peer(e)
        BY <3>2, EndpointAssumption DEF Peer, Endpoint
      <4> QED
        BY <2>1, <4>1 DEF Send
    <3> QED
      BY <3>1, <3>2
  <2>2. CASE net' = net
    BY <2>2
  <2>3. CASE StartClient
    <3>1. conn'[Client] = "connecting" /\ e # Client
      BY <1>1, <2>3 DEF StartClient, TypeOK, Endpoint
    <3>2. Peer(e) = Client /\ Client # Server
      BY <3>1, EndpointAssumption DEF Peer, Endpoint
    <3> QED
      BY <2>3, <3>2 DEF StartClient
  <2>4. CASE HandleInit
    BY <2>1, <2>4 DEF HandleInit, Endpoint
  <2>5. CASE HandleInitAck
    BY <2>1, <2>5 DEF HandleInitAck, Endpoint
  <2>6. CASE HandleCookieEcho
    BY <2>1, <2>6 DEF HandleCookieEcho, Endpoint
  <2>7. CASE HandleStaleCookieEcho
    BY <2>1, <2>7 DEF HandleStaleCookieEcho, Endpoint
  <2>8. ASSUME NEW f \in Endpoint, Stop(f)
        PROVE  Silent(e)
    BY <2>1, <2>2, <2>8 DEF Stop
  <2>9. ASSUME NEW f \in Endpoint, HandleShutdown(f)
        PROVE  Silent(e)
    BY <2>1, <2>9 DEF HandleShutdown
  <2>10. ASSUME NEW f \in Endpoint, T1Deferred(f) \/ T2Deferred(f)
         PROVE  Silent(e)
    BY <2>1, <2>2, <2>10 DEF T1Deferred, T2Deferred, Retransmit
  <2>11. ASSUME NEW f \in Endpoint, PeerShutdown(f)
         PROVE  Silent(e)
    BY <2>11 DEF PeerShutdown
  <2>12. ASSUME NEW f \in Endpoint,
                \/ DtlsClosed(f) \/ HandleAbort(f) \/ HandleShutdownComplete(f)
                \/ T1Expired(f) \/ T2Expired(f)
         PROVE  Silent(e)
    BY <2>2, <2>12
    DEF DtlsClosed, HandleAbort, HandleShutdownComplete, T1Expired, T2Expired
  <2>13. CASE StartServer \/ HandleCookieAck \/ CookieExpires \/ UNCHANGED vars
    BY <2>2, <2>13 DEF StartServer, HandleCookieAck, CookieExpires, vars
  <2> QED
    BY <1>1, <2>3, <2>4, <2>5, <2>6, <2>7, <2>8, <2>9, <2>10, <2>11, <2>12, <2>13
    DEF Next
<1>2. TypeOK /\ [Next]_vars => [\A e \in Endpoint :
        conn[e] = "closed" /\ conn'[e] = "closed" => Silent(e)]_vars
  BY <1>1
<1> QED
  BY <1>2, TypeCorrect, PTL DEF SilentWhenClosed, Spec

\* The association implements what the data channel layer is promised
\* (AssociationService): every step is a step of that specification or a stutter.
THEOREM Refinement == Spec => ImplementsService
<1> USE DEF Endpoint, Service!Endpoint
<1>1. Init => Service!Init
  BY DEF Init, Service!Init
<1>2. IInv /\ [Next]_vars => [Service!Next]_(Service!vars)
  <2> SUFFICES ASSUME IInv, [Next]_vars PROVE [Service!Next]_(Service!vars)
    OBVIOUS
  <2> DEFINE answered == \E p \in net : p.type = "COOKIE_ACK"
  <2>0. /\ conn \in [Endpoint -> ConnectionState]
        /\ started \in [Endpoint -> BOOLEAN]
        /\ Client # Server
    BY EndpointAssumption DEF IInv, TypeOK
  <2>1. CASE UNCHANGED vars
    BY <2>1 DEF vars, Service!vars
  <2>2. CASE StartClient
    <3>1. Service!Begin(Client)
      BY <2>0, <2>2 DEF StartClient, Service!Begin
    <3> QED
      BY <3>1 DEF Service!Next
  <2>3. CASE StartServer
    <3>1. Service!Begin(Server)
      BY <2>0, <2>3 DEF StartServer, Service!Begin
    <3> QED
      BY <3>1 DEF Service!Next
  <2>4. CASE HandleInit \/ HandleInitAck \/ HandleStaleCookieEcho \/ CookieExpires
    BY <2>4 DEF HandleInit, HandleInitAck, HandleStaleCookieEcho, CookieExpires, Send,
                Service!vars
  <2>5. CASE HandleCookieEcho
    <3>1. started[Client]
      BY <2>5 DEF HandleCookieEcho, Arrives, IInv, HandshakeEvidence, Sent
    <3>2. answered' <=> answered \/ conn[Server] # "closed"
      <4>1. CASE conn[Server] = "closed"
        BY <2>5, <4>1 DEF HandleCookieEcho, Send
      <4>2. CASE conn[Server] # "closed"
        <5> DEFINE ack == [type |-> "COOKIE_ACK", to |-> Peer(Server),
                           tag |-> remoteTag[Server]]
        <5>1. ack \in net'
          BY <2>5, <4>2 DEF HandleCookieEcho, Send
        <5> QED
          BY <4>2, <5>1
      <4> QED
        BY <4>1, <4>2
    <3>3. Service!Accept
      BY <2>0, <2>5, <3>1, <3>2 DEF HandleCookieEcho, Establish, Service!Accept
    <3> QED
      BY <3>3 DEF Service!Next
  <2>6. CASE HandleCookieAck
    <3>1. answered /\ conn[Client] = "connecting"
      BY <2>6 DEF HandleCookieAck, Arrives, IInv, WaitingIsConnecting
    <3>2. Service!Confirm
      BY <2>6, <3>1 DEF HandleCookieAck, Establish, Service!Confirm
    <3> QED
      BY <3>2 DEF Service!Next
  <2>7. ASSUME NEW e \in Endpoint,
               Stop(e) \/ DtlsClosed(e) \/ HandleAbort(e) \/ T1Expired(e) \/ T2Expired(e)
        PROVE  [Service!Next]_(Service!vars)
    <3>1. answered' <=> answered
      BY <2>7 DEF Stop, DtlsClosed, HandleAbort, T1Expired, T2Expired, Send
    <3>2. UNCHANGED started /\ (UNCHANGED conn \/ conn' = [conn EXCEPT ![e] = "closed"])
      BY <2>7 DEF Stop, DtlsClosed, HandleAbort, T1Expired, T2Expired, Close
    <3> QED
      BY <3>1, <3>2 DEF Service!Next, Service!Drop, Service!vars
  <2>8. ASSUME NEW e \in Endpoint, HandleShutdown(e) \/ PeerShutdown(e)
        PROVE  [Service!Next]_(Service!vars)
    <3>1. answered' <=> answered
      BY <2>8 DEF HandleShutdown, PeerShutdown, Send
    <3> QED
      BY <2>8, <3>1 DEF HandleShutdown, PeerShutdown, Service!vars
  <2>9. ASSUME NEW e \in Endpoint, HandleShutdownComplete(e)
        PROVE  [Service!Next]_(Service!vars)
    <3>1. assoc[e] # "SHUTDOWN_ACK_SENT"
      BY DEF IInv, TypeOK, AssociationState
    <3> QED
      BY <2>9, <3>1 DEF HandleShutdownComplete, Service!vars
  <2>10. ASSUME NEW e \in Endpoint, T1Deferred(e) \/ T2Deferred(e)
         PROVE  [Service!Next]_(Service!vars)
    <3>1. t1[e].chunk # "COOKIE_ACK" /\ t2[e].chunk # "COOKIE_ACK"
      BY <2>0 DEF IInv, TimerChunks, NoChunk
    <3>2. answered' <=> answered
      BY <2>10, <3>1 DEF T1Deferred, T2Deferred, Retransmit, Send
    <3> QED
      BY <2>10, <3>2 DEF T1Deferred, T2Deferred, Service!vars
  <2> QED
    BY <2>1, <2>2, <2>3, <2>4, <2>5, <2>6, <2>7, <2>8, <2>9, <2>10 DEF Next
<1>3. Spec => Service!Spec
  BY <1>1, <1>2, Invariance, PTL DEF Spec, Service!Spec
<1> QED
  BY <1>3 DEF ImplementsService
=============================================================================
