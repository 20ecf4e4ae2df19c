------------------------------ MODULE DtlsHandshake ------------------------------
(* The DTLS handshake between one client and one server: src/src/dtls/client.ts, *)
(* server.ts, socket.ts, the flights of src/src/dtls/flight, and the state of the*)
(* RTCDtlsTransport that owns each end (src/src/transport/dtls.ts).              *)
(*                                                                              *)
(* A flight is a group of handshake messages.  Flights 1, 3, 4 and 5 are sent    *)
(* by a retransmission loop of their own (Flight.transmit), which sleeps, looks  *)
(* at dtls.flight and either ends, sends again or, after RetransmitCount         *)
(* retransmissions, throws.  Handlers are asynchronous: one that misses what it  *)
(* needs polls for it (waitForReady) while other messages are handled.           *)
(*                                                                              *)
(* What is abstracted: randoms, key pairs and transcripts are named by the       *)
(* cookie of the HelloVerifyRequest they were drawn with (flight2 draws all of   *)
(* them), and so is the key both ends derive from them.  Wrong is a key derived  *)
(* from material the peer does not have: no record under it is ever readable.    *)
(* A record sent in the clear after the sender has entered epoch 1 is not        *)
(* readable either, and is left out of the network.                             *)
EXTENDS Naturals

CONSTANTS
    RetransmitCount,    \* Flight.RetransmitCount (10 in the code)
    MaxCookies          \* bound: HelloVerifyRequests the server draws a cookie for

ASSUME RetransmitCountAssumption == RetransmitCount \in Nat
ASSUME MaxCookiesAssumption == MaxCookies \in Nat \ {0}

Client == "client"
Server == "server"
Endpoint == {Client, Server}

Cookie == 1..MaxCookies
NoCookie == 0                       \* the empty cookie of the first ClientHello
NoKey == 0                          \* cipher.cipher not created yet
Wrong == MaxCookies + 1
Key == {NoKey, Wrong} \cup Cookie

VARIABLES
    client,     \* DtlsClient: flight, what is cached, key and epoch, connected
    server,     \* DtlsServer: flight, cookie, key, connected
    loops,      \* per endpoint, the Flight.transmit loops that are asleep
    waits,      \* handlers of the client that poll in waitForReady
    state,      \* RTCDtlsTransport.state of each endpoint
    net,        \* every message ever sent: may be lost, reordered, repeated
    issued      \* number of cookies drawn so far

vars == <<client, server, loops, waits, state, net, issued>>

Message ==
         [type : {"ClientHello"}, cookie : Cookie \cup {NoCookie}]
    \cup [type : {"HelloVerify", "ServerHello", "Certificate", "ServerKeyExchange",
                  "ServerHelloDone", "ClientKeyExchange",
                  "ClientFinished", "ServerFinished"}, cookie : Cookie]

Loop == [flight : {1, 3, 4, 5}, n : 0..RetransmitCount]

Msg(type, cookie) == [type |-> type, cookie |-> cookie]

(* A handler that polls: for flight5 to exist before it handles a message of     *)
(* flight 4, or for the messages in Needed to be cached before it runs flight 5. *)
Polled == {"Certificate", "ServerKeyExchange", "ServerHelloDone"}
Needed == {"Certificate", "ServerKeyExchange"}
Wait == [for : {"flight5"}, message : {m \in Message : m.type \in Polled}]
   \cup [for : {"cache"}]
ForFlight5(m) == [for |-> "flight5", message |-> m]
ForCache == [for |-> "cache"]

Init ==
    /\ client = [flight |-> 0, cached |-> {}, flight5 |-> FALSE, offered |-> NoCookie,
                 key |-> NoKey, epoch |-> 0, connected |-> FALSE]
    /\ server = [flight |-> 0, cookie |-> NoCookie, key |-> NoKey,
                 connected |-> FALSE, renegotiated |-> FALSE]
    /\ loops = [e \in Endpoint |-> {}]
    /\ waits = {}
    /\ state = [e \in Endpoint |-> "connecting"]
    /\ net = {}
    /\ issued = 0

-----------------------------------------------------------------------------
(* Flight.transmit and the state of the transport.                              *)

(* transmit() up to its first sleep: the messages are out, the loop is asleep.   *)
Transmit(e, flight, messages) ==
    /\ net' = net \cup messages
    /\ loops' = [loops EXCEPT ![e] = @ \cup {[flight |-> flight, n |-> 0]}]

(* Variant: the loop looks for its own flight instead of the next one.           *)
NextFlightIsThis(f) == f

(* The flight whose start ends the retransmission of flight f.                   *)
NextFlight(f) == f + 2

FlightOf(e) == IF e = Client THEN client.flight ELSE server.flight

Fail(e) == state' = [state EXCEPT ![e] = "failed"]

(* Variant: the loop ends in silence after its last retransmission.              *)
ExpireSilently(e, l) ==
    /\ loops' = [loops EXCEPT ![e] =
                    IF FlightOf(e) < NextFlight(l.flight) /\ l.n < RetransmitCount
                    THEN (@ \ {l}) \cup {[l EXCEPT !.n = @ + 1]}
                    ELSE @ \ {l}]
    /\ UNCHANGED <<client, server, waits, state, net, issued>>

(* A loop wakes up: the next flight has begun and it ends, or it sends again, or *)
(* it has sent often enough and throws, and RTCDtlsTransport turns to failed.    *)
Expire(e, l) ==
    /\ loops' = [loops EXCEPT ![e] =
                    IF FlightOf(e) < NextFlight(l.flight) /\ l.n < RetransmitCount
                    THEN (@ \ {l}) \cup {[l EXCEPT !.n = @ + 1]}
                    ELSE @ \ {l}]
    /\ IF FlightOf(e) < NextFlight(l.flight) /\ l.n = RetransmitCount
       THEN Fail(e)
       ELSE UNCHANGED state
    /\ UNCHANGED <<client, server, waits, net, issued>>

(* RTCDtlsTransport.stop(): no alert is sent, no loop and no handler is stopped. *)
Stop(e) ==
    /\ state[e] # "closed"
    /\ state' = [state EXCEPT ![e] = "closed"]
    /\ UNCHANGED <<client, server, loops, waits, net, issued>>

-----------------------------------------------------------------------------
(* The client.                                                                  *)

(* DtlsClient.connect(): flight 1.                                              *)
Connect ==
    /\ client.flight = 0
    /\ client' = [client EXCEPT !.flight = 1]
    /\ Transmit(Client, 1, {Msg("ClientHello", NoCookie)})
    /\ UNCHANGED <<server, waits, state, issued>>

(* Variant: a client in flight 3 starts it again with the new cookie.            *)
ReceiveEveryHelloVerify(m) ==
    /\ m.type = "HelloVerify"
    /\ client' = [client EXCEPT !.flight = 3, !.cached = {}]
    /\ Transmit(Client, 3, IF client.epoch = 0 THEN {Msg("ClientHello", m.cookie)} ELSE {})
    /\ UNCHANGED <<server, waits, state, issued>>

(* Flight 3.  A client that is in it already throws.  The ClientHello to repeat  *)
(* is dtls.lastFlight, which after flight 5 is the Finished message, sent in the *)
(* clear under epoch 1: nothing the server can read.                             *)
ReceiveHelloVerify(m) ==
    /\ m.type = "HelloVerify"
    /\ IF client.flight = 3
       THEN /\ Fail(Client)
            /\ UNCHANGED <<client, loops, net>>
       ELSE /\ client' = [client EXCEPT !.flight = 3, !.cached = {}]
            /\ Transmit(Client, 3, IF client.epoch = 0 THEN {Msg("ClientHello", m.cookie)} ELSE {})
            /\ UNCHANGED state
    /\ UNCHANGED <<server, waits, issued>>

(* A ServerHello makes the Flight5 object the other handlers wait for.           *)
ReceiveServerHello(m) ==
    /\ m.type = "ServerHello"
    /\ ~client.connected
    /\ client' = [client EXCEPT !.flight5 = TRUE]
    /\ UNCHANGED <<server, loops, waits, state, net, issued>>

(* Flight5.exec().  The first time, the key comes from the public key in the     *)
(* ServerKeyExchange and from the transcript so far; any other time, from a      *)
(* transcript that holds this client's own Finished, which the server's does not.*)
RunFlight5(rest) ==
    /\ waits' = rest
    /\ IF client.flight = 5
       THEN UNCHANGED <<client, loops, net>>
       ELSE /\ client' = [client EXCEPT !.flight = 5, !.epoch = 1,
                              !.key = IF client.epoch = 0 THEN client.offered ELSE Wrong]
            /\ Transmit(Client, 5,
                   IF client.epoch = 0
                   THEN {Msg("ClientKeyExchange", client.offered),
                         Msg("ClientFinished", client.offered)}
                   ELSE {})

(* Variant: a ServerHelloDone runs flight 5 without a look at the cache.         *)
HandleFlight4Blindly(m, rest) ==
    IF m.type = "ServerHelloDone"
    THEN RunFlight5(rest)
    ELSE /\ client' = [client EXCEPT
                           !.cached = @ \cup {m.type},
                           !.offered = IF m.type = "ServerKeyExchange" THEN m.cookie ELSE @]
         /\ waits' = rest
         /\ UNCHANGED <<loops, net>>

(* Flight5.handleHandshake(), and for a ServerHelloDone what client.ts does next.*)
HandleFlight4(m, rest) ==
    IF m.type = "ServerHelloDone"
    THEN IF Needed \subseteq client.cached
         THEN RunFlight5(rest)
         ELSE /\ waits' = rest \cup {ForCache}
              /\ UNCHANGED <<client, loops, net>>
    ELSE /\ client' = [client EXCEPT
                           !.cached = @ \cup {m.type},
                           !.offered = IF m.type = "ServerKeyExchange" THEN m.cookie ELSE @]
         /\ waits' = rest
         /\ UNCHANGED <<loops, net>>

ReceiveFlight4(m) ==
    /\ m.type \in Polled
    /\ IF client.flight5
       THEN HandleFlight4(m, waits)
       ELSE /\ waits' = waits \cup {ForFlight5(m)}
            /\ UNCHANGED <<client, loops, net>>
    /\ UNCHANGED <<server, state, issued>>

(* The condition a handler polls for holds at one of its looks.                  *)
Ready(w) ==
    /\ IF w.for = "cache"
       THEN /\ Needed \subseteq client.cached
            /\ RunFlight5(waits \ {w})
       ELSE /\ client.flight5
            /\ HandleFlight4(w.message, waits \ {w})
    /\ UNCHANGED <<server, state, issued>>

(* waitForReady rejects after its tenth look: the error reaches onError.         *)
WaitTimeout(w) ==
    /\ waits' = waits \ {w}
    /\ Fail(Client)
    /\ UNCHANGED <<client, server, loops, net, issued>>

(* A Finished record the client's key opens: flight 7 has begun.                 *)
ReceiveServerFinished(m) ==
    /\ m.type = "ServerFinished"
    /\ client.key = m.cookie
    /\ client' = [client EXCEPT !.flight = 7, !.connected = TRUE]
    /\ state' = [state EXCEPT ![Client] = "connected"]
    /\ UNCHANGED <<server, loops, waits, net, issued>>

-----------------------------------------------------------------------------
(* The server.                                                                  *)

(* renegotiation(): a connected server that sees any ClientHello starts over     *)
(* with new contexts.  The loops of the old context look at its flight, 6, and   *)
(* end without a trace.                                                         *)
Renegotiates == server.connected
Current ==
    IF Renegotiates
    THEN [flight |-> 0, cookie |-> NoCookie, key |-> NoKey,
          connected |-> FALSE, renegotiated |-> TRUE]
    ELSE server
CurrentLoops == IF Renegotiates THEN {} ELSE loops[Server]

(* Flight 2: every ClientHello without a cookie gets a new one, with new randoms *)
(* and a new key pair.  It is not retransmitted.                                *)
ReceiveFirstHello(m) ==
    /\ m.type = "ClientHello" /\ m.cookie = NoCookie
    /\ issued < MaxCookies
    /\ issued' = issued + 1
    /\ server' = [Current EXCEPT !.flight = 2, !.cookie = issued + 1]
    /\ loops' = [loops EXCEPT ![Server] = CurrentLoops]
    /\ net' = net \cup {Msg("HelloVerify", issued + 1)}
    /\ UNCHANGED <<client, waits, state>>

Flight4Messages(c) ==
    {Msg(t, c) : t \in {"ServerHello", "Certificate", "ServerKeyExchange", "ServerHelloDone"}}

(* Flight 4, for the cookie drawn last; a ClientHello with another is ignored.   *)
ReceiveSecondHello(m) ==
    /\ m.type = "ClientHello" /\ m.cookie # NoCookie
    /\ IF m.cookie = Current.cookie /\ Current.flight # 4
       THEN /\ server' = [Current EXCEPT !.flight = 4]
            /\ Transmit(Server, 4, Flight4Messages(m.cookie))
       ELSE /\ server' = Current
            /\ loops' = [loops EXCEPT ![Server] = CurrentLoops]
            /\ UNCHANGED net
    /\ UNCHANGED <<client, waits, state, issued>>

(* Variant: a connected server takes a ClientKeyExchange too.                    *)
ReceiveAnyClientKeyExchange(m) ==
    /\ m.type = "ClientKeyExchange"
    /\ IF server.cookie = NoCookie
       THEN /\ Fail(Server)
            /\ UNCHANGED server
       ELSE /\ server' = [server EXCEPT !.key = IF m.cookie = server.cookie THEN m.cookie ELSE Wrong]
            /\ UNCHANGED state
    /\ UNCHANGED <<client, loops, waits, net, issued>>

(* ClientKeyExchange: without a key pair of its own the server throws; with one  *)
(* that is not the one the client has seen it derives a key of no use.           *)
ReceiveClientKeyExchange(m) ==
    /\ m.type = "ClientKeyExchange"
    /\ ~server.connected
    /\ IF server.cookie = NoCookie
       THEN /\ Fail(Server)
            /\ UNCHANGED server
       ELSE /\ server' = [server EXCEPT !.key = IF m.cookie = server.cookie THEN m.cookie ELSE Wrong]
            /\ UNCHANGED state
    /\ UNCHANGED <<client, loops, waits, net, issued>>

(* Flight 6, for a Finished record the server's key opens.  A key is there only  *)
(* after a ClientKeyExchange, so that neither waitForReady of the handler waits. *)
ReceiveClientFinished(m) ==
    /\ m.type = "ClientFinished"
    /\ server.key = m.cookie
    /\ server' = [server EXCEPT !.flight = 6, !.connected = TRUE]
    /\ net' = net \cup {Msg("ServerFinished", server.key)}
    /\ state' = [state EXCEPT ![Server] = "connected"]
    /\ UNCHANGED <<client, loops, waits, issued>>

-----------------------------------------------------------------------------
Next ==
    \/ Connect
    \/ \E m \in net :
          \/ ReceiveHelloVerify(m)
          \/ ReceiveServerHello(m)
          \/ ReceiveFlight4(m)
          \/ ReceiveServerFinished(m)
          \/ ReceiveFirstHello(m)
          \/ ReceiveSecondHello(m)
          \/ ReceiveClientKeyExchange(m)
          \/ ReceiveClientFinished(m)
    \/ \E w \in waits : Ready(w) \/ WaitTimeout(w)
    \/ \E e \in Endpoint : Stop(e) \/ \E l \in loops[e] : Expire(e, l)

(* A loop that sleeps wakes up; nothing else is sure to happen.                  *)
Fairness ==
    /\ WF_vars(Connect)
    /\ \A e \in Endpoint : \A l \in Loop : WF_vars(l \in loops[e] /\ Expire(e, l))

Spec == Init /\ [][Next]_vars
FairSpec == Spec /\ Fairness

-----------------------------------------------------------------------------
(* Properties.                                                                  *)

(* Every variable keeps to its type.                                            *)
TypeOK ==
    /\ client \in [flight : {0, 1, 3, 5, 7}, cached : SUBSET Needed, flight5 : BOOLEAN,
                   offered : Cookie \cup {NoCookie}, key : Key, epoch : {0, 1},
                   connected : BOOLEAN]
    /\ server \in [flight : {0, 2, 4, 6}, cookie : Cookie \cup {NoCookie}, key : Key,
                   connected : BOOLEAN, renegotiated : BOOLEAN]
    /\ loops \in [Endpoint -> SUBSET Loop]
    /\ waits \subseteq Wait
    /\ state \in [Endpoint -> {"connecting", "connected", "failed", "closed"}]
    /\ net \subseteq Message
    /\ issued \in 0..MaxCookies

(* The point of the handshake: a client that reports connected talks to a server *)
(* that is connected too, under the same key.  Two histories are known to end    *)
(* otherwise and are excepted: the server has renegotiated because of a          *)
(* ClientHello that came late, or the client has run flight 5 again because of a *)
(* ServerHelloDone that did.                                                     *)
KeysAgree ==
    client.connected /\ client.key # Wrong /\ ~server.renegotiated
        => server.connected /\ server.key = client.key

(* The server runs flight 4 for one cookie only, whatever is repeated or comes   *)
(* late, so that a client never mixes the messages of two flights.               *)
OneServerFlight ==
    \A m, n \in net :
        m.type \in {"ServerHello", "ServerKeyExchange"}
            /\ n.type \in {"ServerHello", "ServerKeyExchange"} => m.cookie = n.cookie

(* An end that waits for an answer is never without a loop that repeats what it  *)
(* said: it would be connecting for ever.                                       *)
FlightIsTimed ==
    \A e \in Endpoint :
        state[e] = "connecting" /\ FlightOf(e) \in {1, 3, 4, 5}
            => \E l \in loops[e] : l.flight = FlightOf(e)

(* A client that began gets somewhere, even when nothing is ever delivered.      *)
HandshakeEnds == client.flight > 0 ~> state[Client] # "connecting"

-----------------------------------------------------------------------------
(* The inductive invariant behind the safety properties: what a message in the   *)
(* network, or a field of the client, shows about the past.                      *)

ServerFlight == {"ServerHello", "Certificate", "ServerKeyExchange", "ServerHelloDone"}

(* The client answers one HelloVerifyRequest in the clear, and the server has    *)
(* flight 4 for what the client answered.                                        *)
OneSecondHello ==
    /\ \A m, n \in net :
          m.type = "ClientHello" /\ n.type = "ClientHello"
              => m.cookie = NoCookie \/ n.cookie = NoCookie \/ m.cookie = n.cookie
    /\ client.flight \in {0, 1} =>
          \A m \in net : m.type = "ClientHello" => m.cookie = NoCookie
    /\ \A m \in net : m.type \in ServerFlight => Msg("ClientHello", m.cookie) \in net

(* A client that has got on has heard of flight 4, and has a key with epoch 1.   *)
ClientHasHeard ==
    /\ client.cached # {} => client.flight5
    /\ client.flight5 => client.flight \notin {0, 1}
    /\ "ServerKeyExchange" \in client.cached => client.offered # NoCookie
    /\ client.flight \in {5, 7} => client.epoch = 1
    /\ client.epoch = 0 => client.key = NoKey
    /\ client.connected => client.epoch = 1

(* A Finished of the server shows the key it is connected with, and is what the  *)
(* client is connected by.                                                       *)
FinishedIsKept ==
    /\ \A m \in net : m.type = "ServerFinished" /\ ~server.renegotiated
          => server.connected /\ server.key = m.cookie
    /\ client.connected => client.key = Wrong \/ Msg("ServerFinished", client.key) \in net

IInv ==
    /\ TypeOK
    /\ OneSecondHello
    /\ ClientHasHeard
    /\ FinishedIsKept
    /\ FlightIsTimed
=============================================================================
