--------------------------- MODULE DtlsHandshakeProofs ---------------------------
(* Theorems of DtlsHandshake, for every number of retransmissions and cookies.   *)
EXTENDS DtlsHandshake, TLAPS

\* What is sent is a message.
LEMMA Sent ==
    /\ \A type \in {"HelloVerify", "ServerHello", "Certificate", "ServerKeyExchange",
                    "ServerHelloDone", "ClientKeyExchange", "ClientFinished",
                    "ServerFinished"}, c \in Cookie :
          Msg(type, c) \in Message
    /\ \A c \in Cookie \cup {NoCookie} : Msg("ClientHello", c) \in Message
    BY DEF Msg, Message

\* The fields of a message have its type's values.
LEMMA Received ==
    /\ \A m \in Message : m.cookie \in Cookie \cup {NoCookie}
    /\ \A m \in Message : m.type # "ClientHello" => m.cookie \in Cookie
    /\ \A m \in Message : m = Msg(m.type, m.cookie)
    BY DEF Msg, Message

\* The empty cookie and the wrong key are no cookies.
LEMMA NoCookieIsNone ==
    NoCookie \notin Cookie /\ NoKey \notin Cookie /\ Wrong \notin Cookie /\ Wrong # NoKey
    BY MaxCookiesAssumption DEF NoCookie, NoKey, Wrong, Cookie

\* A message of a named type and cookie is itself.
LEMMA Fields ==
    \A type, c : Msg(type, c).type = type /\ Msg(type, c).cookie = c
    BY DEF Msg

\* The initial states satisfy the invariant.
LEMMA InitInv == Init => IInv
<1> SUFFICES ASSUME Init PROVE IInv
    OBVIOUS
<1> USE DEF Init
<1>1. TypeOK
    BY MaxCookiesAssumption DEF TypeOK, NoCookie, NoKey, Key, Cookie
<1>2. OneSecondHello /\ ClientHasHeard /\ FinishedIsKept /\ FlightIsTimed
    BY DEF OneSecondHello, ClientHasHeard, FinishedIsKept, FlightIsTimed, FlightOf, Endpoint
<1> QED
    BY <1>1, <1>2 DEF IInv

\* Steps that change loops and states only: what they may not do to FlightIsTimed.
LEMMA ExpireInv ==
    ASSUME IInv, NEW e \in Endpoint, NEW l \in loops[e], Expire(e, l)
    PROVE  IInv'
<1> USE DEF IInv, Expire, Fail
<1>1. l \in Loop
    BY DEF TypeOK
<1>2. TypeOK'
    BY <1>1, RetransmitCountAssumption DEF TypeOK, Loop
<1>3. OneSecondHello' /\ ClientHasHeard' /\ FinishedIsKept'
    BY DEF OneSecondHello, ClientHasHeard, FinishedIsKept
<1>4. FlightIsTimed'
    <2> SUFFICES ASSUME NEW d \in Endpoint,
                        state'[d] = "connecting", FlightOf(d)' \in {1, 3, 4, 5}
                 PROVE  \E k \in loops'[d] : k.flight = FlightOf(d)'
        BY DEF FlightIsTimed
    <2>1. FlightOf(d)' = FlightOf(d) /\ state[d] = "connecting"
        BY DEF FlightOf, TypeOK
    <2>2. PICK k \in loops[d] : k.flight = FlightOf(d)
        BY <2>1 DEF FlightIsTimed
    <2>3. CASE d # e \/ k # l
        BY <2>1, <2>2, <2>3 DEF TypeOK
    <2>4. CASE d = e /\ k = l
        <3>1. FlightOf(e) < NextFlight(l.flight)
            BY <2>2, <2>4, <1>1 DEF NextFlight, Loop
        <3>2. l.n # RetransmitCount
            BY <3>1, <2>4 DEF TypeOK
        <3>3. l.n < RetransmitCount
            BY <3>2, <1>1, RetransmitCountAssumption DEF Loop
        <3>4. [l EXCEPT !.n = @ + 1] \in loops'[e]
            BY <3>1, <3>3 DEF TypeOK
        <3> QED
            BY <3>4, <2>1, <2>2, <2>4, <1>1 DEF Loop
    <2> QED
        BY <2>3, <2>4
<1> QED
    BY <1>2, <1>3, <1>4

\* stop() changes the state of the transport only.
LEMMA StopInv ==
    ASSUME IInv, NEW e \in Endpoint, Stop(e)
    PROVE  IInv'
    BY DEF IInv, Stop, TypeOK, OneSecondHello, ClientHasHeard, FinishedIsKept,
           FlightIsTimed, FlightOf, Endpoint

\* transmit() adds messages and a loop, and takes none away.
LEMMA Transmitted ==
    ASSUME TypeOK, NEW e \in Endpoint, NEW flight \in {1, 3, 4, 5},
           NEW messages \in SUBSET Message, Transmit(e, flight, messages)
    PROVE  /\ loops' \in [Endpoint -> SUBSET Loop]
           /\ net' \in SUBSET Message
           /\ net' = net \cup messages
           /\ \A d \in Endpoint : loops[d] \subseteq loops'[d]
           /\ \E l \in loops'[e] : l.flight = flight
<1> DEFINE l == [flight |-> flight, n |-> 0]
<1>1. l \in Loop /\ l.flight = flight
    BY RetransmitCountAssumption DEF Loop
<1> HIDE DEF l
<1>2. loops' = [loops EXCEPT ![e] = @ \cup {l}] /\ net' = net \cup messages
    BY DEF Transmit, l
<1>3. l \in loops'[e]
    BY <1>2 DEF TypeOK
<1> QED
    BY <1>1, <1>2, <1>3 DEF TypeOK

-----------------------------------------------------------------------------
(* The client.                                                                  *)

\* connect(): the first ClientHello has no cookie.
LEMMA ConnectInv ==
    ASSUME IInv, Connect
    PROVE  IInv'
<1> DEFINE hello == Msg("ClientHello", NoCookie)
           messages == {hello}
<1>0. hello \in Message /\ hello.type = "ClientHello" /\ hello.cookie = NoCookie
      /\ messages \in SUBSET Message /\ (\A m \in messages : m = hello)
    BY Sent, Fields
<1> HIDE DEF hello
<1>1. /\ TypeOK /\ client.flight = 0 /\ client' = [client EXCEPT !.flight = 1]
      /\ Transmit(Client, 1, messages)
      /\ UNCHANGED <<server, waits, state, issued>>
    BY DEF IInv, Connect, hello
<1> HIDE DEF messages
<1>2. /\ loops' \in [Endpoint -> SUBSET Loop] /\ net' \in SUBSET Message
      /\ net' = net \cup messages
      /\ \A d \in Endpoint : loops[d] \subseteq loops'[d]
      /\ \E l \in loops'[Client] : l.flight = 1
    BY <1>0, <1>1, Transmitted DEF Endpoint
<1>3. TypeOK'
    BY <1>1, <1>2 DEF TypeOK
<1>4. client'.flight = 1 /\ client'.flight5 = client.flight5 /\ client'.cached = client.cached
      /\ client'.offered = client.offered /\ client'.epoch = client.epoch
      /\ client'.key = client.key /\ client'.connected = client.connected
    BY <1>1 DEF TypeOK
<1>5. OneSecondHello'
    BY <1>0, <1>1, <1>2, <1>4, Fields DEF IInv, OneSecondHello, ServerFlight
<1>6. ClientHasHeard'
    BY <1>1, <1>4 DEF IInv, ClientHasHeard
<1>7. FinishedIsKept'
    BY <1>0, <1>1, <1>2, <1>4 DEF IInv, FinishedIsKept
<1>8. FlightIsTimed'
    BY <1>1, <1>2, <1>4 DEF IInv, FlightIsTimed, FlightOf, Endpoint, Client, Server
<1> QED
    BY <1>3, <1>5, <1>6, <1>7, <1>8 DEF IInv

\* A HelloVerifyRequest is answered in the clear from flights 0 and 1 only.
LEMMA HelloVerifyInv ==
    ASSUME IInv, NEW m \in net, ReceiveHelloVerify(m)
    PROVE  IInv'
<1>1. CASE client.flight = 3
    BY <1>1 DEF ReceiveHelloVerify, Fail, IInv, TypeOK, OneSecondHello, ClientHasHeard,
                FinishedIsKept, FlightIsTimed, FlightOf, Endpoint
<1>2. CASE client.flight # 3
    <2> DEFINE hello == Msg("ClientHello", m.cookie)
               messages == IF client.epoch = 0 THEN {hello} ELSE {}
    <2>0. m \in Message /\ m.type = "HelloVerify" /\ m.cookie \in Cookie
        BY Received DEF IInv, TypeOK, ReceiveHelloVerify
    <2>1. hello \in Message /\ hello.type = "ClientHello" /\ hello.cookie = m.cookie
        BY <2>0, Sent, Fields
    <2>2. messages \in SUBSET Message
        BY <2>1
    <2> HIDE DEF hello
    <2>3. /\ TypeOK /\ client' = [client EXCEPT !.flight = 3, !.cached = {}]
          /\ Transmit(Client, 3, messages)
          /\ UNCHANGED <<server, waits, state, issued>>
        BY <1>2 DEF IInv, ReceiveHelloVerify, hello
    <2> HIDE DEF messages
    <2>4. /\ loops' \in [Endpoint -> SUBSET Loop] /\ net' \in SUBSET Message
          /\ net' = net \cup messages
          /\ \A d \in Endpoint : loops[d] \subseteq loops'[d]
          /\ \E l \in loops'[Client] : l.flight = 3
        BY <2>2, <2>3, Transmitted DEF Endpoint
    <2>5. TypeOK'
        BY <2>3, <2>4 DEF TypeOK
    <2>6. client'.flight = 3 /\ client'.flight5 = client.flight5 /\ client'.cached = {}
          /\ client'.offered = client.offered /\ client'.epoch = client.epoch
          /\ client'.key = client.key /\ client'.connected = client.connected
        BY <2>3 DEF TypeOK
    <2>7. client.epoch = 0 => client.flight \in {0, 1}
        BY <1>2, <2>3 DEF IInv, TypeOK, ClientHasHeard
    <2>8. OneSecondHello'
        <3>1. ASSUME NEW a \in net', NEW b \in net',
                     a.type = "ClientHello", b.type = "ClientHello"
              PROVE  a.cookie = NoCookie \/ b.cookie = NoCookie \/ a.cookie = b.cookie
            BY <3>1, <2>1, <2>4, <2>7 DEF IInv, OneSecondHello, messages
        <3>2. ASSUME NEW a \in net', a.type \in ServerFlight
              PROVE  Msg("ClientHello", a.cookie) \in net'
            BY <3>2, <2>1, <2>4 DEF IInv, OneSecondHello, ServerFlight, messages
        <3> QED
            BY <3>1, <3>2, <2>6 DEF OneSecondHello
    <2>9. ClientHasHeard'
        BY <2>6 DEF IInv, ClientHasHeard
    <2>10. FinishedIsKept'
        BY <2>1, <2>3, <2>4, <2>6 DEF IInv, FinishedIsKept, messages
    <2>11. FlightIsTimed'
        BY <2>3, <2>4, <2>6 DEF IInv, FlightIsTimed, FlightOf, Endpoint, Client, Server
    <2> QED
        BY <2>5, <2>8, <2>9, <2>10, <2>11 DEF IInv
<1> QED
    BY <1>1, <1>2

\* A ServerHello comes only after a second ClientHello, which the client has sent.
LEMMA ServerHelloInv ==
    ASSUME IInv, NEW m \in net, ReceiveServerHello(m)
    PROVE  IInv'
<1>1. /\ TypeOK /\ client' = [client EXCEPT !.flight5 = TRUE]
      /\ UNCHANGED <<server, loops, waits, state, net, issued>>
    BY DEF IInv, ReceiveServerHello
<1>2. client'.flight5 /\ client'.flight = client.flight /\ client'.cached = client.cached
      /\ client'.offered = client.offered /\ client'.epoch = client.epoch
      /\ client'.key = client.key /\ client'.connected = client.connected
    BY <1>1 DEF TypeOK
<1>3. m.cookie \in Cookie /\ Msg("ClientHello", m.cookie) \in net
    BY Received DEF IInv, TypeOK, OneSecondHello, ServerFlight, ReceiveServerHello
<1>4. client.flight \notin {0, 1}
    BY <1>3, Fields, NoCookieIsNone DEF IInv, OneSecondHello
<1>5. TypeOK'
    BY <1>1 DEF TypeOK
<1>6. OneSecondHello'
    BY <1>1, <1>2 DEF IInv, OneSecondHello
<1>7. ClientHasHeard'
    BY <1>2, <1>4 DEF IInv, ClientHasHeard
<1>8. FinishedIsKept'
    BY <1>1, <1>2 DEF IInv, FinishedIsKept
<1>9. FlightIsTimed'
    BY <1>1, <1>2 DEF IInv, FlightIsTimed, FlightOf
<1> QED
    BY <1>5, <1>6, <1>7, <1>8, <1>9 DEF IInv

\* Flight 5 is run when the ServerKeyExchange is there, whose cookie is its key, or again,
\* with a key of no use.
LEMMA RunFlight5Inv ==
    ASSUME IInv, NEW rest \in SUBSET Wait, Needed \subseteq client.cached,
           RunFlight5(rest), UNCHANGED <<server, state, issued>>
    PROVE  IInv'
<1>1. CASE client.flight = 5
    BY <1>1 DEF RunFlight5, IInv, TypeOK, OneSecondHello, ClientHasHeard,
                FinishedIsKept, FlightIsTimed, FlightOf
<1>2. CASE client.flight # 5
    <2> DEFINE exchange == Msg("ClientKeyExchange", client.offered)
               finished == Msg("ClientFinished", client.offered)
               messages == IF client.epoch = 0 THEN {exchange, finished} ELSE {}
    <2>0. client.offered \in Cookie
        BY NoCookieIsNone DEF IInv, TypeOK, ClientHasHeard, Needed
    <2>1. /\ exchange \in Message /\ exchange.type = "ClientKeyExchange"
          /\ finished \in Message /\ finished.type = "ClientFinished"
        BY <2>0, Sent, Fields
    <2>2. messages \in SUBSET Message
        BY <2>1
    <2> HIDE DEF exchange, finished
    <2>3. /\ TypeOK /\ waits' = rest
          /\ client' = [client EXCEPT !.flight = 5, !.epoch = 1,
                              !.key = IF client.epoch = 0 THEN client.offered ELSE Wrong]
          /\ Transmit(Client, 5, messages)
          /\ UNCHANGED <<server, state, issued>>
        BY <1>2 DEF IInv, RunFlight5, exchange, finished
    <2> HIDE DEF messages
    <2>4. /\ loops' \in [Endpoint -> SUBSET Loop] /\ net' \in SUBSET Message
          /\ net' = net \cup messages
          /\ \A d \in Endpoint : loops[d] \subseteq loops'[d]
          /\ \E l \in loops'[Client] : l.flight = 5
        BY <2>2, <2>3, Transmitted DEF Endpoint
    <2>5. TypeOK'
        BY <2>0, <2>3, <2>4 DEF TypeOK, Key
    <2>6. client'.flight = 5 /\ client'.flight5 = client.flight5
          /\ client'.cached = client.cached
          /\ client'.offered = client.offered /\ client'.epoch = 1
          /\ client'.connected = client.connected
          /\ client'.key = IF client.epoch = 0 THEN client.offered ELSE Wrong
        BY <2>3 DEF TypeOK
    <2>7. \A a \in net' : a \in net \/ a.type \in {"ClientKeyExchange", "ClientFinished"}
        BY <2>1, <2>4 DEF messages
    <2>8. OneSecondHello'
        BY <2>4, <2>6, <2>7 DEF IInv, OneSecondHello, ServerFlight
    <2>9. ClientHasHeard'
        BY <2>6 DEF IInv, ClientHasHeard
    <2>10. FinishedIsKept'
        <3>1. client.connected => client'.key = Wrong
            BY <2>6 DEF IInv, ClientHasHeard
        <3> QED
            BY <3>1, <2>3, <2>6, <2>7 DEF IInv, FinishedIsKept
    <2>11. FlightIsTimed'
        BY <2>3, <2>4, <2>6 DEF IInv, FlightIsTimed, FlightOf, Endpoint, Client, Server
    <2> QED
        BY <2>5, <2>8, <2>9, <2>10, <2>11 DEF IInv
<1> QED
    BY <1>1, <1>2

\* A message of flight 4 is cached, or runs flight 5, or makes its handler wait.
LEMMA HandleFlight4Inv ==
    ASSUME IInv, NEW m \in Message, m.type \in Polled, client.flight5,
           NEW rest \in SUBSET Wait, HandleFlight4(m, rest), UNCHANGED <<server, state, issued>>
    PROVE  IInv'
<1>1. CASE m.type = "ServerHelloDone" /\ Needed \subseteq client.cached
    BY <1>1, RunFlight5Inv DEF HandleFlight4
<1>2. CASE m.type = "ServerHelloDone" /\ ~(Needed \subseteq client.cached)
    <2>1. waits' \in SUBSET Wait /\ UNCHANGED <<client, server, loops, state, net, issued>>
        BY <1>2 DEF HandleFlight4, Wait, ForCache
    <2> QED
        BY <2>1 DEF IInv, TypeOK, OneSecondHello, ClientHasHeard, FinishedIsKept,
                    FlightIsTimed, FlightOf
<1>3. CASE m.type # "ServerHelloDone"
    <2>1. /\ client' = [client EXCEPT
                            !.cached = @ \cup {m.type},
                            !.offered = IF m.type = "ServerKeyExchange" THEN m.cookie ELSE @]
          /\ waits' \in SUBSET Wait
          /\ UNCHANGED <<server, loops, state, net, issued>>
        BY <1>3 DEF HandleFlight4
    <2>2. m.type \in Needed /\ m.cookie \in Cookie
        BY <1>3, Received DEF Polled, Needed
    <2>3. TypeOK'
        BY <2>1, <2>2 DEF IInv, TypeOK
    <2>4. /\ client'.flight = client.flight /\ client'.flight5 = client.flight5
          /\ client'.cached = client.cached \cup {m.type}
          /\ client'.offered = IF m.type = "ServerKeyExchange" THEN m.cookie ELSE client.offered
          /\ client'.epoch = client.epoch /\ client'.key = client.key
          /\ client'.connected = client.connected
        BY <2>1 DEF IInv, TypeOK
    <2>5. OneSecondHello'
        BY <2>1, <2>4 DEF IInv, OneSecondHello
    <2>6. ClientHasHeard'
        BY <2>2, <2>4, NoCookieIsNone DEF IInv, ClientHasHeard
    <2>7. FinishedIsKept'
        BY <2>1, <2>4 DEF IInv, FinishedIsKept
    <2>8. FlightIsTimed'
        BY <2>1, <2>4 DEF IInv, FlightIsTimed, FlightOf
    <2> QED
        BY <2>3, <2>5, <2>6, <2>7, <2>8 DEF IInv
<1> QED
    BY <1>1, <1>2, <1>3

\* A message of flight 4 that comes in, or whose handler has waited.
LEMMA Flight4Inv ==
    ASSUME IInv, NEW m \in net, ReceiveFlight4(m)
    PROVE  IInv'
<1>1. m \in Message /\ m.type \in Polled /\ waits \in SUBSET Wait
    BY DEF IInv, TypeOK, ReceiveFlight4
<1>2. CASE client.flight5
    BY <1>1, <1>2, HandleFlight4Inv DEF ReceiveFlight4
<1>3. CASE ~client.flight5
    <2>1. waits' \in SUBSET Wait /\ UNCHANGED <<client, server, loops, state, net, issued>>
        BY <1>1, <1>3 DEF ReceiveFlight4, Wait, ForFlight5
    <2> QED
        BY <2>1 DEF IInv, TypeOK, OneSecondHello, ClientHasHeard, FinishedIsKept,
                    FlightIsTimed, FlightOf
<1> QED
    BY <1>2, <1>3

LEMMA ReadyInv ==
    ASSUME IInv, NEW w \in waits, Ready(w)
    PROVE  IInv'
<1>1. w \in Wait /\ waits \ {w} \in SUBSET Wait
    BY DEF IInv, TypeOK
<1>2. CASE w.for = "cache"
    BY <1>1, <1>2, RunFlight5Inv DEF Ready
<1>3. CASE w.for # "cache"
    <2>1. w.message \in Message /\ w.message.type \in Polled
        BY <1>1, <1>3 DEF Wait
    <2> QED
        BY <1>1, <1>3, <2>1, HandleFlight4Inv DEF Ready
<1> QED
    BY <1>2, <1>3

\* waitForReady gives up.
LEMMA WaitTimeoutInv ==
    ASSUME IInv, NEW w \in waits, WaitTimeout(w)
    PROVE  IInv'
    BY DEF WaitTimeout, Fail, IInv, TypeOK, OneSecondHello, ClientHasHeard, FinishedIsKept,
           FlightIsTimed, FlightOf, Endpoint

\* The client is connected by a Finished under its key, which it has in epoch 1 only.
LEMMA ServerFinishedInv ==
    ASSUME IInv, NEW m \in net, ReceiveServerFinished(m)
    PROVE  IInv'
<1>1. /\ TypeOK /\ client' = [client EXCEPT !.flight = 7, !.connected = TRUE]
      /\ state' = [state EXCEPT ![Client] = "connected"]
      /\ UNCHANGED <<server, loops, waits, net, issued>>
    BY DEF IInv, ReceiveServerFinished
<1>2. client'.flight = 7 /\ client'.flight5 = client.flight5 /\ client'.cached = client.cached
      /\ client'.offered = client.offered /\ client'.epoch = client.epoch
      /\ client'.key = client.key /\ client'.connected
    BY <1>1 DEF TypeOK
<1>3. m \in Message /\ m.type = "ServerFinished" /\ client.key = m.cookie /\ m.cookie \in Cookie
    BY Received DEF IInv, TypeOK, ReceiveServerFinished
<1>4. client.epoch = 1 /\ Msg("ServerFinished", client.key) \in net
    BY <1>3, NoCookieIsNone, Received DEF IInv, TypeOK, ClientHasHeard
<1>5. TypeOK'
    BY <1>1 DEF TypeOK
<1>6. OneSecondHello'
    BY <1>1, <1>2 DEF IInv, OneSecondHello
<1>7. ClientHasHeard'
    BY <1>2, <1>4 DEF IInv, ClientHasHeard
<1>8. FinishedIsKept'
    BY <1>1, <1>2, <1>4 DEF IInv, FinishedIsKept
<1>9. FlightIsTimed'
    BY <1>1, <1>2 DEF IInv, TypeOK, FlightIsTimed, FlightOf, Endpoint, Client, Server
<1> QED
    BY <1>5, <1>6, <1>7, <1>8, <1>9 DEF IInv

-----------------------------------------------------------------------------
(* The server.                                                                  *)

\* The server a ClientHello finds: a connected one has started over.
LEMMA CurrentTyped ==
    ASSUME IInv
    PROVE  /\ Current \in [flight : {0, 2, 4, 6}, cookie : Cookie \cup {NoCookie}, key : Key,
                           connected : BOOLEAN, renegotiated : BOOLEAN]
           /\ CurrentLoops \in SUBSET Loop
           /\ Current.flight \in {1, 3, 4, 5} => Current = server /\ CurrentLoops = loops[Server]
           /\ ~Current.renegotiated =>
                 /\ ~server.renegotiated /\ Current = server
                 /\ \A m \in net : m.type # "ServerFinished"
<1>1. CASE server.connected
    BY <1>1 DEF Current, CurrentLoops, Renegotiates, IInv, TypeOK, Key
<1>2. CASE ~server.connected
    BY <1>2 DEF Current, CurrentLoops, Renegotiates, IInv, TypeOK, FinishedIsKept, Endpoint
<1> QED
    BY <1>1, <1>2

\* Flight 2, with a new cookie.
LEMMA FirstHelloInv ==
    ASSUME IInv, NEW m \in net, ReceiveFirstHello(m)
    PROVE  IInv'
<1> DEFINE verify == Msg("HelloVerify", issued + 1)
           cur == Current
           curLoops == CurrentLoops
<1>0. issued + 1 \in Cookie /\ issued' \in 0 .. MaxCookies
    BY MaxCookiesAssumption DEF IInv, TypeOK, ReceiveFirstHello, Cookie
<1>1. verify \in Message /\ verify.type = "HelloVerify"
    BY <1>0, Sent, Fields
<1>2. /\ server' = [cur EXCEPT !.flight = 2, !.cookie = issued + 1]
      /\ loops' = [loops EXCEPT ![Server] = curLoops]
      /\ net' = net \cup {verify}
      /\ UNCHANGED <<client, waits, state>>
    BY DEF ReceiveFirstHello
<1>3. /\ cur \in [flight : {0, 2, 4, 6}, cookie : Cookie \cup {NoCookie}, key : Key,
                  connected : BOOLEAN, renegotiated : BOOLEAN]
      /\ curLoops \in SUBSET Loop
      /\ ~cur.renegotiated => \A a \in net : a.type # "ServerFinished"
    BY CurrentTyped
<1> HIDE DEF verify, cur, curLoops
<1>4. TypeOK'
    BY <1>0, <1>1, <1>2, <1>3 DEF IInv, TypeOK
<1>5. server'.flight = 2 /\ server'.renegotiated = cur.renegotiated
    BY <1>2, <1>3
<1>6. OneSecondHello'
    BY <1>1, <1>2 DEF IInv, OneSecondHello, ServerFlight
<1>7. ClientHasHeard'
    BY <1>2 DEF IInv, ClientHasHeard
<1>8. FinishedIsKept'
    BY <1>1, <1>2, <1>3, <1>5 DEF IInv, FinishedIsKept
<1>9. FlightIsTimed'
    BY <1>2, <1>5 DEF IInv, TypeOK, FlightIsTimed, FlightOf, Endpoint, Client, Server
<1> QED
    BY <1>4, <1>6, <1>7, <1>8, <1>9 DEF IInv

\* Flight 4 has the cookie of a ClientHello.
LEMMA Flight4Typed ==
    ASSUME NEW c \in Cookie
    PROVE  /\ Flight4Messages(c) \in SUBSET Message
           /\ \A m \in Flight4Messages(c) : m.type \in ServerFlight /\ m.cookie = c
    BY Sent, Fields DEF Flight4Messages, ServerFlight

LEMMA SecondHelloInv ==
    ASSUME IInv, NEW m \in net, ReceiveSecondHello(m)
    PROVE  IInv'
<1> DEFINE cur == Current
           curLoops == CurrentLoops
<1>1. /\ cur \in [flight : {0, 2, 4, 6}, cookie : Cookie \cup {NoCookie}, key : Key,
                  connected : BOOLEAN, renegotiated : BOOLEAN]
      /\ curLoops \in SUBSET Loop
      /\ cur.flight \in {1, 3, 4, 5} => cur = server /\ curLoops = loops[Server]
      /\ ~cur.renegotiated =>
            /\ ~server.renegotiated /\ cur = server
            /\ \A a \in net : a.type # "ServerFinished"
    BY CurrentTyped
<1>2. m \in Message /\ m.type = "ClientHello" /\ m.cookie \in Cookie
      /\ Msg("ClientHello", m.cookie) \in net
    BY Received DEF IInv, TypeOK, ReceiveSecondHello
<1>3. CASE m.cookie = cur.cookie /\ cur.flight # 4
    <2> DEFINE messages == Flight4Messages(m.cookie)
    <2>1. /\ messages \in SUBSET Message
          /\ \A a \in messages : a.type \in ServerFlight /\ a.cookie = m.cookie
        BY <1>2, Flight4Typed
    <2>2. /\ TypeOK /\ server' = [cur EXCEPT !.flight = 4]
          /\ Transmit(Server, 4, messages)
          /\ UNCHANGED <<client, waits, state, issued>>
        BY <1>3 DEF IInv, ReceiveSecondHello
    <2> HIDE DEF messages, cur, curLoops
    <2>3. /\ loops' \in [Endpoint -> SUBSET Loop] /\ net' \in SUBSET Message
          /\ net' = net \cup messages
          /\ \A d \in Endpoint : loops[d] \subseteq loops'[d]
          /\ \E l \in loops'[Server] : l.flight = 4
        BY <2>1, <2>2, Transmitted DEF Endpoint
    <2>4. TypeOK'
        BY <1>1, <2>2, <2>3 DEF TypeOK
    <2>5. server'.flight = 4 /\ server'.renegotiated = cur.renegotiated
        BY <1>1, <2>2
    <2>6. OneSecondHello'
        BY <1>2, <2>1, <2>2, <2>3 DEF IInv, OneSecondHello, ServerFlight
    <2>7. ClientHasHeard'
        BY <2>2 DEF IInv, ClientHasHeard
    <2>8. FinishedIsKept'
        BY <1>1, <2>1, <2>2, <2>3, <2>5 DEF IInv, FinishedIsKept, ServerFlight
    <2>9. FlightIsTimed'
        BY <2>2, <2>3, <2>5 DEF IInv, FlightIsTimed, FlightOf, Endpoint, Client, Server
    <2> QED
        BY <2>4, <2>6, <2>7, <2>8, <2>9 DEF IInv
<1>4. CASE ~(m.cookie = cur.cookie /\ cur.flight # 4)
    <2>1. /\ server' = cur
          /\ loops' = [loops EXCEPT ![Server] = curLoops]
          /\ UNCHANGED <<client, waits, state, net, issued>>
        BY <1>4 DEF ReceiveSecondHello
    <2> HIDE DEF cur, curLoops
    <2>2. TypeOK'
        BY <1>1, <2>1 DEF IInv, TypeOK
    <2>3. OneSecondHello' /\ ClientHasHeard'
        BY <2>1 DEF IInv, OneSecondHello, ClientHasHeard
    <2>4. FinishedIsKept'
        BY <1>1, <2>1 DEF IInv, FinishedIsKept
    <2>5. FlightIsTimed'
        BY <1>1, <2>1 DEF IInv, TypeOK, FlightIsTimed, FlightOf, Endpoint, Client, Server
    <2> QED
        BY <2>2, <2>3, <2>4, <2>5 DEF IInv
<1> QED
    BY <1>3, <1>4

\* A server that is not connected has sent no Finished since it last began.
LEMMA ClientKeyExchangeInv ==
    ASSUME IInv, NEW m \in net, ReceiveClientKeyExchange(m)
    PROVE  IInv'
<1>1. CASE server.cookie = NoCookie
    BY <1>1 DEF ReceiveClientKeyExchange, Fail, IInv, TypeOK, OneSecondHello, ClientHasHeard,
                FinishedIsKept, FlightIsTimed, FlightOf, Endpoint
<1>2. CASE server.cookie # NoCookie
    <2> DEFINE key == IF m.cookie = server.cookie THEN m.cookie ELSE Wrong
    <2>1. m.cookie \in Cookie
        BY Received DEF IInv, TypeOK, ReceiveClientKeyExchange
    <2>2. key \in Key
        BY <2>1 DEF Key
    <2>3. /\ ~server.connected /\ server' = [server EXCEPT !.key = key]
          /\ UNCHANGED <<client, loops, waits, state, net, issued>>
        BY <1>2 DEF ReceiveClientKeyExchange
    <2> HIDE DEF key
    <2>4. TypeOK'
        BY <2>2, <2>3 DEF IInv, TypeOK
    <2>5. server'.flight = server.flight /\ server'.renegotiated = server.renegotiated
        BY <2>3 DEF IInv, TypeOK
    <2>6. OneSecondHello' /\ ClientHasHeard'
        BY <2>3 DEF IInv, OneSecondHello, ClientHasHeard
    <2>7. FinishedIsKept'
        BY <2>3, <2>5 DEF IInv, FinishedIsKept
    <2>8. FlightIsTimed'
        BY <2>3, <2>5 DEF IInv, FlightIsTimed, FlightOf
    <2> QED
        BY <2>4, <2>6, <2>7, <2>8 DEF IInv
<1> QED
    BY <1>1, <1>2

\* Flight 6: the Finished of the server has its key.
LEMMA ClientFinishedInv ==
    ASSUME IInv, NEW m \in net, ReceiveClientFinished(m)
    PROVE  IInv'
<1> DEFINE finished == Msg("ServerFinished", server.key)
<1>1. server.key = m.cookie /\ m.cookie \in Cookie
    BY Received DEF IInv, TypeOK, ReceiveClientFinished
<1>2. finished \in Message /\ finished.type = "ServerFinished" /\ finished.cookie = server.key
    BY <1>1, Sent, Fields
<1>3. /\ server' = [server EXCEPT !.flight = 6, !.connected = TRUE]
      /\ net' = net \cup {finished}
      /\ state' = [state EXCEPT ![Server] = "connected"]
      /\ UNCHANGED <<client, loops, waits, issued>>
    BY DEF ReceiveClientFinished
<1> HIDE DEF finished
<1>4. TypeOK'
    BY <1>2, <1>3 DEF IInv, TypeOK
<1>5. server'.flight = 6 /\ server'.connected /\ server'.key = server.key
      /\ server'.renegotiated = server.renegotiated
    BY <1>3 DEF IInv, TypeOK
<1>6. OneSecondHello'
    BY <1>2, <1>3 DEF IInv, OneSecondHello, ServerFlight
<1>7. ClientHasHeard'
    BY <1>3 DEF IInv, ClientHasHeard
<1>8. FinishedIsKept'
    BY <1>2, <1>3, <1>5 DEF IInv, FinishedIsKept
<1>9. FlightIsTimed'
    BY <1>3, <1>5 DEF IInv, TypeOK, FlightIsTimed, FlightOf, Endpoint, Client, Server
<1> QED
    BY <1>4, <1>6, <1>7, <1>8, <1>9 DEF IInv

-----------------------------------------------------------------------------
(* The theorems.                                                                *)

\* Every step preserves the invariant.
LEMMA StepInv == IInv /\ [Next]_vars => IInv'
<1> SUFFICES ASSUME IInv, [Next]_vars PROVE IInv'
    OBVIOUS
<1>1. CASE Connect
    BY <1>1, ConnectInv
<1>2. ASSUME NEW m \in net, ReceiveHelloVerify(m) PROVE IInv'
    BY <1>2, HelloVerifyInv
<1>3. ASSUME NEW m \in net, ReceiveServerHello(m) PROVE IInv'
    BY <1>3, ServerHelloInv
<1>4. ASSUME NEW m \in net, ReceiveFlight4(m) PROVE IInv'
    BY <1>4, Flight4Inv
<1>5. ASSUME NEW m \in net, ReceiveServerFinished(m) PROVE IInv'
    BY <1>5, ServerFinishedInv
<1>6. ASSUME NEW m \in net, ReceiveFirstHello(m) PROVE IInv'
    BY <1>6, FirstHelloInv
<1>7. ASSUME NEW m \in net, ReceiveSecondHello(m) PROVE IInv'
    BY <1>7, SecondHelloInv
<1>8. ASSUME NEW m \in net, ReceiveClientKeyExchange(m) PROVE IInv'
    BY <1>8, ClientKeyExchangeInv
<1>9. ASSUME NEW m \in net, ReceiveClientFinished(m) PROVE IInv'
    BY <1>9, ClientFinishedInv
<1>10. ASSUME NEW w \in waits, Ready(w) \/ WaitTimeout(w) PROVE IInv'
    BY <1>10, ReadyInv, WaitTimeoutInv
<1>11. ASSUME NEW e \in Endpoint, Stop(e) \/ \E l \in loops[e] : Expire(e, l) PROVE IInv'
    BY <1>11, StopInv, ExpireInv
<1>12. CASE UNCHANGED vars
    BY <1>12 DEF vars, IInv, TypeOK, OneSecondHello, ClientHasHeard, FinishedIsKept,
                 FlightIsTimed, FlightOf
<1> QED
    BY <1>1, <1>2, <1>3, <1>4, <1>5, <1>6, <1>7, <1>8, <1>9, <1>10, <1>11, <1>12 DEF Next

\* The inductive invariant of the handshake: what each message and each field of the client
\* shows about the past (flight.ts, client.ts, server.ts).
THEOREM Invariance == Spec => []IInv
    BY InitInv, StepInv, PTL DEF Spec

\* Every variable keeps to its type, in particular the cookies and keys that messages carry.
THEOREM TypeCorrect == Spec => []TypeOK
<1>1. IInv => TypeOK
    BY DEF IInv
<1> QED
    BY <1>1, Invariance, PTL

\* A connected client and server have one key, but for the two histories KeysAgree excepts
\* (flight5.ts, flight6.ts, server.ts).
THEOREM OneKey == Spec => []KeysAgree
<1>1. IInv => KeysAgree
    <2> SUFFICES ASSUME IInv, client.connected, client.key # Wrong, ~server.renegotiated
                 PROVE  server.connected /\ server.key = client.key
        BY DEF KeysAgree
    <2> QED
        BY Fields DEF IInv, FinishedIsKept
<1> QED
    BY <1>1, Invariance, PTL

\* The server runs flight 4 for one cookie, whatever is repeated or comes late, because a
\* client answers one HelloVerifyRequest (flight3.ts).
THEOREM OneFlight4 == Spec => []OneServerFlight
<1>1. IInv => OneServerFlight
    <2> SUFFICES ASSUME IInv, NEW m \in net, NEW n \in net,
                        m.type \in {"ServerHello", "ServerKeyExchange"},
                        n.type \in {"ServerHello", "ServerKeyExchange"}
                 PROVE  m.cookie = n.cookie
        BY DEF OneServerFlight
    <2>1. m.cookie \in Cookie /\ n.cookie \in Cookie
        BY Received DEF IInv, TypeOK
    <2>2. Msg("ClientHello", m.cookie) \in net /\ Msg("ClientHello", n.cookie) \in net
        BY DEF IInv, OneSecondHello, ServerFlight
    <2> QED
        BY <2>1, <2>2, Fields, NoCookieIsNone DEF IInv, OneSecondHello
<1> QED
    BY <1>1, Invariance, PTL

\* An end that waits has a loop that repeats its flight (Flight.transmit).
THEOREM FlightTimed == Spec => []FlightIsTimed
<1>1. IInv => FlightIsTimed
    BY DEF IInv
<1> QED
    BY <1>1, Invariance, PTL
=============================================================================
