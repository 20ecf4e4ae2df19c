---------------------------- MODULE PeerConnection ----------------------------
(* One RTCPeerConnection (src/peerConnection.ts) with its one ICE transport,    *)
(* DTLS transport and SCTP transport: offers and answers, connect(), the states *)
(* it reports, negotiationneeded and close().  The peer, the network and the    *)
(* user do what they may.  An action is what runs without giving way to another *)
(* event: a call or callback, and the continuations of the promises it settles. *)
EXTENDS IceTransport

CONSTANTS MaxDescriptions,  \* bound: descriptions that are set
          MaxConnects       \* bound: calls of connect() that wait for something

ASSUME PeerAssumption == MaxDescriptions \in Nat /\ MaxConnects \in Nat \ {0}

VARIABLES
    pc,         \* the fields of RTCPeerConnection
    dtls,       \* RTCDtlsTransport.state, and whether a handshake runs
    sctp,       \* SCTP.state and started
    calls,      \* where each call of connect() stands
    turns,      \* descriptions set so far
    overtaken   \* ghost: a setter that ended late put its description over a newer one

vars == <<ice, pc, dtls, sctp, calls, turns, overtaken>>

Call == 1 .. MaxConnects

\* What of a description decides: its type, and whether it has the
\* application section, a section of another kind, or none.
Description == [type : {"offer", "answer"}, media : {"none", "application", "other"}]

None == [type |-> "none", media |-> "none"]

Stage == {"none",
          "waiting",     \* for an earlier start() (waitStart)
          "forgotten",   \* for one that is over, in vain
          "gathering",   \* for the local candidates
          "checking",    \* for the result of the checks
          "dtls",        \* for onConnect
          "sctp",        \* for stateChanged.connected
          "done", "failed"}

ConnectionState == {"new", "connecting", "connected", "disconnected", "failed", "closed"}

Descriptions == Description \cup {None}

PcType ==
    [signaling : {"stable", "have-local-offer", "have-remote-offer", "closed"},
     connection : ConnectionState, iceConnection : TransportState,
     isClosed : BOOLEAN, transport : BOOLEAN,        \* sctpTransport exists
     established : BOOLEAN, port : BOOLEAN,          \* sctpRemotePort is set
     pendingLocal : Descriptions, currentLocal : Descriptions,
     pendingRemote : Descriptions, currentRemote : Descriptions,
     settling : Descriptions,                        \* whose setter awaits gathering
     settlingLocal : BOOLEAN,
     negotiationneeded : BOOLEAN, shouldNegotiationneeded : BOOLEAN,
     immediate : BOOLEAN]                            \* setImmediate is due

DtlsType == [state : {"new", "connecting", "connected", "failed", "closed"},
             handshake : {"none", "running", "ended"}]

SctpType == [state : {"new", "connecting", "connected", "closed"}, started : BOOLEAN]

\* Every variable keeps to its type.
TypeOK ==
    /\ ice \in IceType
    /\ pc \in PcType
    /\ dtls \in DtlsType
    /\ sctp \in SctpType
    /\ calls \in [Call -> Stage]
    /\ turns \in 0 .. MaxDescriptions
    /\ overtaken \in BOOLEAN

Init ==
    /\ ice = IceInit
    /\ pc = [signaling |-> "stable", connection |-> "new", iceConnection |-> "new",
             isClosed |-> FALSE, transport |-> FALSE, established |-> FALSE, port |-> FALSE,
             pendingLocal |-> None, currentLocal |-> None,
             pendingRemote |-> None, currentRemote |-> None,
             settling |-> None, settlingLocal |-> FALSE,
             negotiationneeded |-> FALSE, shouldNegotiationneeded |-> FALSE,
             immediate |-> FALSE]
    /\ dtls = [state |-> "new", handshake |-> "none"]
    /\ sctp = [state |-> "new", started |-> FALSE]
    /\ calls = [i \in Call |-> "none"]
    /\ turns = 0
    /\ overtaken = FALSE

-----------------------------------------------------------------------------
(* What the connection reports *)

\* The ICE connection state for the only transport.
IceSummary(p, transport) ==
    CASE p.connection = "closed" -> "closed"
      [] p.connection # "closed" /\ transport = "closed" -> "new"
      [] OTHER -> transport

\* updateIceConnectionState, when the ICE transport told of its step from c to d, and
\* the subscription of the constructor: 'disconnected' is taken over, and 'closed'
\* calls close(), which returns, for only a closed connection reports it.
Report(p, c, d) ==
    LET new == IceSummary(p, d.transport)
    IN  IF ~Told(c, d) \/ new = p.iceConnection THEN p
        ELSE [p EXCEPT !.iceConnection = new,
                       !.connection = IF new = "disconnected" THEN new ELSE @]

\* needNegotiation
NeedNegotiation(p) ==
    IF p.negotiationneeded \/ p.signaling # "stable"
    THEN [p EXCEPT !.shouldNegotiationneeded = TRUE]
    ELSE [p EXCEPT !.shouldNegotiationneeded = FALSE, !.immediate = TRUE]

StillNeeded(p) == IF p.shouldNegotiationneeded THEN NeedNegotiation(p) ELSE p

\* The callback of setImmediate.
NegotiationNeeded ==
    /\ pc.immediate
    /\ pc' = [pc EXCEPT !.immediate = FALSE, !.negotiationneeded = TRUE]
    /\ UNCHANGED <<ice, dtls, sctp, calls, turns, overtaken>>

-----------------------------------------------------------------------------
(* Descriptions *)

\* Variant: what was agreed comes before what is pending.
RemoteCurrentFirst(p) == IF p.currentRemote # None THEN p.currentRemote ELSE p.pendingRemote

LocalDescription(p) == IF p.pendingLocal # None THEN p.pendingLocal ELSE p.currentLocal

RemoteDescription(p) == IF p.pendingRemote # None THEN p.pendingRemote ELSE p.currentRemote

SetLocal(p, d) ==
    IF d.type = "answer"
    THEN [p EXCEPT !.currentLocal = d, !.pendingLocal = None]
    ELSE [p EXCEPT !.pendingLocal = d]

SetRemote(p, d) ==
    IF d.type = "answer"
    THEN [p EXCEPT !.currentRemote = d, !.pendingRemote = None]
    ELSE [p EXCEPT !.pendingRemote = d]

\* Variant: an offer is refused only where an answer is due.
AcceptsUnlessDue(p, d, mine, theirs, offer) ==
    IF d.type = "offer" THEN p.signaling # theirs
    ELSE p.signaling = theirs /\ offer # None /\ d.media = offer.media

\* validateDescription, where an offer makes the state mine and an answer needs theirs.
Accepts(p, d, mine, theirs, offer) ==
    IF d.type = "offer" THEN p.signaling \in {"stable", mine}
    ELSE p.signaling = theirs /\ offer # None /\ d.media = offer.media

-----------------------------------------------------------------------------
(* connect() *)

Fail(p) == [p EXCEPT !.connection = "failed"]

\* One more call of connect(): nothing to do, nothing to wait for, or the start() of the
\* ICE transport.  A wait for a waitStart that is complete never ends, or is refused.
StartConnect(c, p, stages) ==
    LET q == [p EXCEPT !.connection = "connecting"]
        Wait(i, stage) == [stages EXCEPT ![i] = stage]
    IN  CASE p.established -> {<<c, p, stages>>}
          [] ~p.established /\ ~p.transport ->
               {<<c, [p EXCEPT !.connection = "connected", !.established = TRUE], stages>>}
          [] ~p.established /\ p.transport /\ (c.transport = "closed" \/ ~c.remoteParams) ->
               {<<c, Fail(q), stages>>}
          [] OTHER ->
               LET i == CHOOSE j \in Call : stages[j] = "none"
               IN  CASE c.waitStart = "none" ->
                          LET d == Begin(c)
                          IN  IF c.gathering = "complete"
                              THEN {<<StartChecks(d), Report(q, c, d), Wait(i, "checking")>>}
                              ELSE {<<d, Report(q, c, d), Wait(i, "gathering")>>}
                     [] c.waitStart = "pending" -> {<<c, q, Wait(i, "waiting")>>}
                     [] c.waitStart = "complete" ->
                          {<<c, q, Wait(i, "forgotten")>>, <<c, Fail(q), stages>>}

CanConnect(p) == p.established \/ \E i \in Call : calls[i] = "none"

\* Variant: setLocalDescription does not ask.
SettleRemoteOnly(p, d, local) ==
    IF local THEN SetLocal(p, d) ELSE StillNeeded([p EXCEPT !.negotiationneeded = FALSE])

\* The end of the setters, which await gathering only if they start it; setLocal once
\* more, with the candidates.
Settle(p, d, local) ==
    StillNeeded(IF local THEN SetLocal(p, d)
                ELSE [p EXCEPT !.negotiationneeded = FALSE])

\* gather(), and the end of the setter or its wait.
GatherAndSettle(c, p, stages, d, local, gathers) ==
    /\ calls' = stages
    /\ IF gathers /\ c.gathering = "new"
       THEN /\ ice' = Gather(c)
            /\ pc' = [p EXCEPT !.settling = d, !.settlingLocal = local]
       ELSE /\ ice' = c
            /\ pc' = Settle(p, d, local)

\* createSctpTransport and createTransport, if there is none.
CreateTransport(c, p) ==
    IF p.transport THEN p
    ELSE [p EXCEPT !.transport = TRUE, !.iceConnection = IceSummary(p, c.transport)]

\* createDataChannel, the first one.
CreateDataChannel ==
    /\ ~pc.transport
    /\ pc' = NeedNegotiation(CreateTransport(ice, pc))
    /\ UNCHANGED <<ice, dtls, sctp, calls, turns, overtaken>>

\* setLocalDescription.  An offer may have been made before the data channel.
SetLocalDescription ==
    /\ turns < MaxDescriptions /\ turns' = turns + 1
    /\ \E d \in Description :
          LET p == SetLocal([pc EXCEPT !.signaling = IF d.type = "offer" THEN "have-local-offer"
                                                     ELSE "stable"], d)
          IN  /\ d.media = "none" \/ (d.media = "application" /\ pc.transport)
              /\ Accepts(pc, d, "have-local-offer", "have-remote-offer", RemoteDescription(pc))
              /\ d.type = "answer" => CanConnect(pc)
              /\ \E r \in IF d.type = "answer" THEN StartConnect(ice, p, calls)
                          ELSE {<<ice, p, calls>>} :
                    GatherAndSettle(r[1], r[2], r[3], d, TRUE, pc.transport)
    /\ UNCHANGED <<dtls, sctp, overtaken>>

\* What setRemoteDescription does with an application section that has a port.
ApplyMedia(c, p, media, restart, candidates, end) ==
    IF media # "application" THEN <<c, p>>
    ELSE LET d == SetRemoteParams(c, restart)
             e == IF candidates THEN AddRemoteCandidate(d) ELSE d
         IN  <<[e EXCEPT !.remoteCandidatesEnd = @ \/ end],
               [CreateTransport(c, p) EXCEPT !.port = TRUE]>>

\* setRemoteDescription
SetRemoteDescription ==
    /\ turns < MaxDescriptions /\ turns' = turns + 1
    /\ \E d \in Description, restart, candidates, end \in BOOLEAN :
          LET applied == ApplyMedia(ice, SetRemote(pc, d), d.media, restart, candidates, end)
              p == [applied[2] EXCEPT !.signaling = IF d.type = "offer" THEN "have-remote-offer"
                                                    ELSE "stable"]
          IN  /\ d.media # "other"
              /\ Accepts(pc, d, "have-remote-offer", "have-local-offer", LocalDescription(pc))
              /\ d.type = "answer" => CanConnect(pc)
              /\ \E r \in IF d.type = "answer" THEN StartConnect(applied[1], p, calls)
                          ELSE {<<applied[1], p, calls>>} :
                    GatherAndSettle(r[1], r[2], r[3], d, FALSE, d.media = "application")
    /\ UNCHANGED <<dtls, sctp, overtaken>>

\* setRemoteDescription with an application section without a port, or with a section of
\* another kind: it throws when the description, and perhaps the transport, is there
\* already and the signalling state has not changed.
SetRemoteDescriptionThrows ==
    /\ turns < MaxDescriptions /\ turns' = turns + 1
    /\ \E d \in Description :
          /\ Accepts(pc, d, "have-remote-offer", "have-local-offer", LocalDescription(pc))
          /\ d.media # "none"
          /\ pc' = LET p == SetRemote(pc, d)
                   IN  IF d.media = "other" THEN p
                       ELSE [CreateTransport(ice, p) EXCEPT !.port = FALSE]
    /\ UNCHANGED <<ice, dtls, sctp, calls, overtaken>>

\* addIceCandidate, with a candidate that has an address; without one it returns.
AddIceCandidate ==
    /\ pc.transport
    /\ ice' = AddRemoteCandidate(ice)
    /\ UNCHANGED <<pc, dtls, sctp, calls, turns, overtaken>>

-----------------------------------------------------------------------------
(* The ICE transport, as the connection sees it *)

Bind == GatherBinds /\ UNCHANGED <<pc, dtls, sctp, calls, turns, overtaken>>

\* Gathering is over: the call of connect() that waited starts its checks, and the setter
\* that waited ends.
Gathered ==
    /\ ice.gathering = "gathering"
    /\ LET c == GatherEnded(ice)
           p == Report(pc, ice, c)
           waited == {i \in Call : calls[i] = "gathering"}
       IN  /\ ice' = IF waited = {} THEN c ELSE StartChecks(c)
           /\ calls' = [i \in Call |-> IF i \in waited THEN "checking" ELSE calls[i]]
           /\ pc' = IF pc.settling = None THEN p
                    ELSE Settle([p EXCEPT !.settling = None, !.settlingLocal = FALSE],
                                pc.settling, pc.settlingLocal)
    /\ overtaken' = (overtaken \/ (pc.settlingLocal /\ LocalDescription(pc) # pc.settling))
    /\ UNCHANGED <<dtls, sctp, turns>>

PairNominated == Nominate /\ UNCHANGED <<pc, dtls, sctp, calls, turns, overtaken>>

\* The ICE transport is connected: other calls of start() begin, and this one goes on to
\* the start() of the DTLS transport, which throws unless it is new.
IceConnects(i) ==
    /\ calls[i] = "checking" /\ ice.completed
    /\ LET c == Connected(ice)
           waited == {j \in Call : calls[j] = "waiting"}
           d == IF waited = {} THEN c ELSE StartChecks(Begin(c))
           p == Report(pc, ice, d)
           starts == dtls.state = "new"
       IN  /\ ice' = d
           /\ pc' = IF starts THEN p ELSE Fail(p)
           /\ calls' = [j \in Call |-> CASE j = i -> IF starts THEN "dtls" ELSE "failed"
                                          [] j \in waited -> "checking"
                                          [] OTHER -> calls[j]]
           /\ dtls' = IF starts THEN [state |-> "connecting", handshake |-> "running"] ELSE dtls
    /\ UNCHANGED <<sctp, turns, overtaken>>

\* connect() of the ICE connection raises: nobody who waits for this start() goes on.
IceRaises(i) ==
    /\ calls[i] = "checking" /\ CanRaise(ice)
    /\ LET c == SetTransport(ice, "failed")
       IN  /\ ice' = c
           /\ pc' = Fail(Report(pc, ice, c))
    /\ calls' = [calls EXCEPT ![i] = "failed"]
    /\ UNCHANGED <<dtls, sctp, turns, overtaken>>

Consents(step) ==
    /\ step
    /\ pc' = Report(pc, ice, ice')
    /\ UNCHANGED <<dtls, sctp, calls, turns, overtaken>>

-----------------------------------------------------------------------------
(* The DTLS and the SCTP transport, as the connection sees them *)

Establish(p) == [p EXCEPT !.established = TRUE, !.connection = "connected"]

\* Variant: connect() does not await the association.
DtlsConnectsAtOnce ==
    /\ dtls.handshake = "running" /\ ice.sockets \in {"open", "closing"}
    /\ dtls' = [state |-> "connected", handshake |-> "ended"]
    /\ calls' = [i \in Call |-> IF calls[i] # "dtls" THEN calls[i] ELSE "done"]
    /\ pc' = Establish(pc)
    /\ sctp' = IF pc.port /\ ~sctp.started THEN [state |-> "connecting", started |-> TRUE]
               ELSE sctp
    /\ UNCHANGED <<ice, turns, overtaken>>

\* The handshake is over, even if the transport was stopped meanwhile; connect() starts
\* SCTP, if its port is known.
DtlsConnects ==
    /\ dtls.handshake = "running" /\ ice.sockets \in {"open", "closing"}
    /\ dtls' = [state |-> "connected", handshake |-> "ended"]
    /\ calls' = [i \in Call |-> IF calls[i] # "dtls" THEN calls[i]
                               ELSE IF pc.port THEN "sctp" ELSE "done"]
    /\ pc' = IF pc.port THEN pc ELSE Establish(pc)
    /\ sctp' = IF pc.port /\ ~sctp.started THEN [state |-> "connecting", started |-> TRUE]
               ELSE sctp
    /\ UNCHANGED <<ice, turns, overtaken>>

\* onError: connect() goes on waiting for onConnect.
DtlsFails ==
    /\ dtls.handshake = "running"
    /\ dtls' = [state |-> "failed", handshake |-> "ended"]
    /\ UNCHANGED <<ice, pc, sctp, calls, turns, overtaken>>

\* onClose: the alert of the peer closes the association.
DtlsCloses ==
    /\ dtls.handshake # "none" /\ dtls.state # "closed"
    /\ dtls' = [dtls EXCEPT !.state = "closed"]
    /\ sctp' = [sctp EXCEPT !.state = "closed"]
    /\ UNCHANGED <<ice, pc, calls, turns, overtaken>>

\* The association is established, for which both ends must have sent.
SctpConnects ==
    /\ sctp.state = "connecting"
    /\ dtls.state = "connected" /\ ice.nominated /\ ice.sockets = "open"
    /\ sctp' = [sctp EXCEPT !.state = "connected"]
    /\ pc' = IF \E i \in Call : calls[i] = "sctp" THEN Establish(pc) ELSE pc
    /\ calls' = [i \in Call |-> IF calls[i] = "sctp" THEN "done" ELSE calls[i]]
    /\ UNCHANGED <<ice, dtls, turns, overtaken>>

\* The association gives up, or the peer aborts it: nobody awaits that.
SctpCloses ==
    /\ sctp.state \in {"connecting", "connected"}
    /\ sctp' = [sctp EXCEPT !.state = "closed"]
    /\ UNCHANGED <<ice, pc, dtls, calls, turns, overtaken>>

-----------------------------------------------------------------------------
(* close() *)

\* close() up to the first socket.  The calls of connect() are not told.
Close ==
    /\ ~pc.isClosed
    /\ LET p == [pc EXCEPT !.isClosed = TRUE, !.signaling = "closed", !.connection = "closed"]
           c == StopTransport(ice)
       IN  IF pc.transport
           THEN /\ ice' = c
                /\ pc' = Report(p, ice, c)
                /\ dtls' = [dtls EXCEPT !.state = "closed"]
                /\ sctp' = [sctp EXCEPT !.state = "closed"]
           ELSE /\ pc' = p
                /\ UNCHANGED <<ice, dtls, sctp>>
    /\ UNCHANGED <<calls, turns, overtaken>>

CloseSockets == SocketsClose /\ UNCHANGED <<pc, dtls, sctp, calls, turns, overtaken>>

Next ==
    \/ CreateDataChannel \/ NegotiationNeeded
    \/ SetLocalDescription \/ SetRemoteDescription \/ SetRemoteDescriptionThrows
    \/ AddIceCandidate
    \/ Bind \/ Gathered \/ PairNominated
    \/ \E i \in Call : IceConnects(i) \/ IceRaises(i)
    \/ DtlsConnects \/ DtlsFails \/ DtlsCloses
    \/ SctpConnects \/ SctpCloses
    \/ Consents(ConsentWakes) \/ Consents(ConsentAnswered) \/ Consents(ConsentMissed)
    \/ Close \/ CloseSockets

Spec == Init /\ [][Next]_vars

\* The timers of the consent tests run and each transaction ends.
FairSpec ==
    /\ Spec
    /\ WF_vars(Consents(ConsentWakes))
    /\ WF_vars(Consents(ConsentAnswered) \/ Consents(ConsentMissed))

-----------------------------------------------------------------------------
(* Properties *)

\* Whatever offers and answers cross or fail half way, an answer always finds the offer it
\* is compared with (validateDescription), unless setLocalDescription put a description
\* that waited for gathering over a newer one.
OfferIsPending ==
    /\ pc.signaling = "have-local-offer" /\ ~overtaken => LocalDescription(pc).type = "offer"
    /\ pc.signaling = "have-remote-offer" => RemoteDescription(pc).type = "offer"

\* A wish to negotiate that had to wait is not forgotten: in a stable state it waits only
\* for a setter that is about to end (needNegotiation).
NegotiationIsNotForgotten ==
    pc.shouldNegotiationneeded /\ pc.signaling = "stable" => pc.settling # None

\* No promise that settles late makes a closed connection anything but closed or failed
\* (connect, close), unless a description without a port, which throws, has made connect()
\* pass over SCTP.
ClosedIsNotRevived ==
    pc.isClosed =>
        /\ pc.signaling = "closed"
        /\ pc.connection \in {"closed", "failed"} \/ (pc.transport /\ ~pc.port)

\* While consent is tested, a connection is disconnected exactly if an answer is missing
\* since the last one (queryConsent).
DisconnectedIsMissing ==
    ice.consent \in {"asleep", "asking"} =>
        (ice.state = "disconnected" <=> ice.failures > 0)

\* 'connected' is told only when the association is there, if there is to be one (connect).
ConnectedIsEarned ==
    [][pc'.connection = "connected" /\ pc.connection # "connected" =>
          pc'.established /\ (pc.transport /\ pc.port => sctp'.state = "connected")]_vars

\* A connection that misses an answer recovers or is closed, unless a restart of ICE left it
\* without a pair to test (queryConsent).
ConsentDecides == ice.failures > 0 ~> ice.failures = 0 \/ ice.state = "closed" \/ ~ice.nominated

-----------------------------------------------------------------------------
(* The inductive invariant behind the invariants about offers and consent *)

\* Offers are pending, answers are current; and in the state that has an offer it is there.
OffersArePending ==
    /\ \A d \in {pc.pendingLocal, pc.pendingRemote} : d.type # "answer"
    /\ \A d \in {pc.currentLocal, pc.currentRemote} : d.type # "offer"
    /\ pc.signaling = "have-local-offer" /\ ~overtaken => pc.pendingLocal # None
    /\ pc.signaling = "have-remote-offer" => pc.pendingRemote # None

\* needNegotiation was called once, with the first data channel: it waits, is due or has
\* been told.
NegotiationOnce ==
    /\ ~pc.transport => ~pc.shouldNegotiationneeded /\ ~pc.immediate /\ ~pc.negotiationneeded
    /\ pc.shouldNegotiationneeded => ~pc.immediate /\ ~pc.negotiationneeded

\* Nothing is checked or tested before gathering is over, which sets the state.
ChecksFollowGathering ==
    ice.consent # "none" \/ (\E i \in Call : calls[i] = "checking")
        => ice.gathering = "complete"

\* A test that goes on may still be missed.
TestsAreLeft == ice.consent \in {"asleep", "asking"} => ice.failures < ConsentFailures

IInv ==
    /\ TypeOK
    /\ TestsAreLeft
    /\ OffersArePending
    /\ NegotiationOnce
    /\ NegotiationIsNotForgotten
    /\ ChecksFollowGathering
    /\ DisconnectedIsMissing

Called == \E i \in Call : calls[i] # "none"

\* The inductive invariant behind ClosedIsNotRevived: what runs on after close() finds its
\* sockets gone, the DTLS transport used up, or nobody who is told.
ClosedIsOver ==
    /\ ClosedIsNotRevived
    /\ Called => pc.transport
    /\ ice.consent # "none" => Called
    /\ ice.transport = "closed" => ice.ended
    /\ ice.completed => ice.sockets # "unbound"
    /\ pc.isClosed /\ Called => ice.ended /\ dtls.state # "new"
    /\ dtls.handshake # "none" =>
          /\ Called
          /\ ice.sockets # "unbound"
          /\ ice.transport = "closed" \/ pc.isClosed => ice.sockets # "open"
    /\ sctp.state \in {"connecting", "connected"} => dtls.handshake # "none"
=============================================================================
