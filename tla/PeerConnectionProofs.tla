------------------------- MODULE PeerConnectionProofs -------------------------
(* Theorems of PeerConnection, for every number of failures of consent and of     *)
(* descriptions and calls.  First what each operator does to the records it is    *)
(* given, then one lemma per group of actions for types and for IInv.              *)
EXTENDS PeerConnection, TLAPS

-----------------------------------------------------------------------------
(* The operators of IceTransport *)

\* What IInv needs to know of the ICE side stays as it was.
SameIce(c, d) ==
    /\ d.state = c.state /\ d.consent = c.consent /\ d.failures = c.failures
    /\ d.gathering = c.gathering

LEMMA TransportTyped ==
    ASSUME NEW c \in IceType, NEW t \in TransportState
    PROVE  SetTransport(c, t) \in IceType /\ SameIce(c, SetTransport(c, t))
BY DEF IceType, SetTransport, SameIce

LEMMA StateTyped ==
    ASSUME NEW c \in IceType, NEW s \in IceState
    PROVE  /\ SetState(c, s) \in IceType /\ SetState(c, s).state = s
           /\ SetState(c, s).consent = c.consent /\ SetState(c, s).failures = c.failures
           /\ SetState(c, s).gathering = c.gathering
BY DEF IceType, SetTransport, SetState, IceState, TransportState

LEMMA StepsOfStart ==
    ASSUME NEW c \in IceType
    PROVE  /\ Begin(c) \in IceType /\ SameIce(c, Begin(c))
           /\ StartChecks(c) \in IceType /\ SameIce(c, StartChecks(c))
           /\ Connected(c) \in IceType /\ Connected(c).state = "connected"
           /\ Connected(c).failures = 0 /\ Connected(c).gathering = c.gathering
<1>1. Begin(c) \in IceType /\ SameIce(c, Begin(c))
  BY TransportTyped DEF IceType, Begin, TransportState, SameIce
<1>2. StartChecks(c) \in IceType /\ SameIce(c, StartChecks(c))
  BY DEF IceType, StartChecks, SameIce
<1>3. Connected(c) \in IceType /\ Connected(c).state = "connected"
      /\ Connected(c).failures = 0 /\ Connected(c).gathering = c.gathering
  <2> DEFINE d == SetState(c, "connected")
  <2>1. d \in IceType /\ d.state = "connected" /\ d.gathering = c.gathering
    BY StateTyped DEF IceState
  <2> HIDE DEF d
  <2>2. 0 \in 0 .. ConsentFailures
    BY ConsentAssumption
  <2> DEFINE e == [d EXCEPT !.completed = FALSE, !.waitStart = "complete",
                            !.consent = "asleep", !.failures = 0]
  <2>3. e \in IceType
    BY <2>1, <2>2 DEF IceType, Consent
  <2>4. e.state = d.state /\ e.failures = 0 /\ e.gathering = d.gathering
    BY <2>1 DEF IceType
  <2> QED
    BY <2>1, <2>3, <2>4 DEF Connected, d
<1> QED
  BY <1>1, <1>2, <1>3

LEMMA StepsOfOthers ==
    ASSUME NEW c \in IceType, NEW restart \in BOOLEAN
    PROVE  /\ SetRemoteParams(c, restart) \in IceType /\ SameIce(c, SetRemoteParams(c, restart))
           /\ AddRemoteCandidate(c) \in IceType /\ SameIce(c, AddRemoteCandidate(c))
           /\ Gather(c) \in IceType
           /\ GatherEnded(c) \in IceType /\ GatherEnded(c).gathering = "complete"
           /\ GatherEnded(c).consent = c.consent
<1>1. SetRemoteParams(c, restart) \in IceType /\ SameIce(c, SetRemoteParams(c, restart))
  BY DEF IceType, SetRemoteParams, SameIce
<1>2. AddRemoteCandidate(c) \in IceType /\ SameIce(c, AddRemoteCandidate(c))
  BY DEF IceType, AddRemoteCandidate, SameIce
<1>3. Gather(c) \in IceType
  BY DEF IceType, Gather
<1>4. GatherEnded(c) \in IceType /\ GatherEnded(c).gathering = "complete"
      /\ GatherEnded(c).consent = c.consent
  <2> DEFINE d == SetState(c, "completed")
  <2>1. d \in IceType /\ d.consent = c.consent
    BY StateTyped DEF IceState
  <2> HIDE DEF d
  <2> QED
    BY <2>1 DEF IceType, GatherEnded, d
<1> QED
  BY <1>1, <1>2, <1>3, <1>4

LEMMA CloseTyped ==
    ASSUME NEW c \in IceType
    PROVE  /\ CloseConnection(c) \in IceType
           /\ CloseConnection(c).consent \in {"none", "ended"}
           /\ CloseConnection(c).gathering = c.gathering
           /\ (CloseConnection(c).consent = "none") <=> (c.consent = "none")
<1> DEFINE d == SetState(c, "closed")
<1>1. d \in IceType /\ d.consent = c.consent /\ d.gathering = c.gathering
  BY StateTyped DEF IceState
<1> HIDE DEF d
<1> DEFINE x == IF d.consent = "none" THEN d.consent ELSE "ended"
           y == IF d.sockets = "open" THEN "closing" ELSE d.sockets
           e == [d EXCEPT !.consent = x, !.nominated = FALSE, !.sockets = y]
<1>3. x \in Consent /\ y \in Sockets /\ x \in {"none", "ended"} /\ ((x = "none") <=> (d.consent = "none"))
  BY <1>1 DEF IceType, Consent, Sockets
<1>4. CloseConnection(c) = e
  BY DEF CloseConnection, d
<1> HIDE DEF x, y
<1>5. e \in IceType /\ e.consent = x /\ e.gathering = d.gathering
  BY <1>1, <1>3 DEF IceType
<1> QED
  BY <1>1, <1>3, <1>4, <1>5

-----------------------------------------------------------------------------
(* The operators of PeerConnection *)

\* What IInv needs to know of pc stays as it was, the descriptions apart.
SameWish(p, q) ==
    /\ q.signaling = p.signaling /\ q.settling = p.settling
    /\ q.shouldNegotiationneeded = p.shouldNegotiationneeded
    /\ q.negotiationneeded = p.negotiationneeded /\ q.immediate = p.immediate

SameDescriptions(p, q) ==
    /\ q.pendingLocal = p.pendingLocal /\ q.currentLocal = p.currentLocal
    /\ q.pendingRemote = p.pendingRemote /\ q.currentRemote = p.currentRemote
    /\ q.settlingLocal = p.settlingLocal

SamePc(p, q) == SameWish(p, q) /\ SameDescriptions(p, q)

LEMMA SummaryTyped ==
    ASSUME NEW p, NEW t \in TransportState
    PROVE  IceSummary(p, t) \in TransportState
BY DEF IceSummary, TransportState, IceState

LEMMA ReportFacts ==
    ASSUME NEW p \in PcType, NEW c, NEW d \in IceType
    PROVE  /\ Report(p, c, d) \in PcType /\ SamePc(p, Report(p, c, d))
           /\ Report(p, c, d).transport = p.transport
           /\ Report(p, c, d).connection \in {p.connection, "disconnected"}
<1> DEFINE new == IceSummary(p, d.transport)
           conn == IF new = "disconnected" THEN new ELSE p.connection
           q == [p EXCEPT !.iceConnection = new, !.connection = conn]
<1>1. new \in TransportState
  BY SummaryTyped DEF IceType
<1>2. conn \in ConnectionState /\ conn \in {p.connection, "disconnected"}
  BY DEF PcType, ConnectionState
<1>3. Report(p, c, d) = p \/ Report(p, c, d) = q
  BY DEF Report
<1> HIDE DEF new, conn
<1>4. q \in PcType /\ SamePc(p, q) /\ q.transport = p.transport /\ q.connection = conn
  BY <1>1, <1>2 DEF PcType, SamePc, SameWish, SameDescriptions
<1>5. SamePc(p, p)
  BY DEF SamePc, SameWish, SameDescriptions
<1> QED
  BY <1>2, <1>3, <1>4, <1>5

LEMMA SmallSteps ==
    ASSUME NEW p \in PcType
    PROVE  /\ Fail(p) \in PcType /\ SamePc(p, Fail(p)) /\ Fail(p).transport = p.transport
           /\ Establish(p) \in PcType /\ SamePc(p, Establish(p))
           /\ Establish(p).transport = p.transport /\ Establish(p).established
           /\ Fail(p).connection = "failed"
<1>1. Fail(p) \in PcType /\ SamePc(p, Fail(p)) /\ Fail(p).transport = p.transport
      /\ Fail(p).connection = "failed"
  BY DEF Fail, PcType, ConnectionState, SamePc, SameWish, SameDescriptions
<1>2. Establish(p) \in PcType /\ SamePc(p, Establish(p))
      /\ Establish(p).transport = p.transport /\ Establish(p).established
  BY DEF Establish, PcType, ConnectionState, SamePc, SameWish, SameDescriptions
<1> QED
  BY <1>1, <1>2

LEMMA CreateTransportFacts ==
    ASSUME NEW p \in PcType, NEW c \in IceType
    PROVE  /\ CreateTransport(c, p) \in PcType /\ SamePc(p, CreateTransport(c, p))
           /\ CreateTransport(c, p).transport
           /\ CreateTransport(c, p).connection = p.connection
           /\ CreateTransport(c, p).established = p.established
<1>1. IceSummary(p, c.transport) \in TransportState
  BY SummaryTyped DEF IceType
<1> QED
  BY <1>1 DEF CreateTransport, PcType, SamePc, SameWish, SameDescriptions

\* needNegotiation, for a wish that is not on its way yet.
LEMMA WishFacts ==
    ASSUME NEW p \in PcType
    PROVE  /\ StillNeeded(p) \in PcType /\ NeedNegotiation(p) \in PcType
           /\ SameDescriptions(p, StillNeeded(p)) /\ SameDescriptions(p, NeedNegotiation(p))
           /\ StillNeeded(p).signaling = p.signaling /\ NeedNegotiation(p).signaling = p.signaling
           /\ StillNeeded(p).settling = p.settling /\ NeedNegotiation(p).settling = p.settling
           /\ StillNeeded(p).transport = p.transport /\ NeedNegotiation(p).transport = p.transport
           /\ StillNeeded(p).established = p.established
           /\ StillNeeded(p).connection = p.connection /\ NeedNegotiation(p).connection = p.connection
<1>1. /\ NeedNegotiation(p) \in PcType /\ SameDescriptions(p, NeedNegotiation(p))
      /\ NeedNegotiation(p).signaling = p.signaling /\ NeedNegotiation(p).settling = p.settling
      /\ NeedNegotiation(p).transport = p.transport /\ NeedNegotiation(p).connection = p.connection
      /\ NeedNegotiation(p).established = p.established
  BY DEF NeedNegotiation, PcType, SameDescriptions
<1> QED
  BY <1>1 DEF StillNeeded, SameDescriptions

LEMMA WishIsServed ==
    ASSUME NEW p \in PcType, ~p.negotiationneeded, ~p.shouldNegotiationneeded \/ ~p.immediate
    PROVE  LET q == StillNeeded(p)
           IN  /\ q.shouldNegotiationneeded => p.signaling # "stable" /\ p.shouldNegotiationneeded
               /\ ~q.negotiationneeded
               /\ q.shouldNegotiationneeded => ~q.immediate
               /\ ~p.shouldNegotiationneeded => q = p
BY DEF StillNeeded, NeedNegotiation, PcType

LEMMA SettersTyped ==
    ASSUME NEW p \in PcType, NEW d \in Description
    PROVE  /\ SetLocal(p, d) \in PcType /\ SameWish(p, SetLocal(p, d))
           /\ SetLocal(p, d).pendingRemote = p.pendingRemote
           /\ SetLocal(p, d).currentRemote = p.currentRemote
           /\ SetRemote(p, d) \in PcType /\ SameWish(p, SetRemote(p, d))
           /\ SetRemote(p, d).pendingLocal = p.pendingLocal
           /\ SetRemote(p, d).currentLocal = p.currentLocal
           /\ SetLocal(p, d).transport = p.transport /\ SetRemote(p, d).transport = p.transport
           /\ SetLocal(p, d).connection = p.connection /\ SetRemote(p, d).connection = p.connection
           /\ SetLocal(p, d).established = p.established
           /\ SetRemote(p, d).established = p.established
<1>1. d \in Descriptions /\ None \in Descriptions
  BY DEF Descriptions
<1>2. /\ SetLocal(p, d) \in PcType /\ SameWish(p, SetLocal(p, d))
      /\ SetLocal(p, d).pendingRemote = p.pendingRemote
      /\ SetLocal(p, d).currentRemote = p.currentRemote
      /\ SetLocal(p, d).transport = p.transport /\ SetLocal(p, d).connection = p.connection
      /\ SetLocal(p, d).established = p.established
  BY <1>1 DEF SetLocal, PcType, SameWish
<1>3. /\ SetRemote(p, d) \in PcType /\ SameWish(p, SetRemote(p, d))
      /\ SetRemote(p, d).pendingLocal = p.pendingLocal
      /\ SetRemote(p, d).currentLocal = p.currentLocal
      /\ SetRemote(p, d).transport = p.transport /\ SetRemote(p, d).connection = p.connection
      /\ SetRemote(p, d).established = p.established
  BY <1>1 DEF SetRemote, PcType, SameWish
<1> QED
  BY <1>2, <1>3

\* setLocal and setRemote keep offers pending and answers current.
LEMMA SettersKeep ==
    ASSUME NEW p \in PcType, NEW d \in Description,
           p.pendingLocal.type # "answer", p.pendingRemote.type # "answer",
           p.currentLocal.type # "offer", p.currentRemote.type # "offer"
    PROVE  /\ SetLocal(p, d).pendingLocal.type # "answer"
           /\ SetLocal(p, d).currentLocal.type # "offer"
           /\ d.type = "offer" => SetLocal(p, d).pendingLocal # None
           /\ SetRemote(p, d).pendingRemote.type # "answer"
           /\ SetRemote(p, d).currentRemote.type # "offer"
           /\ d.type = "offer" => SetRemote(p, d).pendingRemote # None
<1>1. d.type \in {"offer", "answer"} /\ None.type = "none"
  BY DEF Description, None
<1> QED
  BY <1>1 DEF SetLocal, SetRemote, PcType

-----------------------------------------------------------------------------
(* IInv, as a condition on each record *)

GoodIce(c) ==
    /\ c \in IceType
    /\ c.consent \in {"asleep", "asking"} =>
          (c.state = "disconnected" <=> c.failures > 0) /\ c.failures < ConsentFailures
    /\ c.consent # "none" => c.gathering = "complete"

HalfPc(p, over) ==
    /\ p \in PcType
    /\ p.pendingLocal.type # "answer" /\ p.pendingRemote.type # "answer"
    /\ p.currentLocal.type # "offer" /\ p.currentRemote.type # "offer"
    /\ p.signaling = "have-local-offer" /\ ~over => p.pendingLocal # None
    /\ p.signaling = "have-remote-offer" => p.pendingRemote # None
    /\ ~p.transport => ~p.shouldNegotiationneeded /\ ~p.immediate /\ ~p.negotiationneeded
    /\ p.shouldNegotiationneeded => ~p.immediate /\ ~p.negotiationneeded

GoodPc(p, over) ==
    /\ HalfPc(p, over)
    /\ p.shouldNegotiationneeded /\ p.signaling = "stable" => p.settling # None

GoodCalls(c, stages) ==
    /\ stages \in [Call -> Stage]
    /\ \A i \in Call : stages[i] = "checking" => c.gathering = "complete"

Others ==
    /\ dtls \in DtlsType /\ sctp \in SctpType
    /\ turns \in 0 .. MaxDescriptions /\ overtaken \in BOOLEAN

Good == GoodIce(ice) /\ GoodPc(pc, overtaken) /\ GoodCalls(ice, calls) /\ Others

LEMMA GoodIsIInv == IInv <=> Good
BY DEF IInv, TypeOK, TestsAreLeft, OffersArePending, NegotiationOnce, NegotiationIsNotForgotten,
       ChecksFollowGathering, DisconnectedIsMissing, Good, GoodIce, GoodPc, HalfPc, GoodCalls, Others

LEMMA SameIceIsGood ==
    ASSUME NEW c, NEW d \in IceType, GoodIce(c), SameIce(c, d)
    PROVE  GoodIce(d)
BY DEF GoodIce, SameIce

LEMMA SamePcIsGood ==
    ASSUME NEW p, NEW q \in PcType, NEW over, SamePc(p, q), p.transport => q.transport
    PROVE  /\ HalfPc(p, over) => HalfPc(q, over)
           /\ GoodPc(p, over) => GoodPc(q, over)
BY DEF HalfPc, GoodPc, SamePc, SameWish, SameDescriptions

LEMMA ReportIsGood ==
    ASSUME NEW p, NEW c, NEW d \in IceType, NEW over, GoodPc(p, over)
    PROVE  GoodPc(Report(p, c, d), over)
<1>1. p \in PcType
  BY DEF GoodPc, HalfPc
<1> QED
  BY <1>1, ReportFacts, SamePcIsGood

-----------------------------------------------------------------------------
(* connect(), and the end of the setters *)

\* Whether the step from p to q may have told that the connection is there.
Quiet(p, q) == q.connection = "connected" => p.connection = "connected" \/ (q.established /\ ~q.transport)

LEMMA StartConnectFacts ==
    ASSUME NEW c, GoodIce(c), NEW p \in PcType, NEW stages, GoodCalls(c, stages),
           p.established \/ \E i \in Call : stages[i] = "none",
           NEW r \in StartConnect(c, p, stages)
    PROVE  /\ GoodIce(r[1]) /\ r[1].gathering = c.gathering /\ GoodCalls(r[1], r[3])
           /\ r[2] \in PcType /\ SamePc(p, r[2])
           /\ r[2].transport = p.transport /\ Quiet(p, r[2])
<1> DEFINE q == [p EXCEPT !.connection = "connecting"]
           e == [p EXCEPT !.connection = "connected", !.established = TRUE]
<1>1. q \in PcType /\ SamePc(p, q) /\ q.transport = p.transport /\ q.connection = "connecting"
  BY DEF PcType, ConnectionState, SamePc, SameWish, SameDescriptions
<1>2. e \in PcType /\ SamePc(p, e) /\ e.transport = p.transport /\ e.established
  BY DEF PcType, ConnectionState, SamePc, SameWish, SameDescriptions
<1>3. /\ Fail(q) \in PcType /\ SamePc(p, Fail(q)) /\ Fail(q).transport = p.transport
      /\ Fail(q).connection = "failed"
  BY <1>1, SmallSteps DEF SamePc, SameWish, SameDescriptions
<1>4. c \in IceType /\ SamePc(p, p)
  BY DEF GoodIce, SamePc, SameWish, SameDescriptions
<1> HIDE DEF q, e
<1>5. CASE p.established
  <2>1. r[1] = c /\ r[2] = p /\ r[3] = stages
    BY <1>5 DEF StartConnect
  <2> QED
    BY <2>1, <1>4 DEF Quiet
<1>6. CASE ~p.established /\ ~p.transport
  <2>1. r[1] = c /\ r[2] = e /\ r[3] = stages
    BY <1>6 DEF StartConnect, e
  <2> QED
    BY <2>1, <1>2, <1>4, <1>6 DEF Quiet
<1>7. CASE ~p.established /\ p.transport /\ (c.transport = "closed" \/ ~c.remoteParams)
  <2>1. r[1] = c /\ r[2] = Fail(q) /\ r[3] = stages
    BY <1>7 DEF StartConnect, q
  <2> QED
    BY <2>1, <1>3, <1>4 DEF Quiet
<1>8. CASE ~p.established /\ p.transport /\ ~(c.transport = "closed" \/ ~c.remoteParams)
  <2> DEFINE i == CHOOSE j \in Call : stages[j] = "none"
             Wait(stage) == [stages EXCEPT ![i] = stage]
             d == Begin(c)
  <2>1. i \in Call
    BY <1>8
  <2>2. /\ d \in IceType /\ SameIce(c, d)
        /\ StartChecks(d) \in IceType /\ SameIce(d, StartChecks(d))
    BY <1>4, StepsOfStart
  <2>3. /\ GoodIce(d) /\ GoodIce(StartChecks(d)) /\ d.gathering = c.gathering
        /\ StartChecks(d).gathering = c.gathering
    BY <2>2, SameIceIsGood DEF SameIce
  <2>4. /\ Report(q, c, d) \in PcType /\ SamePc(p, Report(q, c, d))
        /\ Report(q, c, d).transport = p.transport
        /\ Report(q, c, d).connection # "connected"
    <3>1. /\ Report(q, c, d) \in PcType /\ SamePc(q, Report(q, c, d))
          /\ Report(q, c, d).transport = q.transport
          /\ Report(q, c, d).connection \in {q.connection, "disconnected"}
      BY <1>1, <2>2, ReportFacts
    <3> QED
      BY <1>1, <3>1 DEF SamePc, SameWish, SameDescriptions
  <2>5. ASSUME NEW stage \in Stage, NEW f, f.gathering = c.gathering,
               stage # "checking" \/ c.gathering = "complete"
        PROVE  GoodCalls(f, Wait(stage))
    BY <2>1, <2>5 DEF GoodCalls
  <2>6. {"checking", "gathering", "waiting", "forgotten"} \subseteq Stage
    BY DEF Stage
  <2>7. c.waitStart \in {"none", "pending", "complete"}
    BY <1>4 DEF IceType
  <2> HIDE DEF d
  <2>8. CASE c.waitStart = "none" /\ c.gathering = "complete"
    <3>1. r = <<StartChecks(d), Report(q, c, d), Wait("checking")>>
      BY <1>8, <2>8 DEF StartConnect, q, d
    <3> QED
      BY <3>1, <2>3, <2>4, <2>5, <2>6, <2>8 DEF Quiet
  <2>9. CASE c.waitStart = "none" /\ c.gathering # "complete"
    <3>1. r = <<d, Report(q, c, d), Wait("gathering")>>
      BY <1>8, <2>9 DEF StartConnect, q, d
    <3> QED
      BY <3>1, <2>3, <2>4, <2>5, <2>6 DEF Quiet
  <2>10. CASE c.waitStart = "pending"
    <3>1. r = <<c, q, Wait("waiting")>>
      BY <1>8, <2>10 DEF StartConnect, q
    <3> QED
      BY <3>1, <1>1, <2>5, <2>6 DEF Quiet
  <2>11. CASE c.waitStart = "complete"
    <3>1. r = <<c, q, Wait("forgotten")>> \/ r = <<c, Fail(q), stages>>
      BY <1>8, <2>11 DEF StartConnect, q
    <3>2. CASE r = <<c, q, Wait("forgotten")>>
      BY <3>2, <1>1, <2>5, <2>6 DEF Quiet
    <3>3. CASE r = <<c, Fail(q), stages>>
      BY <3>3, <1>3 DEF Quiet
    <3> QED
      BY <3>1, <3>2, <3>3
  <2> QED
    BY <2>7, <2>8, <2>9, <2>10, <2>11
<1> QED
  BY <1>5, <1>6, <1>7, <1>8

\* A setter leaves no wish behind in a stable state.
LEMMA SettleFacts ==
    ASSUME NEW p \in PcType, NEW d \in Description, NEW local \in BOOLEAN, NEW over,
           HalfPc(p, over), local /\ d.type = "answer" => p.signaling # "have-local-offer" \/ over
    PROVE  /\ GoodPc(Settle(p, d, local), over)
           /\ Settle(p, d, local).transport = p.transport
           /\ Settle(p, d, local).established = p.established
           /\ Settle(p, d, local).connection = p.connection
<1> DEFINE q == IF local THEN SetLocal(p, d) ELSE [p EXCEPT !.negotiationneeded = FALSE]
<1>1. /\ q \in PcType /\ q.transport = p.transport /\ q.signaling = p.signaling
      /\ q.established = p.established /\ q.connection = p.connection
      /\ HalfPc(q, over)
  <2>1. CASE local
    <3>1. d.type \in {"offer", "answer"} /\ d # None
      BY DEF Description, None
    <3> DEFINE s == SetLocal(p, d)
    <3>2. /\ s \in PcType /\ SameWish(p, s) /\ s.pendingRemote = p.pendingRemote
          /\ s.currentRemote = p.currentRemote /\ s.transport = p.transport
          /\ s.connection = p.connection /\ s.established = p.established
      BY SettersTyped
    <3>3. /\ s.pendingLocal.type # "answer" /\ s.currentLocal.type # "offer"
          /\ d.type = "offer" => s.pendingLocal # None
      BY SettersKeep DEF HalfPc
    <3>4. q = s
      BY <2>1
    <3> HIDE DEF s, q
    <3> QED
      BY <2>1, <3>1, <3>2, <3>3, <3>4 DEF HalfPc, SameWish
  <2>2. CASE ~local
    BY <2>2 DEF HalfPc, PcType
  <2> QED
    BY <2>1, <2>2
<1>2. Settle(p, d, local) = StillNeeded(q)
  BY DEF Settle
<1> HIDE DEF q
<1> DEFINE s == StillNeeded(q)
<1>3. /\ s \in PcType /\ SameDescriptions(q, s) /\ s.signaling = q.signaling
      /\ s.settling = q.settling /\ s.transport = q.transport
      /\ s.established = q.established /\ s.connection = q.connection
  BY <1>1, WishFacts
<1>4. CASE ~q.shouldNegotiationneeded
  <2>1. s = q
    BY <1>4 DEF StillNeeded
  <2> QED
    BY <1>1, <1>2, <1>4, <2>1 DEF GoodPc
<1>5. CASE q.shouldNegotiationneeded
  <2>1. ~q.negotiationneeded /\ ~q.immediate /\ q.transport
    BY <1>1, <1>5 DEF HalfPc, PcType
  <2>2. /\ s.shouldNegotiationneeded => q.signaling # "stable"
        /\ ~s.negotiationneeded /\ (s.shouldNegotiationneeded => ~s.immediate)
    BY <1>1, <2>1, WishIsServed
  <2> HIDE DEF s
  <2>3. HalfPc(s, over)
    BY <1>1, <1>3, <2>1, <2>2 DEF HalfPc, SameDescriptions
  <2> QED
    BY <1>1, <1>2, <1>3, <2>2, <2>3 DEF GoodPc, s
<1> QED
  BY <1>4, <1>5

LEMMA GatherAndSettleFacts ==
    ASSUME NEW c, GoodIce(c), NEW p, NEW over, HalfPc(p, over), NEW stages, GoodCalls(c, stages),
           NEW d \in Description, NEW local \in BOOLEAN, NEW gathers \in BOOLEAN,
           local /\ d.type = "answer" => p.signaling # "have-local-offer",
           GatherAndSettle(c, p, stages, d, local, gathers)
    PROVE  /\ GoodIce(ice') /\ GoodPc(pc', over) /\ GoodCalls(ice', calls')
           /\ pc'.transport = p.transport /\ pc'.established = p.established
           /\ pc'.connection = p.connection
<1>1. p \in PcType /\ calls' = stages
  BY DEF HalfPc, GatherAndSettle
<1>2. CASE gathers /\ c.gathering = "new"
  <2> DEFINE e == Gather(c)
             q == [p EXCEPT !.settling = d, !.settlingLocal = local]
  <2>1. ice' = e /\ pc' = q
    BY <1>2 DEF GatherAndSettle
  <2>2. GoodIce(e)
    BY <1>2 DEF GoodIce, IceType, Gather
  <2>3. GoodCalls(e, stages)
    BY <1>2 DEF GoodCalls
  <2>4. d \in Descriptions /\ d # None
    BY DEF Descriptions, Description, None
  <2>5. q \in PcType /\ HalfPc(q, over) /\ q.settling = d
        /\ q.transport = p.transport /\ q.established = p.established
        /\ q.connection = p.connection
    BY <1>1, <2>4 DEF HalfPc, PcType
  <2> HIDE DEF e, q
  <2> QED
    BY <1>1, <2>1, <2>2, <2>3, <2>4, <2>5 DEF GoodPc
<1>3. CASE ~(gathers /\ c.gathering = "new")
  <2>1. ice' = c /\ pc' = Settle(p, d, local)
    BY <1>3 DEF GatherAndSettle
  <2> QED
    BY <1>1, <2>1, SettleFacts
<1> QED
  BY <1>2, <1>3

\* The common end of setLocalDescription and setRemoteDescription.
LEMMA ConnectAndSettle ==
    ASSUME NEW c, GoodIce(c), NEW p, NEW over, HalfPc(p, over), NEW stages, GoodCalls(c, stages),
           NEW d \in Description, NEW local \in BOOLEAN, NEW gathers \in BOOLEAN,
           local /\ d.type = "answer" => p.signaling # "have-local-offer",
           d.type = "answer" => p.established \/ \E i \in Call : stages[i] = "none",
           NEW r \in IF d.type = "answer" THEN StartConnect(c, p, stages) ELSE {<<c, p, stages>>},
           GatherAndSettle(r[1], r[2], r[3], d, local, gathers)
    PROVE  /\ GoodIce(ice') /\ GoodPc(pc', over) /\ GoodCalls(ice', calls')
           /\ pc'.transport = p.transport /\ Quiet(p, pc')
<1>1. /\ GoodIce(r[1]) /\ GoodCalls(r[1], r[3])
      /\ r[2] \in PcType /\ SamePc(p, r[2])
      /\ r[2].transport = p.transport /\ Quiet(p, r[2])
  <2>0. p \in PcType
    BY DEF HalfPc
  <2>1. CASE d.type = "answer"
    BY <2>0, <2>1, StartConnectFacts
  <2>2. CASE d.type # "answer"
    <3>1. r[1] = c /\ r[2] = p /\ r[3] = stages
      BY <2>2
    <3> QED
      BY <2>0, <3>1 DEF Quiet, SamePc, SameWish, SameDescriptions
  <2> QED
    BY <2>1, <2>2
<1>2. HalfPc(r[2], over) /\ r[2].signaling = p.signaling
  BY <1>1, SamePcIsGood DEF SamePc, SameWish
<1>3. /\ GoodIce(ice') /\ GoodPc(pc', over) /\ GoodCalls(ice', calls')
      /\ pc'.transport = r[2].transport /\ pc'.established = r[2].established
      /\ pc'.connection = r[2].connection
  BY <1>1, <1>2, GatherAndSettleFacts
<1> QED
  BY <1>1, <1>3 DEF Quiet

-----------------------------------------------------------------------------
(* The steps *)

\* ConnectedIsEarned, of one step.
Earned ==
    pc'.connection = "connected" /\ pc.connection # "connected" =>
        pc'.established /\ (pc.transport /\ pc.port => sctp'.state = "connected")

LEMMA ApplyMediaFacts ==
    ASSUME GoodIce(ice), NEW p \in PcType, NEW media, NEW restart \in BOOLEAN,
           NEW candidates \in BOOLEAN, NEW end \in BOOLEAN
    PROVE  LET r == ApplyMedia(ice, p, media, restart, candidates, end)
           IN  /\ GoodIce(r[1]) /\ r[1].gathering = ice.gathering
               /\ r[2] \in PcType /\ SamePc(p, r[2]) /\ (p.transport => r[2].transport)
               /\ r[2].connection = p.connection /\ r[2].established = p.established
<1> DEFINE r == ApplyMedia(ice, p, media, restart, candidates, end)
           d == SetRemoteParams(ice, restart)
           e == IF candidates THEN AddRemoteCandidate(d) ELSE d
           f == [e EXCEPT !.remoteCandidatesEnd = @ \/ end]
           q == CreateTransport(ice, p)
           t == [q EXCEPT !.port = TRUE]
<1>1. CASE media # "application"
  BY <1>1 DEF ApplyMedia, SamePc, SameWish, SameDescriptions
<1>2. CASE media = "application"
  <2>1. ice \in IceType
    BY DEF GoodIce
  <2>2. d \in IceType /\ SameIce(ice, d)
    BY <2>1, StepsOfOthers
  <2>3. e \in IceType /\ SameIce(d, e)
    <3> HIDE DEF d
    <3> QED
      BY <2>2, StepsOfOthers DEF SameIce
  <2> HIDE DEF e, d
  <2>4. f \in IceType /\ SameIce(e, f)
    BY <2>3 DEF IceType, SameIce
  <2> HIDE DEF f
  <2>5. GoodIce(f) /\ f.gathering = ice.gathering
    BY <2>2, <2>3, <2>4, SameIceIsGood DEF SameIce
  <2>6. q \in PcType /\ SamePc(p, q) /\ q.transport
        /\ q.connection = p.connection /\ q.established = p.established
    BY <2>1, CreateTransportFacts
  <2> HIDE DEF q
  <2>7. t \in PcType /\ SamePc(q, t) /\ t.transport = q.transport
        /\ t.connection = q.connection /\ t.established = q.established
    BY <2>6 DEF PcType, SamePc, SameWish, SameDescriptions
  <2>8. r = <<f, t>>
    BY <1>2 DEF ApplyMedia, d, e, f, q
  <2> HIDE DEF r, t
  <2>9. SamePc(p, t)
    BY <2>6, <2>7 DEF SamePc, SameWish, SameDescriptions
  <2>10. r[1] = f /\ r[2] = t
    BY <2>8
  <2> QED
    BY <2>5, <2>6, <2>7, <2>9, <2>10 DEF r
<1> QED
  BY <1>1, <1>2

LEMMA OneMoreTurn ==
    ASSUME Others, turns < MaxDescriptions, turns' = turns + 1, UNCHANGED <<dtls, sctp, overtaken>>
    PROVE  Others'
<1>1. turns \in 0 .. MaxDescriptions
  BY DEF Others
<1>2. turns' \in 0 .. MaxDescriptions
  BY <1>1, PeerAssumption
<1> QED
  BY <1>2 DEF Others

LEMMA SetLocalStep ==
    ASSUME Good, SetLocalDescription
    PROVE  Good' /\ Earned
<1> PICK d \in Description :
      LET p == SetLocal([pc EXCEPT !.signaling = IF d.type = "offer" THEN "have-local-offer"
                                                 ELSE "stable"], d)
      IN  /\ d.type = "answer" => CanConnect(pc)
          /\ \E r \in IF d.type = "answer" THEN StartConnect(ice, p, calls)
                      ELSE {<<ice, p, calls>>} :
                GatherAndSettle(r[1], r[2], r[3], d, TRUE, pc.transport)
  BY DEF SetLocalDescription
<1> DEFINE sig == IF d.type = "offer" THEN "have-local-offer" ELSE "stable"
           s == [pc EXCEPT !.signaling = sig]
           p == SetLocal(s, d)
<1>1. PICK r \in IF d.type = "answer" THEN StartConnect(ice, p, calls) ELSE {<<ice, p, calls>>} :
         GatherAndSettle(r[1], r[2], r[3], d, TRUE, pc.transport)
  OBVIOUS
<1>2. pc \in PcType /\ GoodIce(ice) /\ GoodCalls(ice, calls) /\ Others /\ HalfPc(pc, overtaken)
  BY DEF Good, GoodPc, HalfPc
<1>3. /\ s \in PcType /\ s.signaling = sig /\ SameDescriptions(pc, s)
      /\ s.shouldNegotiationneeded = pc.shouldNegotiationneeded /\ s.immediate = pc.immediate
      /\ s.negotiationneeded = pc.negotiationneeded
      /\ s.transport = pc.transport /\ s.established = pc.established
      /\ s.connection = pc.connection
  BY <1>2 DEF PcType, SameDescriptions
<1>4. d.type \in {"offer", "answer"} /\ sig # "have-remote-offer"
      /\ (sig = "have-local-offer" => d.type = "offer")
  BY DEF Description
<1> HIDE DEF sig, s
<1>5. /\ p \in PcType /\ SameWish(s, p) /\ p.pendingRemote = s.pendingRemote
      /\ p.currentRemote = s.currentRemote /\ p.transport = s.transport
      /\ p.connection = s.connection /\ p.established = s.established
  BY <1>3, SettersTyped
<1>6. /\ p.pendingLocal.type # "answer" /\ p.currentLocal.type # "offer"
      /\ d.type = "offer" => p.pendingLocal # None
  BY <1>2, <1>3, SettersKeep DEF HalfPc, SameDescriptions
<1> HIDE DEF p
<1>7. HalfPc(p, overtaken) /\ p.signaling = sig
  BY <1>2, <1>3, <1>4, <1>5, <1>6 DEF HalfPc, SameWish, SameDescriptions
<1>8. d.type = "answer" => p.established \/ \E i \in Call : calls[i] = "none"
  BY <1>3, <1>5 DEF CanConnect
<1>9. /\ GoodIce(ice') /\ GoodPc(pc', overtaken) /\ GoodCalls(ice', calls')
      /\ pc'.transport = p.transport /\ Quiet(p, pc')
  <2>1. pc.transport \in BOOLEAN
    BY <1>2 DEF PcType
  <2>2. d.type = "answer" => p.signaling # "have-local-offer"
    BY <1>4, <1>7
  <2> QED
    BY <1>1, <1>2, <1>7, <1>8, <2>1, <2>2, ConnectAndSettle
<1>10. Others' /\ overtaken' = overtaken
  BY <1>2, OneMoreTurn DEF SetLocalDescription
<1>11. Earned
  BY <1>3, <1>5, <1>9 DEF Earned, Quiet
<1> QED
  BY <1>9, <1>10, <1>11 DEF Good

LEMMA SetRemoteStep ==
    ASSUME Good, SetRemoteDescription
    PROVE  Good' /\ Earned
<1> PICK d \in Description, restart \in BOOLEAN, candidates \in BOOLEAN, end \in BOOLEAN :
      LET applied == ApplyMedia(ice, SetRemote(pc, d), d.media, restart, candidates, end)
          p == [applied[2] EXCEPT !.signaling = IF d.type = "offer" THEN "have-remote-offer"
                                                ELSE "stable"]
      IN  /\ d.media # "other"
          /\ Accepts(pc, d, "have-remote-offer", "have-local-offer", LocalDescription(pc))
          /\ d.type = "answer" => CanConnect(pc)
          /\ \E r \in IF d.type = "answer" THEN StartConnect(applied[1], p, calls)
                      ELSE {<<applied[1], p, calls>>} :
                GatherAndSettle(r[1], r[2], r[3], d, FALSE, d.media = "application")
  BY Zenon DEF SetRemoteDescription
<1> DEFINE sig == IF d.type = "offer" THEN "have-remote-offer" ELSE "stable"
           s == SetRemote(pc, d)
           applied == ApplyMedia(ice, s, d.media, restart, candidates, end)
           p == [applied[2] EXCEPT !.signaling = sig]
           local == FALSE
           gathers == d.media = "application"
<1>1. PICK r \in IF d.type = "answer" THEN StartConnect(applied[1], p, calls)
                 ELSE {<<applied[1], p, calls>>} :
         GatherAndSettle(r[1], r[2], r[3], d, local, gathers)
  OBVIOUS
<1>2. pc \in PcType /\ GoodIce(ice) /\ GoodCalls(ice, calls) /\ Others /\ HalfPc(pc, overtaken)
  BY DEF Good, GoodPc, HalfPc
<1>3. /\ s \in PcType /\ SameWish(pc, s) /\ s.pendingLocal = pc.pendingLocal
      /\ s.currentLocal = pc.currentLocal /\ s.transport = pc.transport
      /\ s.connection = pc.connection /\ s.established = pc.established
  BY <1>2, SettersTyped
<1>4. /\ s.pendingRemote.type # "answer" /\ s.currentRemote.type # "offer"
      /\ d.type = "offer" => s.pendingRemote # None
  BY <1>2, SettersKeep DEF HalfPc
<1>5. d.type \in {"offer", "answer"} /\ sig # "have-local-offer"
      /\ (sig = "have-remote-offer" => d.type = "offer")
  BY DEF Description
<1> HIDE DEF s
<1>6. /\ GoodIce(applied[1]) /\ applied[1].gathering = ice.gathering
      /\ applied[2] \in PcType /\ SamePc(s, applied[2])
      /\ (s.transport => applied[2].transport)
      /\ applied[2].connection = s.connection /\ applied[2].established = s.established
  BY <1>2, <1>3, ApplyMediaFacts
<1> HIDE DEF applied, sig
<1>7. /\ p \in PcType /\ p.signaling = sig /\ SameDescriptions(applied[2], p)
      /\ p.shouldNegotiationneeded = applied[2].shouldNegotiationneeded
      /\ p.immediate = applied[2].immediate
      /\ p.negotiationneeded = applied[2].negotiationneeded
      /\ p.transport = applied[2].transport /\ p.established = applied[2].established
      /\ p.connection = applied[2].connection
  BY <1>5, <1>6 DEF PcType, SameDescriptions, sig
<1> HIDE DEF p
<1>8. HalfPc(p, overtaken)
  <2>1. /\ p.pendingLocal = pc.pendingLocal /\ p.currentLocal = pc.currentLocal
        /\ p.pendingRemote = s.pendingRemote /\ p.currentRemote = s.currentRemote
        /\ p.shouldNegotiationneeded = pc.shouldNegotiationneeded
        /\ p.immediate = pc.immediate /\ p.negotiationneeded = pc.negotiationneeded
    BY <1>3, <1>6, <1>7 DEF SamePc, SameWish, SameDescriptions
  <2> QED
    BY <2>1, <1>2, <1>3, <1>4, <1>5, <1>6, <1>7 DEF HalfPc
<1>9. GoodCalls(applied[1], calls)
  BY <1>2, <1>6 DEF GoodCalls
<1>10. d.type = "answer" => p.established \/ \E i \in Call : calls[i] = "none"
  BY <1>3, <1>6, <1>7 DEF CanConnect, p, applied, s, sig
<1>11. /\ GoodIce(ice') /\ GoodPc(pc', overtaken) /\ GoodCalls(ice', calls')
       /\ pc'.transport = p.transport /\ Quiet(p, pc')
  <2>1. gathers \in BOOLEAN /\ local \in BOOLEAN /\ ~local
    OBVIOUS
  <2> HIDE DEF gathers, local
  <2> QED
    BY <1>1, <1>6, <1>8, <1>9, <1>10, <2>1, ConnectAndSettle
<1>12. Others' /\ overtaken' = overtaken
  BY <1>2, OneMoreTurn DEF SetRemoteDescription
<1>13. Earned
  BY <1>3, <1>6, <1>7, <1>11 DEF Earned, Quiet
<1> QED
  BY <1>11, <1>12, <1>13 DEF Good

LEMMA SetRemoteThrowsStep ==
    ASSUME Good, SetRemoteDescriptionThrows
    PROVE  Good' /\ Earned
<1> PICK d \in Description :
      /\ Accepts(pc, d, "have-remote-offer", "have-local-offer", LocalDescription(pc))
      /\ pc' = LET p == SetRemote(pc, d)
               IN  IF d.media = "other" THEN p ELSE [CreateTransport(ice, p) EXCEPT !.port = FALSE]
  BY DEF SetRemoteDescriptionThrows
<1> DEFINE s == SetRemote(pc, d)
           t == CreateTransport(ice, s)
<1>1. pc \in PcType /\ GoodIce(ice) /\ GoodCalls(ice, calls) /\ Others /\ GoodPc(pc, overtaken)
      /\ ice \in IceType
  BY DEF Good, GoodPc, HalfPc, GoodIce
<1>2. /\ s \in PcType /\ SameWish(pc, s) /\ s.pendingLocal = pc.pendingLocal
      /\ s.currentLocal = pc.currentLocal /\ s.transport = pc.transport
      /\ s.connection = pc.connection
  BY <1>1, SettersTyped
<1>3. /\ s.pendingRemote.type # "answer" /\ s.currentRemote.type # "offer"
      /\ d.type = "offer" => s.pendingRemote # None
  BY <1>1, SettersKeep DEF GoodPc, HalfPc
<1>4. d.type = "offer" \/ pc.signaling = "have-local-offer"
  BY DEF Accepts
<1> HIDE DEF s
<1>5. GoodPc(s, overtaken)
  BY <1>1, <1>2, <1>3, <1>4 DEF GoodPc, HalfPc, SameWish
<1>6. t \in PcType /\ SamePc(s, t) /\ t.transport /\ t.connection = s.connection
  BY <1>1, <1>2, CreateTransportFacts
<1>7. GoodPc(t, overtaken)
  BY <1>2, <1>5, <1>6, SamePcIsGood
<1>8. pc' = s \/ pc' = [t EXCEPT !.port = FALSE]
  BY DEF s
<1> HIDE DEF t
<1>9. GoodPc(pc', overtaken) /\ pc'.connection = pc.connection
  <2>1. CASE pc' = s
    BY <2>1, <1>2, <1>5
  <2>2. CASE pc' = [t EXCEPT !.port = FALSE]
    <3>1. /\ pc' \in PcType /\ SamePc(t, pc') /\ pc'.transport = t.transport
          /\ pc'.connection = t.connection
      BY <2>2, <1>6 DEF PcType, SamePc, SameWish, SameDescriptions
    <3> QED
      BY <3>1, <1>2, <1>6, <1>7, SamePcIsGood
  <2> QED
    BY <1>8, <2>1, <2>2
<1>10. Others' /\ ice' = ice /\ calls' = calls /\ overtaken' = overtaken
  BY <1>1, OneMoreTurn DEF SetRemoteDescriptionThrows
<1> QED
  BY <1>1, <1>9, <1>10 DEF Good, Earned

LEMMA WishStep ==
    ASSUME Good, CreateDataChannel \/ NegotiationNeeded
    PROVE  Good' /\ Earned
<1>1. pc \in PcType /\ ice \in IceType /\ GoodPc(pc, overtaken)
  BY DEF Good, GoodPc, HalfPc, GoodIce
<1>2. UNCHANGED <<ice, dtls, sctp, calls, turns, overtaken>>
  BY DEF CreateDataChannel, NegotiationNeeded
<1>3. GoodPc(pc', overtaken) /\ pc'.connection = pc.connection
  <2>1. CASE CreateDataChannel
    <3> DEFINE q == CreateTransport(ice, pc)
               n == NeedNegotiation(q)
    <3>1. q \in PcType /\ SamePc(pc, q) /\ q.transport /\ q.connection = pc.connection
      BY <1>1, CreateTransportFacts
    <3>2. ~pc.transport /\ pc' = n
      BY <2>1 DEF CreateDataChannel
    <3>3. ~q.shouldNegotiationneeded /\ ~q.immediate /\ ~q.negotiationneeded
      BY <1>1, <3>1, <3>2 DEF GoodPc, HalfPc, SamePc, SameWish
    <3>4. GoodPc(q, overtaken)
      BY <1>1, <3>1, SamePcIsGood
    <3> HIDE DEF q
    <3>5. /\ n \in PcType /\ SameDescriptions(q, n) /\ n.signaling = q.signaling
          /\ n.settling = q.settling /\ n.transport = q.transport /\ n.connection = q.connection
      BY <3>1, WishFacts
    <3>6. /\ n.shouldNegotiationneeded => n.signaling # "stable" /\ ~n.immediate
          /\ ~n.negotiationneeded
      BY <3>1, <3>3 DEF NeedNegotiation, PcType
    <3> HIDE DEF n
    <3> QED
      BY <3>1, <3>2, <3>4, <3>5, <3>6 DEF GoodPc, HalfPc, SameDescriptions
  <2>2. CASE NegotiationNeeded
    <3>1. pc.immediate /\ pc' = [pc EXCEPT !.immediate = FALSE, !.negotiationneeded = TRUE]
      BY <2>2 DEF NegotiationNeeded
    <3>2. /\ pc' \in PcType /\ SameDescriptions(pc, pc') /\ pc'.signaling = pc.signaling
          /\ pc'.settling = pc.settling /\ pc'.transport = pc.transport
          /\ pc'.shouldNegotiationneeded = pc.shouldNegotiationneeded
          /\ pc'.connection = pc.connection
      BY <1>1, <3>1 DEF PcType, SameDescriptions
    <3>3. ~pc.shouldNegotiationneeded /\ pc.transport
      BY <1>1, <3>1 DEF GoodPc, HalfPc, PcType
    <3> QED
      BY <1>1, <3>2, <3>3 DEF GoodPc, HalfPc, SameDescriptions
  <2> QED
    BY <2>1, <2>2
<1> QED
  BY <1>2, <1>3 DEF Good, GoodIce, GoodCalls, Others, Earned

\* Remote candidates, sockets and nominations.
LEMMA NetworkStep ==
    ASSUME Good, AddIceCandidate \/ Bind \/ PairNominated \/ CloseSockets
    PROVE  Good' /\ Earned
<1>1. ice \in IceType /\ GoodIce(ice)
  BY DEF Good, GoodIce
<1>2. UNCHANGED <<pc, dtls, sctp, calls, turns, overtaken>>
  BY DEF AddIceCandidate, Bind, PairNominated, CloseSockets
<1>3. ice' \in IceType /\ SameIce(ice, ice')
  <2>1. CASE AddIceCandidate
    <3>1. AddRemoteCandidate(ice) \in IceType /\ SameIce(ice, AddRemoteCandidate(ice))
      BY <1>1, StepsOfOthers
    <3> QED
      BY <2>1, <3>1 DEF AddIceCandidate
  <2>2. CASE Bind
    BY <1>1, <2>2 DEF Bind, GatherBinds, IceType, Sockets, SameIce
  <2>3. CASE PairNominated
    BY <1>1, <2>3 DEF PairNominated, Nominate, IceType, SameIce
  <2>4. CASE CloseSockets
    BY <1>1, <2>4 DEF CloseSockets, SocketsClose, IceType, Sockets, SameIce
  <2> QED
    BY <2>1, <2>2, <2>3, <2>4
<1>4. GoodIce(ice') /\ ice'.gathering = ice.gathering
  BY <1>1, <1>3, SameIceIsGood DEF SameIce
<1> QED
  BY <1>2, <1>4 DEF Good, GoodCalls, Others, Earned, GoodPc, HalfPc

LEMMA GatheredStep ==
    ASSUME Good, Gathered
    PROVE  Good' /\ Earned
<1> DEFINE c == GatherEnded(ice)
           p == Report(pc, ice, c)
           waited == {i \in Call : calls[i] = "gathering"}
           q == [p EXCEPT !.settling = None, !.settlingLocal = FALSE]
<1>1. /\ ice \in IceType /\ GoodIce(ice) /\ pc \in PcType /\ GoodPc(pc, overtaken)
      /\ GoodCalls(ice, calls) /\ Others /\ ice.consent = "none"
  BY DEF Good, GoodIce, GoodPc, HalfPc, Gathered
<1>2. c \in IceType /\ c.gathering = "complete" /\ c.consent = "none"
  BY <1>1, StepsOfOthers
<1>3. /\ StartChecks(c) \in IceType /\ SameIce(c, StartChecks(c))
      /\ ice' = IF waited = {} THEN c ELSE StartChecks(c)
  BY <1>2, StepsOfStart DEF Gathered
<1>4. ice' \in IceType /\ ice'.gathering = "complete" /\ ice'.consent = "none"
  BY <1>2, <1>3 DEF SameIce
<1>5. GoodIce(ice') /\ GoodCalls(ice', calls')
  <2>1. calls' = [i \in Call |-> IF i \in waited THEN "checking" ELSE calls[i]]
    BY DEF Gathered
  <2>2. calls' \in [Call -> Stage]
    BY <1>1, <2>1 DEF GoodCalls, Stage
  <2> QED
    BY <1>4, <2>2 DEF GoodIce, GoodCalls
<1>6. /\ p \in PcType /\ SamePc(pc, p) /\ p.transport = pc.transport
      /\ p.connection \in {pc.connection, "disconnected"}
  BY <1>1, <1>2, ReportFacts
<1>7. Others' /\ overtaken' = (overtaken \/ (pc.settlingLocal /\ LocalDescription(pc) # pc.settling))
  BY <1>1 DEF Others, Gathered, PcType
<1>8. GoodPc(pc, overtaken')
  BY <1>1, <1>7 DEF GoodPc, HalfPc
<1>9. pc' = IF pc.settling = None THEN p ELSE Settle(q, pc.settling, pc.settlingLocal)
  BY DEF Gathered
<1> HIDE DEF p, c
<1>10. GoodPc(p, overtaken')
  BY <1>6, <1>8, SamePcIsGood
<1>11. GoodPc(pc', overtaken') /\ pc'.connection = p.connection
  <2>1. CASE pc.settling = None
    BY <1>9, <1>10, <2>1
  <2>2. CASE pc.settling # None
    <3>1. pc.settling \in Description /\ pc.settlingLocal \in BOOLEAN
      BY <1>1, <2>2 DEF PcType, Descriptions
    <3>2. None \in Descriptions
      BY DEF Descriptions
    <3>3. q \in PcType /\ HalfPc(q, overtaken') /\ q.connection = p.connection
          /\ q.signaling = p.signaling
      BY <1>10, <3>2 DEF GoodPc, HalfPc, PcType
    <3>4. ASSUME pc.settlingLocal, pc.settling.type = "answer", ~overtaken'
          PROVE  q.signaling # "have-local-offer"
      <4>1. LocalDescription(pc).type = "answer" /\ ~overtaken
        BY <1>7, <3>4
      <4>2. pc.pendingLocal = None
        BY <1>1, <4>1 DEF LocalDescription, GoodPc, HalfPc
      <4>3. pc.signaling # "have-local-offer"
        BY <1>1, <4>1, <4>2 DEF GoodPc, HalfPc
      <4> QED
        BY <1>6, <3>3, <4>3 DEF SamePc, SameWish
    <3> HIDE DEF q
    <3> QED
      BY <1>9, <2>2, <3>1, <3>3, <3>4, SettleFacts
  <2> QED
    BY <2>1, <2>2
<1> QED
  BY <1>5, <1>6, <1>7, <1>11 DEF Good, Earned

LEMMA IceConnectsStep ==
    ASSUME Good, NEW i \in Call, IceConnects(i)
    PROVE  Good' /\ Earned
<1> DEFINE c == Connected(ice)
           waited == {j \in Call : calls[j] = "waiting"}
           d == IF waited = {} THEN c ELSE StartChecks(Begin(c))
           p == Report(pc, ice, d)
           starts == dtls.state = "new"
<1>1. /\ ice \in IceType /\ GoodIce(ice) /\ pc \in PcType /\ GoodPc(pc, overtaken)
      /\ GoodCalls(ice, calls) /\ Others /\ ice.gathering = "complete"
  BY DEF Good, GoodIce, GoodPc, HalfPc, GoodCalls, IceConnects
<1>2. /\ c \in IceType /\ c.state = "connected" /\ c.failures = 0
      /\ c.gathering = "complete"
  BY <1>1, StepsOfStart
<1>3. GoodIce(c)
  BY <1>2, ConsentAssumption DEF GoodIce
<1> HIDE DEF c
<1>4. d \in IceType /\ SameIce(c, d)
  <2>1. Begin(c) \in IceType /\ SameIce(c, Begin(c))
    BY <1>2, StepsOfStart
  <2>2. StartChecks(Begin(c)) \in IceType /\ SameIce(Begin(c), StartChecks(Begin(c)))
    BY <2>1, StepsOfStart
  <2> QED
    BY <1>2, <2>1, <2>2 DEF SameIce
<1> HIDE DEF d
<1>5. GoodIce(d) /\ d.gathering = "complete"
  BY <1>2, <1>3, <1>4, SameIceIsGood DEF SameIce
<1>6. p \in PcType /\ GoodPc(p, overtaken) /\ p.connection \in {pc.connection, "disconnected"}
  BY <1>1, <1>4, ReportIsGood, ReportFacts
<1> HIDE DEF p
<1>7. /\ Fail(p) \in PcType /\ SamePc(p, Fail(p)) /\ Fail(p).transport = p.transport
      /\ Fail(p).connection = "failed"
  BY <1>6, SmallSteps
<1>8. GoodPc(Fail(p), overtaken)
  BY <1>6, <1>7, SamePcIsGood
<1>9. /\ ice' = d /\ pc' = IF starts THEN p ELSE Fail(p)
      /\ calls' = [j \in Call |-> CASE j = i -> IF starts THEN "dtls" ELSE "failed"
                                     [] j \in waited -> "checking"
                                     [] OTHER -> calls[j]]
      /\ dtls' = IF starts THEN [state |-> "connecting", handshake |-> "running"] ELSE dtls
      /\ UNCHANGED <<sctp, turns, overtaken>>
  BY DEF IceConnects, c, d, p
<1>10. GoodCalls(ice', calls')
  <2>1. calls' \in [Call -> Stage]
    BY <1>1, <1>9 DEF GoodCalls, Stage
  <2> QED
    BY <1>5, <1>9, <2>1 DEF GoodCalls
<1>11. Others'
  BY <1>1, <1>9 DEF Others, DtlsType
<1> QED
  BY <1>5, <1>6, <1>7, <1>8, <1>9, <1>10, <1>11 DEF Good, Earned

LEMMA IceRaisesStep ==
    ASSUME Good, NEW i \in Call, IceRaises(i)
    PROVE  Good' /\ Earned
<1> DEFINE c == SetTransport(ice, "failed")
           p == Report(pc, ice, c)
<1>1. /\ ice \in IceType /\ GoodIce(ice) /\ pc \in PcType /\ GoodPc(pc, overtaken)
      /\ GoodCalls(ice, calls) /\ Others
  BY DEF Good, GoodIce, GoodPc, HalfPc
<1>2. c \in IceType /\ SameIce(ice, c)
  BY <1>1, TransportTyped DEF TransportState
<1>3. GoodIce(c) /\ c.gathering = ice.gathering
  BY <1>1, <1>2, SameIceIsGood DEF SameIce
<1> HIDE DEF c
<1>4. p \in PcType /\ GoodPc(p, overtaken)
  BY <1>1, <1>2, ReportIsGood, ReportFacts
<1> HIDE DEF p
<1>5. Fail(p).connection = "failed" /\ GoodPc(Fail(p), overtaken)
  BY <1>4, SmallSteps, SamePcIsGood
<1>6. /\ ice' = c /\ pc' = Fail(p) /\ calls' = [calls EXCEPT ![i] = "failed"]
      /\ UNCHANGED <<dtls, sctp, turns, overtaken>>
  BY DEF IceRaises, c, p
<1>7. GoodCalls(ice', calls')
  BY <1>1, <1>3, <1>6 DEF GoodCalls, Stage
<1> QED
  BY <1>1, <1>3, <1>5, <1>6, <1>7 DEF Good, Earned, Others

\* The tests of consent.
LEMMA ConsentStep ==
    ASSUME Good, Consents(ConsentWakes) \/ Consents(ConsentAnswered) \/ Consents(ConsentMissed)
    PROVE  Good' /\ Earned
<1>1. /\ ice \in IceType /\ GoodIce(ice) /\ pc \in PcType /\ GoodPc(pc, overtaken)
      /\ GoodCalls(ice, calls) /\ Others
  BY DEF Good, GoodIce, GoodPc, HalfPc
<1>2. pc' = Report(pc, ice, ice') /\ UNCHANGED <<dtls, sctp, calls, turns, overtaken>>
  BY DEF Consents
<1>3. ice.failures \in 0 .. ConsentFailures
  BY <1>1 DEF IceType
<1>4. GoodIce(ice') /\ ice'.gathering = ice.gathering
  <2>1. CASE ConsentWakes
    BY <1>1, <2>1 DEF ConsentWakes, GoodIce, IceType, Consent
  <2>2. CASE ConsentAnswered
    <3> DEFINE c == [ice EXCEPT !.consent = "asleep", !.failures = 0]
               d == SetState(c, "connected")
    <3>1. ice.gathering = "complete"
      BY <1>1, <2>2 DEF GoodIce, ConsentAnswered
    <3>2. 0 \in 0 .. ConsentFailures /\ 0 < ConsentFailures
      BY ConsentAssumption
    <3>3. /\ c \in IceType /\ c.state = ice.state /\ c.failures = 0 /\ c.consent = "asleep"
          /\ c.gathering = "complete"
      BY <1>1, <3>1, <3>2 DEF IceType, Consent
    <3>4. ice' = IF c.state = "disconnected" THEN d ELSE c
      BY <2>2 DEF ConsentAnswered
    <3> HIDE DEF c
    <3>5. /\ d \in IceType /\ d.state = "connected" /\ d.failures = 0 /\ d.consent = "asleep"
          /\ d.gathering = "complete"
      BY <3>3, StateTyped DEF IceState
    <3> HIDE DEF d
    <3> QED
      BY <3>1, <3>2, <3>3, <3>4, <3>5 DEF GoodIce
  <2>3. CASE ConsentMissed
    <3> DEFINE e == SetState(ice, "disconnected")
               n == ice.failures + 1
               c == [e EXCEPT !.failures = n]
               f == [c EXCEPT !.consent = "asleep"]
    <3>1. ice.consent = "asking" /\ ice.gathering = "complete" /\ ice.failures < ConsentFailures
      BY <1>1, <2>3 DEF GoodIce, ConsentMissed
    <3>2. n \in 0 .. ConsentFailures /\ n > 0
      BY <1>3, <3>1, ConsentAssumption
    <3>3. /\ e \in IceType /\ e.state = "disconnected" /\ e.failures = ice.failures
          /\ e.consent = "asking" /\ e.gathering = "complete"
      BY <1>1, <3>1, StateTyped DEF IceState
    <3>4. ice' = IF c.failures >= ConsentFailures THEN CloseConnection(c) ELSE f
      BY <2>3, <3>3 DEF ConsentMissed
    <3> HIDE DEF e, n
    <3>5. /\ c \in IceType /\ c.state = "disconnected" /\ c.failures = n
          /\ c.consent = "asking" /\ c.gathering = "complete"
      BY <3>2, <3>3 DEF IceType
    <3> HIDE DEF c
    <3>6. CASE c.failures >= ConsentFailures
      <4>1. /\ CloseConnection(c) \in IceType /\ CloseConnection(c).consent \in {"none", "ended"}
            /\ CloseConnection(c).gathering = "complete"
        BY <3>5, CloseTyped
      <4> QED
        BY <3>1, <3>4, <3>6, <4>1 DEF GoodIce
    <3>7. CASE ~(c.failures >= ConsentFailures)
      <4>1. /\ f \in IceType /\ f.state = "disconnected" /\ f.failures = n
            /\ f.consent = "asleep" /\ f.gathering = "complete"
        BY <3>5 DEF IceType, Consent
      <4>2. n < ConsentFailures
        BY <3>2, <3>5, <3>7, ConsentAssumption
      <4> HIDE DEF f
      <4> QED
        BY <3>1, <3>2, <3>4, <3>7, <4>1, <4>2 DEF GoodIce
    <3> QED
      BY <3>6, <3>7
  <2> QED
    BY <2>1, <2>2, <2>3 DEF Consents
<1>5. ice' \in IceType
  BY <1>4 DEF GoodIce
<1>6. GoodPc(pc', overtaken) /\ pc'.connection \in {pc.connection, "disconnected"}
  BY <1>1, <1>2, <1>5, ReportIsGood, ReportFacts
<1> QED
  BY <1>1, <1>2, <1>4, <1>6 DEF Good, GoodCalls, Others, Earned

\* The DTLS and the SCTP transport.
LEMMA TransportsStep ==
    ASSUME Good, DtlsConnects \/ DtlsFails \/ DtlsCloses \/ SctpConnects \/ SctpCloses
    PROVE  Good' /\ Earned
<1>1. /\ GoodIce(ice) /\ pc \in PcType /\ GoodPc(pc, overtaken)
      /\ GoodCalls(ice, calls) /\ Others
  BY DEF Good, GoodPc, HalfPc
<1>2. ice' = ice /\ turns' = turns /\ overtaken' = overtaken
  BY DEF DtlsConnects, DtlsFails, DtlsCloses, SctpConnects, SctpCloses
<1>3. dtls' \in DtlsType
  BY <1>1 DEF Others, DtlsType, DtlsConnects, DtlsFails, DtlsCloses, SctpConnects, SctpCloses
<1>4. sctp' \in SctpType
  <2>1. sctp' \in {sctp, [state |-> "connecting", started |-> TRUE],
                   [sctp EXCEPT !.state = "closed"], [sctp EXCEPT !.state = "connected"]}
    BY DEF DtlsConnects, DtlsFails, DtlsCloses, SctpConnects, SctpCloses
  <2>2. sctp \in SctpType
    BY <1>1 DEF Others
  <2>3. /\ [state |-> "connecting", started |-> TRUE] \in SctpType
        /\ [sctp EXCEPT !.state = "closed"] \in SctpType
        /\ [sctp EXCEPT !.state = "connected"] \in SctpType
    BY <2>2 DEF SctpType
  <2> QED
    BY <2>1, <2>2, <2>3
<1>5. GoodCalls(ice, calls')
  BY <1>1 DEF GoodCalls, Stage, DtlsConnects, DtlsFails, DtlsCloses, SctpConnects, SctpCloses
<1>6. pc' = pc \/ pc' = Establish(pc)
  BY DEF DtlsConnects, DtlsFails, DtlsCloses, SctpConnects, SctpCloses
<1>7. /\ Establish(pc) \in PcType /\ SamePc(pc, Establish(pc))
      /\ Establish(pc).transport = pc.transport /\ Establish(pc).established
  BY <1>1, SmallSteps
<1>8. GoodPc(pc', overtaken)
  BY <1>1, <1>6, <1>7, SamePcIsGood
<1>9. Earned
  <2>1. CASE pc' = pc
    BY <2>1 DEF Earned
  <2>2. CASE pc' # pc
    <3>1. pc' = Establish(pc) /\ (~pc.port \/ sctp'.state = "connected")
      <4>1. CASE DtlsConnects
        BY <2>2, <4>1 DEF DtlsConnects
      <4>2. CASE SctpConnects
        BY <1>1, <2>2, <4>2 DEF SctpConnects, Others, SctpType
      <4>3. CASE DtlsFails \/ DtlsCloses \/ SctpCloses
        BY <2>2, <4>3 DEF DtlsFails, DtlsCloses, SctpCloses
      <4> QED
        BY <4>1, <4>2, <4>3
    <3> QED
      BY <1>7, <3>1 DEF Earned
  <2> QED
    BY <2>1, <2>2
<1> QED
  BY <1>1, <1>2, <1>3, <1>4, <1>5, <1>8, <1>9 DEF Good, Others

LEMMA CloseStep ==
    ASSUME Good, Close
    PROVE  Good' /\ Earned
<1> DEFINE p == [pc EXCEPT !.isClosed = TRUE, !.signaling = "closed", !.connection = "closed"]
           c == StopTransport(ice)
<1>1. /\ ice \in IceType /\ GoodIce(ice) /\ pc \in PcType /\ GoodPc(pc, overtaken)
      /\ GoodCalls(ice, calls) /\ Others
  BY DEF Good, GoodIce, GoodPc, HalfPc
<1>2. GoodIce(c) /\ c.gathering = ice.gathering /\ c \in IceType
  <2>1. /\ CloseConnection(ice) \in IceType /\ CloseConnection(ice).consent \in {"none", "ended"}
        /\ CloseConnection(ice).gathering = ice.gathering
        /\ (CloseConnection(ice).consent = "none" <=> ice.consent = "none")
    BY <1>1, CloseTyped
  <2>2. GoodIce(CloseConnection(ice))
    BY <1>1, <2>1 DEF GoodIce
  <2> QED
    BY <1>1, <2>1, <2>2 DEF StopTransport
<1>3. /\ p \in PcType /\ GoodPc(p, overtaken) /\ p.connection = "closed"
  BY <1>1 DEF PcType, ConnectionState, GoodPc, HalfPc
<1>4. /\ ice' \in {ice, c} /\ pc' \in {p, Report(p, ice, c)}
      /\ UNCHANGED <<calls, turns, overtaken>>
      /\ (dtls' = dtls \/ dtls' = [dtls EXCEPT !.state = "closed"])
      /\ (sctp' = sctp \/ sctp' = [sctp EXCEPT !.state = "closed"])
  BY DEF Close
<1> HIDE DEF p, c
<1>5. GoodPc(pc', overtaken) /\ pc'.connection # "connected"
  BY <1>2, <1>3, <1>4, ReportIsGood, ReportFacts
<1>6. dtls' \in DtlsType /\ sctp' \in SctpType
  BY <1>1, <1>4 DEF Others, DtlsType, SctpType
<1> QED
  BY <1>1, <1>2, <1>4, <1>5, <1>6 DEF Good, GoodCalls, Others, Earned

LEMMA InitIsGood == Init => Good
<1> SUFFICES ASSUME Init PROVE Good
  OBVIOUS
<1>1. 0 \in 0 .. ConsentFailures /\ 0 \in 0 .. MaxDescriptions
  BY ConsentAssumption, PeerAssumption
<1>2. GoodIce(ice)
  BY <1>1 DEF Init, IceInit, GoodIce, IceType, TransportState, IceState, Sockets, Consent
<1>3. GoodPc(pc, overtaken)
  <2>1. None \in Descriptions /\ None.type = "none"
    BY DEF Descriptions, None
  <2>2. pc \in PcType
    BY <2>1 DEF Init, PcType, ConnectionState, TransportState, IceState
  <2> QED
    BY <2>1, <2>2 DEF Init, GoodPc, HalfPc
<1>4. GoodCalls(ice, calls) /\ Others
  BY <1>1 DEF Init, GoodCalls, Stage, Others, DtlsType, SctpType
<1> QED
  BY <1>2, <1>3, <1>4 DEF Good

LEMMA Step ==
    ASSUME Good, [Next]_vars
    PROVE  Good' /\ Earned
<1>1. CASE UNCHANGED vars
  BY <1>1 DEF vars, Good, GoodIce, GoodPc, HalfPc, GoodCalls, Others, Earned
<1>2. CASE \E i \in Call : IceConnects(i) \/ IceRaises(i)
  BY <1>2, IceConnectsStep, IceRaisesStep
<1> QED
  BY <1>1, <1>2, SetLocalStep, SetRemoteStep, SetRemoteThrowsStep, WishStep, NetworkStep,
     GatheredStep, ConsentStep, TransportsStep, CloseStep DEF Next

-----------------------------------------------------------------------------
(* The theorems *)

LEMMA AlwaysGood == Spec => []Good
<1>1. Good /\ [Next]_vars => Good'
  BY Step
<1> QED
  BY <1>1, InitIsGood, PTL DEF Spec

\* The inductive invariant holds in every state.
THEOREM Invariance == Spec => []IInv
BY AlwaysGood, GoodIsIInv, PTL

\* The variables keep their types, whatever the setters, connect() and close() do.
THEOREM TypeCorrect == Spec => []TypeOK
<1>1. IInv => TypeOK
  BY DEF IInv
<1> QED
  BY <1>1, Invariance, PTL

\* An answer finds the offer it is compared with (validateDescription).
THEOREM OfferPending == Spec => []OfferIsPending
<1>1. IInv => OfferIsPending
  <2> SUFFICES ASSUME IInv PROVE OfferIsPending
    OBVIOUS
  <2>1. /\ pc.pendingLocal \in Descriptions /\ pc.pendingRemote \in Descriptions
        /\ pc.pendingLocal.type # "answer" /\ pc.pendingRemote.type # "answer"
    BY DEF IInv, TypeOK, OffersArePending, PcType
  <2>2. \A d \in Descriptions : d # None /\ d.type # "answer" => d.type = "offer"
    BY DEF Descriptions, Description
  <2> QED
    BY <2>1, <2>2 DEF IInv, OffersArePending, OfferIsPending, LocalDescription, RemoteDescription
<1> QED
  BY <1>1, Invariance, PTL

\* A wish to negotiate waits in a stable state only for a setter (needNegotiation).
THEOREM WishServed == Spec => []NegotiationIsNotForgotten
<1>1. IInv => NegotiationIsNotForgotten
  BY DEF IInv
<1> QED
  BY <1>1, Invariance, PTL

\* A connection under test is disconnected exactly if an answer is missing (queryConsent).
THEOREM DisconnectedMissing == Spec => []DisconnectedIsMissing
<1>1. IInv => DisconnectedIsMissing
  BY DEF IInv
<1> QED
  BY <1>1, Invariance, PTL

\* 'connected' is told only when the association is there (connect).
THEOREM ConnectedEarned == Spec => ConnectedIsEarned
<1>1. Good /\ [Next]_vars => [Earned]_vars
  BY Step
<1>2. Spec => [][Earned]_vars
  BY <1>1, AlwaysGood, PTL DEF Spec
<1> QED
  BY <1>2, PTL DEF ConnectedIsEarned, Earned

-----------------------------------------------------------------------------
(* After close() *)

\* What no operator but the end of a start(), the close and the sockets changes.
Gentle(c, d) ==
    /\ d.sockets = c.sockets /\ d.ended = c.ended /\ d.consent = c.consent
    /\ d.completed => c.completed
    /\ d.transport = "closed" => c.transport = "closed"

\* A step that keeps close() and makes the connection at most failed.
AtMostFails(p, q) ==
    /\ q.isClosed = p.isClosed /\ q.signaling = p.signaling
    /\ q.transport = p.transport /\ q.port = p.port
    /\ q.connection \in {p.connection, "failed"}

LEMMA GentleSteps ==
    ASSUME NEW c \in IceType, NEW restart \in BOOLEAN, NEW end \in BOOLEAN
    PROVE  /\ Gentle(c, c) /\ Gentle(c, Begin(c)) /\ Gentle(c, StartChecks(c))
           /\ Gentle(c, Gather(c)) /\ Gentle(c, GatherEnded(c))
           /\ Gentle(c, SetRemoteParams(c, restart)) /\ Gentle(c, AddRemoteCandidate(c))
           /\ Gentle(c, [c EXCEPT !.remoteCandidatesEnd = @ \/ end])
           /\ Gentle(c, SetTransport(c, "failed"))
<1>1. Gentle(c, c) /\ Gentle(c, SetTransport(c, "failed"))
  BY DEF Gentle, IceType, SetTransport
<1>2. Gentle(c, Begin(c)) /\ Gentle(c, GatherEnded(c))
  BY DEF Gentle, IceType, Begin, GatherEnded, SetState, SetTransport
<1>3. Gentle(c, Gather(c)) /\ Gentle(c, StartChecks(c))
  BY DEF Gentle, IceType, Gather, StartChecks
<1>4. Gentle(c, SetRemoteParams(c, restart)) /\ Gentle(c, AddRemoteCandidate(c))
  BY DEF Gentle, IceType, SetRemoteParams, AddRemoteCandidate
<1>5. Gentle(c, [c EXCEPT !.remoteCandidatesEnd = @ \/ end])
  BY DEF Gentle, IceType
<1> QED
  BY <1>1, <1>2, <1>3, <1>4, <1>5

\* A connection takes over 'disconnected' only from a transport that still tells it.
LEMMA ReportAfterClose ==
    ASSUME NEW p \in PcType, NEW c, NEW d, c.ended \/ d.transport # "disconnected"
    PROVE  AtMostFails(p, Report(p, c, d))
<1> DEFINE new == IceSummary(p, d.transport)
<1>1. ~c.ended => new # "disconnected"
  BY DEF IceSummary
<1>2. Report(p, c, d) = p \/ (~c.ended /\ Report(p, c, d) =
         [p EXCEPT !.iceConnection = new,
                   !.connection = IF new = "disconnected" THEN new ELSE p.connection])
  BY DEF Report, Told
<1> HIDE DEF new
<1> QED
  BY <1>1, <1>2 DEF AtMostFails, PcType

LEMMA SettleAfterClose ==
    ASSUME NEW p \in PcType, NEW d \in Description, NEW local \in BOOLEAN
    PROVE  AtMostFails(p, Settle(p, d, local))
<1> DEFINE q == IF local THEN SetLocal(p, d) ELSE [p EXCEPT !.negotiationneeded = FALSE]
<1>1. /\ q \in PcType /\ q.isClosed = p.isClosed /\ q.signaling = p.signaling /\ q.port = p.port
      /\ q.transport = p.transport /\ q.connection = p.connection
  BY DEF SetLocal, PcType, Descriptions
<1>2. Settle(p, d, local) = StillNeeded(q)
  BY DEF Settle
<1> HIDE DEF q
<1> QED
  BY <1>1, <1>2 DEF AtMostFails, StillNeeded, NeedNegotiation, PcType

LEMMA GentleIsTransitive ==
    ASSUME NEW b, NEW c, NEW d, Gentle(b, c), Gentle(c, d)
    PROVE  Gentle(b, d)
BY DEF Gentle

\* connect() is called only on a connection that is not closed.
LEMMA StartConnectIsGentle ==
    ASSUME NEW c \in IceType, NEW p \in PcType, NEW stages \in [Call -> Stage],
           p.established \/ \E i \in Call : stages[i] = "none",
           NEW r \in StartConnect(c, p, stages)
    PROVE  /\ Gentle(c, r[1])
           /\ r[2].isClosed = p.isClosed
           /\ r[3] = stages \/ (p.transport /\ \E i \in Call : r[3][i] # "none")
<1> DEFINE q == [p EXCEPT !.connection = "connecting"]
<1>1. q \in PcType /\ q.isClosed = p.isClosed /\ Fail(q).isClosed = p.isClosed
      /\ [p EXCEPT !.connection = "connected", !.established = TRUE].isClosed = p.isClosed
  BY DEF PcType, ConnectionState, Fail
<1>2. Gentle(c, c) /\ Gentle(c, Begin(c)) /\ Gentle(c, StartChecks(Begin(c)))
  <2>1. Begin(c) \in IceType
    BY StepsOfStart
  <2> QED
    BY <2>1, GentleSteps, GentleIsTransitive
<1>3. Report(q, c, Begin(c)).isClosed = p.isClosed
  BY <1>1 DEF Report, PcType
<1> HIDE DEF q
<1>4. CASE p.established \/ ~p.transport \/ c.transport = "closed" \/ ~c.remoteParams
  <2> DEFINE e == [p EXCEPT !.connection = "connected", !.established = TRUE]
  <2>1. \/ r = <<c, p, stages>>
        \/ r = <<c, e, stages>>
        \/ r = <<c, Fail(q), stages>>
    <3>1. CASE p.established
      BY <3>1 DEF StartConnect
    <3>2. CASE ~p.established /\ ~p.transport
      BY <3>2 DEF StartConnect
    <3>3. CASE ~p.established /\ p.transport
      BY <1>4, <3>3 DEF StartConnect, q
    <3> QED
      BY <3>1, <3>2, <3>3
  <2>2. e.isClosed = p.isClosed
    BY DEF PcType
  <2> HIDE DEF e
  <2>3. r[1] = c /\ r[3] = stages /\ r[2] \in {p, e, Fail(q)}
    BY <2>1
  <2> QED
    BY <1>1, <1>2, <2>2, <2>3
<1>5. CASE ~(p.established \/ ~p.transport \/ c.transport = "closed" \/ ~c.remoteParams)
  <2> DEFINE i == CHOOSE j \in Call : stages[j] = "none"
             Wait(stage) == [stages EXCEPT ![i] = stage]
  <2>1. i \in Call
    BY <1>5
  <2>2. \A stage : stage # "none" => \E j \in Call : Wait(stage)[j] # "none"
    BY <2>1
  <2>3. r \in {<<StartChecks(Begin(c)), Report(q, c, Begin(c)), Wait("checking")>>,
               <<Begin(c), Report(q, c, Begin(c)), Wait("gathering")>>,
               <<c, q, Wait("waiting")>>, <<c, q, Wait("forgotten")>>,
               <<c, Fail(q), stages>>}
    <3>1. c.waitStart \in {"none", "pending", "complete"}
      BY DEF IceType
    <3>2. CASE c.waitStart = "none"
      BY <1>5, <3>2 DEF StartConnect, q
    <3>3. CASE c.waitStart = "pending"
      BY <1>5, <3>3 DEF StartConnect, q
    <3>4. CASE c.waitStart = "complete"
      BY <1>5, <3>4 DEF StartConnect, q
    <3> QED
      BY <3>1, <3>2, <3>3, <3>4
  <2> HIDE DEF Wait
  <2> QED
    BY <1>1, <1>2, <1>3, <1>5, <2>2, <2>3
<1> QED
  BY <1>4, <1>5

LEMMA GatherAndSettleIsGentle ==
    ASSUME NEW c \in IceType, NEW p \in PcType, NEW stages, NEW d \in Description,
           NEW local \in BOOLEAN, NEW gathers, GatherAndSettle(c, p, stages, d, local, gathers)
    PROVE  /\ Gentle(c, ice') /\ pc'.isClosed = p.isClosed /\ pc'.transport = p.transport
           /\ calls' = stages
<1>1. CASE gathers /\ c.gathering = "new"
  BY <1>1, GentleSteps DEF GatherAndSettle, PcType
<1>2. CASE ~(gathers /\ c.gathering = "new")
  BY <1>2, GentleSteps, SettleAfterClose DEF GatherAndSettle, AtMostFails
<1> QED
  BY <1>1, <1>2

\* What the setters do to an open connection.
LEMMA GentleKeepsOpen ==
    ASSUME ClosedIsOver, ~pc.isClosed, ~pc'.isClosed, Gentle(ice, ice'),
           pc.transport => pc'.transport,
           calls' = calls \/ (pc'.transport /\ Called'),
           UNCHANGED <<dtls, sctp>>
    PROVE  ClosedIsOver'
<1>1. Called => Called'
  BY DEF Called
<1>2. Called' => pc'.transport
  BY DEF ClosedIsOver, Called
<1> QED
  BY <1>1, <1>2 DEF ClosedIsOver, ClosedIsNotRevived, Gentle

LEMMA SetLocalAfterClose ==
    ASSUME Good, ClosedIsOver, SetLocalDescription
    PROVE  ClosedIsOver'
<1> PICK d \in Description :
      LET p == SetLocal([pc EXCEPT !.signaling = IF d.type = "offer" THEN "have-local-offer"
                                                 ELSE "stable"], d)
      IN  /\ Accepts(pc, d, "have-local-offer", "have-remote-offer", RemoteDescription(pc))
          /\ d.type = "answer" => CanConnect(pc)
          /\ \E r \in IF d.type = "answer" THEN StartConnect(ice, p, calls)
                      ELSE {<<ice, p, calls>>} :
                GatherAndSettle(r[1], r[2], r[3], d, TRUE, pc.transport)
  BY DEF SetLocalDescription
<1> DEFINE s == [pc EXCEPT !.signaling = IF d.type = "offer" THEN "have-local-offer"
                                         ELSE "stable"]
           p == SetLocal(s, d)
<1>1. pc \in PcType /\ ice \in IceType /\ calls \in [Call -> Stage]
      /\ GoodIce(ice) /\ GoodCalls(ice, calls)
  BY DEF Good, GoodPc, HalfPc, GoodIce, GoodCalls
<1>2. ~pc.isClosed
  BY DEF ClosedIsOver, ClosedIsNotRevived, Accepts
<1>3. s \in PcType /\ s.isClosed = pc.isClosed /\ s.transport = pc.transport
      /\ s.established = pc.established
  BY <1>1 DEF PcType
<1> HIDE DEF s
<1>4. p \in PcType /\ p.isClosed = pc.isClosed /\ p.transport = pc.transport
      /\ p.established = pc.established
  <2>1. p.isClosed = s.isClosed
    BY <1>3 DEF SetLocal, PcType
  <2> QED
    BY <1>3, <2>1, SettersTyped
<1>5. PICK r \in IF d.type = "answer" THEN StartConnect(ice, p, calls) ELSE {<<ice, p, calls>>} :
         GatherAndSettle(r[1], r[2], r[3], d, TRUE, pc.transport)
  BY DEF s
<1>6. d.type = "answer" => p.established \/ \E i \in Call : calls[i] = "none"
  BY <1>4 DEF CanConnect
<1> HIDE DEF p
<1>7. /\ r[1] \in IceType /\ Gentle(ice, r[1]) /\ r[2] \in PcType
      /\ r[2].isClosed = p.isClosed /\ r[2].transport = p.transport
      /\ r[3] = calls \/ (p.transport /\ \E i \in Call : r[3][i] # "none")
  <2>1. CASE d.type = "answer"
    BY <1>1, <1>4, <1>5, <1>6, <2>1, StartConnectIsGentle, StartConnectFacts DEF GoodIce
  <2>2. CASE d.type # "answer"
    <3>1. r[1] = ice /\ r[2] = p /\ r[3] = calls
      BY <1>5, <2>2
    <3> QED
      BY <1>1, <1>4, <3>1 DEF Gentle
  <2> QED
    BY <2>1, <2>2
<1>8. /\ Gentle(r[1], ice') /\ pc'.isClosed = r[2].isClosed /\ pc'.transport = r[2].transport
      /\ calls' = r[3]
  <2>1. TRUE \in BOOLEAN
    OBVIOUS
  <2> QED
    BY <1>5, <1>7, <2>1, GatherAndSettleIsGentle
<1>9. Gentle(ice, ice') /\ UNCHANGED <<dtls, sctp>>
  BY <1>7, <1>8, GentleIsTransitive DEF SetLocalDescription
<1>10. calls' = calls \/ (pc'.transport /\ Called')
  BY <1>7, <1>8 DEF Called
<1> QED
  BY <1>2, <1>4, <1>7, <1>8, <1>9, <1>10, GentleKeepsOpen

LEMMA SetRemoteAfterClose ==
    ASSUME Good, ClosedIsOver, SetRemoteDescription
    PROVE  ClosedIsOver'
<1> PICK d \in Description, restart \in BOOLEAN, candidates \in BOOLEAN, end \in BOOLEAN :
      LET applied == ApplyMedia(ice, SetRemote(pc, d), d.media, restart, candidates, end)
          p == [applied[2] EXCEPT !.signaling = IF d.type = "offer" THEN "have-remote-offer"
                                                ELSE "stable"]
      IN  /\ d.media # "other"
          /\ Accepts(pc, d, "have-remote-offer", "have-local-offer", LocalDescription(pc))
          /\ d.type = "answer" => CanConnect(pc)
          /\ \E r \in IF d.type = "answer" THEN StartConnect(applied[1], p, calls)
                      ELSE {<<applied[1], p, calls>>} :
                GatherAndSettle(r[1], r[2], r[3], d, FALSE, d.media = "application")
  BY Zenon DEF SetRemoteDescription
<1> DEFINE s == SetRemote(pc, d)
           applied == ApplyMedia(ice, s, d.media, restart, candidates, end)
           c == applied[1]
           p == [applied[2] EXCEPT !.signaling = IF d.type = "offer" THEN "have-remote-offer"
                                                 ELSE "stable"]
<1>1. pc \in PcType /\ ice \in IceType /\ calls \in [Call -> Stage]
      /\ GoodIce(ice) /\ GoodCalls(ice, calls)
  BY DEF Good, GoodPc, HalfPc, GoodIce, GoodCalls
<1>2. ~pc.isClosed
  BY DEF ClosedIsOver, ClosedIsNotRevived, Accepts
<1>3. s \in PcType /\ s.isClosed = pc.isClosed /\ s.transport = pc.transport
      /\ s.established = pc.established
  <2>1. s.isClosed = pc.isClosed
    BY <1>1 DEF SetRemote, PcType
  <2> QED
    BY <1>1, <2>1, SettersTyped
<1> HIDE DEF s
<1>4. /\ GoodIce(c) /\ c.gathering = ice.gathering /\ c \in IceType
      /\ applied[2] \in PcType /\ (s.transport => applied[2].transport)
      /\ applied[2].established = s.established
  <2>1. /\ GoodIce(c) /\ c.gathering = ice.gathering
        /\ applied[2] \in PcType /\ (s.transport => applied[2].transport)
        /\ applied[2].established = s.established
    BY <1>1, <1>3, ApplyMediaFacts
  <2> QED
    BY <2>1 DEF GoodIce
<1>5. Gentle(ice, c) /\ applied[2].isClosed = s.isClosed
  <2>1. CASE d.media # "application"
    BY <1>1, <2>1, GentleSteps DEF ApplyMedia
  <2>2. CASE d.media = "application"
    <3> DEFINE e == SetRemoteParams(ice, restart)
               f == IF candidates THEN AddRemoteCandidate(e) ELSE e
               g == [f EXCEPT !.remoteCandidatesEnd = @ \/ end]
               q == CreateTransport(ice, s)
               t == [q EXCEPT !.port = TRUE]
    <3>1. e \in IceType /\ Gentle(ice, e)
      BY <1>1, StepsOfOthers, GentleSteps
    <3>2. f \in IceType /\ Gentle(e, f)
      <4> HIDE DEF e
      <4> QED
        BY <3>1, StepsOfOthers, GentleSteps
    <3>3. Gentle(f, g)
      <4> HIDE DEF f
      <4> QED
        BY <3>2, GentleSteps
    <3>4. Gentle(ice, g)
      <4> HIDE DEF e, f, g
      <4> QED
        BY <3>1, <3>2, <3>3, GentleIsTransitive
    <3>5. q.isClosed = s.isClosed /\ t.isClosed = q.isClosed
      BY <1>3 DEF CreateTransport, PcType
    <3>6. applied = <<g, t>>
      BY <2>2 DEF ApplyMedia
    <3> HIDE DEF g, t, q, applied
    <3>7. c = g /\ applied[2] = t
      BY <3>6
    <3> QED
      BY <3>4, <3>5, <3>7
  <2> QED
    BY <2>1, <2>2
<1> HIDE DEF applied
<1>6. p \in PcType /\ p.isClosed = pc.isClosed /\ (pc.transport => p.transport)
      /\ p.established = pc.established
  BY <1>3, <1>4, <1>5 DEF PcType
<1>7. PICK r \in IF d.type = "answer" THEN StartConnect(c, p, calls) ELSE {<<c, p, calls>>} :
         GatherAndSettle(r[1], r[2], r[3], d, FALSE, d.media = "application")
  BY DEF applied, s
<1>8. d.type = "answer" => p.established \/ \E i \in Call : calls[i] = "none"
  <2>1. d.type = "answer" => CanConnect(pc)
    OBVIOUS
  <2> QED
    BY <1>6, <2>1 DEF CanConnect
<1>9. GoodCalls(c, calls)
  BY <1>1, <1>4 DEF GoodCalls
<1> HIDE DEF p, c
<1>10. /\ r[1] \in IceType /\ Gentle(c, r[1]) /\ r[2] \in PcType
       /\ r[2].isClosed = p.isClosed /\ r[2].transport = p.transport
       /\ r[3] = calls \/ (p.transport /\ \E i \in Call : r[3][i] # "none")
  <2>1. CASE d.type = "answer"
    BY <1>1, <1>4, <1>6, <1>7, <1>8, <1>9, <2>1, StartConnectIsGentle, StartConnectFacts
       DEF GoodIce
  <2>2. CASE d.type # "answer"
    <3>1. r[1] = c /\ r[2] = p /\ r[3] = calls
      BY <1>7, <2>2
    <3> QED
      BY <1>4, <1>6, <3>1 DEF Gentle
  <2> QED
    BY <2>1, <2>2
<1>11. /\ Gentle(r[1], ice') /\ pc'.isClosed = r[2].isClosed /\ pc'.transport = r[2].transport
       /\ calls' = r[3]
  <2>1. FALSE \in BOOLEAN
    OBVIOUS
  <2> QED
    BY <1>7, <1>10, <2>1, GatherAndSettleIsGentle
<1>12. Gentle(ice, ice') /\ UNCHANGED <<dtls, sctp>>
  BY <1>5, <1>10, <1>11, GentleIsTransitive DEF SetRemoteDescription
<1>13. calls' = calls \/ (pc'.transport /\ Called')
  BY <1>10, <1>11 DEF Called
<1> QED
  BY <1>2, <1>6, <1>10, <1>11, <1>12, <1>13, GentleKeepsOpen

LEMMA ThrowsAfterClose ==
    ASSUME Good, ClosedIsOver, SetRemoteDescriptionThrows
    PROVE  ClosedIsOver'
<1> PICK d \in Description :
      /\ Accepts(pc, d, "have-remote-offer", "have-local-offer", LocalDescription(pc))
      /\ pc' = LET p == SetRemote(pc, d)
               IN  IF d.media = "other" THEN p ELSE [CreateTransport(ice, p) EXCEPT !.port = FALSE]
  BY DEF SetRemoteDescriptionThrows
<1> DEFINE s == SetRemote(pc, d)
<1>1. pc \in PcType /\ ice \in IceType
  BY DEF Good, GoodPc, HalfPc, GoodIce
<1>2. ~pc.isClosed
  BY DEF ClosedIsOver, ClosedIsNotRevived, Accepts
<1>3. s \in PcType /\ s.isClosed = pc.isClosed /\ s.transport = pc.transport
  <2>1. s.isClosed = pc.isClosed
    BY <1>1 DEF SetRemote, PcType
  <2> QED
    BY <1>1, <2>1, SettersTyped
<1> HIDE DEF s
<1>4. pc' = s \/ pc' = [CreateTransport(ice, s) EXCEPT !.port = FALSE]
  BY DEF s
<1>5. pc'.isClosed = s.isClosed /\ (s.transport => pc'.transport)
  BY <1>3, <1>4 DEF CreateTransport, PcType
<1>6. Gentle(ice, ice') /\ calls' = calls /\ UNCHANGED <<dtls, sctp>>
  BY DEF SetRemoteDescriptionThrows, Gentle
<1> QED
  BY <1>2, <1>3, <1>5, <1>6, GentleKeepsOpen

\* Of any connection: what is gentle and at most fails.
LEMMA GentleKeepsClosed ==
    ASSUME ClosedIsOver, Gentle(ice, ice'), AtMostFails(pc, pc'), Called' <=> Called,
           UNCHANGED <<dtls, sctp>>
    PROVE  ClosedIsOver'
BY DEF ClosedIsOver, ClosedIsNotRevived, Gentle, AtMostFails

LEMMA WishAfterClose ==
    ASSUME Good, ClosedIsOver, CreateDataChannel \/ NegotiationNeeded
    PROVE  ClosedIsOver'
<1>1. pc \in PcType /\ ice \in IceType
  BY DEF Good, GoodPc, HalfPc, GoodIce
<1>2. UNCHANGED <<ice, dtls, sctp, calls>> /\ (Called' <=> Called)
  BY DEF CreateDataChannel, NegotiationNeeded, Called
<1>3. CASE NegotiationNeeded
  <2>1. AtMostFails(pc, pc')
    BY <1>1, <1>3 DEF NegotiationNeeded, AtMostFails, PcType
  <2>2. Gentle(ice, ice')
    BY <1>2 DEF Gentle
  <2> QED
    BY <1>2, <2>1, <2>2, GentleKeepsClosed
<1>4. CASE CreateDataChannel
  <2> DEFINE p == CreateTransport(ice, pc)
  <2>1. /\ p \in PcType /\ p.isClosed = pc.isClosed /\ p.signaling = pc.signaling
        /\ p.transport /\ p.connection = pc.connection
    <3>1. p.isClosed = pc.isClosed /\ p.signaling = pc.signaling
      BY <1>1 DEF CreateTransport, PcType
    <3> QED
      BY <1>1, <3>1, CreateTransportFacts
  <2> HIDE DEF p
  <2>2. /\ pc'.isClosed = p.isClosed /\ pc'.signaling = p.signaling
        /\ pc'.transport = p.transport /\ pc'.connection = p.connection
    BY <1>4, <2>1 DEF CreateDataChannel, NeedNegotiation, PcType, p
  <2>3. ~pc.transport
    BY <1>4 DEF CreateDataChannel
  <2> QED
    BY <1>2, <2>1, <2>2, <2>3 DEF ClosedIsOver, ClosedIsNotRevived
<1> QED
  BY <1>3, <1>4

LEMMA NetworkAfterClose ==
    ASSUME Good, ClosedIsOver, AddIceCandidate \/ Bind \/ PairNominated \/ CloseSockets
    PROVE  ClosedIsOver'
<1>1. ice \in IceType /\ UNCHANGED <<pc, dtls, sctp, calls>> /\ (Called' <=> Called)
  BY DEF Good, GoodIce, AddIceCandidate, Bind, PairNominated, CloseSockets, Called
<1>2. CASE AddIceCandidate
  <2>1. Gentle(ice, ice')
    BY <1>1, <1>2, GentleSteps DEF AddIceCandidate
  <2>2. pc' = pc /\ AtMostFails(pc, pc')
    BY <1>1 DEF AtMostFails
  <2> QED
    BY <1>1, <2>1, <2>2, GentleKeepsClosed
<1>3. CASE Bind
  <2>1. /\ ice.sockets = "unbound" /\ ice'.completed = ice.completed /\ ice'.ended = ice.ended
        /\ ice'.transport = ice.transport /\ ice'.consent = ice.consent
    BY <1>1, <1>3 DEF Bind, GatherBinds, IceType
  <2> QED
    BY <1>1, <2>1 DEF ClosedIsOver, ClosedIsNotRevived
<1>4. CASE PairNominated
  <2>1. /\ ice.sockets # "unbound" /\ ice'.sockets = ice.sockets /\ ice'.ended = ice.ended
        /\ ice'.transport = ice.transport /\ ice'.consent = ice.consent
    BY <1>1, <1>4 DEF PairNominated, Nominate, IceType
  <2> QED
    BY <1>1, <2>1 DEF ClosedIsOver, ClosedIsNotRevived
<1>5. CASE CloseSockets
  <2>1. /\ ice'.sockets = "closed" /\ ice'.ended = ice.ended /\ ice'.completed = ice.completed
        /\ ice'.transport = ice.transport /\ ice'.consent = ice.consent
    BY <1>1, <1>5 DEF CloseSockets, SocketsClose, IceType
  <2> QED
    BY <1>1, <2>1 DEF ClosedIsOver, ClosedIsNotRevived
<1> QED
  BY <1>2, <1>3, <1>4, <1>5

LEMMA GatheredAfterClose ==
    ASSUME Good, ClosedIsOver, Gathered
    PROVE  ClosedIsOver'
<1> DEFINE c == GatherEnded(ice)
           p == Report(pc, ice, c)
           q == [p EXCEPT !.settling = None, !.settlingLocal = FALSE]
<1>1. pc \in PcType /\ ice \in IceType /\ calls \in [Call -> Stage]
  BY DEF Good, GoodPc, HalfPc, GoodIce, GoodCalls
<1>2. c \in IceType /\ Gentle(ice, c) /\ c.transport = "completed"
  <2>1. c.transport = "completed"
    BY <1>1 DEF GatherEnded, SetState, SetTransport, IceType
  <2> QED
    BY <1>1, <2>1, StepsOfOthers, GentleSteps
<1>3. ice' = c \/ ice' = StartChecks(c)
  BY DEF Gathered
<1>4. /\ pc' = IF pc.settling = None THEN p ELSE Settle(q, pc.settling, pc.settlingLocal)
      /\ UNCHANGED <<dtls, sctp>>
  BY DEF Gathered
<1>5. Called' <=> Called
  BY <1>1 DEF Gathered, Called
<1> HIDE DEF c
<1>6. Gentle(ice, ice')
  BY <1>2, <1>3, GentleSteps, GentleIsTransitive
<1>7. AtMostFails(pc, p) /\ p \in PcType
  BY <1>1, <1>2, ReportAfterClose, ReportFacts
<1> HIDE DEF p
<1>8. AtMostFails(pc, pc')
  <2>1. CASE pc.settling = None
    BY <1>4, <1>7, <2>1
  <2>2. CASE pc.settling # None
    <3>1. q \in PcType /\ AtMostFails(p, q)
      BY <1>7 DEF PcType, AtMostFails, Descriptions
    <3>2. pc.settling \in Description /\ pc.settlingLocal \in BOOLEAN
      BY <1>1, <2>2 DEF PcType, Descriptions
    <3> HIDE DEF q
    <3>3. AtMostFails(q, Settle(q, pc.settling, pc.settlingLocal))
      BY <3>1, <3>2, SettleAfterClose
    <3> QED
      BY <1>4, <1>7, <2>2, <3>1, <3>3 DEF AtMostFails
  <2> QED
    BY <2>1, <2>2
<1> QED
  BY <1>4, <1>5, <1>6, <1>8, GentleKeepsClosed

\* A start() that ends after close() finds no DTLS transport to start.
LEMMA IceConnectsAfterClose ==
    ASSUME Good, ClosedIsOver, NEW i \in Call, IceConnects(i)
    PROVE  ClosedIsOver'
<1> DEFINE c == Connected(ice)
           waited == {j \in Call : calls[j] = "waiting"}
           d == IF waited = {} THEN c ELSE StartChecks(Begin(c))
           p == Report(pc, ice, d)
           starts == dtls.state = "new"
<1>1. pc \in PcType /\ ice \in IceType /\ calls \in [Call -> Stage]
      /\ dtls \in DtlsType
  BY DEF Good, GoodPc, HalfPc, GoodIce, GoodCalls, Others
<1>2. /\ calls[i] = "checking" /\ ice.completed
      /\ ice' = d /\ pc' = (IF starts THEN p ELSE Fail(p))
      /\ calls' = [j \in Call |-> CASE j = i -> IF starts THEN "dtls" ELSE "failed"
                                     [] j \in waited -> "checking"
                                     [] OTHER -> calls[j]]
      /\ dtls' = (IF starts THEN [state |-> "connecting", handshake |-> "running"] ELSE dtls)
      /\ sctp' = sctp
  BY DEF IceConnects
<1>3. Called /\ Called' /\ pc.transport /\ ice.sockets # "unbound"
  BY <1>2 DEF ClosedIsOver, Called
<1>4. /\ c \in IceType /\ c.sockets = ice.sockets /\ c.ended = ice.ended /\ ~c.completed
      /\ c.transport = "connected"
  <2>1. /\ c.sockets = ice.sockets /\ c.ended = ice.ended /\ ~c.completed
        /\ c.transport = "connected"
    BY <1>1 DEF Connected, SetState, SetTransport, IceType
  <2> QED
    BY <1>1, <2>1, StepsOfStart
<1> HIDE DEF c
<1>5. /\ d \in IceType /\ d.sockets = ice.sockets /\ d.ended = ice.ended /\ ~d.completed
      /\ d.transport \in {"connected", "checking"}
  <2>1. Begin(c) \in IceType /\ Begin(c).transport = "checking" /\ Gentle(c, Begin(c))
    <3>1. Begin(c).transport = "checking"
      BY <1>4 DEF Begin, SetTransport, IceType
    <3> QED
      BY <1>4, <3>1, StepsOfStart, GentleSteps
  <2>2. /\ StartChecks(Begin(c)) \in IceType /\ Gentle(Begin(c), StartChecks(Begin(c)))
        /\ StartChecks(Begin(c)).transport = "checking"
    <3>1. StartChecks(Begin(c)).transport = "checking"
      BY <2>1 DEF StartChecks, IceType
    <3> QED
      BY <2>1, <3>1, StepsOfStart, GentleSteps
  <2> QED
    BY <1>4, <2>1, <2>2 DEF Gentle
<1> HIDE DEF d
<1>6. AtMostFails(pc, p) /\ p \in PcType
  BY <1>1, <1>5, ReportAfterClose, ReportFacts
<1> HIDE DEF p
<1>7. AtMostFails(pc, pc')
  BY <1>2, <1>6 DEF AtMostFails, Fail, PcType
<1>8. starts => ~pc.isClosed
  BY <1>3 DEF ClosedIsOver
<1>9. ClosedIsNotRevived'
  BY <1>7 DEF AtMostFails, ClosedIsOver, ClosedIsNotRevived
<1>10. dtls'.state # "new" /\ (dtls'.handshake # "none" => starts \/ dtls.handshake # "none")
  BY <1>2
<1>11. /\ ice'.transport # "closed" /\ ~ice'.completed /\ ice'.ended = ice.ended
       /\ ice'.sockets = ice.sockets
  BY <1>2, <1>5
<1>12. pc'.isClosed = pc.isClosed /\ pc'.transport = pc.transport
  BY <1>7 DEF AtMostFails
<1>13. dtls'.handshake # "none" /\ pc.isClosed => ice.sockets # "open"
  BY <1>8, <1>10 DEF ClosedIsOver
<1>14. sctp.state \in {"connecting", "connected"} => dtls'.handshake # "none"
  BY <1>2 DEF ClosedIsOver
<1>15. pc.isClosed => ice.ended
  BY <1>3 DEF ClosedIsOver
<1> QED
  BY <1>2, <1>3, <1>9, <1>10, <1>11, <1>12, <1>13, <1>14, <1>15 DEF ClosedIsOver

LEMMA IceRaisesAfterClose ==
    ASSUME Good, ClosedIsOver, NEW i \in Call, IceRaises(i)
    PROVE  ClosedIsOver'
<1> DEFINE c == SetTransport(ice, "failed")
           p == Report(pc, ice, c)
<1>1. pc \in PcType /\ ice \in IceType /\ calls \in [Call -> Stage]
  BY DEF Good, GoodPc, HalfPc, GoodIce, GoodCalls
<1>2. c \in IceType /\ Gentle(ice, c) /\ c.transport = "failed"
  <2>1. c.transport = "failed"
    BY <1>1 DEF SetTransport, IceType
  <2> QED
    BY <1>1, <2>1, GentleSteps, TransportTyped DEF TransportState
<1>3. /\ ice' = c /\ pc' = Fail(p) /\ calls' = [calls EXCEPT ![i] = "failed"]
      /\ calls[i] = "checking" /\ UNCHANGED <<dtls, sctp>>
  BY DEF IceRaises
<1> HIDE DEF c
<1>4. AtMostFails(pc, p) /\ p \in PcType
  BY <1>1, <1>2, ReportAfterClose, ReportFacts
<1> HIDE DEF p
<1>5. AtMostFails(pc, pc')
  BY <1>3, <1>4 DEF AtMostFails, Fail, PcType
<1>6. Called' <=> Called
  BY <1>1, <1>3 DEF Called
<1> QED
  BY <1>2, <1>3, <1>5, <1>6, GentleKeepsClosed

\* The tests of consent that a late start() begins are not told.
LEMMA ConsentAfterClose ==
    ASSUME Good, ClosedIsOver,
           Consents(ConsentWakes) \/ Consents(ConsentAnswered) \/ Consents(ConsentMissed)
    PROVE  ClosedIsOver'
<1>1. pc \in PcType /\ ice \in IceType
  BY DEF Good, GoodPc, HalfPc, GoodIce
<1>2. pc' = Report(pc, ice, ice') /\ UNCHANGED <<dtls, sctp, calls>> /\ (Called' <=> Called)
  BY DEF Consents, Called
<1>3. ice.consent # "none"
  BY DEF Consents, ConsentWakes, ConsentAnswered, ConsentMissed
<1>4. Called /\ (pc.isClosed => ice.ended)
  BY <1>3 DEF ClosedIsOver
<1>5. /\ ice'.completed = ice.completed
      /\ ice'.transport = "closed" => ice'.ended
      /\ ice.ended => ice'.ended
      /\ ice'.sockets = ice.sockets \/ (ice.sockets = "open" /\ ice'.sockets = "closing")
      /\ ice'.transport = "closed" => ice.transport = "closed" \/ ice'.sockets # "open"
  <2>1. CASE ConsentWakes
    BY <1>1, <2>1 DEF ClosedIsOver, ConsentWakes, IceType
  <2>2. CASE ConsentAnswered
    BY <1>1, <2>2 DEF ClosedIsOver, ConsentAnswered, IceType, SetState, SetTransport
  <2>3. CASE ConsentMissed
    <3> DEFINE e == SetState(ice, "disconnected")
               c == [e EXCEPT !.failures = @ + 1]
               g == SetState(c, "closed")
    <3>1. /\ c.sockets = ice.sockets /\ c.ended = ice.ended /\ c.completed = ice.completed
          /\ c.transport = "disconnected"
          /\ [c EXCEPT !.consent = "asleep"].sockets = ice.sockets
          /\ [c EXCEPT !.consent = "asleep"].ended = ice.ended
          /\ [c EXCEPT !.consent = "asleep"].completed = ice.completed
          /\ [c EXCEPT !.consent = "asleep"].transport = "disconnected"
      BY <1>1 DEF IceType, SetState, SetTransport
    <3>2. /\ CloseConnection(c).transport = "closed" /\ CloseConnection(c).ended
          /\ CloseConnection(c).completed = ice.completed
          /\ CloseConnection(c).sockets = (IF ice.sockets = "open" THEN "closing"
                                           ELSE ice.sockets)
      BY <1>1 DEF IceType, SetState, SetTransport, CloseConnection
    <3>3. ice' = CloseConnection(c) \/ ice' = [c EXCEPT !.consent = "asleep"]
      BY <2>3 DEF ConsentMissed
    <3> HIDE DEF c
    <3> QED
      BY <3>1, <3>2, <3>3
  <2> QED
    BY <2>1, <2>2, <2>3 DEF Consents
<1>6. /\ pc'.isClosed = pc.isClosed /\ pc'.transport = pc.transport
      /\ pc.isClosed => AtMostFails(pc, pc')
  <2>1. pc'.isClosed = pc.isClosed /\ pc'.transport = pc.transport
    BY <1>1, <1>2 DEF Report, PcType
  <2>2. pc.isClosed => AtMostFails(pc, pc')
    BY <1>1, <1>2, <1>4, ReportAfterClose
  <2> QED
    BY <2>1, <2>2
<1>7. ClosedIsNotRevived'
  BY <1>6 DEF ClosedIsOver, ClosedIsNotRevived, AtMostFails
<1>8. ice'.sockets = "unbound" => ice.sockets = "unbound"
  BY <1>5
<1>9. ice'.sockets = "open" => ice.sockets = "open"
  BY <1>5
<1> QED
  BY <1>2, <1>4, <1>5, <1>6, <1>7, <1>8, <1>9 DEF ClosedIsOver

\* An association that comes after close() has no socket to come over.
LEMMA TransportsAfterClose ==
    ASSUME Good, ClosedIsOver,
           DtlsConnects \/ DtlsFails \/ DtlsCloses \/ SctpConnects \/ SctpCloses
    PROVE  ClosedIsOver'
<1>1. pc \in PcType /\ calls \in [Call -> Stage] /\ dtls \in DtlsType /\ sctp \in SctpType
  BY DEF Good, GoodPc, HalfPc, GoodCalls, Others
<1>2. ice' = ice
  BY DEF DtlsConnects, DtlsFails, DtlsCloses, SctpConnects, SctpCloses
<1>3. Called' <=> Called
  BY <1>1 DEF Called, DtlsConnects, DtlsFails, DtlsCloses, SctpConnects, SctpCloses
<1>4. /\ dtls'.state # "new" \/ dtls'.state = dtls.state
      /\ dtls'.handshake # "none" <=> dtls.handshake # "none"
  BY <1>1 DEF DtlsType, DtlsConnects, DtlsFails, DtlsCloses, SctpConnects, SctpCloses
<1>5. sctp'.state \in {"connecting", "connected"} => dtls.handshake # "none"
  <2>1. CASE DtlsConnects
    BY <2>1 DEF DtlsConnects
  <2>2. CASE SctpConnects
    BY <2>2 DEF SctpConnects, ClosedIsOver
  <2>3. CASE SctpCloses \/ DtlsCloses
    BY <1>1, <2>3 DEF SctpCloses, DtlsCloses, SctpType, ClosedIsOver
  <2>4. CASE DtlsFails
    BY <2>4 DEF DtlsFails, ClosedIsOver
  <2> QED
    BY <2>1, <2>2, <2>3, <2>4
<1>6. pc' = pc \/ (pc' = Establish(pc) /\ (pc.isClosed => pc.transport /\ ~pc.port))
  <2>1. CASE DtlsConnects
    <3>1. pc.transport
      BY <2>1 DEF DtlsConnects, ClosedIsOver
    <3> QED
      BY <2>1, <3>1 DEF DtlsConnects
  <2>2. CASE SctpConnects
    <3>1. ~pc.isClosed
      BY <2>2 DEF SctpConnects, ClosedIsOver
    <3> QED
      BY <2>2, <3>1 DEF SctpConnects
  <2>3. CASE DtlsFails \/ DtlsCloses \/ SctpCloses
    BY <2>3 DEF DtlsFails, DtlsCloses, SctpCloses
  <2> QED
    BY <2>1, <2>2, <2>3
<1>7. /\ Establish(pc).isClosed = pc.isClosed /\ Establish(pc).signaling = pc.signaling
      /\ Establish(pc).transport = pc.transport /\ Establish(pc).port = pc.port
  BY <1>1 DEF Establish, PcType
<1>8. pc'.isClosed = pc.isClosed /\ pc'.transport = pc.transport
  BY <1>6, <1>7
<1>9. ClosedIsNotRevived'
  BY <1>6, <1>7 DEF ClosedIsOver, ClosedIsNotRevived
<1> QED
  BY <1>2, <1>3, <1>4, <1>5, <1>8, <1>9 DEF ClosedIsOver

LEMMA CloseAfterClose ==
    ASSUME Good, ClosedIsOver, Close
    PROVE  ClosedIsOver'
<1> DEFINE p == [pc EXCEPT !.isClosed = TRUE, !.signaling = "closed", !.connection = "closed"]
           c == StopTransport(ice)
<1>1. /\ pc \in PcType /\ ice \in IceType /\ dtls \in DtlsType /\ sctp \in SctpType
      /\ calls' = calls /\ (Called' <=> Called)
  BY DEF Good, GoodPc, HalfPc, GoodIce, Others, Close, Called
<1>2. /\ p \in PcType /\ p.isClosed /\ p.signaling = "closed" /\ p.connection = "closed"
      /\ p.transport = pc.transport
  BY <1>1 DEF PcType, ConnectionState
<1>3. /\ c.transport = "closed" /\ c.ended /\ c.completed = ice.completed
      /\ c.consent # "none" => ice.consent # "none"
      /\ c.sockets = ice.sockets \/ (ice.sockets = "open" /\ c.sockets = "closing")
      /\ ice.transport # "closed" => c.sockets # "open"
  <2>1. CASE ice.transport = "closed"
    BY <2>1 DEF StopTransport, ClosedIsOver
  <2>2. CASE ice.transport # "closed"
    <3>1. c = CloseConnection(ice)
      BY <2>2 DEF StopTransport
    <3>2. /\ CloseConnection(ice).transport = "closed" /\ CloseConnection(ice).ended
          /\ CloseConnection(ice).completed = ice.completed
          /\ CloseConnection(ice).sockets = (IF ice.sockets = "open" THEN "closing"
                                             ELSE ice.sockets)
          /\ CloseConnection(ice).consent = (IF ice.consent = "none" THEN ice.consent
                                             ELSE "ended")
      BY <1>1 DEF IceType, SetState, SetTransport, CloseConnection
    <3> QED
      BY <3>1, <3>2
  <2> QED
    BY <2>1, <2>2
<1>4. ~pc.isClosed
  BY DEF Close
<1>5. CASE pc.transport
  <2>1. /\ ice' = c /\ pc' = Report(p, ice, c)
        /\ dtls' = [dtls EXCEPT !.state = "closed"]
        /\ sctp' = [sctp EXCEPT !.state = "closed"]
    BY <1>5 DEF Close
  <2> HIDE DEF c, p
  <2>2. AtMostFails(p, pc')
    BY <1>2, <1>3, <2>1, ReportAfterClose
  <2>3. ClosedIsNotRevived'
    BY <1>2, <2>2 DEF AtMostFails, ClosedIsNotRevived
  <2>4. pc'.transport
    BY <1>2, <1>5, <2>2 DEF AtMostFails
  <2>5. /\ dtls'.state = "closed" /\ dtls'.handshake = dtls.handshake
        /\ sctp'.state = "closed"
    BY <1>1, <2>1 DEF DtlsType, SctpType
  <2>6. dtls.handshake # "none" => c.sockets # "open" /\ c.sockets # "unbound"
    BY <1>3 DEF ClosedIsOver
  <2>7. ice.completed => c.sockets # "unbound"
    BY <1>3 DEF ClosedIsOver
  <2>8. /\ ice.consent # "none" => Called
        /\ dtls.handshake # "none" => Called
    BY DEF ClosedIsOver
  <2> QED
    BY <1>1, <1>3, <2>1, <2>3, <2>4, <2>5, <2>6, <2>7, <2>8 DEF ClosedIsOver
<1>6. CASE ~pc.transport
  <2>1. pc' = p /\ UNCHANGED <<ice, dtls, sctp>>
    BY <1>6 DEF Close
  <2>2. ~Called
    BY <1>6 DEF ClosedIsOver
  <2>3. ClosedIsNotRevived'
    BY <1>2, <2>1 DEF ClosedIsNotRevived
  <2> QED
    BY <1>1, <2>1, <2>2, <2>3 DEF ClosedIsOver
<1> QED
  BY <1>5, <1>6

LEMMA OverStep ==
    ASSUME Good, ClosedIsOver, [Next]_vars
    PROVE  ClosedIsOver'
<1>1. CASE UNCHANGED vars
  BY <1>1 DEF vars, ClosedIsOver, ClosedIsNotRevived, Called
<1>2. CASE \E i \in Call : IceConnects(i) \/ IceRaises(i)
  BY <1>2, IceConnectsAfterClose, IceRaisesAfterClose
<1> QED
  BY <1>1, <1>2, SetLocalAfterClose, SetRemoteAfterClose, ThrowsAfterClose, WishAfterClose,
     NetworkAfterClose, GatheredAfterClose, ConsentAfterClose, TransportsAfterClose,
     CloseAfterClose DEF Next

\* Whatever promise settles late, a closed connection stays closed or turns failed, unless
\* connect() passed over SCTP: the sockets of a handshake that was under way are gone, a
\* DTLS transport is not started twice, and the ICE transport tells nothing any more.
THEOREM NotRevived == Spec => []ClosedIsNotRevived
<1>1. Init => ClosedIsOver
  BY DEF Init, IceInit, ClosedIsOver, ClosedIsNotRevived, Called
<1>2. Good /\ ClosedIsOver /\ [Next]_vars => ClosedIsOver'
  BY OverStep
<1>3. ClosedIsOver => ClosedIsNotRevived
  BY DEF ClosedIsOver
<1> QED
  BY <1>1, <1>2, <1>3, AlwaysGood, PTL DEF Spec
=============================================================================
