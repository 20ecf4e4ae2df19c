----------------------------- MODULE IceTransport -----------------------------
(* The life of the ICE side of one RTCPeerConnection, from gathering to close:  *)
(* RTCIceGatherer and RTCIceTransport (src/transport/ice.ts) over one           *)
(* Connection (src/ice/ice.ts) with its gathering, its nomination as connect()  *)
(* sees it, and the consent tests.  How pairs are checked and nominated is      *)
(* IceChecks; here a nomination is one step.  Addresses, candidates and the     *)
(* single sockets are left out.                                                 *)
EXTENDS Naturals

CONSTANT ConsentFailures    \* CONSENT_FAILURES

ASSUME ConsentAssumption == ConsentFailures \in Nat \ {0}

VARIABLE ice    \* one record for the three objects

\* Connection.state; "checking" and "failed" are states of the transport alone.
IceState == {"new", "completed", "connected", "disconnected", "closed"}

TransportState == IceState \cup {"checking", "failed"}

\* protocols: none yet, bound, closed one after another, closed.
Sockets == {"unbound", "open", "closing", "closed"}

\* queryConsent: between two tests, with a request under way, or at its end.
Consent == {"none", "asleep", "asking", "ended"}

IceType ==
    [state : IceState, transport : TransportState,
     ended : BOOLEAN,                                \* onStateChange is complete
     gathering : {"new", "gathering", "complete"}, sockets : Sockets,
     remoteParams : BOOLEAN, remoteCandidatesEnd : BOOLEAN,
     candidates : BOOLEAN,                           \* a remote candidate is known
     pairs : BOOLEAN,                                \* the check list is not empty
     nominated : BOOLEAN, checkListDone : BOOLEAN,
     completed : BOOLEAN,                            \* ICE_COMPLETED was not taken yet
     waitStart : {"none", "pending", "complete"},
     consent : Consent, failures : 0 .. ConsentFailures]

IceInit ==
    [state |-> "new", transport |-> "new", ended |-> FALSE,
     gathering |-> "new", sockets |-> "unbound",
     remoteParams |-> FALSE, remoteCandidatesEnd |-> FALSE,
     candidates |-> FALSE, pairs |-> FALSE, nominated |-> FALSE, checkListDone |-> FALSE, completed |-> FALSE,
     waitStart |-> "none", consent |-> "none", failures |-> 0]

-----------------------------------------------------------------------------
(* States *)

\* RTCIceTransport.setState: once 'closed' was told nothing is told any more, but the
\* state still changes.
SetTransport(c, state) ==
    [c EXCEPT !.transport = state, !.ended = @ \/ state = "closed"]

\* Connection.setState, and the listener of RTCIceTransport.
SetState(c, state) == SetTransport([c EXCEPT !.state = state], state)

\* Whether RTCPeerConnection hears of the step from c to d.
Told(c, d) == c.transport # d.transport /\ ~c.ended

-----------------------------------------------------------------------------
(* Gathering *)

Gather(c) == IF c.gathering = "new" THEN [c EXCEPT !.gathering = "gathering"] ELSE c

\* The sockets of getComponentCandidates are bound; nobody looks whether the connection
\* was closed in the meantime.
GatherBinds ==
    /\ ice.gathering = "gathering" /\ ice.sockets = "unbound"
    /\ ice' = [ice EXCEPT !.sockets = "open"]

\* The end of gatherCandidates and gather, with sockets or, if none could be bound,
\* without: 'completed' whatever the state was.
GatherEnded(c) == [SetState(c, "completed") EXCEPT !.gathering = "complete"]

-----------------------------------------------------------------------------
(* Remote side *)

\* setRemoteParams of the transport: other credentials than before restart ICE.
SetRemoteParams(c, restart) ==
    [c EXCEPT !.remoteParams = TRUE, !.nominated = @ /\ ~restart]

\* addRemoteCandidate, with a candidate: it is paired with the sockets there are.
AddRemoteCandidate(c) ==
    IF c.remoteCandidatesEnd THEN c
    ELSE [c EXCEPT !.candidates = TRUE, !.pairs = @ \/ c.sockets = "open"]

\* A check ends with a nomination (checkComplete); only the first puts a result.
Nominate ==
    /\ ice.remoteParams /\ ice.pairs /\ ~ice.nominated
    /\ ice.sockets \in {"open", "closing"}
    /\ ice' = [ice EXCEPT !.nominated = TRUE, !.checkListDone = TRUE,
                          !.completed = @ \/ ~ice.checkListDone]

-----------------------------------------------------------------------------
(* start() and connect() *)

\* start(), after the wait for an earlier start().
Begin(c) == [SetTransport(c, "checking") EXCEPT !.waitStart = "pending"]

\* connect(), when the local candidates are there.
StartChecks(c) == [c EXCEPT !.pairs = @ \/ (c.candidates /\ c.sockets = "open")]

\* connect() takes the result, starts the consent tests and says connected; start()
\* ends the wait of others.
Connected(c) ==
    [SetState(c, "connected") EXCEPT !.completed = FALSE, !.waitStart = "complete",
                                     !.consent = "asleep", !.failures = 0]

\* connect() raises only without a pair.
CanRaise(c) == ~c.pairs /\ (c.state = "closed" \/ c.remoteCandidatesEnd)

-----------------------------------------------------------------------------
(* Consent and close() *)

\* close() up to the first socket: it cancels the consent tests.
CloseConnection(c) ==
    [SetState(c, "closed") EXCEPT
        !.consent = IF @ = "none" THEN @ ELSE "ended",
        !.nominated = FALSE,
        !.sockets = IF @ = "open" THEN "closing" ELSE @]

SocketsClose ==
    /\ ice.sockets = "closing"
    /\ ice' = [ice EXCEPT !.sockets = "closed"]

\* stop()
StopTransport(c) == IF c.transport = "closed" THEN c ELSE CloseConnection(c)

\* The sleep of queryConsent is over and there is a nominated pair to test; without one
\* it sleeps again.
ConsentWakes ==
    /\ ice.consent = "asleep" /\ ice.nominated
    /\ ice' = [ice EXCEPT !.consent = "asking"]

\* Variant: an answer does not make up for the failures before it.
ConsentAnsweredOnly ==
    /\ ice.consent = "asking"
    /\ LET c == [ice EXCEPT !.consent = "asleep"]
       IN  ice' = IF c.state = "disconnected" THEN SetState(c, "connected") ELSE c

ConsentAnswered ==
    /\ ice.consent = "asking"
    /\ LET c == [ice EXCEPT !.consent = "asleep", !.failures = 0]
       IN  ice' = IF c.state = "disconnected" THEN SetState(c, "connected") ELSE c

\* Variant: a failure ends the tests.
ConsentMissedOnce ==
    /\ ice.consent = "asking"
    /\ ice' = [SetState(ice, "disconnected") EXCEPT !.failures = @ + 1, !.consent = "ended"]

\* No answer to the last retransmission: 'disconnected', and closed after too many.
ConsentMissed ==
    /\ ice.consent = "asking"
    /\ LET c == [SetState(ice, "disconnected") EXCEPT !.failures = @ + 1]
       IN  ice' = IF c.failures >= ConsentFailures THEN CloseConnection(c)
                  ELSE [c EXCEPT !.consent = "asleep"]
=============================================================================
