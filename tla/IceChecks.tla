----------------------------- MODULE IceChecks -----------------------------
(***************************************************************************)
(* ICE between two fudano endpoints (src/src/ice/ice.ts, class Connection, *)
(* with the transactions of src/src/ice/stun): candidates that come late,  *)
(* connectivity checks, role conflicts, nomination, and what connect()     *)
(* makes of them.                                                          *)
(*                                                                         *)
(* A path is a local socket of each endpoint that can be paired with the   *)
(* other (canPairWith); paths are numbered from the lowest priority.       *)
(* Gathering is over.  A pair is a path and how its remote candidate       *)
(* became known: signalled by the peer, or learned from a request.         *)
(*                                                                         *)
(* The network is the set of binding requests ever sent, received in any   *)
(* order, never, once or often.  A transaction is over with its first      *)
(* answer, or without one after its last retransmission.  One action is    *)
(* one callback of the event loop with all the continuations it wakes.     *)
(***************************************************************************)
EXTENDS Naturals

CONSTANTS
    NumPaths,          \* bound: paths between the endpoints
    MaxOffers,         \* bound: offers after the first
    Scenarios          \* what the endpoints begin with, see Scenario

ASSUME BoundsAssumption == NumPaths \in Nat \ {0} /\ MaxOffers \in Nat

Offerer == "offerer"
Answerer == "answerer"
Endpoint == {Offerer, Answerer}
Peer(e) == IF e = Offerer THEN Answerer ELSE Offerer

Path == 1 .. NumPaths

\* paths: those that gathering found; late: the endpoints whose remote candidates come
\* one by one, after the description; offers: how many offers follow the first.
Scenario == [paths : {1 .. n : n \in Path}, late : SUBSET Endpoint, offers : 0 .. MaxOffers]

ASSUME ScenarioAssumption == Scenarios \subseteq Scenario

Kind == {"signalled", "reflexive"}
PairId == [path : Path, kind : Kind]
NoPair == [path |-> 0, kind |-> "none"]

\* check: the transaction that is under way.  "nominating" and "controlling" go out as
\* controlling, the difference is what follows.  answers: what the peer has said to it.
Check == {"none", "controlling", "controlled", "nominating"}
Pair == [state : {"WAITING", "IN_PROGRESS", "SUCCEEDED", "FAILED"},
         nominated : BOOLEAN, remoteNominated : BOOLEAN,
         check : Check, answers : SUBSET {"success", "role conflict"}]

Request == [from : Endpoint, path : Path, controlling : BOOLEAN]

VARIABLES
    paths,       \* the paths there are, found by gathering
    ice,         \* the Connection of each endpoint, see Connection
    requests,    \* every binding request ever sent
    tieBreaker,  \* the endpoint with the greater tie-breaker
    offers,      \* offers that have no answer yet
    moreOffers,  \* how many offers may still be made
    verified     \* ghost: verified[e]: the paths on which a success came back to e

vars == <<paths, ice, requests, tieBreaker, offers, moreOffers, verified>>

Connection ==
    [iceControlling : BOOLEAN,
     remoteParams : BOOLEAN,                     \* setRemoteParams was called
     remoteCandidates : SUBSET PairId,
     remoteCandidatesEnd : BOOLEAN,
     lookups : SUBSET Path,                      \* .local candidates that are looked up
     checkList : [PairId -> Pair],               \* of the pairs in remoteCandidates
     nominated : PairId \cup {NoPair},
     nominating : BOOLEAN,
     checkListDone : BOOLEAN,
     checkListState : SUBSET {"ICE_COMPLETED", "ICE_FAILED"},  \* put and not got yet
     connect : {"idle", "scheduling", "waiting", "returned", "raised"},
     state : {"completed", "connected", "closed"},
     sockets : SUBSET Path]                      \* protocols that are open

TypeOK ==
    /\ paths \subseteq Path
    /\ ice \in [Endpoint -> Connection]
    /\ requests \subseteq Request
    /\ tieBreaker \in Endpoint
    /\ offers \subseteq Endpoint
    /\ moreOffers \in 0 .. MaxOffers
    /\ verified \in [Endpoint -> SUBSET Path]

FreshPair == [state |-> "WAITING", nominated |-> FALSE, remoteNominated |-> FALSE,
              check |-> "none", answers |-> {}]

Signalled(path) == [path |-> path, kind |-> "signalled"]
Reflexive(path) == [path |-> path, kind |-> "reflexive"]

Init ==
    /\ \E s \in Scenarios :
          /\ paths = s.paths
          /\ ice = [e \in Endpoint |->
                 [iceControlling |-> e = Offerer, remoteParams |-> e = Answerer,
                  remoteCandidates |-> IF e \in s.late THEN {} ELSE {Signalled(p) : p \in s.paths},
                  remoteCandidatesEnd |-> e \notin s.late, lookups |-> {},
                  checkList |-> [pr \in PairId |-> FreshPair],
                  nominated |-> NoPair, nominating |-> FALSE, checkListDone |-> FALSE,
                  checkListState |-> {}, connect |-> "idle", state |-> "completed",
                  sockets |-> s.paths]]
          /\ moreOffers = s.offers
    /\ requests = {}
    /\ tieBreaker \in Endpoint
    /\ offers = {}
    /\ verified = [e \in Endpoint |-> {}]

-----------------------------------------------------------------------------
(* The functions of the class, as what they make of a Connection c *)

\* Variant: connect() goes on with any result.
ResumeWithAny(c) ==
    IF c.connect = "waiting" /\ c.checkListState # {}
    THEN [c EXCEPT !.checkListState = {}, !.connect = "returned", !.state = "connected"] ELSE c

\* connect() at checkListState.get(): it goes on with ICE_COMPLETED and gets once more
\* after ICE_FAILED.
Resume(c) ==
    IF c.connect # "waiting" THEN c
    ELSE IF "ICE_COMPLETED" \in c.checkListState
         THEN [c EXCEPT !.checkListState = {}, !.connect = "returned", !.state = "connected"]
         ELSE [c EXCEPT !.checkListState = {}]

\* Variant: what is put while nobody waits is lost.
PutForWaiter(c, result) ==
    IF c.connect = "waiting"
    THEN Resume([c EXCEPT !.checkListState = @ \cup {result}]) ELSE c

\* checkListState.put()
Put(c, result) == Resume([c EXCEPT !.checkListState = @ \cup {result}])

\* checkStart up to its request; buildRequest reads the role.
CheckStart(c, pr) ==
    [c EXCEPT !.checkList[pr] =
        [@ EXCEPT !.state = "IN_PROGRESS", !.answers = {},
                  !.check = IF c.iceControlling THEN "controlling" ELSE "controlled"]]

\* The first nomination fails what has not been checked.
Nominate(c, pr) ==
    [c EXCEPT !.nominated = pr, !.nominating = FALSE,
              !.checkList = [q \in PairId |->
                  IF @[q].state = "WAITING" /\ q \in c.remoteCandidates
                  THEN [@[q] EXCEPT !.state = "FAILED"] ELSE @[q]]]

\* checkComplete
CheckComplete(c, pr) ==
    LET succeeded == c.checkList[pr].state = "SUCCEEDED"
        d == IF succeeded /\ c.checkList[pr].nominated /\ c.nominated = NoPair
             THEN Nominate(c, pr) ELSE c
        Some(states) == \E q \in d.remoteCandidates : d.checkList[q].state \in states
    IN  CASE succeeded /\ d.nominated # NoPair ->
               IF d.checkListDone THEN d
               ELSE Put([d EXCEPT !.checkListDone = TRUE], "ICE_COMPLETED")
          [] (~succeeded \/ d.nominated = NoPair) /\ ~d.checkListDone
               /\ ~Some({"WAITING", "IN_PROGRESS"})
               /\ (d.iceControlling \/ ~Some({"SUCCEEDED"})) ->
               Put(d, "ICE_FAILED")
          [] OTHER -> d

\* The end of checkStart, with the state it leaves and whether the pair is nominated.
CheckEnd(c, pr, state, nominated) ==
    LET p == c.checkList[pr]
        q == [p EXCEPT !.state = state, !.check = "none", !.answers = {},
                       !.nominated = p.nominated \/ nominated]
    IN  CheckComplete([c EXCEPT !.checkList[pr] = q], pr)

\* checkIncoming: the remote candidate that comes first in the list has the pair, and
\* an unknown one is learned and paired.
Incoming(c, path) ==
    IF Reflexive(path) \notin c.remoteCandidates /\ Signalled(path) \in c.remoteCandidates
    THEN Signalled(path) ELSE Reflexive(path)

Triggered(c, path) ==
    LET pr == Incoming(c, path)
        known == [c EXCEPT !.remoteCandidates = @ \cup {pr}]
    IN  IF c.checkList[pr].state \in {"WAITING", "FAILED"} THEN CheckStart(known, pr) ELSE known

\* Variant: USE-CANDIDATE counts before the check of this end has succeeded.
CheckIncomingAtOnce(c, path, useCandidate) ==
    LET pr == Incoming(c, path)
        d == Triggered(c, path)
        told == [d EXCEPT !.checkList[pr].remoteNominated = TRUE]
    IN  IF useCandidate /\ ~c.iceControlling THEN CheckEnd(told, pr, "SUCCEEDED", TRUE) ELSE d

CheckIncoming(c, path, useCandidate) ==
    LET pr == Incoming(c, path)
        d == Triggered(c, path)
        told == [d EXCEPT !.checkList[pr].remoteNominated = TRUE]
    IN  IF ~useCandidate \/ c.iceControlling THEN d
        ELSE IF told.checkList[pr].state = "SUCCEEDED"
             THEN CheckComplete([told EXCEPT !.checkList[pr].nominated = TRUE], pr)
             ELSE told

\* The requests of the transactions of a connection; sent again, they change nothing.
Sent(e, c) ==
    {[from |-> e, path |-> pr.path, controlling |-> c.checkList[pr].check # "controlled"] :
        pr \in {q \in c.remoteCandidates : c.checkList[q].check # "none"}}

Become(e, c) ==
    /\ ice' = [ice EXCEPT ![e] = c]
    /\ requests' = requests \cup Sent(e, c)

-----------------------------------------------------------------------------
(* connect() *)

\* connect() up to its loop; for the offerer with the answer, which brings the remote
\* parameters.  The pairs of the known candidates exist already.
Connect(e) ==
    /\ ice[e].connect = "idle" /\ ice[e].state # "closed"
    /\ ice' = [ice EXCEPT ![e].connect = "scheduling", ![e].remoteParams = TRUE]
    /\ UNCHANGED <<paths, requests, tieBreaker, offers, moreOffers, verified>>

Waiting(c) == {pr \in c.remoteCandidates : c.checkList[pr].state = "WAITING"}

\* candidatePairPriority, where a reflexive candidate ranks below the signalled one.
Priority(pr) == 2 * pr.path + IF pr.kind = "signalled" THEN 1 ELSE 0

\* The first waiting pair of the check list: sortCandidatePairs sorts it from the lowest
\* priority up.
FirstWaiting(c) ==
    CHOOSE pr \in Waiting(c) : \A q \in Waiting(c) : Priority(pr) <= Priority(q)

\* schedulingChecks is false, or the connection is closed: go on to wait for a result,
\* unless the check list is empty.
LeaveLoop(c) ==
    IF c.remoteCandidates = {} THEN [c EXCEPT !.connect = "raised"]
    ELSE Resume([c EXCEPT !.connect = "waiting"])

\* Variant: the end of candidates is enough to leave the loop.
ScheduleUntilEnd(e) ==
    LET c == ice[e]
    IN  /\ c.connect = "scheduling"
        /\ \/ /\ c.state # "closed" /\ ~c.remoteCandidatesEnd /\ Waiting(c) # {}
              /\ Become(e, CheckStart(c, FirstWaiting(c)))
           \/ /\ c.state = "closed" \/ c.remoteCandidatesEnd \/ c.checkListDone
              /\ Become(e, LeaveLoop(c))
    /\ UNCHANGED <<paths, tieBreaker, offers, moreOffers, verified>>

\* One turn of the loop, every 20 ms.
Schedule(e) ==
    LET c == ice[e]
    IN  /\ c.connect = "scheduling"
        /\ \/ /\ c.state # "closed" /\ Waiting(c) # {}
              /\ Become(e, CheckStart(c, FirstWaiting(c)))
           \/ /\ \/ c.state = "closed"
                 \/ Waiting(c) = {} /\ (c.remoteCandidatesEnd \/ c.checkListDone)
              /\ Become(e, LeaveLoop(c))
    /\ UNCHANGED <<paths, tieBreaker, offers, moreOffers, verified>>

-----------------------------------------------------------------------------
(* Signalling *)

\* addRemoteCandidate, for a candidate of a description or a trickled one that has an
\* address.  A candidate that comes when the protocols are gone has no pair.
AddRemoteCandidate(e) ==
    /\ ~ice[e].remoteCandidatesEnd /\ ice[e].sockets # {}
    /\ \E path \in paths :
           ice' = [ice EXCEPT ![e].remoteCandidates = @ \cup {Signalled(path)}]
    /\ UNCHANGED <<paths, requests, tieBreaker, offers, moreOffers, verified>>

\* addRemoteCandidate up to the await, for a candidate whose host is a .local name.
LookUpCandidate(e) ==
    /\ ~ice[e].remoteCandidatesEnd /\ ice[e].state # "closed"
    /\ \E path \in paths : ice' = [ice EXCEPT ![e].lookups = @ \cup {path}]
    /\ UNCHANGED <<paths, requests, tieBreaker, offers, moreOffers, verified>>

\* addRemoteCandidate after the await.  What has happened in the meantime, the end of
\* candidates included, is not asked.
CandidateFound(e) ==
    /\ \E path \in ice[e].lookups :
           ice' = [ice EXCEPT ![e].lookups = @ \ {path},
                              ![e].remoteCandidates =
                                  IF ice[e].sockets = {} THEN @ ELSE @ \cup {Signalled(path)}]
    /\ UNCHANGED <<paths, requests, tieBreaker, offers, moreOffers, verified>>

\* The name is unknown, or the thread that looks it up has ended after another one.
LookupFails(e) ==
    /\ \E path \in ice[e].lookups : ice' = [ice EXCEPT ![e].lookups = @ \ {path}]
    /\ UNCHANGED <<paths, requests, tieBreaker, offers, moreOffers, verified>>

\* addRemoteCandidate(undefined), for a description with a=end-of-candidates: all of its
\* candidates went to addRemoteCandidate just before, and those with a name still wait for
\* their address.  A connection that is closed looks up no name.
EndOfCandidates(e) ==
    /\ \A path \in paths :
           Signalled(path) \in ice[e].remoteCandidates \/ path \in ice[e].lookups
               \/ ice[e].state = "closed"
    /\ ice' = [ice EXCEPT ![e].remoteCandidatesEnd = TRUE]
    /\ UNCHANGED <<paths, requests, tieBreaker, offers, moreOffers, verified>>

\* setLocalDescription with one more offer, which takes the controlling role.
Offer(e) ==
    /\ ice[e].connect # "idle"
    /\ e \notin offers /\ moreOffers > 0
    /\ moreOffers' = moreOffers - 1
    /\ offers' = offers \cup {e}
    /\ ice' = [ice EXCEPT ![e].iceControlling = TRUE]
    /\ UNCHANGED <<paths, requests, tieBreaker, verified>>

\* setLocalDescription with the answer, unless this end has an offer of its own.
Answer(e) ==
    /\ ice[e].connect # "idle"
    /\ e \notin offers /\ Peer(e) \in offers
    /\ offers' = offers \ {Peer(e)}
    /\ ice' = [ice EXCEPT ![e].iceControlling = FALSE]
    /\ UNCHANGED <<paths, requests, tieBreaker, moreOffers, verified>>

-----------------------------------------------------------------------------
(* STUN *)

\* requestReceived.  An error 400 to a request that comes before the remote parameters
\* ends the check as a missing answer does.
Respond(e, m, answers, c) ==
    /\ \/ \E pr \in {q \in ice[m.from].remoteCandidates : q.path = m.path} :
             LET check == ice[m.from].checkList[pr].check
             IN  /\ check # "none" /\ m.controlling = (check # "controlled")
                 /\ ice' = [ice EXCEPT ![e] = c,
                                       ![m.from].checkList[pr].answers = @ \cup answers]
       \/ ice' = [ice EXCEPT ![e] = c]
    /\ requests' = requests \cup Sent(e, c)

\* Variant: the tie-breakers are compared the wrong way round by the controlling end.
ConflictLostByGreater(e) == e = tieBreaker

ConflictLost(e) == e # tieBreaker

ReceiveRequest(e) ==
    /\ \E m \in requests :
          LET c == ice[e]
          IN  /\ m.from = Peer(e) /\ m.path \in c.sockets /\ c.remoteParams
              /\ CASE c.iceControlling /\ m.controlling /\ ~ConflictLost(e) ->
                        Respond(e, m, {"role conflict"}, c)
                   [] c.iceControlling /\ m.controlling /\ ConflictLost(e) ->
                        Respond(e, m, {"success"},
                                CheckIncoming([c EXCEPT !.iceControlling = FALSE], m.path, TRUE))
                   [] ~c.iceControlling /\ ~m.controlling /\ ConflictLost(e) ->
                        Respond(e, m, {"role conflict", "success"},
                                CheckIncoming(c, m.path, FALSE))
                   [] ~c.iceControlling /\ ~m.controlling /\ ~ConflictLost(e) ->
                        Respond(e, m, {}, [c EXCEPT !.iceControlling = TRUE])
                   [] OTHER ->
                        Respond(e, m, {"success"}, CheckIncoming(c, m.path, m.controlling))
    /\ UNCHANGED <<paths, tieBreaker, offers, moreOffers, verified>>

UnderWay(e) == {pr \in ice[e].remoteCandidates :
                   ice[e].checkList[pr].check # "none" /\ pr.path \in ice[e].sockets}

\* A success: nominated by this end or by the other, or else, where this end has
\* become controlling in the meantime, nominated by a second request.
ReceiveSuccess(e) ==
    /\ \E pr \in UnderWay(e) :
          LET c == ice[e]
              p == c.checkList[pr]
          IN  /\ "success" \in p.answers
              /\ verified' = [verified EXCEPT ![e] = @ \cup {pr.path}]
              /\ CASE p.check # "controlled" \/ p.remoteNominated ->
                        Become(e, CheckEnd(c, pr, "SUCCEEDED", TRUE))
                   [] p.check = "controlled" /\ ~p.remoteNominated
                        /\ c.iceControlling /\ ~c.nominating ->
                        Become(e, [c EXCEPT !.nominating = TRUE,
                                            !.checkList[pr].check = "nominating",
                                            !.checkList[pr].answers = {}])
                   [] OTHER -> Become(e, CheckEnd(c, pr, "SUCCEEDED", FALSE))
    /\ UNCHANGED <<paths, tieBreaker, offers, moreOffers>>

\* Error 487 to a check: take the role it did not go out with, and check again.
ReceiveConflict(e) ==
    /\ \E pr \in UnderWay(e) :
          LET p == ice[e].checkList[pr]
              c == [ice[e] EXCEPT !.iceControlling = p.check = "controlled"]
          IN  /\ "role conflict" \in p.answers
              /\ p.check # "nominating"
              /\ Become(e, CheckStart(c, pr))
    /\ UNCHANGED <<paths, tieBreaker, offers, moreOffers, verified>>

\* No answer to the last retransmission, an answer from another address, error 400, or
\* error 487 to the nomination.
CheckFails(e) ==
    /\ \E pr \in UnderWay(e) : Become(e, CheckEnd(ice[e], pr, "FAILED", FALSE))
    /\ UNCHANGED <<paths, tieBreaker, offers, moreOffers, verified>>

-----------------------------------------------------------------------------
(* close(): the sockets close one after another, and what the others receive is *)
(* handled in between.                                                          *)

Close(e) ==
    /\ ice[e].state # "closed"
    /\ LET c == [ice[e] EXCEPT !.state = "closed"]
           d == IF c.checkListDone THEN c ELSE Put(c, "ICE_FAILED")
       IN  ice' = [ice EXCEPT ![e] = [d EXCEPT !.nominated = NoPair, !.sockets = @ \ {1}]]
    /\ UNCHANGED <<paths, requests, tieBreaker, offers, moreOffers, verified>>

CloseSocket(e) ==
    /\ 1 \notin ice[e].sockets
    /\ \E path \in ice[e].sockets :
          /\ \A p \in ice[e].sockets : path <= p
          /\ ice' = [ice EXCEPT ![e].sockets = @ \ {path}]
    /\ UNCHANGED <<paths, requests, tieBreaker, offers, moreOffers, verified>>

Next ==
    \E e \in Endpoint :
        \/ Connect(e)
        \/ Schedule(e)
        \/ AddRemoteCandidate(e)
        \/ LookUpCandidate(e)
        \/ CandidateFound(e)
        \/ LookupFails(e)
        \/ EndOfCandidates(e)
        \/ Offer(e)
        \/ Answer(e)
        \/ ReceiveRequest(e)
        \/ ReceiveSuccess(e)
        \/ ReceiveConflict(e)
        \/ CheckFails(e)
        \/ Close(e)
        \/ CloseSocket(e)

Spec == Init /\ [][Next]_vars

\* The loop of connect() goes on and every transaction ends, for its timers run.  Nothing
\* is assumed of the network.
FairSpec == Spec /\ \A e \in Endpoint : WF_vars(Schedule(e)) /\ WF_vars(CheckFails(e))

-----------------------------------------------------------------------------
(* Properties *)

\* What an end sends its data on was checked by itself, and USE-CANDIDATE was heard for it
\* at one of the ends, through changes of the role and late candidates (checkStart,
\* checkIncoming).
NominationIsEarned ==
    \A e \in Endpoint : ice[e].nominated # NoPair =>
        LET path == ice[e].nominated.path
        IN  /\ path \in verified[e]
            /\ \E f \in Endpoint : \E pr \in ice[f].remoteCandidates :
                  pr.path = path /\ ice[f].checkList[pr].remoteNominated

\* connect() does not stop scheduling checks too early: when it goes on to wait for a
\* result it leaves no pair behind that waits for a check, and afterwards, when nobody would
\* start the check, no pair begins to wait, unless a name is found late (connect,
\* addRemoteCandidate, checkIncoming).
WaitingIsServed ==
    [][\A e \in Endpoint :
          ice'[e].connect = "waiting" /\ ice'[e].state # "closed" /\ ~ice'[e].checkListDone =>
              \/ Waiting(ice'[e]) \subseteq
                     IF ice[e].connect = "waiting" THEN Waiting(ice[e]) ELSE {}
              \/ CandidateFound(e)]_vars

\* A nomination is not lost on its way to connect(), whether it comes before connect()
\* is called, between two turns of its loop or while it waits (checkListState).
CompletionIsKept ==
    \A e \in Endpoint : ice[e].nominated # NoPair =>
        ice[e].connect = "returned" \/ "ICE_COMPLETED" \in ice[e].checkListState

\* A connection that says it is connected, and was not closed, can send.
ConnectedHasPath ==
    \A e \in Endpoint :
        ice[e].state = "connected" /\ 1 \in ice[e].sockets => ice[e].nominated # NoPair

\* A role conflict ends for the greater tie-breaker, whatever requests and errors are under
\* way: only an answer takes the controlling role from that end, and only an offer gives it
\* to the other (requestReceived, checkStart).
GreaterControls ==
    [][\A e \in Endpoint : ice'[e].iceControlling # ice[e].iceControlling =>
          IF ice'[e].iceControlling THEN e = tieBreaker \/ Offer(e)
          ELSE e # tieBreaker \/ Answer(e)]_vars

\* What the comment in connect() says: it returns if a pair was nominated, and raises an
\* exception otherwise.  An end that is closed is left aside.
ConnectEnds ==
    \A e \in Endpoint :
        ice[e].connect \in {"scheduling", "waiting"}
            ~> ice[e].connect \in {"returned", "raised"} \/ ice[e].state = "closed"

-----------------------------------------------------------------------------
(* The inductive invariant behind the safety properties *)

\* The paths for which USE-CANDIDATE was heard at one of the ends.
Heard ==
    {path \in Path : \E f \in Endpoint : \E pr \in ice[f].remoteCandidates :
                        pr.path = path /\ ice[f].checkList[pr].remoteNominated}

\* What the state, the flags and the answers of a pair show: that its path was checked
\* by this end, that a nomination of it was heard, and which end has the greater
\* tie-breaker.
PairShows(c, pr, checked, heard, greater) ==
    LET p == c.checkList[pr]
    IN  /\ p.state = "SUCCEEDED" => pr.path \in checked
        /\ p.nominated => pr.path \in heard
        /\ p.remoteNominated => pr \in c.remoteCandidates /\ pr.path \in heard
        /\ "success" \in p.answers /\ p.check \in {"controlling", "nominating"}
               => pr.path \in heard
        /\ "role conflict" \in p.answers /\ p.check \in {"controlling", "nominating"}
               => ~greater
        /\ "role conflict" \in p.answers /\ p.check = "controlled" => greater

\* Where the result of the checks is on its way to connect().
ResultIsKept(c) ==
    /\ c.checkListDone => c.connect = "returned" \/ "ICE_COMPLETED" \in c.checkListState
    /\ (c.state = "connected" \/ "ICE_COMPLETED" \in c.checkListState) /\ 1 \in c.sockets
          => c.nominated # NoPair
    /\ c.connect = "waiting" =>
          c.state = "closed" \/ c.checkListDone \/ c.remoteCandidatesEnd

Sound(c, checked, heard, greater) ==
    /\ \A pr \in PairId : PairShows(c, pr, checked, heard, greater)
    /\ c.nominated # NoPair => c.nominated.path \in checked \cap heard
    /\ ResultIsKept(c)

IInv ==
    /\ TypeOK
    /\ \A e \in Endpoint :
          /\ Sound(ice[e], verified[e], Heard, e = tieBreaker)
          /\ ice[e].nominated # NoPair => ice[e].checkListDone
=============================================================================
