----------------------------- MODULE IceChecksProofs -----------------------------
(* Theorems of IceChecks, for every number of paths and offers and all scenarios. *)
(* First what each function makes of one Connection, then one lemma per action.   *)
EXTENDS IceChecks, TLAPS, WellFoundedInduction

\* A connection as the invariant wants it.
Good(c, checked, heard, greater) ==
    /\ c \in Connection
    /\ Sound(c, checked, heard, greater)
    /\ c.nominated # NoPair => c.checkListDone

\* What no step of the class takes back.
Hears(c, d) ==
    /\ c.remoteCandidates \subseteq d.remoteCandidates
    /\ \A pr \in PairId : c.checkList[pr].remoteNominated => d.checkList[pr].remoteNominated

\* What most functions add: no pair begins to wait, nor does connect().
Grows(c, d) ==
    /\ Hears(c, d)
    /\ Waiting(d) \subseteq Waiting(c)
    /\ d.connect = "waiting" => c.connect = "waiting"

\* A connection that waits for a result has left no pair behind, and adds none.
LeavesNone(c, d) ==
    d.connect = "waiting" /\ d.state # "closed" /\ ~d.checkListDone =>
        Waiting(d) \subseteq IF c.connect = "waiting" THEN Waiting(c) ELSE {}

\* What most leave as it is.
Keeps(c, d) == d.iceControlling = c.iceControlling /\ Grows(c, d)

LEMMA GrowingIsRight == \A c, d : Grows(c, d) => Hears(c, d) /\ LeavesNone(c, d)
    BY DEF Grows, LeavesNone

-----------------------------------------------------------------------------
(* Pairs *)

LEMMA PairIds ==
    /\ NoPair \notin PairId
    /\ \A pr \in PairId : pr.path \in Path
    /\ \A path \in Path : Signalled(path) \in PairId /\ Signalled(path).path = path
    /\ \A path \in Path : Reflexive(path) \in PairId /\ Reflexive(path).path = path
    BY BoundsAssumption DEF NoPair, PairId, Path, Kind, Signalled, Reflexive

\* One pair of the check list is another.
WithPair(c, pr, p) == [c EXCEPT !.checkList[pr] = p]

LEMMA PairChanges ==
    ASSUME NEW c \in Connection, NEW pr \in PairId, NEW p \in Pair
    PROVE  LET d == WithPair(c, pr, p)
           IN  /\ d \in Connection
               /\ d.checkList \in [PairId -> Pair]
               /\ \A q \in PairId : d.checkList[q] = IF q = pr THEN p ELSE c.checkList[q]
               /\ d.iceControlling = c.iceControlling /\ d.remoteParams = c.remoteParams
               /\ d.remoteCandidates = c.remoteCandidates
               /\ d.remoteCandidatesEnd = c.remoteCandidatesEnd /\ d.nominated = c.nominated
               /\ d.nominating = c.nominating /\ d.checkListDone = c.checkListDone
               /\ d.checkListState = c.checkListState /\ d.connect = c.connect
               /\ d.state = c.state /\ d.sockets = c.sockets
    BY DEF Connection, WithPair

\* It leaves a connection good if it shows what it must and does not wait anew.
LEMMA PairSound ==
    ASSUME NEW checked, NEW heard, NEW greater,
           NEW c, Good(c, checked, heard, greater), NEW pr \in PairId, NEW p \in Pair,
           PairShows(WithPair(c, pr, p), pr, checked, heard, greater),
           p.state = "WAITING" => c.checkList[pr].state = "WAITING",
           c.checkList[pr].remoteNominated => p.remoteNominated
    PROVE  /\ Good(WithPair(c, pr, p), checked, heard, greater)
           /\ Keeps(c, WithPair(c, pr, p))
<1> DEFINE d == WithPair(c, pr, p)
<1>1. c \in Connection
    BY DEF Good
<1>2. /\ d \in Connection
      /\ \A q \in PairId : d.checkList[q] = IF q = pr THEN p ELSE c.checkList[q]
      /\ d.iceControlling = c.iceControlling
      /\ d.remoteCandidates = c.remoteCandidates
      /\ d.remoteCandidatesEnd = c.remoteCandidatesEnd /\ d.nominated = c.nominated
      /\ d.checkListDone = c.checkListDone
      /\ d.checkListState = c.checkListState /\ d.connect = c.connect
      /\ d.state = c.state /\ d.sockets = c.sockets
    BY <1>1, PairChanges
<1> HIDE DEF d
<1>3. c.remoteCandidates \subseteq PairId
    BY <1>1 DEF Connection
<1>4. ASSUME NEW q \in PairId
      PROVE  PairShows(d, q, checked, heard, greater)
    <2>1. CASE q = pr
        BY <2>1 DEF d
    <2>2. CASE q # pr
        BY <1>2, <2>2 DEF Good, Sound, PairShows
    <2> QED
        BY <2>1, <2>2
<1>5. Waiting(d) \subseteq Waiting(c)
    BY <1>2, <1>3 DEF Waiting
<1>6. ResultIsKept(d)
    BY <1>2, <1>5 DEF Good, Sound, ResultIsKept
<1> QED
    BY <1>2, <1>4, <1>5, <1>6 DEF Good, Sound, Keeps, Grows, Hears, d

\* A check that starts has no answer.
LEMMA CheckStarts ==
    ASSUME NEW checked, NEW heard, NEW greater,
           NEW c, Good(c, checked, heard, greater), NEW pr \in PairId
    PROVE  /\ Good(CheckStart(c, pr), checked, heard, greater)
           /\ Keeps(c, CheckStart(c, pr))
           /\ CheckStart(c, pr).remoteCandidates = c.remoteCandidates
           /\ CheckStart(c, pr).checkList[pr].state = "IN_PROGRESS"
<1> DEFINE p == [c.checkList[pr] EXCEPT !.state = "IN_PROGRESS", !.answers = {},
                     !.check = IF c.iceControlling THEN "controlling" ELSE "controlled"]
           d == WithPair(c, pr, p)
<1>1. c \in Connection /\ c.checkList[pr] \in Pair
    BY DEF Good, Connection
<1>2. /\ p \in Pair /\ p.state = "IN_PROGRESS" /\ p.answers = {}
      /\ p.nominated = c.checkList[pr].nominated
      /\ p.remoteNominated = c.checkList[pr].remoteNominated
    BY <1>1 DEF Pair, Check
<1>3. CheckStart(c, pr) = d
    BY DEF CheckStart, WithPair
<1> HIDE DEF p
<1>4. d.checkList[pr] = p /\ d.remoteCandidates = c.remoteCandidates
    BY <1>1, <1>2, PairChanges
<1> HIDE DEF d
<1>5. PairShows(d, pr, checked, heard, greater)
    BY <1>2, <1>4 DEF PairShows, Good, Sound
<1> QED
    BY <1>1, <1>2, <1>3, <1>4, <1>5, PairSound DEF d

-----------------------------------------------------------------------------
(* Results *)

\* get() takes ICE_COMPLETED only with the path it stands for.
LEMMA Resumes ==
    ASSUME NEW checked, NEW heard, NEW greater,
           NEW c, Good(c, checked, heard, greater)
    PROVE  Good(Resume(c), checked, heard, greater) /\ Keeps(c, Resume(c))
<1>1. c \in Connection
    BY DEF Good
<1>2. CASE c.connect # "waiting"
    BY <1>2 DEF Resume, Keeps, Grows, Hears
<1>3. CASE c.connect = "waiting"
    <2> DEFINE d == Resume(c)
    <2>1. /\ d \in Connection
          /\ d.checkList = c.checkList /\ d.remoteCandidates = c.remoteCandidates
          /\ d.nominated = c.nominated /\ d.checkListDone = c.checkListDone
          /\ d.iceControlling = c.iceControlling /\ d.sockets = c.sockets
          /\ d.remoteCandidatesEnd = c.remoteCandidatesEnd /\ d.checkListState = {}
          /\ IF "ICE_COMPLETED" \in c.checkListState
             THEN d.connect = "returned" /\ d.state = "connected"
             ELSE d.connect = "waiting" /\ d.state = c.state
        BY <1>1, <1>3 DEF Resume, Connection
    <2> HIDE DEF d
    <2>2. \A q \in PairId : PairShows(d, q, checked, heard, greater)
        BY <2>1 DEF Good, Sound, PairShows
    <2>3. ResultIsKept(d)
        BY <1>3, <2>1 DEF Good, Sound, ResultIsKept, Waiting
    <2> QED
        BY <1>3, <2>1, <2>2, <2>3 DEF Good, Sound, Keeps, Grows, Hears, Waiting, d
<1> QED
    BY <1>2, <1>3

\* put() of ICE_FAILED
LEMMA PutsFailed ==
    ASSUME NEW checked, NEW heard, NEW greater,
           NEW c, Good(c, checked, heard, greater)
    PROVE  Good(Put(c, "ICE_FAILED"), checked, heard, greater) /\ Keeps(c, Put(c, "ICE_FAILED"))
<1> DEFINE d == [c EXCEPT !.checkListState = @ \cup {"ICE_FAILED"}]
<1>1. c \in Connection
    BY DEF Good
<1>2. /\ d \in Connection
      /\ d.checkList = c.checkList /\ d.remoteCandidates = c.remoteCandidates
      /\ d.nominated = c.nominated /\ d.checkListDone = c.checkListDone
      /\ d.iceControlling = c.iceControlling /\ d.sockets = c.sockets
      /\ d.remoteCandidatesEnd = c.remoteCandidatesEnd
      /\ d.checkListState = c.checkListState \cup {"ICE_FAILED"}
      /\ d.connect = c.connect /\ d.state = c.state
    BY <1>1 DEF Connection
<1>3. Put(c, "ICE_FAILED") = Resume(d)
    BY DEF Put
<1> HIDE DEF d
<1>4. \A q \in PairId : PairShows(d, q, checked, heard, greater)
    BY <1>2 DEF Good, Sound, PairShows
<1>5. ResultIsKept(d)
    BY <1>2 DEF Good, Sound, ResultIsKept, Waiting
<1>6. Good(d, checked, heard, greater) /\ Keeps(c, d)
    BY <1>2, <1>4, <1>5 DEF Good, Sound, Keeps, Grows, Hears, Waiting
<1>7. Good(Resume(d), checked, heard, greater) /\ Keeps(d, Resume(d))
    BY <1>6, Resumes
<1> QED
    BY <1>2, <1>3, <1>6, <1>7 DEF Keeps, Grows, Hears

\* The nomination of a pair that was checked and heard of, and its result.
LEMMA Nominates ==
    ASSUME NEW checked, NEW heard, NEW greater,
           NEW c, Good(c, checked, heard, greater), NEW pr \in PairId,
           pr.path \in checked \cap heard
    PROVE  /\ Nominate(c, pr) \in Connection /\ Keeps(c, Nominate(c, pr))
           /\ Sound(Nominate(c, pr), checked, heard, greater)
           /\ Nominate(c, pr).nominated = pr
           /\ Nominate(c, pr).checkListDone = c.checkListDone
<1> DEFINE list == [q \in PairId |->
                       IF c.checkList[q].state = "WAITING" /\ q \in c.remoteCandidates
                       THEN [c.checkList[q] EXCEPT !.state = "FAILED"] ELSE c.checkList[q]]
           d == Nominate(c, pr)
<1>1. c \in Connection /\ c.checkList \in [PairId -> Pair]
    BY DEF Good, Connection
<1>2. list \in [PairId -> Pair]
    BY <1>1 DEF Pair
<1>3. \A q \in PairId : /\ list[q].state = "SUCCEEDED" => c.checkList[q].state = "SUCCEEDED"
                        /\ list[q].state = "WAITING" => c.checkList[q].state = "WAITING"
                        /\ list[q].nominated = c.checkList[q].nominated
                        /\ list[q].remoteNominated = c.checkList[q].remoteNominated
                        /\ list[q].check = c.checkList[q].check
                        /\ list[q].answers = c.checkList[q].answers
    BY <1>1 DEF Pair
<1>4. d = [c EXCEPT !.nominated = pr, !.nominating = FALSE, !.checkList = list]
    BY DEF Nominate
<1> HIDE DEF list, d
<1>5. /\ d \in Connection
      /\ d.checkList = list /\ d.remoteCandidates = c.remoteCandidates
      /\ d.nominated = pr /\ d.checkListDone = c.checkListDone
      /\ d.iceControlling = c.iceControlling /\ d.sockets = c.sockets
      /\ d.remoteCandidatesEnd = c.remoteCandidatesEnd /\ d.checkListState = c.checkListState
      /\ d.connect = c.connect /\ d.state = c.state
    BY <1>1, <1>2, <1>4 DEF Connection
<1>6. ASSUME NEW q \in PairId PROVE PairShows(d, q, checked, heard, greater)
    <2>1. PairShows(c, q, checked, heard, greater)
        BY DEF Good, Sound
    <2> QED
        BY <1>3, <1>5, <2>1 DEF PairShows
<1>7. Waiting(d) \subseteq Waiting(c)
    BY <1>1, <1>3, <1>5 DEF Waiting, Connection
<1>8. ResultIsKept(d)
    BY <1>5, <1>7, PairIds DEF Good, Sound, ResultIsKept
<1> QED
    BY <1>3, <1>5, <1>6, <1>7, <1>8 DEF Sound, Keeps, Grows, Hears, d

\* checkComplete
LEMMA CheckCompletes ==
    ASSUME NEW checked, NEW heard, NEW greater,
           NEW c, Good(c, checked, heard, greater), NEW pr \in PairId
    PROVE  /\ Good(CheckComplete(c, pr), checked, heard, greater)
           /\ Keeps(c, CheckComplete(c, pr))
<1> DEFINE succeeded == c.checkList[pr].state = "SUCCEEDED"
           d == IF succeeded /\ c.checkList[pr].nominated /\ c.nominated = NoPair
                THEN Nominate(c, pr) ELSE c
<1>1. /\ d \in Connection /\ Keeps(c, d) /\ Sound(d, checked, heard, greater)
      /\ d.checkListDone = c.checkListDone
      /\ ~(succeeded /\ d.nominated # NoPair) => d = c
    <2>1. CASE succeeded /\ c.checkList[pr].nominated /\ c.nominated = NoPair
        <3>1. pr.path \in checked \cap heard
            BY <2>1 DEF Good, Sound, PairShows
        <3> QED
            BY <2>1, <3>1, Nominates, PairIds
    <2>2. CASE ~(succeeded /\ c.checkList[pr].nominated /\ c.nominated = NoPair)
        BY <2>2 DEF Good, Keeps, Grows, Hears
    <2> QED
        BY <2>1, <2>2
<1>2. CASE succeeded /\ d.nominated # NoPair /\ d.checkListDone
    <2>1. CheckComplete(c, pr) = d
        BY <1>2 DEF CheckComplete
    <2> QED
        BY <1>1, <1>2, <2>1 DEF Good
<1>3. CASE succeeded /\ d.nominated # NoPair /\ ~d.checkListDone
    <2> DEFINE e == [d EXCEPT !.checkListDone = TRUE,
                              !.checkListState = @ \cup {"ICE_COMPLETED"}]
    <2>1. CheckComplete(c, pr) = Put([d EXCEPT !.checkListDone = TRUE], "ICE_COMPLETED")
        BY <1>3 DEF CheckComplete
    <2> HIDE DEF d
    <2>2. Put([d EXCEPT !.checkListDone = TRUE], "ICE_COMPLETED") = Resume(e)
        BY <1>1 DEF Put, Connection
    <2>3. /\ e \in Connection
          /\ e.checkList = d.checkList /\ e.remoteCandidates = d.remoteCandidates
          /\ e.nominated = d.nominated /\ e.checkListDone
          /\ e.iceControlling = d.iceControlling /\ e.sockets = d.sockets
          /\ e.remoteCandidatesEnd = d.remoteCandidatesEnd
          /\ e.checkListState = d.checkListState \cup {"ICE_COMPLETED"}
          /\ e.connect = d.connect /\ e.state = d.state
        BY <1>1 DEF Connection
    <2> HIDE DEF e
    <2>4. ASSUME NEW q \in PairId PROVE PairShows(e, q, checked, heard, greater)
        <3>1. PairShows(d, q, checked, heard, greater)
            BY <1>1 DEF Sound
        <3> QED
            BY <2>3, <3>1 DEF PairShows
    <2>5. ResultIsKept(e)
        BY <1>3, <2>3 DEF ResultIsKept
    <2>6. Good(e, checked, heard, greater) /\ Keeps(c, e)
        BY <1>1, <2>3, <2>4, <2>5 DEF Good, Sound, Keeps, Grows, Hears, Waiting
    <2>7. Good(Resume(e), checked, heard, greater) /\ Keeps(e, Resume(e))
        BY <2>6, Resumes
    <2> QED
        BY <2>1, <2>2, <2>6, <2>7 DEF Keeps, Grows, Hears
<1>4. CASE ~(succeeded /\ d.nominated # NoPair)
    <2>1. d = c
        BY <1>1, <1>4
    <2>2. CheckComplete(c, pr) \in {c, Put(c, "ICE_FAILED")}
        BY <1>4, <2>1 DEF CheckComplete
    <2>3. Good(Put(c, "ICE_FAILED"), checked, heard, greater) /\ Keeps(c, Put(c, "ICE_FAILED"))
        BY PutsFailed
    <2> QED
        BY <2>2, <2>3 DEF Keeps, Grows, Hears
<1> QED
    BY <1>2, <1>3, <1>4

\* The end of checkStart.
LEMMA CheckEnds ==
    ASSUME NEW checked, NEW heard, NEW greater,
           NEW c, Good(c, checked, heard, greater), NEW pr \in PairId,
           NEW state \in {"SUCCEEDED", "FAILED"}, state = "SUCCEEDED" => pr.path \in checked,
           NEW nominated \in BOOLEAN, nominated => pr.path \in heard
    PROVE  /\ Good(CheckEnd(c, pr, state, nominated), checked, heard, greater)
           /\ Keeps(c, CheckEnd(c, pr, state, nominated))
<1> DEFINE q == c.checkList[pr]
           p == [q EXCEPT !.state = state, !.check = "none", !.answers = {},
                          !.nominated = q.nominated \/ nominated]
           d == WithPair(c, pr, p)
<1>1. c \in Connection /\ q \in Pair
    BY DEF Good, Connection
<1>2. PairShows(c, pr, checked, heard, greater)
    BY DEF Good, Sound
<1>3. CheckEnd(c, pr, state, nominated) = CheckComplete(d, pr)
    BY DEF CheckEnd, WithPair
<1>4. /\ p \in Pair /\ p.state = state /\ p.answers = {}
      /\ p.nominated = (q.nominated \/ nominated) /\ p.remoteNominated = q.remoteNominated
    BY <1>1 DEF Pair, Check
<1> HIDE DEF p
<1>5. d.checkList[pr] = p /\ d.remoteCandidates = c.remoteCandidates
    BY <1>1, <1>4, PairChanges
<1> HIDE DEF d
<1>6. PairShows(d, pr, checked, heard, greater)
    BY <1>2, <1>4, <1>5 DEF PairShows
<1>7. Good(d, checked, heard, greater) /\ Keeps(c, d)
    BY <1>4, <1>6, PairSound DEF d
<1>8. Good(CheckComplete(d, pr), checked, heard, greater) /\ Keeps(d, CheckComplete(d, pr))
    BY <1>7, CheckCompletes
<1> QED
    BY <1>3, <1>7, <1>8 DEF Keeps, Grows, Hears

-----------------------------------------------------------------------------
(* A request of the peer *)

LEMMA Triggers ==
    ASSUME NEW checked, NEW heard, NEW greater,
           NEW c, Good(c, checked, heard, greater), NEW path \in Path
    PROVE  /\ Incoming(c, path) \in PairId /\ Incoming(c, path).path = path
           /\ Good(Triggered(c, path), checked, heard, greater)
           /\ Keeps(c, Triggered(c, path))
           /\ Incoming(c, path) \in Triggered(c, path).remoteCandidates
<1> DEFINE pr == Incoming(c, path)
           k == [c EXCEPT !.remoteCandidates = @ \cup {pr}]
           d == Triggered(c, path)
<1>1. pr \in PairId /\ pr.path = path
    BY PairIds DEF Incoming
<1> HIDE DEF pr
<1>2. c \in Connection
    BY DEF Good
<1>3. /\ k \in Connection /\ k.remoteCandidates = c.remoteCandidates \cup {pr}
      /\ k.checkList = c.checkList /\ k.nominated = c.nominated
      /\ k.checkListDone = c.checkListDone /\ k.iceControlling = c.iceControlling
      /\ k.sockets = c.sockets /\ k.remoteCandidatesEnd = c.remoteCandidatesEnd
      /\ k.checkListState = c.checkListState /\ k.connect = c.connect /\ k.state = c.state
    BY <1>1, <1>2 DEF Connection, pr
<1>4. d = IF c.checkList[pr].state \in {"WAITING", "FAILED"} THEN CheckStart(k, pr) ELSE k
    BY DEF Triggered, pr
<1> HIDE DEF k, d
<1>5. ASSUME NEW q \in PairId PROVE PairShows(k, q, checked, heard, greater)
    <2>1. PairShows(c, q, checked, heard, greater)
        BY DEF Good, Sound
    <2> QED
        BY <1>3, <2>1 DEF PairShows
<1>6. CASE k.checkList[pr].state \in {"WAITING", "FAILED"}
    <2> DEFINE p == [k.checkList[pr] EXCEPT !.state = "IN_PROGRESS", !.answers = {},
                         !.check = IF k.iceControlling THEN "controlling" ELSE "controlled"]
    <2>1. k.checkList[pr] \in Pair
        BY <1>1, <1>3 DEF Connection
    <2>2. /\ p \in Pair /\ p.state = "IN_PROGRESS" /\ p.answers = {}
          /\ p.nominated = k.checkList[pr].nominated
          /\ p.remoteNominated = k.checkList[pr].remoteNominated
        BY <2>1 DEF Pair, Check
    <2>3. d = WithPair(k, pr, p)
        BY <1>3, <1>4, <1>6 DEF CheckStart, WithPair
    <2> HIDE DEF p
    <2>4. /\ d \in Connection
          /\ \A q \in PairId : d.checkList[q] = IF q = pr THEN p ELSE k.checkList[q]
          /\ d.iceControlling = k.iceControlling
          /\ d.remoteCandidates = k.remoteCandidates
          /\ d.remoteCandidatesEnd = k.remoteCandidatesEnd /\ d.nominated = k.nominated
          /\ d.checkListDone = k.checkListDone
          /\ d.checkListState = k.checkListState /\ d.connect = k.connect
          /\ d.state = k.state /\ d.sockets = k.sockets
        BY <1>1, <1>3, <2>2, <2>3, PairChanges
    <2>5. ASSUME NEW q \in PairId PROVE PairShows(d, q, checked, heard, greater)
        BY <1>5, <2>2, <2>4 DEF PairShows
    <2>6. Waiting(d) \subseteq Waiting(c)
        BY <1>2, <1>3, <2>2, <2>4 DEF Waiting, Connection
    <2>7. ResultIsKept(d)
        BY <1>3, <2>4, <2>6 DEF Good, Sound, ResultIsKept
    <2>8. Good(d, checked, heard, greater) /\ Keeps(c, d)
        BY <1>1, <1>3, <2>2, <2>4, <2>5, <2>6, <2>7 DEF Good, Sound, Keeps, Grows, Hears
    <2> QED
        BY <1>1, <1>3, <2>4, <2>8 DEF pr, d
<1>7. CASE k.checkList[pr].state \notin {"WAITING", "FAILED"}
    <2>1. d = k
        BY <1>3, <1>4, <1>7
    <2>2. Waiting(d) \subseteq Waiting(c)
        BY <1>3, <1>7, <2>1 DEF Waiting
    <2>3. ResultIsKept(d)
        BY <1>3, <2>1, <2>2 DEF Good, Sound, ResultIsKept
    <2>4. Good(d, checked, heard, greater) /\ Keeps(c, d)
        BY <1>3, <1>5, <2>1, <2>2, <2>3 DEF Good, Sound, Keeps, Grows, Hears
    <2> QED
        BY <1>1, <1>3, <2>1, <2>4 DEF pr, d
<1> QED
    BY <1>6, <1>7

\* checkIncoming, with USE-CANDIDATE only for a path it makes heard.
LEMMA ChecksIncoming ==
    ASSUME NEW checked, NEW heard, NEW greater,
           NEW c, Good(c, checked, heard, greater), NEW path \in Path,
           NEW useCandidate \in BOOLEAN,
           useCandidate /\ ~c.iceControlling => path \in heard
    PROVE  LET d == CheckIncoming(c, path, useCandidate)
           IN  /\ Good(d, checked, heard, greater) /\ Keeps(c, d)
               /\ useCandidate /\ ~c.iceControlling =>
                     /\ Incoming(c, path) \in d.remoteCandidates
                     /\ d.checkList[Incoming(c, path)].remoteNominated
<1> DEFINE pr == Incoming(c, path)
           d == Triggered(c, path)
           told == [d EXCEPT !.checkList[pr].remoteNominated = TRUE]
           s == [told EXCEPT !.checkList[pr].nominated = TRUE]
<1>1. /\ pr \in PairId /\ pr.path = path
      /\ Good(d, checked, heard, greater) /\ Keeps(c, d) /\ pr \in d.remoteCandidates
    BY Triggers
<1>2. CheckIncoming(c, path, useCandidate) =
          IF ~useCandidate \/ c.iceControlling THEN d
          ELSE IF told.checkList[pr].state = "SUCCEEDED" THEN CheckComplete(s, pr) ELSE told
    BY DEF CheckIncoming
<1> HIDE DEF pr, d, told, s
<1>3. CASE ~useCandidate \/ c.iceControlling
    BY <1>1, <1>2, <1>3 DEF Keeps
<1>4. CASE ~(~useCandidate \/ c.iceControlling)
    <2> DEFINE q == d.checkList[pr]
               p == [q EXCEPT !.remoteNominated = TRUE]
               r == [p EXCEPT !.nominated = TRUE]
    <2>1. d \in Connection /\ q \in Pair /\ path \in heard
        BY <1>1, <1>4 DEF Good, Connection
    <2>2. PairShows(d, pr, checked, heard, greater)
        BY <1>1 DEF Good, Sound
    <2>3. /\ p \in Pair /\ p.state = q.state /\ p.answers = q.answers /\ p.check = q.check
          /\ p.nominated = q.nominated /\ p.remoteNominated
        BY <2>1 DEF Pair
    <2>4. told = WithPair(d, pr, p)
        BY DEF WithPair, told
    <2> HIDE DEF p
    <2>5. told.checkList[pr] = p /\ told.remoteCandidates = d.remoteCandidates
        BY <1>1, <2>1, <2>3, <2>4, PairChanges
    <2>6. PairShows(told, pr, checked, heard, greater)
        BY <1>1, <2>1, <2>2, <2>3, <2>5 DEF PairShows
    <2>7. Good(told, checked, heard, greater) /\ Keeps(d, told)
        BY <1>1, <2>3, <2>4, <2>6, PairSound
    <2>8. CASE told.checkList[pr].state # "SUCCEEDED"
        BY <1>1, <1>2, <1>4, <2>3, <2>5, <2>7, <2>8 DEF Keeps, Grows, Hears, pr
    <2>9. CASE told.checkList[pr].state = "SUCCEEDED"
        <3>1. /\ r \in Pair /\ r.state = p.state /\ r.answers = p.answers /\ r.check = p.check
              /\ r.nominated /\ r.remoteNominated = p.remoteNominated
            BY <2>3 DEF Pair
        <3>2. s = WithPair(told, pr, r)
            BY <2>5 DEF WithPair, s
        <3> HIDE DEF r
        <3>3. told \in Connection
            BY <2>7 DEF Good
        <3>4. s.checkList[pr] = r /\ s.remoteCandidates = told.remoteCandidates
            BY <1>1, <3>1, <3>2, <3>3, PairChanges
        <3>5. PairShows(s, pr, checked, heard, greater)
            BY <1>1, <2>1, <2>5, <2>6, <3>1, <3>4 DEF PairShows
        <3>6. Good(s, checked, heard, greater) /\ Keeps(told, s)
            BY <1>1, <2>3, <2>5, <2>7, <3>1, <3>2, <3>5, PairSound
        <3>7. /\ Good(CheckComplete(s, pr), checked, heard, greater)
              /\ Keeps(s, CheckComplete(s, pr))
            BY <1>1, <3>6, CheckCompletes
        <3>8. CheckIncoming(c, path, useCandidate) = CheckComplete(s, pr)
            BY <1>2, <1>4, <2>9
        <3> QED
            BY <1>1, <2>3, <2>5, <2>7, <3>6, <3>7, <3>8 DEF Keeps, Grows, Hears, pr
    <2> QED
        BY <2>8, <2>9
<1> QED
    BY <1>3, <1>4

-----------------------------------------------------------------------------
(* connect() *)

LEMMA LeavesLoop ==
    ASSUME NEW checked, NEW heard, NEW greater,
           NEW c, Good(c, checked, heard, greater), c.connect = "scheduling",
           \/ c.state = "closed"
           \/ Waiting(c) = {} /\ (c.remoteCandidatesEnd \/ c.checkListDone)
    PROVE  /\ Good(LeaveLoop(c), checked, heard, greater)
           /\ LeaveLoop(c).iceControlling = c.iceControlling
           /\ Hears(c, LeaveLoop(c)) /\ LeavesNone(c, LeaveLoop(c))
<1>1. c \in Connection
    BY DEF Good
<1>2. ASSUME NEW connect \in {"waiting", "raised"}
      PROVE  LET d == [c EXCEPT !.connect = connect]
             IN  /\ Good(d, checked, heard, greater)
                 /\ d.checkList = c.checkList /\ d.remoteCandidates = c.remoteCandidates
                 /\ d.iceControlling = c.iceControlling
                 /\ d.state = c.state /\ d.connect = connect
    <2> DEFINE d == [c EXCEPT !.connect = connect]
    <2>1. /\ d \in Connection
          /\ d.checkList = c.checkList /\ d.remoteCandidates = c.remoteCandidates
          /\ d.nominated = c.nominated /\ d.checkListDone = c.checkListDone
          /\ d.iceControlling = c.iceControlling /\ d.sockets = c.sockets
          /\ d.remoteCandidatesEnd = c.remoteCandidatesEnd
          /\ d.checkListState = c.checkListState
          /\ d.connect = connect /\ d.state = c.state
        BY <1>1 DEF Connection
    <2> HIDE DEF d
    <2>2. ASSUME NEW q \in PairId PROVE PairShows(d, q, checked, heard, greater)
        <3>1. PairShows(c, q, checked, heard, greater)
            BY DEF Good, Sound
        <3> QED
            BY <2>1, <3>1 DEF PairShows
    <2>3. ResultIsKept(d)
        BY <2>1 DEF Good, Sound, ResultIsKept
    <2> QED
        BY <2>1, <2>2, <2>3 DEF Good, Sound, d
<1> DEFINE d == [c EXCEPT !.connect = "waiting"]
           g == [c EXCEPT !.connect = "raised"]
<1>3. /\ Good(d, checked, heard, greater)
      /\ d.checkList = c.checkList /\ d.remoteCandidates = c.remoteCandidates
      /\ d.iceControlling = c.iceControlling /\ d.state = c.state /\ d.connect = "waiting"
    BY <1>2
<1>4. /\ Good(g, checked, heard, greater)
      /\ g.checkList = c.checkList /\ g.remoteCandidates = c.remoteCandidates
      /\ g.iceControlling = c.iceControlling /\ g.connect = "raised"
    BY <1>2
<1>5. LeaveLoop(c) = IF c.remoteCandidates = {} THEN g ELSE Resume(d)
    BY DEF LeaveLoop
<1> HIDE DEF d, g
<1>6. Good(Resume(d), checked, heard, greater) /\ Keeps(d, Resume(d))
    BY <1>3, Resumes
<1>7. Resume(d).connect = "waiting" => Resume(d).state = d.state
    <2>1. d \in Connection
        BY <1>3 DEF Good
    <2> QED
        BY <2>1, <1>3 DEF Resume, Connection
<1>8. c.state = "closed" \/ Waiting(d) = {}
    BY <1>3 DEF Waiting
<1>9. CASE c.remoteCandidates = {}
    BY <1>4, <1>5, <1>9 DEF Hears, LeavesNone
<1>10. CASE c.remoteCandidates # {}
    BY <1>3, <1>5, <1>6, <1>7, <1>8, <1>10 DEF Keeps, Grows, Hears, LeavesNone
<1> QED
    BY <1>9, <1>10

\* There is a first one.
LEMMA FirstIsWaiting ==
    ASSUME NEW c \in Connection, Waiting(c) # {}
    PROVE  FirstWaiting(c) \in Waiting(c)
<1> DEFINE T == {Priority(pr) : pr \in Waiting(c)}
<1>1. \A pr \in PairId : Priority(pr) \in Nat
    BY BoundsAssumption DEF Priority, PairId, Path
<1>2. Waiting(c) \subseteq PairId
    BY DEF Waiting, Connection
<1>3. T \subseteq Nat /\ T # {}
    BY <1>1, <1>2
<1> HIDE DEF T
<1> DEFINE R == {ss \in Nat \X Nat : ss[1] < ss[2]}
<1>4. IsWellFoundedOn(R, Nat)
    BY NatLessThanWellFounded DEF OpToRel
<1>5. \E x \in T : \A y \in T : x <= y
    <2>1. \A x, y \in Nat : <<y, x>> \notin R => x <= y
        OBVIOUS
    <2> HIDE DEF R
    <2>2. \E x \in T : \A y \in T : ~(<<y, x>> \in R)
        BY <1>3, <1>4, WFMin
    <2> QED
        BY <1>3, <2>1, <2>2
<1>6. \E pr \in Waiting(c) : \A q \in Waiting(c) : Priority(pr) <= Priority(q)
    BY <1>5 DEF T
<1> QED
    BY <1>6 DEF FirstWaiting

-----------------------------------------------------------------------------
(* Steps *)

\* The roles change as GreaterControls wants.
RolesChangeRightly ==
    \A e \in Endpoint : ice'[e].iceControlling # ice[e].iceControlling =>
        IF ice'[e].iceControlling THEN e = tieBreaker \/ Offer(e)
        ELSE e # tieBreaker \/ Answer(e)

\* No pair begins to wait that nobody checks, unless its candidate is found late.
WaitingRightly == \A e \in Endpoint : LeavesNone(ice[e], ice'[e]) \/ CandidateFound(e)

\* What is checked and heard stays so.
LEMMA MoreIsGood ==
    ASSUME NEW checked, NEW heard, NEW greater, NEW checked2, NEW heard2,
           checked \subseteq checked2, heard \subseteq heard2,
           NEW c, Good(c, checked, heard, greater)
    PROVE  Good(c, checked2, heard2, greater)
<1>1. ASSUME NEW q \in PairId PROVE PairShows(c, q, checked2, heard2, greater)
    <2>1. PairShows(c, q, checked, heard, greater)
        BY DEF Good, Sound
    <2> QED
        BY <2>1 DEF PairShows
<1> QED
    BY <1>1 DEF Good, Sound

LEMMA EndsAreGood ==
    ASSUME IInv, NEW e \in Endpoint
    PROVE  /\ ice[e] \in Connection /\ Good(ice[e], verified[e], Heard, e = tieBreaker)
           /\ ice[e].remoteCandidates \subseteq PairId /\ verified[e] \subseteq Path
           /\ ice[e].checkList \in [PairId -> Pair]
<1>1. ice[e] \in Connection /\ verified[e] \subseteq Path
    BY DEF IInv, TypeOK
<1> QED
    BY <1>1 DEF IInv, Good, Connection

\* A step that leaves both ends good.
LEMMA GoodSteps ==
    ASSUME IInv, paths' = paths, tieBreaker' = tieBreaker,
           requests' \subseteq Request, offers' \subseteq Endpoint,
           moreOffers' \in 0 .. MaxOffers, verified' \in [Endpoint -> SUBSET Path],
           ice' \in [Endpoint -> Connection],
           \A e \in Endpoint : Good(ice'[e], verified'[e], Heard', e = tieBreaker)
    PROVE  IInv'
<1>1. TypeOK'
    BY DEF IInv, TypeOK
<1> QED
    BY <1>1 DEF IInv, Good

LEMMA HeardGrows ==
    ASSUME IInv, \A e \in Endpoint : Hears(ice[e], ice'[e])
    PROVE  Heard \subseteq Heard'
<1> SUFFICES ASSUME NEW path \in Heard PROVE path \in Heard'
    OBVIOUS
<1>1. PICK f \in Endpoint : \E pr \in ice[f].remoteCandidates :
          pr.path = path /\ ice[f].checkList[pr].remoteNominated
    BY DEF Heard
<1>2. PICK pr \in ice[f].remoteCandidates :
          pr.path = path /\ ice[f].checkList[pr].remoteNominated
    BY <1>1
<1>3. pr \in PairId
    BY EndsAreGood
<1>4. pr \in ice'[f].remoteCandidates /\ ice'[f].checkList[pr].remoteNominated
    BY <1>2, <1>3 DEF Hears
<1>5. path \in Path
    BY DEF Heard
<1> QED
    BY <1>2, <1>4, <1>5 DEF Heard

\* A step of one end.
LEMMA OneEnd ==
    ASSUME IInv, paths' = paths, tieBreaker' = tieBreaker,
           requests' \subseteq Request, offers' \subseteq Endpoint,
           moreOffers' \in 0 .. MaxOffers,
           NEW e \in Endpoint, NEW checked, verified[e] \subseteq checked, checked \subseteq Path,
           verified' = [verified EXCEPT ![e] = checked],
           NEW c, ice' = [ice EXCEPT ![e] = c],
           Good(c, checked, Heard, e = tieBreaker), Hears(ice[e], c),
           LeavesNone(ice[e], c) \/ CandidateFound(e)
    PROVE  /\ IInv' /\ WaitingRightly
           /\ c.iceControlling = ice[e].iceControlling => RolesChangeRightly
<1>1. /\ ice \in [Endpoint -> Connection] /\ verified \in [Endpoint -> SUBSET Path]
      /\ c \in Connection
    BY DEF IInv, TypeOK, Good
<1>2. /\ ice' \in [Endpoint -> Connection] /\ verified' \in [Endpoint -> SUBSET Path]
      /\ \A f \in Endpoint : /\ ice'[f] = IF f = e THEN c ELSE ice[f]
                             /\ verified'[f] = IF f = e THEN checked ELSE verified[f]
    BY <1>1
<1>3. \A f \in Endpoint : Hears(ice[f], ice'[f])
    BY <1>2 DEF Hears
<1>4. Heard \subseteq Heard'
    BY <1>3, HeardGrows
<1>5. ASSUME NEW f \in Endpoint
      PROVE  Good(ice'[f], verified'[f], Heard', f = tieBreaker)
    <2>1. Good(ice'[f], verified'[f], Heard, f = tieBreaker)
        BY <1>2, EndsAreGood
    <2> QED
        BY <1>4, <2>1, MoreIsGood
<1>6. IInv'
    BY <1>2, <1>5, GoodSteps
<1>7. WaitingRightly
    BY <1>2 DEF WaitingRightly, LeavesNone
<1> QED
    BY <1>2, <1>6, <1>7 DEF RolesChangeRightly

LEMMA SentAreRequests ==
    ASSUME NEW e \in Endpoint, NEW c \in Connection
    PROVE  Sent(e, c) \subseteq Request
<1>1. c.remoteCandidates \subseteq PairId
    BY DEF Connection
<1>2. ASSUME NEW path \in Path, NEW controlling \in BOOLEAN
      PROVE  [from |-> e, path |-> path, controlling |-> controlling] \in Request
    BY DEF Request
<1>3. ASSUME NEW pr \in c.remoteCandidates
      PROVE  [from |-> e, path |-> pr.path,
              controlling |-> c.checkList[pr].check # "controlled"] \in Request
    <2>1. pr.path \in Path
        BY <1>1, PairIds
    <2>2. (c.checkList[pr].check # "controlled") \in BOOLEAN
        OBVIOUS
    <2> QED
        BY <1>2, <2>1, <2>2, Zenon
<1> QED
    BY <1>3, Zenon DEF Sent

\* The same, with the requests of its transactions.
LEMMA Becomes ==
    ASSUME IInv, NEW e \in Endpoint, NEW c,
           Become(e, c), UNCHANGED <<paths, tieBreaker, offers, moreOffers>>,
           NEW checked, verified[e] \subseteq checked, checked \subseteq Path,
           verified' = [verified EXCEPT ![e] = checked],
           Good(c, checked, Heard, e = tieBreaker), Hears(ice[e], c),
           LeavesNone(ice[e], c) \/ CandidateFound(e)
    PROVE  /\ IInv' /\ WaitingRightly
           /\ c.iceControlling = ice[e].iceControlling => RolesChangeRightly
<1>1. Sent(e, c) \subseteq Request
    BY SentAreRequests DEF Good
<1>2. /\ ice' = [ice EXCEPT ![e] = c] /\ requests' \subseteq Request
      /\ offers' \subseteq Endpoint /\ moreOffers' \in 0 .. MaxOffers
    BY <1>1 DEF Become, IInv, TypeOK
<1> QED
    BY <1>2, OneEnd

LEMMA ConnectStep ==
    ASSUME IInv, NEW e \in Endpoint, Connect(e)
    PROVE  IInv' /\ RolesChangeRightly /\ WaitingRightly
<1> DEFINE c == ice[e]
           d == [c EXCEPT !.connect = "scheduling", !.remoteParams = TRUE]
<1>1. c \in Connection /\ Good(c, verified[e], Heard, e = tieBreaker)
    BY EndsAreGood
<1>2. /\ d \in Connection
      /\ d.checkList = c.checkList /\ d.remoteCandidates = c.remoteCandidates
      /\ d.nominated = c.nominated /\ d.checkListDone = c.checkListDone
      /\ d.iceControlling = c.iceControlling /\ d.sockets = c.sockets
      /\ d.checkListState = c.checkListState
      /\ d.connect = "scheduling" /\ d.state = c.state
    BY <1>1 DEF Connection
<1>3. c.connect = "idle" /\ ice' = [ice EXCEPT ![e] = d]
    BY DEF Connect, IInv, TypeOK
<1> HIDE DEF c, d
<1>4. ASSUME NEW q \in PairId PROVE PairShows(d, q, verified[e], Heard, e = tieBreaker)
    <2>1. PairShows(c, q, verified[e], Heard, e = tieBreaker)
        BY <1>1 DEF Good, Sound
    <2> QED
        BY <1>2, <2>1 DEF PairShows
<1>5. ResultIsKept(d)
    BY <1>1, <1>2, <1>3 DEF Good, Sound, ResultIsKept
<1>6. Good(d, verified[e], Heard, e = tieBreaker) /\ Keeps(c, d)
    BY <1>1, <1>2, <1>4, <1>5 DEF Good, Sound, Keeps, Grows, Hears, Waiting
<1>7. requests' \subseteq Request /\ offers' \subseteq Endpoint /\ moreOffers' \in 0 .. MaxOffers
    BY DEF Connect, IInv, TypeOK
<1>8. verified' = [verified EXCEPT ![e] = verified[e]] /\ verified[e] \subseteq Path
    BY DEF Connect, IInv, TypeOK
<1> QED
    BY <1>3, <1>6, <1>7, <1>8, GrowingIsRight, OneEnd DEF Connect, Keeps, c

LEMMA ScheduleStep ==
    ASSUME IInv, NEW e \in Endpoint, Schedule(e)
    PROVE  IInv' /\ RolesChangeRightly /\ WaitingRightly
<1> DEFINE c == ice[e]
<1>1. c \in Connection /\ Good(c, verified[e], Heard, e = tieBreaker)
    BY EndsAreGood
<1>2. /\ UNCHANGED <<paths, tieBreaker, offers, moreOffers>>
      /\ verified' = [verified EXCEPT ![e] = verified[e]] /\ verified[e] \subseteq Path
    BY DEF Schedule, IInv, TypeOK
<1>3. CASE /\ c.state # "closed" /\ Waiting(c) # {}
           /\ Become(e, CheckStart(c, FirstWaiting(c)))
    <2>1. FirstWaiting(c) \in PairId
        BY <1>1, <1>3, FirstIsWaiting DEF Waiting, Connection
    <2> HIDE DEF c
    <2>2. /\ Good(CheckStart(c, FirstWaiting(c)), verified[e], Heard, e = tieBreaker)
          /\ Keeps(c, CheckStart(c, FirstWaiting(c)))
        BY <1>1, <2>1, CheckStarts
    <2> QED
        BY <1>2, <1>3, <2>2, GrowingIsRight, Becomes DEF Keeps, c
<1>4. CASE /\ c.connect = "scheduling"
           /\ \/ c.state = "closed"
              \/ Waiting(c) = {} /\ (c.remoteCandidatesEnd \/ c.checkListDone)
           /\ Become(e, LeaveLoop(c))
    <2> HIDE DEF c
    <2>1. /\ Good(LeaveLoop(c), verified[e], Heard, e = tieBreaker)
          /\ LeaveLoop(c).iceControlling = c.iceControlling
          /\ Hears(c, LeaveLoop(c)) /\ LeavesNone(c, LeaveLoop(c))
        BY <1>1, <1>4, LeavesLoop
    <2> QED
        BY <1>2, <1>4, <2>1, Becomes DEF c
<1> QED
    BY <1>3, <1>4 DEF Schedule

\* Other candidates and names that are looked up.
WithCandidates(c, candidates, lookups) ==
    [c EXCEPT !.remoteCandidates = candidates, !.lookups = lookups]

\* A candidate that comes is no part of what a connection must show.
LEMMA CandidatesAreFree ==
    ASSUME NEW checked, NEW heard, NEW greater,
           NEW c, Good(c, checked, heard, greater),
           NEW candidates, candidates \subseteq PairId, c.remoteCandidates \subseteq candidates,
           NEW lookups \in SUBSET Path
    PROVE  LET d == WithCandidates(c, candidates, lookups)
           IN  /\ Good(d, checked, heard, greater) /\ Hears(c, d)
               /\ d.remoteCandidates = candidates /\ d.checkList = c.checkList
               /\ d.iceControlling = c.iceControlling
               /\ d.connect = c.connect /\ d.state = c.state
               /\ d.checkListDone = c.checkListDone
<1> DEFINE d == WithCandidates(c, candidates, lookups)
<1>1. c \in Connection
    BY DEF Good
<1>2. /\ d \in Connection
      /\ d.checkList = c.checkList /\ d.remoteCandidates = candidates
      /\ d.nominated = c.nominated /\ d.checkListDone = c.checkListDone
      /\ d.iceControlling = c.iceControlling /\ d.sockets = c.sockets
      /\ d.checkListState = c.checkListState
      /\ d.remoteCandidatesEnd = c.remoteCandidatesEnd
      /\ d.connect = c.connect /\ d.state = c.state
    BY <1>1 DEF Connection, WithCandidates
<1> HIDE DEF d
<1>3. ASSUME NEW q \in PairId PROVE PairShows(d, q, checked, heard, greater)
    <2>1. PairShows(c, q, checked, heard, greater)
        BY DEF Good, Sound
    <2> QED
        BY <1>2, <2>1 DEF PairShows
<1>4. ResultIsKept(d)
    BY <1>2 DEF Good, Sound, ResultIsKept
<1> QED
    BY <1>2, <1>3, <1>4 DEF Good, Sound, Hears, d

LEMMA AddRemoteCandidateStep ==
    ASSUME IInv, NEW e \in Endpoint, AddRemoteCandidate(e)
    PROVE  IInv' /\ RolesChangeRightly /\ WaitingRightly
<1>1. PICK path \in paths : ice' = [ice EXCEPT ![e].remoteCandidates = @ \cup {Signalled(path)}]
    BY DEF AddRemoteCandidate
<1> DEFINE c == ice[e]
           d == WithCandidates(c, c.remoteCandidates \cup {Signalled(path)}, c.lookups)
<1>2. c \in Connection /\ Good(c, verified[e], Heard, e = tieBreaker)
    BY EndsAreGood
<1>3. Signalled(path) \in PairId
    BY PairIds DEF IInv, TypeOK
<1>4. ~c.remoteCandidatesEnd /\ ice' = [ice EXCEPT ![e] = d]
    BY <1>1, <1>2 DEF AddRemoteCandidate, WithCandidates, IInv, TypeOK, Connection
<1> HIDE DEF c
<1>5. c.remoteCandidates \subseteq PairId /\ c.lookups \in SUBSET Path
    BY <1>2 DEF Connection
<1>6. /\ Good(d, verified[e], Heard, e = tieBreaker) /\ Hears(c, d)
      /\ d.iceControlling = c.iceControlling /\ d.connect = c.connect
      /\ d.state = c.state /\ d.checkListDone = c.checkListDone
    BY <1>2, <1>3, <1>5, CandidatesAreFree
<1> HIDE DEF d
<1>7. LeavesNone(c, d)
    BY <1>2, <1>4, <1>6 DEF Good, Sound, ResultIsKept, LeavesNone
<1>8. /\ requests' \subseteq Request /\ offers' \subseteq Endpoint /\ moreOffers' \in 0 .. MaxOffers
      /\ verified' = [verified EXCEPT ![e] = verified[e]] /\ verified[e] \subseteq Path
    BY DEF AddRemoteCandidate, IInv, TypeOK
<1> QED
    BY <1>4, <1>6, <1>7, <1>8, OneEnd DEF AddRemoteCandidate, c

\* A step that only changes which names are looked up.
LEMMA LookupsAreFree ==
    ASSUME IInv, NEW e \in Endpoint, NEW lookups \in SUBSET Path,
           ice' = [ice EXCEPT ![e].lookups = lookups],
           UNCHANGED <<paths, requests, tieBreaker, offers, moreOffers, verified>>
    PROVE  IInv' /\ RolesChangeRightly /\ WaitingRightly
<1> DEFINE c == ice[e]
           d == WithCandidates(c, c.remoteCandidates, lookups)
<1>1. c \in Connection /\ Good(c, verified[e], Heard, e = tieBreaker)
    BY EndsAreGood
<1>2. ice' = [ice EXCEPT ![e] = d]
    BY <1>1 DEF WithCandidates, IInv, TypeOK, Connection
<1> HIDE DEF c
<1>3. c.remoteCandidates \subseteq PairId
    BY <1>1 DEF Connection
<1>4. /\ Good(d, verified[e], Heard, e = tieBreaker) /\ Hears(c, d)
      /\ d.remoteCandidates = c.remoteCandidates /\ d.checkList = c.checkList
      /\ d.iceControlling = c.iceControlling /\ d.connect = c.connect
    BY <1>1, <1>3, CandidatesAreFree
<1> HIDE DEF d
<1>5. LeavesNone(c, d)
    BY <1>4, GrowingIsRight DEF Grows, Waiting
<1>6. /\ requests' \subseteq Request /\ offers' \subseteq Endpoint /\ moreOffers' \in 0 .. MaxOffers
      /\ verified' = [verified EXCEPT ![e] = verified[e]] /\ verified[e] \subseteq Path
    BY DEF IInv, TypeOK
<1> QED
    BY <1>2, <1>4, <1>5, <1>6, OneEnd DEF c

LEMMA LookUpCandidateStep ==
    ASSUME IInv, NEW e \in Endpoint, LookUpCandidate(e)
    PROVE  IInv' /\ RolesChangeRightly /\ WaitingRightly
<1>1. PICK path \in paths : ice' = [ice EXCEPT ![e].lookups = @ \cup {path}]
    BY DEF LookUpCandidate
<1>2. ice[e].lookups \cup {path} \in SUBSET Path
    BY EndsAreGood DEF IInv, TypeOK, Connection
<1>3. ice' = [ice EXCEPT ![e].lookups = ice[e].lookups \cup {path}]
    BY <1>1
<1> QED
    BY <1>2, <1>3, LookupsAreFree DEF LookUpCandidate

LEMMA LookupFailsStep ==
    ASSUME IInv, NEW e \in Endpoint, LookupFails(e)
    PROVE  IInv' /\ RolesChangeRightly /\ WaitingRightly
<1>1. PICK path \in ice[e].lookups : ice' = [ice EXCEPT ![e].lookups = @ \ {path}]
    BY DEF LookupFails
<1>2. ice[e].lookups \ {path} \in SUBSET Path
    BY EndsAreGood DEF Connection
<1>3. ice' = [ice EXCEPT ![e].lookups = ice[e].lookups \ {path}]
    BY <1>1
<1> QED
    BY <1>2, <1>3, LookupsAreFree DEF LookupFails

LEMMA CandidateFoundStep ==
    ASSUME IInv, NEW e \in Endpoint, CandidateFound(e)
    PROVE  IInv' /\ RolesChangeRightly /\ WaitingRightly
<1> DEFINE c == ice[e]
<1>1. PICK path \in c.lookups :
          ice' = [ice EXCEPT ![e].lookups = @ \ {path}, ![e].remoteCandidates =
                      IF c.sockets = {} THEN @ ELSE @ \cup {Signalled(path)}]
    BY DEF CandidateFound
<1> DEFINE candidates == IF c.sockets = {} THEN c.remoteCandidates
                         ELSE c.remoteCandidates \cup {Signalled(path)}
           d == WithCandidates(c, candidates, c.lookups \ {path})
<1>2. c \in Connection /\ Good(c, verified[e], Heard, e = tieBreaker)
    BY EndsAreGood
<1>3. /\ candidates \subseteq PairId /\ c.remoteCandidates \subseteq candidates
      /\ c.lookups \ {path} \in SUBSET Path
    BY <1>2, PairIds DEF Connection
<1>4. ice' = [ice EXCEPT ![e] = d]
    <2>1. ice'[e] = d
        BY <1>1, <1>2 DEF WithCandidates, IInv, TypeOK, Connection
    <2> QED
        BY <1>1, <2>1 DEF IInv, TypeOK
<1> HIDE DEF c, candidates
<1>5. /\ Good(d, verified[e], Heard, e = tieBreaker) /\ Hears(c, d)
      /\ d.iceControlling = c.iceControlling
    BY <1>2, <1>3, CandidatesAreFree
<1> HIDE DEF d
<1>6. /\ requests' \subseteq Request /\ offers' \subseteq Endpoint /\ moreOffers' \in 0 .. MaxOffers
      /\ verified' = [verified EXCEPT ![e] = verified[e]] /\ verified[e] \subseteq Path
    BY DEF CandidateFound, IInv, TypeOK
<1> QED
    BY <1>4, <1>5, <1>6, OneEnd DEF CandidateFound, c

LEMMA EndOfCandidatesStep ==
    ASSUME IInv, NEW e \in Endpoint, EndOfCandidates(e)
    PROVE  IInv' /\ RolesChangeRightly /\ WaitingRightly
<1> DEFINE c == ice[e]
           d == [c EXCEPT !.remoteCandidatesEnd = TRUE]
<1>1. c \in Connection /\ Good(c, verified[e], Heard, e = tieBreaker)
    BY EndsAreGood
<1>2. /\ d \in Connection
      /\ d.checkList = c.checkList /\ d.remoteCandidates = c.remoteCandidates
      /\ d.nominated = c.nominated /\ d.checkListDone = c.checkListDone
      /\ d.iceControlling = c.iceControlling /\ d.sockets = c.sockets
      /\ d.checkListState = c.checkListState /\ d.remoteCandidatesEnd
      /\ d.connect = c.connect /\ d.state = c.state
    BY <1>1 DEF Connection
<1>3. ice' = [ice EXCEPT ![e] = d]
    BY DEF EndOfCandidates, IInv, TypeOK
<1> HIDE DEF c, d
<1>4. ASSUME NEW q \in PairId PROVE PairShows(d, q, verified[e], Heard, e = tieBreaker)
    <2>1. PairShows(c, q, verified[e], Heard, e = tieBreaker)
        BY <1>1 DEF Good, Sound
    <2> QED
        BY <1>2, <2>1 DEF PairShows
<1>5. ResultIsKept(d)
    BY <1>1, <1>2 DEF Good, Sound, ResultIsKept, Waiting
<1>6. Good(d, verified[e], Heard, e = tieBreaker) /\ Keeps(c, d)
    BY <1>1, <1>2, <1>4, <1>5 DEF Good, Sound, Keeps, Grows, Hears, Waiting
<1>7. /\ requests' \subseteq Request /\ offers' \subseteq Endpoint /\ moreOffers' \in 0 .. MaxOffers
      /\ verified' = [verified EXCEPT ![e] = verified[e]] /\ verified[e] \subseteq Path
    BY DEF EndOfCandidates, IInv, TypeOK
<1> QED
    BY <1>3, <1>6, <1>7, GrowingIsRight, OneEnd DEF EndOfCandidates, Keeps, c

\* The role is no part of what a connection must show.
LEMMA RolesAreFree ==
    ASSUME NEW checked, NEW heard, NEW greater,
           NEW c, Good(c, checked, heard, greater), NEW role \in BOOLEAN
    PROVE  LET d == [c EXCEPT !.iceControlling = role]
           IN  /\ Good(d, checked, heard, greater) /\ Grows(c, d) /\ d.iceControlling = role
               /\ d.checkList = c.checkList /\ d.remoteCandidates = c.remoteCandidates
<1> DEFINE d == [c EXCEPT !.iceControlling = role]
<1>1. c \in Connection
    BY DEF Good
<1>2. /\ d \in Connection /\ d.iceControlling = role
      /\ d.checkList = c.checkList /\ d.remoteCandidates = c.remoteCandidates
      /\ d.nominated = c.nominated /\ d.checkListDone = c.checkListDone
      /\ d.sockets = c.sockets /\ d.checkListState = c.checkListState
      /\ d.remoteCandidatesEnd = c.remoteCandidatesEnd
      /\ d.connect = c.connect /\ d.state = c.state
    BY <1>1 DEF Connection
<1> HIDE DEF d
<1>3. ASSUME NEW q \in PairId PROVE PairShows(d, q, checked, heard, greater)
    <2>1. PairShows(c, q, checked, heard, greater)
        BY DEF Good, Sound
    <2> QED
        BY <1>2, <2>1 DEF PairShows
<1>4. ResultIsKept(d)
    BY <1>2 DEF Good, Sound, ResultIsKept, Waiting
<1> QED
    BY <1>2, <1>3, <1>4 DEF Good, Sound, Grows, Hears, Waiting, d

LEMMA OfferStep ==
    ASSUME IInv, NEW e \in Endpoint, Offer(e)
    PROVE  IInv' /\ RolesChangeRightly /\ WaitingRightly
<1> DEFINE d == [ice[e] EXCEPT !.iceControlling = TRUE]
<1>1. /\ Good(d, verified[e], Heard, e = tieBreaker) /\ Grows(ice[e], d)
    BY EndsAreGood, RolesAreFree
<1>2. ice' = [ice EXCEPT ![e] = d]
    BY DEF Offer, IInv, TypeOK
<1>3. /\ requests' \subseteq Request /\ offers' \subseteq Endpoint /\ moreOffers' \in 0 .. MaxOffers
      /\ verified' = [verified EXCEPT ![e] = verified[e]] /\ verified[e] \subseteq Path
    BY BoundsAssumption DEF Offer, IInv, TypeOK
<1>4. \A f \in Endpoint \ {e} : ice'[f] = ice[f]
    BY <1>2 DEF IInv, TypeOK
<1>5. ice'[e].iceControlling
    BY <1>2, EndsAreGood DEF Connection, IInv, TypeOK
<1> HIDE DEF d
<1>6. IInv' /\ WaitingRightly
    BY <1>1, <1>2, <1>3, GrowingIsRight, OneEnd DEF Offer
<1>7. RolesChangeRightly
    BY <1>4, <1>5 DEF RolesChangeRightly
<1> QED
    BY <1>6, <1>7

LEMMA AnswerStep ==
    ASSUME IInv, NEW e \in Endpoint, Answer(e)
    PROVE  IInv' /\ RolesChangeRightly /\ WaitingRightly
<1> DEFINE d == [ice[e] EXCEPT !.iceControlling = FALSE]
<1>1. /\ Good(d, verified[e], Heard, e = tieBreaker) /\ Grows(ice[e], d)
    BY EndsAreGood, RolesAreFree
<1>2. ice' = [ice EXCEPT ![e] = d]
    BY DEF Answer, IInv, TypeOK
<1>3. /\ requests' \subseteq Request /\ offers' \subseteq Endpoint /\ moreOffers' \in 0 .. MaxOffers
      /\ verified' = [verified EXCEPT ![e] = verified[e]] /\ verified[e] \subseteq Path
    BY DEF Answer, IInv, TypeOK
<1>4. \A f \in Endpoint \ {e} : ice'[f] = ice[f]
    BY <1>2 DEF IInv, TypeOK
<1>5. ~ice'[e].iceControlling
    BY <1>2, EndsAreGood DEF Connection, IInv, TypeOK
<1> HIDE DEF d
<1>6. IInv' /\ WaitingRightly
    BY <1>1, <1>2, <1>3, GrowingIsRight, OneEnd DEF Answer
<1>7. RolesChangeRightly
    BY <1>4, <1>5 DEF RolesChangeRightly
<1> QED
    BY <1>6, <1>7

LEMMA CheckFailsStep ==
    ASSUME IInv, NEW e \in Endpoint, CheckFails(e)
    PROVE  IInv' /\ RolesChangeRightly /\ WaitingRightly
<1>1. PICK pr \in UnderWay(e) : Become(e, CheckEnd(ice[e], pr, "FAILED", FALSE))
    BY DEF CheckFails
<1>2. pr \in PairId /\ Good(ice[e], verified[e], Heard, e = tieBreaker)
    BY EndsAreGood DEF UnderWay
<1> DEFINE d == CheckEnd(ice[e], pr, "FAILED", FALSE)
<1>3. Good(d, verified[e], Heard, e = tieBreaker) /\ Keeps(ice[e], d)
    BY <1>2, CheckEnds
<1> HIDE DEF d
<1>4. /\ UNCHANGED <<paths, tieBreaker, offers, moreOffers>>
      /\ verified' = [verified EXCEPT ![e] = verified[e]] /\ verified[e] \subseteq Path
    BY DEF CheckFails, IInv, TypeOK
<1> QED
    BY <1>1, <1>3, <1>4, GrowingIsRight, Becomes DEF Keeps, d

LEMMA ReceiveConflictStep ==
    ASSUME IInv, NEW e \in Endpoint, ReceiveConflict(e)
    PROVE  IInv' /\ RolesChangeRightly /\ WaitingRightly
<1>1. PICK pr \in UnderWay(e) :
          /\ "role conflict" \in ice[e].checkList[pr].answers
          /\ ice[e].checkList[pr].check # "nominating"
          /\ Become(e, CheckStart([ice[e] EXCEPT !.iceControlling =
                                       ice[e].checkList[pr].check = "controlled"], pr))
    BY DEF ReceiveConflict
<1> DEFINE p == ice[e].checkList[pr]
           role == p.check = "controlled"
           c == [ice[e] EXCEPT !.iceControlling = role]
           d == CheckStart(c, pr)
<1>2. /\ pr \in PairId /\ Good(ice[e], verified[e], Heard, e = tieBreaker)
      /\ p \in Pair /\ p.check # "none"
    BY EndsAreGood DEF UnderWay
<1>3. IF role THEN e = tieBreaker ELSE e # tieBreaker
    <2>1. p.check \in {"controlled", "controlling"}
        BY <1>1, <1>2 DEF Pair, Check
    <2> QED
        BY <1>1, <1>2, <2>1 DEF Good, Sound, PairShows
<1>4. role \in BOOLEAN
    OBVIOUS
<1> HIDE DEF p, role
<1>5. /\ Good(c, verified[e], Heard, e = tieBreaker) /\ Grows(ice[e], c)
      /\ c.iceControlling = role
    BY <1>2, <1>4, RolesAreFree
<1>6. Become(e, d)
    BY <1>1 DEF p, role
<1> HIDE DEF c
<1>7. Good(d, verified[e], Heard, e = tieBreaker) /\ Keeps(c, d)
    BY <1>2, <1>5, CheckStarts
<1> HIDE DEF d
<1>8. /\ UNCHANGED <<paths, tieBreaker, offers, moreOffers>>
      /\ verified' = [verified EXCEPT ![e] = verified[e]] /\ verified[e] \subseteq Path
    BY DEF ReceiveConflict, IInv, TypeOK
<1>9. Grows(ice[e], d)
    BY <1>5, <1>7 DEF Keeps, Grows, Hears
<1>10. IInv' /\ WaitingRightly
    BY <1>6, <1>7, <1>8, <1>9, GrowingIsRight, Becomes
<1>11. \A f \in Endpoint : ice'[f] = IF f = e THEN d ELSE ice[f]
    BY <1>6 DEF Become, IInv, TypeOK
<1> QED
    BY <1>3, <1>5, <1>7, <1>10, <1>11 DEF RolesChangeRightly, Keeps

\* The nomination goes out where the check was.
LEMMA Renominates ==
    ASSUME NEW checked, NEW heard, NEW greater,
           NEW c, Good(c, checked, heard, greater), NEW pr \in PairId
    PROVE  LET d == [c EXCEPT !.nominating = TRUE, !.checkList[pr].check = "nominating",
                              !.checkList[pr].answers = {}]
           IN  Good(d, checked, heard, greater) /\ Keeps(c, d)
<1> DEFINE p == [c.checkList[pr] EXCEPT !.check = "nominating", !.answers = {}]
           k == [c EXCEPT !.nominating = TRUE]
           d == [c EXCEPT !.nominating = TRUE, !.checkList[pr].check = "nominating",
                          !.checkList[pr].answers = {}]
<1>1. c \in Connection /\ c.checkList[pr] \in Pair
    BY DEF Good, Connection
<1>2. /\ p \in Pair /\ p.state = c.checkList[pr].state /\ p.answers = {}
      /\ p.nominated = c.checkList[pr].nominated
      /\ p.remoteNominated = c.checkList[pr].remoteNominated
    BY <1>1 DEF Pair, Check
<1>3. /\ k \in Connection
      /\ k.checkList = c.checkList /\ k.remoteCandidates = c.remoteCandidates
      /\ k.nominated = c.nominated /\ k.checkListDone = c.checkListDone
      /\ k.iceControlling = c.iceControlling /\ k.sockets = c.sockets
      /\ k.remoteCandidatesEnd = c.remoteCandidatesEnd
      /\ k.checkListState = c.checkListState
      /\ k.connect = c.connect /\ k.state = c.state
    BY <1>1 DEF Connection
<1>4. d = WithPair(k, pr, p)
    BY <1>1, <1>3 DEF WithPair, Connection, Pair
<1> HIDE DEF k, p, d
<1>5. ASSUME NEW q \in PairId PROVE PairShows(k, q, checked, heard, greater)
    <2>1. PairShows(c, q, checked, heard, greater)
        BY DEF Good, Sound
    <2> QED
        BY <1>3, <2>1 DEF PairShows
<1>6. ResultIsKept(k)
    BY <1>3 DEF Good, Sound, ResultIsKept, Waiting
<1>7. Good(k, checked, heard, greater) /\ Keeps(c, k)
    BY <1>3, <1>5, <1>6 DEF Good, Sound, Keeps, Grows, Hears, Waiting
<1>8. d.checkList[pr] = p /\ d.remoteCandidates = k.remoteCandidates
    BY <1>2, <1>3, <1>4, PairChanges
<1>9. PairShows(d, pr, checked, heard, greater)
    BY <1>2, <1>3, <1>5, <1>8 DEF PairShows
<1>10. Good(d, checked, heard, greater) /\ Keeps(k, d)
    BY <1>2, <1>3, <1>4, <1>7, <1>9, PairSound
<1> QED
    BY <1>7, <1>10 DEF Keeps, Grows, Hears, d

LEMMA ReceiveSuccessStep ==
    ASSUME IInv, NEW e \in Endpoint, ReceiveSuccess(e)
    PROVE  IInv' /\ RolesChangeRightly /\ WaitingRightly
<1> DEFINE c == ice[e]
           Nominated(pr) == c.checkList[pr].check # "controlled" \/ c.checkList[pr].remoteNominated
           Again(pr) == [c EXCEPT !.nominating = TRUE, !.checkList[pr].check = "nominating",
                                  !.checkList[pr].answers = {}]
<1>1. PICK pr \in UnderWay(e) :
          /\ "success" \in c.checkList[pr].answers
          /\ verified' = [verified EXCEPT ![e] = @ \cup {pr.path}]
          /\ \/ Nominated(pr) /\ Become(e, CheckEnd(c, pr, "SUCCEEDED", TRUE))
             \/ Become(e, Again(pr))
             \/ Become(e, CheckEnd(c, pr, "SUCCEEDED", FALSE))
    BY DEF ReceiveSuccess
<1> DEFINE checked == verified[e] \cup {pr.path}
<1>2. /\ pr \in PairId /\ pr.path \in Path /\ verified[e] \subseteq Path
      /\ Good(c, verified[e], Heard, e = tieBreaker)
      /\ c.checkList[pr] \in Pair /\ c.checkList[pr].check # "none"
    BY EndsAreGood, PairIds DEF UnderWay
<1>3. Good(c, checked, Heard, e = tieBreaker)
    BY <1>2, MoreIsGood
<1>4. Nominated(pr) => pr.path \in Heard
    BY <1>1, <1>2 DEF Good, Sound, PairShows, Pair, Check
<1>5. /\ UNCHANGED <<paths, tieBreaker, offers, moreOffers>>
      /\ verified' = [verified EXCEPT ![e] = checked]
      /\ verified[e] \subseteq checked /\ checked \subseteq Path /\ pr.path \in checked
    BY <1>1, <1>2 DEF ReceiveSuccess
<1> HIDE DEF checked
<1>6. ASSUME NEW nominated \in BOOLEAN, nominated => Nominated(pr),
             Become(e, CheckEnd(c, pr, "SUCCEEDED", nominated))
      PROVE  IInv' /\ RolesChangeRightly /\ WaitingRightly
    <2>1. /\ Good(CheckEnd(c, pr, "SUCCEEDED", nominated), checked, Heard, e = tieBreaker)
          /\ Keeps(c, CheckEnd(c, pr, "SUCCEEDED", nominated))
        BY <1>2, <1>3, <1>4, <1>5, <1>6, CheckEnds
    <2> QED
        BY <1>5, <1>6, <2>1, GrowingIsRight, Becomes DEF Keeps
<1>7. CASE Become(e, Again(pr))
    <2>1. Good(Again(pr), checked, Heard, e = tieBreaker) /\ Keeps(c, Again(pr))
        BY <1>2, <1>3, Renominates
    <2> HIDE DEF Again
    <2> QED
        BY <1>5, <1>7, <2>1, GrowingIsRight, Becomes DEF Keeps
<1> QED
    BY <1>1, <1>6, <1>7

LEMMA CloseStep ==
    ASSUME IInv, NEW e \in Endpoint, Close(e)
    PROVE  IInv' /\ RolesChangeRightly /\ WaitingRightly
<1> DEFINE c == [ice[e] EXCEPT !.state = "closed"]
           d == IF c.checkListDone THEN c ELSE Put(c, "ICE_FAILED")
           g == [d EXCEPT !.nominated = NoPair, !.sockets = @ \ {1}]
<1>1. ice[e] \in Connection /\ Good(ice[e], verified[e], Heard, e = tieBreaker)
    BY EndsAreGood
<1>2. /\ c \in Connection
      /\ c.checkList = ice[e].checkList /\ c.remoteCandidates = ice[e].remoteCandidates
      /\ c.nominated = ice[e].nominated /\ c.checkListDone = ice[e].checkListDone
      /\ c.iceControlling = ice[e].iceControlling /\ c.sockets = ice[e].sockets
      /\ c.checkListState = ice[e].checkListState
      /\ c.connect = ice[e].connect /\ c.state = "closed"
    BY <1>1 DEF Connection
<1>3. ice' = [ice EXCEPT ![e] = g]
    BY DEF Close
<1>4. d = c \/ d = Put(c, "ICE_FAILED")
    OBVIOUS
<1> HIDE DEF c, d
<1>5. Good(c, verified[e], Heard, e = tieBreaker) /\ Keeps(ice[e], c)
    <2>1. ASSUME NEW q \in PairId PROVE PairShows(c, q, verified[e], Heard, e = tieBreaker)
        <3>1. PairShows(ice[e], q, verified[e], Heard, e = tieBreaker)
            BY <1>1 DEF Good, Sound
        <3> QED
            BY <1>2, <3>1 DEF PairShows
    <2>2. ResultIsKept(c)
        BY <1>1, <1>2 DEF Good, Sound, ResultIsKept
    <2> QED
        BY <1>1, <1>2, <2>1, <2>2 DEF Good, Sound, Keeps, Grows, Hears, Waiting
<1>6. Good(d, verified[e], Heard, e = tieBreaker) /\ Keeps(c, d)
    <2> HIDE DEF g
    <2>1. /\ Good(Put(c, "ICE_FAILED"), verified[e], Heard, e = tieBreaker)
          /\ Keeps(c, Put(c, "ICE_FAILED"))
        BY <1>5, PutsFailed
    <2>2. Keeps(c, c)
        BY DEF Keeps, Grows, Hears
    <2> QED
        BY <1>4, <1>5, <2>1, <2>2
<1>7. /\ g \in Connection
      /\ g.checkList = d.checkList /\ g.remoteCandidates = d.remoteCandidates
      /\ g.nominated = NoPair /\ g.checkListDone = d.checkListDone
      /\ g.iceControlling = d.iceControlling /\ 1 \notin g.sockets
      /\ g.checkListState = d.checkListState
      /\ g.remoteCandidatesEnd = d.remoteCandidatesEnd
      /\ g.connect = d.connect /\ g.state = d.state
    BY <1>6 DEF Good, Connection
<1> HIDE DEF g
<1>8. Good(g, verified[e], Heard, e = tieBreaker) /\ Keeps(d, g)
    <2>1. ASSUME NEW q \in PairId PROVE PairShows(g, q, verified[e], Heard, e = tieBreaker)
        <3>1. PairShows(d, q, verified[e], Heard, e = tieBreaker)
            BY <1>6 DEF Good, Sound
        <3> QED
            BY <1>7, <3>1 DEF PairShows
    <2>2. ResultIsKept(g)
        BY <1>6, <1>7 DEF Good, Sound, ResultIsKept, Waiting
    <2> QED
        BY <1>7, <2>1, <2>2 DEF Good, Sound, Keeps, Grows, Hears, Waiting
<1>9. /\ requests' \subseteq Request /\ offers' \subseteq Endpoint /\ moreOffers' \in 0 .. MaxOffers
      /\ verified' = [verified EXCEPT ![e] = verified[e]] /\ verified[e] \subseteq Path
    BY DEF Close, IInv, TypeOK
<1>10. Grows(ice[e], g) /\ g.iceControlling = ice[e].iceControlling
    BY <1>5, <1>6, <1>8 DEF Keeps, Grows, Hears
<1> QED
    BY <1>3, <1>8, <1>9, <1>10, GrowingIsRight, OneEnd DEF Close

LEMMA CloseSocketStep ==
    ASSUME IInv, NEW e \in Endpoint, CloseSocket(e)
    PROVE  IInv' /\ RolesChangeRightly /\ WaitingRightly
<1>1. PICK path \in ice[e].sockets : ice' = [ice EXCEPT ![e].sockets = @ \ {path}]
    BY DEF CloseSocket
<1> DEFINE c == ice[e]
           d == [c EXCEPT !.sockets = @ \ {path}]
<1>2. c \in Connection /\ Good(c, verified[e], Heard, e = tieBreaker)
    BY EndsAreGood
<1>3. /\ d \in Connection
      /\ d.checkList = c.checkList /\ d.remoteCandidates = c.remoteCandidates
      /\ d.nominated = c.nominated /\ d.checkListDone = c.checkListDone
      /\ d.iceControlling = c.iceControlling /\ d.sockets = c.sockets \ {path}
      /\ d.checkListState = c.checkListState
      /\ d.remoteCandidatesEnd = c.remoteCandidatesEnd
      /\ d.connect = c.connect /\ d.state = c.state
    BY <1>2 DEF Connection
<1>4. ice' = [ice EXCEPT ![e] = d]
    BY <1>1 DEF IInv, TypeOK
<1> HIDE DEF c, d
<1>5. ASSUME NEW q \in PairId PROVE PairShows(d, q, verified[e], Heard, e = tieBreaker)
    <2>1. PairShows(c, q, verified[e], Heard, e = tieBreaker)
        BY <1>2 DEF Good, Sound
    <2> QED
        BY <1>3, <2>1 DEF PairShows
<1>6. ResultIsKept(d)
    BY <1>2, <1>3 DEF Good, Sound, ResultIsKept, Waiting
<1>7. Good(d, verified[e], Heard, e = tieBreaker) /\ Keeps(c, d)
    BY <1>2, <1>3, <1>5, <1>6 DEF Good, Sound, Keeps, Grows, Hears, Waiting
<1>8. /\ requests' \subseteq Request /\ offers' \subseteq Endpoint /\ moreOffers' \in 0 .. MaxOffers
      /\ verified' = [verified EXCEPT ![e] = verified[e]] /\ verified[e] \subseteq Path
    BY DEF CloseSocket, IInv, TypeOK
<1> QED
    BY <1>4, <1>7, <1>8, GrowingIsRight, OneEnd DEF CloseSocket, Keeps, c

LEMMA PairsAreAnswered ==
    ASSUME NEW p \in Pair, NEW answers \in SUBSET {"success", "role conflict"}
    PROVE  LET q == [p EXCEPT !.answers = @ \cup answers]
           IN  /\ q \in Pair /\ q.state = p.state /\ q.check = p.check
               /\ q.nominated = p.nominated /\ q.remoteNominated = p.remoteNominated
               /\ q.answers = p.answers \cup answers
    BY DEF Pair

\* The pair and its connection when its request is answered.
AnsweredPair(c, pr, answers) == [c.checkList[pr] EXCEPT !.answers = @ \cup answers]
Answered(c, pr, answers) == WithPair(c, pr, AnsweredPair(c, pr, answers))

LEMMA ConnectionsAreAnswered ==
    ASSUME NEW c \in Connection, NEW pr \in PairId,
           NEW answers \in SUBSET {"success", "role conflict"}
    PROVE  LET q == AnsweredPair(c, pr, answers)
               d == Answered(c, pr, answers)
           IN  /\ d = WithPair(c, pr, q)
               /\ q \in Pair /\ q.state = c.checkList[pr].state
               /\ q.check = c.checkList[pr].check
               /\ q.nominated = c.checkList[pr].nominated
               /\ q.remoteNominated = c.checkList[pr].remoteNominated
               /\ q.answers = c.checkList[pr].answers \cup answers
               /\ d \in Connection /\ d.checkList[pr] = q
               /\ d.remoteCandidates = c.remoteCandidates /\ Keeps(c, d)
<1> DEFINE q == AnsweredPair(c, pr, answers)
           d == WithPair(c, pr, q)
<1>1. c.checkList[pr] \in Pair
    BY DEF Connection
<1>2. /\ q \in Pair /\ q.state = c.checkList[pr].state /\ q.check = c.checkList[pr].check
      /\ q.nominated = c.checkList[pr].nominated
      /\ q.remoteNominated = c.checkList[pr].remoteNominated
      /\ q.answers = c.checkList[pr].answers \cup answers
    BY <1>1, PairsAreAnswered DEF AnsweredPair
<1> HIDE DEF q
<1>3. /\ d \in Connection /\ d.checkList[pr] = q
      /\ d.remoteCandidates = c.remoteCandidates /\ d.iceControlling = c.iceControlling
      /\ d.connect = c.connect /\ c.remoteCandidates \subseteq PairId
      /\ \A h \in PairId : d.checkList[h] = IF h = pr THEN q ELSE c.checkList[h]
    <2>1. ASSUME NEW p \in Pair
          PROVE  LET k == WithPair(c, pr, p)
                 IN  /\ k \in Connection /\ k.checkList[pr] = p
                     /\ k.remoteCandidates = c.remoteCandidates
                     /\ k.iceControlling = c.iceControlling /\ k.connect = c.connect
                     /\ \A h \in PairId : k.checkList[h] = IF h = pr THEN p ELSE c.checkList[h]
        BY PairChanges
    <2>2. c.remoteCandidates \subseteq PairId
        BY DEF Connection
    <2> QED
        BY <1>2, <2>1, <2>2
<1> HIDE DEF d
<1>4. Keeps(c, d)
    BY <1>2, <1>3 DEF Keeps, Grows, Hears, Waiting
<1> QED
    BY <1>2, <1>3, <1>4 DEF d, q, Answered

\* What is heard more is heard by d.
HeardWith(d, heard) ==
    \A path \in heard \ Heard : /\ path \in Path
                                /\ \E pr \in d.remoteCandidates :
                                      pr.path = path /\ d.checkList[pr].remoteNominated

\* What the answers to m at e say.
AnswersAreTrue(e, m, answers, heard) ==
    /\ "success" \in answers /\ m.controlling => m.path \in heard
    /\ "role conflict" \in answers =>
           IF m.controlling THEN e = tieBreaker ELSE e # tieBreaker

\* What an answer does to the end that asked.
LEMMA Responds ==
    ASSUME IInv, NEW e \in Endpoint, NEW m \in Request, m.from = Peer(e),
           UNCHANGED <<paths, tieBreaker, offers, moreOffers, verified>>,
           NEW answers \in SUBSET {"success", "role conflict"}, NEW d,
           Respond(e, m, answers, d), Grows(ice[e], d),
           NEW heard, Good(d, verified[e], heard, e = tieBreaker),
           HeardWith(d, heard), AnswersAreTrue(e, m, answers, heard)
    PROVE  /\ IInv' /\ WaitingRightly
           /\ \A f \in Endpoint :
                 ice'[f].iceControlling = IF f = e THEN d.iceControlling
                                                   ELSE ice[f].iceControlling
<1> DEFINE f == m.from
           c == ice[f]
<1>1. /\ f \in Endpoint /\ f # e /\ \A h \in Endpoint : h = e \/ h = f
      /\ e = tieBreaker <=> f # tieBreaker
    BY DEF Endpoint, Offerer, Answerer, Peer, IInv, TypeOK
<1>2. /\ c \in Connection /\ Good(c, verified[f], Heard, f = tieBreaker)
      /\ c.remoteCandidates \subseteq PairId /\ ice \in [Endpoint -> Connection]
    BY <1>1, EndsAreGood DEF IInv, TypeOK
<1>3. d \in Connection
    BY DEF Good
<1>4. /\ ice' \in [Endpoint -> Connection] /\ ice'[e] = d
      /\ \/ ice'[f] = c
         \/ \E pr \in c.remoteCandidates :
               /\ pr.path = m.path /\ c.checkList[pr].check # "none"
               /\ m.controlling = (c.checkList[pr].check # "controlled")
               /\ ice'[f] = Answered(c, pr, answers)
    <2>1. CASE ice' = [ice EXCEPT ![e] = d]
        BY <1>1, <1>2, <1>3, <2>1
    <2>2. ASSUME NEW pr \in {q \in c.remoteCandidates : q.path = m.path},
                 c.checkList[pr].check # "none",
                 m.controlling = (c.checkList[pr].check # "controlled"),
                 ice' = [ice EXCEPT ![e] = d,
                                    ![m.from].checkList[pr].answers = @ \cup answers]
          PROVE  /\ ice' \in [Endpoint -> Connection] /\ ice'[e] = d
                 /\ ice'[f] = Answered(c, pr, answers)
        <3>1. ice'[f] = Answered(c, pr, answers) /\ ice'[e] = d /\ DOMAIN ice' = Endpoint
            BY <1>1, <1>2, <2>2 DEF WithPair, Answered, AnsweredPair
        <3>2. pr \in PairId /\ c.checkList[pr] \in Pair
            BY <1>2 DEF Connection
        <3>3. Answered(c, pr, answers) \in Connection
            BY <1>2, <3>2, ConnectionsAreAnswered
        <3> HIDE DEF c, f
        <3> QED
            BY <1>1, <1>2, <1>3, <2>2, <3>1, <3>3
    <2> QED
        BY <2>1, <2>2 DEF Respond
<1> HIDE DEF c, f
<1>5. ASSUME NEW pr \in PairId
      PROVE  LET q == AnsweredPair(c, pr, answers)
                 d2 == Answered(c, pr, answers)
             IN  /\ d2 = WithPair(c, pr, q)
                 /\ q \in Pair /\ q.state = c.checkList[pr].state
                 /\ q.check = c.checkList[pr].check
                 /\ q.nominated = c.checkList[pr].nominated
                 /\ q.remoteNominated = c.checkList[pr].remoteNominated
                 /\ q.answers = c.checkList[pr].answers \cup answers
                 /\ d2 \in Connection /\ d2.checkList[pr] = q
                 /\ d2.remoteCandidates = c.remoteCandidates /\ Keeps(c, d2)
    <2>1. c \in Connection
        BY <1>2
    <2> QED
        BY <2>1, ConnectionsAreAnswered
<1>6. Grows(c, ice'[f]) /\ ice'[f].iceControlling = c.iceControlling
    <2>1. CASE ice'[f] = c
        BY <2>1 DEF Grows, Hears
    <2>2. CASE ice'[f] # c
        BY <1>2, <1>4, <1>5, <2>2 DEF Keeps
    <2> QED
        BY <2>1, <2>2
<1>7. Heard \subseteq Heard'
    BY <1>1, <1>4, <1>6, GrowingIsRight, HeardGrows DEF c
<1>8. heard \subseteq Heard'
    <2> SUFFICES ASSUME NEW path \in heard \ Heard PROVE path \in Heard'
        BY <1>7
    <2> QED
        BY <1>4 DEF Heard, HeardWith
<1>9. Good(ice'[e], verified'[e], Heard', e = tieBreaker)
    BY <1>4, <1>8, MoreIsGood
<1>10. Good(ice'[f], verified'[f], Heard', f = tieBreaker)
    <2>1. Good(c, verified[f], Heard', f = tieBreaker)
        BY <1>2, <1>7, MoreIsGood
    <2>2. CASE ice'[f] = c
        BY <2>1, <2>2
    <2>3. ASSUME NEW pr \in c.remoteCandidates,
                 pr.path = m.path, c.checkList[pr].check # "none",
                 m.controlling = (c.checkList[pr].check # "controlled"),
                 ice'[f] = Answered(c, pr, answers)
          PROVE  Good(ice'[f], verified'[f], Heard', f = tieBreaker)
        <3> DEFINE q == AnsweredPair(c, pr, answers)
        <3>1. pr \in PairId
            BY <1>2
        <3>2. /\ Answered(c, pr, answers) = WithPair(c, pr, q)
              /\ q \in Pair /\ q.state = c.checkList[pr].state
              /\ q.check = c.checkList[pr].check
              /\ q.nominated = c.checkList[pr].nominated
              /\ q.remoteNominated = c.checkList[pr].remoteNominated
              /\ q.answers = c.checkList[pr].answers \cup answers
              /\ Answered(c, pr, answers).checkList[pr] = q
              /\ Answered(c, pr, answers).remoteCandidates = c.remoteCandidates
            BY <1>5, <3>1
        <3> HIDE DEF q
        <3>3. PairShows(c, pr, verified[f], Heard', f = tieBreaker)
            BY <2>1, <3>1 DEF Good, Sound
        <3>4. PairShows(Answered(c, pr, answers), pr, verified[f], Heard', f = tieBreaker)
            BY <1>1, <1>8, <2>3, <3>2, <3>3 DEF PairShows, AnswersAreTrue
        <3>5. Good(WithPair(c, pr, q), verified[f], Heard', f = tieBreaker)
            BY <2>1, <3>1, <3>2, <3>4, PairSound
        <3> QED
            BY <2>3, <3>2, <3>5
    <2> QED
        BY <1>4, <2>2, <2>3
<1>11. requests' \subseteq Request
    BY <1>3, SentAreRequests DEF Respond, IInv, TypeOK
<1>12. /\ offers' \subseteq Endpoint /\ moreOffers' \in 0 .. MaxOffers
       /\ verified' \in [Endpoint -> SUBSET Path]
    BY DEF IInv, TypeOK
<1>13. IInv'
    BY <1>1, <1>4, <1>9, <1>10, <1>11, <1>12, GoodSteps
<1>14. WaitingRightly
    BY <1>1, <1>4, <1>6, GrowingIsRight DEF WaitingRightly, c
<1> QED
    BY <1>1, <1>4, <1>6, <1>13, <1>14 DEF c

LEMMA ReceiveRequestStep ==
    ASSUME IInv, NEW e \in Endpoint, ReceiveRequest(e)
    PROVE  IInv' /\ RolesChangeRightly /\ WaitingRightly
<1> DEFINE c == ice[e]
           yielding == [c EXCEPT !.iceControlling = FALSE]
           claiming == [c EXCEPT !.iceControlling = TRUE]
<1>1. PICK m \in requests :
          /\ m.from = Peer(e)
          /\ \/ /\ c.iceControlling /\ m.controlling /\ e = tieBreaker
                /\ Respond(e, m, {"role conflict"}, c)
             \/ /\ c.iceControlling /\ m.controlling /\ e # tieBreaker
                /\ Respond(e, m, {"success"}, CheckIncoming(yielding, m.path, TRUE))
             \/ /\ ~c.iceControlling /\ ~m.controlling /\ e # tieBreaker
                /\ Respond(e, m, {"role conflict", "success"}, CheckIncoming(c, m.path, FALSE))
             \/ /\ ~c.iceControlling /\ ~m.controlling /\ e = tieBreaker
                /\ Respond(e, m, {}, claiming)
             \/ /\ c.iceControlling # m.controlling
                /\ Respond(e, m, {"success"}, CheckIncoming(c, m.path, m.controlling))
    BY DEF ReceiveRequest, ConflictLost
<1>2. /\ m \in Request /\ m.path \in Path /\ m.controlling \in BOOLEAN /\ m.from = Peer(e)
      /\ UNCHANGED <<paths, tieBreaker, offers, moreOffers, verified>>
    BY <1>1 DEF IInv, TypeOK, Request, ReceiveRequest
<1>3. Good(c, verified[e], Heard, e = tieBreaker) /\ c \in Connection
    BY EndsAreGood
<1>4. /\ Good(yielding, verified[e], Heard, e = tieBreaker) /\ Grows(c, yielding)
      /\ Good(claiming, verified[e], Heard, e = tieBreaker) /\ Grows(c, claiming)
    BY <1>3, RolesAreFree
<1>5. ~yielding.iceControlling /\ claiming.iceControlling
    BY <1>3 DEF Connection
<1> HIDE DEF yielding, claiming
\* An answer and what this end becomes with it.
<1>6. ASSUME NEW d, NEW answers \in SUBSET {"success", "role conflict"},
             Respond(e, m, answers, d), Grows(c, d), NEW heard,
             Good(d, verified[e], heard, e = tieBreaker),
             HeardWith(d, heard), AnswersAreTrue(e, m, answers, heard),
             d.iceControlling # c.iceControlling =>
                 IF d.iceControlling THEN e = tieBreaker ELSE e # tieBreaker
      PROVE  IInv' /\ RolesChangeRightly /\ WaitingRightly
    <2>1. /\ IInv' /\ WaitingRightly
          /\ \A f \in Endpoint :
                ice'[f].iceControlling = IF f = e THEN d.iceControlling
                                                  ELSE ice[f].iceControlling
        BY <1>2, <1>6, Responds
    <2> QED
        BY <1>6, <2>1 DEF RolesChangeRightly
\* What checkIncoming makes of it.
<1>7. ASSUME NEW k, Good(k, verified[e], Heard, e = tieBreaker), NEW useCandidate \in BOOLEAN
      PROVE  LET d == CheckIncoming(k, m.path, useCandidate)
                 heard == IF useCandidate /\ ~k.iceControlling
                          THEN Heard \cup {m.path} ELSE Heard
             IN  /\ Good(d, verified[e], heard, e = tieBreaker) /\ Keeps(k, d)
                 /\ HeardWith(d, heard)
    <2> DEFINE d == CheckIncoming(k, m.path, useCandidate)
               heard == IF useCandidate /\ ~k.iceControlling
                        THEN Heard \cup {m.path} ELSE Heard
    <2>1. Good(k, verified[e], heard, e = tieBreaker)
        BY <1>7, MoreIsGood
    <2>2. useCandidate /\ ~k.iceControlling => m.path \in heard
        OBVIOUS
    <2>3. heard \ Heard # {} => useCandidate /\ ~k.iceControlling
        OBVIOUS
    <2>4. \A path \in heard \ Heard : path = m.path
        OBVIOUS
    <2> HIDE DEF heard
    <2>5. /\ Good(d, verified[e], heard, e = tieBreaker) /\ Keeps(k, d)
          /\ useCandidate /\ ~k.iceControlling =>
                /\ Incoming(k, m.path) \in d.remoteCandidates
                /\ d.checkList[Incoming(k, m.path)].remoteNominated
        BY <1>2, <2>1, <2>2, ChecksIncoming
    <2>6. Incoming(k, m.path).path = m.path
        BY <1>2, <1>7, Triggers
    <2> HIDE DEF d
    <2>7. ASSUME NEW path \in heard \ Heard
          PROVE  /\ path \in Path
                 /\ \E pr \in d.remoteCandidates :
                       pr.path = path /\ d.checkList[pr].remoteNominated
        BY <1>2, <2>3, <2>4, <2>5, <2>6
    <2> QED
        BY <2>5, <2>7 DEF d, heard, HeardWith
<1>8. CASE /\ c.iceControlling /\ m.controlling /\ e = tieBreaker
           /\ Respond(e, m, {"role conflict"}, c)
    <2>1. HeardWith(c, Heard) /\ Grows(c, c)
        BY DEF HeardWith, Grows, Hears
    <2>2. AnswersAreTrue(e, m, {"role conflict"}, Heard)
        BY <1>8 DEF AnswersAreTrue
    <2> QED
        BY <1>3, <1>6, <1>8, <2>1, <2>2
<1>9. CASE /\ c.iceControlling /\ m.controlling /\ e # tieBreaker
           /\ Respond(e, m, {"success"}, CheckIncoming(yielding, m.path, TRUE))
    <2> DEFINE d == CheckIncoming(yielding, m.path, TRUE)
    <2>1. /\ Good(d, verified[e], Heard \cup {m.path}, e = tieBreaker) /\ Keeps(yielding, d)
          /\ HeardWith(d, Heard \cup {m.path})
        BY <1>4, <1>5, <1>7
    <2> HIDE DEF d
    <2>2. Grows(c, d) /\ ~d.iceControlling
        BY <1>4, <1>5, <2>1 DEF Keeps, Grows, Hears
    <2>3. AnswersAreTrue(e, m, {"success"}, Heard \cup {m.path})
        BY DEF AnswersAreTrue
    <2> QED
        BY <1>6, <1>9, <2>1, <2>2, <2>3 DEF d
<1>10. CASE /\ ~c.iceControlling /\ ~m.controlling /\ e # tieBreaker
            /\ Respond(e, m, {"role conflict", "success"}, CheckIncoming(c, m.path, FALSE))
    <2> DEFINE d == CheckIncoming(c, m.path, FALSE)
    <2>1. Good(d, verified[e], Heard, e = tieBreaker) /\ Keeps(c, d) /\ HeardWith(d, Heard)
        BY <1>3, <1>7
    <2> HIDE DEF d
    <2>2. AnswersAreTrue(e, m, {"role conflict", "success"}, Heard)
        BY <1>10 DEF AnswersAreTrue
    <2> QED
        BY <1>6, <1>10, <2>1, <2>2 DEF d, Keeps
<1>11. CASE /\ ~c.iceControlling /\ ~m.controlling /\ e = tieBreaker
            /\ Respond(e, m, {}, claiming)
    <2>1. HeardWith(claiming, Heard) /\ AnswersAreTrue(e, m, {}, Heard)
        BY DEF HeardWith, AnswersAreTrue
    <2> QED
        BY <1>4, <1>5, <1>6, <1>11, <2>1
<1>12. CASE /\ c.iceControlling # m.controlling
            /\ Respond(e, m, {"success"}, CheckIncoming(c, m.path, m.controlling))
    <2> DEFINE d == CheckIncoming(c, m.path, m.controlling)
               heard == IF m.controlling /\ ~c.iceControlling
                        THEN Heard \cup {m.path} ELSE Heard
    <2>1. /\ Good(d, verified[e], heard, e = tieBreaker) /\ Keeps(c, d)
          /\ HeardWith(d, heard)
        BY <1>2, <1>3, <1>7
    <2>2. AnswersAreTrue(e, m, {"success"}, heard)
        BY <1>2, <1>3, <1>12 DEF Connection, AnswersAreTrue
    <2> HIDE DEF d, heard
    <2> QED
        BY <1>6, <1>12, <2>1, <2>2 DEF d, Keeps
<1> QED
    BY <1>1, <1>8, <1>9, <1>10, <1>11, <1>12

-----------------------------------------------------------------------------
(* Theorems *)

LEMMA InitHolds == Init => IInv
<1> SUFFICES ASSUME Init PROVE IInv
    OBVIOUS
<1>1. PICK s \in Scenarios :
          /\ paths = s.paths
          /\ ice = [e \in Endpoint |->
                 [iceControlling |-> e = Offerer, remoteParams |-> e = Answerer,
                  remoteCandidates |-> IF e \in s.late THEN {} ELSE {Signalled(p) : p \in s.paths},
                  remoteCandidatesEnd |-> e \notin s.late, lookups |-> {},
                  checkList |-> [pr \in PairId |-> FreshPair],
                  nominated |-> NoPair, nominating |-> FALSE, checkListDone |-> FALSE,
                  checkListState |-> {}, connect |-> "idle", state |-> "completed",
                  sockets |-> s.paths]]
          /\ moreOffers = s.offers
    BY DEF Init
<1>2. s.paths \subseteq Path /\ s.offers \in 0 .. MaxOffers
    BY ScenarioAssumption, BoundsAssumption DEF Scenario, Path
<1>3. FreshPair \in Pair
    BY DEF FreshPair, Pair, Check
<1>4. ASSUME NEW e \in Endpoint
      PROVE  ice[e] \in Connection /\ ice[e].checkList = [pr \in PairId |-> FreshPair]
                 /\ ice[e].nominated = NoPair /\ ~ice[e].checkListDone
                 /\ ice[e].checkListState = {} /\ ice[e].connect = "idle"
                 /\ ice[e].state = "completed"
    <2>1. (e = Offerer) \in BOOLEAN /\ (e = Answerer) \in BOOLEAN /\ (e \notin s.late) \in BOOLEAN
        OBVIOUS
    <2>2. (IF e \in s.late THEN {} ELSE {Signalled(p) : p \in s.paths}) \in SUBSET PairId
        BY <1>2, PairIds
    <2>3. [pr \in PairId |-> FreshPair] \in [PairId -> Pair]
        BY <1>3
    <2> QED
        BY <1>1, <1>2, <2>1, <2>2, <2>3 DEF Connection
<1>5. TypeOK
    <2>1. ice \in [Endpoint -> Connection]
        BY <1>1, <1>4
    <2> QED
        BY <1>1, <1>2, <2>1 DEF Init, TypeOK
<1>6. ASSUME NEW e \in Endpoint
      PROVE  Sound(ice[e], verified[e], Heard, e = tieBreaker)
    <2>1. ASSUME NEW pr \in PairId
          PROVE  PairShows(ice[e], pr, verified[e], Heard, e = tieBreaker)
        <3>1. ice[e].checkList[pr] = FreshPair
            BY <1>4
        <3>2. /\ FreshPair.state # "SUCCEEDED" /\ ~FreshPair.nominated
              /\ ~FreshPair.remoteNominated /\ FreshPair.answers = {}
            BY DEF FreshPair
        <3> QED
            BY <3>1, <3>2 DEF PairShows
    <2>2. ResultIsKept(ice[e])
        BY <1>4 DEF ResultIsKept
    <2> QED
        BY <1>4, <2>1, <2>2 DEF Sound
<1> QED
    BY <1>4, <1>5, <1>6 DEF IInv

LEMMA NextKeeps ==
    ASSUME IInv, [Next]_vars PROVE IInv' /\ RolesChangeRightly /\ WaitingRightly
<1>1. CASE Next
    <2>1. PICK e \in Endpoint :
              \/ Connect(e) \/ Schedule(e) \/ AddRemoteCandidate(e) \/ LookUpCandidate(e)
              \/ CandidateFound(e) \/ LookupFails(e) \/ EndOfCandidates(e)
              \/ Offer(e) \/ Answer(e) \/ ReceiveRequest(e) \/ ReceiveSuccess(e)
              \/ ReceiveConflict(e) \/ CheckFails(e) \/ Close(e) \/ CloseSocket(e)
        BY <1>1 DEF Next
    <2> QED
        BY <2>1, ConnectStep, ScheduleStep, AddRemoteCandidateStep, LookUpCandidateStep,
           CandidateFoundStep, LookupFailsStep, EndOfCandidatesStep, OfferStep, AnswerStep,
           ReceiveRequestStep, ReceiveSuccessStep, ReceiveConflictStep, CheckFailsStep, CloseStep, CloseSocketStep
<1>2. CASE UNCHANGED vars
    <2>1. Heard' = Heard
        BY <1>2 DEF vars, Heard
    <2>2. TypeOK'
        BY <1>2 DEF vars, IInv, TypeOK
    <2> QED
        BY <1>2, <2>1, <2>2 DEF vars, IInv, RolesChangeRightly, WaitingRightly, LeavesNone
<1> QED
    BY <1>1, <1>2

\* What the messages and flags of two endpoints mean holds for every number of paths and
\* offers, late candidates and all (Connection).
THEOREM Invariance == Spec => []IInv
<1>1. IInv /\ [Next]_vars => IInv'
    BY NextKeeps
<1> QED
    BY <1>1, InitHolds, PTL DEF Spec

\* Every variable has its type.
THEOREM TypeCorrect == Spec => []TypeOK
<1>1. IInv => TypeOK
    BY DEF IInv
<1> QED
    BY <1>1, Invariance, PTL

\* What an end sends its data on was checked by itself, and a nomination of it was heard
\* (checkStart, checkIncoming, checkComplete).
THEOREM NominationEarned == Spec => []NominationIsEarned
<1>1. IInv => NominationIsEarned
    <2> SUFFICES ASSUME IInv, NEW e \in Endpoint, ice[e].nominated # NoPair
                 PROVE  LET path == ice[e].nominated.path
                        IN  /\ path \in verified[e]
                            /\ \E f \in Endpoint : \E pr \in ice[f].remoteCandidates :
                                  pr.path = path /\ ice[f].checkList[pr].remoteNominated
        BY DEF NominationIsEarned
    <2>1. ice[e].nominated.path \in verified[e] \cap Heard
        BY DEF IInv, Sound
    <2> QED
        BY <2>1 DEF Heard
<1> QED
    BY <1>1, Invariance, PTL

\* Once connect() waits, no pair begins to wait for a check, unless a name is found late;
\* and it left none behind (connect, addRemoteCandidate).
THEOREM WaitingServed == Spec => WaitingIsServed
<1>1. IInv /\ [Next]_vars =>
          [\A e \in Endpoint :
              ice'[e].connect = "waiting" /\ ice'[e].state # "closed" /\ ~ice'[e].checkListDone =>
                  \/ Waiting(ice'[e]) \subseteq
                         IF ice[e].connect = "waiting" THEN Waiting(ice[e]) ELSE {}
                  \/ CandidateFound(e)]_vars
    BY NextKeeps DEF WaitingRightly, LeavesNone
<1> QED
    BY <1>1, Invariance, PTL DEF Spec, WaitingIsServed

\* A nomination reaches connect() (checkListState).
THEOREM CompletionKept == Spec => []CompletionIsKept
<1>1. IInv => CompletionIsKept
    BY DEF IInv, Sound, ResultIsKept, CompletionIsKept
<1> QED
    BY <1>1, Invariance, PTL

\* A connection that says it is connected, and was not closed, can send (connect, close).
THEOREM ConnectedPath == Spec => []ConnectedHasPath
<1>1. IInv => ConnectedHasPath
    BY DEF IInv, Sound, ResultIsKept, ConnectedHasPath
<1> QED
    BY <1>1, Invariance, PTL

\* Only offers and answers work against the greater tie-breaker (requestReceived,
\* checkStart).
THEOREM TieBreakerDecides == Spec => GreaterControls
<1>1. IInv /\ [Next]_vars =>
          [\A e \in Endpoint : ice'[e].iceControlling # ice[e].iceControlling =>
               IF ice'[e].iceControlling THEN e = tieBreaker \/ Offer(e)
               ELSE e # tieBreaker \/ Answer(e)]_vars
    BY NextKeeps DEF RolesChangeRightly
<1> QED
    BY <1>1, Invariance, PTL DEF Spec, GreaterControls
=============================================================================
