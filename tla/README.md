# A TLA+ model of fudano

fudano is a WebRTC data channel stack in TypeScript (ICE, DTLS, SCTP, data channels,
`RTCPeerConnection`) that runs on Node. It has no unit tests of its own protocol code. This directory
models its state machines in TLA+, checks them with TLC on small instances, and proves the central
results with TLAPS for all values of the constants.

Paths are given from the directory that holds the checkout `src/`, so `src/src/sctp/sctp.ts` is the
file `src/sctp/sctp.ts` of the repository. `PROJECT.json` maps each definition to its lines.

## 1. Inventory

All code runs on one Node event loop. "Concurrent" below therefore means: packets, timers,
`setImmediate` callbacks, continuations after an `await` and calls of the user come in any order,
each running to its next `await`. One action of a model is one such uninterrupted piece.

| Part | State it keeps | Operations | Talks to | What is hard |
|---|---|---|---|---|
| **SCTP association** `sctp/sctp.ts` | `associationState`, `state`, tags, T1, T2 | `start`, `stop`, `abort`, chunk handlers, timer callbacks | packets through DTLS; `stateChanged` events to the data channels | a T1 callback and the `setImmediate` it defers to; repeated, late and reordered chunks, some of them before `start()`; closing in every state |
| **SCTP receiving** `sctp/sctp.ts`, `common/number.ts` | cumulative TSN, misordered TSNs, SACK due | `markReceived`, `receiveForwardTsnChunk`, `sendSack`, INIT | sender at the other end | wrap-around, the order `sort()` gives, packing of gaps, exceptions before the SACK |
| **SCTP sending** `sctp/sctp.ts` | next TSN, stream sequence numbers | `send` | data channels | little: SACKs are ignored, nothing is retransmitted |
| **Data channels** `transport/sctp.ts`, `dataChannel.ts`, reset part of `sctp/sctp.ts` | channel objects, `dataChannels` by id, `dataChannelQueue`, `reconfigQueue`, `reconfigRequest`, its timer | create, send, close, OPEN, ACK, RECONFIG request and response, timer | association state; the peer's channels | both ends open and close at once; ids used again; a response for an older request; closing before the association is there |
| **DTLS handshake** `dtls/` | flight, cached messages, randoms and keys, cookie | flights 1 to 6, `Flight.transmit` loops, `waitForReady` | UDP below, `RTCDtlsTransport` above | several retransmission loops asleep at once, handlers that poll, restarts of flight 2, late messages of a finished handshake |
| **DTLS transport** `transport/dtls.ts` | `connecting`, `connected`, `failed`, `closed` | `start`, `stop` | handshake, SCTP | errors while connecting |
| **DTLS records and ciphers** `dtls/record`, `dtls/cipher`, `dtls/handshake` | none that decides | encode, decode | handshake | pure |
| **ICE checks** `ice/ice.ts`, `ice/helper.ts`, `ice/candidate.ts` | check list, pair states, nomination, role, tie breaker, early checks, consent | `connect`, `checkStart`, `checkIncoming`, `requestReceived`, `checkComplete`, `queryConsent`, `close` | STUN, `RTCIceTransport` | requests that arrive before candidates; names looked up while the checks go on; role conflict; checks that finish after nomination or close |
| **ICE transport and gatherer** `transport/ice.ts` | `state`, gathering state | `start`, `stop`, `addRemoteCandidate` | ICE | start and stop in any order |
| **STUN transactions** `ice/stun/` | tries, timer, promise | `run`, `responseReceived`, retry | ICE, TURN | late answers after the timeout |
| **TURN client** `ice/turn/protocol.ts` | allocation, channels, refresh | `connect`, `getChannel`, `sendData`, refresh | STUN | two sends that both bind a channel |
| **RTCPeerConnection** `peerConnection.ts` | signalling state, descriptions, transports | offer, answer, set descriptions, `connect`, `close` | all of the above | promises that are never settled; `close` in the middle of `connect` |
| **SDP**, **network and DNS**, **utilities and media stubs** | none or a cache | parse, format, bind a port | | pure code or I/O |

What makes each part correct:

* association: the ends agree on the tags, nothing waits without a timer, no timer outlives what it
  was for, `closed` is final and silent;
* receiving: the cumulative TSN is earned and moves only forward, no arrival is forgotten, a SACK says
  nothing untrue;
* data channels: one live channel per id, a request for every id that waits, a completion only for the
  request that was performed, closed stays closed, closing ends;
* DTLS: both ends use one key, an end that waits is timed, the handshake ends;
* ICE: an end sends only on a pair it checked and that was nominated, no pair waits for a check nobody
  starts unless its name is found late, no nomination is lost on its way to `connect`, a role conflict
  ends for the greater tie-breaker; a working connection is not closed for want of consent, and a dead one is in the end;
* fragments: a message is handed on whole or not at all, and a flight that comes in order is enough;
* TURN: every send settles, the allocation does not lapse while it is refreshed, and data is given the
  address of the peer it came from;
* `RTCPeerConnection`: an answer is compared with its offer, a wish to negotiate is not forgotten,
  `connected` is said only when it is so, closed stays closed.

## 2. Modules

| Module | Models | Uses |
|---|---|---|
| `AssociationService` | the abstract association: what the data channel layer is told | |
| `SctpAssociation` | handshake, T1, T2, abort, stop of both endpoints | implements `AssociationService` |
| `SctpAssociationProofs` | theorems about it | |
| `Tsn` | serial number arithmetic modulo `2 * Half` | |
| `SctpReceive` | cumulative TSN, misordered TSNs, FORWARD-TSN, SACK | `Tsn` |
| `SctpReceiveProofs` | theorems about it and `Tsn` | |
| `DataChannel` | ids, OPEN/ACK, queues, stream reset of both endpoints | |
| `DataChannelProofs` | theorems about it | |
| `DtlsHandshake` | flights, loops, polling handlers of client and server, transport state | |
| `DtlsHandshakeProofs` | theorems about it | |
| `HandshakeFragments` | the messages of a DTLS flight in fragments, datagrams, buffer and cache | |
| `HandshakeFragmentsProofs` | theorems about it | |
| `IceChecks` | check lists, roles, nomination, late candidates, `connect` and `close` of two ends | |
| `IceChecksProofs` | theorems about it | |
| `IceTransport` | one connection from gathering to close, with its transport, gatherer and consent: the state, its steps and what they change | |
| `PeerConnection` | offers and answers, `connect`, `close`, `negotiationneeded` and the reported states, over ICE, DTLS and SCTP transports | `IceTransport` |
| `PeerConnectionProofs` | theorems about it | |
| `TurnClient` | allocation, refresh, the one channel and the sends that share it, with the server's lifetimes | |
| `TurnClientProofs` | theorems about it | |
| `MC*` | the module a run starts from | |

An operator called "Variant" in a comment is not used by any specification. It is a plausible mistake
in the definition after it; each property is checked to fail when its variant takes the place of the
definition (`mutants` in `PROJECT.json`), which shows that the property depends on the code.

### 2.1 SctpAssociation

Every variable but `net` and `cookieStale` is a function of the endpoint: `assoc` is
`associationState`, `conn` is `state`, `remoteTag` is `remoteVerificationTag`, `t1` and `t2` are the
handles, chunks and failure counts of the timers plus whether a `setImmediate` is pending. The local
tag of an endpoint is the endpoint's name. `net` only grows, and receiving takes nothing away: loss,
repetition and reordering are all included.

`StartClient`, `StartServer`, `Stop`, `DtlsClosed` are the calls from outside (`start` with `init`,
`stop` with `abort`, the listener in `transport/sctp.ts`). Each `Handle...` action is one chunk type of
`receiveChunk` after the tag check of `handleData`. `T1Expired` is `timer1Expired` up to its
`setImmediate`, `T1Deferred` the deferred callback. A retransmission and the next timeout cannot
overlap: the guard `~t1[e].deferred` says that the check phase of the loop comes before its next
timers phase. `CookieExpires` and `PeerShutdown` are the environment: time, and a peer of another
stack, since fudano never sends SHUTDOWN.

The client speaks only after `start()`. The server does not need it: its remote port is set with the
remote description (`peerConnection.ts:562`, `sctp.ts:717`), `isServer` is true from the beginning, and
DTLS hands on application data before it is connected (`dtls/socket.ts:89`). So `HandleInit` and
`HandleCookieEcho` do not ask whether the server was started, a server may be established before
`StartServer`, and `StartServer` then sets `connecting` over `connected` (`sctp.ts:724`).
`AssociationService` has both: `Accept` needs no `Begin(Server)`, and `Begin` announces `connecting`
whatever was announced before. `connect()` of the peer connection then waits for a `connected` that has
passed (`peerConnection.ts:439`); that it may wait for ever is not a property of this module, and
`PeerConnection` has it as an `SctpConnects` that does not come.

Left out: HEARTBEAT (no state), stream counts, extensions, the addition of outgoing streams.

### 2.2 SctpReceive and Tsn

`Tsn` follows `common/number.ts` and the two helpers at the end of `sctp.ts`, with the remainder of
JavaScript (the sign of the dividend). `SctpReceive` has one sender and one receiver.
`sackMisOrdered` is a set; `[...set].sort()` puts it in the order of decimal strings, so `Sorted` gives
each TSN the place that the number of TSNs `Before` it says. `Steps` is the loop over the sorted TSNs
that advances the cumulative TSN; `Gaps` are the gaps of a SACK, a set, since nothing depends on the
order in which they are packed. `ReceiveData` is `receiveDataChunk` with `markReceived` and `sendSack`; the
disjunct that leaves `sackNeeded` set is the exception of the data channel layer that passes over
`sendSack`. `ReceiveInit` is the INIT case, which sets the cumulative TSN back on an established
association as well. `received` and `everReceived` are ghosts and decide nothing.

### 2.3 DataChannel

`channels[e]` are the `RTCDataChannel` objects in order of creation; `dataChannels`,
`dataChannelQueue`, `reconfigQueue`, `reconfigRequest`, `reconfigRequestSeq`, `timerReconfig` have the
names of the code; `outboundStreamSeq` is the set of ids that have a sequence number. `Flush` is
`dataChannelFlush`, its loop the recursive function `FlushItems` over the queue, and is part of every
action whose handler calls it; `Filtered` is the `filter()` of `dataChannelClose`.
`TransmitReconfigRequest` is the function of that name and is part of the actions that call it,
`Close`, `ReceiveReset`, `ReceiveResponse`. `Close(e)` is `dataChannelClose` with its two branches,
`ResetChannel` and `ForgetChannel`. `performed` is a ghost.

The association is reduced to three phases; what it may do to this layer is what `SctpAssociation`
and `AssociationService` establish, but for one thing: an end that is established has been started
and knows the parity of its ids. Where it has not, `dataChannelFlush` throws (section 3).
Left out: buffered amounts, the content of user messages, and
calls that a user's listener makes while a handler runs.

### 2.4 DtlsHandshake

`client` and `server` are records of what `DtlsClient` and `DtlsServer` and their contexts keep.
`loops[e]` are the `Flight.transmit` loops that are asleep: more than one may be, and each looks at
`dtls.flight` when it wakes (`Expire`). `waits` are the handlers of the client that poll in
`waitForReady` (`Ready`, `WaitTimeout`). `state` is the state of the `RTCDtlsTransport`.

A cookie stands for everything flight 2 draws with it: randoms, key pair and so the key derived from
them. A record can be read by whoever has the key it was written under, and by nobody else. `Wrong` is
a key from material the peer does not have. Left out: alerts, client certificates, SRTP profiles,
fragments, and the choice of the role from the certificates.

### 2.5 IceChecks

Two `Connection` objects. A path is a pair of sockets that `canPairWith` allows; a pair of the check
list is a path and how its remote candidate became known, signalled or learned from a request, since
`findPair` tells these apart. `ice[e]` has the fields of the class under their names; a member of
`checkList` counts from the moment its pair is in `remoteCandidates`. `checkListState` is the `PQueue`
of results: `Put` is `put()`, and `Resume`, run with every `Put`, is what `connect` does with what it
gets. `connect` is where `connect()` stands: `scheduling` is its loop with 20 ms sleeps, `waiting` the
`get()`. `requests` only grows; an answer goes to the transaction that waits for it (`answers`) or is
lost. `check` is the role a transaction went out with, for `checkStart` remembers it while
`iceControlling` changes; `nominating` is the second request of regular nomination.

`Schedule` is `schedulingChecks` with the end of the loop, `ReceiveRequest` is `requestReceived` with
`checkIncoming` and the triggered check, `ReceiveSuccess`, `ReceiveConflict` and `CheckFails` are what
follows the request in `checkStart`, `Offer` and `Answer` are the role that `setLocalDescription` sets,
`Close` and `CloseSocket` are `close()` before and after its first `await`. `verified` is a ghost.

`addRemoteCandidate` has one action for a candidate with an address (`AddRemoteCandidate`) and three for
a `.local` name: `LookUpCandidate` up to the `await` of `dnsLookup.lookup`, `CandidateFound` after it,
`LookupFails` when it is rejected, as it is when the worker thread has ended after another answer
(`ice/dns/lookup.ts`). `lookups` holds the names under way. Which candidates have names is left open, and
nothing that happened during a look-up is asked after it, neither the end of candidates nor where
`connect()` stands. `EndOfCandidates` comes with a description whose candidates have all been added or
are being looked up.

Left out: gathering (over before the model begins), consent (2.6), several components, a lite peer,
`forceTurn`, `filterStunResponse`, and FROZEN, for pairs are made WAITING at once. An
end-of-candidates without any candidate, which empties `_components`, is left out as well.

### 2.6 IceTransport and PeerConnection

One `RTCPeerConnection` with its only ICE, DTLS and SCTP transport (with `bundlePolicy` as it is, a
second transport is never made for data). `IceTransport` has one variable, `ice`, for the three objects
`RTCIceGatherer`, `RTCIceTransport` and `Connection`: `state` is `Connection.state`, `transport` is
`RTCIceTransport.state`, `ended` says that `onStateChange` is complete, so that `setState` still changes
the state and tells nobody. It defines its steps as operators on that record, and `PeerConnection`
composes them: an ICE step that tells of a state is one action with what `RTCPeerConnection` does when
told (`Report`, which is `updateIceConnectionState` with the subscription of the constructor).

An action is what runs without giving way to another event: a call, or a callback with the
continuations of the promises it settles. `calls[i]` is where the i-th call of `connect()` stands, one
stage per `await`: an earlier `start()` (`waiting`), gathering, checks, DTLS, SCTP. `StartConnect` is
`connect()` up to its first `await`. `SetLocalDescription` and `SetRemoteDescription` are the setters
with `validateDescription`, the change of the signalling state, the transports they make, and `connect`
where they call it; `pc.settling` is a setter that awaits gathering, `Settle` its end.
`SetRemoteDescriptionThrows` is the setter that throws half way, after it stored the description.
Of a description the model keeps the type and whether it has an application section.

The peer and the network are what the transports may do: `PairNominated` (how a pair comes to be
nominated is `IceChecks`), `DtlsConnects`, `DtlsFails`, `DtlsCloses` (see `DtlsHandshake`),
`SctpConnects`, `SctpCloses` (see `SctpAssociation`). `ConsentWakes`, `ConsentAnswered` and
`ConsentMissed` are `queryConsent`, `Close` is `close()` up to the first socket, `CloseSockets` the rest.
Candidates have addresses here; that one with a name is paired after the end of candidates is in
`IceChecks`, and would let `PairNominated` come where the model has no pair, which no property excludes.
`overtaken` is a ghost.

What one learns of the code, and no property says otherwise because no document does:

* `setLocalDescription` sets its description once more when gathering ends (`peerConnection.ts:367`),
  over a newer one if there is one (`overtaken`).
* `connect()` without a transport says `connected` at once. `buildAnswer` answers an offer whose
  transport is not there with no section, which `setLocalDescription` then refuses.
* A second `start()` after the first has ended awaits `waitStart`, which is complete, and hangs or is
  refused; one that waits sets the transport back to `checking` when the first is connected.
* Gathering ends in `completed` whatever the state was, after `close()` too, and `connect()` then checks
  on a closed connection until a result comes.
* A handshake that fails leaves `connect()` pending; the connection can go from `closed` to `failed`.
* A restart of ICE clears the nominated pair, and consent then has nothing to test.
* When consent expires the ICE connection is closed, `iceConnectionState` becomes `new`, and nothing
  closes the `RTCPeerConnection`: its `case 'closed'` is reached only when it is closed already. After
  `disconnected`, `connectionState` does not return to `connected`.
* A description without a port throws, and forgets `sctpRemotePort`, so that `connect()` skips SCTP.

### 2.7 TurnClient

`sends[s]` is where a call of `sendData` stands in `getChannel`, `channelBinding` the promise of that
name: none, pending, or rejected and never cleared. `refresh` and `slept` are the loop `refresh()`,
`server` is what the server has: the allocation and the channel, with their age. Time passes in ticks
(`Tick`) of a sixth of the lifetime; no tick passes while a transaction is under way, as seconds are
nothing against 600 s. `Lifetime` is these 600 s, the default of the client, which all its callers use:
the ALLOCATE that is sent with credentials carries no LIFETIME (`turn/protocol.ts:170-173`) and the one
the server grants is not read, so `AllocationIsKept` is about a server whose own default is not shorter. Requests and answers are lost: `ServerBinds` may happen before
`ChannelRefused`, and `RefreshFails` may have refreshed or not. `delivered` is a ghost.

The model shows: there is one channel only and the address of later sends is never compared
(`SendData`), so data for a second peer goes to the first; the channel is never bound again and lapses
at the server after its lifetime; a refresh that fails ends the loop for good, and error 438 counts as
one; nothing cancels `refreshHandle`. `createPermission` is not called anywhere.

### 2.8 HandshakeFragments

`Chunk`, `After` and `Split` are the sender: `FragmentedHandshake.chunk`, the order `createFragments`
gives, and `createPacket`. fudano puts the fragments of one message into one datagram; `apart` is another
stack that sends each by itself. `Records` is the loop of `udpOnMessage` over the records of a datagram. `Record` is one record of a datagram at the receiver: `parsePacket`,
`handleFragmentHandshake`, `assemble` and `bufferHandshakeCache`. The content of a message is the set
of its units that some fragment brought, so that a hole, which `assemble` leaves as zeros, shows.
The network is "any datagram of the flight at any time", as the flight is transmitted again and again.
`due`, `disturbed` and `passed` are ghosts.

`handleFragmentHandshake` gives the buffer up when the fragment that came last is the last of its
message and there is another in the buffer, of whatever message, with whatever holes. So between a
fudano receiver and a sender that spreads fragments over datagrams a message with holes can be put
together, and since the cache keeps the first copy no retransmission heals it; that is why
`WholeUnlessTornApart` needs its condition. Not modelled: that the sender's cache keeps fragments and
the receiver's cache the assembled message, so that their transcripts differ for a long message.

## 3. Runs

| Run | Question | Result |
|---|---|---|
| `association` | Do handshake, timers and closing stay consistent over any network, implement the service, and let no client wait for ever? | holds |
| `receive` | Does the receiver acknowledge exactly what it may, across the wrap-around? | holds |
| `data_channel` | Do both ends, opening, sending and closing at once, lose no reset, mix no channels, revive none? | holds |
| `data_channel_close` | With negotiated channels too: does closing end when everything is lost, and does a channel closed early stay closed when the association comes? | holds |
| `data_channel_assign` | Does every channel that waited for the association get an id? | violated |
| `dtls_handshake` | One key or an error, and never silence? | holds |
| `dtls_handshake_ends` | Does the client leave `connecting`? | holds |
| `fragments` | Are messages whole wherever the code can know it, and is one transmission in order enough? | holds |
| `ice_checks` | Are only earned pairs used, is no pair left behind, no nomination lost, are roles settled? | holds |
| `ice_connect` | Does `connect()` return or raise, as its comment says? | violated |
| `peer` | With descriptions, gathering, nomination, failures, consent and close in any order: does the connection say only what its transports have reached? | holds |
| `turn` | Do concurrent sends share one binding with one verdict, and is the allocation kept? | holds |

### What the violated runs show

* **data_channel_assign.** Closing one channel before the association is established drops the queued
  OPEN of every channel without an id, because `undefined` equals `undefined` (`transport/sctp.ts:327`).
* **ice_connect.** The loop of `connect()` that waits for a result (`ice.ts:273`) goes on after
  `ICE_FAILED`, so the exception its comment (`ice.ts:241`) speaks of is never raised once there is a
  pair: when all checks failed, because the peer is gone, `connect()` stays pending.

More remarks the models led to, about which no run says anything:

* A server that was not started is established all the same (2.1), while `dataChannelId` is undefined,
  although `dataChannelFlush` waits for the association to be established "as we need to know whether we
  are a client or a server" (`transport/sctp.ts:239-245`). The flush then takes a message from the queue
  and throws at `streamId.toString()` (253): the message is lost. `start()` sets `connecting` over
  `connected` (`sctp.ts:724`), and `connect()` waits for a `connected` that has passed
  (`peerConnection.ts:439`), unless a copy of the COOKIE_ECHO comes once more.
* A negotiated channel may have the id 0 (`dataChannel.ts:40-42`). Closed before the association is there
  it is not forgotten, because of `if (channel.id)` (`transport/sctp.ts:328`), and `connected` opens every
  negotiated channel that is registered (64-68): with `NegotiatedIds = {0}` `ClosedStaysClosed` fails.
* `schedulingChecks` keeps going "if we expect more candidates" (`ice.ts:338`), but asks for the end of
  candidates, which a description sets while its `.local` candidates are still looked up
  (`peerConnection.ts:510-514`). `connect()` leaves its loop, and raises if it has no pair at all
  (`ice.ts:281`); a pair that is made later is WAITING, and only a request of the peer starts its check.
  So `WaitingIsServed` excepts the pair whose name is found late.
* `timer1Expired` defers the retransmission to `setImmediate` (`sctp.ts:636`). An answer received
  between the timers phase and the check phase cancels T1 and forgets the chunk, and the callback sends
  `undefined`: a TypeError that nothing catches (`crashed` in the model).
* `[...this.sackMisOrdered].sort()` (`sctp.ts:504`, also 466 and in `sendSack`) sorts numbers as
  strings. Where the number of digits changes, and at the wrap-around, the loop that advances the
  cumulative TSN stops too early; `NoLagInDecimalOrder` says that it lags only there, and
  `SackIsTruthful` that no SACK is untrue for it.
* A retransmitted first ClientHello makes the server draw a new cookie; the client, in flight 3 for the
  first one, throws on the second HelloVerifyRequest (`flight3.ts:13`) and the transport fails.

### Properties of the passing runs

`association`: `TagsAgree` (no data is dropped for its tag once the client is connected), `WaitIsTimed`,
`NoStrayT1` (which state has which timer), `ClosedIsFinal` (steps), `ImplementsService` (refinement),
`ClientDecides` (liveness). `receive`: `CumulativeIsEarned`, `ArrivalsAreKept`, `SackIsTruthful`,
`NoLagInDecimalOrder`. `data_channel`: `NoResetIsStuck` (what closes has its id on the way, what is on
the way has a request, what is requested has a timer), `LiveIsRegistered`, `ClosedStaysClosed`,
`CompletionIsEarned`; `data_channel_close`: `ClosingEnds`, and `ClosedStaysClosed` again, now against
`connected`, which opens what is negotiated. `dtls_handshake`: `KeysAgree`,
`OneServerFlight`, `FlightIsTimed`; `dtls_handshake_ends`: `HandshakeEnds`. `fragments`:
`WholeUnlessTornApart`, `OnePassSuffices`. `ice_checks`: `NominationIsEarned` (what an end sends on
answered its own check, and one end heard USE-CANDIDATE for it), `WaitingIsServed` (steps: `connect()` leaves no
pair behind and none begins to wait after it, unless its name is found late), `CompletionIsKept`,
`ConnectedHasPath` (from check list to `connect()`), `GreaterControls` (steps). `peer`:
`OfferIsPending`, `NegotiationIsNotForgotten`, `ClosedIsNotRevived`, `DisconnectedIsMissing`,
`ConnectedIsEarned` (steps), `ConsentDecides` (liveness). `turn`: `OneVerdict`, `InboundIsAttributed`,
`AllocationIsKept`, `SendsSettle` (liveness). Each has its statement in a comment in its module.

## 4. Bounds and restrictions

* `MaxInitRetrans = 2`, `MaxAssocRetrans = 1` (8 and 10 in the code): the first retransmission, one
  more, and the giving up. Nothing depends on the count but the comparison with the limit; the proofs
  hold for every limit.
* `Half = 10`, `InitialTsns = {7, 17}`, `MaxSends = 5`, `MaxGap = 15`: the TSNs 7..11 cross the place
  where the number of digits changes, 17..1 the wrap-around. `MaxSends < Half` is the rule of serial
  number arithmetic that no two live TSNs are half the range apart. `MaxGap < 2 * Half - 1`, as
  65535 < 2^32 - 1. InitialTsns excludes 0: `lastReceivedTsn` would be -1 (`tsnMinusOne`), which the
  packing turns into 0, so that a SACK acknowledges the first chunk before it came.
* `MaxChannels = 2`, `MaxQueue = 2`, `MaxRequests = 2` per endpoint: two channels in the way of each
  other, a queue behind a request, a second request that can be answered by a response to the first.
  `MaxId = 3` gives each parity two ids; `IdsSuffice` (`2 * MaxChannels <= MaxId + 1`) asks for as
  many as an endpoint has channels, as 65536 ids do, so that the search for a free id ends. `MaxStreams = 1` (135 in the code) makes the queue longer
  than one request; `data_channel_close` has 2, so that a request takes several.
* `RetransmitCount = 1` (10 in the code): sent again once, then the error. `MaxCookies = 2`: one restart
  of flight 2; the liveness run has one cookie.
* `ice_checks` has three scenarios (`MCScenarios`): one path, with the offerer's remote candidates
  coming late, with an address or a name, and one more offer; one path with two more offers, so that offers cross and both ends control
  at once; two paths, so that a nomination meets pairs that wait, are checked or failed. Both orders of
  the tie-breakers are initial states. Two paths with another offer are beyond the run's time.
* `peer`: `MaxDescriptions = 5` allows two full exchanges, with offers that cross, and one more
  description; `MaxConnects = 2` a `connect()` during or after another; `ConsentFailures = 2` (6 in the
  code) a miss that is made up for and a second one that is not.
* `turn`: two peers, three sends: one that asks for the channel, one that waits for it, one that comes
  after. `Lifetime = 6` ticks is the smallest with a whole 5/6; the allocation lapses, the channel lapses
  before it, and the loop refreshes again and again.
* `fragments`: one message that fits (2 units), one of three fragments, the last not full (5), one
  without content, one of two fragments, the last full (4), with fragments of 2 units (1240 bytes in the
  code). `MaxBuffer = 6` holds all five fragments and a repetition.
* Restrictions: `data_channel` has `OpenIds = {}`: `if (channel.id)` (`transport/sctp.ts:200`) takes the
  valid id 0 for none, the channel is not registered, and with `OpenIds = {0}` `LiveIsRegistered` fails.
  It has `NegotiatedIds = {}` to stay small: negotiated channels, with the id 1, are in
  `data_channel_close`, where each end has one channel; with the id 0 `ClosedStaysClosed` fails.
  `SendAfterClose = FALSE`: the code takes data on a closed channel and gives it an id again, and with
  `TRUE` `NoResetIsStuck` and `ClosedStaysClosed` fail: data on a channel that was told to close before
  it had an id gives it one that nobody resets, and a late ACK for that id opens a closed channel.
  The theorems of section 6 carry these restrictions as hypotheses, each only those it needs.
* Deadlock is checked in `receive` only. Elsewhere the system may stop for good: when both ends are
  closed, or when nothing is armed and the user does nothing more.

## 5. Fairness

Timers that are due and `setImmediate` callbacks run, because the event loop runs them: weak fairness
of `T1Expired`, `T1Deferred`, `T2Expired`, `T2Deferred`, of `TimerReconfigExpired`, of each DTLS loop
that wakes up, of the DTLS client's `connect`, which `start` calls, of the turns of ICE's `connect()`
(`Schedule`) and of the end of a STUN transaction, without an answer (`CheckFails`) or with either
(`ChannelBound \/ ChannelRefused`, `ConsentAnswered \/ ConsentMissed`), and of the sleep of
`queryConsent` (`ConsentWakes`). Nothing is assumed of the network: every message may be lost.
So the liveness properties say that waiting ends, in success or in failure. That a handshake succeeds
or that a channel opens cannot be promised: OPEN, ACK and data are never sent again by this stack.

## 6. Proofs

`SctpAssociationProofs` proves, for every retransmission limit and with or without a peer that sends
SHUTDOWN (assumptions `EndpointAssumption`, `RetransAssumption`): `TypeCorrect`, `ClientFollowsServer`
(`TagsAgree`), `WaitTimed` (`WaitIsTimed`), `T1Withdrawn` (`NoStrayT1`), `ClosedStays` (`ClosedIsFinal`),
`ClosedSendsNothing` (`SilentWhenClosed`, which no run checks) and `Refinement` (`ImplementsService`).

They rest on `Invariance`, `Spec => []IInv`. The safety properties are not inductive by themselves.
That the client is right to believe the server is connected depends on what each chunk in the network
proves about the past, which is `HandshakeEvidence`: an INIT_ACK shows that the server has the client's
tag, a COOKIE_ECHO, sent or still in T1, that both tags are set and the client was started, a COOKIE_ACK
that a COOKIE_ECHO was sent. `TimerChunks` says which chunk each timer can hold, so that a retransmission is
evidence as well, and `WaitingIsConnecting` that the waiting states go with `connecting`, so that a
server that stopped can be told from a client that waits. The preservation proof has one lemma per
group of actions and one step per action. The action properties and the refinement use the invariant
in the state before the step; for the refinement, every action maps to one action of
`AssociationService` or to a stutter.

`SctpReceiveProofs` begins with `Tsn`, for every `Half > 0` (`HalfAssumption`): `uint32Gt` is
antisymmetric, and total except for numbers half the range apart; `tsnPlusOne` stays in range and is
above its argument across the wrap-around; `tsnMinusOne` is a TSN exactly when its argument is not 0.

It goes on to prove, for every modulus up to 2^32 and every number of chunks below half of it
(`HalfAssumption`, `SendsAssumption`): `TypeCorrect`, `CumulativeEarned` (`CumulativeIsEarned`),
`ArrivalsKept` (`ArrivalsAreKept`), `NoLag` (`NoLagInDecimalOrder`) and `SackTruthful`
(`SackIsTruthful`). The invariant `IInv` turns serial arithmetic into counting: what was sent is a prefix
of a window of `MaxSends` TSNs (`SentInOrder`), the receiver knows nothing else (`KnownWereSent`), and
the cumulative TSN is the one before the window or in it (`CumulativeInWindow`). Inside the window
`uint32Gt` is the order of positions, whatever the wrap-around does to the numbers. The lemmas below it
say that the order of decimal strings is a strict total order (`StringOrder`), that places counted in
such an order sort a finite set (`Positions`, `SortedIs`), and that the loop stops at the first element
of the sorted sequence that is not the next TSN, without having skipped one (`AdvanceIs`).
`SackTruthful` has the hypothesis `MaxSends <= MaxGap`, for packing clamps an offset to 16 bits. Where a
proof needs induction it takes the least element of a set of naturals (`Least`), since an induction
theorem with an operator for a parameter cannot be used here.

`DataChannelProofs` proves, for every number of channels, ids, requests and messages (`IdsSuffice` and
the assumptions of `DataChannel`):

* `TypeCorrect` (`TypeOK`), by `TypeInv`, which adds that the register is true: an id is registered for
  the channel that has it. Types depend on that, because an endpoint without a free id of its parity
  would register a channel under no id at all; with a true register each channel holds one id at most,
  and `FreeIdIs` counts them.
* `LiveRegistered` (`LiveIsRegistered`), if the user picks no id 0 (`0 \notin OpenIds`). Negotiated ids and
  data on closed channels do no harm here.
* `ResetsNeverStick` (`NoResetIsStuck`), if nobody sends on a closed channel. `ChainInv` adds that an
  established endpoint has an empty queue, so that a channel that closes cannot get an id behind the
  back of the reset, and that one that still connects has nothing to reset.
* `CompletionEarned` (`CompletionIsEarned`), without a hypothesis, by `ResponsesEarned`: a response under
  way was earned, whichever request it answers.
* `ClosedForGood` (`ClosedStaysClosed`), if no id is 0 and nobody sends on a closed channel. `Sealed` says
  which closed channels are registered (none but channel 0 of a client), that what waits in the queue
  for an id is not closed, and that no OPEN or ACK for the id 0 goes where it could reach that channel.

The flush is treated once, as a fact about values: `OneTurn` says what one turn of the loop leaves
(`Turned`), `FlushItemsTurned` carries it through the queue, and each invariant then has a lemma
that `Turned` keeps it (`TurnedLive`, `TurnedScheduled`, `TurnedSealed`). TLC was asked first in each
case, and section 4 gives its counterexamples to the theorems without their hypotheses.

`PeerConnectionProofs` proves, for every number of descriptions, of calls and of consent failures
(`PeerAssumption`, `ConsentAssumption`): `TypeCorrect`, `OfferPending` (`OfferIsPending`), `WishServed`
(`NegotiationIsNotForgotten`), `DisconnectedMissing` (`DisconnectedIsMissing`), `ConnectedEarned`
(`ConnectedIsEarned`) and `NotRevived` (`ClosedIsNotRevived`). `OfferIsPending` speaks of the description in force, `pending ?? current`; to be
inductive it needs to know that only offers are pending and only answers are current
(`OffersArePending`), for then an answer that is set cannot uncover an older offer.
`NegotiationIsNotForgotten` needs `NegotiationOnce`, that the one wish is waiting, due or told, and
`DisconnectedIsMissing` needs `ChecksFollowGathering`, because the end of gathering sets the state
whatever it was, and `TestsAreLeft`, that a connection whose last permitted failure came is closed.
`ClosedIsNotRevived` compares what is told with promises that settle long after `close()`;
`ClosedIsOver` says where each of them can still be by then: a call of `connect()` implies a transport, a
handshake under way has lost its sockets, and a connection that ended tells nobody.
One lemma says for each helper (`Report`, `StartConnect`, `Settle`, ...) which fields it leaves alone,
and one for each action that it preserves `IInv`.

`TurnClientProofs` proves, for every set of peers and of sends and every lifetime
(`TurnAssumption`): `TypeCorrect`, `NobodySendsUnbound` (`OneVerdict`), `InboundAttributed`
(`InboundIsAttributed`), `AllocationKept` (`AllocationIsKept`). `CallsFollowBinding` ties every call to
the state of the one promise, `OneChannel` the server's channel to the client's, and `AgeIsSlept` the
age of the allocation to what the loop has slept, which with 5/6 < 1 is what keeps it.

`DtlsHandshakeProofs` proves, for every retransmission limit and number of cookies
(`RetransmitCountAssumption`, `MaxCookiesAssumption`): `TypeCorrect`, `OneKey` (`KeysAgree`), `OneFlight4` (`OneServerFlight`) and
`FlightTimed` (`FlightIsTimed`). `KeysAgree` compares two ends that never look at each other; what ties
them is the network. `OneSecondHello` says that the client sent one second ClientHello at most, because
it throws on the next HelloVerifyRequest, and that whatever the server sent of flight 4 belongs to one
that was sent, so all of flight 4 carries one cookie. `FinishedIsKept` says that
a Finished of the server shows the key the server is connected with, unless it has renegotiated since,
and `ClientHasHeard` what a client in each flight must have read.

`IceChecksProofs` proves, for every number of paths and of offers and every set of scenarios
(`BoundsAssumption`, `ScenarioAssumption`): `TypeCorrect`, `NominationEarned` (`NominationIsEarned`),
`WaitingServed` (`WaitingIsServed`), `CompletionKept` (`CompletionIsKept`), `ConnectedPath`
(`ConnectedHasPath`) and `TieBreakerDecides` (`GreaterControls`). `PairShows` is what makes the first
inductive: a pair that succeeded was checked by this end, a flag or an answer to a controlling check
means that some end heard USE-CANDIDATE, and an error 487 on its way tells which end has the greater
tie-breaker, whatever the roles have become since. `ResultIsKept` follows the result of the checks to
`connect()`, and says that it waits for one only when the end of candidates is known, the connection is
closed or there is a result; that is what keeps a candidate with an address from being paired too late.
`WaitingServed` is about steps: nothing is assumed of how a look-up ends. The proof goes by the functions of the class first (`CheckStarts`, `CheckCompletes`,
`ChecksIncoming`, ...): each leaves a connection `Good`, takes back no candidate and no flag (`Hears`) and lets no pair begin to
wait (`Grows`); then by the actions, of which only the end of the loop and the new candidates need more, where `Responds` is the one that changes both ends.

`HandshakeFragmentsProofs` proves, for every flight, every size of a fragment and every buffer
(`FragmentAssumption`): `HandedOnWhole` (`WholeUnlessTornApart`) and `OnePass` (`OnePassSuffices`).
`PiecesAre`, `PieceIs` and `PiecesCover` say how `chunk()` cuts: only the last fragment reaches the end of
the message, a fragment is whole only if it is the only one, and together they have every unit.
`PassKeepsUp` holds whatever is left in the buffer: the messages before the one that is due are known, and
under way the buffer is not empty, which is all the test `length > 1` asks of it when the last fragment
comes. `BufferIsBeginning` is the strong form, the buffer exactly the fragments that came, and holds only
while nothing goes wrong. The loop over a datagram is `RecordsAre`: whatever takes its turns is what it
computes, so that a closed form (`AfterPieces`) need only be checked turn by turn.

So every invariant and every action property that a passing run checks is also a theorem. Model-checked
only: liveness, which is beyond this prover (`ClientDecides`, `ClosingEnds`, `HandshakeEnds`,
`SendsSettle`, `ConsentDecides`), and the five violated runs.

## 7. Not modelled

* Encodings and cryptography: they keep no state that decides anything; their guarantees are used.
* SDP: parsing and formatting of text. What of a description decides is in `PeerConnection`.
* Sockets, DNS and ports: I/O. `findPort` tries ports in order and keeps nothing.
* Media stubs and pure helpers.
* Several components and a lite peer in ICE; several transports of one
  `RTCPeerConnection`; `createPermission` of TURN, which has no caller; DTLS alerts, of which fatal ones
  are thrown and ignored (`record/receive.ts`); client certificates and SRTP profiles.
* `findAllFragments` of `record/message/fragment.ts`, which has no caller.

What could come next: refinements of an abstract data channel (an id is opened, used and reset) by
`DataChannel`, and of an abstract ICE agent by `IceChecks`, so that `PeerConnection` rests on them as the
association's users rest on `AssociationService`.
