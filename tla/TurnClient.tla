------------------------------ MODULE TurnClient ------------------------------
(* The TURN client of src/ice/turn/protocol.ts with its server: connect(), the  *)
(* refresh loop, and what is sent to peers over the one channel it binds.       *)
(* Requests and answers may be lost; a transaction that gets no answer fails.   *)
(* Time is counted in ticks of 100 s, the sixth part of the lifetime 600: long  *)
(* against a transaction, which ends after some seconds.  Credentials and       *)
(* message formats are left out.                                                *)
EXTENDS Naturals, FiniteSets

CONSTANTS
    Peers,          \* addresses data is sent to
    Sends,          \* bound: calls of sendData
    Lifetime        \* lifetime of the allocation and of a channel, in ticks

NoPeer == "no peer"

ASSUME TurnAssumption ==
    /\ NoPeer \notin Peers
    /\ Lifetime \in Nat /\ Lifetime >= 6 /\ Lifetime % 6 = 0

VARIABLES
    stage,          \* where connect() stands
    channel,        \* channel.address, or no channel
    channelBinding, \* the promise of that name
    sends,          \* where each sendData stands
    refresh,        \* where the loop of refresh() stands
    slept,          \* ticks the loop has slept
    server,         \* the allocation and the channel as the server has them
    delivered       \* ghost: [from, as] of the data that was received

vars == <<stage, channel, channelBinding, sends, refresh, slept, server, delivered>>

\* Variant: the refresh comes when the lifetime is over.
RefreshAtTheEnd == Lifetime

\* (5 / 6) * lifetime
RefreshAfter == (5 * Lifetime) \div 6

SendStage == {"idle",
              "waiting",    \* for the binding another call has begun
              "binding",    \* for its own
              "sent", "rejected"}

Server == [allocated : BOOLEAN, age : 0 .. Lifetime,
           bound : Peers \cup {NoPeer}, boundAge : 0 .. Lifetime]

\* Every variable keeps to its type.
TypeOK ==
    /\ stage \in {"unauthenticated", "authenticated", "ready", "failed"}
    /\ channel \in Peers \cup {NoPeer}
    /\ channelBinding \in {"none", "pending", "rejected"}
    /\ sends \in [Sends -> SendStage]
    /\ refresh \in {"none", "asleep", "asking", "ended"}
    /\ slept \in 0 .. RefreshAfter
    /\ server \in Server
    /\ delivered \subseteq [from : Peers, as : Peers \cup {NoPeer}]

Init ==
    /\ stage = "unauthenticated"
    /\ channel = NoPeer
    /\ channelBinding = "none"
    /\ sends = [s \in Sends |-> "idle"]
    /\ refresh = "none"
    /\ slept = 0
    /\ server = [allocated |-> FALSE, age |-> 0, bound |-> NoPeer, boundAge |-> 0]
    /\ delivered = {}

-----------------------------------------------------------------------------
(* connect() *)

\* The first ALLOCATE has no credentials, and its error gives nonce, realm and the
\* address of the server.
Challenged ==
    /\ stage = "unauthenticated"
    /\ stage' = "authenticated"
    /\ UNCHANGED <<channel, channelBinding, sends, refresh, slept, server, delivered>>

\* Success or no answer to the first ALLOCATE is no error with a response: a TypeError.
\* An error or no answer to the second one is thrown.  The server may have allocated.
ConnectFails ==
    /\ stage \in {"unauthenticated", "authenticated"}
    /\ stage' = "failed"
    /\ \E allocated \in BOOLEAN : server' = [server EXCEPT !.allocated = allocated]
    /\ UNCHANGED <<channel, channelBinding, sends, refresh, slept, delivered>>

Allocated ==
    /\ stage = "authenticated"
    /\ stage' = "ready" /\ refresh' = "asleep" /\ slept' = 0
    /\ server' = [server EXCEPT !.allocated = TRUE, !.age = 0]
    /\ UNCHANGED <<channel, channelBinding, sends, delivered>>

-----------------------------------------------------------------------------
(* refresh() *)

RefreshDue ==
    /\ refresh = "asleep" /\ slept = RefreshAfter
    /\ refresh' = "asking"
    /\ UNCHANGED <<stage, channel, channelBinding, sends, slept, server, delivered>>

RefreshAnswered ==
    /\ refresh = "asking" /\ server.allocated
    /\ refresh' = "asleep" /\ slept' = 0
    /\ server' = [server EXCEPT !.age = 0]
    /\ UNCHANGED <<stage, channel, channelBinding, sends, delivered>>

\* An error, a stale nonce among them, or no answer: the loop ends for good.
RefreshFails ==
    /\ refresh = "asking"
    /\ refresh' = "ended"
    /\ \E age \in {0, server.age} : server' = [server EXCEPT !.age = age]
    /\ UNCHANGED <<stage, channel, channelBinding, sends, slept, delivered>>

-----------------------------------------------------------------------------
(* sendData() and getChannel() *)

To(s, st) == sends' = [sends EXCEPT ![s] = st]

\* Variant: the channel follows the peer, and the server is not told.
SendDataAnew(s) ==
    /\ stage = "ready" /\ sends[s] = "idle"
    /\ CASE channelBinding = "pending" -> To(s, "waiting") /\ UNCHANGED <<channel, channelBinding>>
         [] channelBinding = "rejected" -> To(s, "rejected") /\ UNCHANGED <<channel, channelBinding>>
         [] channelBinding = "none" /\ channel = NoPeer ->
              To(s, "binding") /\ channel' \in Peers /\ channelBinding' = "pending"
         [] OTHER -> To(s, "sent") /\ channel' \in Peers /\ UNCHANGED channelBinding
    /\ UNCHANGED <<stage, refresh, slept, server, delivered>>

\* sendData up to what it awaits: the binding another call has begun, which may have been
\* rejected long ago; its own, for its addr; or nothing, when there is a channel, for
\* whatever addr it was bound.
SendData(s) ==
    /\ stage = "ready" /\ sends[s] = "idle"
    /\ \/ /\ channelBinding = "pending" /\ To(s, "waiting")
          /\ UNCHANGED <<channel, channelBinding>>
       \/ /\ channelBinding = "rejected" /\ To(s, "rejected")
          /\ UNCHANGED <<channel, channelBinding>>
       \/ /\ channelBinding = "none" /\ channel = NoPeer /\ To(s, "binding")
          /\ channel' \in Peers /\ channelBinding' = "pending"
       \/ /\ channelBinding = "none" /\ channel # NoPeer /\ To(s, "sent")
          /\ UNCHANGED <<channel, channelBinding>>
    /\ UNCHANGED <<stage, refresh, slept, server, delivered>>

\* The server takes the CHANNEL_BIND request.
ServerBinds ==
    /\ channelBinding = "pending" /\ server.allocated
    /\ server' = [server EXCEPT !.bound = channel, !.boundAge = 0]
    /\ UNCHANGED <<stage, channel, channelBinding, sends, refresh, slept, delivered>>

Settle(st) ==
    sends' = [s \in Sends |-> IF sends[s] \in {"waiting", "binding"} THEN st ELSE sends[s]]

ChannelBound ==
    /\ channelBinding = "pending" /\ server.bound = channel
    /\ channelBinding' = "none"
    /\ Settle("sent")
    /\ UNCHANGED <<stage, channel, refresh, slept, server, delivered>>

\* Variant: the promise is dropped in any case.
ChannelRefusedAndForgotten ==
    /\ channelBinding = "pending"
    /\ channelBinding' = "none"
    /\ Settle("rejected")
    /\ UNCHANGED <<stage, channel, refresh, slept, server, delivered>>

\* Variant: only the call that asked for the binding learns of it.
ChannelRefusedToOne ==
    /\ channelBinding = "pending"
    /\ channelBinding' = "rejected"
    /\ sends' = [s \in Sends |-> IF sends[s] = "binding" THEN "rejected" ELSE sends[s]]
    /\ UNCHANGED <<stage, channel, refresh, slept, server, delivered>>

\* An error, another answer or none, though the server may have bound the channel.
ChannelRefused ==
    /\ channelBinding = "pending"
    /\ channelBinding' = "rejected"
    /\ Settle("rejected")
    /\ UNCHANGED <<stage, channel, refresh, slept, server, delivered>>

-----------------------------------------------------------------------------
(* Receiving, and time *)

\* handleChannelData, for data of the peer the server has bound.
ReceiveChannelData ==
    /\ server.bound # NoPeer
    /\ delivered' = delivered \cup {[from |-> server.bound, as |-> channel]}
    /\ UNCHANGED <<stage, channel, channelBinding, sends, refresh, slept, server>>

\* No tick passes while the loop is due or a transaction is under way.
Tick ==
    /\ server.allocated
    /\ refresh # "asking" /\ channelBinding # "pending"
    /\ refresh = "asleep" => slept < RefreshAfter
    /\ slept' = IF refresh = "asleep" THEN slept + 1 ELSE slept
    /\ LET expires == server.age + 1 >= Lifetime
           lapses == expires \/ server.boundAge + 1 >= Lifetime
       IN  server' = [allocated |-> ~expires,
                      age |-> IF expires THEN 0 ELSE server.age + 1,
                      bound |-> IF lapses THEN NoPeer ELSE server.bound,
                      boundAge |-> IF lapses \/ server.bound = NoPeer THEN 0
                                   ELSE server.boundAge + 1]
    /\ UNCHANGED <<stage, channel, channelBinding, sends, refresh, delivered>>

Next ==
    \/ Challenged \/ ConnectFails \/ Allocated
    \/ RefreshDue \/ RefreshAnswered \/ RefreshFails
    \/ \E s \in Sends : SendData(s)
    \/ ServerBinds \/ ChannelBound \/ ChannelRefused
    \/ ReceiveChannelData
    \/ Tick

Spec == Init /\ [][Next]_vars

\* A transaction ends, with an answer or without.
FairSpec == Spec /\ WF_vars(ChannelBound \/ ChannelRefused)

-----------------------------------------------------------------------------
(* Properties *)

\* getChannel (243-256), many callers and one promise: all that are answered are answered
\* alike, whatever they asked while the binding was under way or after it.  No data goes
\* over a channel whose binding was refused, and none before it is bound.
OneVerdict ==
    \A s, t \in Sends : ~ (sends[s] = "sent" /\ sends[t] = "rejected")

\* handleChannelData (116-123) takes the sender's address from channel, never from the
\* message: it is right because the channel the server relays is the client's only one.
InboundIsAttributed == \A d \in delivered : d.from = d.as

\* refresh() (194-211): as long as the loop runs the server keeps the allocation, because
\* it asks before the lifetime is over and is asleep again only when it was answered.
AllocationIsKept == refresh \in {"asleep", "asking"} => server.allocated

\* sendData (236-241): every call settles; the promise it awaits is that of a transaction,
\* its own or another call's.
SendsSettle ==
    \A s \in Sends : sends[s] \in {"waiting", "binding"}
                        ~> sends[s] \in {"sent", "rejected"}

-----------------------------------------------------------------------------
(* The inductive invariant behind the safety properties *)

\* The calls stand where the one promise stands.
CallsFollowBinding ==
    \A s \in Sends :
        /\ channelBinding = "pending" => sends[s] \in {"idle", "waiting", "binding"}
        /\ channelBinding = "rejected" => sends[s] \in {"idle", "rejected"}
        /\ channelBinding = "none" => sends[s] \in {"idle", "sent"}
        /\ channel = NoPeer => sends[s] = "idle"

\* The server knows no channel but the client's, and the client asks for one only.
OneChannel ==
    /\ channelBinding # "none" => channel # NoPeer
    /\ server.bound # NoPeer => server.bound = channel

\* While the loop sleeps it has slept as long as the allocation is old.
AgeIsSlept ==
    /\ refresh # "none" => stage = "ready"
    /\ refresh = "asleep" => server.allocated /\ server.age = slept
    /\ refresh = "asking" => server.allocated

IInv ==
    /\ TypeOK
    /\ CallsFollowBinding
    /\ OneChannel
    /\ InboundIsAttributed
    /\ AgeIsSlept
=============================================================================
