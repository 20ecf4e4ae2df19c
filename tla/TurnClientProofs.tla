--------------------------- MODULE TurnClientProofs ---------------------------
(* Theorems of TurnClient, for every number of peers and calls and every lifetime *)
(* of whole sixths.  IInv says how calls, promise and server stand to each other;  *)
(* TypeOK is kept by itself, the other parts lean on it.                           *)
EXTENDS TurnClient, TLAPS

\* The refresh comes in time: a sixth of the lifetime is left.
LEMMA RefreshInTime == RefreshAfter \in Nat /\ RefreshAfter < Lifetime
BY TurnAssumption DEF RefreshAfter

\* What an answer to ALLOCATE or CHANNEL_BIND does to the server.
LEMMA ServerUpdates ==
    ASSUME NEW x \in Server, NEW p \in Peers \cup {NoPeer}
    PROVE  /\ [x EXCEPT !.allocated = TRUE, !.age = 0] \in Server
           /\ [x EXCEPT !.bound = p, !.boundAge = 0] \in Server
<1>1. 0 \in 0 .. Lifetime
  BY TurnAssumption
<1>2. [x EXCEPT !.allocated = TRUE, !.age = 0] \in Server
  BY <1>1 DEF Server
<1>3. [x EXCEPT !.bound = p, !.boundAge = 0] \in Server
  BY <1>1 DEF Server
<1> QED
  BY <1>2, <1>3

\* Every variable keeps to its type.
THEOREM TypeCorrect == Spec => []TypeOK
<1>1. Init => TypeOK
  BY TurnAssumption, RefreshInTime DEF Init, TypeOK, SendStage, Server
<1>2. TypeOK /\ [Next]_vars => TypeOK'
  <2> SUFFICES ASSUME TypeOK, [Next]_vars
               PROVE  TypeOK'
    OBVIOUS
  <2> USE TurnAssumption, RefreshInTime DEF TypeOK, SendStage
  <2>1. CASE Challenged
    BY <2>1 DEF Challenged
  <2>2. CASE ConnectFails
    BY <2>2 DEF ConnectFails, Server
  <2>3. CASE Allocated
    <3>1. server' \in Server
      BY <2>3, ServerUpdates DEF Allocated
    <3> QED
      BY <2>3, <3>1 DEF Allocated
  <2>4. CASE RefreshDue
    BY <2>4 DEF RefreshDue
  <2>5. CASE RefreshAnswered
    BY <2>5 DEF RefreshAnswered, Server
  <2>6. CASE RefreshFails
    BY <2>6 DEF RefreshFails, Server
  <2>7. ASSUME NEW s \in Sends, SendData(s)
       PROVE  TypeOK'
    BY <2>7 DEF SendData, To
  <2>8. CASE ServerBinds
    <3>1. server' \in Server
      BY <2>8, ServerUpdates DEF ServerBinds
    <3> QED
      BY <2>8, <3>1 DEF ServerBinds
  <2>9. CASE ChannelBound
    BY <2>9 DEF ChannelBound, Settle
  <2>10. CASE ChannelRefused
    BY <2>10 DEF ChannelRefused, Settle
  <2>11. CASE ReceiveChannelData
    BY <2>11 DEF ReceiveChannelData, Server
  <2>12. CASE Tick
    <3>1. slept' \in 0 .. RefreshAfter
      BY <2>12 DEF Tick
    <3>2. server' \in Server
      BY <2>12 DEF Tick, Server
    <3> QED
      BY <2>12, <3>1, <3>2 DEF Tick
  <2>13. CASE UNCHANGED vars
    BY <2>13 DEF vars
  <2> QED
    BY <2>1, <2>2, <2>3, <2>4, <2>5, <2>6, <2>7, <2>8, <2>9, <2>10, <2>11, <2>12, <2>13 DEF Next
<1> QED
  BY <1>1, <1>2, PTL DEF Spec

\* A step keeps the calls in line with the promise.
LEMMA CallsStep == TypeOK /\ OneChannel /\ CallsFollowBinding /\ [Next]_vars => CallsFollowBinding'
<1> SUFFICES ASSUME TypeOK, OneChannel, CallsFollowBinding, [Next]_vars
             PROVE  CallsFollowBinding'
  OBVIOUS
<1> USE TurnAssumption, RefreshInTime DEF TypeOK, SendStage, Server, OneChannel, CallsFollowBinding
<1>1. CASE Challenged
  BY <1>1 DEF Challenged
<1>2. CASE ConnectFails
  BY <1>2 DEF ConnectFails
<1>3. CASE Allocated
  BY <1>3 DEF Allocated
<1>4. CASE RefreshDue
  BY <1>4 DEF RefreshDue
<1>5. CASE RefreshAnswered
  BY <1>5 DEF RefreshAnswered
<1>6. CASE RefreshFails
  BY <1>6 DEF RefreshFails
<1>7. ASSUME NEW s \in Sends, SendData(s)
     PROVE  CallsFollowBinding'
  BY <1>7 DEF SendData, To
<1>8. CASE ServerBinds
  BY <1>8 DEF ServerBinds
<1>9. CASE ChannelBound
  BY <1>9 DEF ChannelBound, Settle
<1>10. CASE ChannelRefused
  BY <1>10 DEF ChannelRefused, Settle
<1>11. CASE ReceiveChannelData
  BY <1>11 DEF ReceiveChannelData
<1>12. CASE Tick
  BY <1>12 DEF Tick
<1>13. CASE UNCHANGED vars
  BY <1>13 DEF vars
<1> QED
  BY <1>1, <1>2, <1>3, <1>4, <1>5, <1>6, <1>7, <1>8, <1>9, <1>10, <1>11, <1>12, <1>13 DEF Next

\* A step keeps the server's channel the client's one.
LEMMA ChannelStep == TypeOK /\ OneChannel /\ [Next]_vars => OneChannel'
<1> SUFFICES ASSUME TypeOK, OneChannel, [Next]_vars
             PROVE  OneChannel'
  OBVIOUS
<1> USE TurnAssumption, RefreshInTime DEF TypeOK, SendStage, Server, OneChannel
<1>1. CASE Challenged
  BY <1>1 DEF Challenged
<1>2. CASE ConnectFails
  BY <1>2 DEF ConnectFails
<1>3. CASE Allocated
  BY <1>3 DEF Allocated
<1>4. CASE RefreshDue
  BY <1>4 DEF RefreshDue
<1>5. CASE RefreshAnswered
  BY <1>5 DEF RefreshAnswered
<1>6. CASE RefreshFails
  BY <1>6 DEF RefreshFails
<1>7. ASSUME NEW s \in Sends, SendData(s)
     PROVE  OneChannel'
  BY <1>7 DEF SendData, To
<1>8. CASE ServerBinds
  BY <1>8 DEF ServerBinds
<1>9. CASE ChannelBound
  BY <1>9 DEF ChannelBound, Settle
<1>10. CASE ChannelRefused
  BY <1>10 DEF ChannelRefused, Settle
<1>11. CASE ReceiveChannelData
  BY <1>11 DEF ReceiveChannelData
<1>12. CASE Tick
  BY <1>12 DEF Tick
<1>13. CASE UNCHANGED vars
  BY <1>13 DEF vars
<1> QED
  BY <1>1, <1>2, <1>3, <1>4, <1>5, <1>6, <1>7, <1>8, <1>9, <1>10, <1>11, <1>12, <1>13 DEF Next

\* What is delivered is attributed to the peer the server relays for.
LEMMA InboundStep == TypeOK /\ OneChannel /\ InboundIsAttributed /\ [Next]_vars => InboundIsAttributed'
<1> SUFFICES ASSUME TypeOK, OneChannel, InboundIsAttributed, [Next]_vars
             PROVE  InboundIsAttributed'
  OBVIOUS
<1> USE TurnAssumption, RefreshInTime DEF TypeOK, SendStage, Server, OneChannel, InboundIsAttributed
<1>1. CASE Challenged
  BY <1>1 DEF Challenged
<1>2. CASE ConnectFails
  BY <1>2 DEF ConnectFails
<1>3. CASE Allocated
  BY <1>3 DEF Allocated
<1>4. CASE RefreshDue
  BY <1>4 DEF RefreshDue
<1>5. CASE RefreshAnswered
  BY <1>5 DEF RefreshAnswered
<1>6. CASE RefreshFails
  BY <1>6 DEF RefreshFails
<1>7. ASSUME NEW s \in Sends, SendData(s)
     PROVE  InboundIsAttributed'
  BY <1>7 DEF SendData, To
<1>8. CASE ServerBinds
  BY <1>8 DEF ServerBinds
<1>9. CASE ChannelBound
  BY <1>9 DEF ChannelBound, Settle
<1>10. CASE ChannelRefused
  BY <1>10 DEF ChannelRefused, Settle
<1>11. CASE ReceiveChannelData
  BY <1>11 DEF ReceiveChannelData
<1>12. CASE Tick
  BY <1>12 DEF Tick
<1>13. CASE UNCHANGED vars
  BY <1>13 DEF vars
<1> QED
  BY <1>1, <1>2, <1>3, <1>4, <1>5, <1>6, <1>7, <1>8, <1>9, <1>10, <1>11, <1>12, <1>13 DEF Next

\* The loop asks before the allocation is old.
LEMMA AgeStep == TypeOK /\ AgeIsSlept /\ [Next]_vars => AgeIsSlept'
<1> SUFFICES ASSUME TypeOK, AgeIsSlept, [Next]_vars
             PROVE  AgeIsSlept'
  OBVIOUS
<1> USE TurnAssumption, RefreshInTime DEF TypeOK, SendStage, Server, AgeIsSlept
<1>1. CASE Challenged
  BY <1>1 DEF Challenged
<1>2. CASE ConnectFails
  BY <1>2 DEF ConnectFails
<1>3. CASE Allocated
  BY <1>3 DEF Allocated
<1>4. CASE RefreshDue
  BY <1>4 DEF RefreshDue
<1>5. CASE RefreshAnswered
  BY <1>5 DEF RefreshAnswered
<1>6. CASE RefreshFails
  BY <1>6 DEF RefreshFails
<1>7. ASSUME NEW s \in Sends, SendData(s)
     PROVE  AgeIsSlept'
  BY <1>7 DEF SendData, To
<1>8. CASE ServerBinds
  BY <1>8 DEF ServerBinds
<1>9. CASE ChannelBound
  BY <1>9 DEF ChannelBound, Settle
<1>10. CASE ChannelRefused
  BY <1>10 DEF ChannelRefused, Settle
<1>11. CASE ReceiveChannelData
  BY <1>11 DEF ReceiveChannelData
<1>12. CASE Tick
  BY <1>12 DEF Tick
<1>13. CASE UNCHANGED vars
  BY <1>13 DEF vars
<1> QED
  BY <1>1, <1>2, <1>3, <1>4, <1>5, <1>6, <1>7, <1>8, <1>9, <1>10, <1>11, <1>12, <1>13 DEF Next

\* The inductive invariant.
THEOREM Invariance == Spec => []IInv
<1>1. Init => IInv
  <2>1. Init => TypeOK
    BY TurnAssumption, RefreshInTime DEF Init, TypeOK, SendStage, Server
  <2> QED
    BY <2>1 DEF Init, IInv, CallsFollowBinding, OneChannel, InboundIsAttributed, AgeIsSlept
<1>2. IInv /\ TypeOK' /\ [Next]_vars => IInv'
  BY CallsStep, ChannelStep, InboundStep, AgeStep DEF IInv
<1> QED
  BY <1>1, <1>2, TypeCorrect, PTL DEF Spec

\* No call is answered otherwise than another (OneVerdict), however many await the one
\* promise: what was sent was sent over a channel whose binding nobody saw refused.
THEOREM NobodySendsUnbound == Spec => []OneVerdict
<1>1. IInv => OneVerdict
  BY DEF IInv, TypeOK, CallsFollowBinding, OneVerdict
<1> QED
  BY <1>1, Invariance, PTL

\* Data from the channel is handed on as that of the peer it came from.
THEOREM InboundAttributed == Spec => []InboundIsAttributed
<1>1. IInv => InboundIsAttributed
  BY DEF IInv
<1> QED
  BY <1>1, Invariance, PTL

\* While the refresh loop runs, the server keeps the allocation (AllocationIsKept).
THEOREM AllocationKept == Spec => []AllocationIsKept
<1>1. IInv => AllocationIsKept
  BY DEF IInv, AgeIsSlept, AllocationIsKept
<1> QED
  BY <1>1, Invariance, PTL
=============================================================================
