------------------------ MODULE AssociationService ------------------------
(***************************************************************************)
(* What an SCTP association promises the data channel layer above it,      *)
(* which only sees the connection state (the stateChanged events of class  *)
(* SCTP): the client becomes connected only after it was begun and the     *)
(* server accepted and answered it, and an end that was begun and closed   *)
(* stays closed, except that the server may accept again.  The server may  *)
(* accept before it is begun, and its beginning then takes back what was   *)
(* announced.                                                              *)
(***************************************************************************)
CONSTANTS Client, Server

VARIABLES
    told,       \* told[e]: the connection state last announced to e's user
    begun,      \* begun[e]: e was started
    answered    \* the server has told the client that it accepted

vars == <<told, begun, answered>>

Endpoint == {Client, Server}

Init ==
    /\ told = [e \in Endpoint |-> "new"]
    /\ begun = [e \in Endpoint |-> FALSE]
    /\ answered = FALSE

\* Whatever was announced before, even 'connected', becomes 'connecting'.
Begin(e) ==
    /\ ~begun[e]
    /\ begun' = [begun EXCEPT ![e] = TRUE]
    /\ told' = [told EXCEPT ![e] = "connecting"]
    /\ UNCHANGED answered

\* A server accepts at any time a client that was begun; a closed one does it in silence.
Accept ==
    /\ begun[Client]
    /\ told' = [told EXCEPT ![Server] = "connected"]
    /\ answered' = (answered \/ told[Server] # "closed")
    /\ UNCHANGED begun

Confirm ==
    /\ answered
    /\ told[Client] = "connecting"
    /\ told' = [told EXCEPT ![Client] = "connected"]
    /\ UNCHANGED <<begun, answered>>

Drop(e) ==
    /\ told' = [told EXCEPT ![e] = "closed"]
    /\ UNCHANGED <<begun, answered>>

Next ==
    \/ Accept
    \/ Confirm
    \/ \E e \in Endpoint : Begin(e) \/ Drop(e)

Spec == Init /\ [][Next]_vars
=============================================================================
