---------------------------- MODULE MCTurnClient ----------------------------
EXTENDS TurnClient
CONSTANTS p1, p2, c1, c2, c3
MCPeers == {p1, p2}
MCSends == {c1, c2, c3}
=============================================================================
