-------------------------- MODULE MCDataChannel --------------------------
(* DataChannel for TLC: two endpoints, few channels and messages.          *)
EXTENDS DataChannel
=============================================================================
