-------------------------- MODULE MCSctpReceive --------------------------
(* SctpReceive for TLC: 20 TSNs, two digits; the first sender crosses 9,   *)
(* where the decimal order turns, the second one wraps around.             *)
EXTENDS SctpReceive
=============================================================================
