--------------------------- MODULE MCPeerConnection ---------------------------
(* PeerConnection for TLC. *)
EXTENDS PeerConnection
=============================================================================
