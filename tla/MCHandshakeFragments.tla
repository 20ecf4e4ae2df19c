------------------------- MODULE MCHandshakeFragments -------------------------
(* HandshakeFragments for TLC: a message that fits, one of three fragments, one *)
(* without content, and one of two fragments of which the last is full.         *)
EXTENDS HandshakeFragments

MCSizes == <<2, 5, 0, 4>>
=============================================================================
