--------------------------- MODULE MCDtlsHandshake ---------------------------
(* The DTLS handshake with few retransmissions and cookies, for TLC.            *)
EXTENDS DtlsHandshake
=============================================================================
