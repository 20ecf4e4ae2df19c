------------------------ MODULE MCSctpAssociation ------------------------
(* SctpAssociation for TLC: two endpoints and few retransmissions.         *)
EXTENDS SctpAssociation
=============================================================================
