--------------------------- MODULE MCConnections ---------------------------
(* Small sets of peers for TLC.                                            *)
EXTENDS Connections

CONSTANTS p1, p2

=============================================================================
