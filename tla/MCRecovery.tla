----------------------------- MODULE MCRecovery -----------------------------
(* Small sets of readers for TLC.                                          *)
EXTENDS Recovery
CONSTANTS r1, r2
=============================================================================
