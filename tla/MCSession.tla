----------------------------- MODULE MCSession ------------------------------
(* Small sets of readers for TLC.                                          *)
EXTENDS Session
CONSTANTS r1, r2
=============================================================================
