------------------------------ MODULE MCDaemon ------------------------------
(* Small sets of torrents for TLC.                                         *)
EXTENDS Daemon

CONSTANTS t1, t2, t3

=============================================================================
