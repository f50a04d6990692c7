------------------------------ MODULE Storage ------------------------------
(***************************************************************************)
(* What the end of a session promises: every piece of the torrent is       *)
(* handed to the disk once, every piece handed over is settled (written,   *)
(* or its write error logged), and completion is signalled only after the  *)
(* last one was settled.                                                   *)
(***************************************************************************)
CONSTANT Items   \* the pieces of the torrent

VARIABLES
  handed,        \* given to the disk manager
  settled,       \* written, or failed and logged
  signalled      \* doneChan is closed

Init ==
  /\ handed = {}
  /\ settled = {}
  /\ signalled = FALSE

Hand(i) ==
  /\ i \notin handed
  /\ handed' = handed \cup {i}
  /\ UNCHANGED <<settled, signalled>>

Settle(i) ==
  /\ i \in handed \ settled
  /\ settled' = settled \cup {i}
  /\ UNCHANGED <<handed, signalled>>

Signal ==
  /\ settled = Items
  /\ signalled' = TRUE
  /\ UNCHANGED <<handed, settled>>

Next == Signal \/ \E i \in Items : Hand(i) \/ Settle(i)

Spec == Init /\ [][Next]_<<handed, settled, signalled>>

=============================================================================
