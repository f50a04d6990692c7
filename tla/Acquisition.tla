---------------------------- MODULE Acquisition ----------------------------
(***************************************************************************)
(* What a download promises to the rest of the program: verified pieces    *)
(* accumulate, none is ever given up, and completion is announced only     *)
(* once every piece has been verified.  Download is meant to implement it. *)
(***************************************************************************)
CONSTANT Items   \* the pieces of the torrent

VARIABLES
  acquired,      \* the pieces that passed verification
  announced      \* completion was announced

Init ==
  /\ acquired \in SUBSET Items
  /\ acquired # Items
  /\ announced = FALSE

Acquire(i) ==
  /\ i \notin acquired
  /\ acquired' = acquired \cup {i}
  /\ UNCHANGED announced

Announce ==
  /\ acquired = Items
  /\ announced' = TRUE
  /\ UNCHANGED acquired

Next == Announce \/ \E i \in Items : Acquire(i)

Spec == Init /\ [][Next]_<<acquired, announced>>

=============================================================================
