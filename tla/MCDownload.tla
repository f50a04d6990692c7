----------------------------- MODULE MCDownload -----------------------------
(* Small sets of peers for TLC.                                            *)
EXTENDS Download

CONSTANTS p1, p2

MCSymmetry == Permutations({p1, p2})

=============================================================================
