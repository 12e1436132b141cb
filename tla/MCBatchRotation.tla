--------------------------- MODULE MCBatchRotation ---------------------------
(* Small instances of BatchRotation. *)
EXTENDS BatchRotation, TLC

CONSTANTS d1, d2

Symmetry == Permutations(Dispatchers)
=============================================================================
