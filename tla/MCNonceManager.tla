--------------------------- MODULE MCNonceManager ---------------------------
(* Model values and symmetry for the runs of NonceManager. *)
EXTENDS NonceManager, TLC

CONSTANTS p1, p2, p3

Symmetry == Permutations(Procs)
=============================================================================
