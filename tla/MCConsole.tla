----------------------------- MODULE MCConsole -----------------------------
(* An instance of Console for TLC.                                         *)
EXTENDS Console, TLC

CONSTANTS k1, k2, f1, q1, q2

Symmetry == Permutations({k1, k2}) \cup Permutations({q1, q2})
=============================================================================
