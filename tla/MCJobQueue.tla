----------------------------- MODULE MCJobQueue -----------------------------
(* Small instances of JobQueue for TLC. *)
EXTENDS JobQueue, TLC

CONSTANTS j1, r1, r2, d1, d2

Symmetry == Permutations({r1, r2}) \cup Permutations({d1, d2})

=============================================================================
