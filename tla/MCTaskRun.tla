----------------------------- MODULE MCTaskRun ------------------------------
(* Small instances of TaskRun for TLC. *)
EXTENDS TaskRun, TLC

CONSTANTS j1, r1, d1, d2

Symmetry == Permutations({d1, d2})

=============================================================================
