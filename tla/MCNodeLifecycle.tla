-------------------------- MODULE MCNodeLifecycle ---------------------------
(* Small instances of NodeLifecycle for TLC. *)
EXTENDS NodeLifecycle, TLC

CONSTANTS n1, n2, v1, t1, t2, c1, c2, r1, r2, d1, d2

Symmetry == Permutations({d1, d2}) \cup Permutations({c1, c2}) \cup Permutations({r1, r2})
            \cup Permutations({t1, t2})

=============================================================================
