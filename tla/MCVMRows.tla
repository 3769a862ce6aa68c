------------------------------ MODULE MCVMRows ------------------------------
(* Two hosts, the first of which can be deleted and join again as n3. *)
EXTENDS VMRows
CONSTANTS n1, n2, n3, h1, h2

TwoHosts == [n \in Nodes |-> IF n = n2 THEN h2 ELSE h1]
=============================================================================
