--------------------------- MODULE MCReclaimRace ---------------------------
(* One node, one disk content, two snapshots in turn.                       *)
EXTENDS Artifacts

MCSnaps == 1 .. 2
MCNodes == 1 .. 1
MCHRW(d, n) == n
MCFactor == [s \in Snaps |-> 1]
MCMembers == [s \in Snaps |-> ANodes]
=============================================================================
