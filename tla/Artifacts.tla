----------------------------- MODULE Artifacts -----------------------------
(***************************************************************************)
(* Snapshots and their durability together: the snapshot workers and the   *)
(* agents' captures run beside the reconcile passes and the replicate and  *)
(* reclaim workers, over one reference graph, one placement map and one    *)
(* store per node.                                                         *)
(***************************************************************************)
EXTENDS Snapshots, Durability

allVars == <<artifactVars, snapVars, durVars>>

ArtInit == SnapInit /\ DurInit

ArtNext ==
    \/ SnapNext /\ UNCHANGED durVars
    \/ (DurWork \/ DurNodes) /\ UNCHANGED snapVars

ArtFairSpec ==
    /\ ArtInit /\ [][ArtNext]_allVars
    /\ \A s \in Snaps : WF_allVars(SnapWorkerStep(s) /\ UNCHANGED durVars)
    /\ WF_allVars(SnapAgentStep /\ UNCHANGED durVars)
    /\ WF_allVars(DurWork /\ UNCHANGED snapVars)

Copies(d) == {n \in ANodes : d \in stored[n]}

(* No step removes the last copy of a blob that a snapshot references.      *)
NeverDropsReferenced ==
    [][\A d \in Digests : SnapshotsReferencingBlob(d) # {} /\ Copies(d) # {} => Copies(d)' # {}]_allVars
=============================================================================
