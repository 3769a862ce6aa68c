--------------------------- MODULE ArtifactState ---------------------------
(***************************************************************************)
(* What the snapshot workers and the durability loop share: the reference  *)
(* graph, the placement map (internal/etcdstore/snapshots.go,              *)
(* placement.go) and the content-addressed artifact store of every node    *)
(* (internal/agent/artifactstore).  A blob is its digest.                  *)
(***************************************************************************)
CONSTANTS Snaps, Digests, ANodes

VARIABLES
    refs,       \* the blob reference graph: <<digest, snapshot>>
    placement,  \* the placement map: <<digest, node>>
    stored      \* the digests in each node's artifact store

artifactVars == <<refs, placement, stored>>

ArtifactTypeOK ==
    /\ refs \subseteq Digests \X Snaps
    /\ placement \subseteq Digests \X ANodes
    /\ stored \in [ANodes -> SUBSET Digests]

ArtifactInit ==
    /\ refs = {} /\ placement = {}
    /\ stored = [n \in ANodes |-> {}]

SnapshotsReferencingBlob(d) == {s \in Snaps : <<d, s>> \in refs}
BlobPlacements(d) == {n \in ANodes : <<d, n>> \in placement}

(* An identical blob already present makes Put a no-op; a stream that does  *)
(* not hash to the digest never becomes visible.                           *)
Put(n, d) == stored' = [stored EXCEPT ![n] = @ \cup {d}]

DeleteBlob(n, d) == stored' = [stored EXCEPT ![n] = @ \ {d}]
=============================================================================
