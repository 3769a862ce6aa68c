---------------------------- MODULE MCArtifacts ----------------------------
(* Snapshots, Durability and BlobServe side by side: part says which of     *)
(* them a behaviour is about; the others keep their initial state.          *)
EXTENDS Snapshots, Durability, BlobServe

CONSTANTS d1, d2, m1, m2, Parts

VARIABLE part

artVars == <<artifactVars, snapVars, durVars, serveVars, part>>

MCDigests == {d1, d2}
MCSnaps == 1 .. 2
MCNames == {m1, m2}
MCNodes == 1 .. 2
MCPulls == 1 .. 2
MCPorts == 1 .. 2
MCHRW(d, n) == 4 - n
MCFactor == [s \in Snaps |-> IF s = 1 THEN 1 ELSE 0]
MCMembers == [s \in Snaps |-> ANodes]

MCInit ==
    /\ SnapInit /\ DurInit /\ ServeInit
    /\ home = 1 /\ disk = d1
    /\ part \in Parts

(* Names are interchangeable: the first snapshot takes the first.           *)
SnapPart ==
    /\ part = "snapshots" /\ SnapNext /\ UNCHANGED <<durVars, serveVars, part>>
    /\ snap[1] = NoSnap /\ snap'[1] # NoSnap => snap'[1].name = m1

(* The durability part follows one blob, captured on the node that          *)
(* rendezvous hashing prefers least.                                        *)
DurPart(A) ==
    /\ part = "durability" /\ A /\ UNCHANGED <<snapVars, serveVars, part>>
    /\ stored' \in [ANodes -> SUBSET {d1}]
    /\ dspent'.captured # dspent.captured => stored'[1] = stored[1]

ServePart == part = "serve" /\ ServeNext /\ UNCHANGED <<artifactVars, snapVars, durVars, part>>

MCNext == SnapPart \/ DurPart(DurNext) \/ ServePart

(* The replicas keep running their passes and the workers their tasks, and  *)
(* every node keeps reporting.                                              *)
MCFairSpec ==
    /\ MCInit /\ [][MCNext]_artVars
    /\ \A r \in Replicas : WF_artVars(DurPart(PassStep(r)))
    /\ WF_artVars(DurPart(\E t \in blobTask : TaskStep(t)))
    /\ \A n \in ANodes : WF_artVars(DurPart(UpsertNodeBlobInventory(n)))

=============================================================================
