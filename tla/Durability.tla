----------------------------- MODULE Durability -----------------------------
(***************************************************************************)
(* The durability of artifact blobs: the periodic reconcile pass, the      *)
(* artifact.replicate and artifact.reclaim workers                         *)
(* (internal/api/handlers/replication), their in-flight markers            *)
(* (internal/etcdstore/replicate_inflight.go, reclaim_inflight.go), the    *)
(* blob inventories nodes report (internal/etcdstore/node_blobs.go) and    *)
(* the scrubber that discards a rotten blob (internal/agent/artifactstore).*)
(*                                                                         *)
(* The pass and the reclaim worker decide on what nodes last reported, not *)
(* on what they hold.                                                      *)
(***************************************************************************)
EXTENDS Integers, FiniteSets, FiniteSetsExt, ArtifactState

CONSTANTS
    Replicas,       \* the control-plane replicas, each running its own pass
    HRW(_, _),      \* the rendezvous weight of a node for a digest
    Factor,         \* replicas the pool of a snapshot asks for; 0 means every member
    Members,        \* the nodes in the pool of a snapshot
    NoPass,
    MaxLosses,      \* bound on copies lost to rot
    MaxDurFaults    \* bound on those, unreachable nodes, and dead workers

ASSUME DurabilityAssumptions ==
    /\ MaxLosses \in Nat /\ MaxDurFaults \in Nat
    /\ Factor \in [Snaps -> Nat] /\ Members \in [Snaps -> SUBSET ANodes]
    /\ \A d \in Digests : \A m, n \in ANodes : HRW(d, m) \in Nat /\ (HRW(d, m) = HRW(d, n) => m = n)

VARIABLES
    inv,       \* the blobs each node last reported
    reach,     \* how a node row looks: "ready", "unreachable", or "stale" past the grace
    pass,      \* what the pass of a replica has read for the digest it is at
    marker,    \* the in-flight markers: kind, digest, node
    blobTask,  \* the replicate and reclaim tasks being run
    dspent     \* losses, faults and snapshots so far

durVars == <<inv, reach, pass, marker, blobTask, dspent>>

BlobTask == [kind : {"replicate", "reclaim"}, d : Digests, n : ANodes, at : {"queued", "safe"}]
Pass == [d : Digests, live : SUBSET ANodes, stale : SUBSET ANodes,
         refs : SUBSET Snaps, k : Nat, eligible : SUBSET ANodes, members : SUBSET ANodes,
         holders : SUBSET ANodes]

(* Inventories, passes, markers and tasks keep their types.                 *)
DurTypeOK ==
    /\ ArtifactTypeOK
    /\ inv \in [ANodes -> SUBSET Digests]
    /\ reach \in [ANodes -> {"ready", "unreachable", "stale"}]
    /\ \A r \in Replicas : pass[r] \in Pass \cup {NoPass}
    /\ marker \subseteq {"replicate", "reclaim"} \X Digests \X ANodes
    /\ blobTask \subseteq BlobTask
    /\ dspent \in [losses : 0 .. MaxLosses, faults : 0 .. MaxDurFaults, captured : SUBSET Snaps, applied : SUBSET Snaps]

DurInit ==
    /\ inv = [n \in ANodes |-> {}]
    /\ reach = [n \in ANodes |-> "ready"]
    /\ pass = [r \in Replicas |-> NoPass]
    /\ marker = {} /\ blobTask = {}
    /\ dspent = [losses |-> 0, faults |-> 0, captured |-> {}, applied |-> {}]

DurFault ==
    /\ dspent.faults + dspent.losses < MaxDurFaults
    /\ dspent' = [dspent EXCEPT !.faults = @ + 1]

-----------------------------------------------------------------------------
(* What the pass and the workers compute.                                  *)

LiveNodes == {n \in ANodes : reach[n] = "ready"}
rebalanceEligibleNodeIDs == {n \in ANodes : reach[n] = "stale"}
liveHolders(d, live) == {n \in live : d \in inv[n]}
membershipNodeIDs(s, live) == Members[s] \cap live

(* The largest factor asked for by a snapshot that references the blob, and *)
(* at least one.                                                            *)
blobPlacementTarget(d, live) ==
    LET factor(s) == IF Factor[s] = 0 THEN Cardinality(membershipNodeIDs(s, live)) ELSE Factor[s]
    IN Max({1} \cup {factor(s) : s \in SnapshotsReferencingBlob(d)})

EligibleNodes(d, live) == UNION {membershipNodeIDs(s, live) : s \in SnapshotsReferencingBlob(d)}

selectTargets(d, from, need) ==
    {n \in from : Cardinality({m \in from : HRW(d, m) > HRW(d, n)}) < need}

(* A dead member is forgotten only while a live member holds the blob.      *)
pruneDeadMembers(p) ==
    IF p.members \cap p.holders = {} THEN p.members ELSE p.members \ p.stale

(* The members a pass leaves for its digest.                                *)
addTargets(p) ==
    LET members == pruneDeadMembers(p)
        need == p.k - Cardinality(members \cap p.live)
    IN members \cup (IF p.holders = {} THEN {} ELSE selectTargets(p.d, p.eligible \ members, need))

Keepers(p) == selectTargets(p.d, p.holders, p.k)


Surplus(p) ==
    IF p.refs = {} THEN p.holders
    ELSE IF Cardinality(p.holders) > p.k THEN p.holders \ Keepers(p) ELSE {}

MembersAfter(p) ==
    IF p.refs = {} THEN pruneDeadMembers(p) \ (p.live \ p.holders)
    ELSE IF Cardinality(p.holders) > p.k THEN addTargets(p) \cap Keepers(p)
    ELSE addTargets(p)


enqueueReplicas(p) ==
    IF p.refs = {} \/ p.holders = {} \/ Cardinality(p.holders) > p.k THEN {}
    ELSE (addTargets(p) \cap p.live) \ p.holders

-----------------------------------------------------------------------------
(* The reconcile pass of a replica, one digest at a time: what it reads,    *)
(* then what it writes.                                                     *)

PassRead(r, d) ==
    LET live == LiveNodes
    IN
    /\ pass[r] = NoPass
    /\ BlobPlacements(d) # {} \/ \E n \in ANodes : d \in inv[n]
    /\ pass' = [pass EXCEPT ![r] =
                   [d |-> d, live |-> live, stale |-> rebalanceEligibleNodeIDs,
                    refs |-> SnapshotsReferencingBlob(d), k |-> blobPlacementTarget(d, live),
                    eligible |-> EligibleNodes(d, live), members |-> BlobPlacements(d),
                    holders |-> liveHolders(d, live)]]
    /\ inv' = [n \in ANodes |-> IF n \in rebalanceEligibleNodeIDs THEN {} ELSE inv[n]]
    /\ UNCHANGED <<artifactVars, reach, marker, blobTask, dspent>>

(* A task is queued only by the one that wrote the marker.                  *)
TryBegin(kind, d, nodes) == {n \in nodes : <<kind, d, n>> \notin marker}

Queue(kind, d, nodes) == {[kind |-> kind, d |-> d, n |-> n, at |-> "queued"] : n \in nodes}

(* Its writes: the placement entries it adds and removes one by one (the    *)
(* entries others wrote since stay), and the tasks it queues.               *)
PassWrite(r) ==
    LET p == pass[r]
        rec == TryBegin("reclaim", p.d, Surplus(p))
        rep == TryBegin("replicate", p.d, enqueueReplicas(p))
        add == MembersAfter(p) \ p.members
        del == p.members \ MembersAfter(p)
    IN
    /\ p # NoPass
    /\ placement' = (placement \ ({p.d} \X del)) \cup ({p.d} \X add)
    /\ marker' = marker \cup ({"reclaim"} \X {p.d} \X rec) \cup ({"replicate"} \X {p.d} \X rep)
    /\ blobTask' = blobTask \cup Queue("reclaim", p.d, rec) \cup Queue("replicate", p.d, rep)
    /\ pass' = [pass EXCEPT ![r] = NoPass]
    /\ UNCHANGED <<refs, stored, inv, reach, dspent>>

-----------------------------------------------------------------------------
(* The workers.  Two tasks of one kind for one copy at one point are one:   *)
(* each of their steps is idempotent.                                       *)

Unmark(t) == marker \ {<<t.kind, t.d, t.n>>}

reclaimStillSafe(t) ==
    LET live == LiveNodes
        holders == liveHolders(t.d, live)
        desired == IF SnapshotsReferencingBlob(t.d) = {} THEN 0 ELSE blobPlacementTarget(t.d, live)
    IN t.n \in holders /\ Cardinality(holders) - 1 >= desired

(* The check; a task found unsafe finishes and clears its marker.           *)
CheckReclaim(t) ==
    /\ t \in blobTask /\ t.kind = "reclaim" /\ t.at = "queued"
    /\ IF reclaimStillSafe(t)
       THEN /\ blobTask' = (blobTask \ {t}) \cup {[t EXCEPT !.at = "safe"]}
            /\ UNCHANGED marker
       ELSE blobTask' = blobTask \ {t} /\ marker' = Unmark(t)
    /\ UNCHANGED <<artifactVars, inv, reach, pass, dspent>>

(* The delete on the agent, the task's end and the marker's removal.        *)
runReclaim(t) ==
    /\ t \in blobTask /\ t.kind = "reclaim" /\ t.at = "safe"
    /\ DeleteBlob(t.n, t.d)
    /\ blobTask' = blobTask \ {t} /\ marker' = Unmark(t)
    /\ UNCHANGED <<refs, placement, inv, reach, pass, dspent>>

(* The pull is brokered from a live holder; it lands when one really has    *)
(* the bytes.                                                               *)
runReplicate(t) ==
    /\ t \in blobTask /\ t.kind = "replicate"
    /\ \E h \in liveHolders(t.d, LiveNodes) : t.d \in stored[h]
    /\ Put(t.n, t.d)
    /\ blobTask' = blobTask \ {t} /\ marker' = Unmark(t)
    /\ UNCHANGED <<refs, placement, inv, reach, pass, dspent>>

(* A task that cannot reach its node or a holder ends its attempt and       *)
(* clears its marker; it is retried until its attempts are used up.         *)
FailBlobTask(t) ==
    /\ t \in blobTask
    /\ \/ reach[t.n] # "ready"
       \/ t.kind = "replicate" /\ \A h \in liveHolders(t.d, LiveNodes) : t.d \notin stored[h]
    /\ \/ blobTask' = blobTask \ {t}
       \/ t.at = "safe" /\ blobTask' = (blobTask \ {t}) \cup {[t EXCEPT !.at = "queued"]}
    /\ marker' = Unmark(t)
    /\ UNCHANGED <<artifactVars, inv, reach, pass, dspent>>

(* A worker that dies after its check leaves its marker and is run again;   *)
(* the marker may be past its five minutes by then.                         *)
BlobWorkerDies(t) ==
    /\ t \in blobTask /\ t.at = "safe" /\ DurFault
    /\ blobTask' = (blobTask \ {t}) \cup {[t EXCEPT !.at = "queued"]}
    /\ marker' \in {marker, Unmark(t)}
    /\ UNCHANGED <<artifactVars, inv, reach, pass>>

-----------------------------------------------------------------------------
(* Nodes, and the snapshots that come and go.                              *)

(* The inventory is replaced by what the store lists, and a node that       *)
(* reports is ready.                                                        *)
UpsertNodeBlobInventory(n) ==
    /\ inv' = [inv EXCEPT ![n] = stored[n]]
    /\ reach' = [reach EXCEPT ![n] = "ready"]
    /\ UNCHANGED <<artifactVars, pass, marker, blobTask, dspent>>

NodeQuiet(n) ==
    /\ reach[n] = "ready" /\ DurFault
    /\ reach' = [reach EXCEPT ![n] = "unreachable"]
    /\ UNCHANGED <<artifactVars, inv, pass, marker, blobTask>>

GracePasses(n) ==
    /\ reach[n] = "unreachable"
    /\ reach' = [reach EXCEPT ![n] = "stale"]
    /\ UNCHANGED <<artifactVars, inv, pass, marker, blobTask, dspent>>

(* A blob that no longer hashes to its name is removed.                     *)
Scrub(n, d) ==
    /\ d \in stored[n] /\ dspent.losses < MaxLosses /\ dspent.faults + dspent.losses < MaxDurFaults
    /\ Cardinality({m \in ANodes : d \in stored[m]}) > 1
    /\ DeleteBlob(n, d)
    /\ dspent' = [dspent EXCEPT !.losses = @ + 1]
    /\ UNCHANGED <<refs, placement, inv, reach, pass, marker, blobTask>>

(* The blob is being collected as unreferenced, or what is known of its     *)
(* copies is out of date.                                                   *)
AtRisk(d) ==
    \/ \E t \in blobTask : t.kind = "reclaim" /\ t.d = d
    \/ \E r \in Replicas : pass[r] # NoPass /\ pass[r].d = d /\ pass[r].refs = {}
    \/ \E n \in ANodes : d \in inv[n] \ stored[n]

(* A capture lands the blob; later the manifest is applied; later the       *)
(* snapshot is deleted and dereferenced.  Snapshots models the workers.     *)
Captured(s, n, d) ==
    /\ s \notin dspent.captured /\ \A t \in Snaps : t < s => t \in dspent.applied
    /\ Put(n, d)
    /\ dspent' = [dspent EXCEPT !.captured = @ \cup {s}]
    /\ UNCHANGED <<refs, placement, inv, reach, pass, marker, blobTask>>

Applied(s, n, d) ==
    /\ s \in dspent.captured \ dspent.applied
    /\ d \in stored[n] /\ ~ AtRisk(d)
    /\ refs' = refs \cup {<<d, s>>}
    /\ placement' = placement \cup {<<d, n>>}
    /\ dspent' = [dspent EXCEPT !.applied = @ \cup {s}]
    /\ UNCHANGED <<stored, inv, reach, pass, marker, blobTask>>

Dereferenced(s, d) ==
    /\ <<d, s>> \in refs
    /\ refs' = refs \ {<<d, s>>}
    /\ UNCHANGED <<placement, stored, durVars>>

-----------------------------------------------------------------------------
PassStep(r) ==
    (\E d \in Digests : PassRead(r, d)) \/ PassWrite(r)

TaskStep(t) == CheckReclaim(t) \/ runReclaim(t) \/ runReplicate(t) \/ FailBlobTask(t)

DurWork == (\E r \in Replicas : PassStep(r)) \/ (\E t \in blobTask : TaskStep(t))

DurNodes ==
    \/ \E n \in ANodes : UpsertNodeBlobInventory(n) \/ NodeQuiet(n) \/ GracePasses(n)
    \/ \E n \in ANodes, d \in Digests : Scrub(n, d)
    \/ \E t \in blobTask : BlobWorkerDies(t)

DurEnv ==
    \/ \E s \in Snaps, n \in ANodes, d \in Digests : Captured(s, n, d) \/ Applied(s, n, d)
    \/ \E s \in Snaps, d \in Digests : Dereferenced(s, d)

DurNext == DurWork \/ DurNodes \/ DurEnv

-----------------------------------------------------------------------------

(* A blob has as many copies as asked for, or as there are nodes to take    *)
(* them; an unreferenced one has none.                                      *)
CopiesExact(d) ==
    LET have == {n \in ANodes : d \in stored[n]}
        k == blobPlacementTarget(d, LiveNodes)
    IN IF SnapshotsReferencingBlob(d) = {} THEN have = {}
       ELSE have # {} => Cardinality(have) = Min({k, Cardinality(have \cup EligibleNodes(d, LiveNodes))})
=============================================================================
