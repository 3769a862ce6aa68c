----------------------------- MODULE Snapshots -----------------------------
(***************************************************************************)
(* Disk snapshots of one VM, from the request to the bytes and back:       *)
(* the snapshot rows and their per-VM name guard                           *)
(* (internal/etcdstore/snapshots.go), the vm.snapshot.create and           *)
(* vm.snapshot.delete workers (internal/api/handlers/snapshots), and the   *)
(* capture and collection an agent runs for them                           *)
(* (internal/agent/vm/snapshots.go).                                       *)
(*                                                                         *)
(* The agent knows a snapshot by its name, the control plane by its id: a  *)
(* name is free for a new snapshot as soon as the old one is soft-deleted, *)
(* while the agent still holds the old manifest.                           *)
(***************************************************************************)
EXTENDS Integers, FiniteSets, ArtifactState

CONSTANTS
    SnapNames,       \* the names a request may ask for
    NoSnap, NoBlob, NoTask,
    MaxSnapAttempts, \* the attempts of a snapshot job
    MaxAgentTasks,   \* bound on agent tasks
    MaxSnapEvents    \* bound on guest writes, renames, crashes, restarts and failed captures

ASSUME SnapshotAssumptions ==
    MaxSnapAttempts \in Nat \ {0} /\ MaxAgentTasks \in Nat /\ MaxSnapEvents \in Nat

VARIABLES
    snap,       \* the snapshot rows
    nameGuard,  \* the snapshot each name is guarded for
    cjob, gcjob,\* each snapshot's create job and delete job with their workers
    agentTask,  \* the agent tasks, by id: where, and what they report
    capture,    \* the capture in flight on a node for a name
    manifest,   \* the manifests on a node's pool: the digest a name was captured as
    pool,       \* the digests in a node's disk pool
    collect,    \* the collections an agent is running
    disk,       \* the content of the VM's disk
    home,       \* the node the VM runs on
    since,      \* history: the contents the disk had since a snapshot was asked for
    spent       \* writes and faults so far

snapVars == <<snap, nameGuard, cjob, gcjob, agentTask, capture, manifest, pool, collect,
              disk, home, since, spent>>

TaskIds == 1 .. MaxAgentTasks
Blob == Digests \cup {NoBlob}

CJob == [at : {"none", "queued", "post", "persist", "poll", "apply", "finalize", "done"},
         tries : 0 .. MaxSnapAttempts, node : ANodes \cup {NoSnap}, id : TaskIds \cup {NoTask},
         kept : TaskIds \cup {NoTask}, blob : Blob,
         name : SnapNames \cup {NoSnap}]
GCJob == [at : {"none", "queued", "agents", "done"}, tries : 0 .. MaxSnapAttempts,
          left : SUBSET ANodes, orphan : BOOLEAN]
Idle == [at |-> "idle", id |-> NoTask, blob |-> NoBlob]

(* Every row, job, task and capture keeps its type.                         *)
SnapTypeOK ==
    /\ ArtifactTypeOK
    /\ snap \in [Snaps -> [st : {"creating", "ready", "error", "deleting"}, name : SnapNames,
                           live : BOOLEAN, blob : Blob] \cup {NoSnap}]
    /\ nameGuard \in [SnapNames -> Snaps \cup {NoSnap}]
    /\ cjob \in [Snaps -> CJob] /\ gcjob \in [Snaps -> GCJob]
    /\ agentTask \in [TaskIds -> [at : {"free", "running", "failed", "success", "lost"}, node : ANodes \cup {NoSnap},
                                  blob : Blob]]
    /\ capture \in [ANodes \X SnapNames ->
                       [at : {"idle", "backup", "blobs", "manifest"},
                        id : TaskIds \cup {NoTask}, blob : Blob]]
    /\ manifest \in [ANodes \X SnapNames -> Blob]
    /\ pool \in [ANodes -> SUBSET Digests]
    /\ collect \subseteq [node : ANodes, name : SnapNames, blobs : SUBSET Digests,
                          at : {"manifest", "blobs"}]
    /\ disk \in Digests /\ home \in ANodes
    /\ since \in [Snaps -> SUBSET Digests]
    /\ spent \in 0 .. MaxSnapEvents

SnapInit ==
    /\ ArtifactInit
    /\ snap = [s \in Snaps |-> NoSnap]
    /\ nameGuard = [m \in SnapNames |-> NoSnap]
    /\ cjob = [s \in Snaps |-> [at |-> "none", tries |-> 0, node |-> NoSnap, id |-> NoTask,
                                kept |-> NoTask, blob |-> NoBlob, name |-> NoSnap]]
    /\ gcjob = [s \in Snaps |-> [at |-> "none", tries |-> 0, left |-> {}, orphan |-> FALSE]]
    /\ agentTask = [i \in TaskIds |-> [at |-> "free", node |-> NoSnap, blob |-> NoBlob]]
    /\ capture = [c \in ANodes \X SnapNames |-> Idle]
    /\ manifest = [c \in ANodes \X SnapNames |-> NoBlob]
    /\ pool = [n \in ANodes |-> {}]
    /\ collect = {}
    /\ disk \in Digests /\ home \in ANodes
    /\ since = [s \in Snaps |-> {}]
    /\ spent = 0

SnapEvent == spent < MaxSnapEvents /\ spent' = spent + 1

LiveSnap(s) == snap[s] # NoSnap /\ snap[s].live

-----------------------------------------------------------------------------
(* The requests and the guest.                                             *)

(* Name guard, row, indexes, task and job in one transaction.  The handler  *)
(* offers a fresh id with every request; ids are numbered in that order.    *)
CreateSnapshot(s, m) ==
    /\ snap[s] = NoSnap /\ \A t \in Snaps : t < s => snap[t] # NoSnap
    /\ nameGuard[m] = NoSnap
    /\ nameGuard' = [nameGuard EXCEPT ![m] = s]
    /\ snap' = [snap EXCEPT ![s] = [st |-> "creating", name |-> m, live |-> TRUE, blob |-> NoBlob]]
    /\ cjob' = [cjob EXCEPT ![s].at = "queued"]
    /\ since' = [since EXCEPT ![s] = {disk}]
    /\ UNCHANGED <<artifactVars, gcjob, agentTask, capture, manifest, pool, collect, disk, home,
                   spent>>

(* A rename moves the name guard with the row, under the row's revision; a  *)
(* name that is taken refuses.  The agent is not told.                      *)
UpdateSnapshotMeta(s, m) ==
    /\ LiveSnap(s) /\ nameGuard[m] = NoSnap
    /\ SnapEvent
    /\ snap' = [snap EXCEPT ![s].name = m]
    /\ nameGuard' = [nameGuard EXCEPT ![m] = s, ![snap[s].name] = NoSnap]
    /\ UNCHANGED <<artifactVars, cjob, gcjob, agentTask, capture, manifest, pool, collect, disk,
                   home, since>>

(* The soft delete, its guard and index drops and the collection job are    *)
(* one transaction under the row's revision.  A create in flight from the   *)
(* snapshot refuses the request, which then changes nothing.                *)
DeleteSnapshot(s) ==
    /\ LiveSnap(s)
    /\ snap' = [snap EXCEPT ![s].live = FALSE, ![s].st = "deleting"]
    /\ nameGuard' = [nameGuard EXCEPT ![snap[s].name] = NoSnap]
    /\ gcjob' = [gcjob EXCEPT ![s].at = "queued"]
    /\ UNCHANGED <<artifactVars, cjob, agentTask, capture, manifest, pool, collect, disk, home,
                   since, spent>>

GuestWrites(d) ==
    /\ d # disk /\ SnapEvent
    /\ disk' = d
    /\ since' = [s \in Snaps |-> IF LiveSnap(s) THEN since[s] \cup {d} ELSE since[s]]
    /\ UNCHANGED <<artifactVars, snap, nameGuard, cjob, gcjob, agentTask, capture, manifest, pool,
                   collect, home>>

-----------------------------------------------------------------------------
(* The vm.snapshot.create worker.                                          *)

Worker(s, r) == cjob' = [cjob EXCEPT ![s] = r]

Requeue(j) ==
    [j EXCEPT !.at = IF j.tries + 1 < MaxSnapAttempts THEN "queued" ELSE "done",
              !.tries = @ + 1, !.id = NoTask, !.blob = NoBlob, !.name = NoSnap]


(* Only a row that is still creating takes the error.                       *)
MarkSnapshotError(s) ==
    snap' = IF LiveSnap(s) /\ snap[s].st = "creating" THEN [snap EXCEPT ![s].st = "error"] ELSE snap

failCreateTask(s, j) == Worker(s, Requeue(j)) /\ MarkSnapshotError(s)

(* A worker that finds an agent task id on the task resumes polling it; one *)
(* that does not asks for a capture under the name the row had when read.   *)
StartCapture(s) ==
    /\ cjob[s].at = "queued"
    /\ IF LiveSnap(s)
       THEN /\ Worker(s, [cjob[s] EXCEPT !.node = home, !.id = cjob[s].kept, !.name = snap[s].name,
                          !.at = IF cjob[s].kept = NoTask THEN "post" ELSE "poll"])
            /\ UNCHANGED snap
       ELSE failCreateTask(s, cjob[s])
    /\ UNCHANGED <<artifactVars, nameGuard, gcjob, agentTask, capture, manifest, pool, collect,
                   disk, home, since, spent>>

FreeTask == {i \in TaskIds : agentTask[i].at = "free" /\ \A k \in 1 .. i - 1 : agentTask[k].at # "free"}

terminalSnapshotTask(c) == [at |-> "success", node |-> c[1], blob |-> manifest[c]]

(* The two idempotency gates of the agent, under one mutex: a capture in    *)
(* flight for the name answers with its task, a manifest on disk with a     *)
(* finished task that echoes it; else a capture starts.                     *)
AgentCreateSnapshot(c, i) ==
    IF capture[c].at # "idle"
    THEN i = capture[c].id /\ UNCHANGED <<agentTask, capture>>
    ELSE /\ i \in FreeTask
         /\ IF manifest[c] # NoBlob
            THEN /\ agentTask' = [agentTask EXCEPT ![i] = terminalSnapshotTask(c)]
                 /\ UNCHANGED capture
            ELSE /\ agentTask' = [agentTask EXCEPT ![i] = [at |-> "running", node |-> c[1], blob |-> NoBlob]]
                 /\ capture' = [capture EXCEPT ![c] = [at |-> "backup", id |-> i, blob |-> NoBlob]]

PostSnapshot(s) ==
    /\ cjob[s].at = "post"
    /\ \E i \in TaskIds :
          /\ AgentCreateSnapshot(<<cjob[s].node, cjob[s].name>>, i)
          /\ Worker(s, [cjob[s] EXCEPT !.at = "persist", !.id = i])
    /\ UNCHANGED <<artifactVars, snap, nameGuard, gcjob, manifest, pool, collect, disk, home,
                   since, spent>>

(* The id is kept on the task before it is polled.                          *)
PersistTaskID(s) ==
    /\ cjob[s].at = "persist"
    /\ Worker(s, [cjob[s] EXCEPT !.at = "poll", !.kept = cjob[s].id])
    /\ UNCHANGED <<artifactVars, snap, nameGuard, gcjob, agentTask, capture, manifest, pool,
                   collect, disk, home, since, spent>>

agentTaskGone(t) == t.at = "lost"

(* A task the agent no longer knows clears the kept id, so that the next    *)
(* attempt posts again.                                                     *)
PollCapture(s) ==
    LET t == agentTask[cjob[s].id]
    IN
    /\ cjob[s].at = "poll" /\ t.at # "running"
    /\ IF t.at = "success"
       THEN /\ Worker(s, [cjob[s] EXCEPT !.at = "apply", !.blob = t.blob])
            /\ UNCHANGED snap
       ELSE failCreateTask(s, IF agentTaskGone(t) THEN [cjob[s] EXCEPT !.kept = NoTask] ELSE cjob[s])
    /\ UNCHANGED <<artifactVars, nameGuard, gcjob, agentTask, capture, manifest, pool, collect,
                   disk, home, since, spent>>

(* Row, references and placement in one transaction under the row's         *)
(* revision; a row soft-deleted meanwhile is left alone.                    *)
SnapshotManifestApplied(s) ==
    /\ cjob[s].at = "apply"
    /\ IF LiveSnap(s)
       THEN /\ snap' = [snap EXCEPT ![s].st = "ready", ![s].blob = cjob[s].blob]
            /\ refs' = refs \cup {<<cjob[s].blob, s>>}
            /\ placement' = placement \cup {<<cjob[s].blob, cjob[s].node>>}
       ELSE UNCHANGED <<snap, refs, placement>>
    /\ Worker(s, [cjob[s] EXCEPT !.at = "finalize"])
    /\ UNCHANGED <<stored, nameGuard, gcjob, agentTask, capture, manifest, pool, collect, disk,
                   home, since, spent>>

FinalizeCapture(s) ==
    /\ cjob[s].at = "finalize"
    /\ Worker(s, [cjob[s] EXCEPT !.at = "done"])
    /\ UNCHANGED <<artifactVars, snap, nameGuard, gcjob, agentTask, capture, manifest, pool,
                   collect, disk, home, since, spent>>

(* A worker that dies leaves the job to be delivered again, with what it    *)
(* persisted.                                                               *)
WorkerDies(s) ==
    /\ SnapEvent
    /\ \/ /\ cjob[s].at \in {"post", "persist", "poll", "apply", "finalize"}
          /\ Worker(s, [cjob[s] EXCEPT !.at = "queued", !.id = NoTask, !.blob = NoBlob, !.name = NoSnap])
          /\ UNCHANGED gcjob
       \/ /\ gcjob[s].at = "agents"
          /\ gcjob' = [gcjob EXCEPT ![s].at = "queued"]
          /\ UNCHANGED cjob
    /\ UNCHANGED <<artifactVars, snap, nameGuard, agentTask, capture, manifest, pool, collect,
                   disk, home, since>>

-----------------------------------------------------------------------------
(* The capture on the agent: backup, blob, manifest.                       *)

CaptureDisk(c) ==
    /\ capture[c].at = "backup"
    /\ capture' = [capture EXCEPT ![c].at = "blobs", ![c].blob = disk]
    /\ UNCHANGED <<artifactVars, snap, nameGuard, cjob, gcjob, agentTask, manifest, pool, collect,
                   disk, home, since, spent>>

(* A copy goes into the disk pool and one into the artifact store; either   *)
(* is reused when it is already there.                                      *)
produceBlob(c) ==
    /\ capture[c].at = "blobs"
    /\ pool' = [pool EXCEPT ![c[1]] = @ \cup {capture[c].blob}]
    /\ Put(c[1], capture[c].blob)
    /\ capture' = [capture EXCEPT ![c].at = "manifest"]
    /\ UNCHANGED <<refs, placement, snap, nameGuard, cjob, gcjob, agentTask, manifest, collect,
                   disk, home, since, spent>>

EndTask(c, at) ==
    /\ agentTask' = [agentTask EXCEPT ![capture[c].id].at = at, ![capture[c].id].blob = capture[c].blob]
    /\ capture' = [capture EXCEPT ![c] = Idle]

writeSnapshotManifest(c) ==
    /\ capture[c].at = "manifest"
    /\ manifest' = [manifest EXCEPT ![c] = capture[c].blob]
    /\ EndTask(c, "success")
    /\ UNCHANGED <<artifactVars, snap, nameGuard, cjob, gcjob, pool, collect, disk, home, since,
                   spent>>

failSnapshotTask(c) ==
    /\ capture[c].at # "idle"
    /\ SnapEvent
    /\ EndTask(c, "failed")
    /\ UNCHANGED <<artifactVars, snap, nameGuard, cjob, gcjob, manifest, pool, collect, disk, home,
                   since>>

(* The task table, the captures and the collections live in memory.         *)
AgentRestarts(n) ==
    /\ \E i \in TaskIds : agentTask[i].node = n /\ agentTask[i].at # "lost"
    /\ SnapEvent
    /\ agentTask' = [i \in TaskIds |-> IF agentTask[i].node = n THEN [agentTask[i] EXCEPT !.at = "lost"]
                                       ELSE agentTask[i]]
    /\ capture' = [c \in ANodes \X SnapNames |-> IF c[1] = n THEN Idle ELSE capture[c]]
    /\ collect' = {g \in collect : g.node # n}
    /\ UNCHANGED <<artifactVars, snap, nameGuard, cjob, gcjob, manifest, pool, disk, home, since>>

-----------------------------------------------------------------------------
(* The vm.snapshot.delete worker and the collection on the agent.          *)

resolveSnapshotHolders(d) == IF d = NoBlob THEN {} ELSE BlobPlacements(d)

orphansOnNode(s) == IF gcjob[s].orphan THEN {snap[s].blob} ELSE {}

(* Dropping this snapshot's reference and reading the ones that remain is   *)
(* one transaction, so of two deletes sharing a blob the later one sees no  *)
(* reference left.                                                          *)
DereferenceSnapshotBlobs(s) ==
    LET d == snap[s].blob
        rest == refs \ {<<d, s>>}
    IN
    /\ gcjob[s].at = "queued"
    /\ refs' = rest
    /\ gcjob' = [gcjob EXCEPT ![s].at = "agents",
                              ![s].left = resolveSnapshotHolders(d),
                              ![s].orphan = ~ \E t \in Snaps : <<d, t>> \in rest]
    /\ UNCHANGED <<placement, stored, snap, nameGuard, cjob, agentTask, capture, manifest, pool,
                   collect, disk, home, since, spent>>

(* The call only starts the collection; its end is not awaited.             *)
deleteSnapshotOnHolders(s) ==
    /\ gcjob[s].at = "agents"
    /\ \E n \in gcjob[s].left :
         /\ gcjob' = [gcjob EXCEPT ![s].left = @ \ {n}]
         /\ collect' = collect \cup {[node |-> n, name |-> snap[s].name, at |-> "manifest",
                                      blobs |-> orphansOnNode(s)]}
    /\ UNCHANGED <<artifactVars, snap, nameGuard, cjob, agentTask, capture, manifest, pool, disk,
                   home, since, spent>>

FailDelete(s) ==
    /\ gcjob[s].at = "agents" /\ gcjob[s].left # {}
    /\ SnapEvent
    /\ gcjob' = [gcjob EXCEPT ![s].at = IF @ = "agents" /\ gcjob[s].tries + 1 < MaxSnapAttempts THEN "queued" ELSE "done",
                              ![s].tries = @ + 1]
    /\ UNCHANGED <<artifactVars, snap, nameGuard, cjob, agentTask, capture, manifest, pool,
                   collect, disk, home, since>>

FinishDelete(s) ==
    /\ gcjob[s].at = "agents" /\ gcjob[s].left = {}
    /\ gcjob' = [gcjob EXCEPT ![s].at = "done"]
    /\ UNCHANGED <<artifactVars, snap, nameGuard, cjob, agentTask, capture, manifest, pool,
                   collect, disk, home, since, spent>>

listManifests(n) == {manifest[<<n, m>>] : m \in SnapNames} \ {NoBlob}

(* The manifest goes first, then the surviving manifests are listed, then   *)
(* the orphaned blobs none of them names are removed.                       *)
gcSnapshotInPool(g) ==
    /\ g \in collect
    /\ \/ /\ g.at = "manifest"
          /\ manifest' = [manifest EXCEPT ![<<g.node, g.name>>] = NoBlob]
          /\ collect' = (collect \ {g}) \cup
                          (IF g.blobs = {} THEN {} ELSE {[g EXCEPT !.at = "blobs"]})
          /\ UNCHANGED pool
       \/ /\ g.at = "blobs"
          /\ pool' = [pool EXCEPT ![g.node] =
                         @ \ (g.blobs \ listManifests(g.node))]
          /\ collect' = collect \ {g}
          /\ UNCHANGED manifest
    /\ UNCHANGED <<artifactVars, snap, nameGuard, cjob, gcjob, agentTask, capture, disk, home,
                   since, spent>>

-----------------------------------------------------------------------------
SnapWorkerStep(s) ==
    \/ StartCapture(s) \/ PostSnapshot(s) \/ PersistTaskID(s) \/ PollCapture(s)
    \/ SnapshotManifestApplied(s) \/ FinalizeCapture(s)
    \/ DereferenceSnapshotBlobs(s) \/ deleteSnapshotOnHolders(s) \/ FinishDelete(s)

SnapAgentStep ==
    \/ \E c \in ANodes \X SnapNames :
         CaptureDisk(c) \/ produceBlob(c) \/ writeSnapshotManifest(c)
    \/ \E g \in collect : gcSnapshotInPool(g)

SnapNext ==
    \/ \E s \in Snaps, m \in SnapNames : CreateSnapshot(s, m) \/ UpdateSnapshotMeta(s, m)
    \/ \E s \in Snaps : DeleteSnapshot(s) \/ SnapWorkerStep(s) \/ WorkerDies(s) \/ FailDelete(s)
    \/ \E d \in Digests : GuestWrites(d)
    \/ SnapAgentStep
    \/ \E c \in ANodes \X SnapNames : failSnapshotTask(c)
    \/ \E n \in ANodes : AgentRestarts(n)

-----------------------------------------------------------------------------


=============================================================================
