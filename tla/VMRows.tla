------------------------------- MODULE VMRows -------------------------------
(***************************************************************************)
(* The rows of a virtual machine and everything that writes them: the      *)
(* declared row, its name guard and indexes, the boot disk and NIC of a    *)
(* bind, the observed runtime row and its by-node index                    *)
(* (internal/etcdstore/vms_schedule.go, vms_project.go, heartbeat.go), the *)
(* create, delete and lifecycle workers (internal/api/handlers/vms), the   *)
(* evacuation of a node being deleted (nodes.go, nodes_delete_rollback.go) *)
(* and the tombstones by which a heartbeat answer tells an agent to tear a *)
(* guest down (handlers/heartbeat, internal/agent/reconciler).  Migration  *)
(* has a module of its own and takes no part here.                         *)
(*                                                                         *)
(* A host that is rebuilt after its node was deleted joins under a new     *)
(* node id: HostOf says which host a node id is an identity of.            *)
(***************************************************************************)
EXTENDS Integers, FiniteSets

CONSTANTS
    VMs,          \* VMs, all asking for the same name
    Nodes, Hosts, \* node ids, and the hosts behind them
    Founders,     \* the nodes that have joined at the start
    Deleters,     \* delete requests
    HostOf,       \* the host a node id is an identity of
    NoVM, NoNode, NoRow, NoRuntime,
    MaxBinds,     \* bound on the binds of a VM
    MaxLifecycle, \* bound on lifecycle requests
    MaxRemovals,  \* bound on node deletes
    MaxFaults,    \* bound on crashes and failed agent calls
    MaxEvents     \* bound on the three together, an operation counting twice

ASSUME VMRowsAssumptions ==
    /\ Founders \subseteq Nodes
    /\ HostOf \in [Nodes -> Hosts]
    /\ \A m, n \in Founders : HostOf[m] = HostOf[n] => m = n
    /\ MaxBinds \in Nat /\ MaxLifecycle \in Nat /\ MaxRemovals \in Nat /\ MaxFaults \in Nat
    /\ MaxEvents \in Nat

VARIABLES
    row,       \* the vms rows
    name,      \* the VM the name guard names
    unsched,   \* the unscheduled index
    pins,      \* the pinned-node index
    dev,       \* which bind the VM's live disk and NIC rows are from, 0 for none
    rt,        \* the vm_runtime rows
    rtIdx,     \* the runtime-by-node index
    reads,     \* the reads of a vms row that nobody has written since
    node,      \* the node rows
    intent,    \* nodes with a delete intent
    alive,     \* hosts that are up
    guest,     \* the guests that exist, by host
    bind,      \* the scheduler's plan in hand
    create,    \* each VM's create task, its job and the worker running it
    del,       \* the delete jobs
    life,      \* the lifecycle operation in hand
    hb,        \* each node's heartbeat in hand
    tomb,      \* the tombstones each agent holds, with the VM's bind count when issued
    removal,   \* the node delete in hand
    binds,     \* how often each VM was bound
    overtaken, \* history: VMs bound to a node deleted since the plan
    stale,     \* history: VMs whose delete overwrote a row written since it was loaded
    blind,     \* history: VMs whose runtime row changed between a blind write and its read
    used       \* how much of each bound is spent

declared == <<row, name, unsched, pins, dev>>
observed == <<rt, rtIdx>>
fleet == <<node, intent, alive, guest, tomb>>
workers == <<bind, create, del, life, hb, removal>>
history == <<binds, overtaken, stale, blind>>
vars == <<declared, observed, reads, fleet, workers, history, used>>

-----------------------------------------------------------------------------
Row == [st : {"live", "deleted"}, sched : BOOLEAN, pin : Nodes \cup {NoNode}]
Runtime == Nodes \cup {NoNode}  \* current_node_id, absent once orphaned

Create == [task : {"none", "pending", "running", "success", "failed", "cancelled"},
           job : {"none", "pending", "running"}, node : Nodes \cup {NoNode},
           at : {"idle", "claimed", "exec", "read", "write"}]
NoCreate == [task |-> "none", job |-> "none", node |-> NoNode, at |-> "idle"]

Delete == [vm : VMs \cup {NoVM}, node : Nodes \cup {NoNode},
           at : {"idle", "queued", "exec", "read", "write", "done"},
           row : Row \cup {NoRow}, rt : Runtime \cup {NoRuntime}, dev : 0 .. MaxBinds]
NoDelete == [vm |-> NoVM, node |-> NoNode, at |-> "idle", row |-> NoRow,
             rt |-> NoRuntime, dev |-> 0]

Life == [vm : VMs \cup {NoVM}, node : Nodes \cup {NoNode},
         at : {"idle", "exec", "read", "write", "retry"},
         row : Row \cup {NoRow}, rt : Runtime \cup {NoRuntime}]
NoLife == [vm |-> NoVM, node |-> NoNode, at |-> "idle", row |-> NoRow, rt |-> NoRuntime]

Beat == [vm : VMs \cup {NoVM}, rt : Runtime \cup {NoRuntime}]
NoBeat == [vm |-> NoVM, rt |-> NoRuntime]

NoBind == [vm |-> NoVM, node |-> NoNode]
NoRemoval == [node |-> NoNode, at |-> "idle", todo |-> {}]

(* Every row, index and worker record keeps its type: disks come from a     *)
(* bind that happened, and a node's verdict never replaces its existence.   *)
TypeOK ==
    /\ row \in [VMs -> Row \cup {NoRow}]
    /\ name \in VMs \cup {NoVM}
    /\ unsched \subseteq VMs
    /\ pins \subseteq Nodes \X VMs /\ rtIdx \subseteq Nodes \X VMs
    /\ dev \in [VMs -> 0 .. MaxBinds] /\ binds \in [VMs -> 0 .. MaxBinds]
    /\ rt \in [VMs -> Runtime \cup {NoRuntime}]
    /\ node \in [Nodes -> [st : {"absent", "live", "deleted"}, seen : BOOLEAN]]
    /\ intent \subseteq Nodes /\ alive \subseteq Hosts
    /\ guest \subseteq Hosts \X VMs
    /\ bind \in [vm : VMs \cup {NoVM}, node : Nodes \cup {NoNode}]
    /\ create \in [VMs -> Create]
    /\ del \in [Deleters -> Delete]
    /\ life \in Life
    /\ hb \in [Nodes -> Beat]
    /\ tomb \subseteq Nodes \X VMs \X (0 .. MaxBinds)
    /\ removal \in [node : Nodes \cup {NoNode}, at : {"idle", "list", "evacuate"},
                    todo : SUBSET VMs]
    /\ overtaken \subseteq VMs /\ stale \subseteq VMs /\ blind \subseteq VMs
    /\ used \in [lifecycle : 0 .. MaxLifecycle, removals : 0 .. MaxRemovals,
                 faults : 0 .. MaxFaults]

Init ==
    /\ row = [v \in VMs |-> NoRow] /\ name = NoVM /\ unsched = {} /\ pins = {}
    /\ dev = [v \in VMs |-> 0] /\ rt = [v \in VMs |-> NoRuntime] /\ rtIdx = {}
    /\ reads = {}
    /\ node = [n \in Nodes |-> [st |-> IF n \in Founders THEN "live" ELSE "absent",
                                seen |-> n \in Founders]]
    /\ intent = {} /\ alive = Hosts /\ guest = {} /\ tomb = {}
    /\ bind = NoBind /\ create = [v \in VMs |-> NoCreate]
    /\ del = [d \in Deleters |-> NoDelete] /\ life = NoLife
    /\ hb = [n \in Nodes |-> NoBeat] /\ removal = NoRemoval
    /\ binds = [v \in VMs |-> 0] /\ overtaken = {} /\ stale = {} /\ blind = {}
    /\ used = [lifecycle |-> 0, removals |-> 0, faults |-> 0]

-----------------------------------------------------------------------------
Live(v) == row[v] # NoRow /\ row[v].st = "live"
Deleted(v) == row[v] # NoRow /\ row[v].st = "deleted"
Joined(n) == n # NoNode /\ node[n].st = "live"
Up(n) == Joined(n) /\ HostOf[n] \in alive

Unwritten(reader, v) == <<reader, v>> \in reads
Reading(reader, v) == reads' = reads \cup {<<reader, v>>}
Written(v) == reads' = {p \in reads : p[2] # v}

Spend(what, bound) ==
    /\ used[what] < bound
    /\ used' = [used EXCEPT ![what] = @ + 1]
    /\ 2 * used'.lifecycle + used'.removals + used'.faults <= MaxEvents
Fault == Spend("faults", MaxFaults)

-----------------------------------------------------------------------------
(* Admission and binding.                                                   *)

(* CreateUnscheduledVM: the row, its name guard and the unscheduled index.  *)
CreateUnscheduledVM(v) ==
    /\ row[v] = NoRow
    /\ name = NoVM
    /\ row' = [row EXCEPT ![v] = [st |-> "live", sched |-> FALSE, pin |-> NoNode]]
    /\ name' = v
    /\ unsched' = unsched \cup {v}
    /\ UNCHANGED <<pins, dev, observed, reads, fleet, workers, history, used>>

(* The schedule loop records why a VM has no place: its put compares the    *)
(* row, so it only makes the row newer, which matters while somebody has    *)
(* read it.                                                                 *)
UpdateVMSchedulingReason(v) ==
    /\ Live(v) /\ ~row[v].sched
    /\ Written(v)
    /\ reads' # reads
    /\ UNCHANGED <<declared, observed, fleet, workers, history, used>>

(* BindScheduledVM reads the row and plans onto a ready node ...            *)
PlanBind(v, n) ==
    /\ bind = NoBind
    /\ v \in unsched /\ Live(v) /\ ~row[v].sched
    /\ Joined(n) /\ node[n].seen
    /\ binds[v] < MaxBinds
    /\ bind' = [vm |-> v, node |-> n]
    /\ Reading("bind", v)
    /\ UNCHANGED <<declared, observed, fleet, create, del, life, hb, removal, history, used>>


BindGuards(v, n) == Unwritten("bind", v) /\ n \notin intent

(* ... and commits the pin, the disk, the NIC, the create task and its job  *)
(* while the row is the one it read and the node has no delete intent.      *)
CommitBind ==
    LET v == bind.vm  n == bind.node IN
    /\ bind # NoBind
    /\ bind' = NoBind
    /\ \/ /\ BindGuards(v, n)
          /\ row' = [row EXCEPT ![v].sched = TRUE, ![v].pin = n]
          /\ unsched' = unsched \ {v}
          /\ pins' = pins \cup {<<n, v>>}
          /\ binds' = [binds EXCEPT ![v] = @ + 1]
          /\ dev' = [dev EXCEPT ![v] = binds[v] + 1]
          /\ create' = [create EXCEPT ![v] = [task |-> "pending", job |-> "pending",
                                              node |-> n, at |-> "idle"]]
          /\ overtaken' = IF Joined(n) THEN overtaken ELSE overtaken \cup {v}
          /\ Written(v)
          /\ UNCHANGED <<name, stale, blind>>
       \/ /\ ~BindGuards(v, n)
          /\ UNCHANGED <<declared, create, history, reads>>
    /\ UNCHANGED <<observed, fleet, del, life, hb, removal, used>>

-----------------------------------------------------------------------------
(* The vm.create worker.                                                    *)
Creating(v, at) == create[v].at = at

SetCreate(v, task, job, at) ==
    create' = [create EXCEPT ![v].task = task, ![v].job = job, ![v].at = at]

ClaimCreate(v) ==
    /\ create[v].job = "pending"
    /\ SetCreate(v, create[v].task, "running", "claimed")
    /\ UNCHANGED <<declared, observed, reads, fleet, bind, del, life, hb, removal, history, used>>

(* runCreate: a committed task ends the run, a missing VM or disk fails it  *)
(* for a retry while the budget lasts, a gone node fails it for good.       *)
StartCreate(v) ==
    LET n == create[v].node IN
    /\ Creating(v, "claimed")
    /\ \/ /\ create[v].task \in {"success", "cancelled"}
          /\ SetCreate(v, create[v].task, "none", "idle")
       \/ /\ create[v].task \notin {"success", "cancelled"}
          /\ ~Live(v) \/ dev[v] = 0
          /\ \E job \in {"pending", "none"} : SetCreate(v, "failed", job, "idle")
       \/ /\ create[v].task \notin {"success", "cancelled"}
          /\ Live(v) /\ dev[v] # 0 /\ (~Joined(n) \/ ~node[n].seen)
          /\ SetCreate(v, "failed", "none", "idle")
       \/ /\ create[v].task \notin {"success", "cancelled"}
          /\ Live(v) /\ dev[v] # 0 /\ Joined(n)
          /\ SetCreate(v, "running", "running", "exec")
    /\ UNCHANGED <<declared, observed, reads, fleet, bind, del, life, hb, removal, history, used>>

(* The agent makes the guest.  Its answer may be an error, or be lost after *)
(* the guest was made; the task is then failed and the job waits for its    *)
(* next attempt.                                                            *)
ExecCreate(v) ==
    LET h == HostOf[create[v].node] IN
    /\ Creating(v, "exec")
    /\ \/ /\ h \in alive
          /\ guest' = guest \cup {<<h, v>>}
          /\ SetCreate(v, "running", "running", "read")
          /\ UNCHANGED used
       \/ /\ Fault
          /\ SetCreate(v, "failed", "pending", "idle")
          /\ guest' \in {guest} \cup IF h \in alive THEN {guest \cup {<<h, v>>}} ELSE {}
       \/ /\ h \notin alive
          /\ SetCreate(v, "failed", "none", "idle")
          /\ UNCHANGED <<guest, used>>
    /\ UNCHANGED <<declared, observed, reads, node, intent, alive, tomb,
                   bind, del, life, hb, removal, history>>

(* ProjectVMCreateSuccess reads the row: a deleted VM only has its task     *)
(* finalised ...                                                            *)
ReadCreated(v) ==
    /\ Creating(v, "read")
    /\ \/ Live(v) /\ SetCreate(v, "running", "running", "write") /\ Reading("create", v)
       \/ ~Live(v) /\ SetCreate(v, "success", "none", "idle") /\ UNCHANGED reads
    /\ UNCHANGED <<declared, observed, fleet, bind, del, life, hb, removal, history, used>>

CreatedUnderCAS(v) == Unwritten("create", v)

(* ... and otherwise the runtime row and the task commit while the row is   *)
(* the one it read, with the image digest when the row lacked it.           *)
ProjectVMCreateSuccess(v) ==
    /\ Creating(v, "write")
    /\ \/ /\ CreatedUnderCAS(v)
          /\ rt' = [rt EXCEPT ![v] = create[v].node]
          /\ SetCreate(v, "success", "none", "idle")
          /\ Written(v) \/ UNCHANGED reads
       \/ /\ ~CreatedUnderCAS(v)
          /\ SetCreate(v, "running", "running", "read")
          /\ UNCHANGED <<rt, reads>>
    /\ UNCHANGED <<declared, rtIdx, fleet, bind, del, life, hb, removal, history, used>>

-----------------------------------------------------------------------------
(* Deleting a VM.                                                           *)
SetDel(d, at) == del' = [del EXCEPT ![d].at = at]

(* The handler deletes an unscheduled VM at once, comparing its row; a      *)
(* bound one gets a vm.delete job for the node it is pinned to.             *)
DeleteVM(d, v) ==
    /\ del[d] = NoDelete
    /\ Live(v)
    /\ \/ /\ ~row[v].sched
          /\ row' = [row EXCEPT ![v].st = "deleted"]
          /\ name' = NoVM
          /\ unsched' = unsched \ {v}
          /\ Written(v)
          /\ del' = [del EXCEPT ![d].vm = v, ![d].at = "done"]
       \/ /\ row[v].sched
          /\ del' = [del EXCEPT ![d].vm = v, ![d].node = row[v].pin, ![d].at = "queued"]
          /\ UNCHANGED <<row, name, unsched, reads>>
    /\ UNCHANGED <<pins, dev, observed, fleet, bind, create, life, hb, removal, history, used>>

(* runDelete loads the VM, and skips the agent of a node that is gone or    *)
(* has been silent for too long.                                            *)
LoadDelete(d) ==
    LET v == del[d].vm  n == del[d].node IN
    /\ del[d].at = "queued"
    /\ \/ ~Live(v) /\ SetDel(d, "done")
       \/ /\ Live(v) /\ Joined(n)
          /\ del' = [del EXCEPT ![d].at = "exec", ![d].row = row[v]]
       \/ /\ Live(v) /\ (~Joined(n) \/ ~node[n].seen)
          /\ del' = [del EXCEPT ![d].at = "read", ![d].row = row[v]]
    /\ UNCHANGED <<declared, observed, reads, fleet, bind, create, life, hb, removal, history, used>>

(* The agent tears the guest down.  A failed call is retried, except that   *)
(* an unreachable node's VM is deleted without it.                          *)
ExecDelete(d) ==
    LET n == del[d].node  h == HostOf[n] IN
    /\ del[d].at = "exec"
    /\ \/ /\ h \in alive
          /\ guest' = guest \ {<<h, del[d].vm>>}
          /\ SetDel(d, "read")
          /\ UNCHANGED used
       \/ /\ ~node[n].seen
          /\ SetDel(d, "read")
          /\ UNCHANGED <<guest, used>>
       \/ /\ node[n].seen
          /\ IF h \in alive THEN Fault ELSE UNCHANGED used
          /\ SetDel(d, "queued")
          /\ UNCHANGED guest
    /\ UNCHANGED <<declared, observed, reads, node, intent, alive, tomb,
                   bind, create, life, hb, removal, history>>

(* vmDeleteBaseOps reads the runtime row, the disks and the NICs ...        *)
ReadDelete(d) ==
    /\ del[d].at = "read"
    /\ del' = [del EXCEPT ![d].at = "write", ![d].rt = rt[del[d].vm],
                          ![d].dev = dev[del[d].vm]]
    /\ UNCHANGED <<declared, observed, reads, fleet, bind, create, life, hb, removal, history, used>>

(* ... and ProjectVMDeleteSuccess commits unconditionally, from the row the *)
(* worker loaded.                                                           *)
ProjectVMDeleteSuccess(d) ==
    LET v == del[d].vm IN
    /\ del[d].at = "write"
    /\ row' = [row EXCEPT ![v] = [del[d].row EXCEPT !.st = "deleted"]]
    /\ name' = NoVM
    /\ pins' = pins \ {<<del[d].row.pin, v>>}
    /\ dev' = [dev EXCEPT ![v] = IF @ = del[d].dev THEN 0 ELSE @]
    /\ rt' = [rt EXCEPT ![v] = NoRuntime]
    /\ rtIdx' = rtIdx \ {<<del[d].rt, v>>}
    /\ Written(v)
    /\ stale' = IF row[v] = del[d].row /\ dev[v] = del[d].dev THEN stale ELSE stale \cup {v}
    /\ blind' = IF rt[v] = del[d].rt THEN blind ELSE blind \cup {v}
    /\ SetDel(d, "done")
    /\ UNCHANGED <<unsched, fleet, bind, create, life, hb, removal, binds, overtaken, used>>

-----------------------------------------------------------------------------
(* start, stop, poweroff and reboot.                                        *)
RequestLifecycle(v) ==
    /\ life = NoLife
    /\ Live(v) /\ row[v].sched
    /\ Spend("lifecycle", MaxLifecycle)
    /\ life' = [NoLife EXCEPT !.vm = v, !.node = row[v].pin, !.at = "exec"]
    /\ UNCHANGED <<declared, observed, reads, fleet, bind, create, del, hb, removal, history>>

(* runLifecycle fails a VM or node that is gone; the agent then acts on its *)
(* guest, if it holds one.                                                  *)
ExecLifecycle ==
    LET n == life.node IN
    /\ life.at = "exec"
    /\ \/ /\ Live(life.vm) /\ Up(n) /\ <<HostOf[n], life.vm>> \in guest
          /\ life' = [life EXCEPT !.at = "read"]
       \/ life' = NoLife
    /\ UNCHANGED <<declared, observed, reads, fleet, bind, create, del, hb, removal, history, used>>

(* ProjectVMLifecycleSuccess reads the row (reboot does not) and the        *)
(* runtime row ...                                                          *)
ReadLifecycle ==
    LET v == life.vm IN
    /\ life.at = "read"
    /\ \/ /\ Live(v)
          /\ life' = [life EXCEPT !.at = "write", !.row = row[v], !.rt = rt[v]]
          /\ Reading("life", v)
       \/ /\ life' = [life EXCEPT !.at = "write", !.rt = rt[v]]
          /\ UNCHANGED reads
    /\ UNCHANGED <<declared, observed, fleet, bind, create, del, hb, removal, history, used>>

LifecycleUnderCAS == Unwritten("life", life.vm)

(* ... and puts the runtime row back whatever became of it, the desired     *)
(* phase only on the row it read; when that was written it reads again.     *)
ProjectVMLifecycle ==
    LET v == life.vm  wrote == life.row # NoRow /\ LifecycleUnderCAS IN
    /\ life.at = "write"
    /\ rt' = IF life.rt = NoRuntime THEN rt ELSE [rt EXCEPT ![v] = life.rt]
    /\ blind' = IF life.rt \in {NoRuntime, rt[v]} THEN blind ELSE blind \cup {v}
    /\ row' = IF wrote THEN [row EXCEPT ![v] = life.row] ELSE row
    /\ IF wrote THEN Written(v) ELSE UNCHANGED reads
    /\ life' = IF wrote \/ life.row = NoRow THEN NoLife ELSE [life EXCEPT !.at = "retry"]
    /\ UNCHANGED <<name, unsched, pins, dev, rtIdx, fleet, bind, create, del, hb, removal,
                   binds, overtaken, stale, used>>

(* The retry compares the row it reads again, so it is one step; a deleted  *)
(* row ends it.                                                             *)
RetryLifecycle ==
    /\ life.at = "retry"
    /\ IF Live(life.vm) THEN Written(life.vm) ELSE UNCHANGED reads
    /\ life' = NoLife
    /\ UNCHANGED <<declared, observed, fleet, bind, create, del, hb, removal, history, used>>

-----------------------------------------------------------------------------
(* Heartbeats and tombstones.                                               *)
Untombed(n, v) == {t \in tomb : t[1] # n \/ t[2] # v}
Tombed(n, v) == Untombed(n, v) \cup {<<n, v, binds[v]>>}

(* Mutant: any guest that is not pinned here is torn down. *)
RehomedAnyPin(n, v) == row[v].pin # n

(* resolveRehomedTombstones: the row names another home, and that home is   *)
(* joined and reporting.                                                    *)
Rehomed(n, v) ==
    LET m == row[v].pin IN m \notin {n, NoNode} /\ Joined(m) /\ node[m].seen

(* Mutant: a VM the control plane does not know is passed over. *)
SignalledLiveOnly(n, v) == Live(v) /\ Rehomed(n, v)

TeardownSignalled(n, v) == Deleted(v) \/ (Live(v) /\ Rehomed(n, v))

(* One VM's part of a heartbeat.  A guest of a deleted VM, or of one that   *)
(* lives elsewhere, is answered with a tombstone; a guest pinned here is    *)
(* claimed against the row just read.                                       *)
Heartbeat(n, v) ==
    /\ Up(n) /\ hb[n] = NoBeat
    /\ node' = [node EXCEPT ![n].seen = TRUE]
    /\ \/ /\ <<HostOf[n], v>> \in guest /\ Live(v) /\ row[v].pin = n
          /\ hb' = [hb EXCEPT ![n] = [vm |-> v, rt |-> rt[v]]]
          /\ Reading(n, v)
          /\ tomb' = Untombed(n, v)
       \/ /\ <<HostOf[n], v>> \in guest
          /\ TeardownSignalled(n, v)
          /\ tomb' = Tombed(n, v)
          /\ UNCHANGED <<hb, reads>>
       \/ /\ \/ <<HostOf[n], v>> \notin guest
             \/ Live(v) /\ row[v].pin # n /\ ~TeardownSignalled(n, v)
          /\ tomb' = Untombed(n, v)
          /\ UNCHANGED <<hb, reads>>
    /\ UNCHANGED <<declared, observed, intent, alive, guest, bind, create, del, life, removal,
                   history, used>>

ClaimUnderCAS(n) == Unwritten(n, hb[n].vm)

(* UpsertVMRuntime: the runtime row and its index commit while the vms row  *)
(* is the one the claim was decided on.                                     *)
UpsertVMRuntime(n) ==
    LET v == hb[n].vm IN
    /\ hb[n] # NoBeat
    /\ IF ClaimUnderCAS(n)
       THEN /\ rt' = [rt EXCEPT ![v] = n]
            /\ rtIdx' = (rtIdx \ {<<hb[n].rt, v>>}) \cup {<<n, v>>}
       ELSE UNCHANGED observed
    /\ hb' = [hb EXCEPT ![n] = NoBeat]
    /\ UNCHANGED <<declared, reads, fleet, bind, create, del, life, removal, history, used>>

(* reconcileTombstones: the agent tears down a guest its last answer names. *)
TearDown(n, v) ==
    /\ Up(n)
    /\ <<HostOf[n], v>> \in guest
    /\ \E t \in tomb : t[1] = n /\ t[2] = v
    /\ guest' = guest \ {<<HostOf[n], v>>}
    /\ UNCHANGED <<declared, observed, reads, node, intent, alive, tomb, workers, history, used>>

-----------------------------------------------------------------------------
(* Hosts come and go; the heartbeat sweep marks a silent node.              *)
Crash(h) ==
    /\ h \in alive /\ Fault
    /\ alive' = alive \ {h}
    /\ tomb' = {t \in tomb : HostOf[t[1]] # h}
    /\ UNCHANGED <<declared, observed, reads, node, intent, guest, workers, history>>

Restart(h) ==
    /\ h \notin alive
    /\ alive' = alive \cup {h}
    /\ UNCHANGED <<declared, observed, reads, node, intent, guest, tomb, workers, history, used>>

MarkUnreachable(n) ==
    /\ Joined(n) /\ node[n].seen /\ HostOf[n] \notin alive
    /\ node' = [node EXCEPT ![n].seen = FALSE]
    /\ UNCHANGED <<declared, observed, reads, intent, alive, guest, tomb, workers, history, used>>

(* A host whose node was deleted joins again under a new node id.           *)
Rejoin(n) ==
    /\ node[n].st = "absent" /\ HostOf[n] \in alive
    /\ \A m \in Nodes : HostOf[m] = HostOf[n] => node[m].st # "live"
    /\ node' = [node EXCEPT ![n] = [st |-> "live", seen |-> TRUE]]
    /\ tomb' = {t \in tomb : HostOf[t[1]] # HostOf[n]}
    /\ UNCHANGED <<declared, observed, reads, intent, alive, guest, workers, history, used>>

-----------------------------------------------------------------------------
(* Deleting a node.                                                         *)
DeleteNode(n) ==
    /\ removal = NoRemoval
    /\ Joined(n)
    /\ Spend("removals", MaxRemovals)
    /\ intent' = intent \cup {n}
    /\ removal' = [node |-> n, at |-> "list", todo |-> {}]
    /\ UNCHANGED <<declared, observed, reads, node, alive, guest, tomb,
                   bind, create, del, life, hb, history>>

(* Mutant: only the VMs the agent reported count. *)
unionObserved(n) == {v \in VMs : <<n, v>> \in rtIdx}

(* unionVMIDsForNode: the VMs observed on the node and the ones pinned to   *)
(* it.  Without force a node that has any is left alone.                    *)
unionVMIDsForNode(n) ==
    {v \in VMs : <<n, v>> \in rtIdx \/ (<<n, v>> \in pins /\ Live(v))}

ListNodeVMs ==
    LET n == removal.node IN
    /\ removal.at = "list"
    /\ removal' = [removal EXCEPT !.at = "evacuate", !.todo = unionVMIDsForNode(n)]
    /\ UNCHANGED <<declared, observed, reads, fleet, bind, create, del, life, hb, history, used>>

(* orphanOneVMRuntime: a VM the agent reported keeps its disk and loses     *)
(* only its current node.                                                   *)
Orphan(v, n) ==
    /\ rt' = IF rt[v] = n THEN [rt EXCEPT ![v] = NoNode] ELSE rt
    /\ rtIdx' = rtIdx \ {<<n, v>>}
    /\ UNCHANGED <<declared, create, reads>>

(* activeCreateTaskForVM and its job: a create that may be executing.       *)
CreateMayRun(v) ==
    /\ create[v].task \in {"pending", "running", "failed"}
    /\ create[v].task = "running" \/ create[v].job = "running"

(* rollbackOnePinnedVM: the bind of a VM nobody reported is undone, its     *)
(* create task cancelled and the VM returned to the scheduler.              *)
Rollback(v, n) ==
    /\ row[v].pin = n
    /\ ~CreateMayRun(v)
    /\ row' = [row EXCEPT ![v].sched = FALSE, ![v].pin = NoNode]
    /\ dev' = [dev EXCEPT ![v] = 0]
    /\ pins' = pins \ {<<n, v>>}
    /\ unsched' = unsched \cup {v}
    /\ create' = IF create[v].task \in {"pending", "failed"}
                 THEN [create EXCEPT ![v].task = "cancelled", ![v].job = "none"]
                 ELSE create
    /\ Written(v)
    /\ UNCHANGED <<name, observed>>

(* evacuateNodeVMs routes each VM by whether it has a runtime row.  Every   *)
(* write compares what the choice was made on, so it is one step.           *)
EvacuateVM(v) ==
    LET n == removal.node IN
    /\ removal.at = "evacuate" /\ v \in removal.todo
    /\ \/ rt[v] # NoRuntime /\ Orphan(v, n)
       \/ rt[v] = NoRuntime /\ Rollback(v, n)
       \/ /\ rt[v] = NoRuntime /\ row[v].pin # n
          /\ UNCHANGED <<declared, observed, create, reads>>
    /\ removal' = [removal EXCEPT !.todo = @ \ {v}]
    /\ UNCHANGED <<fleet, bind, del, life, hb, history, used>>

(* softDeleteNodeRow, under the delete intent.                              *)
SoftDeleteNode ==
    LET n == removal.node IN
    /\ removal.at = "evacuate" /\ removal.todo = {}
    /\ node' = [node EXCEPT ![n].st = "deleted"]
    /\ intent' = intent \ {n}
    /\ removal' = NoRemoval
    /\ UNCHANGED <<declared, observed, reads, alive, guest, tomb,
                   bind, create, del, life, hb, history, used>>

(* A refused or failed delete clears its intent.                            *)
AbortDeleteNode ==
    /\ removal # NoRemoval
    /\ intent' = intent \ {removal.node}
    /\ removal' = NoRemoval
    /\ UNCHANGED <<declared, observed, reads, node, alive, guest, tomb,
                   bind, create, del, life, hb, history, used>>

-----------------------------------------------------------------------------
Admission ==
    \/ \E v \in VMs : CreateUnscheduledVM(v) \/ UpdateVMSchedulingReason(v)
    \/ \E v \in VMs, n \in Nodes : PlanBind(v, n)
    \/ CommitBind

CreateWorker ==
    \E v \in VMs : \/ ClaimCreate(v) \/ StartCreate(v) \/ ExecCreate(v)
                   \/ ReadCreated(v) \/ ProjectVMCreateSuccess(v)

DeleteWorker ==
    \E d \in Deleters : \/ \E v \in VMs : DeleteVM(d, v)
                        \/ LoadDelete(d) \/ ExecDelete(d) \/ ReadDelete(d)
                        \/ ProjectVMDeleteSuccess(d)

LifecycleWorker ==
    \/ \E v \in VMs : RequestLifecycle(v)
    \/ ExecLifecycle \/ ReadLifecycle \/ ProjectVMLifecycle \/ RetryLifecycle

Agents ==
    \/ \E n \in Nodes : \/ \E v \in VMs : Heartbeat(n, v) \/ TearDown(n, v)
                        \/ UpsertVMRuntime(n) \/ MarkUnreachable(n) \/ Rejoin(n)
    \/ \E h \in Hosts : Crash(h) \/ Restart(h)

NodeRemoval ==
    \/ \E n \in Nodes : DeleteNode(n)
    \/ \E v \in VMs : EvacuateVM(v)
    \/ ListNodeVMs \/ SoftDeleteNode \/ AbortDeleteNode

Next ==
    \/ Admission \/ CreateWorker \/ DeleteWorker \/ LifecycleWorker \/ Agents \/ NodeRemoval

Spec == Init /\ [][Next]_vars

(* Agents keep beating and reconciling while their host is up: both loops   *)
(* run on a ticker.  Nothing is assumed of the workers, of the scheduler or *)
(* of a host that is down.                                                  *)
FairSpec ==
    /\ Spec
    /\ \A n \in Nodes : WF_vars(UpsertVMRuntime(n))
    /\ \A n \in Nodes, v \in VMs : WF_vars(Heartbeat(n, v)) /\ WF_vars(TearDown(n, v))

-----------------------------------------------------------------------------


(* Deleting a node strands nobody: a VM still pinned to a deleted node has  *)
(* been reported and was orphaned, it is not a bind waiting for a create    *)
(* that no agent will run (unionVMIDsForNode, evacuateNodeVMs).  A bind     *)
(* planned before the node's delete and committed after it is excepted.     *)
NotStranded ==
    \A v \in VMs \ overtaken :
        Live(v) /\ row[v].sched /\ node[row[v].pin].st = "deleted" => rt[v] # NoRuntime

(* A tombstone never destroys the last copy of a VM nobody asked to delete: *)
(* the agent that tears it down is not the VM's home, and when the VM has   *)
(* been observed another host holds its guest (resolveRehomedTombstones).   *)
(* An agent acting on an answer from before the VM's latest bind is         *)
(* excepted: a created guest carries no arrival time to compare.            *)
LastCopyKept ==
    [][\A n \in Nodes, v \in VMs :
          /\ TearDown(n, v)
          /\ Live(v) /\ \A d \in Deleters : del[d].vm # v
          /\ <<n, v, binds[v]>> \in tomb
          => /\ row[v].pin # n
             /\ rt[v] # NoRuntime => \E h \in Hosts : <<h, v>> \in guest']_vars

(* The guest of a deleted VM is torn down in the end by the host that holds *)
(* it, also when the create landed after the delete or the delete never     *)
(* reached the agent, as long as the host is up and joined                  *)
(* (resolveVMTombstones, reconcileTombstones).                              *)
DeletedReclaimed ==
    \A n \in Nodes, v \in VMs :
        (Deleted(v) /\ Up(n) /\ <<HostOf[n], v>> \in guest)
        ~> (<<HostOf[n], v>> \notin guest \/ ~Up(n))

=============================================================================
