---------------------------- MODULE NodeLifecycle ---------------------------
(***************************************************************************)
(* A node's status row and everything that writes it: cordon, uncordon,    *)
(* the gateway-role toggle and the heartbeat                               *)
(* (internal/etcdstore/nodes.go, node_row.go, heartbeat.go), the heartbeat *)
(* reconciler's sweeps (maintenance.go), the drain saga                    *)
(* (internal/api/handlers/nodes/drain_run.go), its cooperative cancel and  *)
(* the stuck-drain backstop.  Placement and migrations appear only as far  *)
(* as the drain sees them: a VM is bound to a node, moves away or stays.   *)
(*                                                                         *)
(* A row write compares the row's ModRevision with the one it read: the    *)
(* pair <<reader, key>> is in "reads" while nobody has written the key     *)
(* since.                                                                  *)
(***************************************************************************)
EXTENDS Integers, FiniteSets

CONSTANTS
    Nodes, VMs,
    Tasks,        \* drain tasks, each backed by the job of the same name
    Callers,      \* requests and heartbeats in flight
    Sweepers,     \* replicas running the heartbeat reconcile
    Backstops,    \* replicas running the stuck-drain reconcile
    Deliveries,   \* worker goroutines running a node.drain job
    NoNode, NoTask, NoDelivery, Away,
    Initial,        \* the statuses a node row may have at the start
    Requests,       \* the operator requests of this instance
    MaxDrains,      \* workers.max_concurrent_drains
    MaxMigrations,  \* drain_max_concurrent_migrations
    MaxAttempts,    \* the job's attempt budget
    MaxOps,         \* bound on operator requests
    MaxFaults       \* bound on crashes, stalls and store errors

ASSUME LifecycleAssumptions ==
    /\ Initial \subseteq {"pending", "ready", "gone"}
    /\ Requests \subseteq {"cordon", "uncordon", "drain", "role", "delete", "cancel"}
    /\ MaxDrains \in Nat /\ MaxMigrations \in Nat /\ MaxAttempts \in Nat
    /\ MaxOps \in Nat /\ MaxFaults \in Nat

VARIABLES
    node,      \* the node rows
    beat,      \* whether the row's last heartbeat is recent
    reads,     \* the reads whose key nobody has written since
    call,      \* requests and heartbeats in flight
    wantRole,  \* history: the gateway role last acknowledged to an operator
    sweep,     \* each replica's heartbeat-reconcile pass
    back,      \* each replica's stuck-drain pass
    task, job, \* drain tasks and their jobs
    drainOf,   \* the job's arguments: the node a drain task is about
    late,      \* drains past their deadline
    marks,     \* the cooperative cancel markers
    dlv,       \* the deliveries running the saga
    on,        \* where each VM is pinned
    plan,      \* where the scheduler is about to bind a VM
    mig,       \* VMs with an active migration
    stalled,   \* history: tasks whose live worker lost its lease
    ops, faults

rowVars == <<node, beat, wantRole>>
drainVars == <<task, job, drainOf, marks>>
vmVars == <<on, plan, mig>>
countVars == <<stalled, ops, faults>>
vars == <<rowVars, reads, call, sweep, back, drainVars, late, dlv, vmVars, countVars>>

-----------------------------------------------------------------------------
Status == {"pending", "ready", "unreachable", "gone", "cordoned", "draining", "deleted"}
Row == [status : Status, cordonedAt : BOOLEAN, drain : Tasks \cup {NoTask}, role : BOOLEAN]

TaskStatus == {"none", "pending", "running", "success", "failed", "cancelled"}
Terminal == {"success", "failed", "cancelled"}
isCommittedTerminal(s) == s \in {"success", "cancelled"}

Job == [state : {"none", "pending", "running", "completed", "failed", "deleted"},
        owner : Deliveries \cup {NoDelivery}, attempts : 0 .. MaxAttempts]

RowRequests == Requests \cap {"cordon", "uncordon", "drain", "role"}
Call == [op : RowRequests \cup {"beat", "none"}, node : Nodes \cup {NoNode},
         at : {"idle", "checked", "read", "write"}, row : Row \cup {NoNode}]
NoCall == [op |-> "none", node |-> NoNode, at |-> "idle", row |-> NoNode]

Sweep == [at : {"idle", "promote", "mark", "gone"}, todo : SUBSET Nodes,
          node : Nodes \cup {NoNode}]
Back == [at : {"idle", "finalize", "write", "cordon"},
         todo : SUBSET (Nodes \X (Tasks \cup {NoTask})),
         node : Nodes \cup {NoNode}, task : Tasks \cup {NoTask}]

Stages == {"idle", "preflight", "mark", "markPut", "eval", "list", "sweep", "finNode",
           "finTask", "finPut", "taskOnly", "ok", "err"}
Delivery == [task : Tasks \cup {NoTask}, at : Stages, vms : SUBSET VMs,
             dead : BOOLEAN, out : Terminal \cup {"none"}, writesNode : BOOLEAN]
NoDlv == [task |-> NoTask, at |-> "idle", vms |-> {}, dead |-> FALSE, out |-> "none",
          writesNode |-> FALSE]

TypeOK ==
    /\ node \in [Nodes -> Row]
    /\ beat \in [Nodes -> BOOLEAN]
    /\ call \in [Callers -> Call]
    /\ sweep \in [Sweepers -> Sweep]
    /\ back \in [Backstops -> Back]
    /\ task \in [Tasks -> TaskStatus]
    /\ job \in [Tasks -> Job]
    /\ drainOf \in [Tasks -> Nodes \cup {NoNode}]
    /\ late \subseteq Tasks /\ marks \subseteq Tasks
    /\ dlv \in [Deliveries -> Delivery]
    /\ on \in [VMs -> Nodes \cup {NoNode, Away}]
    /\ plan \in [VMs -> Nodes \cup {NoNode}]
    /\ mig \subseteq VMs
    /\ ops \in 0 .. MaxOps /\ faults \in 0 .. MaxFaults

(* Joined nodes, up nodes, and rows that still carry the retired status "gone". *)
Init ==
    /\ node \in [Nodes -> {[status |-> s, cordonedAt |-> FALSE, drain |-> NoTask,
                            role |-> FALSE] : s \in Initial}]
    /\ beat = [n \in Nodes |-> FALSE]
    /\ reads = {}
    /\ call = [c \in Callers |-> NoCall]
    /\ wantRole = [n \in Nodes |-> FALSE]
    /\ sweep = [r \in Sweepers |-> [at |-> "idle", todo |-> {}, node |-> NoNode]]
    /\ back = [r \in Backstops |-> [at |-> "idle", todo |-> {}, node |-> NoNode, task |-> NoTask]]
    /\ task = [t \in Tasks |-> "none"]
    /\ job = [t \in Tasks |-> [state |-> "none", owner |-> NoDelivery, attempts |-> 0]]
    /\ drainOf = [t \in Tasks |-> NoNode]
    /\ late = {} /\ marks = {}
    /\ dlv = [d \in Deliveries |-> NoDlv]
    /\ on = [v \in VMs |-> NoNode] /\ plan = [v \in VMs |-> NoNode] /\ mig = {}
    /\ stalled = {} /\ ops = 0 /\ faults = 0

-----------------------------------------------------------------------------
(* Reads and compare-and-set writes. *)
Unwritten(reader, key) == <<reader, key>> \in reads
Reading(reader, key) == reads' = reads \cup {<<reader, key>>}
Written(keys) == reads' = {p \in reads : p[2] \notin keys}

Exists(n) == node[n].status # "deleted"
liveNodes == {n \in Nodes : Exists(n)}
Fault == faults < MaxFaults /\ faults' = faults + 1
Operator == ops < MaxOps /\ ops' = ops + 1

-----------------------------------------------------------------------------
(* The handlers Cordon, Uncordon and Drain look at the status first; the     *)
(* statuses they answer at once, without a change, take no step.  Uncordon's *)
(* switch names the statuses it refuses, so any other falls through.         *)
Admits(op, n) ==
    CASE op = "cordon"   -> node[n].status \notin {"cordoned", "draining", "deleted"}
      [] op = "uncordon" -> node[n].status \notin {"ready", "pending", "draining",
                                                   "unreachable", "deleted"}
      [] op = "drain"    -> node[n].status \in {"ready", "cordoned"}
      [] op = "role"     -> Exists(n)

Request(c, op, n) ==
    /\ call[c] = NoCall /\ Operator /\ Admits(op, n)
    /\ call' = [call EXCEPT ![c] = [op |-> op, node |-> n, row |-> NoNode,
                  at |-> IF op = "drain" THEN "checked" ELSE "read"]]
    /\ UNCHANGED <<rowVars, reads, sweep, back, drainVars, late, dlv, vmVars, stalled, faults>>

(* CountDrainingNodes and the admission cap. *)
CountDrainingNodes(c) ==
    /\ call[c].at = "checked"
    /\ call' = IF Cardinality({n \in liveNodes : node[n].status = "draining"}) >= MaxDrains
               THEN [call EXCEPT ![c] = NoCall]
               ELSE [call EXCEPT ![c].at = "read"]
    /\ UNCHANGED <<rowVars, reads, sweep, back, drainVars, late, dlv, vmVars, countVars>>

(* UpdateNodeHeartbeat, and the two pressure updates beside it. *)
Heartbeat(c, n) ==
    /\ call[c] = NoCall /\ Exists(n)
    /\ call' = [call EXCEPT ![c] = [op |-> "beat", node |-> n, row |-> NoNode, at |-> "read"]]
    /\ UNCHANGED <<rowVars, reads, sweep, back, drainVars, late, dlv, vmVars, countVars>>

(* Time passes without a heartbeat. *)
HeartbeatAges(n) ==
    /\ beat[n]
    /\ beat' = [beat EXCEPT ![n] = FALSE]
    /\ UNCHANGED <<node, wantRole, reads, call, sweep, back, drainVars, late, dlv, vmVars,
                   countVars>>

(* nodeWithRev's ErrNotFound; the drain a cordon must not strand;            *)
(* ErrNodeNotDrainable.                                                      *)
Refused(op, n) ==
    \/ ~Exists(n)
    \/ op \in {"cordon", "uncordon"} /\ node[n].drain # NoTask
    \/ op = "drain" /\ ~Admits(op, n)

nodeWithRev(c) ==
    LET n == call[c].node IN
    /\ call[c].at = "read"
    /\ IF Refused(call[c].op, n)
       THEN call' = [call EXCEPT ![c] = NoCall] /\ UNCHANGED reads
       ELSE /\ call' = [call EXCEPT ![c].at = "write", ![c].row = node[n]]
            /\ Reading(<<"call", c>>, n)
    /\ UNCHANGED <<rowVars, sweep, back, drainVars, late, dlv, vmVars, countVars>>

(* What each request puts back; a cordon sets cordonedAt, an uncordon        *)
(* clears it, and the role toggle flips the bit.                             *)
NewRow(op, w, t) ==
    CASE op = "cordon"   -> [w EXCEPT !.status = "cordoned", !.cordonedAt = TRUE]
      [] op = "uncordon" -> [w EXCEPT !.status = "ready", !.cordonedAt = FALSE]
      [] op = "drain"    -> [w EXCEPT !.status = "draining", !.drain = t]
      [] op = "role"     -> [w EXCEPT !.role = ~w.role]
      [] op = "beat"     -> w

(* setNodeCordon, SetNodeGatewayRole and casNodeUpdate commit. *)
WriteRow(c) ==
    LET n == call[c].node
        w == NewRow(call[c].op, call[c].row, NoTask) IN
    /\ node' = [node EXCEPT ![n] = w]
    /\ beat' = IF call[c].op = "beat" THEN [beat EXCEPT ![n] = TRUE] ELSE beat
    /\ wantRole' = IF call[c].op = "role" THEN [wantRole EXCEPT ![n] = w.role] ELSE wantRole
    /\ Written({n})
    /\ call' = [call EXCEPT ![c] = NoCall]
    /\ UNCHANGED <<sweep, back, drainVars, late, dlv, vmVars, countVars>>

Commit(c) ==
    /\ call[c].at = "write" /\ call[c].op # "drain"
    /\ Unwritten(<<"call", c>>, call[c].node)
    /\ WriteRow(c)

(* StartNodeDrain's transaction: the row, the task and the job. *)
StartNodeDrain(c, t) ==
    LET n == call[c].node IN
    /\ call[c].at = "write" /\ call[c].op = "drain" /\ task[t] = "none"
    /\ Unwritten(<<"call", c>>, n)
    /\ node' = [node EXCEPT ![n] = NewRow("drain", call[c].row, t)]
    /\ task' = [task EXCEPT ![t] = "pending"]
    /\ job' = [job EXCEPT ![t].state = "pending"]
    /\ drainOf' = [drainOf EXCEPT ![t] = n]
    /\ Written({n, t})
    /\ call' = [call EXCEPT ![c] = NoCall]
    /\ UNCHANGED <<beat, wantRole, sweep, back, marks, late, dlv, vmVars, countVars>>

(* A lost compare: a heartbeat reads again, an operator gets                 *)
(* ErrConcurrentUpdate.                                                      *)
CommitLost(c) ==
    /\ call[c].at = "write" /\ ~Unwritten(<<"call", c>>, call[c].node)
    /\ call' = IF call[c].op = "beat"
               THEN [call EXCEPT ![c].at = "read", ![c].row = NoNode]
               ELSE [call EXCEPT ![c] = NoCall]
    /\ UNCHANGED <<rowVars, reads, sweep, back, drainVars, late, dlv, vmVars, countVars>>

(* DeleteNode with force, seen from here: the migrations of its VMs are      *)
(* cancelled, the VMs leave it, and the row is soft-deleted.                 *)
DeleteNode(n) ==
    /\ "delete" \in Requests /\ Exists(n) /\ Operator
    /\ node' = [node EXCEPT ![n].status = "deleted"]
    /\ on' = [v \in VMs |-> IF on[v] = n THEN NoNode ELSE on[v]]
    /\ mig' = {v \in mig : on[v] # n}
    /\ Written({n})
    /\ UNCHANGED <<beat, wantRole, call, sweep, back, drainVars, late, dlv, plan, stalled, faults>>

-----------------------------------------------------------------------------
(* ReconcileFunc: three sweeps in a row, each from its own snapshot. *)
StartSweep(r, at, from, todo) ==
    /\ sweep[r].at = from /\ sweep[r].todo = {} /\ sweep[r].node = NoNode
    /\ sweep' = [sweep EXCEPT ![r] = [at |-> at, todo |-> todo, node |-> NoNode]]
    /\ UNCHANGED <<rowVars, reads, call, back, drainVars, late, dlv, vmVars, countVars>>

PromoteHealthyNodes(r) ==
    StartSweep(r, "promote", "idle",
               {n \in liveNodes : node[n].status \in {"pending", "unreachable"} /\ beat[n]})

MarkNodesUnreachable(r) ==
    StartSweep(r, "mark", "promote",
               {n \in liveNodes : node[n].status \in {"ready", "pending"} /\ ~beat[n]})

RewriteGoneNodesToUnreachable(r) ==
    StartSweep(r, "gone", "mark", {n \in liveNodes : node[n].status = "gone"})

EndSweep(r) ==
    StartSweep(r, "idle", "gone", {})


(* casNodeStatus and casGoneToUnreachable read the row again: the first      *)
(* refuses a node with a drain, the second one that is no longer gone.       *)
SweepRefused(r, n) ==
    \/ ~Exists(n)
    \/ sweep[r].at \in {"promote", "mark"} /\ node[n].drain # NoTask
    \/ sweep[r].at = "gone" /\ node[n].status # "gone"

SweepRead(r, n) ==
    /\ n \in sweep[r].todo /\ sweep[r].node = NoNode
    /\ IF SweepRefused(r, n)
       THEN sweep' = [sweep EXCEPT ![r].todo = @ \ {n}] /\ UNCHANGED reads
       ELSE /\ sweep' = [sweep EXCEPT ![r].todo = @ \ {n}, ![r].node = n]
            /\ Reading(<<"sweep", r>>, n)
    /\ UNCHANGED <<rowVars, call, back, drainVars, late, dlv, vmVars, countVars>>

casNodeStatus(r) ==
    LET n == sweep[r].node IN
    /\ n # NoNode
    /\ IF Unwritten(<<"sweep", r>>, n)
       THEN /\ node' = [node EXCEPT ![n].status =
                          IF sweep[r].at = "promote" THEN "ready" ELSE "unreachable"]
            /\ Written({n})
       ELSE UNCHANGED <<node, reads>>
    /\ sweep' = [sweep EXCEPT ![r].node = NoNode]
    /\ UNCHANGED <<beat, wantRole, call, back, drainVars, late, dlv, vmVars, countVars>>

-----------------------------------------------------------------------------
(* The scheduler and the migrations, as far as the drain sees them. *)
nodeSchedulable(n) == node[n].status = "ready" /\ ~node[n].cordonedAt

Place(v, n) ==
    /\ on[v] = NoNode /\ plan[v] = NoNode /\ nodeSchedulable(n)
    /\ plan' = [plan EXCEPT ![v] = n]
    /\ UNCHANGED <<rowVars, reads, call, sweep, back, drainVars, late, dlv, on, mig, countVars>>

(* BindScheduledVM: no compare mentions the node's status. *)
BindScheduledVM(v) ==
    /\ plan[v] # NoNode
    /\ on' = [on EXCEPT ![v] = plan[v]]
    /\ plan' = [plan EXCEPT ![v] = NoNode]
    /\ UNCHANGED <<rowVars, reads, call, sweep, back, drainVars, late, dlv, mig, countVars>>

EndMigration(v) ==
    /\ v \in mig
    /\ mig' = mig \ {v}
    /\ on' \in {on, [on EXCEPT ![v] = Away]}
    /\ UNCHANGED <<rowVars, reads, call, sweep, back, drainVars, late, dlv, plan, countVars>>

-----------------------------------------------------------------------------
(* The queue under the saga: claim, lapse of a lease, settling the job. *)
Claim(d, t) ==
    /\ dlv[d] = NoDlv /\ job[t].state = "pending"
    /\ job' = [job EXCEPT ![t].state = "running", ![t].owner = d]
    /\ dlv' = [dlv EXCEPT ![d] = [NoDlv EXCEPT !.task = t, !.at = "preflight"]]
    /\ UNCHANGED <<rowVars, reads, call, sweep, back, task, drainOf, marks, late, vmVars, countVars>>

Owns(d) == job[dlv[d].task].state = "running" /\ job[dlv[d].task].owner = d

Crash(d) ==
    /\ dlv[d] # NoDlv /\ Fault
    /\ dlv' = [dlv EXCEPT ![d] = NoDlv]
    /\ UNCHANGED <<rowVars, reads, call, sweep, back, drainVars, late, vmVars, stalled, ops>>

(* The reaper requeues a running job whose lease lapsed: its worker died, or *)
(* is stalled and will go on.                                                *)
Reclaim(t) ==
    LET alive == dlv[job[t].owner].task = t IN
    /\ job[t].state = "running"
    /\ IF alive THEN Fault /\ stalled' = stalled \cup {t} ELSE UNCHANGED <<faults, stalled>>
    /\ job' = [job EXCEPT ![t].state = "pending", ![t].owner = NoDelivery]
    /\ UNCHANGED <<rowVars, reads, call, sweep, back, task, drainOf, marks, late, dlv, vmVars, ops>>

ReturnOk(d) ==
    /\ dlv[d].at = "ok"
    /\ job' = IF Owns(d) THEN [job EXCEPT ![dlv[d].task].state = "completed"] ELSE job
    /\ dlv' = [dlv EXCEPT ![d] = NoDlv]
    /\ UNCHANGED <<rowVars, reads, call, sweep, back, task, drainOf, marks, late, vmVars, countVars>>

Retried(w) == [w EXCEPT !.attempts = @ + 1, !.owner = NoDelivery,
                        !.state = IF w.attempts + 1 < MaxAttempts THEN "pending" ELSE "failed"]

ReturnErr(d) ==
    /\ dlv[d].at = "err"
    /\ job' = IF Owns(d) THEN [job EXCEPT ![dlv[d].task] = Retried(@)] ELSE job
    /\ dlv' = [dlv EXCEPT ![d] = NoDlv]
    /\ UNCHANGED <<rowVars, reads, call, sweep, back, task, drainOf, marks, late, vmVars, countVars>>

(* A store call of the saga fails, or its context ends. *)
StoreError(d) ==
    /\ dlv[d].at \notin {"idle", "ok", "err"} /\ Fault
    /\ dlv' = [dlv EXCEPT ![d].at = "err"]
    /\ UNCHANGED <<rowVars, reads, call, sweep, back, drainVars, late, vmVars, stalled, ops>>

-----------------------------------------------------------------------------
(* runDrain *)
NodeOf(d) == drainOf[dlv[d].task]
drainActive(d) == node[NodeOf(d)].status = "draining" /\ node[NodeOf(d)].drain = dlv[d].task

Go(d, s) == dlv' = [dlv EXCEPT ![d].at = s]
Only(d) == UNCHANGED <<rowVars, reads, call, sweep, back, drainVars, late, vmVars, countVars>>

Preflight(d) ==
    /\ dlv[d].at = "preflight"
    /\ Go(d, IF ~Exists(NodeOf(d)) THEN "taskOnly"
             ELSE IF drainActive(d) THEN "mark" ELSE "ok")
    /\ Only(d)

(* UpdateTaskRunning: a read, then an unconditional put. *)
MarkRead(d) ==
    /\ dlv[d].at = "mark"
    /\ Go(d, IF isCommittedTerminal(task[dlv[d].task]) THEN "ok" ELSE "markPut")
    /\ Only(d)

MarkRunning(d) ==
    /\ dlv[d].at = "markPut"
    /\ task' = [task EXCEPT ![dlv[d].task] = "running"]
    /\ Written({dlv[d].task})
    /\ Go(d, "eval")
    /\ UNCHANGED <<rowVars, call, sweep, back, job, drainOf, marks, late, vmVars, countVars>>

(* drainEvaluate: the node, whose heartbeat may be missing or within the     *)
(* grace though it is not recent, ...                                        *)
EvalNode(d) ==
    /\ dlv[d].at = "eval"
    /\ \E dead \in {FALSE, ~beat[NodeOf(d)]} :
          dlv' = [dlv EXCEPT ![d].dead = dead,
                    ![d].at = IF ~Exists(NodeOf(d)) THEN "taskOnly"
                              ELSE IF drainActive(d) THEN "list" ELSE "ok"]
    /\ Only(d)

Pinned(n) == {v \in VMs : on[v] = n}
Finish(d, s) == dlv' = [dlv EXCEPT ![d].at = "finNode", ![d].out = s, ![d].dead = FALSE]

(* ... then its VMs: an empty node is drained; otherwise a dead node, a      *)
(* cancel marker (whose read may fail) and the deadline end the drain, in    *)
(* this order.                                                               *)
EvalList(d) ==
    LET occupied == Pinned(NodeOf(d)) # {}
        t == dlv[d].task IN
    /\ dlv[d].at = "list"
    /\ \/ ~occupied /\ Finish(d, "success")
       \/ occupied /\ dlv[d].dead /\ Finish(d, "failed")
       \/ occupied /\ ~dlv[d].dead /\ t \in marks /\ Finish(d, "cancelled")
       \/ occupied /\ ~dlv[d].dead /\ t \in late /\ Finish(d, "failed")
       \/ /\ occupied /\ ~dlv[d].dead /\ t \notin late
          /\ dlv' = [dlv EXCEPT ![d].at = "sweep", ![d].vms = Pinned(NodeOf(d))]
    /\ Only(d)

(* drainSweep and tryEvacuate: up to the cap, a migration for each listed VM *)
(* that has a target and none yet; then the poll interval.                   *)
drainSweep(d) ==
    /\ dlv[d].at = "sweep"
    /\ \E S \in SUBSET (dlv[d].vms \ mig) :
          /\ S # {} => Cardinality(S) + Cardinality(mig \cap Pinned(NodeOf(d))) <= MaxMigrations
          /\ mig' = mig \cup S
    /\ dlv' = [dlv EXCEPT ![d].at = "eval", ![d].vms = {}]
    /\ UNCHANGED <<rowVars, reads, call, sweep, back, drainVars, late, on, plan, countVars>>

DeadlinePasses(t) ==
    /\ task[t] \in {"pending", "running"} /\ t \notin late
    /\ late' = late \cup {t}
    /\ UNCHANGED <<rowVars, reads, call, sweep, back, drainVars, dlv, vmVars, countVars>>

(* FinishNodeDrain: the row with its revision, the task, and one put of both *)
(* that compares the row only if it writes it.                               *)
FinishReadNode(d) ==
    LET n == NodeOf(d) IN
    /\ dlv[d].at = "finNode"
    /\ IF Exists(n)
       THEN /\ dlv' = [dlv EXCEPT ![d].at = "finTask",
                         ![d].writesNode = (node[n].status = "draining" \/ node[n].drain # NoTask)]
            /\ Reading(<<"dlv", d>>, n)
       ELSE Go(d, "err") /\ UNCHANGED reads
    /\ UNCHANGED <<rowVars, call, sweep, back, drainVars, late, vmVars, countVars>>

FinishReadTask(d) ==
    /\ dlv[d].at = "finTask"
    /\ Go(d, IF task[dlv[d].task] \in Terminal THEN "ok" ELSE "finPut")
    /\ Only(d)

Undrained(w) == [w EXCEPT !.drain = NoTask,
                          !.status = IF w.status = "draining" THEN "cordoned" ELSE w.status]

FinishPut(d) ==
    LET n == NodeOf(d)
        t == dlv[d].task IN
    /\ dlv[d].at = "finPut"
    /\ dlv[d].writesNode => Unwritten(<<"dlv", d>>, n)
    /\ node' = IF dlv[d].writesNode THEN [node EXCEPT ![n] = Undrained(@)] ELSE node
    /\ task' = [task EXCEPT ![t] = dlv[d].out]
    /\ marks' = marks \ {t}
    /\ Written(IF dlv[d].writesNode THEN {n, t} ELSE {t})
    /\ Go(d, "ok")
    /\ UNCHANGED <<beat, wantRole, call, sweep, back, job, drainOf, late, vmVars, countVars>>

FinishLost(d) ==
    /\ dlv[d].at = "finPut" /\ dlv[d].writesNode /\ ~Unwritten(<<"dlv", d>>, NodeOf(d))
    /\ Go(d, "err")
    /\ Only(d)

(* finalizeTaskOnly: the node is gone; the task's put compares nothing. *)
finalizeTaskOnly(d) ==
    LET t == dlv[d].task IN
    /\ dlv[d].at = "taskOnly"
    /\ task' = [task EXCEPT ![t] = "cancelled"]
    /\ marks' = marks \ {t}
    /\ Written({t})
    /\ Go(d, "ok")
    /\ UNCHANGED <<rowVars, call, sweep, back, job, drainOf, late, vmVars, countVars>>

(* The task cancel handler: a pending drain's task and job are cancelled in  *)
(* one transaction, a running one gets the marker.                           *)
CancelPending(t) ==
    /\ "cancel" \in Requests /\ Operator
    /\ task[t] = "pending" /\ job[t].state = "pending"
    /\ task' = [task EXCEPT ![t] = "cancelled"]
    /\ job' = [job EXCEPT ![t].state = "deleted"]
    /\ Written({t})
    /\ UNCHANGED <<rowVars, call, sweep, back, drainOf, marks, late, dlv, vmVars, stalled, faults>>

RequestDrainCancel(t) ==
    /\ "cancel" \in Requests /\ Operator
    /\ task[t] = "running" /\ t \notin marks
    /\ marks' = marks \cup {t}
    /\ UNCHANGED <<rowVars, reads, call, sweep, back, task, job, drainOf, late, dlv, vmVars,
                   stalled, faults>>

-----------------------------------------------------------------------------
(* ReconcileStuckDrain: list the draining nodes, then take them one by one.  *)
ListDraining(r) ==
    /\ back[r].at = "idle" /\ back[r].todo = {}
    /\ \E n \in liveNodes : node[n].status = "draining"
    /\ back' = [back EXCEPT ![r].todo =
                 {<<n, node[n].drain>> : n \in {m \in liveNodes : node[m].status = "draining"}}]
    /\ UNCHANGED <<rowVars, reads, call, sweep, drainVars, late, dlv, vmVars, countVars>>

(* Mutant: a task that is not terminal counts as a live drain. *)
drainStillLiveByTask(t) == t # NoTask /\ task[t] \in {"pending", "running"}

drainStillLive(t) ==
    /\ t # NoTask
    /\ task[t] \in {"pending", "running"}
    /\ job[t].state \in {"pending", "running"}

(* Mutant: the node is cordoned and its task is not finalized. *)
BackCheckSkipsTask(r, n, t) ==
    /\ back[r].at = "idle" /\ <<n, t>> \in back[r].todo
    /\ back' = [back EXCEPT ![r] =
                 IF drainStillLive(t) THEN [@ EXCEPT !.todo = @ \ {<<n, t>>}]
                 ELSE [at |-> "cordon", todo |-> @.todo \ {<<n, t>>}, node |-> n, task |-> t]]
    /\ UNCHANGED <<rowVars, reads, call, sweep, drainVars, late, dlv, vmVars, countVars>>

BackCheck(r, n, t) ==
    /\ back[r].at = "idle" /\ <<n, t>> \in back[r].todo
    /\ back' = [back EXCEPT ![r] =
                 IF drainStillLive(t) THEN [@ EXCEPT !.todo = @ \ {<<n, t>>}]
                 ELSE [at |-> "finalize", todo |-> @.todo \ {<<n, t>>}, node |-> n, task |-> t]]
    /\ UNCHANGED <<rowVars, reads, call, sweep, drainVars, late, dlv, vmVars, countVars>>

(* finalizeStuckDrainTask's read ... *)
BackReadTask(r) ==
    LET t == back[r].task IN
    /\ back[r].at = "finalize"
    /\ IF t = NoTask \/ task[t] \in Terminal
       THEN back' = [back EXCEPT ![r].at = "cordon"] /\ UNCHANGED reads
       ELSE back' = [back EXCEPT ![r].at = "write"] /\ Reading(<<"back", r>>, t)
    /\ UNCHANGED <<rowVars, call, sweep, drainVars, late, dlv, vmVars, countVars>>

(* ... and its compare-and-set, a no-op when it loses. *)
BackWriteTask(r) ==
    LET t == back[r].task IN
    /\ back[r].at = "write"
    /\ IF Unwritten(<<"back", r>>, t)
       THEN task' = [task EXCEPT ![t] = "failed"] /\ Written({t})
       ELSE UNCHANGED <<task, reads>>
    /\ back' = [back EXCEPT ![r].at = "cordon"]
    /\ UNCHANGED <<rowVars, call, sweep, job, drainOf, marks, late, dlv, vmVars, countVars>>

(* cordonStuckDrain: its own read and compare are one step, because a lost   *)
(* compare changes nothing.                                                  *)
cordonStuckDrain(r) ==
    LET n == back[r].node IN
    /\ back[r].at = "cordon"
    /\ IF node[n].status = "draining"
       THEN node' = [node EXCEPT ![n] = Undrained(@)] /\ Written({n})
       ELSE UNCHANGED <<node, reads>>
    /\ back' = [back EXCEPT ![r].at = "idle", ![r].node = NoNode, ![r].task = NoTask]
    /\ UNCHANGED <<beat, wantRole, call, sweep, drainVars, late, dlv, vmVars, countVars>>

-----------------------------------------------------------------------------
CallStep(c) ==
    \/ CountDrainingNodes(c) \/ nodeWithRev(c) \/ Commit(c) \/ CommitLost(c)
    \/ \E t \in Tasks : StartNodeDrain(c, t)

SweepStep(r) ==
    \/ PromoteHealthyNodes(r) \/ MarkNodesUnreachable(r)
    \/ RewriteGoneNodesToUnreachable(r) \/ EndSweep(r)
    \/ \E n \in Nodes : SweepRead(r, n)
    \/ casNodeStatus(r)

BackStep(r) ==
    \/ ListDraining(r) \/ BackReadTask(r) \/ BackWriteTask(r) \/ cordonStuckDrain(r)
    \/ \E n \in Nodes, t \in Tasks \cup {NoTask} : BackCheck(r, n, t)

SagaStep(d) ==
    \/ Preflight(d) \/ MarkRead(d) \/ MarkRunning(d) \/ EvalNode(d) \/ EvalList(d)
    \/ drainSweep(d) \/ FinishReadNode(d) \/ FinishReadTask(d) \/ FinishPut(d)
    \/ FinishLost(d) \/ finalizeTaskOnly(d) \/ ReturnOk(d) \/ ReturnErr(d)

Next ==
    \/ \E c \in Callers :
          \/ \E n \in Nodes : Heartbeat(c, n) \/ \E op \in RowRequests : Request(c, op, n)
          \/ CallStep(c)
    \/ \E n \in Nodes : HeartbeatAges(n) \/ DeleteNode(n)
    \/ (\E r \in Sweepers : SweepStep(r)) \/ (\E r \in Backstops : BackStep(r))
    \/ \E v \in VMs : BindScheduledVM(v) \/ EndMigration(v) \/ \E n \in Nodes : Place(v, n)
    \/ \E t \in Tasks :
          \/ Reclaim(t) \/ DeadlinePasses(t) \/ CancelPending(t) \/ RequestDrainCancel(t)
          \/ \E d \in Deliveries : Claim(d, t)
    \/ \E d \in Deliveries : SagaStep(d) \/ Crash(d) \/ StoreError(d)

Spec == Init /\ [][Next]_vars

(* The dispatcher, the backstop and requests under way go on; a job of a     *)
(* dead worker is reclaimed; deadlines pass.  Nothing is assumed of agents,  *)
(* heartbeats and the heartbeat sweeps.                                      *)
FairSpec ==
    /\ Spec
    /\ \A c \in Callers : WF_vars(CallStep(c))
    /\ \A r \in Backstops : WF_vars(BackStep(r))
    /\ \A d \in Deliveries : WF_vars(SagaStep(d))
    /\ \A t \in Tasks :
          /\ WF_vars(\E d \in Deliveries : Claim(d, t))
          /\ WF_vars(Reclaim(t) /\ dlv[job[t].owner].task # t)
          /\ WF_vars(DeadlinePasses(t))

-----------------------------------------------------------------------------

(* A node leaves draining only together with its own drain's verdict: no    *)
(* delivery, late or of an earlier drain, ends it otherwise and leaves the  *)
(* task running behind a cordoned node (FinishNodeDrain), unless a stalled  *)
(* worker has revived that earlier drain's task.  The backstop keeps this   *)
(* as long as it acts on the drain it listed and no live worker lost its    *)
(* lease (ReconcileStuckDrain).                                             *)
DrainEndsWithTask ==
    [][\A n \in Nodes :
          node[n].status = "draining" /\ node'[n].status \notin {"draining", "deleted"}
            => \/ task'[node[n].drain] \in Terminal
               \/ stalled \ {node[n].drain} # {}
               \/ \E r \in Backstops :
                     /\ back[r].at = "cordon" /\ back[r].node = n
                     /\ stalled # {} \/ back[r].task # node[n].drain]_vars

(* A node does not stay draining for ever: the saga ends it, or the         *)
(* backstop does when the saga's job is dead.                               *)
DrainEnds == \A n \in Nodes : node[n].status = "draining" ~> node[n].status # "draining"

=============================================================================
