------------------------------ MODULE TaskRun -------------------------------
(***************************************************************************)
(* A vm.create task from the API to the agent and back, on top of the job  *)
(* queue: the task rows of internal/etcdstore/tasks.go, the worker's       *)
(* handler in internal/api/handlers/vms/run.go with its executor in        *)
(* agent_executors.go, the projection's task half in                       *)
(* internal/etcdstore/vms_project.go, and the agent's Create and runCreate *)
(* in internal/agent/vm/manager.go.                                        *)
(*                                                                         *)
(* Task j is backed by job j.  Every updateTask is a read and a later      *)
(* unconditional put of the changed copy, so both are steps.  The handler  *)
(* runs while its delivery is in JobQueue's "run"; what it returns picks   *)
(* HandlerOk or HandlerErr.                                                *)
(***************************************************************************)
EXTENDS JobQueue

CONSTANTS
    MaxAgentTasks,   \* bound on the agent tasks one VM's creates mint
    MaxTaskFaults    \* bound on failed calls and agent restarts

ASSUME TaskAssumptions ==
    MaxAgentTasks \in Nat \ {0} /\ MaxTaskFaults \in Nat

VARIABLES
    task,     \* the rows under /tasks/
    h,        \* each delivery's handler: stage, task copy, agent task id
    cseen,    \* the task copy a cancel request holds, or NoTask
    atask,    \* the agent's in-memory TaskStore
    avm,      \* the agent's VM for job j: in memory, and on disk
    orig,     \* the agent's createTasks entry, 0 when absent
    spawned,  \* history: times the agent materialised VM j
    aborted,  \* history: jobs whose handler failed without an envelope
    tfaults   \* faults of this layer so far

tvars == <<task, h, cseen, atask, avm, orig, spawned, aborted, tfaults>>
agentVars == <<atask, avm, orig, spawned>>
allVars == <<vars, tvars>>

-----------------------------------------------------------------------------
AgentIds == 1 .. MaxAgentTasks
NoAgent == 0

TaskStatus == {"none", "pending", "running", "success", "failed", "cancelled"}
Task == [status : TaskStatus, agent : AgentIds \cup {NoAgent}]
NoTask == [status |-> "none", agent |-> NoAgent]

isCommittedTerminal(s) == s \in {"success", "cancelled"}

Stages == {"off", "entry", "mark", "load", "post", "stamp", "stampPut", "poll",
           "clear", "clearPut", "success", "successPut", "failed", "failedPut",
           "terminal", "terminalPut", "ok", "err"}

Handler == [at : Stages, seen : Task, aid : AgentIds \cup {NoAgent}]
Off == [at |-> "off", seen |-> NoTask, aid |-> NoAgent]

(* The handler moves on, keeping or dropping the task copy it holds. *)
Go(d, s) == h' = [h EXCEPT ![d].at = s, ![d].seen = NoTask]
Hold(d, s) == h' = [h EXCEPT ![d].at = s, ![d].seen = task[dlv[d].job]]
Put(d, row) == task' = [task EXCEPT ![dlv[d].job] = row]

(* A read under a live context. *)
Reading(d, s) == dlv[d].pc = "run" /\ h[d].at = s /\ ~dlv[d].hctxDone
Writing(d, s) == dlv[d].pc = "run" /\ h[d].at = s

TaskFault == tfaults < MaxTaskFaults /\ tfaults' = tfaults + 1

TInit ==
    /\ Init
    /\ task = [j \in Jobs |-> NoTask]
    /\ h = [d \in Deliveries |-> Off]
    /\ cseen = [j \in Jobs |-> NoTask]
    /\ atask = [j \in Jobs |-> [i \in AgentIds |-> "none"]]
    /\ avm = [j \in Jobs |-> "absent"]
    /\ orig = [j \in Jobs |-> 0]
    /\ spawned = [j \in Jobs |-> 0]
    /\ aborted = {}
    /\ tfaults = 0

-----------------------------------------------------------------------------
(* EnqueueTask: the task row and its job in one transaction. *)
EnqueueTask(j) ==
    /\ Enqueue(j)
    /\ task' = [task EXCEPT ![j].status = "pending"]
    /\ UNCHANGED <<h, cseen, agentVars, aborted, tfaults>>

(* CancelPendingTask: the task is read first, then the job, and the commit *)
(* compares only the job.                                                  *)
CancelTaskRead(j) ==
    /\ task[j].status = "pending" /\ cseen[j] = NoTask
    /\ cseen' = [cseen EXCEPT ![j] = task[j]]
    /\ UNCHANGED <<vars, task, h, agentVars, aborted, tfaults>>

CancelJobRead(j) ==
    /\ cseen[j] # NoTask
    /\ CancelRead(j)
    /\ UNCHANGED tvars

CancelCommit(j) ==
    /\ cseen[j] # NoTask
    /\ CancelPendingTask(j)
    /\ task' = [task EXCEPT ![j] = [cseen[j] EXCEPT !.status = "cancelled"]]
    /\ cseen' = [cseen EXCEPT ![j] = NoTask]
    /\ UNCHANGED <<h, agentVars, aborted, tfaults>>

(* ErrTaskNotCancellable: the job was not pending, or the compare lost. *)
CancelRefused(j) ==
    /\ cseen[j] # NoTask /\ ~Unchanged(Canceller, j)
    /\ cseen' = [cseen EXCEPT ![j] = NoTask]
    /\ UNCHANGED <<vars, task, h, agentVars, aborted, tfaults>>

-----------------------------------------------------------------------------
(* runCreate, the control plane's handler. *)

(* UpdateTaskRunning's read. *)
UpdateTaskRunning(d) ==
    /\ Reading(d, "entry")
    /\ IF isCommittedTerminal(task[dlv[d].job].status) THEN Go(d, "ok")
                                                       ELSE Hold(d, "mark")
    /\ UNCHANGED <<vars, task, cseen, agentVars, aborted, tfaults>>

MarkRunning(d) ==
    /\ Writing(d, "mark")
    /\ Put(d, [h[d].seen EXCEPT !.status = "running"])
    /\ Go(d, "load")
    /\ UNCHANGED <<vars, cseen, agentVars, aborted, tfaults>>

(* The VM, its disk, pool, node and NICs load and the node is not          *)
(* terminally dead; the task is read again for its agent task id.          *)
LoadOk(d) ==
    LET id == task[dlv[d].job].agent IN
    /\ Reading(d, "load")
    /\ h' = [h EXCEPT ![d].aid = id, ![d].at = IF id = NoAgent THEN "post"
                                                              ELSE "poll"]
    /\ UNCHANGED <<vars, task, cseen, agentVars, aborted, tfaults>>

(* A missing row (failRun) or a dead node (failTerminal). *)
LoadFails(d) ==
    /\ Reading(d, "load")
    /\ TaskFault
    /\ Go(d, "failed") \/ Go(d, "terminal")
    /\ UNCHANGED <<vars, task, cseen, agentVars, aborted>>

(* The agent's Create: m.vms, reloaded from disk on a restart, decides.    *)
(* An id that is still live is echoed; a reloaded VM yields a task that    *)
(* reports what became of it; otherwise runCreate starts.                  *)
Minted(j) == {i \in AgentIds : atask[j][i] # "none"}
NewId(j) == Cardinality(Minted(j)) + 1

(* Mutant: an interrupted create is reported as done. *)
idempotentCreateLenient(s) == IF s = "failed" THEN "failed" ELSE "success"

idempotentCreateResult(s) == IF s = "running" THEN "success" ELSE "failed"

(* Mutant: only the in-memory createTasks map is consulted. *)
CreateForgetful(j) ==
    IF orig[j] # 0
    THEN UNCHANGED agentVars
    ELSE /\ NewId(j) \in AgentIds
         /\ atask' = [atask EXCEPT ![j][NewId(j)] = "running"]
         /\ avm' = [avm EXCEPT ![j] = "pending"]
         /\ orig' = [orig EXCEPT ![j] = NewId(j)]
         /\ UNCHANGED spawned

Create(j) ==
    \/ /\ avm[j] = "absent" /\ NewId(j) \in AgentIds
       /\ atask' = [atask EXCEPT ![j][NewId(j)] = "running"]
       /\ avm' = [avm EXCEPT ![j] = "pending"]
       /\ orig' = [orig EXCEPT ![j] = NewId(j)]
       /\ UNCHANGED spawned
    \/ /\ avm[j] # "absent" /\ orig[j] # 0
       /\ UNCHANGED agentVars
    \/ /\ avm[j] # "absent" /\ orig[j] = 0 /\ NewId(j) \in AgentIds
       /\ atask' = [atask EXCEPT ![j][NewId(j)] =
                                   idempotentCreateResult(avm[j])]
       /\ UNCHANGED <<avm, orig, spawned>>

PostVMCreate(d) ==
    LET j == dlv[d].job IN
    /\ Reading(d, "post")
    /\ Create(j)
    /\ h' = [h EXCEPT ![d].at = "stamp",
                      ![d].aid = IF orig'[j] # 0 THEN orig'[j] ELSE NewId(j)]
    /\ UNCHANGED <<vars, task, cseen, aborted, tfaults>>

(* The request or its answer is lost; the agent may have acted on it. *)
PostFails(d) ==
    /\ Writing(d, "post")
    /\ IF dlv[d].hctxDone THEN UNCHANGED tfaults ELSE TaskFault
    /\ Create(dlv[d].job) \/ UNCHANGED agentVars
    /\ Go(d, "failed")
    /\ UNCHANGED <<vars, task, cseen, aborted>>

(* OnAgentTaskID: UpdateTaskAgentTaskID's read and put. *)
StampRead(d) ==
    /\ Reading(d, "stamp")
    /\ Hold(d, "stampPut")
    /\ UNCHANGED <<vars, task, cseen, agentVars, aborted, tfaults>>

UpdateTaskAgentTaskID(d) ==
    /\ Writing(d, "stampPut")
    /\ Put(d, [h[d].seen EXCEPT !.agent = h[d].aid])
    /\ Go(d, "poll")
    /\ UNCHANGED <<vars, cseen, agentVars, aborted, tfaults>>

(* Mutant: a 404 is not told apart from an unfinished task. *)
PollTaskKeepsId(d) ==
    LET s == atask[dlv[d].job][h[d].aid] IN
    /\ Reading(d, "poll")
    /\ s \in {"success", "failed"} /\ Go(d, s)
    /\ UNCHANGED <<vars, task, cseen, agentVars, aborted, tfaults>>

(* PollTask returns a terminal status, or a 404 for a task the agent lost. *)
(* failCreateExec makes a checksum mismatch terminal.                      *)
PollTask(d) ==
    LET s == atask[dlv[d].job][h[d].aid] IN
    /\ Reading(d, "poll")
    /\ \/ s \in {"success", "failed"} /\ Go(d, s)
       \/ s = "failed" /\ Go(d, "terminal")
       \/ s = "lost" /\ Go(d, "clear")
    /\ UNCHANGED <<vars, task, cseen, agentVars, aborted, tfaults>>

(* The poll budget ran out, or the request failed for good. *)
PollFails(d) ==
    /\ Writing(d, "poll")
    /\ IF dlv[d].hctxDone THEN UNCHANGED tfaults ELSE TaskFault
    /\ Go(d, "failed")
    /\ UNCHANGED <<vars, task, cseen, agentVars, aborted>>

(* clearAgentTaskIDIfGone *)
ClearRead(d) ==
    /\ Reading(d, "clear")
    /\ Hold(d, "clearPut")
    /\ UNCHANGED <<vars, task, cseen, agentVars, aborted, tfaults>>

ClearTaskAgentTaskID(d) ==
    /\ Writing(d, "clearPut")
    /\ Put(d, [h[d].seen EXCEPT !.agent = NoAgent])
    /\ Go(d, "failed")
    /\ UNCHANGED <<vars, cseen, agentVars, aborted, tfaults>>

(* finalizedTaskValue and UpdateTaskFinalized: read, then put. *)
PutStage == [success |-> "successPut", failed |-> "failedPut",
             terminal |-> "terminalPut"]

FinalRead(d) ==
    /\ \E s \in DOMAIN PutStage : Reading(d, s) /\ Hold(d, PutStage[s])
    /\ UNCHANGED <<vars, task, cseen, agentVars, aborted, tfaults>>

ProjectVMCreateSuccess(d) ==
    /\ Writing(d, "successPut")
    /\ Put(d, [h[d].seen EXCEPT !.status = "success"])
    /\ Go(d, "ok")
    /\ UNCHANGED <<vars, cseen, agentVars, aborted, tfaults>>

(* The VM row moved under the projection: it reads the task again. *)
ProjectRetries(d) ==
    /\ Writing(d, "successPut")
    /\ Go(d, "success")
    /\ UNCHANGED <<vars, task, cseen, agentVars, aborted, tfaults>>

(* failRun returns the cause, failTerminal nil. *)
finalizeFailed(d) ==
    /\ Writing(d, "failedPut") \/ Writing(d, "terminalPut")
    /\ Put(d, [h[d].seen EXCEPT !.status = "failed"])
    /\ Go(d, IF h[d].at = "failedPut" THEN "err" ELSE "ok")
    /\ UNCHANGED <<vars, cseen, agentVars, aborted, tfaults>>

(* A store call fails, or the handler panics: the error is returned with   *)
(* nothing written.  Under a cancelled context every call fails.  A failed *)
(* put of the agent task id still goes to failRun.                         *)
StoreStages == Stages \ {"off", "post", "poll", "ok", "err"}

StoreFails(d) ==
    /\ dlv[d].pc = "run" /\ h[d].at \in StoreStages
    /\ IF dlv[d].hctxDone THEN UNCHANGED tfaults ELSE TaskFault
    /\ IF h[d].at \in {"stamp", "stampPut"}
       THEN Go(d, "failed") /\ UNCHANGED aborted
       ELSE /\ Go(d, "err")
            /\ aborted' = IF dlv[d].hctxDone THEN aborted
                          ELSE aborted \cup {dlv[d].job}
    /\ UNCHANGED <<vars, task, cseen, agentVars>>

-----------------------------------------------------------------------------
(* The agent. *)

(* runCreate persists the VM as creating, materialises it and spawns qemu. *)
AgentBegins(j) ==
    /\ avm[j] = "pending"
    /\ avm' = [avm EXCEPT ![j] = "creating"]
    /\ spawned' = [spawned EXCEPT ![j] = @ + 1]
    /\ UNCHANGED <<vars, task, h, cseen, atask, orig, aborted, tfaults>>

AgentEnds(j) ==
    /\ avm[j] = "creating" /\ orig[j] # 0
    /\ \/ /\ avm' = [avm EXCEPT ![j] = "running"]
          /\ atask' = [atask EXCEPT ![j][orig[j]] = "success"]
       \/ /\ avm' = [avm EXCEPT ![j] = "failed"]
          /\ atask' = [atask EXCEPT ![j][orig[j]] = "failed"]
    /\ UNCHANGED <<vars, task, h, cseen, orig, spawned, aborted, tfaults>>

(* The agent restarts: tasks and createTasks are gone, m.vms is reloaded   *)
(* from the meta.json files persistVM wrote.                               *)
AgentRestarts(j) ==
    /\ Minted(j) # {} /\ TaskFault
    /\ atask' = [atask EXCEPT ![j] =
                   [i \in AgentIds |-> IF @[i] = "none" THEN "none"
                                                        ELSE "lost"]]
    /\ avm' = [avm EXCEPT ![j] = IF @ = "pending" THEN "absent" ELSE @]
    /\ orig' = [orig EXCEPT ![j] = 0]
    /\ UNCHANGED <<vars, task, h, cseen, spawned, aborted>>

-----------------------------------------------------------------------------
(* Steps of the queue that the task layer takes part in. *)

Claims(d) ==
    /\ ClaimWins(d)
    /\ h' = [h EXCEPT ![d].at = "entry"]
    /\ UNCHANGED <<task, cseen, agentVars, aborted, tfaults>>

Returns(d) ==
    /\ \/ h[d].at = "ok" /\ HandlerOk(d)
       \/ h[d].at = "err" /\ HandlerErr(d)
    /\ h' = [h EXCEPT ![d] = Off]
    /\ UNCHANGED <<task, cseen, agentVars, aborted, tfaults>>

ReplicaDies(r) ==
    /\ Crash(r)
    /\ h' = [d \in Deliveries |-> IF dlv[d].rep = r THEN Off ELSE h[d]]
    /\ UNCHANGED <<task, cseen, agentVars, aborted, tfaults>>

(* The rest of the queue's steps leave the task layer alone. *)
QueueStep ==
    /\ \/ \E r \in Replicas :
            \/ Campaign(r) \/ SessionExpires(r) \/ SessionLost(r)
            \/ NoticeLoss(r) \/ Shutdown(r) \/ TermEnds(r) \/ Restart(r)
            \/ Reclaim(r) \/ ReclaimSkips(r)
            \/ \E j \in Jobs : ReclaimRead(r, j) \/ DeleteFailedJob(r, j)
            \/ \E d \in Deliveries, j \in Jobs : ClaimRead(d, r, j)
       \/ \E d \in Deliveries :
            \/ ClaimLost(d) \/ ClaimFails(d) \/ CompleteJob(d)
            \/ FenceRead(d) \/ FenceGivesUp(d) \/ RetryJob(d)
            \/ RequeueJob(d) \/ BookkeepingFails(d) \/ RenewRead(d)
            \/ RenewJobLease(d) \/ RenewLost(d) \/ RenewFails(d)
            \/ RenewerStops(d)
       \/ \E j \in Jobs : LeaseExpires(j) \/ LeaseStalls(j)
       \/ Resolved
    /\ UNCHANGED tvars

HandlerStep(d) ==
    \/ UpdateTaskRunning(d) \/ MarkRunning(d) \/ LoadOk(d) \/ LoadFails(d)
    \/ PostVMCreate(d) \/ PostFails(d) \/ StampRead(d)
    \/ UpdateTaskAgentTaskID(d) \/ PollTask(d) \/ PollFails(d)
    \/ ClearRead(d) \/ ClearTaskAgentTaskID(d) \/ FinalRead(d)
    \/ ProjectVMCreateSuccess(d) \/ ProjectRetries(d) \/ finalizeFailed(d)
    \/ StoreFails(d)

TNext ==
    \/ \E j \in Jobs :
         \/ EnqueueTask(j) \/ CancelTaskRead(j) \/ CancelJobRead(j)
         \/ CancelCommit(j) \/ CancelRefused(j)
         \/ AgentBegins(j) \/ AgentEnds(j) \/ AgentRestarts(j)
    \/ \E d \in Deliveries : HandlerStep(d) \/ Claims(d) \/ Returns(d)
    \/ \E r \in Replicas : ReplicaDies(r)
    \/ QueueStep

TSpec == TInit /\ [][TNext]_allVars

(* JobQueue's fairness, with the handler's own steps in place of "a        *)
(* handler returns"; the agent's goroutines run.  The projection's compare *)
(* loop is bounded in the code, so it does not lose for ever.              *)
TFairness ==
    /\ \A r \in Replicas :
         /\ WF_vars(Campaign(r)) /\ WF_vars(SessionExpires(r))
         /\ WF_vars(NoticeLoss(r)) /\ WF_vars(TermEnds(r))
         /\ WF_vars(Restart(r))
         /\ WF_vars(Reclaim(r) \/ ReclaimSkips(r))
    /\ \A j \in Jobs :
         /\ WF_vars(LeaseExpires(j))
         /\ WF_vars(\E r \in Replicas : ReclaimRead(r, j))
         /\ WF_vars(\E r \in Replicas, d \in Deliveries : ClaimRead(d, r, j))
         /\ WF_allVars(AgentBegins(j)) /\ WF_allVars(AgentEnds(j))
    /\ \A d \in Deliveries :
         /\ WF_vars(ClaimWins(d) \/ ClaimFails(d))
         /\ WF_allVars(HandlerStep(d)) /\ WF_allVars(Returns(d))
         /\ SF_allVars(ProjectVMCreateSuccess(d))
         /\ WF_vars(CompleteJob(d) \/ FenceRead(d) \/ FenceGivesUp(d)
                    \/ RetryJob(d) \/ RequeueJob(d) \/ BookkeepingFails(d))
         /\ WF_vars(RenewJobLease(d) \/ RenewLost(d))
         /\ SF_vars(RenewerStops(d))

FairTSpec == TSpec /\ TFairness

-----------------------------------------------------------------------------
(* Properties *)

(* Task rows, handlers and the agent's tables keep the shape of their Go   *)
(* types.                                                                  *)
TaskTypeOK ==
    /\ task \in [Jobs -> Task]
    /\ h \in [Deliveries -> Handler]
    /\ cseen \in [Jobs -> Task]
    /\ atask \in [Jobs -> [AgentIds ->
                    {"none", "running", "success", "failed", "lost"}]]
    /\ avm \in [Jobs -> {"absent", "pending", "creating", "running", "failed"}]
    /\ orig \in [Jobs -> 0 .. MaxAgentTasks]
    /\ spawned \in [Jobs -> Nat]
    /\ aborted \subseteq Jobs
    /\ tfaults \in 0 .. MaxTaskFaults

(* A VM is materialised once, however often its create is delivered,       *)
(* posted again after a lost answer, or met by a restarted agent.          *)
OneSpawn == \A j \in Jobs : spawned[j] <= 1

(* A task that committed success or cancelled keeps that status: no        *)
(* redelivery after a lost acknowledgement, a crash or a reclaim reopens   *)
(* it.  Two cases the store does not compare for are left out: a lease     *)
(* that lapsed under a live worker, and a cancel request still holding the *)
(* row it read.                                                            *)
CommittedStays ==
    [][\A j \in Jobs :
         /\ isCommittedTerminal(task[j].status)
         /\ j \notin stalled /\ cseen[j] = NoTask
         => task'[j].status = task[j].status]_allVars

(* A cancelled task has no job and no handler: the cancel and the claim    *)
(* exclude each other (CancelPendingTask).                                 *)
CancelExcludesRun ==
    \A j \in Jobs : task[j].status = "cancelled" /\ j \notin stalled =>
        /\ job[j].state = "gone"
        /\ \A d \in Deliveries : dlv[d].job = j => dlv[d].pc # "run"

(* A create that reports success left a running VM on its agent.           *)
SuccessIsReal ==
    \A j \in Jobs : task[j].status = "success" => avm[j] = "running"

(* A task the API accepted is answered in the end, through any crash,      *)
(* election or agent restart, unless a store failure or a panic ate its    *)
(* attempts.                                                               *)
TaskSettles ==
    \A j \in Jobs :
        task[j].status = "pending" ~>
            \/ task[j].status \in {"success", "failed", "cancelled"}
            \/ j \in aborted

=============================================================================
