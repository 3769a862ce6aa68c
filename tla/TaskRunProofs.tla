---------------------------- MODULE TaskRunProofs ---------------------------
(***************************************************************************)
(* Proofs about tasks on top of the queue: a create materialises its VM    *)
(* once, a success is real, and what a task committed to is final, for     *)
(* every number of jobs, replicas, deliveries, agent tasks and faults.     *)
(***************************************************************************)
EXTENDS TaskRun, JobQueueProofs

-----------------------------------------------------------------------------
(* The inductive invariant. *)

(* The agent materialises a VM when it leaves "pending", and its tasks     *)
(* report success for a running VM alone.                                  *)
AgentSound ==
    \A j \in Jobs :
        /\ spawned[j] = IF avm[j] \in {"absent", "pending"} THEN 0 ELSE 1
        /\ \A i \in AgentIds : atask[j][i] = "success" => avm[j] = "running"

(* A handler belongs to a running delivery, and polls a task it was given. *)
HandlerRuns ==
    \A d \in Deliveries :
        /\ h[d].at # "off" => /\ dlv[d].pc = "run" /\ dlv[d].job \in Jobs
                              /\ job[dlv[d].job].state # "new"
        /\ h[d].at = "off" => h[d].seen = NoTask
        /\ h[d].at \in {"stamp", "stampPut", "poll"} => h[d].aid # NoAgent

(* Wherever a task row or a copy of it says success, the VM runs.          *)
SuccessSound ==
    /\ SuccessIsReal
    /\ \A j \in Jobs : cseen[j].status \in {"none", "pending"}
    /\ \A d \in Deliveries :
         h[d].seen.status = "success" \/ h[d].at \in {"success", "successPut"}
         => avm[dlv[d].job] = "running"

(* The copy a handler is about to write back. *)
PutStages == {"mark", "stampPut", "clearPut", "successPut", "failedPut",
              "terminalPut"}

(* Until its job stalls, a handler's copy is the row, and it works on a    *)
(* task that has committed to nothing; a cancelled task's job is deleted.  *)
RowsHeld ==
    /\ \A j \in Jobs :
         /\ job[j].state = "new" => task[j].status = "none"
         /\ task[j].status = "cancelled" /\ j \notin stalled
            => job[j].state = "gone"
    /\ \A d \in Deliveries : dlv[d].job \notin stalled =>
         /\ h[d].at \in PutStages => h[d].seen = task[dlv[d].job]
         /\ h[d].at \notin {"off", "entry", "ok", "err"} =>
              ~isCommittedTerminal(task[dlv[d].job].status)

TaskInv == TaskTypeOK /\ AgentSound /\ HandlerRuns /\ SuccessSound /\ RowsHeld

-----------------------------------------------------------------------------
(* What a handler's step has to respect                                    *)

(* What one step of delivery d's handler has to respect for the invariant  *)
(* to survive it.                                                          *)
Local(d) ==
    LET j == dlv[d].job IN
    /\ UNCHANGED <<vars, cseen>>
    /\ \A e \in Deliveries \ {d} : h'[e] = h[e]
    /\ \A k \in Jobs \ {j} : task'[k] = task[k]
    /\ \A k \in Jobs : avm[k] = "running" => avm'[k] = "running"
    /\ h'[d].at # "off"
    /\ h'[d].at \in {"stamp", "stampPut", "poll"} => h'[d].aid # NoAgent
    /\ \/ h'[d].seen.status = "success" \/ task'[j].status = "success"
       \/ h'[d].at \in {"success", "successPut"}
       => avm'[j] = "running"
    /\ j \notin stalled =>
         /\ task'[j].status # "cancelled" \/ task'[j] = task[j]
         /\ h'[d].at \in PutStages => h'[d].seen = task'[j]
         /\ h'[d].at \notin {"off", "entry", "ok", "err"} =>
              ~isCommittedTerminal(task'[j].status)

(* It is enough: no other handler of an unstalled job is running.          *)
LEMMA LocalSuffices ==
    ASSUME IInv, TaskInv, NEW d \in Deliveries, h[d].at # "off", Local(d)
    PROVE  HandlerRuns' /\ SuccessSound' /\ RowsHeld'
<1> USE DEF TaskInv, TaskTypeOK, HandlerRuns, Local, vars
<1>1. \A e \in Deliveries \ {d} :
        h[e].at # "off" /\ dlv[e].job = dlv[d].job => dlv[d].job \in stalled
  BY SMTT(40) DEF IInv, Owned, Active, OwnClaim
<1>2. HandlerRuns'
  BY SMTT(40)
<1>3. SuccessSound'
  <2>1. \A j \in Jobs : task'[j].status = "success" => avm'[j] = "running"
    BY SMTT(40) DEF SuccessSound, SuccessIsReal
  <2>2. ASSUME NEW e \in Deliveries,
               \/ h'[e].seen.status = "success"
               \/ h'[e].at \in {"success", "successPut"}
        PROVE  avm'[dlv'[e].job] = "running"
    BY <2>2, SMTT(40) DEF SuccessSound, NoTask
  <2>3. \A j \in Jobs : cseen'[j].status \in {"none", "pending"}
    BY ZenonT(20) DEF SuccessSound
  <2> QED
    BY <2>1, <2>2, <2>3, ZenonT(20) DEF SuccessSound, SuccessIsReal
<1>4. \A j \in Jobs :
        /\ job'[j].state = "new" => task'[j].status = "none"
        /\ task'[j].status = "cancelled" /\ j \notin stalled'
           => job'[j].state = "gone"
  BY SMTT(40) DEF RowsHeld
<1>5. ASSUME NEW e \in Deliveries, dlv'[e].job \notin stalled'
      PROVE  /\ h'[e].at \in PutStages => h'[e].seen = task'[dlv'[e].job]
             /\ h'[e].at \notin {"off", "entry", "ok", "err"} =>
                  ~isCommittedTerminal(task'[dlv'[e].job].status)
  <2>1. CASE e = d
    BY <1>5, <2>1, SMTT(40)
  <2>2. CASE e # d /\ h[e].at = "off"
    BY <2>2, ZenonT(20) DEF PutStages
  <2>3. CASE e # d /\ h[e].at # "off"
    BY <1>1, <1>5, <2>3, SMTT(40) DEF RowsHeld
  <2> QED
    BY <2>1, <2>2, <2>3, ZenonT(20)
<1> QED
  BY <1>2, <1>3, <1>4, <1>5, ZenonT(20) DEF RowsHeld

(* What the invariant says of delivery d's handler and its row.            *)
LEMMA HandlerFacts ==
    ASSUME TaskInv, NEW d \in Deliveries, h[d].at # "off"
    PROVE  /\ dlv[d].job \in Jobs
           /\ h[d].seen \in Task /\ task[dlv[d].job] \in Task
           /\ h[d].at \in {"stamp", "stampPut", "poll"} => h[d].aid # NoAgent
           /\ \/ h[d].seen.status = "success"
              \/ task[dlv[d].job].status = "success"
              \/ h[d].at \in {"success", "successPut"}
              => avm[dlv[d].job] = "running"
           /\ dlv[d].job \notin stalled =>
                /\ h[d].at \in PutStages => h[d].seen = task[dlv[d].job]
                /\ h[d].at \notin {"off", "entry", "ok", "err"} =>
                     ~isCommittedTerminal(task[dlv[d].job].status)
<1> USE DEF TaskInv
<1>1. dlv[d].job \in Jobs
  BY DEF HandlerRuns
<1> QED
  BY <1>1 DEF TaskTypeOK, HandlerRuns, SuccessSound, SuccessIsReal, RowsHeld,
              Handler

(* What an API request or the agent's own step does to a task row.         *)
LEMMA RequestStep ==
    ASSUME IInv, TaskInv, NEW j \in Jobs,
           \/ EnqueueTask(j) \/ CancelTaskRead(j) \/ CancelJobRead(j)
           \/ CancelCommit(j) \/ CancelRefused(j)
           \/ AgentBegins(j) \/ AgentEnds(j) \/ AgentRestarts(j)
    PROVE  HandlerRuns' /\ SuccessSound' /\ RowsHeld'
<1> USE DEF TaskInv
<1>0. /\ task \in [Jobs -> Task] /\ cseen \in [Jobs -> Task]
      /\ \A d \in Deliveries : h[d].at # "off" => dlv[d].job \in Jobs
  BY DEF TaskTypeOK, HandlerRuns
<1>1. CASE EnqueueTask(j)
  <2>1. /\ job[j].state = "new" /\ job'[j].state = "pending"
        /\ \A k \in Jobs \ {j} : job'[k] = job[k]
        /\ UNCHANGED <<dlv, stalled, h, cseen, avm>>
    BY <1>1 DEF EnqueueTask, Enqueue, Write, dlvVars, agentVars, history,
                IInv, TypeOK, Job
  <2>2. /\ task'[j].status = "pending"
        /\ \A k \in Jobs \ {j} : task'[k] = task[k]
    BY <1>1, <1>0, ZenonT(20) DEF EnqueueTask, Task
  <2>3. \A d \in Deliveries : h[d].at # "off" => dlv[d].job # j
    BY <2>1, ZenonT(20) DEF HandlerRuns
  <2>4. HandlerRuns'
    BY <1>0, <2>1, <2>3, ZenonT(20) DEF HandlerRuns
  <2>5. SuccessSound'
    BY <2>1, <2>2, SMTT(40) DEF SuccessSound, SuccessIsReal
  <2>6. RowsHeld'
    BY <1>0, <2>1, <2>2, <2>3, ZenonT(20) DEF RowsHeld, PutStages
  <2> QED
    BY <2>4, <2>5, <2>6, ZenonT(20)
<1>2. CASE CancelTaskRead(j)
  BY <1>0, <1>2, ZenonT(20)
  DEF CancelTaskRead, vars, agentVars, HandlerRuns, SuccessSound,
      SuccessIsReal, RowsHeld
<1>3. CASE CancelJobRead(j)
  BY <1>0, <1>3, ZenonT(20)
  DEF CancelJobRead, CancelRead, tvars, dlvVars, jobVars, history,
      HandlerRuns, SuccessSound, SuccessIsReal, RowsHeld
<1>4. CASE CancelCommit(j)
  <2>1. /\ job[j].state = "pending" /\ job'[j].state = "gone"
        /\ \A k \in Jobs \ {j} : job'[k] = job[k]
        /\ UNCHANGED <<dlv, stalled, h, avm>>
    BY <1>4 DEF CancelCommit, CancelPendingTask, Write, dlvVars, agentVars,
                IInv, CancelReads, TypeOK, Job, GoneRow
  <2>2. /\ task'[j].status = "cancelled"
        /\ \A k \in Jobs \ {j} : task'[k] = task[k]
        /\ \A k \in Jobs : cseen'[k] = cseen[k] \/ cseen'[k] = NoTask
    BY <1>4, <1>0, ZenonT(20) DEF CancelCommit, Task
  <2>3. \A d \in Deliveries :
          h[d].at # "off" /\ dlv[d].job = j => j \in stalled
    BY <2>1, ZenonT(20) DEF HandlerRuns, IInv, Owned, Active, OwnClaim
  <2>4. HandlerRuns'
    BY <1>0, <2>1, ZenonT(20) DEF HandlerRuns
  <2>5. SuccessSound'
    BY <2>1, <2>2, SMTT(40) DEF SuccessSound, SuccessIsReal, NoTask
  <2>6. RowsHeld'
    BY <1>0, <2>1, <2>2, <2>3, SMTT(40) DEF RowsHeld, PutStages
  <2> QED
    BY <2>4, <2>5, <2>6
<1>5. CASE CancelRefused(j)
  BY <1>0, <1>5, ZenonT(60)
  DEF CancelRefused, vars, agentVars, HandlerRuns, SuccessSound,
      SuccessIsReal, RowsHeld, NoTask
<1>6. CASE AgentBegins(j) \/ AgentEnds(j) \/ AgentRestarts(j)
  <2>1. /\ UNCHANGED <<vars, task, h, cseen>>
        /\ \A k \in Jobs : avm[k] = "running" => avm'[k] = "running"
    BY <1>6 DEF AgentBegins, AgentEnds, AgentRestarts, TaskTypeOK
  <2> QED
    <3>1. HandlerRuns' /\ RowsHeld'
      BY <2>1, ZenonT(20) DEF vars, HandlerRuns, RowsHeld
    <3>2. SuccessSound'
      BY <1>0, <2>1, SMTT(40)
      DEF vars, HandlerRuns, SuccessSound, SuccessIsReal, NoTask
    <3> QED
      BY <3>1, <3>2, SMTT(40)
<1> QED
  BY <1>1, <1>2, <1>3, <1>4, <1>5, <1>6, ZenonT(20)

-----------------------------------------------------------------------------
(* What each step of a handler does                                        *)

(* Where a handler's move leaves it, with and without a copy of its row.   *)
LEMMA GoEffect ==
    ASSUME TaskTypeOK, NEW d \in Deliveries, NEW s, Go(d, s)
    PROVE  /\ h'[d].at = s /\ h'[d].seen = NoTask /\ h'[d].aid = h[d].aid
           /\ \A e \in Deliveries \ {d} : h'[e] = h[e]
BY DEF TaskTypeOK, Handler, Go

(* A handler that read its task remembers it. *)
LEMMA HoldEffect ==
    ASSUME TaskTypeOK, NEW d \in Deliveries, NEW s, Hold(d, s)
    PROVE  /\ h'[d].at = s /\ h'[d].seen = task[dlv[d].job]
           /\ h'[d].aid = h[d].aid
           /\ \A e \in Deliveries \ {d} : h'[e] = h[e]
BY DEF TaskTypeOK, Handler, Hold

(* A put of delivery d's row changes that row alone.                       *)
LEMMA PutEffect ==
    ASSUME TaskTypeOK, NEW d \in Deliveries, dlv[d].job \in Jobs, NEW row,
           Put(d, row)
    PROVE  /\ task'[dlv[d].job] = row
           /\ \A k \in Jobs \ {dlv[d].job} : task'[k] = task[k]
BY ZenonT(20) DEF TaskTypeOK, Put

(* The agent's Create never stops a VM.                                    *)
LEMMA CreateKeeps ==
    ASSUME TaskTypeOK, NEW j \in Jobs, Create(j)
    PROVE  \A k \in Jobs : avm[k] = "running" => avm'[k] = "running"
BY ZenonT(20) DEF TaskTypeOK, Create, agentVars

(* The agent's Create keeps its tables typed.                              *)
LEMMA CreateType ==
    ASSUME TaskTypeOK, NEW j \in Jobs, Create(j)
    PROVE  /\ atask' \in [Jobs -> [AgentIds ->
                            {"none", "running", "success", "failed", "lost"}]]
           /\ avm' \in [Jobs -> {"absent", "pending", "creating", "running",
                                 "failed"}]
           /\ orig' \in [Jobs -> 0 .. MaxAgentTasks]
           /\ spawned' \in [Jobs -> Nat]
           /\ orig'[j] # 0 => orig'[j] \in AgentIds
           /\ orig'[j] = 0 => NewId(j) \in AgentIds
<1> USE TaskAssumptions DEF TaskTypeOK, agentVars, AgentIds
<1>1. CASE /\ avm[j] = "absent" /\ NewId(j) \in AgentIds
           /\ atask' = [atask EXCEPT ![j][NewId(j)] = "running"]
           /\ avm' = [avm EXCEPT ![j] = "pending"]
           /\ orig' = [orig EXCEPT ![j] = NewId(j)]
           /\ UNCHANGED spawned
  BY <1>1
<1>2. CASE avm[j] # "absent" /\ orig[j] # 0 /\ UNCHANGED agentVars
  BY <1>2
<1>3. CASE /\ avm[j] # "absent" /\ orig[j] = 0 /\ NewId(j) \in AgentIds
           /\ atask' = [atask EXCEPT ![j][NewId(j)] =
                                       idempotentCreateResult(avm[j])]
           /\ UNCHANGED <<avm, orig, spawned>>
  BY <1>3 DEF idempotentCreateResult
<1> QED
  BY <1>1, <1>2, <1>3, ZenonT(20) DEF Create

(* The stage that writes what a final read returned.                       *)
LEMMA FinalStages ==
    ASSUME NEW d \in Deliveries, FinalRead(d)
    PROVE  \E s \in {"success", "failed", "terminal"} :
             Reading(d, s) /\ Hold(d, IF s = "success" THEN "successPut"
                                      ELSE IF s = "failed" THEN "failedPut"
                                      ELSE "terminalPut")
<1>1. DOMAIN PutStage = {"success", "failed", "terminal"}
  BY DEF PutStage
<1>2. /\ PutStage["success"] = "successPut" /\ PutStage["failed"] = "failedPut"
      /\ PutStage["terminal"] = "terminalPut"
  BY DEF PutStage
<1>3. PICK s \in DOMAIN PutStage : Reading(d, s) /\ Hold(d, PutStage[s])
  BY DEF FinalRead
<1>4. /\ s = "success" => PutStage[s] = "successPut"
      /\ s = "failed" => PutStage[s] = "failedPut"
      /\ s = "terminal" => PutStage[s] = "terminalPut"
  BY <1>2, ZenonT(20)
<1> QED
  BY <1>1, <1>3, <1>4

(* A step that moves the handler and writes nothing.                       *)
LEMMA GoLocal ==
    ASSUME TaskInv, NEW d \in Deliveries, h[d].at # "off", NEW s, Go(d, s),
           UNCHANGED <<vars, cseen, task>>,
           \A k \in Jobs : avm[k] = "running" => avm'[k] = "running",
           s \in {"success", "failed", "terminal", "clear", "ok", "err"},
           s = "success" => avm[dlv[d].job] = "running",
           s \in {"ok", "err"} \/ h[d].at \notin {"entry", "ok", "err"}
    PROVE  Local(d)
<1>1. /\ h'[d].at = s /\ h'[d].seen = NoTask
      /\ \A e \in Deliveries \ {d} : h'[e] = h[e]
  BY GoEffect, ZenonT(20) DEF TaskInv
<1> QED
  BY <1>1, HandlerFacts, SMTT(40) DEF Local, PutStages, NoTask

(* A step that reads the row into the handler's copy.                      *)
LEMMA HoldLocal ==
    ASSUME TaskInv, NEW d \in Deliveries, h[d].at # "off", NEW s, Hold(d, s),
           UNCHANGED <<vars, cseen, task, avm>>, s \in PutStages,
           s = "stampPut" => h[d].aid # NoAgent,
           s = "successPut" => avm[dlv[d].job] = "running",
           \/ h[d].at \notin {"entry", "ok", "err"}
           \/ ~isCommittedTerminal(task[dlv[d].job].status)
    PROVE  Local(d)
<1>1. /\ h'[d].at = s /\ h'[d].seen = task[dlv[d].job]
      /\ h'[d].aid = h[d].aid
      /\ \A e \in Deliveries \ {d} : h'[e] = h[e]
  BY HoldEffect, ZenonT(20) DEF TaskInv
<1> QED
  BY <1>1, HandlerFacts, ZenonT(20) DEF Local, PutStages

(* A step that writes the handler's copy back, changed to row.             *)
LEMMA PutLocal ==
    ASSUME TaskInv, NEW d \in Deliveries, h[d].at # "off", NEW s, NEW row,
           Go(d, s), Put(d, row), UNCHANGED <<vars, cseen, avm>>,
           s \in {"load", "poll", "failed", "ok", "err"},
           s = "poll" => h[d].aid # NoAgent,
           row.status = "success" => avm[dlv[d].job] = "running",
           dlv[d].job \notin stalled =>
             /\ row.status # "cancelled"
             /\ s \in {"ok", "err"} \/ ~isCommittedTerminal(row.status)
    PROVE  Local(d)
<1>1. /\ h'[d].at = s /\ h'[d].seen = NoTask /\ h'[d].aid = h[d].aid
      /\ \A e \in Deliveries \ {d} : h'[e] = h[e]
  BY GoEffect, ZenonT(20) DEF TaskInv
<1>2. /\ dlv[d].job \in Jobs /\ task'[dlv[d].job] = row
      /\ \A k \in Jobs \ {dlv[d].job} : task'[k] = task[k]
  BY HandlerFacts, PutEffect, ZenonT(20) DEF TaskInv
<1> QED
  BY <1>1, <1>2, SMTT(40) DEF Local, PutStages, NoTask

(* Every step of a handler respects it.                                    *)
LEMMA HandlerLocal ==
    ASSUME TaskInv, NEW d \in Deliveries, HandlerStep(d)
    PROVE  h[d].at # "off" /\ Local(d)
<1> DEFINE j == dlv[d].job
<1>a. h[d].at # "off"
  BY Zenon DEF HandlerStep, UpdateTaskRunning, MarkRunning, LoadOk, LoadFails,
         PostVMCreate, PostFails, StampRead, UpdateTaskAgentTaskID, PollTask,
         PollFails, ClearRead, ClearTaskAgentTaskID, FinalRead,
         ProjectVMCreateSuccess, ProjectRetries, finalizeFailed, StoreFails,
         Reading, Writing, StoreStages, PutStage
<1>b. /\ j \in Jobs
      /\ h[d].seen \in Task /\ task[j] \in Task
      /\ h[d].at \in {"stamp", "stampPut", "poll"} => h[d].aid # NoAgent
      /\ \/ h[d].seen.status = "success" \/ task[j].status = "success"
         \/ h[d].at \in {"success", "successPut"}
         => avm[j] = "running"
      /\ j \notin stalled =>
           /\ h[d].at \in PutStages => h[d].seen = task[j]
           /\ h[d].at \notin {"off", "entry", "ok", "err"} =>
                ~isCommittedTerminal(task[j].status)
  BY <1>a, HandlerFacts, ZenonT(20)
<1>c. \A v \in TaskStatus : [h[d].seen EXCEPT !.status = v].status = v
  BY <1>b, ZenonT(20) DEF Task
<1>d. \A i : [h[d].seen EXCEPT !.agent = i].status = h[d].seen.status
  BY <1>b, SMTT(40) DEF Task
<1> HIDE DEF j
<1>1. CASE UpdateTaskRunning(d)
  <2>1. CASE Go(d, "ok")
    BY <1>1, <1>a, <2>1, GoLocal, ZenonT(20) DEF UpdateTaskRunning, agentVars
  <2>2. CASE Hold(d, "mark") /\ ~isCommittedTerminal(task[dlv[d].job].status)
    BY <1>1, <1>a, <2>2, HoldLocal DEF UpdateTaskRunning, agentVars, PutStages
  <2> QED
    BY <1>1, <2>1, <2>2, ZenonT(20) DEF UpdateTaskRunning
<1>2. CASE MarkRunning(d)
  BY <1>2, <1>a, <1>c, PutLocal, Zenon
  DEF MarkRunning, agentVars, TaskStatus, isCommittedTerminal
<1>3. CASE LoadOk(d)
  <2> DEFINE i == task[dlv[d].job].agent
  <2>1. h' = [h EXCEPT ![d].aid = i,
                       ![d].at = IF i = NoAgent THEN "post" ELSE "poll"]
    BY <1>3 DEF LoadOk
  <2> HIDE DEF i
  <2>2. /\ h'[d].aid = i /\ h'[d].at = IF i = NoAgent THEN "post" ELSE "poll"
        /\ h'[d].seen = h[d].seen /\ \A e \in Deliveries \ {d} : h'[e] = h[e]
    BY <2>1 DEF TaskInv, TaskTypeOK, Handler
  <2>3. /\ h'[d].at \in {"post", "poll"}
        /\ h'[d].at = "poll" => h'[d].aid # NoAgent
    BY <2>2
  <2>4. h'[d].seen = h[d].seen /\ \A e \in Deliveries \ {d} : h'[e] = h[e]
    BY <2>2
  <2> QED
    BY <1>3, <1>a, <1>b, <2>3, <2>4, Zenon
    DEF LoadOk, Local, Reading, agentVars, PutStages, j
<1>4. CASE LoadFails(d)
  BY <1>4, <1>a, GoLocal DEF LoadFails, Reading, agentVars
<1>5. CASE PostVMCreate(d)
  <2> DEFINE i == IF orig'[j] # 0 THEN orig'[j] ELSE NewId(j)
  <2>1. Create(j)
    BY <1>5, ZenonT(20) DEF PostVMCreate, j
  <2>2. i \in AgentIds
    BY <1>b, <2>1, CreateType DEF TaskInv
  <2>3. h' = [h EXCEPT ![d].at = "stamp", ![d].aid = i]
    BY <1>5 DEF PostVMCreate, j
  <2> HIDE DEF i
  <2>4. /\ h'[d].aid = i /\ h'[d].at = "stamp" /\ h'[d].seen = h[d].seen
        /\ \A e \in Deliveries \ {d} : h'[e] = h[e]
    BY <2>3 DEF TaskInv, TaskTypeOK, Handler
  <2>5. h'[d].aid # NoAgent
    BY <2>2, <2>4, TaskAssumptions, SMTT(40) DEF AgentIds, NoAgent
  <2>6. \A k \in Jobs : avm[k] = "running" => avm'[k] = "running"
    BY <1>b, <2>1, CreateKeeps, ZenonT(20) DEF TaskInv
  <2> QED
    BY <1>5, <1>a, <1>b, <2>4, <2>5, <2>6, Zenon
    DEF PostVMCreate, Local, Reading, PutStages, j
<1>6. CASE PostFails(d)
  <2>1. \A k \in Jobs : avm[k] = "running" => avm'[k] = "running"
    BY <1>6, <1>b, CreateKeeps, ZenonT(20) DEF PostFails, agentVars, TaskInv, j
  <2> QED
    BY <1>6, <1>a, <2>1, GoLocal, ZenonT(20) DEF PostFails, Writing
<1>7. CASE StampRead(d)
  BY <1>7, <1>a, <1>b, HoldLocal DEF StampRead, Reading, agentVars, PutStages
<1>8. CASE UpdateTaskAgentTaskID(d)
  BY <1>8, <1>a, <1>b, <1>d, PutLocal, ZenonT(60)
  DEF UpdateTaskAgentTaskID, Writing, agentVars, isCommittedTerminal,
      PutStages, j
<1>9. CASE PollTask(d)
  <2> DEFINE s == atask[dlv[d].job][h[d].aid]
  <2>1. s = "success" => avm[dlv[d].job] = "running"
    BY <1>9, <1>b, SMTT(40)
    DEF TaskInv, TaskTypeOK, AgentSound, PollTask, Reading, Handler, NoAgent,
        j
  <2>2. \/ s \in {"success", "failed"} /\ Go(d, s)
        \/ Go(d, "terminal") \/ Go(d, "clear")
    BY <1>9, Zenon DEF PollTask
  <2> HIDE DEF s
  <2> QED
    BY <1>9, <1>a, <2>1, <2>2, GoLocal, ZenonT(20)
    DEF PollTask, Reading, agentVars
<1>10. CASE PollFails(d)
  BY <1>10, <1>a, GoLocal, ZenonT(20) DEF PollFails, Writing, agentVars
<1>11. CASE ClearRead(d)
  BY <1>11, <1>a, HoldLocal DEF ClearRead, Reading, agentVars, PutStages
<1>12. CASE ClearTaskAgentTaskID(d)
  BY <1>12, <1>a, <1>b, <1>d, PutLocal, Zenon
  DEF ClearTaskAgentTaskID, Writing, agentVars, isCommittedTerminal,
      PutStages, j
<1>13. CASE FinalRead(d)
  <2>1. PICK s \in {"success", "failed", "terminal"} :
             Reading(d, s) /\ Hold(d, IF s = "success" THEN "successPut"
                                      ELSE IF s = "failed" THEN "failedPut"
                                      ELSE "terminalPut")
    BY <1>13, FinalStages
  <2> QED
    BY <1>13, <1>a, <1>b, <2>1, HoldLocal, ZenonT(20)
    DEF FinalRead, Reading, agentVars, PutStages, j
<1>14. CASE ProjectVMCreateSuccess(d)
  BY <1>14, <1>a, <1>b, <1>c, PutLocal, Zenon
  DEF ProjectVMCreateSuccess, Writing, agentVars, TaskStatus, j
<1>15. CASE ProjectRetries(d)
  BY <1>15, <1>a, <1>b, GoLocal DEF ProjectRetries, Writing, agentVars, j
<1>16. CASE finalizeFailed(d)
  BY <1>16, <1>a, <1>c, PutLocal, ZenonT(60)
  DEF finalizeFailed, Writing, agentVars, TaskStatus, j
<1>17. CASE StoreFails(d)
  BY <1>17, <1>a, GoLocal, ZenonT(20) DEF StoreFails, agentVars
<1> QED
  BY <1>a, <1>1, <1>2, <1>3, <1>4, <1>5, <1>6, <1>7, <1>8, <1>9, <1>10, <1>11,
     <1>12, <1>13, <1>14, <1>15, <1>16, <1>17, ZenonT(20) DEF HandlerStep

(* No step reopens a committed task of an unstalled job.                   *)
LEMMA CommittedStep ==
    ASSUME TaskInv, [TNext]_allVars
    PROVE  \A j \in Jobs :
             /\ isCommittedTerminal(task[j].status)
             /\ j \notin stalled /\ cseen[j] = NoTask
             => task'[j].status = task[j].status
<1> DEFINE Stays == \A j \in Jobs :
             /\ isCommittedTerminal(task[j].status)
             /\ j \notin stalled /\ cseen[j] = NoTask
             => task'[j].status = task[j].status
<1> SUFFICES Stays
  OBVIOUS
<1> USE DEF TaskInv
<1>1. CASE UNCHANGED task
  BY <1>1
<1>2. ASSUME NEW j \in Jobs, EnqueueTask(j) \/ CancelCommit(j) PROVE Stays
  <2>1. \A k \in Jobs \ {j} : task'[k] = task[k]
    BY <1>2 DEF EnqueueTask, CancelCommit, TaskTypeOK
  <2>2. task[j].status = "none" \/ cseen[j] # NoTask
    BY <1>2 DEF EnqueueTask, Enqueue, CancelCommit, RowsHeld
  <2> QED
    BY <2>1, <2>2 DEF isCommittedTerminal
<1>3. ASSUME NEW d \in Deliveries, HandlerStep(d), task' # task PROVE Stays
  <2>1. h[d].at \in PutStages
    BY <1>3, ZenonT(60)
    DEF HandlerStep, UpdateTaskRunning, MarkRunning, LoadOk, LoadFails,
        PostVMCreate, PostFails, StampRead, UpdateTaskAgentTaskID, PollTask,
        PollFails, ClearRead, ClearTaskAgentTaskID, FinalRead,
        ProjectVMCreateSuccess, ProjectRetries, finalizeFailed, StoreFails,
        Writing, PutStages
  <2>2. \A k \in Jobs \ {dlv[d].job} : task'[k] = task[k]
    BY <1>3, HandlerLocal, ZenonT(20) DEF Local
  <2>3. dlv[d].job \notin stalled =>
          ~isCommittedTerminal(task[dlv[d].job].status)
    BY <2>1, HandlerFacts DEF PutStages
  <2> QED
    BY <2>2, <2>3, SMTT(40)
<1> QED
  BY <1>1, <1>2, <1>3, ZenonT(20)
  DEF TNext, CancelTaskRead, CancelJobRead, CancelRefused, AgentBegins,
      AgentEnds, AgentRestarts, Claims, Returns, ReplicaDies, QueueStep,
      allVars, tvars

-----------------------------------------------------------------------------
(* The task layer runs on the queue of JobQueue, step by step              *)

(* A step of the task layer is a step of the queue, or leaves it alone.    *)
LEMMA QueueSimulated == [TNext]_allVars => [Next]_vars
<1> SUFFICES ASSUME [TNext]_allVars PROVE [Next]_vars
  OBVIOUS
<1>1. CASE UNCHANGED vars
  BY <1>1
<1>2. ASSUME NEW j \in Jobs,
             EnqueueTask(j) \/ CancelJobRead(j) \/ CancelCommit(j)
      PROVE  Next
  BY <1>2 DEF EnqueueTask, CancelJobRead, CancelCommit, Next, JobStep
<1>3. ASSUME NEW d \in Deliveries, Claims(d) \/ Returns(d) PROVE Next
  BY <1>3, ZenonT(20) DEF Claims, Returns, Next, DeliveryStep
<1>4. ASSUME NEW r \in Replicas, ReplicaDies(r) PROVE Next
  BY <1>4, SMTT(40) DEF ReplicaDies, Next, ReplicaStep
<1>5. CASE QueueStep
  BY <1>5, ZenonT(20) DEF QueueStep, Next, ReplicaStep, DeliveryStep, JobStep
<1>6. ASSUME NEW j \in Jobs,
             \/ CancelTaskRead(j) \/ CancelRefused(j) \/ AgentBegins(j)
             \/ AgentEnds(j) \/ AgentRestarts(j)
      PROVE  UNCHANGED vars
  BY <1>6, SMTT(40) DEF CancelTaskRead, CancelRefused, AgentBegins, AgentEnds,
              AgentRestarts
<1>7. ASSUME NEW d \in Deliveries, HandlerStep(d) PROVE UNCHANGED vars
  BY <1>7, Zenon
  DEF HandlerStep, UpdateTaskRunning, MarkRunning, LoadOk, LoadFails,
      PostVMCreate, PostFails, StampRead, UpdateTaskAgentTaskID, PollTask,
      PollFails, ClearRead, ClearTaskAgentTaskID, FinalRead,
      ProjectVMCreateSuccess, ProjectRetries, finalizeFailed, StoreFails
<1> QED
  BY <1>1, <1>2, <1>3, <1>4, <1>5, <1>6, <1>7, ZenonT(20) DEF TNext, allVars

(* The queue under the tasks is JobQueue's: everything proved of Spec      *)
(* holds of TSpec.                                                         *)
THEOREM TasksRunOnQueue == TSpec => Spec
<1>1. TInit => Init
  BY ZenonT(20) DEF TInit
<1> QED
  BY <1>1, QueueSimulated, PTL DEF TSpec, Spec

(* A delivery whose handler is still there after a step was running before *)
(* it or was just claimed, and stays on its job.                           *)
LEMMA HandlerHeld ==
    ASSUME TypeOK, TaskTypeOK, HandlerRuns, [TNext]_allVars,
           NEW e \in Deliveries, h'[e].at # "off"
    PROVE  dlv'[e].pc = "run" /\ dlv'[e].job = dlv[e].job
<1> USE DEF TypeOK, TaskTypeOK, HandlerRuns, Delivery, PhaseOf, Handler
<1>1. CASE UNCHANGED <<vars, h>>
  BY <1>1, ZenonT(20) DEF vars
<1>2. ASSUME NEW j \in Jobs,
             \/ EnqueueTask(j) \/ CancelTaskRead(j) \/ CancelJobRead(j)
             \/ CancelCommit(j) \/ CancelRefused(j)
             \/ AgentBegins(j) \/ AgentEnds(j) \/ AgentRestarts(j)
      PROVE  UNCHANGED <<dlv, h>>
  BY <1>2, ZenonT(20)
  DEF EnqueueTask, Enqueue, CancelTaskRead, CancelJobRead, CancelRead,
      CancelCommit, CancelPendingTask, CancelRefused, AgentBegins, AgentEnds,
      AgentRestarts, dlvVars, tvars, vars
<1>3. ASSUME NEW d \in Deliveries, Claims(d)
      PROVE  dlv'[e].pc = "run" /\ dlv'[e].job = dlv[e].job
  BY <1>3, SMTT(40) DEF Claims, ClaimWins
<1>4. ASSUME NEW d \in Deliveries, Returns(d)
      PROVE  dlv'[e].pc = "run" /\ dlv'[e].job = dlv[e].job
  BY <1>4, ZenonT(20) DEF Returns, HandlerOk, HandlerErr, Off
<1>5. ASSUME NEW r \in Replicas, ReplicaDies(r)
      PROVE  dlv'[e].pc = "run" /\ dlv'[e].job = dlv[e].job
  BY <1>5, SMTT(40) DEF ReplicaDies, Crash, Off
<1>6. ASSUME NEW d \in Deliveries, HandlerStep(d)
      PROVE  dlv' = dlv /\ (d = e \/ h'[e] = h[e]) /\ dlv[d].pc = "run"
  BY <1>6, ZenonT(60)
  DEF HandlerStep, UpdateTaskRunning, MarkRunning, LoadOk, LoadFails,
      PostVMCreate, PostFails, StampRead, UpdateTaskAgentTaskID, PollTask,
      PollFails, ClearRead, ClearTaskAgentTaskID, FinalRead,
      ProjectVMCreateSuccess, ProjectRetries, finalizeFailed, StoreFails,
      Reading, Writing, Go, Hold, vars
<1>7. CASE QueueStep
  <2>1. h[e].at # "off" /\ dlv[e].pc = "run"
    BY <1>7, SMTT(40) DEF QueueStep, tvars
  <2>2. CASE UNCHANGED dlv
    BY <2>1, <2>2, Zenon
  <2>3. ASSUME NEW r \in Replicas, NoticeLoss(r) \/ Shutdown(r)
        PROVE  dlv'[e].pc = "run" /\ dlv'[e].job = dlv[e].job
    <3>1. \/ dlv'[e] = dlv[e]
          \/ dlv'[e] = [dlv[e] EXCEPT !.hctxDone = TRUE]
      <4>1. CancelTerm(r)
        BY <2>3, Zenon DEF NoticeLoss, Shutdown
      <4> QED
        BY <4>1, Zenon DEF CancelTerm
    <3> QED
      BY <2>1, <3>1
  <2>4. ASSUME NEW d \in Deliveries, NEW r \in Replicas, NEW j \in Jobs,
               ClaimRead(d, r, j)
        PROVE  dlv'[e].pc = "run" /\ dlv'[e].job = dlv[e].job
    BY <2>1, <2>4, SMTT(40) DEF ClaimRead, Idle
  <2>5. ASSUME NEW d \in Deliveries,
               \/ ClaimLost(d) \/ ClaimFails(d) \/ CompleteJob(d)
               \/ FenceRead(d) \/ FenceGivesUp(d) \/ RetryJob(d)
               \/ RequeueJob(d) \/ BookkeepingFails(d) \/ RenewerStops(d)
        PROVE  dlv'[e].pc = "run" /\ dlv'[e].job = dlv[e].job
    BY <2>1, <2>5, Zenon DEF ClaimLost, ClaimFails, CompleteJob, FenceRead,
       FenceGivesUp, RetryJob, RequeueJob, BookkeepingFails, RenewerStops
  <2>6. ASSUME NEW d \in Deliveries, RenewLost(d)
        PROVE  dlv'[e].pc = "run" /\ dlv'[e].job = dlv[e].job
    BY <2>1, <2>6 DEF RenewLost
  <2> QED
    BY <1>7, <2>2, <2>3, <2>4, <2>5, <2>6, ZenonT(60)
    DEF QueueStep, Campaign, SessionExpires, SessionLost, TermEnds, Restart,
        Reclaim, ReclaimSkips, ReclaimRead, DeleteFailedJob, RenewRead,
        RenewJobLease, RenewFails, LeaseExpires, LeaseStalls, AgeLease,
        Resolved, dlvVars, vars
<1> QED
  BY <1>1, <1>2, <1>3, <1>4, <1>5, <1>6, <1>7, ZenonT(20)
  DEF TNext, allVars, tvars

(* A new row was new before, and a stall is not forgotten.                 *)
LEMMA QueueKeeps ==
    ASSUME IInv, [Next]_vars
    PROVE  /\ \A j \in Jobs : job'[j].state = "new" => job[j].state = "new"
           /\ stalled \subseteq stalled'
<1> USE DEF jobVars, dlvVars, repVars, history, Write, Unchanged
<1> USE DEF IInv, Shape, TypeOK, RenewReads, OwnClaim, Job, JobState
<1>1. stalled \subseteq stalled'
  BY ZenonT(60) DEF Next, ReplicaStep, DeliveryStep, JobStep, Resolved,
         Campaign, SessionExpires, SessionLost, NoticeLoss, Shutdown,
         TermEnds, Crash, Restart, ReclaimSkips, ReclaimRead, ClaimRead,
         ClaimFails, HandlerOk, HandlerErr, FenceRead, FenceGivesUp,
         BookkeepingFails, RenewRead, RenewLost, RenewFails, RenewerStops,
         CancelRead, CancelTerm, Reclaim, DeleteFailedJob, ClaimWins,
         ClaimLost, CompleteJob, RetryJob, RequeueJob, RenewJobLease, Enqueue,
         LeaseExpires, LeaseStalls, CancelPendingTask, vars
<1>2. ASSUME NEW k \in Jobs, job'[k].state = "new" PROVE job[k].state = "new"
  <2>1. CASE UNCHANGED job
    BY <1>2, <2>1, ZenonT(20)
  <2>2. ASSUME NEW r \in Replicas, Reclaim(r) PROVE job[k].state = "new"
    BY <1>2, <2>2, SMTT(40) DEF Reclaim, PendingRow
  <2>3. ASSUME NEW r \in Replicas, NEW j \in Jobs, DeleteFailedJob(r, j)
        PROVE  job[k].state = "new"
    BY <1>2, <2>3, SMTT(40) DEF DeleteFailedJob, GoneRow
  <2>4. ASSUME NEW d \in Deliveries, ClaimWins(d) \/ ClaimLost(d)
        PROVE  job[k].state = "new"
    <3>1. /\ dlv[d].job \in Jobs
          /\ job' = [job EXCEPT ![dlv[d].job] = ClaimedRow(d, dlv[d].job)]
      BY <2>4, ZenonT(20) DEF ClaimWins, ClaimLost
    <3> QED
      BY <1>2, <3>1, SMTT(40) DEF ClaimedRow
  <2>5. ASSUME NEW d \in Deliveries, CompleteJob(d) PROVE job[k].state = "new"
    BY <1>2, <2>5, SMTT(40) DEF CompleteJob, GoneRow
  <2>6. ASSUME NEW d \in Deliveries, RetryJob(d) PROVE job[k].state = "new"
    BY <1>2, <2>6, SMTT(40) DEF RetryJob, RetriedRow, PendingRow
  <2>7. ASSUME NEW d \in Deliveries, RequeueJob(d) PROVE job[k].state = "new"
    BY <1>2, <2>7, SMTT(40) DEF RequeueJob, PendingRow
  <2>8. ASSUME NEW d \in Deliveries, RenewJobLease(d)
        PROVE  job[k].state = "new"
    BY <1>2, <2>8, SMTT(40) DEF RenewJobLease
  <2>9. ASSUME NEW j \in Jobs,
               Enqueue(j) \/ LeaseExpires(j) \/ LeaseStalls(j)
        PROVE  job[k].state = "new"
    BY <1>2, <2>9, SMTT(40) DEF Enqueue, LeaseExpires, LeaseStalls, AgeLease
  <2>10. ASSUME NEW j \in Jobs, CancelPendingTask(j) PROVE job[k].state = "new"
    BY <1>2, <2>10, SMTT(40) DEF CancelPendingTask, GoneRow
  <2> QED
    BY <2>1, <2>2, <2>3, <2>4, <2>5, <2>6, <2>7, <2>8, <2>9, <2>10, ZenonT(60)
    DEF vars, Next, ReplicaStep, DeliveryStep, JobStep, Resolved,
        Campaign, SessionExpires, SessionLost, NoticeLoss, Shutdown,
        TermEnds, Crash, Restart, ReclaimSkips, ReclaimRead, ClaimRead,
        ClaimFails, HandlerOk, HandlerErr, FenceRead, FenceGivesUp,
        BookkeepingFails, RenewRead, RenewLost, RenewFails, RenewerStops,
        CancelRead, CancelTerm
<1> QED
  BY <1>1, <1>2, ZenonT(20)


(* The queue's own steps, a claim, a return and a crash keep it too.       *)
LEMMA QueueLocal ==
    ASSUME IInv, TaskInv, [TNext]_allVars, UNCHANGED <<task, cseen, avm>>,
           \A e \in Deliveries :
              \/ h'[e] = h[e] \/ h'[e] = Off
              \/ h'[e].at = "entry" /\ h'[e].seen = h[e].seen
                 /\ h[e].at = "off" /\ job'[dlv'[e].job].state # "new"
    PROVE  HandlerRuns' /\ SuccessSound' /\ RowsHeld'
<1>1. IInv' /\ [Next]_vars
  BY QueueSimulated, NextIInv, SMTT(40)
<1>2. /\ \A j \in Jobs : job'[j].state = "new" => job[j].state = "new"
      /\ stalled \subseteq stalled'
  BY <1>1, QueueKeeps, SMTT(40)
<1>3. \A e \in Deliveries : h'[e].at # "off" =>
        dlv'[e].pc = "run" /\ dlv'[e].job = dlv[e].job /\ dlv'[e].job \in Jobs
  BY <1>1, HandlerHeld, ZenonT(60) DEF IInv, Shape, TaskInv
<1>4. \A j \in Jobs : job[j].state = "gone" => job'[j].state = "gone"
  BY <1>1, DoneStep, ZenonT(20) DEF StaysDone
<1> USE DEF TaskInv, HandlerRuns, Off, NoTask
<1>5. HandlerRuns'
  BY <1>2, <1>3, SMTT(40)
<1>6. SuccessSound'
  BY <1>3, SMTT(40) DEF SuccessSound, SuccessIsReal
<1>7. RowsHeld'
  BY <1>2, <1>3, <1>4, SMTT(40) DEF RowsHeld, PutStages
<1> QED
  BY <1>5, <1>6, <1>7, ZenonT(20)

-----------------------------------------------------------------------------
(* Types, and what the agent does                                          *)

(* The faults are counted up to their bound.                               *)
LEMMA FaultType ==
    ASSUME TaskTypeOK, UNCHANGED tfaults \/ TaskFault
    PROVE  tfaults' \in 0 .. MaxTaskFaults
BY TaskAssumptions DEF TaskTypeOK, TaskFault

(* A handler that moves on, with or without a copy of its row, is a        *)
(* handler.                                                                *)
LEMMA MoveType ==
    ASSUME TaskTypeOK, NEW d \in Deliveries, NEW s \in Stages,
           NEW row \in Task,
           h' = [h EXCEPT ![d].at = s, ![d].seen = row]
    PROVE  h' \in [Deliveries -> Handler]
<1>1. [h[d] EXCEPT !.at = s, !.seen = row] \in Handler
  BY ZenonT(60) DEF TaskTypeOK, Handler
<1>2. h' = [h EXCEPT ![d] = [h[d] EXCEPT !.at = s, !.seen = row]]
  BY Zenon
<1> QED
  BY <1>1, <1>2 DEF TaskTypeOK

(* So is one that takes up an agent task.                                  *)
LEMMA TakeType ==
    ASSUME TaskTypeOK, NEW d \in Deliveries, NEW s \in Stages,
           NEW i \in AgentIds \cup {NoAgent},
           h' = [h EXCEPT ![d].aid = i, ![d].at = s]
    PROVE  h' \in [Deliveries -> Handler]
<1>1. [h[d] EXCEPT !.aid = i, !.at = s] \in Handler
  BY ZenonT(60) DEF TaskTypeOK, Handler
<1>2. h' = [h EXCEPT ![d] = [h[d] EXCEPT !.aid = i, !.at = s]]
  BY Zenon
<1> QED
  BY <1>1, <1>2 DEF TaskTypeOK

(* A row with another status, or another agent task, is a row.             *)
LEMMA RowType ==
    /\ NoTask \in Task
    /\ \A row \in Task, s \in TaskStatus : [row EXCEPT !.status = s] \in Task
    /\ \A row \in Task, i \in AgentIds \cup {NoAgent} :
         [row EXCEPT !.agent = i] \in Task
BY DEF Task, NoTask, TaskStatus, NoAgent

(* No handler, and one that has just been started.                         *)
LEMMA OffType ==
    ASSUME TaskTypeOK
    PROVE  /\ Off \in Handler
           /\ \A d \in Deliveries : [h[d] EXCEPT !.at = "entry"] \in Handler
BY RowType, ZenonT(60) DEF TaskTypeOK, Off, Handler, Stages, NoAgent

(* A request and the agent's own steps keep the types.                     *)
LEMMA RequestTypes ==
    ASSUME TaskTypeOK, NEW j \in Jobs,
           \/ EnqueueTask(j) \/ CancelTaskRead(j) \/ CancelJobRead(j)
           \/ CancelCommit(j) \/ CancelRefused(j)
           \/ AgentBegins(j) \/ AgentEnds(j) \/ AgentRestarts(j)
    PROVE  TaskTypeOK'
<1> USE TaskAssumptions DEF TaskTypeOK, TaskStatus, Stages, tvars, agentVars,
                             NoAgent
<1>1. CASE EnqueueTask(j)
  BY <1>1, RowType, Zenon DEF EnqueueTask
<1>2. CASE CancelTaskRead(j)
  BY <1>2, RowType, Zenon DEF CancelTaskRead
<1>3. CASE CancelJobRead(j)
  BY <1>3 DEF CancelJobRead
<1>4. CASE CancelCommit(j)
  BY <1>4, RowType, Zenon DEF CancelCommit
<1>5. CASE CancelRefused(j)
  BY <1>5, RowType, Zenon DEF CancelRefused
<1>6. CASE AgentBegins(j)
  BY <1>6, SMTT(40) DEF AgentBegins
<1>7. CASE AgentEnds(j)
  <2>1. orig[j] \in AgentIds
    BY <1>7, SMTT(40) DEF AgentEnds, AgentIds
  <2>2. avm' \in [Jobs -> {"absent", "pending", "creating", "running",
                           "failed"}]
    BY <1>7 DEF AgentEnds
  <2>3. \E v \in {"success", "failed"} :
          atask' = [atask EXCEPT ![j] = [@ EXCEPT ![orig[j]] = v]]
    BY <1>7, Zenon DEF AgentEnds
  <2>4. atask' \in [Jobs -> [AgentIds ->
                      {"none", "running", "success", "failed", "lost"}]]
    BY <2>1, <2>3, SMTT(40)
  <2> QED
    BY <1>7, <2>2, <2>4, ZenonT(20) DEF AgentEnds
<1>8. CASE AgentRestarts(j)
  BY <1>8, SMTT(40) DEF AgentRestarts, TaskFault
<1> QED
  BY <1>1, <1>2, <1>3, <1>4, <1>5, <1>6, <1>7, <1>8

(* So do a handler's steps, up to the agent task it polls, *)
LEMMA StartTypes ==
    ASSUME TaskTypeOK, HandlerRuns, NEW d \in Deliveries,
           \/ UpdateTaskRunning(d) \/ MarkRunning(d) \/ LoadOk(d)
           \/ LoadFails(d) \/ PostVMCreate(d) \/ PostFails(d)
           \/ StampRead(d) \/ UpdateTaskAgentTaskID(d) \/ PollTask(d)
    PROVE  TaskTypeOK'
<1>a. /\ h[d].seen \in Task /\ h[d].aid \in AgentIds \cup {NoAgent}
      /\ h[d].at # "off" => dlv[d].job \in Jobs
  BY Zenon DEF TaskTypeOK, HandlerRuns, Handler
<1>b. \A j \in Jobs : task[j].agent \in AgentIds \cup {NoAgent}
  BY SMTT(40) DEF TaskTypeOK, Task
<1> USE TaskAssumptions DEF TaskTypeOK, TaskStatus, Stages, tvars, agentVars,
                             NoAgent
<1>1. CASE UpdateTaskRunning(d)
  BY <1>1, <1>a, MoveType, RowType, ZenonT(60)
  DEF UpdateTaskRunning, Go, Hold, Reading, isCommittedTerminal
<1>2. CASE MarkRunning(d)
  BY <1>2, <1>a, MoveType, RowType, Zenon DEF MarkRunning, Go, Put, Writing
<1>3. CASE LoadOk(d)
  <2> DEFINE i == task[dlv[d].job].agent
             s == IF i = NoAgent THEN "post" ELSE "poll"
  <2>1. i \in AgentIds \cup {NoAgent} /\ s \in Stages
    BY <1>3, <1>a, <1>b, ZenonT(20) DEF LoadOk, Reading
  <2>2. h' = [h EXCEPT ![d].aid = i, ![d].at = s]
    BY <1>3, SMTT(40) DEF LoadOk
  <2>3. h' \in [Deliveries -> Handler]
    <3> HIDE DEF i, s
    <3> QED
      BY <2>1, <2>2, TakeType, ZenonT(60)
  <2> QED
    BY <1>3, <2>3, ZenonT(20) DEF LoadOk
<1>4. CASE LoadFails(d)
  <2>1. tfaults' \in 0 .. MaxTaskFaults
    BY <1>4, FaultType, Zenon DEF LoadFails
  <2>2. Go(d, "failed") \/ Go(d, "terminal")
    BY <1>4 DEF LoadFails
  <2>3. h' \in [Deliveries -> Handler]
    BY <2>2, MoveType, RowType, Zenon DEF Go
  <2>4. UNCHANGED <<task, cseen, agentVars, aborted>>
    BY <1>4, <1>a, ZenonT(20) DEF LoadFails, StoreStages
  <2> QED
    BY <2>1, <2>3, <2>4
<1>5. CASE PostVMCreate(d)
  <2> DEFINE j == dlv[d].job
             i == IF orig'[j] # 0 THEN orig'[j] ELSE NewId(j)
  <2>1. j \in Jobs /\ Create(j)
    BY <1>5, <1>a, ZenonT(20) DEF PostVMCreate, Reading
  <2>2. i \in AgentIds
    BY <2>1, CreateType
  <2>3. h' = [h EXCEPT ![d].aid = i, ![d].at = "stamp"]
    BY <1>5, ZenonT(60) DEF PostVMCreate
  <2>4. h' \in [Deliveries -> Handler]
    <3> HIDE DEF i
    <3> QED
      BY <2>2, <2>3, TakeType, Zenon
  <2> QED
    BY <1>5, <2>1, <2>4, CreateType, SMTT(40) DEF PostVMCreate
<1>6. CASE PostFails(d)
  <2>1. tfaults' \in 0 .. MaxTaskFaults
    BY <1>6, FaultType, Zenon DEF PostFails
  <2>2. h' \in [Deliveries -> Handler]
    BY <1>6, MoveType, RowType, ZenonT(60) DEF PostFails, Go
  <2>3. dlv[d].job \in Jobs
    BY <1>6, <1>a, ZenonT(60) DEF PostFails, Writing
  <2>4. CASE Create(dlv[d].job)
    BY <1>6, <2>1, <2>2, <2>3, <2>4, CreateType, ZenonT(20) DEF PostFails
  <2>5. CASE UNCHANGED agentVars
    BY <1>6, <2>1, <2>2, <2>5, SMTT(40) DEF PostFails
  <2> QED
    BY <1>6, <2>4, <2>5 DEF PostFails
<1>7. CASE StampRead(d)
  BY <1>7, <1>a, MoveType, RowType, ZenonT(60) DEF StampRead, Hold, Reading
<1>8. CASE UpdateTaskAgentTaskID(d)
  BY <1>8, <1>a, MoveType, RowType, ZenonT(60)
  DEF UpdateTaskAgentTaskID, Go, Put, Writing
<1>9. CASE PollTask(d)
  BY <1>9, <1>a, MoveType, RowType, ZenonT(60) DEF PollTask, Go, Reading
<1> QED
  BY <1>1, <1>2, <1>3, <1>4, <1>5, <1>6, <1>7, <1>8, <1>9, ZenonT(20)

(* and from there to the final status.                                     *)
LEMMA FinishTypes ==
    ASSUME TaskTypeOK, HandlerRuns, NEW d \in Deliveries,
           \/ PollFails(d) \/ ClearRead(d) \/ ClearTaskAgentTaskID(d)
           \/ FinalRead(d) \/ ProjectVMCreateSuccess(d) \/ ProjectRetries(d)
           \/ finalizeFailed(d) \/ StoreFails(d)
    PROVE  TaskTypeOK'
<1>a. /\ h[d].seen \in Task /\ h[d].aid \in AgentIds \cup {NoAgent}
      /\ h[d].at # "off" => dlv[d].job \in Jobs
  BY Zenon DEF TaskTypeOK, HandlerRuns, Handler
<1> USE TaskAssumptions DEF TaskTypeOK, TaskStatus, Stages, tvars, agentVars,
                             NoAgent
<1>1. CASE PollFails(d)
  <2>1. tfaults' \in 0 .. MaxTaskFaults
    BY <1>1, FaultType, Zenon DEF PollFails
  <2>2. Go(d, "failed")
    BY <1>1, SMTT(40) DEF PollFails
  <2>3. h' \in [Deliveries -> Handler]
    BY <2>2, MoveType, RowType, Zenon DEF Go
  <2>4. UNCHANGED <<task, cseen, agentVars, aborted>>
    BY <1>1, <1>a, SMTT(40) DEF PollFails, StoreStages
  <2> QED
    BY <2>1, <2>3, <2>4
<1>2. CASE ClearRead(d)
  BY <1>2, <1>a, MoveType, RowType, ZenonT(60) DEF ClearRead, Hold, Reading
<1>3. CASE ClearTaskAgentTaskID(d)
  BY <1>3, <1>a, MoveType, RowType, Zenon
  DEF ClearTaskAgentTaskID, Go, Put, Writing
<1>4. CASE FinalRead(d)
  <2>1. PICK s \in Stages : Hold(d, s)
    BY <1>4, FinalStages, ZenonT(20)
  <2>2. task[dlv[d].job] \in Task
    BY <1>4, <1>a, FinalStages, ZenonT(20) DEF Reading
  <2>3. h' \in [Deliveries -> Handler]
    BY <2>1, <2>2, MoveType, ZenonT(60) DEF Hold
  <2> QED
    BY <1>4, <2>3, ZenonT(20) DEF FinalRead
<1>5. CASE ProjectVMCreateSuccess(d)
  BY <1>5, <1>a, MoveType, RowType, ZenonT(60)
  DEF ProjectVMCreateSuccess, Go, Put, Writing
<1>6. CASE ProjectRetries(d)
  BY <1>6, <1>a, MoveType, RowType, ZenonT(60) DEF ProjectRetries, Go, Writing
<1>7. CASE finalizeFailed(d)
  BY <1>7, <1>a, MoveType, RowType, Zenon DEF finalizeFailed, Go, Put, Writing
<1>8. CASE StoreFails(d)
  <2>1. tfaults' \in 0 .. MaxTaskFaults
    BY <1>8, FaultType, Zenon DEF StoreFails
  <2>2. Go(d, "failed") \/ Go(d, "err")
    BY <1>8, ZenonT(60) DEF StoreFails
  <2>3. h' \in [Deliveries -> Handler]
    BY <2>2, MoveType, RowType, ZenonT(60) DEF Go
  <2>4. UNCHANGED <<task, cseen, agentVars>> /\ aborted' \subseteq Jobs
    BY <1>8, <1>a, ZenonT(60) DEF StoreFails, StoreStages
  <2> QED
    BY <2>1, <2>3, <2>4, SMTT(40)
<1> QED
  BY <1>1, <1>2, <1>3, <1>4, <1>5, <1>6, <1>7, <1>8, ZenonT(20)

(* Every step of the task layer keeps its types.                           *)
LEMMA TaskTypeStep ==
    TaskTypeOK /\ HandlerRuns /\ [TNext]_allVars => TaskTypeOK'
<1> SUFFICES ASSUME TaskTypeOK, HandlerRuns, [TNext]_allVars PROVE TaskTypeOK'
  OBVIOUS
<1>1. ASSUME NEW d \in Deliveries, Claims(d) PROVE TaskTypeOK'
  <2>1. h' = [h EXCEPT ![d] = [h[d] EXCEPT !.at = "entry"]]
    BY <1>1 DEF Claims
  <2> QED
    BY <1>1, <2>1, OffType, SMTT(40) DEF Claims, TaskTypeOK, agentVars
<1>2. ASSUME NEW d \in Deliveries, Returns(d) PROVE TaskTypeOK'
  BY <1>2, OffType, SMTT(40) DEF Returns, TaskTypeOK, agentVars
<1>3. ASSUME NEW r \in Replicas, ReplicaDies(r) PROVE TaskTypeOK'
  BY <1>3, OffType, ZenonT(20) DEF ReplicaDies, TaskTypeOK, agentVars
<1>4. CASE QueueStep \/ UNCHANGED allVars
  BY <1>4, SMTT(40) DEF QueueStep, allVars, tvars, TaskTypeOK
<1> QED
  BY <1>1, <1>2, <1>3, <1>4, RequestTypes, StartTypes, FinishTypes, ZenonT(20)
  DEF TNext, HandlerStep

(* The agent materialises a VM once, and reports success for a running one. *)
LEMMA AgentSoundStep ==
    TaskTypeOK /\ HandlerRuns /\ AgentSound /\ [TNext]_allVars => AgentSound'
<1> SUFFICES ASSUME TaskTypeOK, HandlerRuns, AgentSound, [TNext]_allVars
             PROVE  AgentSound'
  BY SMTT(40)
<1> USE TaskAssumptions DEF AgentSound, TaskTypeOK, AgentIds
<1>1. CASE UNCHANGED agentVars
  BY <1>1, ZenonT(20) DEF agentVars
<1>2. ASSUME NEW j \in Jobs, Create(j) PROVE AgentSound'
  BY <1>2, SMTT(40) DEF Create, idempotentCreateResult, agentVars
<1>3. ASSUME NEW j \in Jobs, AgentBegins(j) PROVE AgentSound'
  BY <1>3, SMTT(40) DEF AgentBegins
<1>4. ASSUME NEW j \in Jobs, AgentEnds(j) PROVE AgentSound'
  <2>1. orig[j] \in AgentIds
    BY <1>4, SMTT(40) DEF AgentEnds
  <2>2. CASE /\ avm' = [avm EXCEPT ![j] = "running"]
             /\ atask' = [atask EXCEPT ![j][orig[j]] = "success"]
    BY <1>4, <2>1, <2>2, ZenonT(20) DEF AgentEnds
  <2>3. CASE /\ avm' = [avm EXCEPT ![j] = "failed"]
             /\ atask' = [atask EXCEPT ![j][orig[j]] = "failed"]
    BY <1>4, <2>1, <2>3, ZenonT(20) DEF AgentEnds
  <2> QED
    BY <1>4, <2>2, <2>3, ZenonT(20) DEF AgentEnds
<1>5. ASSUME NEW j \in Jobs, AgentRestarts(j) PROVE AgentSound'
  BY <1>5, SMTT(40) DEF AgentRestarts
<1>6. ASSUME NEW d \in Deliveries, PostVMCreate(d) \/ PostFails(d)
      PROVE  UNCHANGED agentVars \/ (dlv[d].job \in Jobs /\ Create(dlv[d].job))
  BY <1>6, SMTT(40) DEF PostVMCreate, PostFails, HandlerRuns, Reading, Writing
<1> QED
  BY <1>1, <1>2, <1>3, <1>4, <1>5, <1>6, ZenonT(60)
  DEF TNext, HandlerStep, EnqueueTask, CancelTaskRead, CancelJobRead,
      CancelCommit, CancelRefused, UpdateTaskRunning, MarkRunning, LoadOk,
      LoadFails, StampRead, UpdateTaskAgentTaskID, PollTask, PollFails,
      ClearRead, ClearTaskAgentTaskID, FinalRead, ProjectVMCreateSuccess,
      ProjectRetries, finalizeFailed, StoreFails, Claims, Returns,
      ReplicaDies, QueueStep, allVars, tvars, agentVars

-----------------------------------------------------------------------------
(* The invariant, and what follows from it                                 *)

(* The invariant holds initially, and every step keeps it.                 *)
LEMMA TaskInvInit == TInit => TaskInv
<1> SUFFICES ASSUME TInit PROVE TaskInv
  BY SMTT(40)
<1> USE TaskAssumptions DEF TInit
<1>1. NoTask \in Task
  BY ZenonT(20) DEF NoTask, Task, TaskStatus, NoAgent
<1>2. Off \in Handler
  BY <1>1, ZenonT(20) DEF Off, Handler, Stages, NoAgent
<1>3. TaskTypeOK
  BY <1>1, <1>2, SMTT(40) DEF TaskTypeOK
<1>4. AgentSound /\ HandlerRuns /\ SuccessSound /\ RowsHeld
  BY Zenon DEF AgentSound, HandlerRuns, SuccessSound, SuccessIsReal, RowsHeld,
         PutStages, Off, NoTask, AgentIds
<1> QED
  BY <1>3, <1>4 DEF TaskInv

(* Every step of the queue, the handlers, the agent and a cancel keeps it. *)
LEMMA TaskInvStep == IInv /\ TaskInv /\ [TNext]_allVars => TaskInv'
<1> SUFFICES ASSUME IInv, TaskInv, [TNext]_allVars PROVE TaskInv'
  OBVIOUS
<1>1. TaskTypeOK'
  BY TaskTypeStep DEF TaskInv
<1>2. AgentSound'
  BY AgentSoundStep, ZenonT(20) DEF TaskInv
<1>3. HandlerRuns' /\ SuccessSound' /\ RowsHeld'
  <2>1. CASE UNCHANGED allVars \/ QueueStep
    BY <2>1, QueueLocal, Zenon DEF allVars, QueueStep, tvars
  <2>2. ASSUME NEW j \in Jobs,
               \/ EnqueueTask(j) \/ CancelTaskRead(j) \/ CancelJobRead(j)
               \/ CancelCommit(j) \/ CancelRefused(j)
               \/ AgentBegins(j) \/ AgentEnds(j) \/ AgentRestarts(j)
        PROVE  HandlerRuns' /\ SuccessSound' /\ RowsHeld'
    BY <2>2, RequestStep, ZenonT(20)
  <2>3. ASSUME NEW d \in Deliveries, HandlerStep(d)
        PROVE  HandlerRuns' /\ SuccessSound' /\ RowsHeld'
    BY <2>3, HandlerLocal, LocalSuffices, SMTT(40)
  <2>4. ASSUME NEW d \in Deliveries, Claims(d)
        PROVE  HandlerRuns' /\ SuccessSound' /\ RowsHeld'
    <3>1. /\ dlv[d].pc # "run" /\ dlv'[d].job = dlv[d].job
          /\ job'[dlv[d].job].state # "new"
      <4>1. dlv[d].job \in Jobs /\ job[dlv[d].job] \in Job
        BY <2>4 DEF Claims, ClaimWins, IInv, Shape, TypeOK
      <4>2. /\ dlv[d].pc = "claim" /\ dlv' = [dlv EXCEPT ![d].pc = "run"]
            /\ job' = [job EXCEPT ![dlv[d].job] = ClaimedRow(d, dlv[d].job)]
        BY <2>4, SMTT(40) DEF Claims, ClaimWins, Write
      <4>3. ClaimedRow(d, dlv[d].job).state = "running"
        BY <4>1, SMTT(40) DEF ClaimedRow, Job
      <4>4. dlv'[d].job = dlv[d].job
        BY <4>2, ZenonT(20) DEF IInv, TypeOK, Delivery
      <4> QED
        BY <4>1, <4>2, <4>3, <4>4, ZenonT(20) DEF IInv, TypeOK
    <3>2. h[d].at = "off"
      BY <3>1, SMTT(40) DEF TaskInv, HandlerRuns
    <3>3. /\ h'[d].at = "entry" /\ h'[d].seen = h[d].seen
          /\ \A e \in Deliveries \ {d} : h'[e] = h[e]
      BY <2>4, ZenonT(20) DEF Claims, TaskInv, TaskTypeOK, Handler
    <3> QED
      BY <2>4, <3>1, <3>2, <3>3, QueueLocal, SMTT(40) DEF Claims, agentVars
  <2>5. ASSUME NEW d \in Deliveries, Returns(d)
        PROVE  HandlerRuns' /\ SuccessSound' /\ RowsHeld'
    <3>1. \A e \in Deliveries : h'[e] = h[e] \/ h'[e] = Off
      BY <2>5, ZenonT(20) DEF Returns, TaskInv, TaskTypeOK
    <3> QED
      BY <2>5, <3>1, QueueLocal, ZenonT(20) DEF Returns, agentVars
  <2>6. ASSUME NEW r \in Replicas, ReplicaDies(r)
        PROVE  HandlerRuns' /\ SuccessSound' /\ RowsHeld'
    <3>1. \A e \in Deliveries : h'[e] = h[e] \/ h'[e] = Off
      BY <2>6 DEF ReplicaDies
    <3> QED
      BY <2>6, <3>1, QueueLocal, ZenonT(20) DEF ReplicaDies, agentVars
  <2> QED
    BY <2>1, <2>2, <2>3, <2>4, <2>5, <2>6, ZenonT(20) DEF TNext
<1> QED
  BY <1>1, <1>2, <1>3, SMTT(40) DEF TaskInv

(* The queue's invariant and the tasks' hold together in every state.      *)
THEOREM TaskInvariant == TSpec => [](IInv /\ TaskInv)
<1>1. TInit => IInv /\ TaskInv
  BY InitIInv, TaskInvInit, SMTT(40) DEF TInit
<1>2. IInv /\ TaskInv /\ [TNext]_allVars => (IInv /\ TaskInv)'
  BY QueueSimulated, NextIInv, TaskInvStep, SMTT(40)
<1> QED
  BY <1>1, <1>2, PTL DEF TSpec

(* A create is carried out once: however many deliveries, lost answers,    *)
(* crashes and agent restarts there are, qemu is spawned for it at most    *)
(* one time (runCreate, Create).                                           *)
THEOREM SpawnedOnce == TSpec => []OneSpawn
<1>1. TaskInv => OneSpawn
  BY SMTT(40) DEF TaskInv, AgentSound, OneSpawn
<1> QED
  BY <1>1, TaskInvariant, PTL

(* A task that reports success has a running VM on its agent, even when a  *)
(* stalled worker or a cancel writes back an old copy of its row.          *)
THEOREM SuccessTrue == TSpec => []SuccessIsReal
<1>1. TaskInv => SuccessIsReal
  BY DEF TaskInv, SuccessSound
<1> QED
  BY <1>1, TaskInvariant, PTL

(* CancelPendingTask and the claim exclude each other: unless its lease    *)
(* lapsed under a worker, a cancelled task has no job and no handler.      *)
THEOREM CancelledNeverRuns == TSpec => []CancelExcludesRun
<1>1. IInv /\ TaskInv => CancelExcludesRun
  BY DEF TaskInv, RowsHeld, IInv, Owned, Active, OwnClaim, CancelExcludesRun
<1> QED
  BY <1>1, TaskInvariant, PTL

(* A committed status is final: no redelivery, crash or retry reopens a    *)
(* task that said success or cancelled, but for a stalled lease or a       *)
(* cancel request that still holds an older copy.                          *)
THEOREM CommittedIsFinal == TSpec => CommittedStays
<1>1. TaskInv /\ [TNext]_allVars =>
        [\A j \in Jobs :
           /\ isCommittedTerminal(task[j].status)
           /\ j \notin stalled /\ cseen[j] = NoTask
           => task'[j].status = task[j].status]_allVars
  BY CommittedStep
<1> QED
  BY <1>1, TaskInvariant, PTL DEF TSpec, CommittedStays

=============================================================================
