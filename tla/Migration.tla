----------------------------- MODULE Migration ------------------------------
(***************************************************************************)
(* One migration of one VM, end to end: the row and the cutover of         *)
(* internal/etcdstore/migrations.go, the worker's saga in                  *)
(* internal/api/handlers/migrations/run.go, the cancel request of          *)
(* cancel.go, and both agents (internal/agent/vm/migrations.go and         *)
(* migrations_live.go over internal/agent/qemu/miglive.go) with the VM     *)
(* reconciler of internal/agent/reconciler/vms.go.                         *)
(*                                                                         *)
(* The target node is bound and the VM is wanted running.  One delivery of *)
(* the job runs at a time (JobQueue covers two).  Writers of the row       *)
(* compare its revision, so each is one step except the cutover, whose     *)
(* read and commit are apart: fresh says whether its read is still good.   *)
(***************************************************************************)
EXTENDS Naturals

CONSTANTS
    Modes,       \* the modes a migration may have: TRUE is live
    MayCancel,   \* whether an operator may cancel it
    MaxRetries,  \* bound on the job's retries
    MaxFaults    \* bound on lost calls, crashes, restarts and timeouts

ASSUME MigrationAssumptions ==
    /\ Modes \subseteq BOOLEAN /\ MayCancel \in BOOLEAN
    /\ MaxRetries \in Nat /\ MaxFaults \in Nat

VARIABLES
    live,     \* the migration's mode
    mig,      \* the phase of the row under /migrations/
    pin,      \* the node the VM row is pinned to
    task,     \* the status of the backing task
    stamped,  \* the task row carries the source's agent task id
    job,      \* the queue's view of the job
    left,     \* retries left
    w,        \* the worker's stage
    seen,     \* the phase it loaded
    after,    \* what it does once the target is reaped
    fresh,    \* no one wrote the row since the cutover read it
    api,      \* the cancel request's stage
    src,      \* the source's copy of the guest
    srec,     \* the source's migration record
    stask,    \* its outgoing task
    sgo,      \* its push goroutine
    declS,    \* its last heartbeat response declares the VM there
    tgt,      \* the target's copy of the guest
    tfull,    \* the target's disk has everything
    trec,     \* the target's migration record
    tgo,      \* its resume goroutine
    declT,    \* its last heartbeat response declares the VM there
    killed,   \* history: a handed-off target copy was torn down
    blind,    \* history: the source's record stopped following its push
    faults    \* faults so far

cp == <<live, mig, pin, task, stamped, job, left>>
worker == <<w, seen, after, fresh>>
source == <<src, srec, stask, sgo, declS>>
target == <<tgt, tfull, trec, tgo, declT>>
hist == <<killed, blind>>
vars == <<cp, worker, api, source, target, hist, faults>>

-----------------------------------------------------------------------------
Terminal == {"completed", "failed", "cancelled"}
Phases == {"pending", "setup", "active"} \cup Terminal

Stages == {"idle", "setup", "check", "incoming", "outgoing", "stamp",
           "active", "poll", "probe", "reload", "reap", "fail", "failed",
           "cancelled", "final", "cpoll", "cprobe", "load", "txn", "success",
           "start", "delete", "finish"}

(* A record's setup and active phases are one here: neither is terminal. *)
Records == {"none", "busy"} \cup Terminal

Init ==
    /\ live \in Modes
    /\ mig = "pending" /\ pin = "src" /\ task = "pending" /\ stamped = FALSE
    /\ job = "ready" /\ left = MaxRetries
    /\ w = "idle" /\ seen = "pending" /\ after = "fail" /\ fresh = FALSE
    /\ api = "off"
    /\ src = "running" /\ srec = "none" /\ stask = "none" /\ sgo = "off"
    /\ declS = TRUE
    /\ tgt = "none" /\ tfull = FALSE /\ trec = "none" /\ tgo = "off" /\ declT = FALSE
    /\ killed = FALSE /\ blind = FALSE /\ faults = 0

Fault == faults < MaxFaults /\ faults' = faults + 1

(* UpdateMigrationProgress: a terminal row refuses the write. *)
Advance(phase) == mig' = IF mig \in Terminal THEN mig ELSE phase

(* The worker moves to stage s. *)
To(s) == w' = s /\ UNCHANGED <<seen, after, fresh>>

ReapThen(s) == w' = "reap" /\ after' = s /\ UNCHANGED <<seen, fresh>>

(* It loads the row and moves on. *)
Load(s) == w' = s /\ seen' = mig /\ UNCHANGED <<after, fresh>>

(* The handler returns nil, and the job is done. *)
Done == To("idle") /\ job' = "gone"

(* The handler returns an error with the task at status ts. *)
Retry(ts) ==
    /\ To("idle") /\ task' = ts
    /\ job' = IF left > 0 THEN "ready" ELSE "dead"
    /\ left' = IF left > 0 THEN left - 1 ELSE left
    /\ UNCHANGED <<mig, pin, stamped>>

-----------------------------------------------------------------------------
(* What the agents do when they are called. *)

(* StartIncoming: a migration already prepared here is replayed; a copy    *)
(* without a record makes the adopt fail "already present".                *)
IncomingAccepted == src # "gone" /\ (trec # "none" \/ tgt = "none")

StartIncoming ==
    /\ IF trec # "none" THEN UNCHANGED <<tgt, trec, tgo>>
       ELSE /\ trec' = "busy"
            /\ tgt' = IF live THEN "incoming" ELSE "stopped"
            /\ tgo' = IF live THEN "wait" ELSE "off"
    /\ UNCHANGED <<tfull, declT>>

(* StartOutgoing: a migration already started here replays its task. *)
OutgoingAccepted == srec # "none" \/ src # "gone"

StartOutgoing ==
    /\ IF srec # "none" THEN UNCHANGED <<srec, stask, sgo>>
       ELSE srec' = "busy" /\ stask' = "running" /\ sgo' = "push"
    /\ UNCHANGED <<src, declS>>

(* Mutant: a guest that was sent is continued here too. *)
MigrateCancelledConts == IF src \in {"paused", "sent"} THEN "running" ELSE src

(* qmp migrate_cancel resumes a guest paused at pre-switchover; a guest    *)
(* that was sent stays stopped.                                            *)
MigrateCancelled == IF src = "paused" THEN "running" ELSE src

(* CancelMigration on the source.  A live push is aborted through QMP when *)
(* the dial works and there is a job or a stream to cancel; otherwise, and *)
(* offline, it runs on under a record that says cancelled.                 *)
CancelSource ==
    /\ IF srec # "busy" THEN UNCHANGED <<src, srec, sgo, blind>>
       ELSE /\ srec' = "cancelled"
            /\ \/ /\ live /\ sgo \in {"push", "paused"}
                  /\ src' = MigrateCancelled /\ sgo' = "aborted"
                  /\ UNCHANGED blind
               \/ blind' = TRUE /\ UNCHANGED <<src, sgo>>
    /\ UNCHANGED <<stask, declS>>

(* CancelMigration on the target.  A live one is torn down, disk and all,  *)
(* unless its cached status already says running; an offline one only      *)
(* stops its server.                                                       *)
CancelTarget ==
    IF trec # "busy" \/ (live /\ tgo = "running")
    THEN UNCHANGED <<target, killed>>
    ELSE /\ trec' = "cancelled"
         /\ IF live
            THEN /\ tgt' = "none" /\ tfull' = FALSE
                 /\ killed' = (killed \/ tgt \in {"loaded", "running"})
            ELSE UNCHANGED <<tgt, tfull, killed>>
         /\ UNCHANGED <<tgo, declT>>

(* A start on the target first releases the incoming server. *)
StartOnTarget ==
    /\ IF tgt = "stopped"
       THEN tgt' = "running" /\ trec' = IF trec = "busy" THEN "none" ELSE trec
       ELSE UNCHANGED <<tgt, trec>>
    /\ UNCHANGED <<tfull, tgo, declT>>

-----------------------------------------------------------------------------
(* The worker: runMigration and driveHandshake. *)

Deliver ==
    /\ job = "ready" /\ w = "idle"
    /\ IF task \in {"success", "cancelled"}
       THEN Done /\ UNCHANGED task
       ELSE /\ job' = "taken" /\ task' = "running"
            /\ Load(IF mig \in Terminal THEN "final"
                    ELSE IF stamped THEN "active" ELSE "setup")
    /\ UNCHANGED <<mig, pin, stamped, left, api, source, target, hist, faults>>

AdvanceSetup ==
    /\ w = "setup" /\ Advance("setup") /\ To("check")
    /\ UNCHANGED <<pin, task, stamped, job, left, api, source, target, hist,
                   faults>>

Recheck ==
    /\ w = "check"
    /\ Load(IF mig \in Terminal THEN "final" ELSE "incoming")
    /\ UNCHANGED <<cp, api, source, target, hist, faults>>

PrepareTarget ==
    /\ w = "incoming" /\ IncomingAccepted /\ StartIncoming
    /\ \/ To("outgoing") /\ UNCHANGED <<cp, faults>>
       \/ Retry("failed") /\ Fault
    /\ UNCHANGED <<api, source, hist>>

StartSource ==
    /\ w = "outgoing" /\ OutgoingAccepted /\ StartOutgoing
    /\ \/ To("stamp") /\ UNCHANGED <<cp, faults>>
       \/ Retry("failed") /\ Fault
    /\ UNCHANGED <<api, target, hist>>

(* failSetup: the call is refused for a passing reason, or does not get    *)
(* through; or the target keeps something no retry removes.                *)
SetupFails ==
    /\ \/ w = "incoming" /\ ~IncomingAccepted /\ UNCHANGED faults
       \/ w = "outgoing" /\ ~OutgoingAccepted /\ UNCHANGED faults
       \/ w \in {"incoming", "outgoing", "stamp"} /\ Fault
    /\ Retry("failed")
    /\ UNCHANGED <<api, source, target, hist>>

SetupRefused ==
    /\ w = "incoming" /\ trec = "none" /\ tgt = "none" /\ Fault
    /\ To("fail")
    /\ UNCHANGED <<cp, api, source, target, hist>>

StampTask ==
    /\ w = "stamp" /\ stamped' = TRUE /\ To("active")
    /\ UNCHANGED <<mig, pin, task, job, left, api, source, target, hist, faults>>

AdvanceActive ==
    /\ w = "active" /\ Advance("active") /\ To("poll")
    /\ UNCHANGED <<pin, task, stamped, job, left, api, source, target, hist,
                   faults>>

(* Mutant: a task the source does not know is polled for ever. *)
pollOutgoingWaits ==
    /\ w = "poll"
    /\ \/ stask = "success" /\ To("load")
       \/ stask = "failed" /\ To("reload")
    /\ UNCHANGED <<cp, api, source, target, hist, faults>>

pollOutgoing ==
    /\ w = "poll"
    /\ \/ stask = "success" /\ To("load")
       \/ stask = "failed" /\ To("reload")
       \/ stask = "lost" /\ live /\ To("probe")
       \/ stask = "lost" /\ ~live /\ ReapThen("fail")
    /\ UNCHANGED <<cp, api, source, target, hist, faults>>

(* The poll fails, or its budget is spent while the push still runs. *)
PollFails ==
    /\ w = "poll" /\ Fault
    /\ Retry("failed") \/ (stask = "running" /\ Retry(task))
    /\ UNCHANGED <<api, source, target, hist>>

(* The source's task failed: was that our own cancel? *)
SourceFailed ==
    /\ w = "reload"
    /\ IF mig \in Terminal THEN Load("final") ELSE ReapThen("fail")
    /\ UNCHANGED <<cp, api, source, target, hist, faults>>

(* reconcileVanishedSourceTask: the target's record decides. *)
reconcileVanishedSourceTask ==
    /\ w = "probe"
    /\ \/ trec = "none" /\ Retry(task)
       \/ trec = "completed" /\ To("load") /\ UNCHANGED cp
       \/ trec \in {"busy", "failed", "cancelled"} /\ ReapThen("fail")
          /\ UNCHANGED cp
    /\ UNCHANGED <<api, source, target, hist, faults>>

(* reapTargetIncoming and cancelTargetIncoming: best effort, then on. *)
reapTargetIncoming ==
    /\ w = "reap" /\ To(after)
    /\ \/ CancelTarget /\ UNCHANGED faults
       \/ Fault /\ UNCHANGED <<target, killed>>
    /\ UNCHANGED <<cp, api, source, blind>>

failMigration ==
    /\ w = "fail"
    /\ IF mig \in Terminal THEN Retry(task)
       ELSE /\ mig' = "failed" /\ To("failed")
            /\ UNCHANGED <<pin, task, stamped, job, left>>
    /\ UNCHANGED <<api, source, target, hist, faults>>

(* finalizeTask and finalizeFailed, and the success of a completed row. *)
finalizeTask ==
    /\ w \in {"failed", "cancelled", "finish"}
    /\ task' = IF w = "finish" THEN "success" ELSE w
    /\ Done
    /\ UNCHANGED <<mig, pin, stamped, left, api, source, target, hist, faults>>

(* Mutant: every cancel is final, as an offline one is. *)
finalizeWithoutSource ==
    /\ w = "final"
    /\ \/ seen = "completed" /\ To("finish")
       \/ seen = "failed" /\ ReapThen("failed")
       \/ seen = "cancelled" /\ ReapThen("cancelled")
    /\ UNCHANGED <<cp, api, source, target, hist, faults>>

finalizeForTerminalMigration ==
    /\ w = "final"
    /\ \/ seen = "completed" /\ To("finish")
       \/ seen = "failed" /\ ReapThen("failed")
       \/ seen = "cancelled" /\ ~live /\ ReapThen("cancelled")
       \/ seen = "cancelled" /\ live /\ To(IF stamped THEN "cpoll" ELSE "cprobe")
    /\ UNCHANGED <<cp, api, source, target, hist, faults>>

(* A cancelled live migration is decided by the source's task ... *)
reconcileCancelledMigration ==
    /\ w = "cpoll"
    /\ \/ stask = "success" /\ To("load") /\ UNCHANGED cp
       \/ stask = "failed" /\ ReapThen("cancelled") /\ UNCHANGED cp
       \/ stask = "lost" /\ Retry(task)
    /\ UNCHANGED <<api, source, target, hist, faults>>

(* ... or, when its id was never stored, by the source's record. *)
reconcileCancelledNoAgentTask ==
    /\ w = "cprobe"
    /\ \/ srec = "none" /\ To("cancelled") /\ UNCHANGED cp
       \/ srec = "completed" /\ To("load") /\ UNCHANGED cp
       \/ srec \in {"failed", "cancelled"} /\ ReapThen("cancelled")
          /\ UNCHANGED cp
       \/ srec = "busy" /\ Retry(task)
    /\ UNCHANGED <<api, source, target, hist, faults>>

(* loadCutoverState: a completed row is left alone, a failed one and an    *)
(* offline cancelled one are refused, a live cancelled one is overridden.  *)
cutoverRefused == mig = "failed" \/ (mig = "cancelled" /\ ~live)

loadCutoverState ==
    /\ w = "load"
    /\ IF mig = "completed" THEN To("success")
       ELSE IF cutoverRefused THEN Load("final")
       ELSE w' = "txn" /\ fresh' = TRUE /\ UNCHANGED <<seen, after>>
    /\ UNCHANGED <<cp, api, source, target, hist, faults>>

(* CommitMigrationCutover's transaction, and commitCutover's reading of a  *)
(* lost compare.                                                           *)
CommitMigrationCutover ==
    /\ w = "txn"
    /\ IF fresh
       THEN /\ mig' = "completed" /\ pin' = "tgt" /\ To("success")
            /\ UNCHANGED <<task, stamped, job, left>>
       ELSE IF mig = "completed" THEN To("success") /\ UNCHANGED cp
       ELSE IF cutoverRefused THEN Load("final") /\ UNCHANGED cp
       ELSE Retry(task)
    /\ UNCHANGED <<api, source, target, hist, faults>>

CutoverSucceeded ==
    /\ w = "success" /\ task' = "success" /\ To("start")
    /\ UNCHANGED <<mig, pin, stamped, job, left, api, source, target, hist,
                   faults>>

(* convergePostCutover: each call is best effort. *)
StartVMOnTarget ==
    /\ w = "start" /\ To("delete")
    /\ \/ (IF live THEN UNCHANGED target ELSE StartOnTarget) /\ UNCHANGED faults
       \/ Fault /\ UNCHANGED target
    /\ UNCHANGED <<cp, api, source, hist>>

DeleteVMOnSource ==
    /\ w = "delete" /\ Done
    /\ \/ src' = "gone" /\ UNCHANGED faults
       \/ Fault /\ UNCHANGED src
    /\ UNCHANGED <<mig, pin, task, stamped, left, api, srec, stask, sgo, declS,
                   target, hist>>

(* A store call or a probe fails: the error is returned as it is. *)
CallFails ==
    /\ w \in {"probe", "fail", "failed", "cancelled", "finish", "cpoll",
              "cprobe", "load", "txn", "success"}
    /\ Fault /\ Retry(task)
    /\ UNCHANGED <<api, source, target, hist>>

(* The worker's replica dies; the job is handed back. *)
WorkerDies ==
    /\ w # "idle" /\ Fault /\ To("idle") /\ job' = "ready"
    /\ UNCHANGED <<mig, pin, task, stamped, left, api, source, target, hist>>

Worker ==
    /\ UNCHANGED live
    /\ \/ Deliver \/ AdvanceSetup \/ Recheck \/ PrepareTarget \/ StartSource
       \/ SetupFails \/ SetupRefused \/ StampTask \/ AdvanceActive \/ pollOutgoing
       \/ PollFails \/ SourceFailed \/ reconcileVanishedSourceTask
       \/ reapTargetIncoming \/ failMigration \/ finalizeTask
       \/ finalizeForTerminalMigration \/ reconcileCancelledMigration
       \/ reconcileCancelledNoAgentTask \/ loadCutoverState
       \/ CommitMigrationCutover \/ CutoverSucceeded \/ StartVMOnTarget
       \/ DeleteVMOnSource \/ CallFails \/ WorkerDies

-----------------------------------------------------------------------------
(* The cancel request: the row, then the source, then the target. *)

CancelMigration ==
    /\ MayCancel /\ api = "off" /\ mig \notin Terminal
    /\ mig' = "cancelled" /\ fresh' = FALSE /\ api' = "source"
    /\ UNCHANGED <<live, pin, task, stamped, job, left, w, seen, after, source,
                   target, hist, faults>>

propagateCancel ==
    /\ \/ /\ api = "source" /\ api' = "target" /\ UNCHANGED <<target, killed>>
          /\ \/ CancelSource /\ UNCHANGED faults
             \/ Fault /\ UNCHANGED <<source, blind>>
       \/ /\ api = "target" /\ api' = "done" /\ UNCHANGED <<source, blind>>
          /\ \/ CancelTarget /\ UNCHANGED faults
             \/ Fault /\ UNCHANGED <<target, killed>>
    /\ UNCHANGED <<cp, worker>>

-----------------------------------------------------------------------------
(* The source agent: runOutgoing, and runOutgoingLive over RunLiveSource. *)

Streams == tgt = "incoming" /\ src \in {"running", "paused"}

(* Offline: force the guest off, then push the disk.  qemu-img needs the   *)
(* image's lock, and the target's server must still be there.              *)
PowerOff ==
    /\ ~live /\ sgo = "push" /\ sgo' = "cold"
    /\ src' = IF src = "running" THEN "off" ELSE src
    /\ UNCHANGED <<srec, stask, declS, tfull, blind, faults>>

BeginCopy ==
    /\ sgo = "cold" /\ src # "running" /\ sgo' = "copy"
    /\ UNCHANGED <<src, srec, stask, declS, tfull, blind, faults>>

EndCopy ==
    /\ sgo = "copy" /\ tgt = "stopped" /\ trec = "busy"
    /\ tfull' = TRUE /\ sgo' = "off" /\ srec' = "completed" /\ stask' = "success"
    /\ UNCHANGED <<src, declS, blind, faults>>

(* Live: mirror and pre-copy, then the guest pauses at pre-switchover. *)
Converge ==
    /\ live /\ sgo = "push" /\ Streams /\ src = "running"
    /\ src' = "paused" /\ sgo' = "paused"
    /\ UNCHANGED <<srec, stask, declS, tfull, blind, faults>>

(* An error anywhere before the switchover, a guest that an earlier push   *)
(* left stopped included: qemu drops the stream and the guest goes on      *)
(* here; the record and the task say failed.                               *)
PushFails ==
    /\ \/ sgo = "aborted" /\ UNCHANGED faults
       \/ sgo \in {"push", "paused"} /\ live /\ ~Streams /\ UNCHANGED faults
       \/ sgo = "push" /\ live /\ src # "running" /\ UNCHANGED faults
       \/ sgo = "cold" /\ src = "running" /\ UNCHANGED faults
       \/ sgo = "copy" /\ ~(tgt = "stopped" /\ trec = "busy") /\ UNCHANGED faults
       \/ sgo \in {"push", "paused", "cold", "copy"} /\ Fault
    /\ src' = IF live THEN MigrateCancelled ELSE src
    /\ sgo' = "off" /\ srec' = "failed" /\ stask' = "failed"
    /\ UNCHANGED <<declS, tfull, blind>>

(* The switchover happened and the source fails to see it: the completed   *)
(* event times out, or the confirming query-migrate errors.                *)
HandoffMissed ==
    /\ sgo = "sent" /\ Fault
    /\ sgo' = "off" /\ srec' = "failed" /\ stask' = "failed" /\ blind' = TRUE
    /\ UNCHANGED <<src, declS, tfull>>

(* query-migrate confirms: the departed source is torn down ... *)
teardownDepartedSource ==
    /\ sgo = "sent" /\ src' = "gone" /\ sgo' = "gone"
    /\ UNCHANGED <<srec, stask, declS, tfull, blind, faults>>

(* ... and the record, then the task, report it. *)
ReportHandoff ==
    /\ \/ sgo = "gone" /\ sgo' = "told" /\ srec' = "completed" /\ UNCHANGED stask
       \/ sgo = "told" /\ sgo' = "off" /\ stask' = "success" /\ UNCHANGED srec
    /\ UNCHANGED <<src, declS, tfull, blind, faults>>

Push ==
    /\ \/ PowerOff \/ BeginCopy \/ EndCopy \/ Converge \/ PushFails
       \/ HandoffMissed \/ teardownDepartedSource \/ ReportHandoff
    /\ UNCHANGED <<cp, worker, api, tgt, trec, tgo, declT, killed>>

(* migrate-continue: the source's qemu sends the last of the RAM and stops *)
(* for good; the target's qemu has it all and waits for cont.              *)
Switchover ==
    /\ sgo = "paused" /\ Streams
    /\ src' = "sent" /\ sgo' = "sent" /\ tgt' = "loaded" /\ tfull' = TRUE
    /\ UNCHANGED <<cp, worker, api, srec, stask, declS, trec, tgo, declT, hist,
                   faults>>

(* A restart forgets records and tasks.  The qemu lives on, and one left   *)
(* in the middle of a push may still stop itself at pre-switchover.        *)
SourceRestarts ==
    /\ Fault /\ srec # "none"
    /\ srec' = "none" /\ sgo' = "off" /\ blind' = TRUE
    /\ stask' = "lost"
    /\ src' \in IF live /\ sgo = "push" /\ Streams THEN {src, "paused"} ELSE {src}
    /\ UNCHANGED <<cp, worker, api, declS, target, killed>>

-----------------------------------------------------------------------------
(* The target agent: runIncomingResume over RunLiveTarget. *)

(* The incoming RAM is complete, the exports are dropped, the guest runs;  *)
(* then its cached status says so, then the record.                        *)
Resume ==
    /\ \/ tgo = "wait" /\ tgt = "loaded" /\ tgt' = "running"
          /\ tgo' = "resumed" /\ UNCHANGED trec
       \/ tgo = "resumed" /\ tgo' = "running" /\ UNCHANGED <<tgt, trec>>
       \/ tgo = "running" /\ tgo' = "off" /\ trec' = "completed"
          /\ UNCHANGED tgt
    /\ UNCHANGED <<cp, worker, api, source, tfull, declT, hist, faults>>

(* failIncomingResume: qemu is killed and the disk is kept, unless the     *)
(* record is already terminal.                                             *)
SourceQuit == sgo = "off" /\ (stask = "lost" \/ srec \in {"failed", "cancelled"})

(* Mutant: the failed copy is removed with its disk. *)
failIncomingResumeCleans ==
    /\ tgo = "wait"
    /\ \/ (tgt = "none" \/ (tgt = "incoming" /\ SourceQuit)) /\ UNCHANGED faults
       \/ tgt # "none" /\ Fault
    /\ tgo' = "off"
    /\ IF trec = "busy"
       THEN tgt' = "none" /\ tfull' = FALSE /\ trec' = "failed"
       ELSE UNCHANGED <<tgt, tfull, trec>>
    /\ UNCHANGED <<cp, worker, api, source, declT, hist>>

failIncomingResume ==
    /\ tgo = "wait"
    /\ \/ (tgt = "none" \/ (tgt = "incoming" /\ SourceQuit)) /\ UNCHANGED faults
       \/ tgt # "none" /\ Fault
    /\ tgo' = "off"
    /\ tgt' = IF trec = "busy" THEN "failed" ELSE tgt
    /\ trec' = IF trec = "busy" THEN "failed" ELSE trec
    /\ UNCHANGED <<cp, worker, api, source, tfull, declT, hist>>

(* A restart forgets the record; reconcileRecoveredIncoming promotes a     *)
(* running guest and kills one that never resumed, keeping its disk.       *)
TargetRestarts ==
    /\ Fault /\ trec # "none"
    /\ trec' = "none" /\ tgo' = "off"
    /\ tgt' = IF tgt \in {"incoming", "loaded"} THEN "failed" ELSE tgt
    /\ UNCHANGED <<cp, worker, api, source, tfull, declT, hist>>

-----------------------------------------------------------------------------
(* Heartbeats and the VM reconciler.  A node is declared the VMs pinned to *)
(* it, and starts a declared VM it finds stopped.                          *)

HeartbeatSource ==
    /\ declS # (pin = "src") /\ declS' = (pin = "src")
    /\ UNCHANGED <<cp, worker, api, src, srec, stask, sgo, target, hist, faults>>

HeartbeatTarget ==
    /\ declT # (pin = "tgt") /\ declT' = (pin = "tgt")
    /\ UNCHANGED <<cp, worker, api, source, tgt, tfull, trec, tgo, hist, faults>>

(* While qemu-img holds the image the start fails, and so does the VM. *)
ReconcileSource ==
    /\ declS /\ src = "off"
    /\ src' = IF sgo = "copy" THEN "failed" ELSE "running"
    /\ UNCHANGED <<cp, worker, api, srec, stask, sgo, declS, target, hist, faults>>

(* A completed migration's incoming server is released on an earlier tick. *)
ReconcileTarget ==
    /\ declT /\ tgt = "stopped"
    /\ IF trec = "busy" THEN trec' = "none" /\ UNCHANGED tgt
       ELSE tgt' = "running" /\ UNCHANGED trec
    /\ UNCHANGED <<cp, worker, api, source, tfull, tgo, declT, hist, faults>>

Agents ==
    \/ Push \/ Switchover \/ SourceRestarts \/ Resume \/ failIncomingResume
    \/ TargetRestarts \/ HeartbeatSource \/ HeartbeatTarget
    \/ ReconcileSource \/ ReconcileTarget

Next == Worker \/ CancelMigration \/ propagateCancel \/ Agents

Spec == Init /\ [][Next]_vars

(* The queue redelivers, the agents' goroutines run, and a request's       *)
(* handler is not abandoned.  Nothing is assumed of the heartbeats and the *)
(* reconcilers' ticks.                                                     *)
SagaFair(i) ==
    \/ i = 1 /\ Worker
    \/ i = 2 /\ propagateCancel
    \/ i = 3 /\ (Push \/ Switchover)
    \/ i = 4 /\ (Resume \/ failIncomingResume)

-----------------------------------------------------------------------------
(* Properties. *)

(* Every variable keeps its type. *)
TypeOK ==
    /\ live \in Modes
    /\ mig \in Phases /\ seen \in Phases
    /\ pin \in {"src", "tgt"}
    /\ task \in {"pending", "running", "success", "failed", "cancelled"}
    /\ stamped \in BOOLEAN /\ fresh \in BOOLEAN
    /\ job \in {"ready", "taken", "gone", "dead"} /\ left \in 0 .. MaxRetries
    /\ w \in Stages /\ after \in {"fail", "failed", "cancelled"}
    /\ api \in {"off", "source", "target", "done"}
    /\ src \in {"running", "paused", "sent", "off", "failed", "gone"}
    /\ srec \in Records /\ trec \in Records
    /\ stask \in {"none", "running", "success", "failed", "lost"}
    /\ sgo \in {"off", "push", "cold", "copy", "paused", "aborted", "sent",
                "gone", "told"}
    /\ tgt \in {"none", "incoming", "loaded", "stopped", "running", "failed"}
    /\ tgo \in {"off", "wait", "resumed", "running"}
    /\ tfull \in BOOLEAN /\ declS \in BOOLEAN /\ declT \in BOOLEAN
    /\ killed \in BOOLEAN /\ blind \in BOOLEAN /\ faults \in 0 .. MaxFaults

(* The guest never runs on both nodes: pausing at pre-switchover, the      *)
(* abort paths and the cutover order keep one copy stopped.                *)
OneRunning == live => ~(src = "running" /\ tgt = "running")

(* The source's copy is deleted only when the target holds all of it, and  *)
(* that copy is then kept by every failure, restart and late cancel        *)
(* (other than the teardown of a handed-off guest that has not resumed).   *)
GuestKept == src = "gone" /\ ~killed => tgt # "none" /\ tfull

(* Calling a migration failed, or its task cancelled, is true: unless the  *)
(* source's record stopped following its push (a restart, a missed         *)
(* handoff, a cancel that did not stop it), the guest is still there.      *)
VerdictTrue ==
    (mig = "failed" \/ task = "cancelled") /\ ~blind =>
        src \notin {"sent", "gone"} /\ pin = "src"

=============================================================================
