------------------------------ MODULE JobQueue ------------------------------
(***************************************************************************)
(* The etcd-backed job queue of the control plane and its consumers:       *)
(* internal/etcdstore/jobs.go, jobs_consume.go and maintenance.go (rows,   *)
(* claim, lease, retry, reclaim, retention), internal/worker/dispatcher.go *)
(* (the bounded pool that runs claimed jobs) and internal/etcd/leader.go   *)
(* (only the replica that believes it leads the "workers" election claims, *)
(* reaps and sweeps).                                                      *)
(*                                                                         *)
(* Every etcd read-then-compare-and-set is two steps.  A mod-revision is   *)
(* not a number here: `current` holds the pairs <<actor, job>> for which   *)
(* the row has not been written since that actor last read it, which is    *)
(* all that a ModRevision compare can tell.                                *)
(*                                                                         *)
(* A claim token is the identity of the delivery (the goroutine pair of    *)
(* execute and its renewer) that minted it.  An identity is reused only    *)
(* once both goroutines have ended, and a token is only ever compared on   *)
(* the row its delivery claimed, so reuse cannot confuse two claims.       *)
(***************************************************************************)
EXTENDS Integers, FiniteSets

CONSTANTS
    Jobs,           \* job sequence numbers
    Replicas,       \* otherix-api processes
    Deliveries,     \* identities of claim-and-execute goroutines
    NoDelivery,     \* the empty claim token
    NoJob,          \* a goroutine that holds no job
    NoReplica,      \* nobody holds the election key
    MaxAttempts,    \* registration.maxAttempts
    MaxConcurrent,  \* capacity of Dispatcher.sem
    FenceRetries,   \* claimFenceRetries
    MaxFaults       \* bound on crashes, lost sessions, lost answers, stalls

ASSUME NoDeliveryFresh == NoDelivery \notin Deliveries
ASSUME NoJobFresh == NoJob \notin Jobs
ASSUME NoReplicaFresh == NoReplica \notin Replicas
ASSUME BudgetPositive == MaxAttempts \in Nat \ {0}
ASSUME PoolPositive == MaxConcurrent \in Nat \ {0}
ASSUME RetriesSuffice == FenceRetries \in Nat /\ FenceRetries >= 3
ASSUME FaultsNat == MaxFaults \in Nat

VARIABLES
    job,        \* the rows under /jobs/
    current,    \* <<actor, job>>: row unwritten since the actor's last read
    dlv,        \* each delivery's execute goroutine
    renewer,    \* each delivery's lease renewer: "off", "idle", "read"
    rep,        \* each replica: "follower", "leading", "stopping", "down"
    leaderKey,  \* holder of the election key in etcd
    reap,       \* the row each replica's reaper has re-read, or NoJob
    succeeded,  \* history: jobs for which some handler returned nil
    cancelled,  \* history: jobs deleted by CancelPendingTask
    errors,     \* history: handler errors not due to a cancelled context
    stalled,    \* history: jobs whose lease lapsed under a live renewer
    faults      \* faults spent so far

jobVars == <<job, current>>
dlvVars == <<dlv, renewer>>
repVars == <<rep, leaderKey>>
history == <<succeeded, cancelled, errors, stalled>>
vars == <<job, current, dlv, renewer, rep, leaderKey, reap, succeeded,
          cancelled, errors, stalled, faults>>

-----------------------------------------------------------------------------
(* Rows.  "new" has not been enqueued, "gone" has been deleted.            *)

JobState == {"new", "pending", "running", "failed", "gone"}
Lease == {"none", "fresh", "stale"}

Job == [state : JobState, attempts : 0 .. MaxAttempts,
        token : Deliveries \cup {NoDelivery}, lease : Lease]

Actors == ({"work"} \X Deliveries) \cup ({"renew"} \X Deliveries)
            \cup ({"reap"} \X Replicas) \cup {<<"cancel", NoDelivery>>}

PhaseOf == {"free", "claim", "run", "retry", "requeue", "complete", "ended"}

Delivery == [pc : PhaseOf, job : Jobs \cup {NoJob},
             rep : Replicas \cup {NoReplica}, hctxDone : BOOLEAN,
             tries : 0 .. FenceRetries]

Idle == [pc |-> "free", job |-> NoJob, rep |-> NoReplica,
         hctxDone |-> FALSE, tries |-> 0]

(* jobWithRev: the read that a later compare refers to. *)
jobWithRev(a, j) == current' = current \cup {<<a, j>>}

(* A put or delete of row j: every earlier read of it is out of date. *)
Write(j, row) ==
    /\ job' = [job EXCEPT ![j] = row]
    /\ current' = {p \in current : p[2] # j}

Unchanged(a, j) == <<a, j>> \in current

(* The actor returns without using its read. *)
Forget(a) == current' = {p \in current : p[1] # a}

PendingRow(j) == [job[j] EXCEPT !.state = "pending", !.token = NoDelivery,
                                !.lease = "none"]

(* A deleted row; deleting it again changes nothing. *)
GoneRow(j) == [job[j] EXCEPT !.state = "gone", !.token = NoDelivery,
                             !.lease = "none"]

(* The fence of RenewJobLease, RetryJob and RequeueJob. *)
OwnClaim(d, j) == job[j].state = "running" /\ job[j].token = d

Fault == faults < MaxFaults /\ faults' = faults + 1
NoFault == UNCHANGED faults

Working(d) == dlv[d].pc \notin {"free", "ended"}
InPool(r) == {d \in Deliveries : Working(d) /\ dlv[d].rep = r}

(* execute returns: the slot is released and `done` closed.  The identity  *)
(* stays taken while the renewer has not seen `done` yet.                  *)
Ended(d) == IF renewer[d] = "off" THEN Idle
            ELSE [Idle EXCEPT !.pc = "ended", !.job = dlv[d].job,
                              !.rep = dlv[d].rep]

-----------------------------------------------------------------------------
Init ==
    /\ job = [j \in Jobs |-> [state |-> "new", attempts |-> 0,
                              token |-> NoDelivery, lease |-> "none"]]
    /\ current = {}
    /\ dlv = [d \in Deliveries |-> Idle]
    /\ renewer = [d \in Deliveries |-> "off"]
    /\ rep = [r \in Replicas |-> "follower"]
    /\ leaderKey = NoReplica
    /\ reap = [r \in Replicas |-> NoJob]
    /\ succeeded = {}
    /\ cancelled = {}
    /\ errors = [j \in Jobs |-> 0]
    /\ stalled = {}
    /\ faults = 0

(* enqueueJobOp, committed in the producer's transaction. *)
Enqueue(j) ==
    /\ job[j].state = "new"
    /\ Write(j, [job[j] EXCEPT !.state = "pending"])
    /\ UNCHANGED <<dlvVars, repVars, reap, history, faults>>

-----------------------------------------------------------------------------
(* Leadership: leaderTerm.  A replica learns of a lost session later than  *)
(* etcd does, and ClaimJob carries no leader fence.                        *)

Campaign(r) ==
    /\ rep[r] = "follower" /\ leaderKey = NoReplica
    /\ rep' = [rep EXCEPT ![r] = "leading"]
    /\ leaderKey' = r
    /\ UNCHANGED <<jobVars, dlvVars, reap, history, faults>>

(* The key of a term whose process is gone goes with its session's lease. *)
SessionExpires(r) ==
    /\ leaderKey = r /\ rep[r] \in {"down", "follower"}
    /\ leaderKey' = NoReplica
    /\ UNCHANGED <<jobVars, dlvVars, rep, reap, history, faults>>

(* A live leader was cut off for longer than the session's TTL. *)
SessionLost(r) ==
    /\ leaderKey = r /\ rep[r] \in {"leading", "stopping"}
    /\ Fault
    /\ leaderKey' = NoReplica
    /\ UNCHANGED <<jobVars, dlvVars, rep, reap, history>>

(* Mutant: the renewers run on the term's context and die with it. *)
CancelTermStopsRenewers(r) ==
    /\ rep[r] = "leading"
    /\ rep' = [rep EXCEPT ![r] = "stopping"]
    /\ renewer' = [d \in Deliveries |->
                     IF Working(d) /\ dlv[d].rep = r THEN "off" ELSE renewer[d]]
    /\ UNCHANGED <<jobVars, dlv, leaderKey, reap, history>>

CancelTerm(r) ==
    /\ rep[r] = "leading"
    /\ rep' = [rep EXCEPT ![r] = "stopping"]
    /\ dlv' = [d \in Deliveries |->
                 IF Working(d) /\ dlv[d].rep = r
                 THEN [dlv[d] EXCEPT !.hctxDone = TRUE] ELSE dlv[d]]
    /\ UNCHANGED <<jobVars, renewer, leaderKey, reap, history>>

(* s.Done() fires: the term's context is cancelled. *)
NoticeLoss(r) == leaderKey # r /\ CancelTerm(r) /\ NoFault

(* SIGTERM: the parent context is cancelled. *)
Shutdown(r) == CancelTerm(r) /\ Fault

(* fn has returned (both Runs waited for their goroutines): resign. *)
TermEnds(r) ==
    /\ rep[r] = "stopping"
    /\ \A d \in Deliveries : dlv[d].rep # r
    /\ reap[r] = NoJob
    /\ rep' = [rep EXCEPT ![r] = "follower"]
    /\ leaderKey' = IF leaderKey = r THEN NoReplica ELSE leaderKey
    /\ UNCHANGED <<jobVars, dlvVars, reap, history, faults>>

(* The process dies with every goroutine it runs. *)
Crash(r) ==
    /\ rep[r] # "down"
    /\ Fault
    /\ rep' = [rep EXCEPT ![r] = "down"]
    /\ dlv' = [d \in Deliveries |-> IF dlv[d].rep = r THEN Idle ELSE dlv[d]]
    /\ renewer' = [d \in Deliveries |->
                     IF dlv[d].rep = r THEN "off" ELSE renewer[d]]
    /\ reap' = [reap EXCEPT ![r] = NoJob]
    /\ current' = {p \in current :
                     /\ p[1] # <<"reap", r>>
                     /\ \A d \in Deliveries : dlv[d].rep = r =>
                          p[1] \notin {<<"work", d>>, <<"renew", d>>}}
    /\ UNCHANGED <<job, leaderKey, history>>

Restart(r) ==
    /\ rep[r] = "down"
    /\ rep' = [rep EXCEPT ![r] = "follower"]
    /\ UNCHANGED <<jobVars, dlvVars, leaderKey, reap, history, faults>>

-----------------------------------------------------------------------------
(* Dispatcher.drain and ClaimJob.  drain is one goroutine, so a replica    *)
(* has at most one claim in progress; a full pool skips the job.           *)

ClaimRead(d, r, j) ==
    /\ rep[r] = "leading"
    /\ dlv[d] = Idle /\ renewer[d] = "off"
    /\ \A e \in Deliveries : dlv[e].rep = r => dlv[e].pc # "claim"
    /\ Cardinality(InPool(r)) < MaxConcurrent
    /\ job[j].state = "pending"
    /\ jobWithRev(<<"work", d>>, j)
    /\ dlv' = [dlv EXCEPT ![d] = [Idle EXCEPT !.pc = "claim", !.job = j,
                                              !.rep = r]]
    /\ UNCHANGED <<job, renewer, repVars, reap, history, faults>>

ClaimedRow(d, j) == [job[j] EXCEPT !.state = "running", !.token = d,
                                   !.lease = "fresh"]

(* The transaction committed and its answer arrived: execute and the       *)
(* renewer start.                                                          *)
ClaimWins(d) ==
    LET j == dlv[d].job IN
    /\ dlv[d].pc = "claim"
    /\ Unchanged(<<"work", d>>, j)
    /\ Write(j, ClaimedRow(d, j))
    /\ dlv' = [dlv EXCEPT ![d].pc = "run"]
    /\ renewer' = [renewer EXCEPT ![d] = "idle"]
    /\ UNCHANGED <<repVars, reap, history, faults>>

(* It committed but the answer was lost: nobody holds the claim. *)
ClaimLost(d) ==
    LET j == dlv[d].job IN
    /\ dlv[d].pc = "claim"
    /\ Unchanged(<<"work", d>>, j)
    /\ Fault
    /\ Write(j, ClaimedRow(d, j))
    /\ dlv' = [dlv EXCEPT ![d] = Idle]
    /\ UNCHANGED <<renewer, repVars, reap, history>>

(* The compare failed, the term's context was cancelled, or the request    *)
(* never reached etcd.                                                     *)
ClaimFails(d) ==
    /\ dlv[d].pc = "claim"
    /\ \/ ~Unchanged(<<"work", d>>, dlv[d].job) /\ NoFault
       \/ dlv[d].hctxDone /\ NoFault
       \/ Fault
    /\ Forget(<<"work", d>>)
    /\ dlv' = [dlv EXCEPT ![d] = Idle]
    /\ UNCHANGED <<job, renewer, repVars, reap, history>>

-----------------------------------------------------------------------------
(* Dispatcher.execute: the handler's result picks the bookkeeping.  A      *)
(* panic is an error (guardPanic).                                         *)

HandlerOk(d) ==
    /\ dlv[d].pc = "run"
    /\ dlv' = [dlv EXCEPT ![d].pc = "complete"]
    /\ succeeded' = succeeded \cup {dlv[d].job}
    /\ UNCHANGED <<jobVars, renewer, repVars, reap, cancelled, errors,
                   stalled, faults>>

(* Mutant: an error under a cancelled context counts as done. *)
HandlerErrCompletes(d) ==
    /\ dlv[d].pc = "run"
    /\ dlv' = [dlv EXCEPT ![d].pc = IF dlv[d].hctxDone THEN "complete"
                                                       ELSE "retry"]
    /\ errors' = [errors EXCEPT ![dlv[d].job] =
                    IF dlv[d].hctxDone \/ @ = MaxAttempts THEN @ ELSE @ + 1]
    /\ UNCHANGED <<jobVars, renewer, repVars, reap, succeeded, cancelled,
                   stalled, faults>>

HandlerErr(d) ==
    /\ dlv[d].pc = "run"
    /\ dlv' = [dlv EXCEPT ![d].pc = IF dlv[d].hctxDone THEN "requeue"
                                                       ELSE "retry"]
    /\ errors' = [errors EXCEPT ![dlv[d].job] =
                    IF dlv[d].hctxDone \/ @ = MaxAttempts THEN @ ELSE @ + 1]
    /\ UNCHANGED <<jobVars, renewer, repVars, reap, succeeded, cancelled,
                   stalled, faults>>

(* CompleteJob: a delete with no compare. *)
CompleteJob(d) ==
    /\ dlv[d].pc = "complete"
    /\ Write(dlv[d].job, GoneRow(dlv[d].job))
    /\ dlv' = [dlv EXCEPT ![d] = Ended(d)]
    /\ UNCHANGED <<renewer, repVars, reap, history, faults>>

(* RetryJob after the budget check: requeued below it, failed at it. *)
RetriedRow(j) ==
    LET n == job[j].attempts + 1 IN
    IF n < MaxAttempts
    THEN [PendingRow(j) EXCEPT !.attempts = n]
    ELSE [job[j] EXCEPT !.attempts = n, !.state = "failed",
                        !.token = NoDelivery]

(* RetryJob and RequeueJob read the row; a lost compare sends them here    *)
(* again, FenceRetries times.  They give up once the claim is not theirs.  *)
FenceRead(d) ==
    LET j == dlv[d].job IN
    /\ dlv[d].pc \in {"retry", "requeue"}
    /\ dlv[d].tries < FenceRetries
    /\ ~Unchanged(<<"work", d>>, j)
    /\ OwnClaim(d, j)
    /\ jobWithRev(<<"work", d>>, j)
    /\ dlv' = [dlv EXCEPT ![d].tries = @ + 1]
    /\ UNCHANGED <<job, renewer, repVars, reap, history, faults>>

FenceGivesUp(d) ==
    /\ dlv[d].pc \in {"retry", "requeue"}
    /\ dlv[d].tries < FenceRetries
    /\ ~OwnClaim(d, dlv[d].job)
    /\ dlv' = [dlv EXCEPT ![d] = Ended(d)]
    /\ UNCHANGED <<jobVars, renewer, repVars, reap, history, faults>>

RetryJob(d) ==
    LET j == dlv[d].job IN
    /\ dlv[d].pc = "retry"
    /\ Unchanged(<<"work", d>>, j)
    /\ Write(j, RetriedRow(j))
    /\ dlv' = [dlv EXCEPT ![d] = Ended(d)]
    /\ UNCHANGED <<renewer, repVars, reap, history, faults>>

RequeueJob(d) ==
    LET j == dlv[d].job IN
    /\ dlv[d].pc = "requeue"
    /\ Unchanged(<<"work", d>>, j)
    /\ Write(j, PendingRow(j))
    /\ dlv' = [dlv EXCEPT ![d] = Ended(d)]
    /\ UNCHANGED <<renewer, repVars, reap, history, faults>>

FenceExhausted(d) ==
    /\ dlv[d].pc \in {"retry", "requeue"}
    /\ dlv[d].tries = FenceRetries
    /\ ~Unchanged(<<"work", d>>, dlv[d].job)

(* The bookkeeping returned an error: etcd did not answer within           *)
(* bookkeepingTimeout, or the fence was exhausted.  The row is untouched.  *)
BookkeepingFails(d) ==
    /\ dlv[d].pc \in {"complete", "retry", "requeue"}
    /\ IF FenceExhausted(d) THEN NoFault ELSE Fault
    /\ Forget(<<"work", d>>)
    /\ dlv' = [dlv EXCEPT ![d] = Ended(d)]
    /\ UNCHANGED <<job, renewer, repVars, reap, history>>

-----------------------------------------------------------------------------
(* startRenewer.  A tick comes every renewInterval (30s) and bookkeeping   *)
(* lasts at most bookkeepingTimeout (5s): besides a renewal already in     *)
(* flight, one buffered tick can start while it runs.                      *)

TickDue(d) == dlv[d].pc \in {"retry", "requeue"} => dlv[d].tries <= 1

RenewRead(d) ==
    LET j == dlv[d].job IN
    /\ renewer[d] = "idle"
    /\ TickDue(d)
    /\ OwnClaim(d, j)
    /\ jobWithRev(<<"renew", d>>, j)
    /\ renewer' = [renewer EXCEPT ![d] = "read"]
    /\ UNCHANGED <<job, dlv, repVars, reap, history, faults>>

RenewJobLease(d) ==
    LET j == dlv[d].job IN
    /\ renewer[d] = "read"
    /\ Unchanged(<<"renew", d>>, j)
    /\ Write(j, [job[j] EXCEPT !.lease = "fresh"])
    /\ renewer' = [renewer EXCEPT ![d] = "idle"]
    /\ UNCHANGED <<dlv, repVars, reap, history, faults>>

(* Not ours on the read, or the compare lost: lost() cancels the handler   *)
(* and the renewer stops.                                                  *)
RenewLost(d) ==
    /\ \/ renewer[d] = "idle" /\ TickDue(d) /\ ~OwnClaim(d, dlv[d].job)
       \/ renewer[d] = "read" /\ ~Unchanged(<<"renew", d>>, dlv[d].job)
    /\ renewer' = [renewer EXCEPT ![d] = "off"]
    /\ dlv' = [dlv EXCEPT ![d] = IF @.pc = "ended" THEN Idle ELSE
                                 [@ EXCEPT !.hctxDone = TRUE]]
    /\ UNCHANGED <<jobVars, repVars, reap, history, faults>>

(* An RPC error: logged, the renewer waits for its next tick. *)
RenewFails(d) ==
    /\ renewer[d] = "read"
    /\ Fault
    /\ Forget(<<"renew", d>>)
    /\ renewer' = [renewer EXCEPT ![d] = "idle"]
    /\ UNCHANGED <<job, dlv, repVars, reap, history>>

(* Mutant: the renewer watches the row instead of `done`. *)
RenewerIgnoresDone(d) ==
    /\ renewer[d] = "idle" /\ dlv[d].pc = "ended"
    /\ ~OwnClaim(d, dlv[d].job)
    /\ renewer' = [renewer EXCEPT ![d] = "off"]
    /\ dlv' = [dlv EXCEPT ![d] = Idle]
    /\ UNCHANGED <<jobVars, repVars, reap, history, faults>>

(* The renewer sees `done`. *)
RenewerStops(d) ==
    /\ renewer[d] = "idle" /\ dlv[d].pc = "ended"
    /\ renewer' = [renewer EXCEPT ![d] = "off"]
    /\ dlv' = [dlv EXCEPT ![d] = Idle]
    /\ UNCHANGED <<jobVars, repVars, reap, history, faults>>

-----------------------------------------------------------------------------
(* Time passing over a lease: JobLease without a renewal. *)

Renewed(j) == \E d \in Deliveries : /\ renewer[d] # "off"
                                    /\ dlv[d].job = j /\ OwnClaim(d, j)

AgeLease(j) ==
    /\ job[j].state = "running" /\ job[j].lease = "fresh"
    /\ job' = [job EXCEPT ![j].lease = "stale"]
    /\ UNCHANGED <<current, dlvVars, repVars, reap, succeeded, cancelled,
                   errors>>

LeaseExpires(j) == ~Renewed(j) /\ AgeLease(j) /\ NoFault /\ UNCHANGED stalled

(* A stalled process or an unreachable etcd outlasts the lease. *)
LeaseStalls(j) ==
    Renewed(j) /\ AgeLease(j) /\ Fault /\ stalled' = stalled \cup {j}

(* ReclaimStaleRunningJobs, on the re-read of one row of its scan. *)
ReclaimRead(r, j) ==
    /\ rep[r] = "leading" /\ reap[r] = NoJob
    /\ job[j].state = "running" /\ job[j].lease = "stale"
    /\ reap' = [reap EXCEPT ![r] = j]
    /\ jobWithRev(<<"reap", r>>, j)
    /\ UNCHANGED <<job, dlvVars, repVars, history, faults>>

Reclaim(r) ==
    /\ reap[r] # NoJob
    /\ Unchanged(<<"reap", r>>, reap[r])
    /\ Write(reap[r], PendingRow(reap[r]))
    /\ reap' = [reap EXCEPT ![r] = NoJob]
    /\ UNCHANGED <<dlvVars, repVars, history, faults>>

(* The compare failed, or the term's context was cancelled first. *)
ReclaimSkips(r) ==
    /\ reap[r] # NoJob
    /\ ~Unchanged(<<"reap", r>>, reap[r]) \/ rep[r] = "stopping"
    /\ Forget(<<"reap", r>>)
    /\ reap' = [reap EXCEPT ![r] = NoJob]
    /\ UNCHANGED <<job, dlvVars, repVars, history, faults>>

(* DeleteFailedJobs, for a row past FailedJobRetention. *)
DeleteFailedJob(r, j) ==
    /\ rep[r] = "leading"
    /\ job[j].state = "failed"
    /\ Write(j, GoneRow(j))
    /\ UNCHANGED <<dlvVars, repVars, reap, history, faults>>

(* CancelPendingTask's view of the queue (its task half is in TaskRun). *)
Canceller == <<"cancel", NoDelivery>>

CancelRead(j) ==
    /\ job[j].state = "pending"
    /\ ~Unchanged(Canceller, j)
    /\ jobWithRev(Canceller, j)
    /\ UNCHANGED <<job, dlvVars, repVars, reap, history, faults>>

CancelPendingTask(j) ==
    /\ Unchanged(Canceller, j)
    /\ Write(j, GoneRow(j))
    /\ cancelled' = cancelled \cup {j}
    /\ UNCHANGED <<dlvVars, repVars, reap, succeeded, errors, stalled, faults>>

-----------------------------------------------------------------------------
ReplicaStep(r) ==
    \/ Campaign(r) \/ SessionExpires(r) \/ SessionLost(r) \/ NoticeLoss(r)
    \/ Shutdown(r) \/ TermEnds(r) \/ Crash(r) \/ Restart(r)
    \/ Reclaim(r) \/ ReclaimSkips(r)
    \/ \E j \in Jobs : ReclaimRead(r, j) \/ DeleteFailedJob(r, j)
    \/ \E d \in Deliveries, j \in Jobs : ClaimRead(d, r, j)

DeliveryStep(d) ==
    \/ ClaimWins(d) \/ ClaimLost(d) \/ ClaimFails(d)
    \/ HandlerOk(d) \/ HandlerErr(d)
    \/ CompleteJob(d) \/ FenceRead(d) \/ FenceGivesUp(d) \/ RetryJob(d)
    \/ RequeueJob(d) \/ BookkeepingFails(d)
    \/ RenewRead(d) \/ RenewJobLease(d) \/ RenewLost(d) \/ RenewFails(d)
    \/ RenewerStops(d)

JobStep(j) ==
    \/ Enqueue(j) \/ LeaseExpires(j) \/ LeaseStalls(j)
    \/ CancelRead(j) \/ CancelPendingTask(j)

(* The bounded instance has nothing left to do. *)
Resolved == (\A j \in Jobs : job[j].state = "gone") /\ UNCHANGED vars

Next ==
    \/ \E r \in Replicas : ReplicaStep(r)
    \/ \E d \in Deliveries : DeliveryStep(d)
    \/ \E j \in Jobs : JobStep(j)
    \/ Resolved

Spec == Init /\ [][Next]_vars

(* Scheduling.  Every goroutine that can step does, a dead process is      *)
(* restarted, time passes, the drain and the reaper tick.  Nothing is      *)
(* assumed of faults: each may happen or not.  A handler returns.  The     *)
(* renewer's select takes `done` as soon as no tick is buffered with it.   *)
Fairness ==
    /\ \A r \in Replicas :
         /\ WF_vars(Campaign(r)) /\ WF_vars(SessionExpires(r))
         /\ WF_vars(NoticeLoss(r)) /\ WF_vars(TermEnds(r))
         /\ WF_vars(Restart(r))
         /\ WF_vars(Reclaim(r) \/ ReclaimSkips(r))
    /\ \A j \in Jobs :
         /\ WF_vars(LeaseExpires(j))
         /\ WF_vars(\E r \in Replicas : ReclaimRead(r, j))
         /\ WF_vars(\E r \in Replicas, d \in Deliveries : ClaimRead(d, r, j))
    /\ \A d \in Deliveries :
         /\ WF_vars(ClaimWins(d) \/ ClaimFails(d))
         /\ WF_vars(HandlerOk(d) \/ HandlerErr(d))
         /\ WF_vars(CompleteJob(d) \/ FenceRead(d) \/ FenceGivesUp(d)
                    \/ RetryJob(d) \/ RequeueJob(d) \/ BookkeepingFails(d))
         /\ WF_vars(RenewJobLease(d) \/ RenewLost(d))
         /\ SF_vars(RenewerStops(d))

FairSpec == Spec /\ Fairness

-----------------------------------------------------------------------------
(* Properties *)

(* Every variable keeps the shape of its Go type: in particular no row     *)
(* counts more attempts than its kind's budget (RetryJob).                 *)
TypeOK ==
    /\ job \in [Jobs -> Job]
    /\ current \subseteq Actors \X Jobs
    /\ dlv \in [Deliveries -> Delivery]
    /\ renewer \in [Deliveries -> {"off", "idle", "read"}]
    /\ rep \in [Replicas -> {"follower", "leading", "stopping", "down"}]
    /\ leaderKey \in Replicas \cup {NoReplica}
    /\ reap \in [Replicas -> Jobs \cup {NoJob}]
    /\ succeeded \subseteq Jobs /\ cancelled \subseteq Jobs
    /\ errors \in [Jobs -> 0 .. MaxAttempts]
    /\ stalled \subseteq Jobs
    /\ faults \in 0 .. MaxFaults

(* No enqueued job is dropped: a row that is gone had a handler return     *)
(* nil, was cancelled while pending, or spent its whole attempt budget.    *)
NothingLost ==
    \A j \in Jobs : job[j].state = "gone" =>
        j \in succeeded \cup cancelled \/ job[j].attempts = MaxAttempts

(* The attempt budget is spent on handler errors alone: a deploy, a lost   *)
(* leadership, a crash or a reclaim never consumes it, and a job fails     *)
(* only after MaxAttempts real errors (execute, RetryJob, RequeueJob,      *)
(* ReclaimStaleRunningJobs).                                               *)
BudgetSpentOnErrors ==
    \A j \in Jobs : /\ job[j].attempts <= errors[j]
                    /\ job[j].state = "failed" => errors[j] = MaxAttempts

(* Two handlers run the same job only if its lease lapsed while its first  *)
(* worker was alive.  Crashes, lost answers, lost leadership and two       *)
(* replicas that both believe they lead never get there, because the       *)
(* renewer outlives the cancelled term.                                    *)
NoDoubleRunWithoutStall ==
    \A d, e \in Deliveries :
        /\ d # e /\ dlv[d].job = dlv[e].job
        /\ dlv[d].pc = "run" /\ dlv[e].pc = "run"
        => dlv[d].job \in stalled

(* The bookkeeping of a live claim never runs out of compare retries       *)
(* (claimFenceRetries: the only competing writer is its own renewer).      *)
FenceSuffices ==
    \A d \in Deliveries : FenceExhausted(d) => ~OwnClaim(d, dlv[d].job)

(* A claim whose lease is fresh and whose delivery is alive is taken from  *)
(* it by nobody: the row changes hands only through that delivery's own    *)
(* bookkeeping, or is deleted because a handler of the job succeeded.      *)
ClaimIsKept ==
    [][\A j \in Jobs, d \in Deliveries :
         /\ OwnClaim(d, j) /\ dlv[d].job = j /\ job[j].lease = "fresh"
         => \/ OwnClaim(d, j)'
            \/ dlv[d].pc \in {"retry", "requeue"}
            \/ job'[j].state = "gone" /\ j \in succeeded]_vars

(* Finished work is never resurrected: a deleted row stays deleted and a   *)
(* failed row can only be swept, whatever a late worker writes.            *)
NoResurrection ==
    [][\A j \in Jobs :
         /\ job[j].state = "gone" => job'[j].state = "gone"
         /\ job[j].state = "failed" => job'[j].state \in {"failed", "gone"}
      ]_vars

(* Every enqueued job is resolved in the end, whatever its worker's fate:  *)
(* a crashed worker's claim is reclaimed and delivered again.              *)
EventuallyResolved ==
    \A j \in Jobs :
        job[j].state = "pending" ~> job[j].state \in {"failed", "gone"}

=============================================================================
