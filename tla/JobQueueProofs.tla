--------------------------- MODULE JobQueueProofs ---------------------------
(***************************************************************************)
(* Proofs that the job queue keeps its safety properties for every number  *)
(* of jobs, replicas, deliveries and faults, every attempt budget and      *)
(* every fence bound of at least three.                                    *)
(***************************************************************************)
EXTENDS JobQueue, TLAPS

-----------------------------------------------------------------------------
(* The inductive invariant *)

(* What a goroutine's program counter says of the rest of its state. *)
Shape ==
    \A d \in Deliveries :
        /\ dlv[d].pc # "free" => dlv[d].job \in Jobs /\ dlv[d].rep \in Replicas
        /\ dlv[d].pc \in {"free", "claim"} => renewer[d] = "off"
        /\ dlv[d].pc \in {"claim", "run"} => dlv[d].tries = 0
        /\ dlv[d].pc = "complete" => dlv[d].job \in succeeded

(* The attempt counter of a live row is below the budget. *)
Rows ==
    \A j \in Jobs :
        /\ job[j].state \in {"new", "pending", "running"}
             => job[j].attempts < MaxAttempts
        /\ job[j].state = "failed" => job[j].attempts = MaxAttempts

(* Counted attempts were errors; a delivery about to retry has one to count. *)
Budget ==
    \A j \in Jobs :
        /\ job[j].attempts <= errors[j]
        /\ \A d \in Deliveries :
             dlv[d].pc = "retry" /\ dlv[d].job = j /\ OwnClaim(d, j)
               => job[j].attempts < errors[j]

(* A read that nothing has overwritten still describes the row: for the    *)
(* worker, its renewer, the reaper and the canceller.                      *)
WorkReads ==
    \A d \in Deliveries : Unchanged(<<"work", d>>, dlv[d].job) =>
        /\ dlv[d].pc \notin {"run", "complete"}
        /\ dlv[d].pc = "claim" => job[dlv[d].job].state = "pending"
        /\ dlv[d].pc \in {"retry", "requeue"} => OwnClaim(d, dlv[d].job)

RenewReads ==
    \A d \in Deliveries : renewer[d] = "read" =>
        (Unchanged(<<"renew", d>>, dlv[d].job) <=> OwnClaim(d, dlv[d].job))

ReapReads ==
    \A r \in Replicas : reap[r] # NoJob /\ Unchanged(<<"reap", r>>, reap[r])
        => job[reap[r]].state = "running" /\ job[reap[r]].lease = "stale"

CancelReads ==
    \A j \in Jobs : Unchanged(Canceller, j) => job[j].state = "pending"

(* Between the claim and the end of the bookkeeping. *)
Active(d) == dlv[d].pc \in {"run", "complete", "retry", "requeue"}

(* Until a stall, a working delivery owns its row and renews its lease. *)
Owned ==
    \A d \in Deliveries :
        Active(d) /\ dlv[d].job \notin stalled => OwnClaim(d, dlv[d].job)

Renewing ==
    \A d \in Deliveries : Active(d) /\ OwnClaim(d, dlv[d].job) =>
        /\ renewer[d] # "off"
        /\ job[dlv[d].job].lease = "stale" => dlv[d].job \in stalled

(* How far the delivery's own renewer can push its compare retries. *)
Fence ==
    \A d \in Deliveries :
        dlv[d].pc \in {"retry", "requeue"} /\ OwnClaim(d, dlv[d].job) =>
          /\ dlv[d].tries >= 2 => Unchanged(<<"work", d>>, dlv[d].job)
                                    \/ renewer[d] # "read"
          /\ dlv[d].tries >= 3 => Unchanged(<<"work", d>>, dlv[d].job)
                                    /\ renewer[d] # "read"

IInv == /\ TypeOK /\ Shape /\ Rows /\ NothingLost /\ Budget
        /\ WorkReads /\ RenewReads /\ ReapReads /\ CancelReads
        /\ Owned /\ Renewing /\ Fence

-----------------------------------------------------------------------------
(* The rows that claim, reclaim, retry and delete write are rows. *)
LEMMA RowTypes ==
    ASSUME TypeOK, Rows, NEW j \in Jobs
    PROVE  /\ PendingRow(j) \in Job
           /\ GoneRow(j) \in Job
           /\ \A d \in Deliveries : ClaimedRow(d, j) \in Job
           /\ job[j].state = "running" => RetriedRow(j) \in Job
<1>0. job[j] \in Job
  BY DEF TypeOK
<1>1. PendingRow(j) \in Job
  BY <1>0, ZenonT(20) DEF Job, JobState, Lease, PendingRow
<1>2. GoneRow(j) \in Job
  BY <1>0, ZenonT(20) DEF Job, JobState, Lease, GoneRow
<1>3. ASSUME NEW d \in Deliveries PROVE ClaimedRow(d, j) \in Job
  BY <1>0, ZenonT(20) DEF Job, JobState, Lease, ClaimedRow
<1>4. ASSUME job[j].state = "running" PROVE RetriedRow(j) \in Job
  <2>1. job[j].attempts + 1 \in 0 .. MaxAttempts
    BY <1>0, <1>4, BudgetPositive DEF Rows, Job
  <2> QED
    BY <1>0, <1>1, <2>1, ZenonT(20) DEF Job, JobState, RetriedRow
<1> QED
  BY <1>1, <1>2, <1>3, <1>4

(* A put or a delete keeps the rows and the read set well typed. *)
LEMMA WriteType ==
    ASSUME TypeOK, NEW j \in Jobs, NEW row \in Job, Write(j, row)
    PROVE  job' \in [Jobs -> Job] /\ current' \subseteq Actors \X Jobs
BY DEF TypeOK, Write

(* So does a read. *)
LEMMA ReadType ==
    ASSUME TypeOK, NEW j \in Jobs, NEW a \in Actors, jobWithRev(a, j)
    PROVE  current' \subseteq Actors \X Jobs
BY DEF TypeOK, jobWithRev

(* A goroutine that ends leaves a delivery. *)
LEMMA DeliveryTypes ==
    ASSUME TypeOK
    PROVE  /\ Idle \in Delivery
           /\ \A d \in Deliveries : Ended(d) \in Delivery
<1>1. Idle \in Delivery
  BY RetriesSuffice DEF Idle, Delivery, PhaseOf
<1>2. ASSUME NEW d \in Deliveries PROVE Ended(d) \in Delivery
  <2>1. dlv[d] \in Delivery
    BY DEF TypeOK
  <2> QED
    BY <1>1, <2>1, ZenonT(20) DEF Ended, Delivery, PhaseOf
<1> QED
  BY <1>1, <1>2

(* Every step keeps the type invariant.  The budget (Rows) bounds the
   retried attempt counter, and WorkReads gives that a retried row is running. *)
LEMMA TypeStep == IInv /\ [Next]_vars => TypeOK'
<1> SUFFICES ASSUME IInv, [Next]_vars PROVE TypeOK'
  OBVIOUS
<1> USE DEF IInv
<1> USE DEF jobVars, dlvVars, repVars, history
<1>1. ASSUME NEW r \in Replicas, ReplicaStep(r) PROVE TypeOK'
  <2>1. CASE NoticeLoss(r) \/ Shutdown(r)
    <3>1. dlv' \in [Deliveries -> Delivery]
      <4>1. \A d \in Deliveries : [dlv[d] EXCEPT !.hctxDone = TRUE] \in Delivery
        BY ZenonT(20) DEF TypeOK, Delivery
      <4> QED
        BY <2>1, <4>1 DEF NoticeLoss, Shutdown, CancelTerm, TypeOK
    <3> QED
      BY <2>1, <3>1, FaultsNat
      DEF NoticeLoss, Shutdown, CancelTerm, TypeOK, Fault, NoFault
  <2>2. CASE Crash(r)
    BY <2>2, DeliveryTypes, FaultsNat DEF Crash, TypeOK, Fault
  <2>3. CASE Reclaim(r)
    <3>1. reap[r] \in Jobs
      BY <2>3 DEF Reclaim, TypeOK
    <3> QED
      BY <2>3, <3>1, RowTypes, WriteType DEF Reclaim, TypeOK
  <2>4. CASE ReclaimSkips(r)
    BY <2>4 DEF ReclaimSkips, Forget, TypeOK
  <2>5. ASSUME NEW j \in Jobs, ReclaimRead(r, j) PROVE TypeOK'
    BY <2>5, ReadType DEF ReclaimRead, TypeOK, Actors
  <2>6. ASSUME NEW j \in Jobs, DeleteFailedJob(r, j) PROVE TypeOK'
    BY <2>6, RowTypes, WriteType DEF DeleteFailedJob, TypeOK
  <2>7. ASSUME NEW d \in Deliveries, NEW j \in Jobs, ClaimRead(d, r, j)
        PROVE  TypeOK'
    <3>1. dlv' \in [Deliveries -> Delivery]
      BY <2>7, DeliveryTypes, ZenonT(20) DEF ClaimRead, TypeOK, Idle, Delivery, PhaseOf
    <3>2. <<"work", d>> \in Actors
      BY DEF Actors
    <3> QED
      BY <2>7, <3>1, <3>2, ReadType DEF ClaimRead, TypeOK
  <2>8. CASE \/ Campaign(r) \/ SessionExpires(r) \/ SessionLost(r)
            \/ TermEnds(r) \/ Restart(r)
    BY <2>8, FaultsNat DEF Campaign, SessionExpires, SessionLost, TermEnds,
       Restart, TypeOK, Fault
  <2> QED
    BY <1>1, <2>1, <2>2, <2>3, <2>4, <2>5, <2>6, <2>7, <2>8 DEF ReplicaStep
<1>2. ASSUME NEW d \in Deliveries, DeliveryStep(d) PROVE TypeOK'
  <2>0. /\ dlv[d].pc # "free" => dlv[d].job \in Jobs
        /\ renewer[d] # "off" => dlv[d].job \in Jobs
        /\ <<"work", d>> \in Actors /\ <<"renew", d>> \in Actors
    BY DEF Shape, Actors, TypeOK
  <2>1. CASE ClaimWins(d)
    <3>1. dlv' \in [Deliveries -> Delivery]
      <4>1. [dlv[d] EXCEPT !.pc = "run"] \in Delivery
        BY ZenonT(20) DEF TypeOK, Delivery, PhaseOf
      <4> QED
        BY <2>1, <4>1 DEF ClaimWins, TypeOK
    <3> QED
      BY <2>0, <2>1, <3>1, RowTypes, WriteType DEF ClaimWins, TypeOK
  <2>2. CASE ClaimLost(d)
    BY <2>0, <2>2, RowTypes, WriteType, DeliveryTypes, FaultsNat
    DEF ClaimLost, TypeOK, Fault
  <2>3. CASE ClaimFails(d)
    BY <2>3, DeliveryTypes, FaultsNat DEF ClaimFails, Forget, TypeOK, Fault, NoFault
  <2>4. CASE HandlerOk(d)
    BY <2>0, <2>4 DEF HandlerOk, TypeOK, Delivery, PhaseOf
  <2>5. CASE HandlerErr(d)
    <3>1. dlv' \in [Deliveries -> Delivery]
      BY <2>5 DEF HandlerErr, TypeOK, Delivery, PhaseOf
    <3>2. errors' \in [Jobs -> 0 .. MaxAttempts]
      BY <2>0, <2>5, BudgetPositive DEF HandlerErr, TypeOK
    <3> QED
      BY <2>5, <3>1, <3>2 DEF HandlerErr, TypeOK
  <2>6. CASE CompleteJob(d)
    BY <2>0, <2>6, RowTypes, WriteType, DeliveryTypes DEF CompleteJob, TypeOK
  <2>7. CASE FenceRead(d)
    <3>1. dlv' \in [Deliveries -> Delivery]
      <4>1. [dlv[d] EXCEPT !.tries = @ + 1] \in Delivery
        BY <2>7, RetriesSuffice DEF FenceRead, TypeOK, Delivery
      <4> QED
        BY <2>7, <4>1 DEF FenceRead, TypeOK
    <3> QED
      BY <2>0, <2>7, <3>1, ReadType DEF FenceRead, TypeOK
  <2>8. CASE FenceGivesUp(d)
    BY <2>8, DeliveryTypes, ZenonT(20) DEF FenceGivesUp, TypeOK
  <2>9. CASE RetryJob(d)
    BY <2>0, <2>9, RowTypes, WriteType, DeliveryTypes, ZenonT(20)
       DEF RetryJob, WorkReads, OwnClaim, TypeOK
  <2>10. CASE RequeueJob(d)
    BY <2>0, <2>10, RowTypes, WriteType, DeliveryTypes DEF RequeueJob, TypeOK
  <2>11. CASE BookkeepingFails(d)
    BY <2>11, DeliveryTypes, FaultsNat
    DEF BookkeepingFails, Forget, TypeOK, Fault, NoFault
  <2>12. CASE RenewRead(d)
    BY <2>0, <2>12, ReadType DEF RenewRead, TypeOK
  <2>13. CASE RenewJobLease(d)
    <3>1. [job[dlv[d].job] EXCEPT !.lease = "fresh"] \in Job
      BY <2>0, <2>13, ZenonT(20) DEF RenewJobLease, TypeOK, Job, Lease
    <3> QED
      BY <2>0, <2>13, <3>1, WriteType DEF RenewJobLease, TypeOK
  <2>14. CASE RenewLost(d)
    <3>1. dlv' \in [Deliveries -> Delivery]
      BY <2>14, DeliveryTypes, ZenonT(20) DEF RenewLost, TypeOK, Delivery
    <3> QED
      BY <2>14, <3>1 DEF RenewLost, TypeOK
  <2>15. CASE RenewFails(d) \/ RenewerStops(d)
    BY <2>15, DeliveryTypes, FaultsNat DEF RenewFails, RenewerStops, Forget, TypeOK, Fault
  <2> QED
    BY <1>2, <2>1, <2>2, <2>3, <2>4, <2>5, <2>6, <2>7, <2>8,
       <2>9, <2>10, <2>11, <2>12, <2>13, <2>14, <2>15 DEF DeliveryStep
<1>3. ASSUME NEW j \in Jobs, JobStep(j) PROVE TypeOK'
  <2>1. CASE Enqueue(j)
    <3>1. [job[j] EXCEPT !.state = "pending"] \in Job
      BY DEF TypeOK, Job, JobState
    <3> QED
      BY <2>1, <3>1, WriteType DEF Enqueue, TypeOK
  <2>2. CASE LeaseExpires(j) \/ LeaseStalls(j)
    <3>1. job' \in [Jobs -> Job]
      <4>1. [job[j] EXCEPT !.lease = "stale"] \in Job
        BY DEF TypeOK, Job, Lease
      <4> QED
        BY <2>2, <4>1 DEF LeaseExpires, LeaseStalls, AgeLease, TypeOK
    <3> QED
      BY <2>2, <3>1, FaultsNat
      DEF LeaseExpires, LeaseStalls, AgeLease, TypeOK, Fault, NoFault
  <2>3. CASE CancelRead(j)
    <3>1. Canceller \in Actors
      BY DEF Canceller, Actors
    <3> QED
      BY <2>3, <3>1, ReadType DEF CancelRead, TypeOK
  <2>4. CASE CancelPendingTask(j)
    BY <2>4, RowTypes, WriteType DEF CancelPendingTask, TypeOK
  <2> QED
    BY <1>3, <2>1, <2>2, <2>3, <2>4 DEF JobStep
<1>4. CASE UNCHANGED vars \/ Resolved
  BY <1>4 DEF Resolved, vars, TypeOK
<1> QED
  BY <1>1, <1>2, <1>3, <1>4 DEF Next

(* A goroutine that is not free holds a job and a replica, its renewer runs only
   from the claim on, its retry counter starts at zero, and it completes only a
   job whose handler succeeded. *)
LEMMA ShapeStep == IInv /\ [Next]_vars => Shape'
<1> SUFFICES ASSUME IInv, [Next]_vars PROVE Shape'
  OBVIOUS
<1> USE NoDeliveryFresh, NoJobFresh, NoReplicaFresh, BudgetPositive
<1> USE DEF IInv, jobVars, dlvVars, repVars, history, Write, jobWithRev,
            Unchanged, Forget, OwnClaim, Idle, Ended
<1> USE DEF Shape, TypeOK, Job, JobState, Lease, Delivery, PhaseOf, Actors
<1>1. CASE UNCHANGED <<dlv, renewer, succeeded>>
  BY <1>1
<1>2. ASSUME NEW r \in Replicas, NoticeLoss(r) PROVE Shape'
  BY <1>2 DEF NoticeLoss, CancelTerm, Working
<1>3. ASSUME NEW r \in Replicas, Shutdown(r) PROVE Shape'
  BY <1>3 DEF Shutdown, CancelTerm, Working
<1>4. ASSUME NEW r \in Replicas, Crash(r) PROVE Shape'
  BY <1>4 DEF Crash
<1>5. ASSUME NEW d \in Deliveries, NEW r \in Replicas, NEW j \in Jobs, ClaimRead(d, r, j)
      PROVE  Shape'
  BY <1>5 DEF ClaimRead
<1>6. ASSUME NEW d \in Deliveries, ClaimWins(d) PROVE Shape'
  BY <1>6 DEF ClaimWins, ClaimedRow
<1>7. ASSUME NEW d \in Deliveries, ClaimLost(d) PROVE Shape'
  BY <1>7 DEF ClaimLost, ClaimedRow
<1>8. ASSUME NEW d \in Deliveries, ClaimFails(d) PROVE Shape'
  BY <1>8 DEF ClaimFails
<1>9. ASSUME NEW d \in Deliveries, HandlerOk(d) PROVE Shape'
  BY <1>9 DEF HandlerOk
<1>10. ASSUME NEW d \in Deliveries, HandlerErr(d) PROVE Shape'
  BY <1>10 DEF HandlerErr
<1>11. ASSUME NEW d \in Deliveries, CompleteJob(d) PROVE Shape'
  BY <1>11 DEF CompleteJob, GoneRow
<1>12. ASSUME NEW d \in Deliveries, FenceRead(d) PROVE Shape'
  BY <1>12 DEF FenceRead
<1>13. ASSUME NEW d \in Deliveries, FenceGivesUp(d) PROVE Shape'
  BY <1>13 DEF FenceGivesUp
<1>14. ASSUME NEW d \in Deliveries, RetryJob(d) PROVE Shape'
  BY <1>14 DEF RetryJob, RetriedRow, PendingRow
<1>15. ASSUME NEW d \in Deliveries, RequeueJob(d) PROVE Shape'
  BY <1>15 DEF RequeueJob, PendingRow
<1>16. ASSUME NEW d \in Deliveries, BookkeepingFails(d) PROVE Shape'
  BY <1>16 DEF BookkeepingFails
<1>17. ASSUME NEW d \in Deliveries, RenewRead(d) PROVE Shape'
  BY <1>17 DEF RenewRead, TickDue
<1>18. ASSUME NEW d \in Deliveries, RenewJobLease(d) PROVE Shape'
  BY <1>18 DEF RenewJobLease
<1>19. ASSUME NEW d \in Deliveries, RenewLost(d) PROVE Shape'
  BY <1>19 DEF RenewLost, TickDue
<1>20. ASSUME NEW d \in Deliveries, RenewFails(d) PROVE Shape'
  BY <1>20 DEF RenewFails
<1>21. ASSUME NEW d \in Deliveries, RenewerStops(d) PROVE Shape'
  BY <1>21, ZenonT(20) DEF RenewerStops
<1> QED
  BY <1>1, <1>2, <1>3, <1>4, <1>5, <1>6, <1>7, <1>8, <1>9, <1>10, <1>11,
     <1>12, <1>13, <1>14, <1>15, <1>16, <1>17, <1>18, <1>19, <1>20, <1>21, ZenonT(20)
     DEF vars, Next, ReplicaStep, DeliveryStep, JobStep, Resolved,
         Campaign, SessionExpires, SessionLost, TermEnds, Restart, Reclaim,
         ReclaimSkips, ReclaimRead, DeleteFailedJob, Enqueue, LeaseExpires,
         LeaseStalls, CancelRead, CancelPendingTask, AgeLease

(* The attempt counter stays below the budget until the row fails at it. *)
LEMMA RowsStep == IInv /\ [Next]_vars => Rows'
<1> SUFFICES ASSUME IInv, [Next]_vars PROVE Rows'
  OBVIOUS
<1> USE NoDeliveryFresh, NoJobFresh, NoReplicaFresh, BudgetPositive
<1> USE DEF IInv, jobVars, dlvVars, repVars, history, Write, jobWithRev,
            Unchanged, Forget, OwnClaim, Idle, Ended
<1> USE DEF Shape, Rows, WorkReads, ReapReads, TypeOK, Job, JobState,
            Lease, Delivery, PhaseOf, Actors
<1>1. CASE UNCHANGED <<job>>
  BY <1>1
<1>2. ASSUME NEW r \in Replicas, Reclaim(r) PROVE Rows'
  BY <1>2 DEF Reclaim, PendingRow
<1>3. ASSUME NEW r \in Replicas, NEW j \in Jobs, DeleteFailedJob(r, j)
      PROVE  Rows'
  BY <1>3 DEF DeleteFailedJob, GoneRow
<1>4. ASSUME NEW d \in Deliveries, ClaimWins(d) PROVE Rows'
  BY <1>4 DEF ClaimWins, ClaimedRow
<1>5. ASSUME NEW d \in Deliveries, ClaimLost(d) PROVE Rows'
  BY <1>5 DEF ClaimLost, ClaimedRow
<1>6. ASSUME NEW d \in Deliveries, CompleteJob(d) PROVE Rows'
  BY <1>6 DEF CompleteJob, GoneRow
<1>7. ASSUME NEW d \in Deliveries, RetryJob(d) PROVE Rows'
  BY <1>7 DEF RetryJob, RetriedRow, PendingRow
<1>8. ASSUME NEW d \in Deliveries, RequeueJob(d) PROVE Rows'
  BY <1>8 DEF RequeueJob, PendingRow
<1>9. ASSUME NEW d \in Deliveries, RenewJobLease(d) PROVE Rows'
  BY <1>9 DEF RenewJobLease
<1>10. ASSUME NEW j \in Jobs, Enqueue(j) PROVE Rows'
  BY <1>10 DEF Enqueue
<1>11. ASSUME NEW j \in Jobs, LeaseExpires(j) PROVE Rows'
  BY <1>11 DEF LeaseExpires, AgeLease, Renewed
<1>12. ASSUME NEW j \in Jobs, LeaseStalls(j) PROVE Rows'
  BY <1>12 DEF LeaseStalls, AgeLease, Renewed
<1>13. ASSUME NEW j \in Jobs, CancelPendingTask(j) PROVE Rows'
  BY <1>13 DEF CancelPendingTask, Canceller, GoneRow
<1> QED
  BY <1>1, <1>2, <1>3, <1>4, <1>5, <1>6, <1>7, <1>8, <1>9, <1>10, <1>11,
     <1>12, <1>13, ZenonT(20)
     DEF vars, Next, ReplicaStep, DeliveryStep, JobStep, Resolved,
         Campaign, SessionExpires, SessionLost, NoticeLoss, Shutdown,
         TermEnds, Crash, Restart, ReclaimSkips, ReclaimRead, ClaimRead,
         ClaimFails, HandlerOk, HandlerErr, FenceRead, FenceGivesUp,
         BookkeepingFails, RenewRead, RenewLost, RenewFails, RenewerStops,
         CancelRead, CancelTerm

(* Nothing but a success, a cancel or a spent budget deletes a row. *)
LEMMA NothingLostStep == IInv /\ [Next]_vars => NothingLost'
<1> SUFFICES ASSUME IInv, [Next]_vars PROVE NothingLost'
  OBVIOUS
<1> USE NoDeliveryFresh, NoJobFresh, NoReplicaFresh, BudgetPositive
<1> USE DEF IInv, jobVars, dlvVars, repVars, history, Write, jobWithRev,
            Unchanged, Forget, OwnClaim, Idle, Ended
<1> USE DEF Shape, Rows, WorkReads, NothingLost, CancelReads, TypeOK, Job,
            JobState, Lease, Delivery, PhaseOf, Actors
<1>1. CASE UNCHANGED <<job, succeeded, cancelled>>
  BY <1>1
<1>2. ASSUME NEW r \in Replicas, Reclaim(r) PROVE NothingLost'
  BY <1>2 DEF Reclaim, PendingRow
<1>3. ASSUME NEW r \in Replicas, NEW j \in Jobs, DeleteFailedJob(r, j)
      PROVE  NothingLost'
  BY <1>3 DEF DeleteFailedJob, GoneRow
<1>4. ASSUME NEW d \in Deliveries, ClaimWins(d) PROVE NothingLost'
  BY <1>4 DEF ClaimWins, ClaimedRow
<1>5. ASSUME NEW d \in Deliveries, ClaimLost(d) PROVE NothingLost'
  BY <1>5 DEF ClaimLost, ClaimedRow
<1>6. ASSUME NEW d \in Deliveries, HandlerOk(d) PROVE NothingLost'
  BY <1>6 DEF HandlerOk
<1>7. ASSUME NEW d \in Deliveries, CompleteJob(d) PROVE NothingLost'
  BY <1>7, ZenonT(20) DEF CompleteJob, GoneRow
<1>8. ASSUME NEW d \in Deliveries, RetryJob(d) PROVE NothingLost'
  BY <1>8 DEF RetryJob, RetriedRow, PendingRow
<1>9. ASSUME NEW d \in Deliveries, RequeueJob(d) PROVE NothingLost'
  BY <1>9 DEF RequeueJob, PendingRow
<1>10. ASSUME NEW d \in Deliveries, RenewJobLease(d) PROVE NothingLost'
  BY <1>10 DEF RenewJobLease
<1>11. ASSUME NEW j \in Jobs, Enqueue(j) PROVE NothingLost'
  BY <1>11 DEF Enqueue
<1>12. ASSUME NEW j \in Jobs, LeaseExpires(j) PROVE NothingLost'
  BY <1>12 DEF LeaseExpires, AgeLease, Renewed
<1>13. ASSUME NEW j \in Jobs, LeaseStalls(j) PROVE NothingLost'
  BY <1>13 DEF LeaseStalls, AgeLease, Renewed
<1>14. ASSUME NEW j \in Jobs, CancelPendingTask(j) PROVE NothingLost'
  BY <1>14, ZenonT(20) DEF CancelPendingTask, Canceller, GoneRow
<1> QED
  BY <1>1, <1>2, <1>3, <1>4, <1>5, <1>6, <1>7, <1>8, <1>9, <1>10, <1>11,
     <1>12, <1>13, <1>14, ZenonT(20)
     DEF vars, Next, ReplicaStep, DeliveryStep, JobStep, Resolved,
         Campaign, SessionExpires, SessionLost, NoticeLoss, Shutdown,
         TermEnds, Crash, Restart, ReclaimSkips, ReclaimRead, ClaimRead,
         ClaimFails, HandlerErr, FenceRead, FenceGivesUp, BookkeepingFails,
         RenewRead, RenewLost, RenewFails, RenewerStops, CancelRead,
         CancelTerm

(* A row's counter never overtakes the errors its handlers returned. *)
LEMMA BudgetStep == IInv /\ [Next]_vars => Budget'
<1> SUFFICES ASSUME IInv, [Next]_vars PROVE Budget'
  OBVIOUS
<1> USE NoDeliveryFresh, NoJobFresh, NoReplicaFresh, BudgetPositive
<1> USE DEF IInv, jobVars, dlvVars, repVars, history, Write, jobWithRev,
            Unchanged, Forget, OwnClaim, Idle, Ended
<1> USE DEF Shape, Rows, WorkReads, Budget, TypeOK, Job, JobState, Lease,
            Delivery, PhaseOf, Actors
<1>1. CASE UNCHANGED <<job, errors, dlv>>
  BY <1>1
<1>2. ASSUME NEW r \in Replicas, NoticeLoss(r) PROVE Budget'
  BY <1>2 DEF NoticeLoss, CancelTerm, Working
<1>3. ASSUME NEW r \in Replicas, Shutdown(r) PROVE Budget'
  BY <1>3 DEF Shutdown, CancelTerm, Working
<1>4. ASSUME NEW r \in Replicas, Crash(r) PROVE Budget'
  BY <1>4 DEF Crash
<1>5. ASSUME NEW r \in Replicas, Reclaim(r) PROVE Budget'
  BY <1>5 DEF Reclaim, PendingRow
<1>6. ASSUME NEW r \in Replicas, NEW j \in Jobs, DeleteFailedJob(r, j)
      PROVE  Budget'
  BY <1>6 DEF DeleteFailedJob, GoneRow
<1>7. ASSUME NEW d \in Deliveries, NEW r \in Replicas, NEW j \in Jobs, ClaimRead(d, r, j)
      PROVE  Budget'
  BY <1>7, ZenonT(20) DEF ClaimRead
<1>8. ASSUME NEW d \in Deliveries, ClaimWins(d) PROVE Budget'
  BY <1>8 DEF ClaimWins, ClaimedRow
<1>9. ASSUME NEW d \in Deliveries, ClaimLost(d) PROVE Budget'
  BY <1>9 DEF ClaimLost, ClaimedRow
<1>10. ASSUME NEW d \in Deliveries, ClaimFails(d) PROVE Budget'
  BY <1>10 DEF ClaimFails
<1>11. ASSUME NEW d \in Deliveries, HandlerOk(d) PROVE Budget'
  BY <1>11 DEF HandlerOk
<1>12. ASSUME NEW d \in Deliveries, HandlerErr(d) PROVE Budget'
  BY <1>12 DEF HandlerErr
<1>13. ASSUME NEW d \in Deliveries, CompleteJob(d) PROVE Budget'
  BY <1>13 DEF CompleteJob, GoneRow
<1>14. ASSUME NEW d \in Deliveries, FenceRead(d) PROVE Budget'
  BY <1>14 DEF FenceRead
<1>15. ASSUME NEW d \in Deliveries, FenceGivesUp(d) PROVE Budget'
  BY <1>15, ZenonT(20) DEF FenceGivesUp
<1>16. ASSUME NEW d \in Deliveries, RetryJob(d) PROVE Budget'
  BY <1>16 DEF RetryJob, RetriedRow, PendingRow
<1>17. ASSUME NEW d \in Deliveries, RequeueJob(d) PROVE Budget'
  BY <1>17 DEF RequeueJob, PendingRow
<1>18. ASSUME NEW d \in Deliveries, BookkeepingFails(d) PROVE Budget'
  BY <1>18 DEF BookkeepingFails
<1>19. ASSUME NEW d \in Deliveries, RenewJobLease(d) PROVE Budget'
  BY <1>19 DEF RenewJobLease
<1>20. ASSUME NEW d \in Deliveries, RenewLost(d) PROVE Budget'
  BY <1>20 DEF RenewLost, TickDue
<1>21. ASSUME NEW d \in Deliveries, RenewerStops(d) PROVE Budget'
  BY <1>21 DEF RenewerStops
<1>22. ASSUME NEW j \in Jobs, Enqueue(j) PROVE Budget'
  BY <1>22 DEF Enqueue
<1>23. ASSUME NEW j \in Jobs, LeaseExpires(j) PROVE Budget'
  BY <1>23 DEF LeaseExpires, AgeLease, Renewed
<1>24. ASSUME NEW j \in Jobs, LeaseStalls(j) PROVE Budget'
  BY <1>24 DEF LeaseStalls, AgeLease, Renewed
<1>25. ASSUME NEW j \in Jobs, CancelPendingTask(j) PROVE Budget'
  BY <1>25 DEF CancelPendingTask, Canceller, GoneRow
<1> QED
  BY <1>1, <1>2, <1>3, <1>4, <1>5, <1>6, <1>7, <1>8, <1>9, <1>10, <1>11,
     <1>12, <1>13, <1>14, <1>15, <1>16, <1>17, <1>18, <1>19, <1>20, <1>21,
     <1>22, <1>23, <1>24, <1>25, ZenonT(20)
     DEF vars, Next, ReplicaStep, DeliveryStep, JobStep, Resolved,
         Campaign, SessionExpires, SessionLost, TermEnds, Restart,
         ReclaimSkips, ReclaimRead, RenewRead, RenewFails, CancelRead

(* What a worker read is what its compare will find. *)
LEMMA WorkReadsStep == IInv /\ [Next]_vars => WorkReads'
<1> SUFFICES ASSUME IInv, [Next]_vars PROVE WorkReads'
  OBVIOUS
<1> USE NoDeliveryFresh, NoJobFresh, NoReplicaFresh, BudgetPositive
<1> USE DEF IInv, jobVars, dlvVars, repVars, history, Write, jobWithRev,
            Unchanged, Forget, OwnClaim, Idle, Ended
<1> USE DEF Shape, WorkReads, Canceller, TypeOK, Job, JobState, Lease,
            Delivery, PhaseOf, Actors
<1>1. CASE UNCHANGED <<job, current, dlv>>
  BY <1>1
<1>2. ASSUME NEW r \in Replicas, NoticeLoss(r) PROVE WorkReads'
  BY <1>2 DEF NoticeLoss, CancelTerm, Working
<1>3. ASSUME NEW r \in Replicas, Shutdown(r) PROVE WorkReads'
  BY <1>3 DEF Shutdown, CancelTerm, Working
<1>4. ASSUME NEW r \in Replicas, Crash(r) PROVE WorkReads'
  BY <1>4, ZenonT(20) DEF Crash
<1>5. ASSUME NEW r \in Replicas, Reclaim(r) PROVE WorkReads'
  BY <1>5, ZenonT(20) DEF Reclaim, PendingRow
<1>6. ASSUME NEW r \in Replicas, ReclaimSkips(r) PROVE WorkReads'
  BY <1>6, ZenonT(20) DEF ReclaimSkips
<1>7. ASSUME NEW r \in Replicas, NEW j \in Jobs, ReclaimRead(r, j)
      PROVE  WorkReads'
  BY <1>7 DEF ReclaimRead
<1>8. ASSUME NEW r \in Replicas, NEW j \in Jobs, DeleteFailedJob(r, j)
      PROVE  WorkReads'
  BY <1>8 DEF DeleteFailedJob, GoneRow
<1>9. ASSUME NEW d \in Deliveries, NEW r \in Replicas, NEW j \in Jobs, ClaimRead(d, r, j)
      PROVE  WorkReads'
  BY <1>9, ZenonT(20) DEF ClaimRead
<1>10. ASSUME NEW d \in Deliveries, ClaimWins(d) PROVE WorkReads'
  BY <1>10 DEF ClaimWins, ClaimedRow
<1>11. ASSUME NEW d \in Deliveries, ClaimLost(d) PROVE WorkReads'
  BY <1>11, ZenonT(20) DEF ClaimLost, ClaimedRow
<1>12. ASSUME NEW d \in Deliveries, ClaimFails(d) PROVE WorkReads'
  BY <1>12 DEF ClaimFails
<1>13. ASSUME NEW d \in Deliveries, HandlerOk(d) PROVE WorkReads'
  BY <1>13 DEF HandlerOk
<1>14. ASSUME NEW d \in Deliveries, HandlerErr(d) PROVE WorkReads'
  BY <1>14 DEF HandlerErr
<1>15. ASSUME NEW d \in Deliveries, CompleteJob(d) PROVE WorkReads'
  BY <1>15, ZenonT(20) DEF CompleteJob, GoneRow
<1>16. ASSUME NEW d \in Deliveries, FenceRead(d) PROVE WorkReads'
  BY <1>16 DEF FenceRead
<1>17. ASSUME NEW d \in Deliveries, FenceGivesUp(d) PROVE WorkReads'
  BY <1>17, ZenonT(20) DEF FenceGivesUp
<1>18. ASSUME NEW d \in Deliveries, RetryJob(d) PROVE WorkReads'
  BY <1>18, ZenonT(20) DEF RetryJob, RetriedRow, PendingRow
<1>19. ASSUME NEW d \in Deliveries, RequeueJob(d) PROVE WorkReads'
  BY <1>19, ZenonT(20) DEF RequeueJob, PendingRow
<1>20. ASSUME NEW d \in Deliveries, BookkeepingFails(d) PROVE WorkReads'
  BY <1>20, ZenonT(20) DEF BookkeepingFails
<1>21. ASSUME NEW d \in Deliveries, RenewRead(d) PROVE WorkReads'
  BY <1>21, ZenonT(20) DEF RenewRead, TickDue
<1>22. ASSUME NEW d \in Deliveries, RenewJobLease(d) PROVE WorkReads'
  BY <1>22, ZenonT(20) DEF RenewJobLease
<1>23. ASSUME NEW d \in Deliveries, RenewLost(d) PROVE WorkReads'
  BY <1>23 DEF RenewLost, TickDue
<1>24. ASSUME NEW d \in Deliveries, RenewFails(d) PROVE WorkReads'
  BY <1>24, ZenonT(20) DEF RenewFails
<1>25. ASSUME NEW d \in Deliveries, RenewerStops(d) PROVE WorkReads'
  BY <1>25 DEF RenewerStops
<1>26. ASSUME NEW j \in Jobs, Enqueue(j) PROVE WorkReads'
  BY <1>26 DEF Enqueue
<1>27. ASSUME NEW j \in Jobs, LeaseExpires(j) PROVE WorkReads'
  BY <1>27 DEF LeaseExpires, AgeLease, Renewed
<1>28. ASSUME NEW j \in Jobs, LeaseStalls(j) PROVE WorkReads'
  BY <1>28 DEF LeaseStalls, AgeLease, Renewed
<1>29. ASSUME NEW j \in Jobs, CancelRead(j) PROVE WorkReads'
  BY <1>29 DEF CancelRead, Canceller
<1>30. ASSUME NEW j \in Jobs, CancelPendingTask(j) PROVE WorkReads'
  BY <1>30, ZenonT(20) DEF CancelPendingTask, Canceller, GoneRow
<1> QED
  BY <1>1, <1>2, <1>3, <1>4, <1>5, <1>6, <1>7, <1>8, <1>9, <1>10, <1>11,
     <1>12, <1>13, <1>14, <1>15, <1>16, <1>17, <1>18, <1>19, <1>20, <1>21,
     <1>22, <1>23, <1>24, <1>25, <1>26, <1>27, <1>28, <1>29, <1>30, ZenonT(20)
     DEF vars, Next, ReplicaStep, DeliveryStep, JobStep, Resolved,
         Campaign, SessionExpires, SessionLost, TermEnds, Restart

(* A renewer's compare succeeds exactly while the claim is its own: no other
   writer touches a running row and leaves the claim in place. *)
LEMMA RenewReadsStep == IInv /\ [Next]_vars => RenewReads'
<1> SUFFICES ASSUME IInv, [Next]_vars PROVE RenewReads'
  OBVIOUS
<1> USE NoDeliveryFresh, NoJobFresh, NoReplicaFresh, BudgetPositive
<1> USE DEF IInv, jobVars, dlvVars, repVars, history, Write, jobWithRev,
            Unchanged, Forget, OwnClaim, Idle, Ended
<1> USE DEF Shape, WorkReads, RenewReads, Canceller, TypeOK, Job,
            JobState, Lease, Delivery, PhaseOf, Actors
<1>1. CASE UNCHANGED <<job, current, dlv, renewer>>
  BY <1>1
<1>2. ASSUME NEW r \in Replicas, NoticeLoss(r) PROVE RenewReads'
  BY <1>2 DEF NoticeLoss, CancelTerm, Working
<1>3. ASSUME NEW r \in Replicas, Shutdown(r) PROVE RenewReads'
  BY <1>3 DEF Shutdown, CancelTerm, Working
<1>4. ASSUME NEW r \in Replicas, Crash(r) PROVE RenewReads'
  BY <1>4 DEF Crash
<1>5. ASSUME NEW r \in Replicas, Reclaim(r) PROVE RenewReads'
  BY <1>5 DEF Reclaim, PendingRow
<1>6. ASSUME NEW r \in Replicas, ReclaimSkips(r) PROVE RenewReads'
  BY <1>6, ZenonT(20) DEF ReclaimSkips
<1>7. ASSUME NEW r \in Replicas, NEW j \in Jobs, ReclaimRead(r, j)
      PROVE  RenewReads'
  BY <1>7 DEF ReclaimRead
<1>8. ASSUME NEW r \in Replicas, NEW j \in Jobs, DeleteFailedJob(r, j)
      PROVE  RenewReads'
  BY <1>8 DEF DeleteFailedJob, GoneRow
<1>9. ASSUME NEW d \in Deliveries, NEW r \in Replicas, NEW j \in Jobs, ClaimRead(d, r, j)
      PROVE  RenewReads'
  BY <1>9 DEF ClaimRead
<1>10. ASSUME NEW d \in Deliveries, ClaimWins(d) PROVE RenewReads'
  BY <1>10 DEF ClaimWins, ClaimedRow
<1>11. ASSUME NEW d \in Deliveries, ClaimLost(d) PROVE RenewReads'
  BY <1>11 DEF ClaimLost, ClaimedRow
<1>12. ASSUME NEW d \in Deliveries, ClaimFails(d) PROVE RenewReads'
  BY <1>12 DEF ClaimFails
<1>13. ASSUME NEW d \in Deliveries, HandlerOk(d) PROVE RenewReads'
  BY <1>13 DEF HandlerOk
<1>14. ASSUME NEW d \in Deliveries, HandlerErr(d) PROVE RenewReads'
  BY <1>14 DEF HandlerErr
<1>15. ASSUME NEW d \in Deliveries, CompleteJob(d) PROVE RenewReads'
  BY <1>15 DEF CompleteJob, GoneRow
<1>16. ASSUME NEW d \in Deliveries, FenceRead(d) PROVE RenewReads'
  BY <1>16 DEF FenceRead
<1>17. ASSUME NEW d \in Deliveries, FenceGivesUp(d) PROVE RenewReads'
  BY <1>17 DEF FenceGivesUp
<1>18. ASSUME NEW d \in Deliveries, RetryJob(d) PROVE RenewReads'
  BY <1>18 DEF RetryJob, RetriedRow, PendingRow
<1>19. ASSUME NEW d \in Deliveries, RequeueJob(d) PROVE RenewReads'
  BY <1>19 DEF RequeueJob, PendingRow
<1>20. ASSUME NEW d \in Deliveries, BookkeepingFails(d) PROVE RenewReads'
  BY <1>20 DEF BookkeepingFails
<1>21. ASSUME NEW d \in Deliveries, RenewRead(d) PROVE RenewReads'
  BY <1>21 DEF RenewRead, TickDue
<1>22. ASSUME NEW d \in Deliveries, RenewJobLease(d) PROVE RenewReads'
  BY <1>22 DEF RenewJobLease
<1>23. ASSUME NEW d \in Deliveries, RenewLost(d) PROVE RenewReads'
  BY <1>23 DEF RenewLost, TickDue
<1>24. ASSUME NEW d \in Deliveries, RenewFails(d) PROVE RenewReads'
  BY <1>24 DEF RenewFails
<1>25. ASSUME NEW d \in Deliveries, RenewerStops(d) PROVE RenewReads'
  BY <1>25 DEF RenewerStops
<1>26. ASSUME NEW j \in Jobs, Enqueue(j) PROVE RenewReads'
  BY <1>26 DEF Enqueue
<1>27. ASSUME NEW j \in Jobs, LeaseExpires(j) PROVE RenewReads'
  BY <1>27 DEF LeaseExpires, AgeLease, Renewed
<1>28. ASSUME NEW j \in Jobs, LeaseStalls(j) PROVE RenewReads'
  BY <1>28 DEF LeaseStalls, AgeLease, Renewed
<1>29. ASSUME NEW j \in Jobs, CancelRead(j) PROVE RenewReads'
  BY <1>29 DEF CancelRead, Canceller
<1>30. ASSUME NEW j \in Jobs, CancelPendingTask(j) PROVE RenewReads'
  BY <1>30 DEF CancelPendingTask, Canceller, GoneRow
<1> QED
  BY <1>1, <1>2, <1>3, <1>4, <1>5, <1>6, <1>7, <1>8, <1>9, <1>10, <1>11,
     <1>12, <1>13, <1>14, <1>15, <1>16, <1>17, <1>18, <1>19, <1>20, <1>21,
     <1>22, <1>23, <1>24, <1>25, <1>26, <1>27, <1>28, <1>29, <1>30, ZenonT(20)
     DEF vars, Next, ReplicaStep, DeliveryStep, JobStep, Resolved,
         Campaign, SessionExpires, SessionLost, TermEnds, Restart

(* The reaper takes only rows whose lease it saw stale. *)
LEMMA ReapReadsStep == IInv /\ [Next]_vars => ReapReads'
<1> SUFFICES ASSUME IInv, [Next]_vars PROVE ReapReads'
  OBVIOUS
<1> USE NoDeliveryFresh, NoJobFresh, NoReplicaFresh, BudgetPositive
<1> USE DEF IInv, jobVars, dlvVars, repVars, history, Write, jobWithRev,
            Unchanged, Forget, OwnClaim, Idle, Ended
<1> USE DEF Shape, ReapReads, Canceller, TypeOK, Job, JobState, Lease,
            Delivery, PhaseOf, Actors
<1>1. CASE UNCHANGED <<job, current, reap>>
  BY <1>1, ZenonT(20)
<1>2. ASSUME NEW r \in Replicas, Crash(r) PROVE ReapReads'
  BY <1>2 DEF Crash
<1>3. ASSUME NEW r \in Replicas, Reclaim(r) PROVE ReapReads'
  BY <1>3, ZenonT(20) DEF Reclaim, PendingRow
<1>4. ASSUME NEW r \in Replicas, ReclaimSkips(r) PROVE ReapReads'
  BY <1>4, ZenonT(20) DEF ReclaimSkips
<1>5. ASSUME NEW r \in Replicas, NEW j \in Jobs, ReclaimRead(r, j)
      PROVE  ReapReads'
  BY <1>5 DEF ReclaimRead
<1>6. ASSUME NEW r \in Replicas, NEW j \in Jobs, DeleteFailedJob(r, j)
      PROVE  ReapReads'
  BY <1>6 DEF DeleteFailedJob, GoneRow
<1>7. ASSUME NEW d \in Deliveries, NEW r \in Replicas, NEW j \in Jobs, ClaimRead(d, r, j)
      PROVE  ReapReads'
  BY <1>7 DEF ClaimRead
<1>8. ASSUME NEW d \in Deliveries, ClaimWins(d) PROVE ReapReads'
  BY <1>8 DEF ClaimWins, ClaimedRow
<1>9. ASSUME NEW d \in Deliveries, ClaimLost(d) PROVE ReapReads'
  BY <1>9, ZenonT(20) DEF ClaimLost, ClaimedRow
<1>10. ASSUME NEW d \in Deliveries, ClaimFails(d) PROVE ReapReads'
  BY <1>10 DEF ClaimFails
<1>11. ASSUME NEW d \in Deliveries, CompleteJob(d) PROVE ReapReads'
  BY <1>11 DEF CompleteJob, GoneRow
<1>12. ASSUME NEW d \in Deliveries, FenceRead(d) PROVE ReapReads'
  BY <1>12, ZenonT(20) DEF FenceRead
<1>13. ASSUME NEW d \in Deliveries, RetryJob(d) PROVE ReapReads'
  BY <1>13 DEF RetryJob, RetriedRow, PendingRow
<1>14. ASSUME NEW d \in Deliveries, RequeueJob(d) PROVE ReapReads'
  BY <1>14 DEF RequeueJob, PendingRow
<1>15. ASSUME NEW d \in Deliveries, BookkeepingFails(d) PROVE ReapReads'
  BY <1>15, ZenonT(20) DEF BookkeepingFails
<1>16. ASSUME NEW d \in Deliveries, RenewRead(d) PROVE ReapReads'
  BY <1>16 DEF RenewRead, TickDue
<1>17. ASSUME NEW d \in Deliveries, RenewJobLease(d) PROVE ReapReads'
  BY <1>17, ZenonT(20) DEF RenewJobLease
<1>18. ASSUME NEW d \in Deliveries, RenewFails(d) PROVE ReapReads'
  BY <1>18 DEF RenewFails
<1>19. ASSUME NEW j \in Jobs, Enqueue(j) PROVE ReapReads'
  BY <1>19 DEF Enqueue
<1>20. ASSUME NEW j \in Jobs, LeaseExpires(j) PROVE ReapReads'
  BY <1>20 DEF LeaseExpires, AgeLease, Renewed
<1>21. ASSUME NEW j \in Jobs, LeaseStalls(j) PROVE ReapReads'
  BY <1>21, ZenonT(20) DEF LeaseStalls, AgeLease, Renewed
<1>22. ASSUME NEW j \in Jobs, CancelRead(j) PROVE ReapReads'
  BY <1>22 DEF CancelRead, Canceller
<1>23. ASSUME NEW j \in Jobs, CancelPendingTask(j) PROVE ReapReads'
  BY <1>23, ZenonT(20) DEF CancelPendingTask, Canceller, GoneRow
<1> QED
  BY <1>1, <1>2, <1>3, <1>4, <1>5, <1>6, <1>7, <1>8, <1>9, <1>10, <1>11,
     <1>12, <1>13, <1>14, <1>15, <1>16, <1>17, <1>18, <1>19, <1>20, <1>21,
     <1>22, <1>23, ZenonT(20)
     DEF vars, Next, ReplicaStep, DeliveryStep, JobStep, Resolved,
         Campaign, SessionExpires, SessionLost, NoticeLoss, Shutdown,
         TermEnds, Restart, HandlerOk, HandlerErr, FenceGivesUp, RenewLost,
         RenewerStops, CancelTerm

(* The canceller deletes only rows it saw pending. *)
LEMMA CancelReadsStep == IInv /\ [Next]_vars => CancelReads'
<1> SUFFICES ASSUME IInv, [Next]_vars PROVE CancelReads'
  OBVIOUS
<1> USE NoDeliveryFresh, NoJobFresh, NoReplicaFresh, BudgetPositive
<1> USE DEF IInv, jobVars, dlvVars, repVars, history, Write, jobWithRev,
            Unchanged, Forget, OwnClaim, Idle, Ended
<1> USE DEF Shape, CancelReads, Canceller, TypeOK, Job, JobState, Lease,
            Delivery, PhaseOf, Actors
<1>1. CASE UNCHANGED <<job, current>>
  BY <1>1, ZenonT(20)
<1>2. ASSUME NEW r \in Replicas, Crash(r) PROVE CancelReads'
  BY <1>2 DEF Crash
<1>3. ASSUME NEW r \in Replicas, Reclaim(r) PROVE CancelReads'
  BY <1>3 DEF Reclaim, PendingRow
<1>4. ASSUME NEW r \in Replicas, ReclaimSkips(r) PROVE CancelReads'
  BY <1>4, ZenonT(20) DEF ReclaimSkips
<1>5. ASSUME NEW r \in Replicas, NEW j \in Jobs, ReclaimRead(r, j)
      PROVE  CancelReads'
  BY <1>5 DEF ReclaimRead
<1>6. ASSUME NEW r \in Replicas, NEW j \in Jobs, DeleteFailedJob(r, j)
      PROVE  CancelReads'
  BY <1>6 DEF DeleteFailedJob, GoneRow
<1>7. ASSUME NEW d \in Deliveries, NEW r \in Replicas, NEW j \in Jobs, ClaimRead(d, r, j)
      PROVE  CancelReads'
  BY <1>7 DEF ClaimRead
<1>8. ASSUME NEW d \in Deliveries, ClaimWins(d) PROVE CancelReads'
  BY <1>8 DEF ClaimWins, ClaimedRow
<1>9. ASSUME NEW d \in Deliveries, ClaimLost(d) PROVE CancelReads'
  BY <1>9, ZenonT(20) DEF ClaimLost, ClaimedRow
<1>10. ASSUME NEW d \in Deliveries, ClaimFails(d) PROVE CancelReads'
  BY <1>10 DEF ClaimFails
<1>11. ASSUME NEW d \in Deliveries, CompleteJob(d) PROVE CancelReads'
  BY <1>11 DEF CompleteJob, GoneRow
<1>12. ASSUME NEW d \in Deliveries, FenceRead(d) PROVE CancelReads'
  BY <1>12 DEF FenceRead
<1>13. ASSUME NEW d \in Deliveries, RetryJob(d) PROVE CancelReads'
  BY <1>13 DEF RetryJob, RetriedRow, PendingRow
<1>14. ASSUME NEW d \in Deliveries, RequeueJob(d) PROVE CancelReads'
  BY <1>14 DEF RequeueJob, PendingRow
<1>15. ASSUME NEW d \in Deliveries, BookkeepingFails(d) PROVE CancelReads'
  BY <1>15, ZenonT(20) DEF BookkeepingFails
<1>16. ASSUME NEW d \in Deliveries, RenewRead(d) PROVE CancelReads'
  BY <1>16 DEF RenewRead, TickDue
<1>17. ASSUME NEW d \in Deliveries, RenewJobLease(d) PROVE CancelReads'
  BY <1>17, ZenonT(20) DEF RenewJobLease
<1>18. ASSUME NEW d \in Deliveries, RenewFails(d) PROVE CancelReads'
  BY <1>18 DEF RenewFails
<1>19. ASSUME NEW j \in Jobs, Enqueue(j) PROVE CancelReads'
  BY <1>19 DEF Enqueue
<1>20. ASSUME NEW j \in Jobs, LeaseExpires(j) PROVE CancelReads'
  BY <1>20 DEF LeaseExpires, AgeLease, Renewed
<1>21. ASSUME NEW j \in Jobs, LeaseStalls(j) PROVE CancelReads'
  BY <1>21, ZenonT(20) DEF LeaseStalls, AgeLease, Renewed
<1>22. ASSUME NEW j \in Jobs, CancelRead(j) PROVE CancelReads'
  BY <1>22 DEF CancelRead, Canceller
<1>23. ASSUME NEW j \in Jobs, CancelPendingTask(j) PROVE CancelReads'
  BY <1>23, ZenonT(20) DEF CancelPendingTask, Canceller, GoneRow
<1> QED
  BY <1>1, <1>2, <1>3, <1>4, <1>5, <1>6, <1>7, <1>8, <1>9, <1>10, <1>11,
     <1>12, <1>13, <1>14, <1>15, <1>16, <1>17, <1>18, <1>19, <1>20, <1>21,
     <1>22, <1>23, ZenonT(20)
     DEF vars, Next, ReplicaStep, DeliveryStep, JobStep, Resolved,
         Campaign, SessionExpires, SessionLost, NoticeLoss, Shutdown,
         TermEnds, Restart, HandlerOk, HandlerErr, FenceGivesUp, RenewLost,
         RenewerStops, CancelTerm

(* A working delivery keeps its claim until a stall. *)
LEMMA OwnedStep == IInv /\ [Next]_vars => Owned'
<1> SUFFICES ASSUME IInv, [Next]_vars PROVE Owned'
  OBVIOUS
<1> USE NoDeliveryFresh, NoJobFresh, NoReplicaFresh, BudgetPositive
<1> USE DEF IInv, jobVars, dlvVars, repVars, history, Write, jobWithRev,
            Unchanged, Forget, OwnClaim, Idle, Ended
<1> USE DEF Shape, Owned, WorkReads, RenewReads, ReapReads, CancelReads,
            Renewing, Active, TypeOK, Job, JobState, Lease, Delivery,
            PhaseOf, Actors
<1>1. CASE UNCHANGED <<job, dlv, stalled>>
  BY <1>1, ZenonT(20)
<1>2. ASSUME NEW r \in Replicas, NoticeLoss(r) PROVE Owned'
  BY <1>2 DEF NoticeLoss, CancelTerm, Working
<1>3. ASSUME NEW r \in Replicas, Shutdown(r) PROVE Owned'
  BY <1>3 DEF Shutdown, CancelTerm, Working
<1>4. ASSUME NEW r \in Replicas, Crash(r) PROVE Owned'
  BY <1>4, ZenonT(20) DEF Crash
<1>5. ASSUME NEW r \in Replicas, Reclaim(r) PROVE Owned'
  BY <1>5 DEF Reclaim, PendingRow
<1>6. ASSUME NEW r \in Replicas, NEW j \in Jobs, DeleteFailedJob(r, j)
      PROVE  Owned'
  BY <1>6 DEF DeleteFailedJob, GoneRow
<1>7. ASSUME NEW d \in Deliveries, NEW r \in Replicas, NEW j \in Jobs, ClaimRead(d, r, j)
      PROVE  Owned'
  BY <1>7 DEF ClaimRead
<1>8. ASSUME NEW d \in Deliveries, ClaimWins(d) PROVE Owned'
  BY <1>8 DEF ClaimWins, ClaimedRow
<1>9. ASSUME NEW d \in Deliveries, ClaimLost(d) PROVE Owned'
  BY <1>9, SMTT(40) DEF ClaimLost, ClaimedRow
<1>10. ASSUME NEW d \in Deliveries, ClaimFails(d) PROVE Owned'
  BY <1>10 DEF ClaimFails
<1>11. ASSUME NEW d \in Deliveries, HandlerOk(d) PROVE Owned'
  BY <1>11 DEF HandlerOk
<1>12. ASSUME NEW d \in Deliveries, HandlerErr(d) PROVE Owned'
  BY <1>12 DEF HandlerErr
<1>13. ASSUME NEW d \in Deliveries, CompleteJob(d) PROVE Owned'
  BY <1>13 DEF CompleteJob, GoneRow
<1>14. ASSUME NEW d \in Deliveries, FenceRead(d) PROVE Owned'
  BY <1>14 DEF FenceRead
<1>15. ASSUME NEW d \in Deliveries, FenceGivesUp(d) PROVE Owned'
  BY <1>15, SMTT(40) DEF FenceGivesUp
<1>16. ASSUME NEW d \in Deliveries, RetryJob(d) PROVE Owned'
  BY <1>16 DEF RetryJob, RetriedRow, PendingRow
<1>17. ASSUME NEW d \in Deliveries, RequeueJob(d) PROVE Owned'
  BY <1>17 DEF RequeueJob, PendingRow
<1>18. ASSUME NEW d \in Deliveries, BookkeepingFails(d) PROVE Owned'
  BY <1>18 DEF BookkeepingFails
<1>19. ASSUME NEW d \in Deliveries, RenewJobLease(d) PROVE Owned'
  BY <1>19 DEF RenewJobLease
<1>20. ASSUME NEW d \in Deliveries, RenewLost(d) PROVE Owned'
  BY <1>20 DEF RenewLost, TickDue
<1>21. ASSUME NEW d \in Deliveries, RenewerStops(d) PROVE Owned'
  BY <1>21 DEF RenewerStops
<1>22. ASSUME NEW j \in Jobs, Enqueue(j) PROVE Owned'
  BY <1>22 DEF Enqueue
<1>23. ASSUME NEW j \in Jobs, LeaseExpires(j) PROVE Owned'
  BY <1>23 DEF LeaseExpires, AgeLease, Renewed
<1>24. ASSUME NEW j \in Jobs, LeaseStalls(j) PROVE Owned'
  BY <1>24 DEF LeaseStalls, AgeLease, Renewed
<1>25. ASSUME NEW j \in Jobs, CancelPendingTask(j) PROVE Owned'
  BY <1>25 DEF CancelPendingTask, Canceller, GoneRow
<1> QED
  BY <1>1, <1>2, <1>3, <1>4, <1>5, <1>6, <1>7, <1>8, <1>9, <1>10, <1>11,
     <1>12, <1>13, <1>14, <1>15, <1>16, <1>17, <1>18, <1>19, <1>20, <1>21,
     <1>22, <1>23, <1>24, <1>25, ZenonT(20)
     DEF vars, Next, ReplicaStep, DeliveryStep, JobStep, Resolved,
         Campaign, SessionExpires, SessionLost, TermEnds, Restart,
         ReclaimSkips, ReclaimRead, RenewRead, RenewFails, CancelRead

(* It keeps its renewer, so its lease goes stale only by a stall. *)
LEMMA RenewingStep == IInv /\ [Next]_vars => Renewing'
<1> SUFFICES ASSUME IInv, [Next]_vars PROVE Renewing'
  OBVIOUS
<1> USE NoDeliveryFresh, NoJobFresh, NoReplicaFresh, BudgetPositive
<1> USE DEF IInv, jobVars, dlvVars, repVars, history, Write, jobWithRev,
            Unchanged, Forget, OwnClaim, Idle, Ended
<1> USE DEF Shape, WorkReads, RenewReads, Owned, Renewing, Active, TypeOK,
            Job, JobState, Lease, Delivery, PhaseOf, Actors
<1>1. CASE UNCHANGED <<job, dlv, renewer, stalled>>
  BY <1>1, ZenonT(20)
<1>2. ASSUME NEW r \in Replicas, NoticeLoss(r) PROVE Renewing'
  BY <1>2 DEF NoticeLoss, CancelTerm, Working
<1>3. ASSUME NEW r \in Replicas, Shutdown(r) PROVE Renewing'
  BY <1>3 DEF Shutdown, CancelTerm, Working
<1>4. ASSUME NEW r \in Replicas, Crash(r) PROVE Renewing'
  BY <1>4, ZenonT(20) DEF Crash
<1>5. ASSUME NEW r \in Replicas, Reclaim(r) PROVE Renewing'
  BY <1>5 DEF Reclaim, PendingRow
<1>6. ASSUME NEW r \in Replicas, NEW j \in Jobs, DeleteFailedJob(r, j)
      PROVE  Renewing'
  BY <1>6 DEF DeleteFailedJob, GoneRow
<1>7. ASSUME NEW d \in Deliveries, NEW r \in Replicas, NEW j \in Jobs, ClaimRead(d, r, j)
      PROVE  Renewing'
  BY <1>7 DEF ClaimRead
<1>8. ASSUME NEW d \in Deliveries, ClaimWins(d) PROVE Renewing'
  BY <1>8 DEF ClaimWins, ClaimedRow
<1>9. ASSUME NEW d \in Deliveries, ClaimLost(d) PROVE Renewing'
  BY <1>9, SMTT(40) DEF ClaimLost, ClaimedRow
<1>10. ASSUME NEW d \in Deliveries, ClaimFails(d) PROVE Renewing'
  BY <1>10 DEF ClaimFails
<1>11. ASSUME NEW d \in Deliveries, HandlerOk(d) PROVE Renewing'
  BY <1>11 DEF HandlerOk
<1>12. ASSUME NEW d \in Deliveries, HandlerErr(d) PROVE Renewing'
  BY <1>12 DEF HandlerErr
<1>13. ASSUME NEW d \in Deliveries, CompleteJob(d) PROVE Renewing'
  BY <1>13 DEF CompleteJob, GoneRow
<1>14. ASSUME NEW d \in Deliveries, FenceRead(d) PROVE Renewing'
  BY <1>14 DEF FenceRead
<1>15. ASSUME NEW d \in Deliveries, FenceGivesUp(d) PROVE Renewing'
  BY <1>15, SMTT(40) DEF FenceGivesUp
<1>16. ASSUME NEW d \in Deliveries, RetryJob(d) PROVE Renewing'
  BY <1>16 DEF RetryJob, RetriedRow, PendingRow
<1>17. ASSUME NEW d \in Deliveries, RequeueJob(d) PROVE Renewing'
  BY <1>17 DEF RequeueJob, PendingRow
<1>18. ASSUME NEW d \in Deliveries, BookkeepingFails(d) PROVE Renewing'
  BY <1>18, SMTT(40) DEF BookkeepingFails
<1>19. ASSUME NEW d \in Deliveries, RenewRead(d) PROVE Renewing'
  BY <1>19 DEF RenewRead, TickDue
<1>20. ASSUME NEW d \in Deliveries, RenewJobLease(d) PROVE Renewing'
  BY <1>20, SMTT(40) DEF RenewJobLease
<1>21. ASSUME NEW d \in Deliveries, RenewLost(d) PROVE Renewing'
  BY <1>21 DEF RenewLost, TickDue
<1>22. ASSUME NEW d \in Deliveries, RenewFails(d) PROVE Renewing'
  BY <1>22, SMTT(40) DEF RenewFails
<1>23. ASSUME NEW d \in Deliveries, RenewerStops(d) PROVE Renewing'
  BY <1>23 DEF RenewerStops
<1>24. ASSUME NEW j \in Jobs, Enqueue(j) PROVE Renewing'
  BY <1>24 DEF Enqueue
<1>25. ASSUME NEW j \in Jobs, LeaseExpires(j) PROVE Renewing'
  BY <1>25 DEF LeaseExpires, AgeLease, Renewed
<1>26. ASSUME NEW j \in Jobs, LeaseStalls(j) PROVE Renewing'
  BY <1>26 DEF LeaseStalls, AgeLease, Renewed
<1>27. ASSUME NEW j \in Jobs, CancelPendingTask(j) PROVE Renewing'
  BY <1>27 DEF CancelPendingTask, Canceller, GoneRow
<1> QED
  BY <1>1, <1>2, <1>3, <1>4, <1>5, <1>6, <1>7, <1>8, <1>9, <1>10, <1>11,
     <1>12, <1>13, <1>14, <1>15, <1>16, <1>17, <1>18, <1>19, <1>20, <1>21,
     <1>22, <1>23, <1>24, <1>25, <1>26, <1>27, ZenonT(20)
     DEF vars, Next, ReplicaStep, DeliveryStep, JobStep, Resolved,
         Campaign, SessionExpires, SessionLost, TermEnds, Restart,
         ReclaimSkips, ReclaimRead, CancelRead

(* At most two compares are lost to the delivery's own renewer. *)
LEMMA FenceStep == IInv /\ [Next]_vars => Fence'
<1> SUFFICES ASSUME IInv, [Next]_vars PROVE Fence'
  OBVIOUS
<1> USE NoDeliveryFresh, NoJobFresh, NoReplicaFresh, BudgetPositive
<1> USE DEF IInv, jobVars, dlvVars, repVars, history, Write, jobWithRev,
            Unchanged, Forget, OwnClaim, Idle, Ended
<1> USE DEF Shape, WorkReads, RenewReads, Fence, TypeOK, Job, JobState,
            Lease, Delivery, PhaseOf, Actors
<1>1. CASE UNCHANGED <<job, current, dlv, renewer>>
  BY <1>1
<1>2. ASSUME NEW r \in Replicas, NoticeLoss(r) PROVE Fence'
  BY <1>2 DEF NoticeLoss, CancelTerm, Working
<1>3. ASSUME NEW r \in Replicas, Shutdown(r) PROVE Fence'
  BY <1>3, SMTT(40) DEF Shutdown, CancelTerm, Working
<1>4. ASSUME NEW r \in Replicas, Crash(r) PROVE Fence'
  BY <1>4 DEF Crash
<1>5. ASSUME NEW r \in Replicas, Reclaim(r) PROVE Fence'
  BY <1>5 DEF Reclaim, PendingRow
<1>6. ASSUME NEW r \in Replicas, ReclaimSkips(r) PROVE Fence'
  BY <1>6, ZenonT(20) DEF ReclaimSkips
<1>7. ASSUME NEW r \in Replicas, NEW j \in Jobs, ReclaimRead(r, j)
      PROVE  Fence'
  BY <1>7 DEF ReclaimRead
<1>8. ASSUME NEW r \in Replicas, NEW j \in Jobs, DeleteFailedJob(r, j)
      PROVE  Fence'
  BY <1>8 DEF DeleteFailedJob, GoneRow
<1>9. ASSUME NEW d \in Deliveries, NEW r \in Replicas, NEW j \in Jobs, ClaimRead(d, r, j)
      PROVE  Fence'
  BY <1>9 DEF ClaimRead
<1>10. ASSUME NEW d \in Deliveries, ClaimWins(d) PROVE Fence'
  BY <1>10, SMTT(40) DEF ClaimWins, ClaimedRow
<1>11. ASSUME NEW d \in Deliveries, ClaimLost(d) PROVE Fence'
  BY <1>11 DEF ClaimLost, ClaimedRow
<1>12. ASSUME NEW d \in Deliveries, ClaimFails(d) PROVE Fence'
  BY <1>12 DEF ClaimFails
<1>13. ASSUME NEW d \in Deliveries, HandlerOk(d) PROVE Fence'
  BY <1>13 DEF HandlerOk
<1>14. ASSUME NEW d \in Deliveries, HandlerErr(d) PROVE Fence'
  BY <1>14 DEF HandlerErr
<1>15. ASSUME NEW d \in Deliveries, CompleteJob(d) PROVE Fence'
  BY <1>15 DEF CompleteJob, GoneRow
<1>16. ASSUME NEW d \in Deliveries, FenceRead(d) PROVE Fence'
  BY <1>16 DEF FenceRead
<1>17. ASSUME NEW d \in Deliveries, FenceGivesUp(d) PROVE Fence'
  BY <1>17, SMTT(40) DEF FenceGivesUp
<1>18. ASSUME NEW d \in Deliveries, RetryJob(d) PROVE Fence'
  BY <1>18 DEF RetryJob, RetriedRow, PendingRow
<1>19. ASSUME NEW d \in Deliveries, RequeueJob(d) PROVE Fence'
  BY <1>19 DEF RequeueJob, PendingRow
<1>20. ASSUME NEW d \in Deliveries, BookkeepingFails(d) PROVE Fence'
  BY <1>20, SMTT(40) DEF BookkeepingFails
<1>21. ASSUME NEW d \in Deliveries, RenewRead(d) PROVE Fence'
  BY <1>21 DEF RenewRead, TickDue
<1>22. ASSUME NEW d \in Deliveries, RenewJobLease(d) PROVE Fence'
  BY <1>22 DEF RenewJobLease
<1>23. ASSUME NEW d \in Deliveries, RenewLost(d) PROVE Fence'
  BY <1>23 DEF RenewLost, TickDue
<1>24. ASSUME NEW d \in Deliveries, RenewFails(d) PROVE Fence'
  BY <1>24, SMTT(40) DEF RenewFails
<1>25. ASSUME NEW d \in Deliveries, RenewerStops(d) PROVE Fence'
  BY <1>25 DEF RenewerStops
<1>26. ASSUME NEW j \in Jobs, Enqueue(j) PROVE Fence'
  BY <1>26 DEF Enqueue
<1>27. ASSUME NEW j \in Jobs, LeaseExpires(j) PROVE Fence'
  BY <1>27 DEF LeaseExpires, AgeLease, Renewed
<1>28. ASSUME NEW j \in Jobs, LeaseStalls(j) PROVE Fence'
  BY <1>28 DEF LeaseStalls, AgeLease, Renewed
<1>29. ASSUME NEW j \in Jobs, CancelRead(j) PROVE Fence'
  BY <1>29, ZenonT(20) DEF CancelRead, Canceller
<1>30. ASSUME NEW j \in Jobs, CancelPendingTask(j) PROVE Fence'
  BY <1>30 DEF CancelPendingTask, Canceller, GoneRow
<1> QED
  BY <1>1, <1>2, <1>3, <1>4, <1>5, <1>6, <1>7, <1>8, <1>9, <1>10, <1>11,
     <1>12, <1>13, <1>14, <1>15, <1>16, <1>17, <1>18, <1>19, <1>20, <1>21,
     <1>22, <1>23, <1>24, <1>25, <1>26, <1>27, <1>28, <1>29, <1>30, ZenonT(20)
     DEF vars, Next, ReplicaStep, DeliveryStep, JobStep, Resolved,
         Campaign, SessionExpires, SessionLost, TermEnds, Restart

-----------------------------------------------------------------------------
(* The initial state satisfies the inductive invariant. *)
LEMMA InitIInv == Init => IInv
<1> SUFFICES ASSUME Init PROVE IInv
  OBVIOUS
<1> USE NoDeliveryFresh, NoJobFresh, NoReplicaFresh, BudgetPositive,
        RetriesSuffice, FaultsNat
<1>1. Idle \in Delivery
  BY DEF Idle, Delivery, PhaseOf
<1>2. TypeOK
  BY <1>1 DEF Init, TypeOK, Job, JobState, Lease
<1>3. Shape /\ Rows /\ NothingLost /\ Budget
  BY DEF Init, Shape, Rows, NothingLost, Budget, Idle, OwnClaim
<1>4. WorkReads /\ RenewReads /\ ReapReads /\ CancelReads
  BY ZenonT(20) DEF Init, WorkReads, RenewReads, ReapReads, CancelReads, Unchanged, Idle
<1>5. Owned /\ Renewing /\ Fence
  BY ZenonT(20) DEF Init, Owned, Renewing, Fence, Active, Idle
<1> QED
  BY <1>2, <1>3, <1>4, <1>5 DEF IInv

(* Every step preserves it. *)
LEMMA NextIInv == IInv /\ [Next]_vars => IInv'
BY TypeStep, ShapeStep, RowsStep, NothingLostStep, BudgetStep,
   WorkReadsStep, RenewReadsStep, ReapReadsStep, CancelReadsStep, OwnedStep,
   RenewingStep, FenceStep DEF IInv

(* The inductive invariant holds in every reachable state. *)
THEOREM Inductive == Spec => []IInv
BY InitIInv, NextIInv, PTL DEF Spec

(* The type invariant of the queue, its consumers and the election. *)
THEOREM TypeCorrect == Spec => []TypeOK
<1>1. IInv => TypeOK
  BY DEF IInv
<1> QED
  BY <1>1, Inductive, PTL

(* No enqueued job is dropped: a deleted row had a success (CompleteJob), a *)
(* cancel while pending, or a spent budget (RetryJob, DeleteFailedJobs).    *)
THEOREM NeverLost == Spec => []NothingLost
<1>1. IInv => NothingLost
  BY ZenonT(20) DEF IInv
<1> QED
  BY <1>1, Inductive, PTL

(* The attempt budget is spent on handler errors alone (RetryJob), never by *)
(* a requeue, a reclaim or a crash.                                        *)
THEOREM BudgetTheorem == Spec => []BudgetSpentOnErrors
<1>1. IInv => BudgetSpentOnErrors
  BY BudgetPositive DEF IInv, TypeOK, Rows, Budget, BudgetSpentOnErrors, Job
<1> QED
  BY <1>1, Inductive, PTL

(* Two handlers of one job run together only after its lease lapsed under  *)
(* a live worker (startRenewer, ReclaimStaleRunningJobs).                  *)
THEOREM SingleRun == Spec => []NoDoubleRunWithoutStall
<1>1. IInv => NoDoubleRunWithoutStall
  <2> SUFFICES ASSUME IInv, NEW d \in Deliveries, NEW e \in Deliveries,
                      dlv[d].job = dlv[e].job, dlv[d].pc = "run",
                      dlv[e].pc = "run", dlv[d].job \notin stalled
               PROVE  d = e
    BY DEF NoDoubleRunWithoutStall
  <2>1. OwnClaim(d, dlv[d].job) /\ OwnClaim(e, dlv[d].job)
    BY ZenonT(20) DEF IInv, Owned, Active
  <2> QED
    BY <2>1 DEF OwnClaim
<1> QED
  BY <1>1, Inductive, PTL

(* A bookkeeping write of a claim still held is never abandoned for lost   *)
(* compares, for any bound of at least three (claimFenceRetries is three). *)
THEOREM FenceTheorem == Spec => []FenceSuffices
<1>1. IInv => FenceSuffices
  BY RetriesSuffice, ZenonT(20) DEF IInv, TypeOK, Delivery, Fence, FenceExhausted,
     FenceSuffices
<1> QED
  BY <1>1, Inductive, PTL

(* One row under one live claim: the body of ClaimIsKept. *)
Keeps(k, x) ==
    /\ OwnClaim(x, k) /\ dlv[x].job = k /\ job[k].lease = "fresh"
    => \/ OwnClaim(x, k)'
       \/ dlv[x].pc \in {"retry", "requeue"}
       \/ job'[k].state = "gone" /\ k \in succeeded

(* Claimed rows change hands only as ClaimIsKept allows. *)
LEMMA KeptStep ==
    ASSUME IInv, [Next]_vars, NEW k \in Jobs, NEW x \in Deliveries
    PROVE  Keeps(k, x)
<1> USE NoDeliveryFresh, NoJobFresh, NoReplicaFresh, BudgetPositive
<1> USE DEF IInv, jobVars, dlvVars, repVars, history, Write, jobWithRev,
            Unchanged, Forget, OwnClaim, Idle, Ended
<1> USE DEF Keeps, Shape, WorkReads, RenewReads, ReapReads, CancelReads,
            TypeOK, Job, JobState, Lease, Delivery, PhaseOf, Actors
<1>1. CASE UNCHANGED job
  BY <1>1
<1>2. ASSUME NEW r \in Replicas, Reclaim(r) PROVE Keeps(k, x)
  BY <1>2 DEF Reclaim, PendingRow
<1>3. ASSUME NEW r \in Replicas, NEW j \in Jobs, DeleteFailedJob(r, j) PROVE Keeps(k, x)
  BY <1>3 DEF DeleteFailedJob, GoneRow
<1>4. ASSUME NEW d \in Deliveries, ClaimWins(d) PROVE Keeps(k, x)
  BY <1>4 DEF ClaimWins, ClaimedRow
<1>5. ASSUME NEW d \in Deliveries, ClaimLost(d) PROVE Keeps(k, x)
  BY <1>5 DEF ClaimLost, ClaimedRow
<1>6. ASSUME NEW d \in Deliveries, CompleteJob(d) PROVE Keeps(k, x)
  BY <1>6 DEF CompleteJob, GoneRow
<1>7. ASSUME NEW d \in Deliveries, RetryJob(d) PROVE Keeps(k, x)
  BY <1>7 DEF RetryJob, RetriedRow, PendingRow
<1>8. ASSUME NEW d \in Deliveries, RequeueJob(d) PROVE Keeps(k, x)
  BY <1>8 DEF RequeueJob, PendingRow
<1>9. ASSUME NEW d \in Deliveries, RenewJobLease(d) PROVE Keeps(k, x)
  BY <1>9 DEF RenewJobLease
<1>10. ASSUME NEW j \in Jobs, Enqueue(j) PROVE Keeps(k, x)
  BY <1>10 DEF Enqueue
<1>11. ASSUME NEW j \in Jobs, LeaseExpires(j) PROVE Keeps(k, x)
  BY <1>11 DEF LeaseExpires, AgeLease, Renewed
<1>12. ASSUME NEW j \in Jobs, LeaseStalls(j) PROVE Keeps(k, x)
  BY <1>12 DEF LeaseStalls, AgeLease, Renewed
<1>13. ASSUME NEW j \in Jobs, CancelPendingTask(j) PROVE Keeps(k, x)
  BY <1>13 DEF CancelPendingTask, Canceller, GoneRow
<1> QED
  BY <1>1, <1>2, <1>3, <1>4, <1>5, <1>6, <1>7, <1>8, <1>9, <1>10, <1>11,
     <1>12, <1>13, ZenonT(60)
     DEF vars, Next, ReplicaStep, DeliveryStep, JobStep, Resolved,
         Campaign, SessionExpires, SessionLost, NoticeLoss, Shutdown,
         TermEnds, Crash, Restart, ReclaimSkips, ReclaimRead, ClaimRead,
         ClaimFails, HandlerOk, HandlerErr, FenceRead, FenceGivesUp,
         BookkeepingFails, RenewRead, RenewLost, RenewFails, RenewerStops,
         CancelRead, CancelTerm

(* One finished row: the body of NoResurrection. *)
StaysDone(k) ==
    /\ job[k].state = "gone" => job'[k].state = "gone"
    /\ job[k].state = "failed" => job'[k].state \in {"failed", "gone"}

(* No write brings a finished row back. *)
LEMMA DoneStep ==
    ASSUME IInv, [Next]_vars, NEW k \in Jobs
    PROVE  StaysDone(k)
<1> USE NoDeliveryFresh, NoJobFresh, NoReplicaFresh, BudgetPositive
<1> USE DEF IInv, jobVars, dlvVars, repVars, history, Write, jobWithRev,
            Unchanged, Forget, OwnClaim, Idle, Ended
<1> USE DEF StaysDone, Shape, WorkReads, RenewReads, ReapReads,
            CancelReads, TypeOK, Job, JobState, Lease, Delivery, PhaseOf,
            Actors
<1>1. CASE UNCHANGED job
  BY <1>1
<1>2. ASSUME NEW r \in Replicas, Reclaim(r) PROVE StaysDone(k)
  BY <1>2 DEF Reclaim, PendingRow
<1>3. ASSUME NEW r \in Replicas, NEW j \in Jobs, DeleteFailedJob(r, j) PROVE StaysDone(k)
  BY <1>3 DEF DeleteFailedJob, GoneRow
<1>4. ASSUME NEW d \in Deliveries, ClaimWins(d) PROVE StaysDone(k)
  BY <1>4 DEF ClaimWins, ClaimedRow
<1>5. ASSUME NEW d \in Deliveries, ClaimLost(d) PROVE StaysDone(k)
  BY <1>5 DEF ClaimLost, ClaimedRow
<1>6. ASSUME NEW d \in Deliveries, CompleteJob(d) PROVE StaysDone(k)
  BY <1>6 DEF CompleteJob, GoneRow
<1>7. ASSUME NEW d \in Deliveries, RetryJob(d) PROVE StaysDone(k)
  BY <1>7 DEF RetryJob, RetriedRow, PendingRow
<1>8. ASSUME NEW d \in Deliveries, RequeueJob(d) PROVE StaysDone(k)
  BY <1>8 DEF RequeueJob, PendingRow
<1>9. ASSUME NEW d \in Deliveries, RenewJobLease(d) PROVE StaysDone(k)
  BY <1>9 DEF RenewJobLease
<1>10. ASSUME NEW j \in Jobs, Enqueue(j) PROVE StaysDone(k)
  BY <1>10 DEF Enqueue
<1>11. ASSUME NEW j \in Jobs, LeaseExpires(j) PROVE StaysDone(k)
  BY <1>11 DEF LeaseExpires, AgeLease, Renewed
<1>12. ASSUME NEW j \in Jobs, LeaseStalls(j) PROVE StaysDone(k)
  BY <1>12 DEF LeaseStalls, AgeLease, Renewed
<1>13. ASSUME NEW j \in Jobs, CancelPendingTask(j) PROVE StaysDone(k)
  BY <1>13 DEF CancelPendingTask, Canceller, GoneRow
<1> QED
  BY <1>1, <1>2, <1>3, <1>4, <1>5, <1>6, <1>7, <1>8, <1>9, <1>10, <1>11,
     <1>12, <1>13, ZenonT(60)
     DEF vars, Next, ReplicaStep, DeliveryStep, JobStep, Resolved,
         Campaign, SessionExpires, SessionLost, NoticeLoss, Shutdown,
         TermEnds, Crash, Restart, ReclaimSkips, ReclaimRead, ClaimRead,
         ClaimFails, HandlerOk, HandlerErr, FenceRead, FenceGivesUp,
         BookkeepingFails, RenewRead, RenewLost, RenewFails, RenewerStops,
         CancelRead, CancelTerm

(* A claim with a fresh lease and a live delivery is taken by nobody: the  *)
(* reaper's and the other workers' compares all refer to reads that it     *)
(* outdates (ClaimJob, RenewJobLease, ReclaimStaleRunningJobs).            *)
THEOREM ClaimKept == Spec => ClaimIsKept
<1>1. IInv /\ [Next]_vars =>
        [\A j \in Jobs, d \in Deliveries :
           /\ OwnClaim(d, j) /\ dlv[d].job = j /\ job[j].lease = "fresh"
           => \/ OwnClaim(d, j)'
              \/ dlv[d].pc \in {"retry", "requeue"}
              \/ job'[j].state = "gone" /\ j \in succeeded]_vars
  BY KeptStep DEF Keeps
<1> QED
  BY <1>1, Inductive, PTL DEF Spec, ClaimIsKept

(* A deleted row stays deleted and a failed one can only be swept, whatever *)
(* a late worker writes (RetryJob, RequeueJob, RenewJobLease).              *)
THEOREM DoneIsDone == Spec => NoResurrection
<1>1. IInv /\ [Next]_vars =>
        [\A j \in Jobs :
           /\ job[j].state = "gone" => job'[j].state = "gone"
           /\ job[j].state = "failed" => job'[j].state \in {"failed", "gone"}
        ]_vars
  BY DoneStep DEF StaysDone
<1> QED
  BY <1>1, Inductive, PTL DEF Spec, NoResurrection

=============================================================================
