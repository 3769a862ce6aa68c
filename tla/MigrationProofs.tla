-------------------------- MODULE MigrationProofs ---------------------------
(***************************************************************************)
(* Migration's safety for every bound: the guest runs in one place, is     *)
(* never lost, and a verdict on the migration is true.                     *)
(***************************************************************************)
EXTENDS Migration, TLAPS

(* A step of the source's push leaves the rest alone.                      *)
Elsewhere == UNCHANGED <<cp, worker, api, tgt, trec, tgo, declT, killed>>

-----------------------------------------------------------------------------
(* The inductive invariant. *)

(* The guest is out of the source's hands. *)
Left == src \in {"sent", "gone"}

(* The guest has arrived: live, the source gave it up; offline, the target *)
(* has the whole disk.                                                     *)
Arrived == IF live THEN Left ELSE tfull /\ tgt # "none"

(* What a live and an offline migration never come to.                     *)
ModeSplit ==
    IF live
    THEN /\ src \notin {"off", "failed"} /\ tgt # "stopped"
         /\ sgo \notin {"cold", "copy"}
         /\ trec = "busy" => tgt \in {"incoming", "loaded", "running"}
    ELSE /\ src \notin {"paused", "sent"}
         /\ tgt \in {"none", "stopped", "running"}
         /\ tgo = "off" /\ trec # "completed" /\ ~killed
         /\ sgo \in {"off", "push", "cold", "copy"}
         /\ w \notin {"probe", "cpoll", "cprobe"}
         /\ src = "gone" => mig = "completed"

(* Everything that is read as the handoff happens after it ...             *)
ArrivalKnown ==
    /\ \/ stask = "success" \/ srec = "completed" \/ trec = "completed"
       \/ sgo \in {"sent", "gone", "told"} \/ mig = "completed" \/ src = "gone"
       \/ tgo \in {"resumed", "running"}
       \/ live /\ tgt \in {"loaded", "running"}
       \/ w \in {"load", "txn", "success", "start", "delete"}
       => Arrived
    /\ live /\ Left /\ ~killed =>
           tgt \in {"loaded", "running", "failed"} /\ tfull

(* ... and, while the source's record follows its push, is in that record. *)
RecordFollows ==
    ~blind =>
        /\ Left => sgo \in {"sent", "gone", "told"} \/ srec = "completed"
        /\ stask # "lost"
        /\ stask = "failed" => srec = "failed"
        /\ srec = "none" => stask = "none"
        /\ srec \in {"none", "failed"} => sgo = "off"
        /\ srec = "cancelled" => sgo = "aborted"
        /\ \/ stask = "success" \/ mig = "completed"
           \/ w \in {"load", "txn", "success", "start", "delete"}
           => srec = "completed"
        /\ srec = "completed" => stask # "failed" /\ sgo \in {"told", "off"}
        /\ sgo = "told" => srec = "completed"

(* What the worker's stage says of the row, of the task and of the job.    *)
StageKnows ==
    /\ w \in {"setup", "check", "incoming", "outgoing", "stamp"} => ~stamped
    /\ w \in {"active", "poll", "probe", "reload"} => stamped
    /\ w \in {"success", "start", "delete", "finish"} => mig = "completed"
    /\ w = "final" => seen \in Terminal /\ mig = seen
    /\ w \in {"cpoll", "cprobe", "cancelled"} => mig = "cancelled"
    /\ w = "failed" => mig = "failed"
    /\ w = "reap" => IF after = "fail" THEN stamped ELSE mig = after
    /\ mig = "failed" => w \in {"idle", "final", "reap", "failed"}
                         /\ ~(w = "reap" /\ after = "fail")
    /\ task = "cancelled" => mig = "cancelled" /\ job = "gone"
    /\ job = "gone" => w = "idle"
    /\ pin = "tgt" <=> mig = "completed"
    /\ api # "off" => mig \in Terminal
    /\ killed => mig \in Terminal \/ stamped

(* A verdict is taken when the guest can no longer leave the source.       *)
VerdictSound ==
    ~blind =>
        /\ w = "probe" => FALSE
        /\ w = "reload" => stask = "failed"
        /\ w = "fail" \/ (w = "reap" /\ after = "fail") \/ mig = "failed"
           => mig \in {"cancelled", "completed"}
              \/ (~Left /\ (stask = "failed" \/ tgt = "none"))
        /\ \/ task = "cancelled" \/ w = "cancelled"
           \/ w = "reap" /\ after = "cancelled"
           => ~live \/ (~Left /\ srec \in {"none", "failed", "cancelled"})

(* What the stages and records know of the guest, apart from their types.  *)
Knows ==
    /\ ModeSplit /\ ArrivalKnown /\ RecordFollows /\ StageKnows
    /\ VerdictSound

MigInv == TypeOK /\ Knows

-----------------------------------------------------------------------------
(* Invariance. *)

(* Both hold at the start.                                                 *)
LEMMA MigInvInit == Init => MigInv
  <1> SUFFICES ASSUME Init PROVE MigInv
    OBVIOUS
  <1>1. live \in BOOLEAN
    BY MigrationAssumptions DEF Init
  <1>2. stamped \in BOOLEAN /\ fresh \in BOOLEAN /\ tfull \in BOOLEAN
    BY Zenon DEF Init
  <1>3. declS \in BOOLEAN /\ declT \in BOOLEAN /\ killed \in BOOLEAN
    BY Zenon DEF Init
  <1>4. blind \in BOOLEAN
    BY Zenon DEF Init
  <1>5. TypeOK
    BY MigrationAssumptions, <1>2, <1>3, <1>4
    DEF Init, TypeOK, Phases, Terminal, Stages, Records
  <1>6. Knows
    BY <1>1
    DEF Init, Knows, ModeSplit, ArrivalKnown, RecordFollows, StageKnows,
        VerdictSound, Left, Arrived, Terminal
  <1> QED
    BY <1>5, <1>6 DEF MigInv

(* Every step of the worker, the cancel request and the agents keeps the   *)
(* types.                                                                  *)
LEMMA TypeStep == TypeOK /\ [Next]_vars => TypeOK'
  <1> SUFFICES ASSUME TypeOK, [Next]_vars PROVE TypeOK'
    OBVIOUS
  <1> USE MigrationAssumptions
      DEF TypeOK, Terminal, Phases, Stages, Records, cp, worker, source,
          target, hist
  <1>1. CASE UNCHANGED live /\ Deliver
    BY <1>1 DEF Deliver, Load, Done, To
  <1>2. CASE UNCHANGED live /\ AdvanceSetup
    BY <1>2 DEF AdvanceSetup, Advance, To
  <1>3. CASE UNCHANGED live /\ Recheck
    BY <1>3 DEF Recheck, Load
  <1>4. CASE UNCHANGED live /\ PrepareTarget
    BY <1>4 DEF PrepareTarget, To, Retry, Fault, IncomingAccepted,
      StartIncoming
  <1>5. CASE UNCHANGED live /\ StartSource
    BY <1>5 DEF StartSource, To, Retry, Fault, OutgoingAccepted, StartOutgoing
  <1>6. CASE UNCHANGED live /\ SetupFails
    BY <1>6 DEF SetupFails, Retry, To, Fault, IncomingAccepted,
      OutgoingAccepted
  <1>7. CASE UNCHANGED live /\ SetupRefused
    BY <1>7 DEF SetupRefused, To, Fault
  <1>8. CASE UNCHANGED live /\ StampTask
    BY <1>8 DEF StampTask, To
  <1>9. CASE UNCHANGED live /\ AdvanceActive
    BY <1>9 DEF AdvanceActive, Advance, To
  <1>10. CASE UNCHANGED live /\ pollOutgoing
    BY <1>10 DEF pollOutgoing, To, ReapThen
  <1>11. CASE UNCHANGED live /\ PollFails
    BY <1>11 DEF PollFails, Retry, To, Fault
  <1>12. CASE UNCHANGED live /\ SourceFailed
    BY <1>12 DEF SourceFailed, ReapThen, Load
  <1>13. CASE UNCHANGED live /\ reconcileVanishedSourceTask
    BY <1>13 DEF reconcileVanishedSourceTask, To, ReapThen, Retry
  <1>14. CASE UNCHANGED live /\ reapTargetIncoming
    <2>1. killed' \in BOOLEAN
      BY <1>14 DEF reapTargetIncoming, CancelTarget
    <2>2. tfull' \in BOOLEAN
      BY <1>14, Zenon DEF reapTargetIncoming, CancelTarget
    <2>3. /\ trec' \in Records /\ tgt' \in {tgt, "none"}
          /\ UNCHANGED <<tgo, declT>>
      BY <1>14 DEF reapTargetIncoming, CancelTarget
    <2>4. faults' \in 0 .. MaxFaults
      BY <1>14 DEF reapTargetIncoming, Fault
    <2>5. /\ w' \in Stages
          /\ UNCHANGED <<cp, seen, after, fresh, api, source, blind>>
      BY <1>14 DEF reapTargetIncoming, To
    <2> QED
      BY <2>1, <2>2, <2>3, <2>4, <2>5
  <1>15. CASE UNCHANGED live /\ failMigration
    BY <1>15 DEF failMigration, To, Retry
  <1>16. CASE UNCHANGED live /\ finalizeTask
    BY <1>16 DEF finalizeTask, Done, To
  <1>17. CASE UNCHANGED live /\ finalizeForTerminalMigration
    BY <1>17 DEF finalizeForTerminalMigration, To, ReapThen
  <1>18. CASE UNCHANGED live /\ reconcileCancelledMigration
    BY <1>18 DEF reconcileCancelledMigration, To, ReapThen, Retry
  <1>19. CASE UNCHANGED live /\ reconcileCancelledNoAgentTask
    BY <1>19 DEF reconcileCancelledNoAgentTask, To, ReapThen, Retry
  <1>20. CASE UNCHANGED live /\ loadCutoverState
    <2>1. fresh' \in BOOLEAN
      BY <1>20, Zenon DEF loadCutoverState, To, Load
    <2>2. /\ w' \in Stages /\ seen' \in Phases
          /\ UNCHANGED <<cp, after, api, source, target, hist, faults>>
      BY <1>20 DEF loadCutoverState, To, Load
    <2> QED
      BY <2>1, <2>2
  <1>21. CASE UNCHANGED live /\ CommitMigrationCutover
    BY <1>21 DEF CommitMigrationCutover, To, Load, Retry, cutoverRefused
  <1>22. CASE UNCHANGED live /\ CutoverSucceeded
    BY <1>22 DEF CutoverSucceeded, To
  <1>23. CASE UNCHANGED live /\ StartVMOnTarget
    BY <1>23 DEF StartVMOnTarget, To, Fault, StartOnTarget
  <1>24. CASE UNCHANGED live /\ DeleteVMOnSource
    BY <1>24 DEF DeleteVMOnSource, Done, To, Fault
  <1>25. CASE UNCHANGED live /\ CallFails
    BY <1>25 DEF CallFails, Retry, To, Fault
  <1>26. CASE UNCHANGED live /\ WorkerDies
    BY <1>26 DEF WorkerDies, To, Fault
  <1>27. CASE CancelMigration
    <2>1. /\ mig' = "cancelled" /\ api' = "source"
          /\ UNCHANGED <<live, pin, task, stamped, job, left, w, seen, after,
                         source, target, hist, faults>>
      BY <1>27 DEF CancelMigration
    <2>2. fresh' \in BOOLEAN
      BY <1>27, Zenon DEF CancelMigration
    <2> QED
      BY <2>1, <2>2
  <1>28. CASE propagateCancel
    <2>1. killed' \in BOOLEAN
      BY <1>28 DEF propagateCancel, CancelTarget
    <2>2. tfull' \in BOOLEAN
      BY <1>28, Zenon DEF propagateCancel, CancelTarget
    <2>3. /\ trec' \in Records /\ tgt' \in {tgt, "none"}
          /\ UNCHANGED <<tgo, declT>>
      BY <1>28 DEF propagateCancel, CancelTarget
    <2>4. faults' \in 0 .. MaxFaults
      BY <1>28 DEF propagateCancel, Fault
    <2>5. blind' \in BOOLEAN
      BY <1>28, Zenon DEF propagateCancel, CancelSource
    <2>6. /\ srec' \in Records /\ sgo' \in {"aborted", sgo}
          /\ src' \in {src, MigrateCancelled} /\ UNCHANGED <<stask, declS>>
      BY <1>28 DEF propagateCancel, CancelSource
    <2>7. api' \in {"target", "done"} /\ UNCHANGED <<cp, worker>>
      BY <1>28 DEF propagateCancel
    <2> QED
      BY <2>1, <2>2, <2>3, <2>4, <2>5, <2>6, <2>7 DEF MigrateCancelled
  <1>29. CASE Elsewhere /\ PowerOff
    BY <1>29 DEF Elsewhere, PowerOff
  <1>30. CASE Elsewhere /\ BeginCopy
    BY <1>30 DEF Elsewhere, BeginCopy
  <1>31. CASE Elsewhere /\ EndCopy
    BY <1>31 DEF Elsewhere, EndCopy
  <1>32. CASE Elsewhere /\ Converge
    <2>1. /\ src' = "paused" /\ sgo' = "paused"
          /\ UNCHANGED <<live, mig, pin, task, stamped, job, left, w, seen,
                         after, fresh, api, srec, stask, declS, target, hist,
                         faults>>
      BY <1>32 DEF Elsewhere, Converge, vars
    <2> QED
      BY <2>1
  <1>33. CASE Elsewhere /\ PushFails
    BY <1>33 DEF Elsewhere, PushFails, Fault, MigrateCancelled, Streams
  <1>34. CASE Elsewhere /\ HandoffMissed
    BY <1>34 DEF Elsewhere, HandoffMissed, Fault
  <1>35. CASE Elsewhere /\ teardownDepartedSource
    BY <1>35 DEF Elsewhere, teardownDepartedSource
  <1>36. CASE Elsewhere /\ ReportHandoff
    BY <1>36 DEF Elsewhere, ReportHandoff
  <1>37. CASE Switchover
    BY <1>37 DEF Switchover, Streams
  <1>38. CASE SourceRestarts
    BY <1>38, SMTT(40) DEF SourceRestarts, Fault, Streams
  <1>39. CASE Resume
    BY <1>39, SMTT(40) DEF Resume
  <1>40. CASE failIncomingResume
    BY <1>40, SMTT(40) DEF failIncomingResume, Fault, SourceQuit
  <1>41. CASE TargetRestarts
    BY <1>41, SMTT(40) DEF TargetRestarts, Fault
  <1>42. CASE HeartbeatSource
    BY <1>42, SMTT(40) DEF HeartbeatSource
  <1>43. CASE HeartbeatTarget
    BY <1>43, SMTT(40) DEF HeartbeatTarget
  <1>44. CASE ReconcileSource
    BY <1>44, SMTT(40) DEF ReconcileSource
  <1>45. CASE ReconcileTarget
    BY <1>45, SMTT(40) DEF ReconcileTarget
  <1>46. CASE UNCHANGED vars
    BY <1>46, SMTT(40) DEF vars
  <1> QED
    BY <1>1, <1>2, <1>3, <1>4, <1>5, <1>6, <1>7, <1>8, <1>9, <1>10, <1>11,
       <1>12, <1>13, <1>14, <1>15, <1>16, <1>17, <1>18, <1>19, <1>20, <1>21,
       <1>22, <1>23, <1>24, <1>25, <1>26, <1>27, <1>28, <1>29, <1>30, <1>31,
       <1>32, <1>33, <1>34, <1>35, <1>36, <1>37, <1>38, <1>39, <1>40, <1>41,
       <1>42, <1>43, <1>44, <1>45, <1>46, ZenonT(60)
    DEF Next, Worker, Agents, Push, Elsewhere

(* Every such step keeps what the stages and the records know.             *)
LEMMA KnowsStep == MigInv /\ [Next]_vars => Knows'
  <1> SUFFICES ASSUME MigInv, [Next]_vars PROVE Knows'
    OBVIOUS
  <1>knows. Knows
    BY DEF MigInv
  <1>types. /\ live \in BOOLEAN /\ blind \in BOOLEAN /\ killed \in BOOLEAN
            /\ tfull \in BOOLEAN /\ stamped \in BOOLEAN
            /\ after \in {"fail", "failed", "cancelled"}
            /\ trec \in {"none", "busy", "completed", "failed", "cancelled"}
            /\ srec \in {"none", "busy", "completed", "failed", "cancelled"}
    BY MigrationAssumptions, ZenonT(20) DEF MigInv, TypeOK, Records, Terminal
  <1> USE <1>knows, <1>types, SMTT(30)
      DEF Knows, ModeSplit, ArrivalKnown, RecordFollows, StageKnows,
          VerdictSound, Left, Arrived, Terminal, cp, worker, source,
          target, hist
  <1>1. CASE UNCHANGED live /\ Deliver
    BY <1>1, SMTT(40) DEF Deliver, Load, Done, To
  <1>2. CASE UNCHANGED live /\ AdvanceSetup
    BY <1>2, SMTT(40) DEF AdvanceSetup, Advance, To
  <1>3. CASE UNCHANGED live /\ Recheck
    BY <1>3, SMTT(40) DEF Recheck, Load
  <1>4. CASE UNCHANGED live /\ PrepareTarget
    BY <1>4, SMTT(40) DEF PrepareTarget, To, Retry, Fault, IncomingAccepted,
      StartIncoming
  <1>5. CASE UNCHANGED live /\ StartSource
    BY <1>5, SMTT(40)
    DEF StartSource, To, Retry, Fault, OutgoingAccepted, StartOutgoing
  <1>6. CASE UNCHANGED live /\ SetupFails
    BY <1>6, ZenonT(20) DEF SetupFails, Retry, To, Fault, IncomingAccepted,
      OutgoingAccepted
  <1>7. CASE UNCHANGED live /\ SetupRefused
    BY <1>7, SMTT(40) DEF SetupRefused, To, Fault
  <1>8. CASE UNCHANGED live /\ StampTask
    BY <1>8, ZenonT(20) DEF StampTask, To
  <1>9. CASE UNCHANGED live /\ AdvanceActive
    BY <1>9, SMTT(40) DEF AdvanceActive, Advance, To
  <1>10. CASE UNCHANGED live /\ pollOutgoing
    BY <1>10, SMTT(40) DEF pollOutgoing, To, ReapThen
  <1>11. CASE UNCHANGED live /\ PollFails
    <2>1. /\ w = "poll" /\ w' = "idle" /\ task' \in {task, "failed"}
          /\ UNCHANGED <<live, mig, pin, stamped, seen, after, api, source,
                         target, hist>>
      BY <1>11, Zenon DEF PollFails, Retry, To
    <2> QED
      BY <2>1
  <1>12. CASE UNCHANGED live /\ SourceFailed
    BY <1>12 DEF SourceFailed, ReapThen, Load
  <1>13. CASE UNCHANGED live /\ reconcileVanishedSourceTask
    <2>1. CASE Retry(task)
      <3>1. /\ w = "probe" /\ w' = "idle"
            /\ UNCHANGED <<live, mig, pin, task, stamped, seen, after, api,
                           source, target, hist>>
        BY <1>13, <2>1, ZenonT(20) DEF reconcileVanishedSourceTask, Retry, To
      <3> QED
        BY <3>1, ZenonT(20)
    <2>2. CASE trec = "completed" /\ To("load") /\ UNCHANGED cp
      BY <1>13, <2>2, SMTT(40) DEF reconcileVanishedSourceTask, To
    <2>3. CASE ReapThen("fail") /\ UNCHANGED cp
      BY <1>13, <2>3, SMTT(40) DEF reconcileVanishedSourceTask, ReapThen
    <2> QED
      BY <1>13, <2>1, <2>2, <2>3, Zenon DEF reconcileVanishedSourceTask
  <1>14. CASE UNCHANGED live /\ reapTargetIncoming
    BY <1>14, SMTT(40) DEF reapTargetIncoming, To, Fault, CancelTarget
  <1>15. CASE UNCHANGED live /\ failMigration
    BY <1>15, ZenonT(60) DEF failMigration, To, Retry
  <1>16. CASE UNCHANGED live /\ finalizeTask
    BY <1>16, ZenonT(20) DEF finalizeTask, Done, To
  <1>17. CASE UNCHANGED live /\ finalizeForTerminalMigration
    BY <1>17, SMTT(40) DEF finalizeForTerminalMigration, To, ReapThen
  <1>18. CASE UNCHANGED live /\ reconcileCancelledMigration
    BY <1>18, ZenonT(20) DEF reconcileCancelledMigration, To, ReapThen, Retry
  <1>19. CASE UNCHANGED live /\ reconcileCancelledNoAgentTask
    BY <1>19, ZenonT(20) DEF reconcileCancelledNoAgentTask, To, ReapThen, Retry
  <1>20. CASE UNCHANGED live /\ loadCutoverState
    BY <1>20, SMTT(40) DEF loadCutoverState, To, Load, cutoverRefused
  <1>21. CASE UNCHANGED live /\ CommitMigrationCutover
    BY <1>21, ZenonT(20)
    DEF CommitMigrationCutover, To, Load, Retry, cutoverRefused
  <1>22. CASE UNCHANGED live /\ CutoverSucceeded
    BY <1>22, ZenonT(20) DEF CutoverSucceeded, To
  <1>23. CASE UNCHANGED live /\ StartVMOnTarget
    BY <1>23, SMTT(40) DEF StartVMOnTarget, To, Fault, StartOnTarget
  <1>24. CASE UNCHANGED live /\ DeleteVMOnSource
    BY <1>24, ZenonT(20) DEF DeleteVMOnSource, Done, To, Fault
  <1>25. CASE UNCHANGED live /\ CallFails
    BY <1>25, SMTT(40) DEF CallFails, Retry, To, Fault
  <1>26. CASE UNCHANGED live /\ WorkerDies
    BY <1>26, SMTT(40) DEF WorkerDies, To, Fault
  <1>27. CASE CancelMigration
    BY <1>27 DEF CancelMigration
  <1>28. CASE propagateCancel
    <2>1. CASE CancelSource /\ UNCHANGED <<target, killed>>
      BY <1>28, <2>1, SMTT(40)
      DEF propagateCancel, CancelSource, MigrateCancelled
    <2>2. CASE CancelTarget /\ UNCHANGED <<source, blind>>
      BY <1>28, <2>2, SMTT(40) DEF propagateCancel, CancelTarget
    <2>3. CASE UNCHANGED <<source, target, hist>>
      BY <1>28, <2>3, SMTT(40) DEF propagateCancel
    <2> QED
      BY <1>28, <2>1, <2>2, <2>3, Zenon DEF propagateCancel
  <1>29. CASE Elsewhere /\ PowerOff
    BY <1>29, SMTT(40) DEF Elsewhere, PowerOff
  <1>30. CASE Elsewhere /\ BeginCopy
    BY <1>30, SMTT(40) DEF Elsewhere, BeginCopy
  <1>31. CASE Elsewhere /\ EndCopy
    BY <1>31, SMTT(40) DEF Elsewhere, EndCopy
  <1>32. CASE Elsewhere /\ Converge
    BY <1>32, SMTT(40) DEF Elsewhere, Converge, Streams
  <1>33. CASE Elsewhere /\ PushFails
    BY <1>33, SMTT(40)
    DEF Elsewhere, PushFails, Fault, MigrateCancelled, Streams
  <1>34. CASE Elsewhere /\ HandoffMissed
    BY <1>34, SMTT(40) DEF Elsewhere, HandoffMissed, Fault
  <1>35. CASE Elsewhere /\ teardownDepartedSource
    BY <1>35, SMTT(40) DEF Elsewhere, teardownDepartedSource
  <1>36. CASE Elsewhere /\ ReportHandoff
    BY <1>36, SMTT(40) DEF Elsewhere, ReportHandoff
  <1>37. CASE Switchover
    BY <1>37, SMTT(40) DEF Switchover, Streams
  <1>38. CASE SourceRestarts
    BY <1>38, SMTT(40) DEF SourceRestarts, Fault, Streams
  <1>39. CASE Resume
    BY <1>39, SMTT(40) DEF Resume
  <1>40. CASE failIncomingResume
    BY <1>40, SMTT(40) DEF failIncomingResume, Fault, SourceQuit
  <1>41. CASE TargetRestarts
    BY <1>41, SMTT(40) DEF TargetRestarts, Fault
  <1>42. CASE HeartbeatSource
    BY <1>42, SMTT(40) DEF HeartbeatSource
  <1>43. CASE HeartbeatTarget
    BY <1>43, SMTT(40) DEF HeartbeatTarget
  <1>44. CASE ReconcileSource
    BY <1>44, SMTT(40) DEF ReconcileSource
  <1>45. CASE ReconcileTarget
    BY <1>45, SMTT(40) DEF ReconcileTarget
  <1>46. CASE UNCHANGED vars
    BY <1>46 DEF vars
  <1> QED
    BY <1>1, <1>2, <1>3, <1>4, <1>5, <1>6, <1>7, <1>8, <1>9, <1>10, <1>11,
      <1>12, <1>13, <1>14, <1>15, <1>16, <1>17, <1>18, <1>19, <1>20, <1>21,
      <1>22, <1>23, <1>24, <1>25, <1>26, <1>27, <1>28, <1>29, <1>30, <1>31,
      <1>32, <1>33, <1>34, <1>35, <1>36, <1>37, <1>38, <1>39, <1>40, <1>41,
      <1>42, <1>43, <1>44, <1>45, <1>46, Zenon
    DEF Next, Worker, Agents, Push, Elsewhere

-----------------------------------------------------------------------------
(* Results. *)

(* Whatever the worker, the cancel request, the two agents and their       *)
(* restarts do, the records never run ahead of the guest.                  *)
THEOREM MigrationInvariant == Spec => []MigInv
  <1>1. MigInv /\ [Next]_vars => MigInv'
    BY TypeStep, KnowsStep DEF MigInv
  <1> QED
    BY MigInvInit, <1>1, PTL DEF Spec

(* A live migration never has the guest running on both nodes.             *)
THEOREM OneCopyRuns == Spec => []OneRunning
  <1>1. MigInv => OneRunning
    BY DEF MigInv, Knows, ArrivalKnown, Arrived, Left, OneRunning
  <1> QED
    BY MigrationInvariant, <1>1, PTL

(* The source's copy goes only when the target has all of the guest, and   *)
(* the target then keeps it.                                               *)
THEOREM GuestNeverDropped == Spec => []GuestKept
  <1>1. MigInv => GuestKept
    BY MigrationAssumptions, ZenonT(20)
    DEF MigInv, TypeOK, Knows, ArrivalKnown, Arrived, Left, GuestKept
  <1> QED
    BY MigrationInvariant, <1>1, PTL

(* A failed row and a cancelled task tell the truth: while the source's    *)
(* record follows its push, the guest has not left and the pin is where it *)
(* was.                                                                    *)
THEOREM VerdictsTrue == Spec => []VerdictTrue
  <1>1. MigInv => VerdictTrue
    BY MigrationAssumptions
    DEF MigInv, TypeOK, Knows, ModeSplit, ArrivalKnown, RecordFollows,
        StageKnows, VerdictSound, Left, VerdictTrue
  <1> QED
    BY MigrationInvariant, <1>1, PTL

=============================================================================
