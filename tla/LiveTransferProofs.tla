------------------------- MODULE LiveTransferProofs -------------------------
(***************************************************************************)
(* LiveTransfer implements Handoff, for any set of disks, any number of    *)
(* retries and any number of faults; and a run that failed leaves the      *)
(* guest on the source.                                                    *)
(*                                                                         *)
(* The inductive invariant says what each stage of RunLiveSource knows.    *)
(* It must speak of the events on their way: a stage is left when its      *)
(* event is read, so an event may only exist once what it reports is true, *)
(* and what it reports must not become untrue again.                       *)
(***************************************************************************)
EXTENDS LiveTransfer, TLAPS

(* The elements of a queue of events. *)
In(q) == {q[i] : i \in 1 .. Len(q)}

Pending == In(raw) \cup In(buf)

(* The stream decides whether the source's guest runs. *)
GuestFollowsStream ==
    /\ guest = "running" <=> ram \in {"none", "active", "failed", "cancelled"}
    /\ guest = "paused" <=> ram \in {"pre-switchover", "device"}

(* What the source's stage tells of the stream and of the mirrors. *)
StageKnows ==
    /\ sq \in {"mirror", "ready", "migrate"} => ram = "none"
    /\ sq \in {"finalize", "drained", "continue", "completed", "clean", "ok", "left"} =>
           ram \notin {"none", "active"}
    /\ sq = "drained" => \A d \in Disks \ todo : mirror[d] = "completed"
    /\ sq \in {"continue", "completed", "clean", "ok", "left"} =>
           \A d \in Disks : mirror[d] = "completed"
    /\ sq \in {"abortjobs", "err"} /\ ~deaf => ~Cancellable

(* An event on its way tells the truth. *)
EventsTrue ==
    \A e \in Pending :
        /\ e.name = "pre-switchover" => ram \notin {"none", "active"}
        /\ e.name = "COMPLETED" => mirror[e.disk] = "completed"

(* No mirror is wound up while the guest runs for the stream, and one that *)
(* was wound up in the pause left the target's copy whole.                 *)
MirrorsDrained ==
    /\ ram \in {"none", "active"} =>
           \A d \in Disks : mirror[d] \notin {"finishing", "completed"}
    /\ ram \in {"pre-switchover", "device"} =>
           \A d \in Disks : mirror[d] = "completed" => d \in synced
    /\ ram \in {"device", "completed"} =>
           synced = Disks /\ \A d \in Disks : mirror[d] = "completed"

(* The target's stage, its qemu and its exports. *)
TargetKnows ==
    /\ inc \in {"arrived", "loaded", "running"} => ram = "completed"
    /\ inc = "waiting" => ram # "completed"
    /\ inc = "running" <=> tq = "ok"
    /\ tq \in {"del", "stop", "cont"} => inc \in {"loaded", "dead"}
    /\ tq \in {"stop", "cont", "ok"} => exports = {}

LtInv ==
    /\ LtTypeOK /\ GuestFollowsStream /\ StageKnows /\ EventsTrue
    /\ MirrorsDrained /\ TargetKnows

-----------------------------------------------------------------------------
(* Queues of events. *)

(* What an event is made of. *)
LEMMA EventParts ==
    /\ \A n \in {"READY", "COMPLETED", "ERROR"}, d \in Disks :
          /\ Event(n, d) \in LtEvents
          /\ Event(n, d).name = n /\ Event(n, d).disk = d
    /\ \A n \in {"active", "pre-switchover", "completed", "failed", "cancelled"} :
          Status(n) \in LtEvents /\ Status(n).name = n
    /\ \A e \in LtEvents :
          e.name \in {"READY", "COMPLETED", "ERROR"} => e.disk \in Disks
BY DEF LtEvents, Event, Status

(* A queue holds what was put in. *)
LEMMA QueueAppend ==
    ASSUME NEW q \in Seq(LtEvents), NEW e \in LtEvents
    PROVE  Append(q, e) \in Seq(LtEvents) /\ In(Append(q, e)) = In(q) \cup {e}
<1>1. Append(q, e) \in Seq(LtEvents) /\ Len(Append(q, e)) = Len(q) + 1
  OBVIOUS
<1>2. \A i \in 1 .. Len(q) : Append(q, e)[i] = q[i]
  OBVIOUS
<1>3. Append(q, e)[Len(q) + 1] = e
  OBVIOUS
<1>4. Len(q) \in Nat
  OBVIOUS
<1>5. In(Append(q, e)) \subseteq In(q) \cup {e}
  BY <1>1, <1>2, <1>3, <1>4 DEF In
<1>6. In(q) \subseteq In(Append(q, e))
  <2>1. SUFFICES ASSUME NEW i \in 1 .. Len(q) PROVE q[i] \in In(Append(q, e))
    BY DEF In
  <2>2. i \in 1 .. Len(Append(q, e)) /\ q[i] = Append(q, e)[i]
    BY <1>1, <1>2, <1>4
  <2>3. QED
    BY <2>2 DEF In
<1>7. e \in In(Append(q, e))
  BY <1>1, <1>3, <1>4 DEF In
<1>8. QED
  BY <1>1, <1>5, <1>6, <1>7

(* The head leaves, and nothing else changes. *)
LEMMA QueueTail ==
    ASSUME NEW q \in Seq(LtEvents), q # << >>
    PROVE  /\ Tail(q) \in Seq(LtEvents) /\ Head(q) \in LtEvents
           /\ Head(q) \in In(q) /\ In(Tail(q)) \subseteq In(q)
<1>1. Len(q) \in Nat /\ Len(q) >= 1 /\ Head(q) = q[1] /\ q[1] \in LtEvents
  OBVIOUS
<1>2. Tail(q) \in Seq(LtEvents) /\ Len(Tail(q)) = Len(q) - 1
  OBVIOUS
<1>3. \A i \in 1 .. Len(q) - 1 : Tail(q)[i] = q[i + 1]
  OBVIOUS
<1>4. In(Tail(q)) \subseteq In(q)
  <2>1. SUFFICES ASSUME NEW i \in 1 .. Len(Tail(q)) PROVE Tail(q)[i] \in In(q)
    BY DEF In
  <2>2. i + 1 \in 1 .. Len(q) /\ Tail(q)[i] = q[i + 1]
    BY <1>1, <1>2, <1>3
  <2>3. QED
    BY <2>2 DEF In
<1>5. Head(q) \in In(q)
  BY <1>1 DEF In
<1>6. QED
  BY <1>1, <1>2, <1>4, <1>5

(* A queue of events holds events. *)
LEMMA QueueType ==
    ASSUME NEW q \in Seq(LtEvents)
    PROVE  In(q) \subseteq LtEvents
BY DEF In

-----------------------------------------------------------------------------
(* The invariant. *)

(* An event emitted is pending. *)
LEMMA EmitPending ==
    ASSUME LtTypeOK, NEW e \in LtEvents, Emit(e), UNCHANGED buf
    PROVE  raw' \in Seq(LtEvents) /\ Pending' = Pending \cup {e}
<1>1. raw \in Seq(LtEvents) /\ raw' = Append(raw, e)
  BY DEF LtTypeOK, Emit
<1>2. In(raw') = In(raw) \cup {e} /\ raw' \in Seq(LtEvents)
  BY <1>1, QueueAppend
<1>3. QED
  BY <1>2 DEF Pending

(* The invariant holds initially. *)
LEMMA LtInvInit == LtInit => LtInv
<1> SUFFICES ASSUME LtInit PROVE LtInv
  OBVIOUS
<1>1. raw \in Seq(LtEvents) /\ buf \in Seq(LtEvents) /\ Pending = {}
  BY DEF LtInit, Pending, In
<1>2. asked \in BOOLEAN /\ deaf \in BOOLEAN
  BY Zenon DEF LtInit
<1>3. QED
  BY <1>1, <1>2, LiveTransferAssumptions
     DEF LtInit, LtInv, LtTypeOK, LtStages, Returned, GuestFollowsStream, StageKnows, EventsTrue,
         MirrorsDrained, TargetKnows, Cancellable

(* Every step of either side, of the qemus and of a cancel keeps it. *)
LEMMA LtInvStep == LtInv /\ [LtNext]_ltVars => LtInv'
<1> SUFFICES ASSUME LtInv, [LtNext]_ltVars PROVE LtInv'
  OBVIOUS
<1> USE LiveTransferAssumptions
    DEF LtInv, LtTypeOK, LtStages, Returned, GuestFollowsStream, StageKnows, EventsTrue,
        MirrorsDrained, TargetKnows, Cancellable, qemuS, events, targetSide
<1>1. ASSUME NEW d \in Disks, startDiskMirrors(d) PROVE LtInv'
  <2>1. Pending' = Pending /\ \A k \in Disks : mirror[k] # "completed"
    BY <1>1 DEF startDiskMirrors, Pending
  <2>2. \A e \in Pending : e.name # "COMPLETED"
    BY <2>1, EventParts, QueueType DEF Pending
  <2>3. CASE sq' # "abort"
    BY <1>1, <2>1, <2>2, <2>3 DEF startDiskMirrors, Abort
  <2>4. CASE sq' = "abort"
    BY <1>1, <2>1, <2>2, <2>4, SMTT(40) DEF startDiskMirrors, LtFault, Abort
  <2>5. QED
    BY <2>3, <2>4
<1>2. ASSUME NEW d \in Disks, finalizeDiskMirrors(d) PROVE LtInv'
  <2>1. Pending' = Pending
    BY <1>2, ZenonT(20) DEF finalizeDiskMirrors, Pending
  <2>2. CASE mirror[d] = "ready"
    BY <1>2, <2>1, <2>2, EventParts, QueueType, SMTT(40)
    DEF finalizeDiskMirrors, Pending
  <2>3. CASE mirror[d] # "ready"
    BY <1>2, <2>1, <2>3 DEF finalizeDiskMirrors, Abort
  <2>4. QED
    BY <2>2, <2>3
<1>3. CASE WaitReady
  BY <1>3, EventParts, QueueAppend, QueueTail, QueueType, SMTT(40)
  DEF WaitReady, waitBlockJobsEvent, Abort, Pending
<1>4. CASE Migrate
  <2>1. CASE sq' = "pre"
    <3>1. raw' \in Seq(LtEvents) /\ Pending' = Pending \cup {Status("active")}
      BY <1>4, <2>1, EventParts, EmitPending DEF Migrate, Abort
    <3>2. QED
      BY <1>4, <2>1, <3>1, EventParts, ZenonT(20) DEF Migrate, Abort
  <2>2. CASE sq' = "abort"
    BY <1>4, <2>2 DEF Migrate, Abort, LtFault, Pending
  <2>3. QED
    BY <1>4, <2>1, <2>2, ZenonT(20) DEF Migrate, Abort
<1>5. CASE waitPreSwitchoverWithWatchdog
  BY <1>5, EventParts, QueueAppend, QueueTail, QueueType, SMTT(40)
  DEF waitPreSwitchoverWithWatchdog, waitMigrationStatus, Abort, Pending
<1>6. CASE WaitDrained
  BY <1>6, EventParts, QueueAppend, QueueTail, QueueType, SMTT(40)
  DEF WaitDrained, waitBlockJobsEvent, Abort, Pending
<1>7. CASE MigrateContinue
  <2>1. Pending' = Pending
    BY <1>7 DEF MigrateContinue, Pending
  <2>2. CASE ram = "pre-switchover"
    BY <1>7, <2>1, <2>2, ZenonT(60) DEF MigrateContinue
  <2>3. CASE ram # "pre-switchover"
    BY <1>7, <2>1, <2>3 DEF MigrateContinue, Abort
  <2>4. QED
    BY <2>2, <2>3
<1>8. CASE WaitCompleted
  BY <1>8, EventParts, QueueAppend, QueueTail, QueueType
  DEF WaitCompleted, waitMigrationStatus, Abort, Pending
<1>9. CASE WaitExpires
  BY <1>9, EventParts, QueueAppend, QueueTail, QueueType DEF WaitExpires, Abort, Pending
<1>10. CASE CleanUp
  BY <1>10, EventParts, QueueAppend, QueueTail, QueueType DEF CleanUp, LtFault, Pending
<1>11. CASE abortStream
  <2>1. CASE MigrateCancel /\ Cancellable /\ UNCHANGED <<deaf, liveFaults>>
    <3>1. raw' \in Seq(LtEvents) /\ Pending' = Pending \cup {Status("cancelled")}
      BY <1>11, <2>1, EventParts, EmitPending DEF abortStream, MigrateCancel
    <3>2. QED
      BY <1>11, <2>1, <3>1, EventParts DEF abortStream, MigrateCancel
  <2>2. CASE MigrateCancel /\ ~Cancellable /\ UNCHANGED <<deaf, liveFaults>>
    BY <1>11, <2>2, SMTT(40) DEF abortStream, MigrateCancel, Pending
  <2>3. CASE LtFault /\ deaf' = TRUE /\ UNCHANGED <<ram, guest, raw>>
    BY <1>11, <2>3, SMTT(40) DEF abortStream, LtFault, Pending
  <2>4. QED
    BY <1>11, <2>1, <2>2, <2>3, Zenon DEF abortStream
<1>12. CASE abortJobs
  BY <1>12, EventParts, QueueAppend, QueueTail, QueueType, SMTT(40)
  DEF abortJobs, Dropped, Pending
<1>13. CASE ConfirmedDeparture
  BY <1>13, EventParts, QueueAppend, QueueTail, QueueType, ZenonT(20)
  DEF ConfirmedDeparture, Pending
<1>14. CASE cancelLive
  <2>1. mirror' = Dropped({BootDisk})
    BY <1>14, Zenon DEF cancelLive
  <2>2. /\ mirror' \in [Disks -> {"none", "copying", "ready", "finishing", "completed",
                                 "dropped", "failed"}]
        /\ \A d \in Disks : mirror'[d] \in {mirror[d], "dropped"}
        /\ \A d \in Disks : mirror[d] = "completed" => mirror'[d] = "completed"
    BY <2>1 DEF Dropped
  <2>3. \A e \in Pending : e.name = "COMPLETED" => mirror'[e.disk] = "completed"
    <3>1. SUFFICES ASSUME NEW e \in Pending, e.name = "COMPLETED"
                   PROVE  mirror'[e.disk] = "completed"
      BY ZenonT(20)
    <3>2. e.disk \in Disks /\ mirror[e.disk] = "completed"
      BY <3>1, EventParts, QueueType DEF Pending
    <3>3. QED
      BY <2>2, <3>2
  <2>4. asked' \in BOOLEAN
    BY <1>14 DEF cancelLive
  <2>5. /\ MigrateCancel
        /\ UNCHANGED <<sq, todo, synced, client, buf, tq, exports, tries, inc, deaf, liveFaults>>
    BY <1>14, Zenon DEF cancelLive
  <2>6. CASE Cancellable
    <3>1. raw' \in Seq(LtEvents) /\ Pending' = Pending \cup {Status("cancelled")}
      BY <2>5, <2>6, EventParts, EmitPending, ZenonT(20) DEF MigrateCancel
    <3>2. EventsTrue'
      BY <2>3, <2>5, <2>6, <3>1, EventParts, ZenonT(20) DEF MigrateCancel
    <3>3. QED
      BY <2>2, <2>4, <2>5, <2>6, <3>1, <3>2, SMTT(40) DEF MigrateCancel
  <2>7. CASE ~Cancellable
    <3>1. Pending' = Pending
      BY <2>5, <2>7, ZenonT(20) DEF MigrateCancel, Pending
    <3>2. QED
      BY <2>2, <2>3, <2>4, <2>5, <2>7, <3>1, SMTT(40) DEF MigrateCancel
  <2>8. QED
    BY <2>6, <2>7
<1>15. CASE fanoutEvents
  BY <1>15, EventParts, QueueAppend, QueueTail, QueueType, SMTT(40)
  DEF fanoutEvents, Pending
<1>16. ASSUME NEW d \in Disks, MirrorReady(d) PROVE LtInv'
  BY <1>16, EventParts, QueueAppend, QueueTail, QueueType, SMTT(40)
  DEF MirrorReady, Emit, Pending
<1>17. ASSUME NEW d \in Disks, MirrorFinishes(d) PROVE LtInv'
  BY <1>17, EventParts, QueueAppend, QueueTail, QueueType, SMTT(40)
  DEF MirrorFinishes, Emit, Pending
<1>18. ASSUME NEW d \in Disks, MirrorFails(d) PROVE LtInv'
  BY <1>18, EventParts, QueueAppend, QueueTail, QueueType, SMTT(40)
  DEF MirrorFails, Emit, LtFault, Pending
<1>19. ASSUME NEW d \in Disks, GuestWrites(d) PROVE LtInv'
  BY <1>19, EventParts, QueueAppend, QueueTail, QueueType, SMTT(40)
  DEF GuestWrites, Pending
<1>20. CASE RamConverges
  BY <1>20, EventParts, QueueAppend, QueueTail, QueueType, SMTT(40)
  DEF RamConverges, Emit, Pending
<1>21. CASE RamFails
  BY <1>21, EventParts, QueueAppend, QueueTail, QueueType, SMTT(40)
  DEF RamFails, Emit, LtFault, Pending
<1>22. CASE RamSent
  BY <1>22, EventParts, QueueAppend, QueueTail, QueueType, ZenonT(20)
  DEF RamSent, Emit, Pending
<1>23. CASE WaitIncoming
  BY <1>23, EventParts, QueueAppend, QueueTail, QueueType, ZenonT(20)
  DEF WaitIncoming, sourceSide, Pending
<1>24. CASE Cont
  BY <1>24, EventParts, QueueAppend, QueueTail, QueueType, ZenonT(60)
  DEF Cont, sourceSide, Pending
<1>25. CASE ResumeFails
  BY <1>25, EventParts, QueueAppend, QueueTail, QueueType, SMTT(40)
  DEF ResumeFails, LtFault, sourceSide, Pending
<1>26. ASSUME NEW d \in Disks, delExportFreeingClient(d) PROVE LtInv'
  BY <1>26, EventParts, QueueAppend, QueueTail, QueueType, SMTT(40)
  DEF delExportFreeingClient, sourceSide, Pending
<1>27. CASE IncomingLoads
  BY <1>27, EventParts, QueueAppend, QueueTail, QueueType, ZenonT(60)
  DEF IncomingLoads, sourceSide, Pending
<1>28. CASE IncomingBreaks
  BY <1>28, EventParts, QueueAppend, QueueTail, QueueType, SMTT(40)
  DEF IncomingBreaks, LtFault, sourceSide, Pending
<1>29. CASE teardownIncomingTarget
  BY <1>29, EventParts, QueueAppend, QueueTail, QueueType, SMTT(40)
  DEF teardownIncomingTarget, LtFault, sourceSide, Pending
<1>30. CASE UNCHANGED ltVars
  BY <1>30 DEF ltVars, Pending
<1>31. QED
  BY <1>1, <1>2, <1>3, <1>4, <1>5, <1>6, <1>7, <1>8, <1>9, <1>10, <1>11,
     <1>12, <1>13, <1>14, <1>15, <1>16, <1>17, <1>18, <1>19, <1>20, <1>21,
     <1>22, <1>23, <1>24, <1>25, <1>26, <1>27, <1>28, <1>29, <1>30, ZenonT(60)
  DEF LtNext, RunLiveSource, QemuSource, RunLiveTarget

-----------------------------------------------------------------------------
(* Theorems. *)

(* The inductive invariant holds in every behaviour. *)
THEOREM TransferInvariant == LtSpec => []LtInv
BY LtInvInit, LtInvStep, PTL DEF LtSpec

(* A run of RunLiveSource that failed before the stream was through leaves *)
(* the guest running on the source: the abort of abortLiveSource resumes   *)
(* it, unless the abort command itself failed.                             *)
THEOREM FailedRunKeepsGuest == LtSpec => []FailsToSource
<1>1. LtInv => FailsToSource
  BY DEF LtInv, LtTypeOK, StageKnows, GuestFollowsStream, FailsToSource, Cancellable
<1>2. QED
  BY <1>1, TransferInvariant, PTL

(* The first state of a transfer is a guest on its source. *)
LEMMA HandoffStarts == LtInit => H!Init
BY LiveTransferAssumptions, SMTT(40) DEF LtInit, H!Init, Side

(* Every step of the transfer is a step of the handoff or none at all. *)
LEMMA HandoffStep == LtInv /\ [LtNext]_ltVars => [H!Next]_(H!vars)
<1> SUFFICES ASSUME LtInv, [LtNext]_ltVars PROVE [H!Next]_(H!vars)
  OBVIOUS
<1> USE LiveTransferAssumptions
    DEF LtInv, LtTypeOK, GuestFollowsStream, MirrorsDrained, TargetKnows, Cancellable,
        qemuS, events, targetSide, Side, H!vars
<1>1. ASSUME NEW d \in Disks, startDiskMirrors(d) PROVE [H!Next]_(H!vars)
  BY <1>1 DEF startDiskMirrors
<1>2. ASSUME NEW d \in Disks, finalizeDiskMirrors(d) PROVE [H!Next]_(H!vars)
  BY <1>2 DEF finalizeDiskMirrors
<1>3. CASE WaitReady
  BY <1>3 DEF WaitReady, waitBlockJobsEvent
<1>4. CASE Migrate
  BY <1>4 DEF Migrate
<1>5. CASE waitPreSwitchoverWithWatchdog
  BY <1>5, ZenonT(20) DEF waitPreSwitchoverWithWatchdog, waitMigrationStatus
<1>6. CASE WaitDrained
  BY <1>6, ZenonT(20) DEF WaitDrained, waitBlockJobsEvent
<1>7. CASE MigrateContinue
  BY <1>7 DEF MigrateContinue
<1>8. CASE WaitCompleted
  BY <1>8 DEF WaitCompleted, waitMigrationStatus
<1>9. CASE WaitExpires
  BY <1>9 DEF WaitExpires
<1>10. CASE CleanUp
  BY <1>10, ZenonT(20) DEF CleanUp
<1>11. CASE abortStream
  BY <1>11 DEF abortStream, MigrateCancel, H!Next, H!Unpause
<1>12. CASE abortJobs
  BY <1>12 DEF abortJobs
<1>13. CASE ConfirmedDeparture
  BY <1>13, ZenonT(20) DEF ConfirmedDeparture
<1>14. CASE cancelLive
  BY <1>14 DEF cancelLive, MigrateCancel, H!Next, H!Unpause
<1>15. CASE fanoutEvents
  BY <1>15, SMTT(40) DEF fanoutEvents
<1>16. ASSUME NEW d \in Disks, MirrorReady(d) PROVE [H!Next]_(H!vars)
  BY <1>16, ZenonT(20) DEF MirrorReady
<1>17. ASSUME NEW d \in Disks, MirrorFinishes(d) PROVE [H!Next]_(H!vars)
  BY <1>17 DEF MirrorFinishes, H!Next, H!Sync
<1>18. ASSUME NEW d \in Disks, MirrorFails(d) PROVE [H!Next]_(H!vars)
  BY <1>18, ZenonT(20) DEF MirrorFails
<1>19. ASSUME NEW d \in Disks, GuestWrites(d) PROVE [H!Next]_(H!vars)
  BY <1>19, ZenonT(20) DEF GuestWrites, H!Next, H!Write
<1>20. CASE RamConverges
  BY <1>20, ZenonT(20) DEF RamConverges, H!Next, H!Pause
<1>21. CASE RamFails
  BY <1>21, ZenonT(20) DEF RamFails, H!Next, H!Unpause
<1>22. CASE RamSent
  BY <1>22 DEF RamSent, H!Next, H!Send
<1>23. CASE WaitIncoming
  BY <1>23, ZenonT(20) DEF WaitIncoming, sourceSide
<1>24. CASE Cont
  BY <1>24, SMTT(40) DEF Cont, sourceSide, H!Next, H!Resume
<1>25. CASE ResumeFails
  BY <1>25, Zenon DEF ResumeFails, sourceSide, H!Next, H!Isolate, H!Drop
<1>26. ASSUME NEW d \in Disks, delExportFreeingClient(d) PROVE [H!Next]_(H!vars)
  BY <1>26, ZenonT(20) DEF delExportFreeingClient, sourceSide, H!Next, H!Isolate
<1>27. CASE IncomingLoads
  BY <1>27, ZenonT(20) DEF IncomingLoads, sourceSide
<1>28. CASE IncomingBreaks
  BY <1>28 DEF IncomingBreaks, sourceSide, H!Next, H!Drop
<1>29. CASE teardownIncomingTarget
  BY <1>29, Zenon
  DEF teardownIncomingTarget, sourceSide, H!Next, H!Isolate, H!Drop
<1>30. CASE UNCHANGED ltVars
  BY <1>30 DEF ltVars
<1>31. QED
  BY <1>1, <1>2, <1>3, <1>4, <1>5, <1>6, <1>7, <1>8, <1>9, <1>10, <1>11,
     <1>12, <1>13, <1>14, <1>15, <1>16, <1>17, <1>18, <1>19, <1>20, <1>21,
     <1>22, <1>23, <1>24, <1>25, <1>26, <1>27, <1>28, <1>29, <1>30, Zenon
  DEF LtNext, RunLiveSource, QemuSource, RunLiveTarget

(* RunLiveSource and RunLiveTarget together implement a handoff: the guest *)
(* never runs on both sides, it leaves the source only from a pause in     *)
(* which every disk was drained, and it goes on at the target only when no *)
(* writable export is left, for any set of disks and any failures.         *)
THEOREM TransferImplementsHandoff == LtSpec => HandoffImplemented
BY HandoffStarts, HandoffStep, TransferInvariant, PTL DEF LtSpec, HandoffImplemented

=============================================================================
