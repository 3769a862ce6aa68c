---------------------------- MODULE LiveTransfer ----------------------------
(***************************************************************************)
(* One live migration at the level of QMP: RunLiveSource on the source and *)
(* RunLiveTarget on the target (internal/agent/qemu/miglive.go), each over *)
(* its own qemu, whose block jobs, RAM stream and incoming channel move by *)
(* themselves and report through events.  The target is prepared (Incoming *)
(* covers that) and the guest runs on the source.                          *)
(*                                                                         *)
(* go-qemu hands out replies and events from one goroutine: raw is what it *)
(* has not handed over yet, and no command is answered while raw is not    *)
(* empty.  fanoutEvents moves raw to buf, which the waiters read in order. *)
(***************************************************************************)
EXTENDS Naturals, Sequences, FiniteSets

CONSTANTS
    Disks,         \* the writable disks to mirror
    BootDisk,      \* the one whose job a cancel request aborts
    MaxDelTries,   \* ExportDelAttempts
    MaxLiveFaults  \* bound on failed commands, jobs and streams

ASSUME LiveTransferAssumptions ==
    /\ IsFiniteSet(Disks) /\ BootDisk \in Disks
    /\ MaxDelTries \in Nat /\ MaxLiveFaults \in Nat

VARIABLES
    sq,        \* RunLiveSource's stage
    todo,      \* the disks the stage still has to handle or to hear of
    guest,     \* the source's guest: running, paused, sent or gone
    ram,       \* the source qemu's migration status
    mirror,    \* disk -> state of its mirror job
    synced,    \* disks whose target copy holds all the guest wrote
    client,    \* disks whose export the source's NBD client is attached to
    raw,       \* events not yet handed over by the monitor
    buf,       \* events handed over and not yet read
    asked,     \* a cancel request reached the source
    tq,        \* RunLiveTarget's stage
    exports,   \* exports of the target's NBD server
    tries,     \* failed safe-mode deletes of the export in turn
    inc,       \* the target's qemu
    deaf,      \* history: an abort command was not carried out
    liveFaults

qemuS == <<guest, ram, mirror, synced, client>>
events == <<raw, buf>>
targetSide == <<tq, exports, tries, inc>>
ltVars == <<sq, todo, qemuS, events, asked, targetSide, deaf, liveFaults>>

LtInit ==
    /\ sq = "mirror" /\ todo = Disks
    /\ guest = "running" /\ ram = "none"
    /\ mirror = [d \in Disks |-> "none"] /\ synced = {} /\ client = {}
    /\ raw = <<>> /\ buf = <<>> /\ asked = FALSE
    /\ tq = "wait" /\ exports = Disks /\ tries = 0 /\ inc = "waiting"
    /\ deaf = FALSE /\ liveFaults = 0

LtFault == liveFaults < MaxLiveFaults /\ liveFaults' = liveFaults + 1

(* A command is answered: the monitor's goroutine is not stuck on an event. *)
Answered == raw = <<>>

Emit(e) == raw' = Append(raw, e)

Returned == {"ok", "err", "left"}

(* A command fails, or the wait in progress gives up: fail closed. *)
Abort == sq' = "abort" /\ todo' = {}

-----------------------------------------------------------------------------
(* Events. *)

(* Mutant: events are only received by a waiter. *)
fanoutEventsLazy ==
    /\ raw # <<>> /\ sq \in {"ready", "pre", "drained", "completed"}
    /\ raw' = Tail(raw) /\ buf' = Append(buf, Head(raw))
    /\ UNCHANGED <<sq, todo, qemuS, asked, targetSide, deaf, liveFaults>>

fanoutEvents ==
    /\ raw # <<>> /\ sq \notin Returned
    /\ raw' = Tail(raw) /\ buf' = Append(buf, Head(raw))
    /\ UNCHANGED <<sq, todo, qemuS, asked, targetSide, deaf, liveFaults>>

(* waitBlockJobsEvent takes one event: it crosses off what it waits for,   *)
(* fails on an error of a watched job, and on a job that ended before it   *)
(* was ready.                                                              *)
waitBlockJobsEvent(name, next) ==
    /\ buf # <<>> /\ buf' = Tail(buf)
    /\ LET e == Head(buf) IN
       IF e.disk \notin todo THEN UNCHANGED <<sq, todo>>
       ELSE IF e.name = "ERROR" \/ (name = "READY" /\ e.name = "COMPLETED") THEN Abort
       ELSE IF e.name # name THEN UNCHANGED <<sq, todo>>
       ELSE /\ todo' = todo \ {e.disk}
            /\ sq' = IF todo' = {} THEN next ELSE sq
    /\ UNCHANGED <<raw, qemuS, asked, targetSide, deaf, liveFaults>>

(* waitMigrationStatus takes one event. *)
waitMigrationStatus(want, next) ==
    /\ buf # <<>> /\ buf' = Tail(buf)
    /\ LET e == Head(buf) IN
       IF e.name = want THEN sq' = next /\ todo' = Disks
       ELSE IF e.name \in {"failed", "cancelled"} THEN Abort
       ELSE UNCHANGED <<sq, todo>>
    /\ UNCHANGED <<raw, qemuS, asked, targetSide, deaf, liveFaults>>

Event(name, d) == [name |-> name, disk |-> d]

(* A status event names no disk. *)
Status(name) == [name |-> name, disk |-> "none"]

-----------------------------------------------------------------------------
(* RunLiveSource. *)

(* startDiskMirrors: attach to the export, start the job. *)
startDiskMirrors(d) ==
    /\ sq = "mirror" /\ d \in todo /\ Answered
    /\ \/ /\ client' = client \cup {d}
          /\ mirror' = [mirror EXCEPT ![d] = "copying"]
          /\ todo' = IF todo = {d} THEN Disks ELSE todo \ {d}
          /\ sq' = IF todo = {d} THEN "ready" ELSE sq
          /\ UNCHANGED liveFaults
       \/ /\ LtFault /\ Abort /\ UNCHANGED mirror
          /\ client' \in {client, client \cup {d}}
    /\ UNCHANGED <<guest, ram, synced, events, asked, targetSide, deaf>>

WaitReady == sq = "ready" /\ waitBlockJobsEvent("READY", "migrate")

(* Set the capabilities and parameters, then start the RAM stream. *)
Migrate ==
    /\ sq = "migrate" /\ Answered
    /\ \/ sq' = "pre" /\ ram' = "active" /\ Emit(Status("active"))
          /\ UNCHANGED <<todo, liveFaults>>
       \/ LtFault /\ Abort /\ UNCHANGED <<ram, raw>>
    /\ UNCHANGED <<guest, mirror, synced, client, buf, asked, targetSide, deaf>>

waitPreSwitchoverWithWatchdog ==
    sq = "pre" /\ waitMigrationStatus("pre-switchover", "finalize")

(* finalizeDiskMirrors: a graceful cancel, which a job that is gone        *)
(* refuses.                                                                *)
finalizeDiskMirrors(d) ==
    /\ sq = "finalize" /\ d \in todo /\ Answered
    /\ IF mirror[d] = "ready"
       THEN /\ mirror' = [mirror EXCEPT ![d] = "finishing"]
            /\ todo' = IF todo = {d} THEN Disks ELSE todo \ {d}
            /\ sq' = IF todo = {d} THEN "drained" ELSE sq
       ELSE Abort /\ UNCHANGED mirror
    /\ UNCHANGED <<guest, ram, synced, client, events, asked, targetSide, deaf,
                   liveFaults>>

(* Mutant: the guest is released as soon as the cancels are issued. *)
WaitDrainedNot ==
    /\ sq = "drained" /\ sq' = "continue"
    /\ UNCHANGED <<todo, qemuS, events, asked, targetSide, deaf, liveFaults>>

WaitDrained == sq = "drained" /\ waitBlockJobsEvent("COMPLETED", "continue")

MigrateContinue ==
    /\ sq = "continue" /\ Answered
    /\ IF ram = "pre-switchover"
       THEN ram' = "device" /\ sq' = "completed" /\ UNCHANGED todo
       ELSE Abort /\ UNCHANGED ram
    /\ UNCHANGED <<guest, mirror, synced, client, events, asked, targetSide, deaf,
                   liveFaults>>

WaitCompleted == sq = "completed" /\ waitMigrationStatus("completed", "clean")

(* The deadline of a wait passes, or the watchdog sees RAM that does not   *)
(* shrink; an event that is already here may lose against it.              *)
WaitExpires ==
    /\ sq \in {"ready", "pre", "drained", "completed"} /\ Abort
    /\ UNCHANGED <<qemuS, events, asked, targetSide, deaf, liveFaults>>

(* The client blockdevs are deleted, best effort. *)
CleanUp ==
    /\ sq = "clean" /\ Answered /\ sq' = "ok" /\ todo' = {}
    /\ \/ client' = {} /\ UNCHANGED liveFaults
       \/ LtFault /\ UNCHANGED client
    /\ UNCHANGED <<guest, ram, mirror, synced, events, asked, targetSide, deaf>>

(* qemu's migrate-cancel: a stream that is not through is dropped, and a   *)
(* guest paused for it goes on.                                            *)
Cancellable == ram \in {"active", "pre-switchover", "device"}

MigrateCancel ==
    IF Cancellable
    THEN ram' = "cancelled" /\ guest' = "running" /\ Emit(Status("cancelled"))
    ELSE UNCHANGED <<ram, guest, raw>>

(* A forced cancel ends a job without draining it. *)
Dropped(ds) ==
    [d \in Disks |-> IF d \in ds /\ mirror[d] \in {"copying", "ready", "finishing"}
                     THEN "dropped" ELSE mirror[d]]

(* abortLiveSource: the stream, then the jobs and the client blockdevs;    *)
(* a step that fails does not stop the next.                               *)
abortStream ==
    /\ sq = "abort" /\ Answered /\ sq' = "abortjobs"
    /\ \/ MigrateCancel /\ UNCHANGED <<deaf, liveFaults>>
       \/ LtFault /\ deaf' = TRUE /\ UNCHANGED <<ram, guest, raw>>
    /\ UNCHANGED <<todo, mirror, synced, client, buf, asked, targetSide>>

abortJobs ==
    /\ sq = "abortjobs" /\ Answered /\ sq' = "err"
    /\ mirror' = Dropped(Disks) /\ client' = {}
    /\ UNCHANGED <<todo, guest, ram, synced, events, asked, targetSide, deaf,
                   liveFaults>>

(* runOutgoingLive asks once more, and only then kills the source's qemu. *)
ConfirmedDeparture ==
    /\ sq = "ok" /\ ram = "completed"
    /\ sq' = "left" /\ guest' = "gone" /\ client' = {}
    /\ UNCHANGED <<todo, ram, mirror, synced, events, asked, targetSide, deaf,
                   liveFaults>>

(* cancelLive on the source, from a connection of its own. *)
cancelLive ==
    /\ ~asked /\ sq # "left" /\ asked' = TRUE
    /\ MigrateCancel /\ mirror' = Dropped({BootDisk})
    /\ UNCHANGED <<sq, todo, synced, client, buf, targetSide, deaf, liveFaults>>

RunLiveSource ==
    \/ \E d \in Disks : startDiskMirrors(d) \/ finalizeDiskMirrors(d)
    \/ WaitReady \/ Migrate \/ waitPreSwitchoverWithWatchdog \/ WaitDrained
    \/ MigrateContinue \/ WaitCompleted \/ WaitExpires \/ CleanUp
    \/ abortStream \/ abortJobs \/ ConfirmedDeparture

-----------------------------------------------------------------------------
(* The source's qemu. *)

MirrorReady(d) ==
    /\ mirror[d] = "copying" /\ mirror' = [mirror EXCEPT ![d] = "ready"]
    /\ Emit(Event("READY", d))
    /\ UNCHANGED <<sq, todo, guest, ram, synced, client, buf, asked, targetSide,
                   deaf, liveFaults>>

MirrorFinishes(d) ==
    /\ mirror[d] = "finishing" /\ mirror' = [mirror EXCEPT ![d] = "completed"]
    /\ synced' = synced \cup {d} /\ Emit(Event("COMPLETED", d))
    /\ UNCHANGED <<sq, todo, guest, ram, client, buf, asked, targetSide, deaf,
                   liveFaults>>

(* The target went away under the job, or the job failed. *)
MirrorFails(d) ==
    /\ mirror[d] \in {"copying", "ready", "finishing"}
    /\ (inc = "dead" /\ UNCHANGED liveFaults) \/ LtFault
    /\ mirror' = [mirror EXCEPT ![d] = "failed"] /\ Emit(Event("ERROR", d))
    /\ UNCHANGED <<sq, todo, guest, ram, synced, client, buf, asked, targetSide,
                   deaf>>

(* The guest writes to a disk that is no longer mirrored. *)
GuestWrites(d) ==
    /\ guest = "running" /\ d \in synced /\ synced' = synced \ {d}
    /\ UNCHANGED <<sq, todo, guest, ram, mirror, client, events, asked, targetSide,
                   deaf, liveFaults>>

RamConverges ==
    /\ ram = "active" /\ inc = "waiting"
    /\ ram' = "pre-switchover" /\ guest' = "paused" /\ Emit(Status("pre-switchover"))
    /\ UNCHANGED <<sq, todo, mirror, synced, client, buf, asked, targetSide, deaf,
                   liveFaults>>

RamFails ==
    /\ Cancellable /\ ((inc = "dead" /\ UNCHANGED liveFaults) \/ LtFault)
    /\ ram' = "failed" /\ guest' = "running" /\ Emit(Status("failed"))
    /\ UNCHANGED <<sq, todo, mirror, synced, client, buf, asked, targetSide, deaf>>

(* The last of the RAM is written out, and nothing can call it back. *)
RamSent ==
    /\ ram = "device" /\ inc = "waiting"
    /\ ram' = "completed" /\ guest' = "sent" /\ inc' = "arrived"
    /\ Emit(Status("completed"))
    /\ UNCHANGED <<sq, todo, mirror, synced, client, buf, asked, tq, exports, tries,
                   deaf, liveFaults>>

QemuSource ==
    \/ \E d \in Disks : MirrorReady(d) \/ MirrorFinishes(d) \/ MirrorFails(d)
                        \/ GuestWrites(d)
    \/ RamConverges \/ RamFails \/ RamSent

-----------------------------------------------------------------------------
(* RunLiveTarget and the target's qemu. *)

sourceSide == <<sq, todo, guest, ram, mirror, synced, events, asked, deaf>>

IncomingLoads ==
    /\ inc = "arrived" /\ inc' = "loaded"
    /\ UNCHANGED <<sourceSide, client, tq, exports, tries, liveFaults>>

(* The stream ends before it is complete, or cannot be loaded. *)
IncomingBreaks ==
    /\ \/ inc = "waiting" /\ ram \in {"failed", "cancelled"} /\ UNCHANGED liveFaults
       \/ inc \in {"waiting", "arrived"} /\ LtFault
    /\ inc' = "broken"
    /\ UNCHANGED <<sourceSide, client, tq, exports, tries>>

WaitIncoming ==
    /\ tq = "wait" /\ inc = "loaded" /\ tq' = "del"
    /\ UNCHANGED <<sourceSide, client, exports, tries, inc, liveFaults>>

(* delExportFreeingClient: a safe-mode delete fails while the source's     *)
(* client is attached; after the retries the client is dropped.            *)
delExportFreeingClient(d) ==
    /\ tq = "del" /\ d \in exports /\ inc # "dead"
    /\ IF d \in client /\ tries < MaxDelTries
       THEN tries' = tries + 1 /\ UNCHANGED <<tq, exports, client>>
       ELSE /\ tries' = 0 /\ exports' = exports \ {d} /\ client' = client \ {d}
            /\ tq' = IF exports = {d} THEN "stop" ELSE tq
    /\ UNCHANGED <<sourceSide, inc, liveFaults>>

(* The server is stopped and the guest goes on from the disks. *)
Cont ==
    /\ \/ tq = "stop" /\ tq' = "cont" /\ UNCHANGED inc
       \/ tq = "cont" /\ tq' = "ok" /\ inc' = "running"
    /\ inc = "loaded"
    /\ UNCHANGED <<sourceSide, client, exports, tries, liveFaults>>

(* Any command fails, the wait times out, or the stream broke.             *)
(* failIncomingResume kills the qemu and keeps the disks.                  *)
ResumeFails ==
    /\ tq \notin {"ok", "err"} /\ tq' = "err" /\ inc' = "dead" /\ exports' = {}
    /\ \/ tq = "wait" /\ inc \in {"broken", "waiting", "dead"} /\ UNCHANGED liveFaults
       \/ tq # "wait" /\ inc = "dead" /\ UNCHANGED liveFaults
       \/ LtFault
    /\ client' = {} /\ tries' = 0
    /\ UNCHANGED sourceSide

(* teardownIncomingTarget: a cancel or a failed saga kills the incoming    *)
(* qemu under the resume.                                                  *)
teardownIncomingTarget ==
    /\ tq \notin {"ok", "err"} /\ inc # "dead" /\ LtFault
    /\ inc' = "dead" /\ exports' = {} /\ client' = {}
    /\ UNCHANGED <<sourceSide, tq, tries>>

RunLiveTarget ==
    \/ WaitIncoming \/ Cont \/ ResumeFails
    \/ \E d \in Disks : delExportFreeingClient(d)

LtNext ==
    \/ RunLiveSource \/ cancelLive \/ fanoutEvents \/ QemuSource
    \/ RunLiveTarget \/ IncomingLoads \/ IncomingBreaks \/ teardownIncomingTarget

LtSpec == LtInit /\ [][LtNext]_ltVars

(* Both goroutines run on, the drainer is never starved, and a command the *)
(* monitor can answer is answered.  Nothing is assumed of the qemus: the   *)
(* waits have deadlines of their own.                                      *)
LtFair(i) ==
    \/ i = 1 /\ RunLiveSource
    \/ i = 2 /\ fanoutEvents
    \/ i = 3 /\ (RunLiveTarget \/ IncomingLoads)

-----------------------------------------------------------------------------
(* Properties. *)

LtStages ==
    {"mirror", "ready", "migrate", "pre", "finalize", "drained", "continue",
     "completed", "clean", "abort", "abortjobs"} \cup Returned

LtEvents ==
    [name : {"READY", "COMPLETED", "ERROR"}, disk : Disks] \cup
    [name : {"active", "pre-switchover", "completed", "failed", "cancelled"}, disk : {"none"}]

(* Every variable keeps its type. *)
LtTypeOK ==
    /\ sq \in LtStages /\ todo \subseteq Disks
    /\ guest \in {"running", "paused", "sent", "gone"}
    /\ ram \in {"none", "active", "pre-switchover", "device", "completed", "failed",
                "cancelled"}
    /\ mirror \in [Disks -> {"none", "copying", "ready", "finishing", "completed",
                             "dropped", "failed"}]
    /\ synced \subseteq Disks /\ client \subseteq Disks
    /\ raw \in Seq(LtEvents) /\ buf \in Seq(LtEvents) /\ asked \in BOOLEAN
    /\ tq \in {"wait", "del", "stop", "cont", "ok", "err"}
    /\ exports \subseteq Disks /\ tries \in 0 .. MaxDelTries
    /\ inc \in {"waiting", "arrived", "loaded", "running", "broken", "dead"}
    /\ deaf \in BOOLEAN /\ liveFaults \in 0 .. MaxLiveFaults

(* What the guest's user sees, for Handoff: where it runs.                 *)
Side ==
    IF inc = "running" THEN IF guest \in {"sent", "gone"} THEN "target" ELSE "both"
    ELSE IF guest = "running" THEN "source"
    ELSE IF guest = "paused" THEN "paused"
    ELSE IF inc \in {"arrived", "loaded"} THEN "flight" ELSE "stopped"

H == INSTANCE Handoff WITH side <- Side, whole <- (synced = Disks),
                           writers <- (exports # {})

(* The staged protocol implements the handoff: whatever fails, is          *)
(* cancelled or times out, the guest leaves the source only from a pause   *)
(* with every disk drained, and runs at the target only after every        *)
(* writable export is gone.                                                *)
HandoffImplemented == H!Init /\ [][H!Next]_(H!vars)

(* A run that failed before the stream was through leaves the guest        *)
(* running on the source, unless the abort command itself was lost.        *)
FailsToSource == sq = "err" /\ ram # "completed" /\ ~deaf => guest = "running"

=============================================================================
