------------------------------ MODULE AgentVM ------------------------------
(***************************************************************************)
(* The agent's VM manager: the lifecycle operations of the VMs that share  *)
(* one name on one node.  Two of them may, when the control plane forced a *)
(* delete and the name was used again; a larger VM number is a later       *)
(* CreatedAt.                                                              *)
(*                                                                         *)
(* A call is one operation, asked for by the control plane or by the       *)
(* reconciler; its steps interleave with those of the other calls.  What   *)
(* survives an agent restart is the meta.json of a VM, its disk, its taps  *)
(* and its qemu process; the status in memory, the in-flight slot and the  *)
(* calls do not.                                                           *)
(*                                                                         *)
(* The pidfile is qemu's own and names the process while it lives, so a    *)
(* verified pid is qemu being alive.  Migration's use of the manager is in *)
(* module Migration.                                                       *)
(***************************************************************************)
EXTENDS Naturals, FiniteSets

CONSTANTS
  AmVms,          \* VMs of the name: numbers in the order of their creation
  AmCalls,        \* calls that may be under way together
  MaxAmOps,       \* calls in a behaviour
  MaxAmRestarts,  \* restarts of the agent in a behaviour
  MaxAmFaults     \* meta.json files that a write or a crash damages

ASSUME AmAssumption == AmVms \subseteq Nat /\ IsFiniteSet(AmVms)

VARIABLES
  amMem,       \* status of each VM in memory, "none" when unknown
  amMeta,      \* status in meta.json, "none" without a state dir, "bad" when unreadable
  amDisk,      \* VMs whose disk dir exists
  amTap,       \* VMs whose host taps exist and are attached to their bridges
  amQemu,      \* VMs whose qemu process lives
  amHolders,   \* calls that hold the in-flight slot of the name
  amOp,        \* the calls
  amOps, amRestarts, amFaults

amHost == <<amDisk, amTap, amQemu>>
amCounts == <<amOps, amRestarts, amFaults>>
amVars == <<amMem, amMeta, amHost, amHolders, amOp, amCounts>>

AmStatus == {"pending", "creating", "running", "paused", "stopping", "stopped", "failed", "deleting"}

AmIdle == [kind |-> "none", vm |-> 0, seen |-> "none", pc |-> "idle"]

AmInit ==
  /\ amMem = [v \in AmVms |-> "none"] /\ amMeta = amMem
  /\ amDisk = {} /\ amTap = {} /\ amQemu = {}
  /\ amHolders = {}
  /\ amOp = [c \in AmCalls |-> AmIdle]
  /\ amOps = 0 /\ amRestarts = 0 /\ amFaults = 0

AmKnown == {v \in AmVms : amMem[v] # "none"}

AmAt(c, pc) == amOp[c].pc = pc

AmGoto(c, pc) == amOp' = [amOp EXCEPT ![c].pc = pc]

(* The goroutine of a call ends and its deferred release frees the slot.   *)
release(c) ==
  /\ amOp' = [amOp EXCEPT ![c] = AmIdle]
  /\ amHolders' = amHolders \ {c}

(* A running status is checked against the process; the others are taken   *)
(* as recorded.                                                            *)
observedStatus(v) == IF amMem[v] = "running" /\ v \notin amQemu THEN "stopped" ELSE amMem[v]

(* The status changes in memory and meta.json is written; a write that     *)
(* fails is logged and leaves the file as it was.                          *)
transitionVM(v, s) ==
  \/ amMem[v] = "none" /\ UNCHANGED <<amMem, amMeta, amFaults>>
  \/ /\ amMem[v] # "none"
     /\ amMem' = [amMem EXCEPT ![v] = s]
     /\ \/ amMeta' = [amMeta EXCEPT ![v] = s] /\ UNCHANGED amFaults
        \/ amFaults < MaxAmFaults /\ amFaults' = amFaults + 1 /\ UNCHANGED amMeta

failTask(c) ==
  /\ transitionVM(amOp[c].vm, "failed")
  /\ release(c)

(* The call ends with its task successful or failed and the VM at s.       *)
AmEnd(c, s) ==
  /\ transitionVM(amOp[c].vm, s)
  /\ release(c)

AmKeep == UNCHANGED <<amOps, amRestarts>>
-----------------------------------------------------------------------------
(* A name resolves to the newest VM that carries it.                       *)
ByName(v) == v \in AmKnown /\ \A u \in AmKnown : u <= v

(* A call resolves the name and checks the status it observes; a refused   *)
(* call changes nothing.                                                   *)
Ask(c, kind, admitted, pc) ==
  /\ AmAt(c, "idle") /\ amOps < MaxAmOps
  /\ \E v \in AmVms :
       /\ ByName(v) /\ observedStatus(v) \in admitted
       /\ amOp' = [amOp EXCEPT ![c] = [kind |-> kind, vm |-> v, seen |-> observedStatus(v), pc |-> pc]]
  /\ amOps' = amOps + 1
  /\ UNCHANGED <<amMem, amMeta, amHost, amHolders, amRestarts, amFaults>>

Start(c) == Ask(c, "start", {"stopped", "failed", "running"}, "admit")

Stop(c) == Ask(c, "stop", {"running"}, "admit")

Poweroff(c) == Ask(c, "poweroff", AmStatus \ {"pending", "creating", "deleting"}, "admit")

Reboot(c) == Ask(c, "reboot", {"running"}, "admit")

Pause(c) == Ask(c, "pause", {"running"}, "qmp")

Resume(c) == Ask(c, "resume", {"paused"}, "qmp")

Reset(c) == Ask(c, "reset", {"running"}, "qmp")

(* A delete names an id (a tombstone) or the first VM the map yields under *)
(* the name.                                                               *)
DeleteByName(c, v) ==
  /\ AmAt(c, "idle") /\ amOps < MaxAmOps /\ v \in AmKnown
  /\ amOp' = [amOp EXCEPT ![c] = [kind |-> "delete", vm |-> v, seen |-> amMem[v], pc |-> "admit"]]
  /\ amOps' = amOps + 1
  /\ UNCHANGED <<amMem, amMeta, amHost, amHolders, amRestarts, amFaults>>

(* Mutant: the slot is recorded without looking whether it is taken.       *)
inFlightAcquireShared(c) == amHolders' = amHolders \union {c}

(* LoadOrStore on the name: one holder at a time.                          *)
inFlightAcquire(c) ==
  /\ amHolders = {}
  /\ amHolders' = {c}

(* With the slot taken the call is refused with ErrInFlight.               *)
ErrInFlight(c) ==
  /\ AmAt(c, "admit") /\ amHolders # {}
  /\ amOp' = [amOp EXCEPT ![c] = AmIdle]
  /\ UNCHANGED <<amMem, amMeta, amHost, amHolders, amCounts>>

Admit(c) ==
  /\ AmAt(c, "admit") /\ amOp[c].kind # "delete"
  /\ inFlightAcquire(c)
  /\ AmGoto(c, "begin")
  /\ UNCHANGED <<amMem, amMeta, amHost, amCounts>>

(* A delete looks the VM up again once it has the slot, and only then      *)
(* marks it deleting.                                                      *)
Delete(c) ==
  LET v == amOp[c].vm
  IN /\ AmAt(c, "admit") /\ amOp[c].kind = "delete"
     /\ \/ /\ amMem[v] # "none"
           /\ inFlightAcquire(c)
           /\ amMem' = [amMem EXCEPT ![v] = "deleting"]
           /\ AmGoto(c, "begin")
        \/ /\ amMem[v] = "none" /\ amHolders = {}
           /\ amOp' = [amOp EXCEPT ![c] = AmIdle]
           /\ UNCHANGED <<amMem, amHolders>>
     /\ UNCHANGED <<amMeta, amHost, amCounts>>

(* A create inserts the VM and takes the slot in one critical section.  A  *)
(* repeated create finds the VM and changes nothing.                       *)
createVM(c, v) ==
  /\ AmAt(c, "idle") /\ amOps < MaxAmOps
  /\ amMem[v] = "none" /\ amMeta[v] = "none" /\ v \notin amDisk \union amTap
  /\ \A u \in AmVms : amMem[u] # "none" => u < v
  /\ inFlightAcquire(c)
  /\ amMem' = [amMem EXCEPT ![v] = "pending"]
  /\ amOp' = [amOp EXCEPT ![c] = [kind |-> "create", vm |-> v, seen |-> "none", pc |-> "begin"]]
  /\ amOps' = amOps + 1
  /\ UNCHANGED <<amMeta, amHost, amRestarts, amFaults>>
-----------------------------------------------------------------------------
(* A call whose VM is gone by the time it runs fails its task.             *)
snapshotVM(c) ==
  /\ AmAt(c, "begin") /\ amMem[amOp[c].vm] = "none"
  /\ release(c)
  /\ UNCHANGED <<amMem, amMeta, amHost, amCounts>>

(* A create that cannot write its first meta.json fails.                   *)
runCreate(c) ==
  LET v == amOp[c].vm
  IN /\ AmAt(c, "begin") /\ amOp[c].kind = "create"
     /\ \/ /\ amMem' = [amMem EXCEPT ![v] = "creating"] /\ amMeta' = [amMeta EXCEPT ![v] = "creating"]
           /\ AmGoto(c, "disk")
           /\ UNCHANGED <<amHolders, amFaults>>
        \/ /\ amFaults < MaxAmFaults /\ amFaults' = amFaults + 1
           /\ amMem' = [amMem EXCEPT ![v] = "failed"] /\ amMeta' = [amMeta EXCEPT ![v] = "failed"]
           /\ release(c)
     /\ UNCHANGED amHost
     /\ AmKeep

(* The disk is cloned, or the create fails before or after it exists.      *)
materialiseCreateDisk(c) ==
  LET v == amOp[c].vm
  IN /\ AmAt(c, "disk")
     /\ amDisk' \in {amDisk, amDisk \union {v}}
     /\ \/ failTask(c)
        \/ v \in amDisk' /\ AmGoto(c, "nics") /\ UNCHANGED <<amMem, amMeta, amHolders, amFaults>>
     /\ UNCHANGED <<amTap, amQemu>>
     /\ AmKeep

materialiseNICs(c) ==
  /\ AmAt(c, "nics")
  /\ \/ failTask(c) /\ UNCHANGED amTap
     \/ /\ amTap' = amTap \union {amOp[c].vm}
        /\ AmGoto(c, "spawn")
        /\ UNCHANGED <<amMem, amMeta, amHolders, amFaults>>
  /\ UNCHANGED <<amDisk, amQemu>>
  /\ AmKeep

(* A start of a VM seen running is a success without effect.               *)
runStart(c) ==
  /\ AmAt(c, "begin") /\ amOp[c].kind = "start" /\ amMem[amOp[c].vm] # "none"
  /\ \/ amOp[c].seen = "running" /\ release(c)
     \/ amOp[c].seen # "running" /\ AmGoto(c, "spawn") /\ UNCHANGED amHolders
  /\ UNCHANGED <<amMem, amMeta, amHost, amCounts>>

(* The taps of a create that fails to boot are torn down again.            *)
BootFails(c) ==
  /\ failTask(c)
  /\ amTap' = IF amOp[c].kind = "create" THEN amTap \ {amOp[c].vm} ELSE amTap

(* qemu boots when the disk is there and no other process holds its lock.  *)
Spawn(c) ==
  LET v == amOp[c].vm
  IN /\ AmAt(c, "spawn")
     /\ \/ BootFails(c) /\ UNCHANGED amQemu
        \/ /\ v \in amDisk \ amQemu
           /\ amQemu' = amQemu \union {v}
           /\ AmGoto(c, "verify")
           /\ UNCHANGED <<amMem, amMeta, amTap, amHolders, amFaults>>
     /\ UNCHANGED amDisk
     /\ AmKeep

(* The pidfile and QMP are asked; a monitor that does not answer fails the *)
(* call with qemu left as it is.                                           *)
spawnAndVerify(c) ==
  /\ AmAt(c, "verify")
  /\ \/ BootFails(c)
     \/ /\ amOp[c].vm \in amQemu
        /\ AmGoto(c, "mux")
        /\ UNCHANGED <<amMem, amMeta, amTap, amHolders, amFaults>>
  /\ UNCHANGED <<amDisk, amQemu>>
  /\ AmKeep

(* A create or a start that cannot attach to the serial socket kills the   *)
(* guest again (a kill may not land); a reboot carries on without.         *)
attachMux(c) ==
  LET v == amOp[c].vm
  IN /\ AmAt(c, "mux")
     /\ \/ /\ amOp[c].kind # "reboot"
           /\ amQemu' \in {amQemu, amQemu \ {v}}
           /\ BootFails(c)
        \/ AmEnd(c, "running") /\ UNCHANGED <<amTap, amQemu>>
     /\ UNCHANGED amDisk
     /\ AmKeep
-----------------------------------------------------------------------------
(* Stop, Reboot and Poweroff begin alike.                                  *)
BeginStopping(c) ==
  /\ AmAt(c, "begin") /\ amOp[c].kind \in {"stop", "reboot", "poweroff"} /\ amMem[amOp[c].vm] # "none"
  /\ transitionVM(amOp[c].vm, "stopping")
  /\ AmGoto(c, IF amOp[c].kind = "poweroff" THEN "quit" ELSE "acpi")
  /\ UNCHANGED <<amHost, amHolders>>
  /\ AmKeep

(* The power button is pressed over QMP, or the VM goes back to running.   *)
SystemPowerdown(c) ==
  /\ AmAt(c, "acpi")
  /\ \/ AmEnd(c, "running")
     \/ /\ amOp[c].vm \in amQemu
        /\ AmGoto(c, "wait")
        /\ UNCHANGED <<amMem, amMeta, amHolders, amFaults>>
  /\ UNCHANGED amHost
  /\ AmKeep

(* Mutant: the end of the wait is taken for the end of the guest.          *)
runStopImpatient(c) ==
  /\ AmAt(c, "wait") /\ amOp[c].kind = "stop"
  /\ AmEnd(c, "stopped")
  /\ UNCHANGED amHost
  /\ AmKeep

(* The guest is gone, or the grace period ends with it alive and the VM    *)
(* goes back to running.                                                   *)
runStop(c) ==
  /\ AmAt(c, "wait") /\ amOp[c].kind = "stop"
  /\ \/ amOp[c].vm \notin amQemu /\ AmEnd(c, "stopped")
     \/ amOp[c].vm \in amQemu /\ AmEnd(c, "running")
  /\ UNCHANGED amHost
  /\ AmKeep

runReboot(c) ==
  LET v == amOp[c].vm
  IN /\ AmAt(c, "wait") /\ amOp[c].kind = "reboot"
     /\ \/ /\ v \notin amQemu
           /\ transitionVM(v, "stopped")
           /\ AmGoto(c, "spawn")
           /\ UNCHANGED amHolders
        \/ v \in amQemu /\ AmEnd(c, "running")
     /\ UNCHANGED amHost
     /\ AmKeep

(* quit, and SIGKILL when it does not land; a process that survives both   *)
(* fails the VM.                                                           *)
runPoweroff(c) ==
  LET v == amOp[c].vm
  IN /\ AmAt(c, "quit")
     /\ \/ amQemu' = amQemu \ {v} /\ AmEnd(c, "stopped")
        \/ v \in amQemu /\ UNCHANGED amQemu /\ failTask(c)
     /\ UNCHANGED <<amDisk, amTap>>
     /\ AmKeep

(* Pause, Resume and Reset take no slot: they ask QMP, which answers when  *)
(* there is a process, ...                                                 *)
runSyncLifecycle(c) ==
  /\ AmAt(c, "qmp")
  /\ \/ amOp' = [amOp EXCEPT ![c] = AmIdle]
     \/ amOp[c].vm \in amQemu /\ AmGoto(c, "apply")
  /\ UNCHANGED <<amMem, amMeta, amHost, amHolders, amCounts>>

(* ... record the new status in memory and copy the VM for the file, ...   *)
ApplySync(c) ==
  LET v == amOp[c].vm
      s == IF amOp[c].kind = "pause" THEN "paused" ELSE "running"
  IN /\ AmAt(c, "apply")
     /\ \/ /\ amMem[v] = "none"
           /\ amOp' = [amOp EXCEPT ![c] = AmIdle]
           /\ UNCHANGED amMem
        \/ /\ amMem[v] # "none"
           /\ amMem' = [amMem EXCEPT ![v] = s]
           /\ amOp' = [amOp EXCEPT ![c].seen = s, ![c].pc = "write"]
     /\ UNCHANGED <<amMeta, amHost, amHolders, amCounts>>

(* ... and write it, whatever happened to the VM since.                    *)
persistVM(c) ==
  /\ AmAt(c, "write")
  /\ amMeta' = [amMeta EXCEPT ![amOp[c].vm] = amOp[c].seen]
  /\ amOp' = [amOp EXCEPT ![c] = AmIdle]
  /\ UNCHANGED <<amMem, amHost, amHolders, amCounts>>
-----------------------------------------------------------------------------
runDelete(c) ==
  /\ AmAt(c, "begin") /\ amOp[c].kind = "delete"
  /\ transitionVM(amOp[c].vm, amMem[amOp[c].vm])
  /\ AmGoto(c, "kill")
  /\ UNCHANGED <<amHost, amHolders>>
  /\ AmKeep

(* The guest is shut down or killed; one that cannot be confirmed gone     *)
(* fails the delete with everything left in place.                         *)
terminateGuest(c) ==
  LET v == amOp[c].vm
  IN /\ AmAt(c, "kill")
     /\ \/ /\ amQemu' = amQemu \ {v}
           /\ AmGoto(c, "taps")
           /\ UNCHANGED <<amMem, amMeta, amHolders, amFaults>>
        \/ v \in amQemu /\ UNCHANGED amQemu /\ failTask(c)
     /\ UNCHANGED <<amDisk, amTap>>
     /\ AmKeep

(* Best effort: a tap, the disk dir or the state dir that cannot be        *)
(* removed is logged and stays.                                            *)
teardownNICs(c) ==
  /\ AmAt(c, "taps")
  /\ amTap' \in {amTap, amTap \ {amOp[c].vm}}
  /\ AmGoto(c, "rmdisk")
  /\ UNCHANGED <<amMem, amMeta, amDisk, amQemu, amHolders, amCounts>>

RemoveDisk(c) ==
  /\ AmAt(c, "rmdisk")
  /\ amDisk' = amDisk \ {amOp[c].vm}
  /\ AmGoto(c, "rmstate")
  /\ UNCHANGED <<amMem, amMeta, amTap, amQemu, amHolders, amCounts>>

RemoveState(c) ==
  /\ AmAt(c, "rmstate")
  /\ amMeta' = [amMeta EXCEPT ![amOp[c].vm] = "none"]
  /\ AmGoto(c, "forget")
  /\ UNCHANGED <<amMem, amHost, amHolders, amCounts>>

Forget(c) ==
  /\ AmAt(c, "forget")
  /\ amMem' = [amMem EXCEPT ![amOp[c].vm] = "none"]
  /\ release(c)
  /\ UNCHANGED <<amMeta, amHost, amCounts>>

GuestExits(v) ==
  /\ v \in amQemu
  /\ amQemu' = amQemu \ {v}
  /\ UNCHANGED <<amMem, amMeta, amDisk, amTap, amHolders, amOp, amCounts>>
-----------------------------------------------------------------------------

(* Taps outside the replayed VMs are reclaimed, unless the replay skipped  *)
(* a state dir it could not read.                                          *)
sweepOrphanTaps(known, skipped) == IF skipped = {} THEN amTap \intersect known ELSE amTap

(* The agent restarts: the calls are gone, a meta.json may have become     *)
(* unreadable, and the VMs are replayed from the others.                   *)
New ==
  /\ amRestarts < MaxAmRestarts
  /\ \E lost \in SUBSET {v \in AmVms : amMeta[v] \notin {"none", "bad"}} :
       /\ amFaults + Cardinality(lost) <= MaxAmFaults
       /\ amFaults' = amFaults + Cardinality(lost)
       /\ amMeta' = [v \in AmVms |-> IF v \in lost THEN "bad" ELSE amMeta[v]]
  /\ amMem' = [v \in AmVms |-> IF amMeta'[v] = "bad" THEN "none" ELSE amMeta'[v]]
  /\ amTap' = sweepOrphanTaps({v \in AmVms : amMem'[v] # "none"}, {v \in AmVms : amMeta'[v] = "bad"})
  /\ amOp' = [c \in AmCalls |-> AmIdle]
  /\ amHolders' = {}
  /\ amRestarts' = amRestarts + 1
  /\ UNCHANGED <<amDisk, amQemu, amOps>>

AmRun(c) ==
  \/ snapshotVM(c) \/ runCreate(c) \/ materialiseCreateDisk(c) \/ materialiseNICs(c) \/ runStart(c)
  \/ Spawn(c) \/ spawnAndVerify(c) \/ attachMux(c) \/ BeginStopping(c) \/ SystemPowerdown(c)
  \/ runStop(c) \/ runReboot(c) \/ runPoweroff(c) \/ runDelete(c) \/ terminateGuest(c)
  \/ teardownNICs(c) \/ RemoveDisk(c) \/ RemoveState(c) \/ Forget(c)

AmNext ==
  \/ \E c \in AmCalls :
       \/ Start(c) \/ Stop(c) \/ Poweroff(c) \/ Reboot(c) \/ Pause(c) \/ Resume(c) \/ Reset(c)
       \/ \E v \in AmVms : DeleteByName(c, v) \/ createVM(c, v)
       \/ ErrInFlight(c) \/ Admit(c) \/ Delete(c)
       \/ AmRun(c)
       \/ runSyncLifecycle(c) \/ ApplySync(c) \/ persistVM(c)
  \/ \E v \in AmVms : GuestExits(v)
  \/ New

AmSpec == AmInit /\ [][AmNext]_amVars
-----------------------------------------------------------------------------
(* The disk of a live guest is never removed, whichever calls overlap and  *)
(* wherever a delete is cut short: runDelete removes it only after         *)
(* terminateGuest confirmed the process gone, and nothing boots the VM in  *)
(* between.                                                                *)
NoDiskUnderGuest == amQemu \subseteq amDisk

(* Within the life of an agent process a VM recorded as stopped, with no   *)
(* call in flight, has no guest.                                           *)
StoppedIsDown ==
  amRestarts = 0 /\ amHolders = {} => \A v \in AmVms : amMem[v] = "stopped" => v \notin amQemu
=============================================================================
