--------------------------- MODULE AgentVMProofs ----------------------------
(***************************************************************************)
(* The agent's VM manager.  The invariant: the calls past their admission  *)
(* are the holders of the slot, so there is at most one; the guest of a VM *)
(* being taken apart is gone and stays gone; a live guest has its disk;    *)
(* and, before the first restart, a VM recorded as stopped has a guest     *)
(* only while the slot's holder is booting it.                             *)
(***************************************************************************)
EXTENDS AgentVM, TLAPS

(* The stages of a call that holds the slot. *)
AmHeldPcs == {"begin", "disk", "nics", "spawn", "verify", "mux", "acpi", "wait", "quit", "kill",
              "taps", "rmdisk", "rmstate", "forget"}

AmPcs == {"idle", "admit", "qmp", "apply", "write"} \union AmHeldPcs

AmKinds == {"none", "create", "start", "stop", "poweroff", "reboot", "pause", "resume", "reset", "delete"}

AmCallType == [kind : AmKinds, vm : AmVms \union {0}, seen : AmStatus \union {"none"}, pc : AmPcs]

AmTypeOK ==
  /\ amMem \in [AmVms -> AmStatus \union {"none"}]
  /\ amMeta \in [AmVms -> AmStatus \union {"none", "bad"}]
  /\ amDisk \subseteq AmVms /\ amTap \subseteq AmVms /\ amQemu \subseteq AmVms
  /\ amHolders \subseteq AmCalls
  /\ amOp \in [AmCalls -> AmCallType]
  /\ \A c \in AmCalls : amOp[c].pc # "idle" => amOp[c].vm \in AmVms
  /\ amRestarts \in Nat

(* The slot has at most one holder: the call that runs.                    *)
SlotExact ==
  /\ \A c \in AmCalls : amOp[c].pc \in AmHeldPcs <=> c \in amHolders
  /\ \A c, d \in amHolders : c = d

(* A call that takes a VM apart has seen its guest end.                    *)
GoneApart == \A c \in AmCalls : amOp[c].pc \in {"taps", "rmdisk", "rmstate", "forget"} => amOp[c].vm \notin amQemu

(* A stopped VM's guest is one being booted.                               *)
StoppedBooting ==
  amRestarts = 0 =>
    \A v \in AmVms : amMem[v] = "stopped" /\ v \in amQemu =>
      \E c \in amHolders : amOp[c].vm = v /\ amOp[c].pc \in {"verify", "mux"}

AmInv == AmTypeOK /\ SlotExact /\ GoneApart /\ NoDiskUnderGuest /\ StoppedBooting
-----------------------------------------------------------------------------
AmApart == {"taps", "rmdisk", "rmstate", "forget"}

(* The idle call is a call.                                                *)
LEMMA AmIdleType == AmIdle \in AmCallType /\ AmIdle.pc = "idle"
BY DEF AmIdle, AmCallType, AmKinds, AmPcs

(* The holder of the slot is alone: no other VM is stopped with a guest,   *)
(* and its own is only while it boots.                                     *)
LEMMA HolderAlone ==
  ASSUME AmInv, NEW c \in AmCalls, amOp[c].pc \in AmHeldPcs
  PROVE  /\ c \in amHolders /\ amHolders = {c}
         /\ amOp[c] \in AmCallType /\ amOp[c].vm \in AmVms
         /\ \A d \in AmCalls : d # c => amOp[d].pc \notin AmHeldPcs
         /\ amRestarts = 0 => \A v \in AmVms :
              amMem[v] = "stopped" /\ v \in amQemu => v = amOp[c].vm /\ amOp[c].pc \in {"verify", "mux"}
<1>1. c \in amHolders /\ amHolders = {c} BY DEF AmInv, SlotExact
<1>2. amOp[c] \in AmCallType /\ amOp[c].vm \in AmVms
  BY DEF AmInv, AmTypeOK, AmHeldPcs
<1>3. \A d \in AmCalls : d # c => amOp[d].pc \notin AmHeldPcs BY <1>1 DEF AmInv, SlotExact
<1>4. amRestarts = 0 => \A v \in AmVms :
        amMem[v] = "stopped" /\ v \in amQemu => v = amOp[c].vm /\ amOp[c].pc \in {"verify", "mux"}
  BY <1>1 DEF AmInv, StoppedBooting
<1> QED BY <1>1, <1>2, <1>3, <1>4

(* What a step of the holder must respect: it touches the guest and the    *)
(* status of its own VM alone, keeps a live guest on a disk, goes on to    *)
(* take the VM apart only without a guest, and leaves it stopped with a    *)
(* guest only while it boots.                                              *)
LEMMA HolderSuffices ==
  ASSUME AmInv, NEW c \in AmCalls, amOp[c].pc \in AmHeldPcs, NEW v, v = amOp[c].vm,
         amMem' \in [AmVms -> AmStatus \union {"none"}],
         amMeta' \in [AmVms -> AmStatus \union {"none", "bad"}],
         amDisk' \subseteq AmVms, amTap' \subseteq AmVms, amQemu' \subseteq AmVms,
         amRestarts' = amRestarts,
         \A u \in AmVms : u # v => amMem'[u] = amMem[u] /\ (u \in amQemu' => u \in amQemu),
         amQemu' \subseteq amDisk',
         \/ /\ release(c)
            /\ amRestarts = 0 => ~(amMem'[v] = "stopped" /\ v \in amQemu')
         \/ \E p \in AmHeldPcs :
              /\ AmGoto(c, p) /\ amHolders' = amHolders
              /\ p \in AmApart => v \notin amQemu'
              /\ amRestarts = 0 /\ amMem'[v] = "stopped" /\ v \in amQemu' => p \in {"verify", "mux"}
  PROVE  AmInv'
<1>0. /\ c \in amHolders /\ amHolders = {c}
      /\ amOp[c] \in AmCallType /\ v \in AmVms
      /\ \A d \in AmCalls : d # c => amOp[d].pc \notin AmHeldPcs
      /\ amRestarts = 0 => \A u \in AmVms : u # v => ~(amMem[u] = "stopped" /\ u \in amQemu)
  BY HolderAlone
<1>1. amOp \in [AmCalls -> AmCallType] /\ \A d \in AmCalls : amOp[d].pc # "idle" => amOp[d].vm \in AmVms
  BY DEF AmInv, AmTypeOK
<1>2. amRestarts \in Nat BY DEF AmInv, AmTypeOK
<1>3. NoDiskUnderGuest' BY DEF NoDiskUnderGuest
<1>4. amRestarts = 0 => \A u \in AmVms : u # v => ~(amMem'[u] = "stopped" /\ u \in amQemu')
  BY <1>0
<1>5. CASE release(c) /\ (amRestarts = 0 => ~(amMem'[v] = "stopped" /\ v \in amQemu'))
  <2>1. amOp' = [amOp EXCEPT ![c] = AmIdle] /\ amHolders' = {} BY <1>0, <1>5 DEF release
  <2>2. /\ amOp' \in [AmCalls -> AmCallType]
        /\ \A d \in AmCalls : amOp'[d].pc \notin AmHeldPcs
        /\ \A d \in AmCalls : amOp'[d].pc # "idle" => amOp'[d].vm \in AmVms
    BY <1>0, <1>1, <2>1, AmIdleType DEF AmHeldPcs
  <2>3. AmTypeOK' BY <1>2, <2>1, <2>2 DEF AmTypeOK
  <2>4. SlotExact' BY <2>1, <2>2 DEF SlotExact
  <2>5. GoneApart' BY <2>2 DEF GoneApart, AmHeldPcs
  <2>6. StoppedBooting' BY <1>4, <1>5 DEF StoppedBooting
  <2> QED BY <1>3, <2>3, <2>4, <2>5, <2>6 DEF AmInv
<1>6. ASSUME NEW p \in AmHeldPcs, AmGoto(c, p), amHolders' = amHolders,
             p \in AmApart => v \notin amQemu',
             amRestarts = 0 /\ amMem'[v] = "stopped" /\ v \in amQemu' => p \in {"verify", "mux"}
      PROVE  AmInv'
  <2>1. /\ amOp' \in [AmCalls -> AmCallType]
        /\ amOp'[c].pc = p /\ amOp'[c].vm = v
        /\ \A d \in AmCalls : d # c => amOp'[d] = amOp[d]
    <3>1. [amOp[c] EXCEPT !.pc = p] \in AmCallType BY <1>0 DEF AmCallType, AmPcs
    <3>2. [amOp[c] EXCEPT !.pc = p].pc = p /\ [amOp[c] EXCEPT !.pc = p].vm = v
      BY <1>0 DEF AmCallType
    <3>3. amOp' = [amOp EXCEPT ![c] = [amOp[c] EXCEPT !.pc = p]] BY <1>6 DEF AmGoto
    <3> QED BY <1>1, <3>1, <3>2, <3>3
  <2>2. AmTypeOK'
    <3>1. \A d \in AmCalls : amOp'[d].pc # "idle" => amOp'[d].vm \in AmVms
      BY <1>0, <1>1, <2>1
    <3>2. amHolders' \subseteq AmCalls BY <1>0, <1>6
    <3> QED BY <1>2, <2>1, <3>1, <3>2 DEF AmTypeOK
  <2>3. SlotExact' BY <1>0, <1>6, <2>1 DEF SlotExact
  <2>4. GoneApart'
    <3> SUFFICES ASSUME NEW d \in AmCalls, amOp'[d].pc \in AmApart PROVE amOp'[d].vm \notin amQemu'
      BY DEF GoneApart, AmApart
    <3>1. d = c BY <1>0, <2>1 DEF AmApart, AmHeldPcs
    <3> QED BY <1>6, <2>1, <3>1
  <2>5. StoppedBooting'
    <3> SUFFICES ASSUME amRestarts = 0, NEW u \in AmVms, amMem'[u] = "stopped", u \in amQemu'
                 PROVE  \E d \in amHolders' : amOp'[d].vm = u /\ amOp'[d].pc \in {"verify", "mux"}
      BY DEF StoppedBooting
    <3>1. u = v BY <1>4
    <3> QED BY <1>0, <1>6, <2>1, <3>1
  <2> QED BY <1>3, <2>2, <2>3, <2>4, <2>5 DEF AmInv
<1> QED BY <1>5, <1>6

(* A step of a call without the slot changes no guest and makes nothing    *)
(* stopped.                                                                *)
LEMMA ClientSuffices ==
  ASSUME AmInv, NEW c \in AmCalls, amOp[c].pc \notin AmHeldPcs, NEW k \in AmCallType,
         amOp' = [amOp EXCEPT ![c] = k], k.pc # "idle" => k.vm \in AmVms,
         amMem' \in [AmVms -> AmStatus \union {"none"}],
         amMeta' \in [AmVms -> AmStatus \union {"none", "bad"}],
         UNCHANGED amHost, amRestarts' = amRestarts,
         \A u \in AmVms : amMem'[u] = "stopped" => amMem[u] = "stopped",
         \/ k.pc \notin AmHeldPcs /\ amHolders' = amHolders
         \/ k.pc = "begin" /\ amHolders = {} /\ amHolders' = {c}
  PROVE  AmInv'
<1>1. /\ amOp' \in [AmCalls -> AmCallType] /\ amOp'[c] = k
      /\ \A d \in AmCalls : d # c => amOp'[d] = amOp[d]
  BY DEF AmInv, AmTypeOK
<1>2. c \notin amHolders BY DEF AmInv, SlotExact
<1>3. AmTypeOK'
  <2>1. \A d \in AmCalls : amOp'[d].pc # "idle" => amOp'[d].vm \in AmVms
    BY <1>1
    DEF AmInv, AmTypeOK
  <2>2. amHolders' \subseteq AmCalls BY DEF AmInv, AmTypeOK
  <2> QED BY <1>1, <2>1, <2>2 DEF AmInv, AmTypeOK, amHost
<1>4. SlotExact'
  <2>1. CASE k.pc \notin AmHeldPcs /\ amHolders' = amHolders
    BY <1>1, <1>2, <2>1 DEF AmInv, SlotExact
  <2>2. CASE k.pc = "begin" /\ amHolders = {} /\ amHolders' = {c}
    <3>1. "begin" \in AmHeldPcs BY DEF AmHeldPcs
    <3> QED BY <1>1, <2>2, <3>1 DEF AmInv, SlotExact
  <2> QED BY <2>1, <2>2
<1>5. GoneApart'
  <2>1. k.pc \notin AmApart BY DEF AmApart, AmHeldPcs
  <2> QED BY <1>1, <2>1 DEF AmInv, GoneApart, AmApart, amHost
<1>6. NoDiskUnderGuest' BY DEF AmInv, NoDiskUnderGuest, amHost
<1>7. StoppedBooting'
  <2> SUFFICES ASSUME amRestarts = 0, NEW u \in AmVms, amMem'[u] = "stopped", u \in amQemu
               PROVE  \E d \in amHolders' : amOp'[d].vm = u /\ amOp'[d].pc \in {"verify", "mux"}
    BY DEF StoppedBooting, amHost
  <2>1. PICK d \in amHolders : amOp[d].vm = u /\ amOp[d].pc \in {"verify", "mux"}
    BY DEF AmInv, StoppedBooting
  <2>2. d # c /\ d \in AmCalls BY <2>1, <1>2 DEF AmInv, AmTypeOK
  <2> QED BY <1>1, <2>1, <2>2
<1> QED BY <1>3, <1>4, <1>5, <1>6, <1>7 DEF AmInv

(* What a change of status leaves.                                         *)
LEMMA TransitionEffect ==
  ASSUME AmTypeOK, NEW v \in AmVms, NEW s \in AmStatus \union {"none"}, transitionVM(v, s)
  PROVE  /\ amMem' \in [AmVms -> AmStatus \union {"none"}]
         /\ amMeta' \in [AmVms -> AmStatus \union {"none", "bad"}]
         /\ \A u \in AmVms : u # v => amMem'[u] = amMem[u]
         /\ amMem'[v] \in {s, "none"}
BY DEF AmTypeOK, transitionVM

(* A call that ends with its VM at status s keeps the invariant, whatever  *)
(* it did to its own guest, disk and taps on the way.                      *)
LEMMA EndKeeps ==
  ASSUME AmInv, NEW c \in AmCalls, amOp[c].pc \in AmHeldPcs, NEW v, v = amOp[c].vm,
         NEW s \in AmStatus, AmEnd(c, s),
         amDisk' \subseteq AmVms, amTap' \subseteq AmVms, amQemu' \subseteq amQemu, amQemu' \subseteq amDisk',
         s = "stopped" => v \notin amQemu', amRestarts' = amRestarts
  PROVE  AmInv'
<1>1. v \in AmVms BY HolderAlone
<1>2. /\ amMem' \in [AmVms -> AmStatus \union {"none"}]
      /\ amMeta' \in [AmVms -> AmStatus \union {"none", "bad"}]
      /\ \A u \in AmVms : u # v => amMem'[u] = amMem[u]
      /\ amMem'[v] \in {s, "none"}
  BY <1>1, TransitionEffect DEF AmInv, AmEnd
<1>3. release(c) BY DEF AmEnd
<1>4. amQemu' \subseteq AmVms BY DEF AmInv, AmTypeOK
<1> QED BY <1>1, <1>2, <1>3, <1>4, HolderSuffices

(* A call that goes on, its VM's status unchanged.                         *)
LEMMA GoKeeps ==
  ASSUME AmInv, NEW c \in AmCalls, amOp[c].pc \in AmHeldPcs, NEW v, v = amOp[c].vm,
         NEW p \in AmHeldPcs, AmGoto(c, p), UNCHANGED <<amMem, amHolders, amRestarts>>,
         amMeta' \in [AmVms -> AmStatus \union {"none", "bad"}],
         amDisk' \subseteq AmVms, amTap' \subseteq AmVms,
         amQemu' \subseteq amQemu \union {v}, amQemu' \subseteq amDisk',
         v \in amQemu' => v \in amQemu \/ p = "verify",
         amOp[c].pc \in {"verify", "mux"} => p \in {"verify", "mux"},
         p \in AmApart => v \notin amQemu'
  PROVE  AmInv'
<1>1. v \in AmVms BY HolderAlone
<1>2. amRestarts = 0 /\ amMem'[v] = "stopped" /\ v \in amQemu' => p \in {"verify", "mux"}
  BY <1>1, HolderAlone
<1>3. amMem' \in [AmVms -> AmStatus \union {"none"}] /\ amQemu' \subseteq AmVms
  BY <1>1 DEF AmInv, AmTypeOK
<1> QED BY <1>1, <1>2, <1>3, HolderSuffices

(* A call that sets its VM's status and goes on, the host untouched.       *)
LEMMA SetKeeps ==
  ASSUME AmInv, NEW c \in AmCalls, amOp[c].pc \in AmHeldPcs, NEW v, v = amOp[c].vm,
         NEW p \in AmHeldPcs \ AmApart, AmGoto(c, p), UNCHANGED <<amHost, amHolders, amRestarts>>,
         NEW s \in AmStatus, transitionVM(v, s), s = "stopped" => v \notin amQemu
  PROVE  AmInv'
<1>1. v \in AmVms BY HolderAlone
<1>2. /\ amMem' \in [AmVms -> AmStatus \union {"none"}]
      /\ amMeta' \in [AmVms -> AmStatus \union {"none", "bad"}]
      /\ \A u \in AmVms : u # v => amMem'[u] = amMem[u]
      /\ amMem'[v] \in {s, "none"}
  BY <1>1, TransitionEffect DEF AmInv
<1>3. /\ amDisk' \subseteq AmVms /\ amTap' \subseteq AmVms /\ amQemu' \subseteq AmVms
      /\ amQemu' \subseteq amDisk' /\ amQemu' = amQemu
  BY DEF AmInv, AmTypeOK, amHost, NoDiskUnderGuest
<1> QED BY <1>1, <1>2, <1>3, HolderSuffices

(* The types a holder's step starts from.                                  *)
LEMMA HostType ==
  ASSUME AmInv
  PROVE  /\ amMem \in [AmVms -> AmStatus \union {"none"}]
         /\ amMeta \in [AmVms -> AmStatus \union {"none", "bad"}]
         /\ amDisk \subseteq AmVms /\ amTap \subseteq AmVms /\ amQemu \subseteq AmVms
         /\ amQemu \subseteq amDisk
         /\ amRestarts \in Nat
BY DEF AmInv, AmTypeOK, NoDiskUnderGuest

(* A create, up to its boot.                                               *)
LEMMA CreateKeeps ==
  ASSUME AmInv, NEW c \in AmCalls,
         snapshotVM(c) \/ runCreate(c) \/ materialiseCreateDisk(c) \/ materialiseNICs(c) \/ runStart(c)
  PROVE  AmInv'
<1>v. PICK v : v = amOp[c].vm OBVIOUS
<1>0. amOp[c].pc \in {"begin", "disk", "nics"} /\ amOp[c].pc \in AmHeldPcs
  BY DEF snapshotVM, runCreate, materialiseCreateDisk, materialiseNICs,
         runStart, AmAt, AmHeldPcs
<1>1. v \in AmVms BY <1>v, <1>0, HolderAlone
<1>2. {"disk", "nics", "spawn"} \subseteq AmHeldPcs \ AmApart BY DEF AmHeldPcs, AmApart
<1>3. amRestarts = 0 /\ amMem[v] = "stopped" => v \notin amQemu BY <1>0, <1>1, HolderAlone
<1>4. CASE snapshotVM(c)
  <2>1. release(c) /\ UNCHANGED <<amMem, amMeta, amHost, amRestarts>>
    BY <1>4, ZenonT(20) DEF snapshotVM, amCounts
  <2> QED BY <1>v, <1>0, <1>1, <1>3, <2>1, HostType, HolderSuffices DEF amHost
<1>5. CASE runCreate(c)
  <2>0. UNCHANGED <<amHost, amRestarts>> BY <1>5, ZenonT(20) DEF runCreate, AmKeep
  <2>1. CASE /\ amMem' = [amMem EXCEPT ![v] = "creating"] /\ amMeta' = [amMeta EXCEPT ![v] = "creating"]
             /\ AmGoto(c, "disk") /\ UNCHANGED amHolders
    <3>1. /\ amMem' \in [AmVms -> AmStatus \union {"none"}] /\ amMem'[v] = "creating"
          /\ amMeta' \in [AmVms -> AmStatus \union {"none", "bad"}]
          /\ \A u \in AmVms : u # v => amMem'[u] = amMem[u]
      BY <1>1, <2>1, HostType, ZenonT(20) DEF AmStatus
    <3> QED
      BY <1>v, <1>0, <1>1, <1>2, <2>0, <2>1, <3>1, HostType, HolderSuffices
      DEF amHost
  <2>2. CASE /\ amMem' = [amMem EXCEPT ![v] = "failed"] /\ amMeta' = [amMeta EXCEPT ![v] = "failed"]
             /\ release(c)
    <3>1. /\ amMem' \in [AmVms -> AmStatus \union {"none"}] /\ amMem'[v] = "failed"
          /\ amMeta' \in [AmVms -> AmStatus \union {"none", "bad"}]
          /\ \A u \in AmVms : u # v => amMem'[u] = amMem[u]
      BY <1>1, <2>2, HostType DEF AmStatus
    <3> QED BY <1>v, <1>0, <1>1, <2>0, <2>2, <3>1, HostType, HolderSuffices DEF amHost
  <2> QED BY <1>5, <1>v, <2>1, <2>2 DEF runCreate
<1>6. CASE materialiseCreateDisk(c)
  <2>0. /\ UNCHANGED <<amTap, amQemu, amRestarts>>
        /\ amDisk' \subseteq AmVms /\ amDisk \subseteq amDisk'
    BY <1>6, <1>v, <1>1, HostType DEF materialiseCreateDisk, AmKeep
  <2>1. CASE failTask(c)
    <3>1. "failed" \in AmStatus /\ AmEnd(c, "failed")
      BY <2>1, ZenonT(20)
      DEF AmStatus, AmEnd, failTask
    <3> QED BY <1>v, <1>0, <2>0, <3>1, HostType, EndKeeps
  <2>2. CASE AmGoto(c, "nics") /\ UNCHANGED <<amMem, amMeta, amHolders>>
    BY <1>v, <1>0, <1>2, <2>0, <2>2, HostType, GoKeeps
  <2> QED BY <1>6, <2>1, <2>2 DEF materialiseCreateDisk
<1>7. CASE materialiseNICs(c)
  <2>0. UNCHANGED <<amDisk, amQemu, amRestarts>> /\ amTap' \subseteq AmVms
    BY <1>7, <1>v, <1>1, HostType DEF materialiseNICs, AmKeep
  <2>1. CASE failTask(c)
    <3>1. "failed" \in AmStatus /\ AmEnd(c, "failed")
      BY <2>1
      DEF AmStatus, AmEnd, failTask
    <3> QED BY <1>v, <1>0, <2>0, <3>1, HostType, EndKeeps
  <2>2. CASE AmGoto(c, "spawn") /\ UNCHANGED <<amMem, amMeta, amHolders>>
    BY <1>v, <1>0, <1>2, <2>0, <2>2, HostType, GoKeeps
  <2> QED BY <1>7, <2>1, <2>2 DEF materialiseNICs
<1>8. CASE runStart(c)
  <2>0. UNCHANGED <<amMem, amMeta, amHost, amRestarts>> BY <1>8 DEF runStart, amCounts
  <2>1. CASE release(c)
    BY <1>v, <1>0, <1>1, <1>3, <2>0, <2>1, HostType, HolderSuffices DEF amHost
  <2>2. CASE AmGoto(c, "spawn") /\ UNCHANGED amHolders
    BY <1>v, <1>0, <1>2, <2>0, <2>2, HostType, GoKeeps DEF amHost
  <2> QED BY <1>8, <2>1, <2>2 DEF runStart
<1> QED BY <1>4, <1>5, <1>6, <1>7, <1>8

(* The boot: a guest appears only on a disk and under a booting holder.    *)
LEMMA BootKeeps ==
  ASSUME AmInv, NEW c \in AmCalls, Spawn(c) \/ spawnAndVerify(c) \/ attachMux(c)
  PROVE  AmInv'
<1>v. PICK v : v = amOp[c].vm OBVIOUS
<1>0. amOp[c].pc \in {"spawn", "verify", "mux"} /\ amOp[c].pc \in AmHeldPcs
  BY DEF Spawn, spawnAndVerify, attachMux, AmAt, AmHeldPcs
<1>1. v \in AmVms BY <1>v, <1>0, HolderAlone
<1>2. {"verify", "mux"} \subseteq AmHeldPcs \ AmApart BY DEF AmHeldPcs, AmApart
<1>3. UNCHANGED <<amDisk, amRestarts>> BY DEF Spawn, spawnAndVerify, attachMux, AmKeep
<1>4. ASSUME BootFails(c), amQemu' \subseteq amQemu PROVE AmInv'
  <2>1. "failed" \in AmStatus /\ AmEnd(c, "failed")
    BY <1>4
    DEF AmStatus, AmEnd, failTask, BootFails
  <2>2. amTap' \subseteq AmVms BY <1>4, HostType DEF BootFails
  <2>3. amDisk' \subseteq AmVms /\ amQemu' \subseteq amDisk' BY <1>3, <1>4, HostType
  <2> QED BY <1>v, <1>0, <1>3, <1>4, <2>1, <2>2, <2>3, HostType, EndKeeps
<1>5. CASE Spawn(c)
  <2>1. CASE BootFails(c) /\ UNCHANGED amQemu BY <2>1, <1>4
  <2>2. CASE /\ v \in amDisk \ amQemu /\ amQemu' = amQemu \union {v} /\ AmGoto(c, "verify")
             /\ UNCHANGED <<amMem, amMeta, amTap, amHolders>>
    <3>1. amQemu' \subseteq amDisk' BY <1>3, <2>2, HostType
    <3> QED BY <1>v, <1>0, <1>2, <1>3, <2>2, <3>1, HostType, GoKeeps
  <2> QED BY <1>5, <1>v, <2>1, <2>2 DEF Spawn
<1>6. CASE spawnAndVerify(c)
  <2>0. UNCHANGED amQemu BY <1>6 DEF spawnAndVerify
  <2>1. CASE BootFails(c) BY <2>0, <2>1, <1>4
  <2>2. CASE AmGoto(c, "mux") /\ UNCHANGED <<amMem, amMeta, amTap, amHolders>>
    BY <1>v, <1>0, <1>2, <1>3, <2>0, <2>2, HostType, GoKeeps
  <2> QED BY <1>6, <2>1, <2>2 DEF spawnAndVerify
<1>7. CASE attachMux(c)
  <2>1. CASE BootFails(c) /\ amQemu' \in {amQemu, amQemu \ {v}} BY <2>1, <1>4
  <2>2. CASE AmEnd(c, "running") /\ UNCHANGED <<amTap, amQemu>>
    <3>1. "running" \in AmStatus BY DEF AmStatus
    <3> QED BY <1>v, <1>0, <1>3, <2>2, <3>1, HostType, EndKeeps
  <2> QED BY <1>7, <1>v, <2>1, <2>2 DEF attachMux
<1> QED BY <1>5, <1>6, <1>7

(* Stop, reboot and poweroff: a VM is recorded as stopped only when its    *)
(* guest was found gone.                                                   *)
LEMMA StopKeeps ==
  ASSUME AmInv, NEW c \in AmCalls,
         BeginStopping(c) \/ SystemPowerdown(c) \/ runStop(c) \/ runReboot(c) \/ runPoweroff(c)
  PROVE  AmInv'
<1>v. PICK v : v = amOp[c].vm OBVIOUS
<1>0. amOp[c].pc \in {"begin", "acpi", "wait", "quit"} /\ amOp[c].pc \in AmHeldPcs
  BY DEF BeginStopping, SystemPowerdown, runStop, runReboot, runPoweroff, AmAt, AmHeldPcs
<1>1. v \in AmVms BY <1>v, <1>0, HolderAlone
<1>2. {"quit", "acpi", "wait", "spawn"} \subseteq AmHeldPcs \ AmApart
  BY DEF AmHeldPcs, AmApart
<1>3. UNCHANGED <<amDisk, amTap, amRestarts>>
  BY DEF BeginStopping, SystemPowerdown, runStop, runReboot, runPoweroff, AmKeep, amHost
<1>4. {"running", "stopping", "stopped", "failed"} \subseteq AmStatus BY DEF AmStatus
<1>5. ASSUME NEW s \in {"running", "stopped", "failed"}, AmEnd(c, s), amQemu' \subseteq amQemu,
             s = "stopped" => v \notin amQemu'
      PROVE  AmInv'
  BY <1>v, <1>0, <1>3, <1>4, <1>5, HostType, EndKeeps, ZenonT(20)
<1>6. CASE BeginStopping(c)
  <2>1. PICK p \in AmHeldPcs \ AmApart : AmGoto(c, p) BY <1>2, <1>6, ZenonT(20)
                                                      DEF BeginStopping
  <2>2. transitionVM(v, "stopping") /\ UNCHANGED <<amHost, amHolders, amRestarts>>
    BY <1>v, <1>6 DEF BeginStopping, AmKeep
  <2> QED BY <1>v, <1>0, <1>4, <2>1, <2>2, SetKeeps, ZenonT(20)
<1>7. CASE SystemPowerdown(c)
  <2>0. UNCHANGED amQemu BY <1>7 DEF SystemPowerdown, amHost
  <2>1. CASE AmEnd(c, "running") BY <1>5, <2>0, <2>1, ZenonT(20)
  <2>2. CASE AmGoto(c, "wait") /\ UNCHANGED <<amMem, amMeta, amHolders>>
    BY <1>v, <1>0, <1>2, <1>3, <2>0, <2>2, HostType, GoKeeps, ZenonT(20)
  <2> QED BY <1>7, <2>1, <2>2 DEF SystemPowerdown
<1>8. CASE runStop(c)
  <2>0. UNCHANGED amQemu BY <1>8, ZenonT(20) DEF runStop, amHost
  <2> QED BY <1>v, <1>5, <1>8, <2>0 DEF runStop
<1>9. CASE runReboot(c)
  <2>0. UNCHANGED <<amHost, amQemu>> BY <1>9 DEF runReboot, amHost
  <2>1. CASE AmEnd(c, "running") BY <1>5, <2>0, <2>1
  <2>2. CASE v \notin amQemu /\ transitionVM(v, "stopped") /\ AmGoto(c, "spawn") /\ UNCHANGED amHolders
    BY <1>v, <1>0, <1>2, <1>3, <1>4, <2>0, <2>2, SetKeeps
  <2> QED BY <1>9, <1>v, <2>1, <2>2, ZenonT(20) DEF runReboot
<1>10. CASE runPoweroff(c)
  <2>1. CASE amQemu' = amQemu \ {v} /\ AmEnd(c, "stopped") BY <1>5, <2>1
  <2>2. CASE UNCHANGED amQemu /\ failTask(c)
    <3>1. AmEnd(c, "failed") BY <2>2 DEF failTask, AmEnd
    <3> QED BY <1>5, <2>2, <3>1
  <2> QED BY <1>10, <1>v, <2>1, <2>2 DEF runPoweroff
<1> QED BY <1>6, <1>7, <1>8, <1>9, <1>10

(* A delete: the disk goes after the guest, and the slot keeps the guest   *)
(* from coming back.                                                       *)
LEMMA DeleteKeeps ==
  ASSUME AmInv, NEW c \in AmCalls,
         \/ runDelete(c) \/ terminateGuest(c) \/ teardownNICs(c) \/ RemoveDisk(c)
         \/ RemoveState(c) \/ Forget(c)
  PROVE  AmInv'
<1>v. PICK v : v = amOp[c].vm BY ZenonT(20)
<1>0. amOp[c].pc \in {"begin", "kill", "taps", "rmdisk", "rmstate", "forget"} /\ amOp[c].pc \in AmHeldPcs
  BY DEF runDelete, terminateGuest, teardownNICs, RemoveDisk, RemoveState,
         Forget, AmAt, AmHeldPcs
<1>1. v \in AmVms BY <1>v, <1>0, HolderAlone
<1>2. {"kill", "taps", "rmdisk", "rmstate", "forget"} \subseteq AmHeldPcs /\ "kill" \notin AmApart
  BY ZenonT(20) DEF AmHeldPcs, AmApart
<1>3. amRestarts' = amRestarts
  BY ZenonT(20) DEF runDelete, terminateGuest, teardownNICs, RemoveDisk, RemoveState,
         Forget, AmKeep, amCounts
<1>4. amOp[c].pc \in AmApart => v \notin amQemu BY <1>v, ZenonT(20)
                                                DEF AmInv, GoneApart, AmApart
<1>5. CASE runDelete(c)
  <2>1. AmGoto(c, "kill") /\ UNCHANGED <<amHost, amHolders>>
    BY <1>5, ZenonT(20)
    DEF runDelete
  <2>2. transitionVM(v, amMem[v]) BY <1>v, <1>5 DEF runDelete
  <2>3. amMem[v] \in AmStatus \union {"none"} BY <1>1, HostType
  <2>4. /\ amMem' \in [AmVms -> AmStatus \union {"none"}]
        /\ amMeta' \in [AmVms -> AmStatus \union {"none", "bad"}]
        /\ \A u \in AmVms : u # v => amMem'[u] = amMem[u]
        /\ amMem'[v] \in {amMem[v], "none"}
    BY <1>1, <2>2, <2>3, TransitionEffect DEF AmInv
  <2>5. amRestarts = 0 => ~(amMem'[v] = "stopped" /\ v \in amQemu)
    BY <1>0, <1>1, <2>4, HolderAlone
  <2> QED BY <1>v, <1>0, <1>1, <1>2, <1>3, <2>1, <2>4, <2>5, HostType,
             HolderSuffices, SMTT(40)
          DEF amHost
<1>6. CASE terminateGuest(c)
  <2>0. UNCHANGED <<amDisk, amTap>> BY <1>6, ZenonT(20) DEF terminateGuest
  <2>1. CASE /\ amQemu' = amQemu \ {v} /\ AmGoto(c, "taps")
             /\ UNCHANGED <<amMem, amMeta, amHolders>>
    <3>1. amOp[c].pc = "kill" BY <1>6 DEF terminateGuest, AmAt
    <3>2. amQemu' \subseteq amDisk' BY <2>0, <2>1, HostType, ZenonT(20)
    <3> QED BY <1>v, <1>0, <1>2, <1>3, <2>0, <2>1, <3>1, <3>2, HostType,
               GoKeeps, ZenonT(20)
  <2>2. CASE UNCHANGED amQemu /\ failTask(c)
    <3>1. "failed" \in AmStatus /\ AmEnd(c, "failed")
      BY <2>2
      DEF AmStatus, AmEnd, failTask
    <3> QED BY <1>v, <1>0, <1>3, <2>0, <2>2, <3>1, HostType, EndKeeps
  <2> QED BY <1>6, <1>v, <2>1, <2>2 DEF terminateGuest
<1>7. CASE teardownNICs(c)
  <2>1. AmGoto(c, "rmdisk") /\ UNCHANGED <<amMem, amMeta, amDisk, amQemu, amHolders>>
    BY <1>7 DEF teardownNICs
  <2>2. amTap' \subseteq AmVms BY <1>7, HostType DEF teardownNICs
  <2>3. v \notin amQemu /\ amOp[c].pc = "taps"
    BY <1>4, <1>7, ZenonT(20)
    DEF teardownNICs, AmAt, AmApart
  <2> QED BY <1>v, <1>0, <1>2, <1>3, <2>1, <2>2, <2>3, HostType, GoKeeps
<1>8. CASE RemoveDisk(c)
  <2>1. /\ AmGoto(c, "rmstate") /\ UNCHANGED <<amMem, amMeta, amTap, amQemu, amHolders>>
        /\ amDisk' = amDisk \ {v}
    BY <1>v, <1>8 DEF RemoveDisk
  <2>2. v \notin amQemu /\ amOp[c].pc = "rmdisk"
    BY <1>4, <1>8
    DEF RemoveDisk, AmAt, AmApart
  <2>3. amQemu' \subseteq amDisk' /\ amDisk' \subseteq AmVms
    BY <2>1, <2>2, HostType, ZenonT(20)
  <2> QED BY <1>v, <1>0, <1>2, <1>3, <2>1, <2>2, <2>3, HostType, GoKeeps
<1>9. CASE RemoveState(c)
  <2>1. /\ AmGoto(c, "forget") /\ UNCHANGED <<amMem, amDisk, amTap, amQemu, amHolders>>
        /\ amMeta' = [amMeta EXCEPT ![v] = "none"]
    BY <1>v, <1>9 DEF RemoveState, amHost
  <2>2. v \notin amQemu /\ amOp[c].pc = "rmstate"
    BY <1>4, <1>9
    DEF RemoveState, AmAt, AmApart
  <2>3. amMeta' \in [AmVms -> AmStatus \union {"none", "bad"}]
    BY <1>1, <2>1, HostType, ZenonT(20)
  <2> QED BY <1>v, <1>0, <1>2, <1>3, <2>1, <2>2, <2>3, HostType, GoKeeps
<1>10. CASE Forget(c)
  <2>1. /\ release(c) /\ UNCHANGED <<amMeta, amDisk, amTap, amQemu>>
        /\ amMem' = [amMem EXCEPT ![v] = "none"]
    BY <1>v, <1>10 DEF Forget, amHost
  <2>2. /\ amMem' \in [AmVms -> AmStatus \union {"none"}] /\ amMem'[v] = "none"
        /\ \A u \in AmVms : u # v => amMem'[u] = amMem[u]
    BY <1>1, <2>1, HostType
  <2> QED BY <1>v, <1>0, <1>1, <1>3, <2>1, <2>2, HostType, HolderSuffices
<1> QED BY <1>5, <1>6, <1>7, <1>8, <1>9, <1>10

(* A call that comes in.                                                   *)
LEMMA AskKeeps ==
  ASSUME AmInv, NEW c \in AmCalls, NEW kind \in AmKinds, NEW admitted, NEW pc \in {"admit", "qmp"},
         Ask(c, kind, admitted, pc)
  PROVE  AmInv'
<1>1. PICK v \in AmVms : amOp' = [amOp EXCEPT ![c] = [kind |-> kind, vm |-> v, seen |-> observedStatus(v), pc |-> pc]]
  BY Zenon DEF Ask
<1>2. observedStatus(v) \in AmStatus \union {"none"}
  BY HostType
  DEF observedStatus, AmStatus
<1>3. PICK k : k = [kind |-> kind, vm |-> v, seen |-> observedStatus(v), pc |-> pc]
  BY Zenon
<1>4. k \in AmCallType /\ k.vm \in AmVms /\ k.pc \notin AmHeldPcs
  BY <1>2, <1>3 DEF AmCallType, AmPcs, AmHeldPcs
<1>5. amOp[c].pc \notin AmHeldPcs BY DEF Ask, AmAt, AmHeldPcs
<1>6. UNCHANGED <<amMem, amMeta, amHost, amHolders, amRestarts>> BY DEF Ask
<1> QED BY <1>1, <1>3, <1>4, <1>5, <1>6, HostType, ClientSuffices, Zenon

(* The calls before they hold the slot, and those that never do.           *)
LEMMA ClientKeeps ==
  ASSUME AmInv, NEW c \in AmCalls,
         \/ \E v \in AmVms : DeleteByName(c, v) \/ createVM(c, v)
         \/ ErrInFlight(c) \/ Admit(c) \/ Delete(c)
         \/ runSyncLifecycle(c) \/ ApplySync(c) \/ persistVM(c)
  PROVE  AmInv'
<1>0. /\ amOp[c] \in AmCallType /\ (amOp[c].pc # "idle" => amOp[c].vm \in AmVms)
      /\ amRestarts' = amRestarts /\ UNCHANGED amHost
      /\ amOp[c].pc \in {"idle", "admit", "qmp", "apply", "write"}
  BY ZenonT(20) DEF AmInv, AmTypeOK, DeleteByName, createVM, ErrInFlight, Admit, Delete, runSyncLifecycle,
         ApplySync, persistVM, amCounts, AmAt
<1>1. amOp[c].pc \notin AmHeldPcs BY <1>0 DEF AmHeldPcs
<1>2. ASSUME amOp' = [amOp EXCEPT ![c] = AmIdle], UNCHANGED <<amMem, amHolders>>,
             amMeta' \in [AmVms -> AmStatus \union {"none", "bad"}]
      PROVE  AmInv'
  <2>1. "idle" \notin AmHeldPcs BY DEF AmHeldPcs
  <2> QED BY <1>0, <1>1, <1>2, <2>1, AmIdleType, HostType, ClientSuffices,
             Zenon
<1>3. ASSUME NEW v \in AmVms, DeleteByName(c, v) PROVE AmInv'
  <2>1. PICK k : k = [kind |-> "delete", vm |-> v, seen |-> amMem[v], pc |-> "admit"]
    BY Zenon
  <2>2. k \in AmCallType /\ k.vm \in AmVms /\ k.pc \notin AmHeldPcs
    BY <2>1, HostType DEF AmCallType, AmPcs, AmHeldPcs, AmKinds
  <2>3. amOp' = [amOp EXCEPT ![c] = k] /\ UNCHANGED <<amMem, amMeta, amHolders>>
    BY <1>3, <2>1 DEF DeleteByName
  <2> QED BY <1>0, <1>1, <2>2, <2>3, HostType, ClientSuffices, Zenon
<1>4. ASSUME NEW v \in AmVms, createVM(c, v) PROVE AmInv'
  <2>1. PICK k : k = [kind |-> "create", vm |-> v, seen |-> "none", pc |-> "begin"]
    BY Zenon
  <2>2. k \in AmCallType /\ k.vm \in AmVms /\ k.pc = "begin"
    BY <2>1 DEF AmCallType, AmPcs, AmHeldPcs, AmKinds
  <2>3. /\ amOp' = [amOp EXCEPT ![c] = k] /\ amHolders = {} /\ amHolders' = {c} /\ UNCHANGED amMeta
        /\ amMem' = [amMem EXCEPT ![v] = "pending"]
    BY <1>4, <2>1 DEF createVM, inFlightAcquire
  <2>4. /\ amMem' \in [AmVms -> AmStatus \union {"none"}]
        /\ \A u \in AmVms : amMem'[u] = "stopped" => amMem[u] = "stopped"
    BY <2>3, HostType DEF AmStatus
  <2> QED BY <1>0, <1>1, <2>2, <2>3, <2>4, HostType, ClientSuffices, Zenon
<1>5. CASE ErrInFlight(c)
  BY <1>2, <1>5, HostType, SMTT(40) DEF ErrInFlight
<1>6. ASSUME AmAt(c, "admit"), inFlightAcquire(c), AmGoto(c, "begin"), UNCHANGED amMeta,
             amMem' \in [AmVms -> AmStatus \union {"none"}],
             \A u \in AmVms : amMem'[u] = "stopped" => amMem[u] = "stopped"
      PROVE  AmInv'
  <2>1. PICK k : k = [amOp[c] EXCEPT !.pc = "begin"] BY Zenon
  <2>2. k \in AmCallType /\ k.vm \in AmVms /\ k.pc = "begin"
    BY <1>0, <1>6, <2>1 DEF AmCallType, AmPcs, AmHeldPcs, AmAt
  <2>3. amOp' = [amOp EXCEPT ![c] = k] /\ amHolders = {} /\ amHolders' = {c}
    BY <1>6, <2>1, SMTT(40) DEF AmGoto, inFlightAcquire
  <2> QED BY <1>0, <1>1, <1>6, <2>2, <2>3, HostType, ClientSuffices, Zenon
<1>7. CASE Admit(c) BY <1>6, <1>7, HostType, ZenonT(60) DEF Admit
<1>8. CASE Delete(c)
  <2>0. UNCHANGED amMeta /\ AmAt(c, "admit") BY <1>8, Zenon DEF Delete
  <2>v. PICK v : v = amOp[c].vm OBVIOUS
  <2>1. CASE inFlightAcquire(c) /\ amMem' = [amMem EXCEPT ![v] = "deleting"] /\ AmGoto(c, "begin")
    <3>1. v \in AmVms BY <1>0, <2>0, <2>v DEF AmAt
    <3>2. /\ amMem' \in [AmVms -> AmStatus \union {"none"}]
          /\ \A u \in AmVms : amMem'[u] = "stopped" => amMem[u] = "stopped"
      BY <2>1, <3>1, HostType DEF AmStatus
    <3> QED BY <1>6, <2>0, <2>1, <3>2
  <2>2. CASE amOp' = [amOp EXCEPT ![c] = AmIdle] /\ UNCHANGED <<amMem, amHolders>>
    BY <1>2, <2>0, <2>2, HostType
  <2> QED BY <1>8, <2>v, <2>1, <2>2, ZenonT(60) DEF Delete
<1>9. CASE runSyncLifecycle(c)
  <2>1. CASE amOp' = [amOp EXCEPT ![c] = AmIdle]
    BY <1>2, <1>9, <2>1, HostType, SMTT(40) DEF runSyncLifecycle
  <2>2. CASE AmGoto(c, "apply")
    <3>1. PICK k : k = [amOp[c] EXCEPT !.pc = "apply"] BY Zenon
    <3>2. k \in AmCallType /\ k.vm \in AmVms /\ k.pc \notin AmHeldPcs
      BY <1>0, <1>9, <3>1 DEF AmCallType, AmPcs, AmHeldPcs, AmAt, runSyncLifecycle
    <3>3. amOp' = [amOp EXCEPT ![c] = k] /\ UNCHANGED <<amMem, amMeta, amHolders>>
      BY <1>9, <2>2, <3>1 DEF AmGoto, runSyncLifecycle
    <3> QED BY <1>0, <1>1, <3>2, <3>3, HostType, ClientSuffices, Zenon
  <2> QED BY <1>9, <2>1, <2>2 DEF runSyncLifecycle
<1>10. CASE ApplySync(c)
  <2>1. CASE amOp' = [amOp EXCEPT ![c] = AmIdle] /\ UNCHANGED amMem
    BY <1>2, <1>10, <2>1, HostType, SMTT(40) DEF ApplySync
  <2>2. CASE amMem[amOp[c].vm] # "none"
    <3>0. PICK s \in {"paused", "running"} :
             /\ amMem' = [amMem EXCEPT ![amOp[c].vm] = s]
             /\ amOp' = [amOp EXCEPT ![c].seen = s, ![c].pc = "write"]
      BY <1>10, <2>2 DEF ApplySync
    <3>1. PICK k : k = [amOp[c] EXCEPT !.seen = s, !.pc = "write"] OBVIOUS
    <3>2. s \in AmStatus /\ amOp[c].vm \in AmVms
      BY <1>0, <1>10
      DEF AmStatus, ApplySync, AmAt
    <3>3. k \in AmCallType /\ k.vm = amOp[c].vm /\ k.pc \notin AmHeldPcs
      BY <1>0, <3>1, <3>2, Zenon DEF AmCallType, AmPcs, AmHeldPcs
    <3>4. amOp' = [amOp EXCEPT ![c] = k] /\ UNCHANGED <<amMeta, amHolders>>
      BY <1>10, <3>0, <3>1, ZenonT(60) DEF ApplySync
    <3>5. /\ amMem' \in [AmVms -> AmStatus \union {"none"}]
          /\ \A u \in AmVms : amMem'[u] = "stopped" => amMem[u] = "stopped"
      BY <3>0, <3>2, HostType
    <3> QED BY <1>0, <1>1, <3>2, <3>3, <3>4, <3>5, HostType, ClientSuffices,
               Zenon
  <2> QED BY <1>10, <2>1, <2>2 DEF ApplySync
<1>11. CASE persistVM(c)
  <2>1. amOp[c].seen \in AmStatus \union {"none"} /\ amOp[c].vm \in AmVms
    BY <1>0, <1>11 DEF AmCallType, persistVM, AmAt
  <2>2. amMeta' \in [AmVms -> AmStatus \union {"none", "bad"}]
    BY <1>11, <2>1, HostType DEF persistVM
  <2> QED BY <1>2, <1>11, <2>2 DEF persistVM
<1> QED BY <1>3, <1>4, <1>5, <1>7, <1>8, <1>9, <1>10, <1>11, ZenonT(20)

(* A guest that ends takes nothing from the invariant.                     *)
LEMMA ExitKeeps ==
  ASSUME AmInv, NEW v \in AmVms, GuestExits(v)
  PROVE  AmInv'
<1>1. /\ amQemu' = amQemu \ {v}
      /\ UNCHANGED <<amMem, amMeta, amDisk, amTap, amHolders, amOp, amRestarts>>
  BY DEF GuestExits, amCounts
<1>2. AmTypeOK' BY <1>1 DEF AmInv, AmTypeOK
<1>3. SlotExact' BY <1>1 DEF AmInv, SlotExact
<1>4. GoneApart' BY <1>1 DEF AmInv, GoneApart
<1>5. NoDiskUnderGuest' BY <1>1 DEF AmInv, NoDiskUnderGuest
<1>6. StoppedBooting' BY <1>1 DEF AmInv, StoppedBooting
<1> QED BY <1>2, <1>3, <1>4, <1>5, <1>6 DEF AmInv

(* A restart ends every call and frees the slot; guests and disks stay.    *)
LEMMA RestartKeeps ==
  ASSUME AmInv, New
  PROVE  AmInv'
<1>1. /\ amOp' = [c \in AmCalls |-> AmIdle] /\ amHolders' = {}
      /\ amRestarts' = amRestarts + 1 /\ UNCHANGED <<amDisk, amQemu>>
  BY DEF New
<1>2. amMeta' \in [AmVms -> AmStatus \union {"none", "bad"}] BY HostType DEF New
<1>3. amMem' \in [AmVms -> AmStatus \union {"none"}] BY <1>2 DEF New
<1>4. amTap' \subseteq AmVms BY HostType DEF New, sweepOrphanTaps
<1>5. AmTypeOK' BY <1>1, <1>2, <1>3, <1>4, HostType, AmIdleType DEF AmTypeOK
<1>6. SlotExact'
  <2>1. "idle" \notin AmHeldPcs BY DEF AmHeldPcs
  <2> QED BY <1>1, <2>1, AmIdleType DEF SlotExact
<1>7. GoneApart' BY <1>1, AmIdleType DEF GoneApart
<1>8. NoDiskUnderGuest' BY <1>1, HostType DEF NoDiskUnderGuest
<1>9. StoppedBooting' BY <1>1, HostType DEF StoppedBooting
<1> QED BY <1>5, <1>6, <1>7, <1>8, <1>9 DEF AmInv

(* Every step keeps the invariant.                                         *)
LEMMA AmInvStep == AmInv /\ [AmNext]_amVars => AmInv'
<1> SUFFICES ASSUME AmInv, [AmNext]_amVars PROVE AmInv' OBVIOUS
<1>1. CASE UNCHANGED amVars
  <2>1. UNCHANGED <<amMem, amMeta, amDisk, amTap, amQemu, amHolders, amOp, amRestarts>>
    BY <1>1 DEF amVars, amHost, amCounts
  <2>2. AmTypeOK' BY <2>1 DEF AmInv, AmTypeOK
  <2>3. SlotExact' BY <2>1 DEF AmInv, SlotExact
  <2>4. GoneApart' BY <2>1 DEF AmInv, GoneApart
  <2>5. NoDiskUnderGuest' BY <2>1 DEF AmInv, NoDiskUnderGuest
  <2>6. StoppedBooting' BY <2>1 DEF AmInv, StoppedBooting
  <2> QED BY <2>2, <2>3, <2>4, <2>5, <2>6 DEF AmInv
<1>2. ASSUME NEW c \in AmCalls,
             \/ Start(c) \/ Stop(c) \/ Poweroff(c) \/ Reboot(c) \/ Pause(c) \/ Resume(c) \/ Reset(c)
      PROVE  AmInv'
  <2>1. {"start", "stop", "poweroff", "reboot", "pause", "resume", "reset"} \subseteq AmKinds
    BY DEF AmKinds
  <2>2. \E kind \in AmKinds, pc \in {"admit", "qmp"} : \E admitted : Ask(c, kind, admitted, pc)
    BY <1>2, <2>1 DEF Start, Stop, Poweroff, Reboot, Pause, Resume, Reset
  <2> QED BY <2>2, AskKeeps
<1>3. ASSUME NEW c \in AmCalls, AmRun(c) PROVE AmInv'
  BY <1>3, CreateKeeps, BootKeeps, StopKeeps, DeleteKeeps DEF AmRun
<1> QED BY <1>1, <1>2, <1>3, ClientKeeps, ExitKeeps, RestartKeeps DEF AmNext

(* It holds on a node without VMs.                                         *)
LEMMA AmInvInit == AmInit => AmInv
<1> SUFFICES ASSUME AmInit PROVE AmInv OBVIOUS
<1>1. AmTypeOK BY AmIdleType DEF AmInit, AmTypeOK
<1>2. SlotExact
  <2>1. "idle" \notin AmHeldPcs BY DEF AmHeldPcs
  <2> QED BY <2>1, AmIdleType DEF AmInit, SlotExact
<1>3. GoneApart /\ NoDiskUnderGuest /\ StoppedBooting
  BY DEF AmInit, GoneApart, NoDiskUnderGuest, StoppedBooting
<1> QED BY <1>1, <1>2, <1>3 DEF AmInv

(* One call at a time runs under a name, and a guest being taken apart is  *)
(* gone, whatever calls overlap and wherever the agent restarts.           *)
THEOREM AgentInvariant == AmSpec => []AmInv
<1>1. AmInv /\ [AmNext]_amVars => AmInv' BY AmInvStep
<1> QED BY AmInvInit, <1>1, PTL DEF AmSpec

(* No disk is removed under a live guest, for any number of VMs of the     *)
(* name, calls, restarts and damaged files.                                *)
THEOREM DiskNeverPulled == AmSpec => []NoDiskUnderGuest
<1>1. AmInv => NoDiskUnderGuest BY DEF AmInv
<1> QED BY <1>1, AgentInvariant, PTL

(* Before the first restart a VM recorded as stopped with no call in       *)
(* flight has no guest.                                                    *)
THEOREM StoppedTrue == AmSpec => []StoppedIsDown
<1>1. AmInv => StoppedIsDown BY DEF AmInv, StoppedBooting, StoppedIsDown
<1> QED BY <1>1, AgentInvariant, PTL
====
