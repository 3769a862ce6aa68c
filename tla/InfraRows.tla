------------------------------ MODULE InfraRows -----------------------------
(***************************************************************************)
(* Networks, storage pools and firmwares as rows of the store: each has a  *)
(* unique name held by a guard key, may hold the one default guard (a      *)
(* firmware), is referenced by NICs, disks or VMs, and is deleted under a  *)
(* delete-intent key (internal/etcdstore/deleting_intent.go, networks.go,  *)
(* storage_pools.go, firmwares.go; the references are committed by         *)
(* vms_schedule.go).                                                       *)
(*                                                                         *)
(* Every transaction is one step; every read that a later transaction      *)
(* relies on is a step before it.  A create-revision is the number of the  *)
(* intent: the code uses it only to tell one intent from another.          *)
(***************************************************************************)
EXTENDS Integers, FiniteSets

CONSTANTS
    Res,        \* resource ids
    Names,      \* names
    Refs,       \* reference ids: NICs, disks, VMs
    Callers,    \* concurrent update and delete requests
    NoRes,      \* the value of a guard key that is absent
    MaxIntents, \* bound on the intents ever set
    MaxCrashes  \* bound on requests that die half way

ASSUME InfraAssumptions ==
    NoRes \notin Res /\ MaxIntents \in Nat /\ MaxCrashes \in Nat

VARIABLES
    row,      \* the primary rows
    guard,    \* the name guards: the id they hold
    defGuard, \* the default guard
    intent,   \* the delete-intent keys: their create-revision, 0 when absent
    lastRev,  \* the last create-revision given out
    ref,      \* the committed references: the resource each one names
    plan,     \* what a reference-create has read and is about to commit
    call,     \* the update and delete requests in flight
    overlap,  \* history: a write replaced a row changed since it was read
    crashes

vars == <<row, guard, defGuard, intent, lastRev, ref, plan, call, overlap, crashes>>
guards == <<guard, defGuard>>
refVars == <<ref, plan>>

-----------------------------------------------------------------------------
Row == [state : {"none", "live", "deleted"}, name : Names, default : BOOLEAN]
LiveRow == {w \in Row : w.state = "live"}

Stages == {"idle", "update", "intent", "count", "clear", "finalize"}
Call == [at : Stages, res : Res \cup {NoRes}, seen : LiveRow \cup {NoRes}, rev : Nat]
Idle == [at |-> "idle", res |-> NoRes, seen |-> NoRes, rev |-> 0]

Live(r) == row[r].state = "live"
Referenced(r) == \E x \in Refs : ref[x] = r

Return(c) == call' = [call EXCEPT ![c] = Idle]
Stale(c) == call[c].seen # row[call[c].res]

TypeOK ==
    /\ row \in [Res -> Row]
    /\ guard \in [Names -> Res \cup {NoRes}]
    /\ defGuard \in Res \cup {NoRes}
    /\ intent \in [Res -> Nat]
    /\ lastRev \in Nat
    /\ ref \in [Refs -> Res \cup {NoRes}]
    /\ plan \in [Refs -> Res \cup {NoRes}]
    /\ call \in [Callers -> Call]
    /\ overlap \in BOOLEAN
    /\ crashes \in Nat

Init ==
    /\ row \in [Res -> {[state |-> "none", name |-> n, default |-> FALSE] : n \in Names}]
    /\ guard = [n \in Names |-> NoRes]
    /\ defGuard = NoRes
    /\ intent = [r \in Res |-> 0]
    /\ lastRev = 0
    /\ ref = [x \in Refs |-> NoRes]
    /\ plan = [x \in Refs |-> NoRes]
    /\ call = [c \in Callers |-> Idle]
    /\ overlap = FALSE
    /\ crashes = 0

-----------------------------------------------------------------------------
(* CreateNetwork, CreateStoragePool, CreateFirmware: the name guard, and the *)
(* default guard of a default firmware, must be absent.                      *)
Create(r, n, d) ==
    /\ row[r].state = "none"
    /\ guard[n] = NoRes
    /\ d => defGuard = NoRes
    /\ row' = [row EXCEPT ![r] = [state |-> "live", name |-> n, default |-> d]]
    /\ guard' = [guard EXCEPT ![n] = r]
    /\ defGuard' = IF d THEN r ELSE defGuard
    /\ UNCHANGED <<intent, lastRev, refVars, call, overlap, crashes>>

(* UpdateNetwork, UpdateStoragePool, UpdateFirmware: read the row ... *)
UpdateRead(c, r) ==
    /\ call[c] = Idle /\ Live(r)
    /\ call' = [call EXCEPT ![c] = [at |-> "update", res |-> r, seen |-> row[r], rev |-> 0]]
    /\ UNCHANGED <<row, guards, intent, lastRev, refVars, overlap, crashes>>

(* ... and put it back with name n and default d.  Only the guards the      *)
(* update claims are compared; an update that claims none is a bare put of  *)
(* the row, whatever else it meant to do.                                   *)
Renames(c, n) == call[c].seen.name # n
TakesDefault(c, d) == ~call[c].seen.default /\ d
DropsDefault(c, d) == call[c].seen.default /\ ~d
Claims(c, n, d) == Renames(c, n) \/ TakesDefault(c, d)

ClaimsFree(c, n, d) ==
    /\ Renames(c, n) => guard[n] = NoRes
    /\ TakesDefault(c, d) => defGuard = NoRes

UpdateWrite(c, n, d) ==
    /\ call[c].at = "update"
    /\ ClaimsFree(c, n, d)
    /\ row' = [row EXCEPT ![call[c].res] =
                  [call[c].seen EXCEPT !.name = n, !.default = d]]
    /\ guard' = IF Renames(c, n)
                THEN [guard EXCEPT ![call[c].seen.name] = NoRes, ![n] = call[c].res]
                ELSE guard
    /\ defGuard' = IF TakesDefault(c, d) THEN call[c].res
                   ELSE IF DropsDefault(c, d) /\ Claims(c, n, d) THEN NoRes
                   ELSE defGuard
    /\ overlap' = (overlap \/ Stale(c))
    /\ Return(c)
    /\ UNCHANGED <<intent, lastRev, refVars, crashes>>

(* A claimed guard was taken: ErrNetworkNameExists and the like. *)
UpdateRefused(c) ==
    /\ call[c].at = "update"
    /\ \E n \in Names, d \in BOOLEAN : ~ClaimsFree(c, n, d)
    /\ Return(c)
    /\ UNCHANGED <<row, guards, intent, lastRev, refVars, overlap, crashes>>

-----------------------------------------------------------------------------
(* DeleteNetwork, DeleteStoragePool, DeleteFirmware. *)
DeleteRead(c, r) ==
    /\ call[c] = Idle /\ Live(r)
    /\ call' = [call EXCEPT ![c] = [at |-> "intent", res |-> r, seen |-> row[r], rev |-> 0]]
    /\ UNCHANGED <<row, guards, intent, lastRev, refVars, overlap, crashes>>

(* setDeleteIntent: create the key, or take the revision of the one there. *)
setDeleteIntent(c) ==
    LET r == call[c].res IN
    /\ call[c].at = "intent"
    /\ \/ /\ intent[r] = 0 /\ lastRev < MaxIntents
          /\ lastRev' = lastRev + 1
          /\ intent' = [intent EXCEPT ![r] = lastRev + 1]
       \/ /\ intent[r] # 0
          /\ UNCHANGED <<intent, lastRev>>
    /\ call' = [call EXCEPT ![c].at = "count", ![c].rev = intent'[r]]
    /\ UNCHANGED <<row, guards, refVars, overlap, crashes>>

CountReferences(c) ==
    /\ call[c].at = "count"
    /\ call' = [call EXCEPT ![c].at = IF Referenced(call[c].res) THEN "clear" ELSE "finalize"]
    /\ UNCHANGED <<row, guards, intent, lastRev, refVars, overlap, crashes>>

(* deleteIntentGuard *)
IntentHeld(c) == intent[call[c].res] = call[c].rev

(* clearDeleteIntent, then ResourceInUseError. *)
clearDeleteIntent(c) ==
    /\ call[c].at = "clear"
    /\ intent' = IF IntentHeld(c) THEN [intent EXCEPT ![call[c].res] = 0] ELSE intent
    /\ Return(c)
    /\ UNCHANGED <<row, guards, lastRev, refVars, overlap, crashes>>

(* deleteGuardIfOwned on the name guard and, for a default firmware, on the *)
(* default guard: both as the deleting request read them.                   *)
ReleaseGuards(c) ==
    LET r == call[c].res
        n == call[c].seen.name IN
    /\ guard' = IF guard[n] = r THEN [guard EXCEPT ![n] = NoRes] ELSE guard
    /\ defGuard' = IF call[c].seen.default /\ defGuard = r THEN NoRes ELSE defGuard

(* Mutant: the finalize does not compare the intent. *)
FinalizeUnfenced(c) ==
    /\ call[c].at = "finalize"
    /\ row' = [row EXCEPT ![call[c].res] = [call[c].seen EXCEPT !.state = "deleted"]]
    /\ ReleaseGuards(c)
    /\ intent' = [intent EXCEPT ![call[c].res] = 0]
    /\ overlap' = (overlap \/ Stale(c))
    /\ Return(c)
    /\ UNCHANGED <<lastRev, refVars, crashes>>

Finalize(c) ==
    /\ call[c].at = "finalize" /\ IntentHeld(c)
    /\ row' = [row EXCEPT ![call[c].res] = [call[c].seen EXCEPT !.state = "deleted"]]
    /\ ReleaseGuards(c)
    /\ intent' = [intent EXCEPT ![call[c].res] = 0]
    /\ overlap' = (overlap \/ Stale(c))
    /\ Return(c)
    /\ UNCHANGED <<lastRev, refVars, crashes>>

(* The intent was severed: ErrNotFound or ErrConcurrentUpdate. *)
FinalizeLost(c) ==
    /\ call[c].at = "finalize" /\ ~IntentHeld(c)
    /\ Return(c)
    /\ UNCHANGED <<row, guards, intent, lastRev, refVars, overlap, crashes>>

(* The replica dies, or the request's context ends: an intent it set stays. *)
Crash(c) ==
    /\ call[c] # Idle /\ crashes < MaxCrashes
    /\ crashes' = crashes + 1
    /\ Return(c)
    /\ UNCHANGED <<row, guards, intent, lastRev, refVars, overlap>>

(* ReapStaleDeleteIntents: any intent may be past the threshold, one whose  *)
(* delete is merely slow included.                                          *)
ReapStaleDeleteIntents(r) ==
    /\ intent[r] # 0
    /\ intent' = [intent EXCEPT ![r] = 0]
    /\ UNCHANGED <<row, guards, lastRev, refVars, call, overlap, crashes>>

-----------------------------------------------------------------------------
(* CreateUnscheduledVM and BindScheduledVM: the resource is resolved, and   *)
(* the reference commits if no delete intent is present.                    *)
PlanReference(x, r) ==
    /\ ref[x] = NoRes /\ plan[x] = NoRes /\ Live(r)
    /\ plan' = [plan EXCEPT ![x] = r]
    /\ UNCHANGED <<row, guards, intent, lastRev, ref, call, overlap, crashes>>

CommitReference(x) ==
    /\ plan[x] # NoRes
    /\ ref' = IF intent[plan[x]] = 0 THEN [ref EXCEPT ![x] = plan[x]] ELSE ref
    /\ plan' = [plan EXCEPT ![x] = NoRes]
    /\ UNCHANGED <<row, guards, intent, lastRev, call, overlap, crashes>>

(* The VM, NIC or disk is deleted. *)
DropReference(x) ==
    /\ ref[x] # NoRes
    /\ ref' = [ref EXCEPT ![x] = NoRes]
    /\ UNCHANGED <<row, guards, intent, lastRev, plan, call, overlap, crashes>>

-----------------------------------------------------------------------------
Request(c) ==
    \/ \E r \in Res : UpdateRead(c, r) \/ DeleteRead(c, r)
    \/ \E n \in Names, d \in BOOLEAN : UpdateWrite(c, n, d)
    \/ UpdateRefused(c)
    \/ setDeleteIntent(c)
    \/ CountReferences(c)
    \/ clearDeleteIntent(c)
    \/ Finalize(c)
    \/ FinalizeLost(c)
    \/ Crash(c)

Next ==
    \/ \E r \in Res, n \in Names, d \in BOOLEAN : Create(r, n, d)
    \/ \E c \in Callers : Request(c)
    \/ \E r \in Res : ReapStaleDeleteIntents(r)
    \/ \E x \in Refs :
          \/ \E r \in Res : PlanReference(x, r)
          \/ CommitReference(x)
          \/ DropReference(x)

Spec == Init /\ [][Next]_vars

-----------------------------------------------------------------------------
(* No delete ever removes a resource in use: when a row goes from live to   *)
(* deleted nothing references it, whatever the interleaving of concurrent   *)
(* deletes, reference-creates, reaper sweeps and crashes                    *)
(* (deleting_intent.go: the post-intent count is authoritative).            *)
NeverDeletedInUse ==
    [][\A r \in Res : row[r].state = "live" /\ row'[r].state = "deleted" => ~Referenced(r)]_vars

(* What makes it so: while a delete that counted no references still holds  *)
(* its intent, the resource stays unreferenced.                             *)
IntentProtects ==
    \A c \in Callers : call[c].at = "finalize" /\ IntentHeld(c) => ~Referenced(call[c].res)

(* As long as no write replaced a row that changed since it was read, a     *)
(* name guard is held exactly by the live row of that name, so live names   *)
(* are unique and the name of a deleted row is free again.                  *)
GuardsExact ==
    overlap \/ \A n \in Names, r \in Res : guard[n] = r <=> Live(r) /\ row[r].name = n

(* Under the same proviso at most one live row is the default.              *)
OneDefault ==
    overlap \/ \A r, s \in Res :
        Live(r) /\ Live(s) /\ row[r].default /\ row[s].default => r = s

=============================================================================
