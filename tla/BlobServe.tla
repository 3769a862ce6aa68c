----------------------------- MODULE BlobServe -----------------------------
(***************************************************************************)
(* Peer pulls of a blob from one holder: the broker that drives a pull     *)
(* saga per attempt (internal/blobbroker, internal/etcdstore/              *)
(* artifact_pull_saga.go) and the serve manager of the holder              *)
(* (internal/agent/blobserve.go), whose listeners are torn down by the     *)
(* broker's stop call, by their own timer or by the agent's shutdown.      *)
(*                                                                         *)
(* A pull, its saga, its token and its listener share an identity.         *)
(***************************************************************************)
EXTENDS Integers, FiniteSets

CONSTANTS Pulls, Ports, NoPull, NoPort

VARIABLES
    phase,     \* the saga record of a pull
    at,        \* where the broker's call is
    portOf,    \* the port a serve reserved
    used,      \* the ports the allocator counts as reserved
    active,    \* the serve registered on a port
    primed,    \* the tokens the verifier knows
    listening, \* the serves whose listener is open
    timer,     \* the expiry timer of a serve; "fired" is a callback that has begun
    claimed,   \* tear-downs claimed and not yet done, per serve
    torn,      \* history: tear-downs done, per serve
    crossed,   \* history: a callback claimed the entry of another serve
    closed     \* the manager is shut down

serveVars == <<phase, at, portOf, used, active, primed, listening, timer, claimed, torn, crossed,
               closed>>

ServeTypeOK ==
    /\ phase \in [Pulls -> {"none", "pending", "pulling", "complete", "failed", "reaped"}]
    /\ at \in [Pulls -> {"none", "serve", "open", "register", "pull", "stop", "end"}]
    /\ portOf \in [Pulls -> Ports \cup {NoPort}] /\ used \subseteq Ports
    /\ active \in [Ports -> Pulls \cup {NoPull}]
    /\ primed \subseteq Pulls /\ listening \subseteq Pulls
    /\ timer \in [Pulls -> {"off", "armed", "fired"}]
    /\ claimed \in [Pulls -> 0 .. 2] /\ torn \in [Pulls -> 0 .. 2]
    /\ crossed \in BOOLEAN /\ closed \in BOOLEAN

ServeInit ==
    /\ phase = [i \in Pulls |-> "none"] /\ at = [i \in Pulls |-> "none"]
    /\ portOf = [i \in Pulls |-> NoPort] /\ used = {}
    /\ active = [p \in Ports |-> NoPull]
    /\ primed = {} /\ listening = {}
    /\ timer = [i \in Pulls |-> "off"]
    /\ claimed = [i \in Pulls |-> 0] /\ torn = [i \in Pulls |-> 0]
    /\ crossed = FALSE /\ closed = FALSE

SetPhase(i, ph) == phase' = [phase EXCEPT ![i] = ph]
Goto(i, where) == at' = [at EXCEPT ![i] = where]

(* The saga record is made before the holder is asked; pulls start in the   *)
(* order of their numbers.                                                  *)
CreatePullSaga(i) ==
    /\ at[i] = "none" /\ \A j \in Pulls : j < i => at[j] # "none"
    /\ SetPhase(i, "pending") /\ Goto(i, "serve")
    /\ UNCHANGED <<portOf, used, active, primed, listening, timer, claimed, torn, crossed, closed>>

ServeFails(i) == SetPhase(i, "failed") /\ Goto(i, "end")

ServeGuard(i) ==
    /\ at[i] = "serve"
    /\ IF closed THEN ServeFails(i) ELSE Goto(i, "open") /\ UNCHANGED phase
    /\ UNCHANGED <<portOf, used, active, primed, listening, timer, claimed, torn, crossed, closed>>

(* The lowest free port of the allocator.                                   *)
Reserve == LET free == Ports \ used IN {p \in free : \A q \in free : p <= q}
Release(i) == used' = used \ {portOf[i]}

prime(i) == primed' = primed \cup {i}
drop(i) == primed' = primed \ {i}
Verify(i) == i \in primed

(* A port whose listener is still open cannot be listened on and is given   *)
(* back.                                                                    *)
ServeOpens(i) ==
    /\ at[i] = "open"
    /\ IF \A p \in Reserve : \E j \in listening : portOf[j] = p
       THEN /\ ServeFails(i)
            /\ UNCHANGED <<portOf, used, primed, listening, timer>>
       ELSE /\ Goto(i, "register")
            /\ used' = used \cup Reserve
            /\ portOf' = [portOf EXCEPT ![i] = CHOOSE p \in Reserve : TRUE]
            /\ prime(i) /\ listening' = listening \cup {i}
            /\ timer' = [timer EXCEPT ![i] = "armed"]
            /\ UNCHANGED phase
    /\ UNCHANGED <<active, claimed, torn, crossed, closed>>

(* A serve that lost the race with Close undoes itself.                     *)
ServeRegisters(i) ==
    /\ at[i] = "register"
    /\ IF closed
       THEN /\ ServeFails(i)
            /\ timer' = [timer EXCEPT ![i] = IF @ = "armed" THEN "off" ELSE @]
            /\ listening' = listening \ {i} /\ drop(i) /\ Release(i)
            /\ UNCHANGED active
       ELSE /\ active' = [active EXCEPT ![portOf[i]] = i]
            /\ SetPhase(i, "pulling") /\ Goto(i, "pull")
            /\ UNCHANGED <<timer, listening, primed, used>>
    /\ UNCHANGED <<portOf, claimed, torn, crossed, closed>>

(* The consumer gets the blob only from an open listener that knows the     *)
(* token, and may fail anyway.                                              *)
PullBlobAndAwait(i) ==
    /\ at[i] = "pull"
    /\ \/ i \in listening /\ Verify(i) /\ SetPhase(i, "complete")
       \/ SetPhase(i, "failed")
    /\ Goto(i, "stop")
    /\ UNCHANGED <<portOf, used, active, primed, listening, timer, claimed, torn, crossed, closed>>

Claim(i) == claimed' = [claimed EXCEPT ![i] = @ + 1]

(* The entry whose token matches is claimed in one hold of the mutex; the   *)
(* call may be lost.                                                        *)
StopByToken(i) ==
    /\ at[i] = "stop" /\ Goto(i, "end")
    /\ \/ /\ \E p \in Ports : active[p] = i /\ active' = [active EXCEPT ![p] = NoPull]
          /\ Claim(i)
       \/ UNCHANGED <<active, claimed>>
    /\ UNCHANGED <<phase, portOf, used, primed, listening, timer, torn, crossed, closed>>

BrokerDies(i) ==
    /\ at[i] \in {"pull", "stop"}
    /\ Goto(i, "end")
    /\ UNCHANGED <<phase, portOf, used, active, primed, listening, timer, claimed, torn, crossed, closed>>

(* Finished sagas are reaped after their retention, stranded ones later.    *)
SagaRetention(i) ==
    /\ at[i] = "end" /\ phase[i] \notin {"none", "reaped"}
    /\ SetPhase(i, "reaped")
    /\ UNCHANGED <<at, portOf, used, active, primed, listening, timer, claimed, torn, crossed, closed>>

(* Ten minutes after the serve was opened; by then it is registered.        *)
TimerFires(i) ==
    /\ timer[i] = "armed" /\ at[i] # "register"
    /\ timer' = [timer EXCEPT ![i] = "fired"]
    /\ UNCHANGED <<phase, at, portOf, used, active, primed, listening, claimed, torn, crossed, closed>>

(* The callback claims whatever is registered on its port, and tears its    *)
(* own serve down.                                                          *)
takeServe(i) ==
    LET held == active[portOf[i]]
    IN
    /\ timer[i] = "fired"
    /\ timer' = [timer EXCEPT ![i] = "off"]
    /\ active' = [active EXCEPT ![portOf[i]] = NoPull]
    /\ IF held = NoPull THEN UNCHANGED claimed ELSE Claim(i)
    /\ crossed' = (crossed \/ held \notin {NoPull, i})
    /\ UNCHANGED <<phase, at, portOf, used, primed, listening, torn, closed>>

(* Mutant: the token outlives its serve.                                    *)
tearDownKeepsToken(i) ==
    /\ claimed[i] > 0
    /\ claimed' = [claimed EXCEPT ![i] = @ - 1]
    /\ timer' = [timer EXCEPT ![i] = IF @ = "armed" THEN "off" ELSE @]
    /\ listening' = listening \ {i} /\ Release(i)
    /\ torn' = [torn EXCEPT ![i] = @ + 1]
    /\ UNCHANGED <<phase, at, portOf, active, primed, crossed, closed>>

(* Stopping a timer does not recall a callback that has begun.              *)
tearDown(i) ==
    /\ claimed[i] > 0
    /\ claimed' = [claimed EXCEPT ![i] = @ - 1]
    /\ timer' = [timer EXCEPT ![i] = IF @ = "armed" THEN "off" ELSE @]
    /\ listening' = listening \ {i} /\ drop(i) /\ Release(i)
    /\ torn' = [torn EXCEPT ![i] = @ + 1]
    /\ UNCHANGED <<phase, at, portOf, active, crossed, closed>>

CloseServes ==
    /\ ~ closed /\ closed' = TRUE
    /\ claimed' = [i \in Pulls |-> IF \E p \in Ports : active[p] = i THEN claimed[i] + 1 ELSE claimed[i]]
    /\ active' = [p \in Ports |-> NoPull]
    /\ UNCHANGED <<phase, at, portOf, used, primed, listening, timer, torn, crossed>>

ServeStep(i) ==
    \/ ServeGuard(i) \/ ServeOpens(i) \/ ServeRegisters(i) \/ PullBlobAndAwait(i) \/ StopByToken(i)
    \/ SagaRetention(i) \/ TimerFires(i) \/ takeServe(i) \/ tearDown(i)

ServeNext == (\E i \in Pulls : CreatePullSaga(i) \/ ServeStep(i) \/ BrokerDies(i)) \/ CloseServes

ServeSpec ==
    /\ ServeInit /\ [][ServeNext]_serveVars
    /\ \A i \in Pulls : WF_serveVars(ServeStep(i))

-----------------------------------------------------------------------------

(* A serve that is over leaves nothing behind: with no call, timer or       *)
(* tear-down outstanding no port stays reserved, no token stays valid and   *)
(* no listener stays open, also past a shutdown, as long as no callback     *)
(* met another serve on its port.                                           *)
NothingLeft ==
    (/\ ~ crossed
     /\ \A i \in Pulls : at[i] \in {"none", "end"} /\ timer[i] = "off" /\ claimed[i] = 0)
    => used = {} /\ primed = {} /\ listening = {} /\ \A p \in Ports : active[p] = NoPull
=============================================================================
