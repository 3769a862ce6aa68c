------------------------------ MODULE Backends ------------------------------
(***************************************************************************)
(* How a published load balancer reaches its guests: a host probes the     *)
(* guests the control plane declares to it and reports verdicts in its     *)
(* heartbeat; the control plane keeps the verdicts and declares to the     *)
(* gateway which backends each published port has; the gateway's           *)
(* reconciler binds, rebinds and closes listeners accordingly.             *)
(*                                                                         *)
(* A heartbeat that goes through is one step: the report is collected,     *)
(* applied, and the agent takes over what the reply declares (a slow reply *)
(* would delay what the reconcilers behind it delay as well).  A report    *)
(* the agent gave up on may still be handled later, after a newer one.     *)
(* Every guest matches every selector.                                     *)
(***************************************************************************)
EXTENDS Naturals, FiniteSets

CONSTANTS
  BkLbs,               \* load balancers
  BkPorts,             \* published ports
  BkVms,               \* guests
  BkHosts,             \* nodes that run guests
  BkGateway,           \* the node with the gateway role
  NoBk,                \* absence
  HealthyThreshold,    \* consecutive successes before a guest is healthy
  UnhealthyThreshold,  \* consecutive failures before it is unhealthy
  MaxBkChanges,        \* changes by users and guests
  MaxBkFaults          \* lost or late heartbeats and failed binds

VARIABLES
  bkLb,       \* load balancer -> its published port, "private" or "deleted"
  bkGuest,    \* guest -> its host, whether its runtime row says running, whether its port answers
  bkHealth,   \* <<lb, vm>> -> the health row: verdict and freshness, or NoBk
  bkStatus,   \* load balancer -> the listener status row: port and bound, or NoBk
  bkTargets,  \* host -> the health checks last declared to it
  bkProbe,    \* host -> <<lb, vm>> -> probe state, or NoBk
  bkDesired,  \* port -> what was last declared to the gateway; NoBk before the first reply
  bkBound,    \* port -> the gateway's listener: owner, up, backends; or NoBk
  bkLate,     \* agent -> a report given up on that may still be handled, or NoBk
  bkChanges,
  bkFaults

bkCp == <<bkLb, bkGuest, bkHealth, bkStatus>>
bkAgents == <<bkTargets, bkProbe, bkDesired, bkBound>>
bkVars == <<bkCp, bkAgents, bkLate, bkChanges, bkFaults>>

BkAgents == BkHosts \union {BkGateway}
BkTargets == BkLbs \X BkVms
BkClosed == [p \in BkPorts |-> NoBk]

NewTarget == [ok |-> 0, fail |-> 0, healthy |-> FALSE, known |-> FALSE]

BkInit ==
  /\ bkLb \in [BkLbs -> BkPorts \union {"private"}]
  /\ \A l, m \in BkLbs : bkLb[l] = bkLb[m] /\ l # m => bkLb[l] = "private"
  /\ bkGuest \in [BkVms -> [host : BkHosts, running : {TRUE}, serves : BOOLEAN]]
  /\ bkHealth = [t \in BkTargets |-> NoBk]
  /\ bkStatus = [l \in BkLbs |-> NoBk]
  /\ bkTargets = [h \in BkHosts |-> {}]
  /\ bkProbe = [h \in BkHosts |-> [t \in BkTargets |-> NoBk]]
  /\ bkDesired = NoBk
  /\ bkBound = BkClosed
  /\ bkLate = [a \in BkAgents |-> NoBk]
  /\ bkChanges = 0
  /\ bkFaults = 0

BkChange == bkChanges < MaxBkChanges /\ bkChanges' = bkChanges + 1

BkFault == bkFaults < MaxBkFaults /\ bkFaults' = bkFaults + 1
-----------------------------------------------------------------------------
(* A user publishes, moves, unpublishes or deletes a load balancer; two    *)
(* never hold one port.  A delete takes the observed rows with it.         *)
ChangeLb(l, v) ==
  /\ BkChange
  /\ bkLb[l] \notin {v, "deleted"}
  /\ v \in BkPorts => \A m \in BkLbs : bkLb[m] # v
  /\ bkLb' = [bkLb EXCEPT ![l] = v]
  /\ bkHealth' = [t \in BkTargets |-> IF v = "deleted" /\ t[1] = l THEN NoBk ELSE bkHealth[t]]
  /\ bkStatus' = IF v = "deleted" THEN [bkStatus EXCEPT ![l] = NoBk] ELSE bkStatus
  /\ UNCHANGED <<bkGuest, bkAgents, bkLate, bkFaults>>

(* A guest starts or stops answering, starts or stops, or moves.           *)
ChangeGuest(v) ==
  /\ BkChange
  /\ \/ bkGuest' = [bkGuest EXCEPT ![v].serves = ~@]
     \/ bkGuest' = [bkGuest EXCEPT ![v].running = ~@]
     \/ \E h \in BkHosts \ {bkGuest[v].host} : bkGuest' = [bkGuest EXCEPT ![v].host = h]
  /\ UNCHANGED <<bkLb, bkHealth, bkStatus, bkAgents, bkLate, bkFaults>>

(* A verdict its host no longer renews turns stale (the window is at least *)
(* three heartbeats).                                                      *)
healthStalenessWindow(t) ==
  /\ bkHealth[t] # NoBk
  /\ bkHealth[t].fresh
  /\ LET p == bkProbe[bkGuest[t[2]].host][t] IN p # NoBk => ~p.known
  /\ bkHealth' = [bkHealth EXCEPT ![t].fresh = FALSE]
  /\ UNCHANGED <<bkLb, bkGuest, bkStatus, bkAgents, bkLate, bkChanges, bkFaults>>
-----------------------------------------------------------------------------
(* The verdicts a host reports, and the listeners a gateway reports.       *)
HealthCheckReports(h) ==
  {<<t, bkProbe[h][t].healthy>> : t \in {u \in BkTargets : bkProbe[h][u] # NoBk /\ bkProbe[h][u].known}}

PublishedListenerReports ==
  {[lb |-> bkBound[p].lb, port |-> p, bound |-> bkBound[p].up] : p \in {q \in BkPorts : bkBound[q] # NoBk}}

BkReport(a) == IF a = BkGateway THEN PublishedListenerReports ELSE HealthCheckReports(a)

FilterVMIDsPinnedToNode(h, reports) == {r \in reports : bkGuest[r[1][2]].host = h}

(* Verdicts on guests of the reporting node, for load balancers that       *)
(* exist, replace the health rows.                                         *)
applyHealthChecks(h, reports) ==
  LET kept == {r \in FilterVMIDsPinnedToNode(h, reports) : bkLb[r[1][1]] # "deleted"}
  IN [t \in BkTargets |->
        IF \E r \in kept : r[1] = t
        THEN [healthy |-> (CHOOSE r \in kept : r[1] = t)[2], fresh |-> TRUE]
        ELSE bkHealth[t]]

applyPublishedListeners(reports) ==
  [l \in BkLbs |->
     IF bkLb[l] # "deleted" /\ \E r \in reports : r.lb = l
     THEN LET r == CHOOSE x \in reports : x.lb = l IN [port |-> r.port, bound |-> r.bound]
     ELSE bkStatus[l]]

(* What one report changes in the store.                                   *)
ApplyReport(a, body) ==
  IF a = BkGateway
  THEN bkStatus' = applyPublishedListeners(body) /\ UNCHANGED bkHealth
  ELSE bkHealth' = applyHealthChecks(a, body) /\ UNCHANGED bkStatus

(* The guests of a node that load balancers select.                        *)
ListLoadBalancerHealthTargetsForNode(h) ==
  {t \in BkTargets : bkLb[t[1]] # "deleted" /\ bkGuest[t[2]].host = h}

(* The backends of a load balancer: the running guests but those with a    *)
(* fresh unhealthy verdict.                                                *)
publishedBackends(l, health) ==
  {v \in BkVms : /\ bkGuest[v].running
                 /\ ~ (health[<<l, v>>] # NoBk /\ ~health[<<l, v>>].healthy /\ health[<<l, v>>].fresh)}

ListPublishedLoadBalancerBackends(health) ==
  [p \in BkPorts |->
     IF \E l \in BkLbs : bkLb[l] = p
     THEN LET l == CHOOSE m \in BkLbs : bkLb[m] = p IN [lb |-> l, backends |-> publishedBackends(l, health)]
     ELSE NoBk]

(* The agent takes over what the reply declares.                           *)
HandleHeartbeatResponse(a) ==
  IF a = BkGateway
  THEN bkDesired' = ListPublishedLoadBalancerBackends(bkHealth') /\ UNCHANGED bkTargets
  ELSE /\ bkTargets' = [bkTargets EXCEPT ![a] = ListLoadBalancerHealthTargetsForNode(a)]
       /\ UNCHANGED bkDesired

(* The control plane applies the report, then declares what the agent      *)
(* should have.                                                            *)
tickBeat(a) ==
  /\ ApplyReport(a, BkReport(a))
  /\ HandleHeartbeatResponse(a)
  /\ UNCHANGED <<bkLb, bkGuest, bkProbe, bkBound, bkLate, bkChanges, bkFaults>>

(* The agent gives a heartbeat up whose report is still on its way.        *)
GiveUpBeat(a) ==
  /\ BkFault
  /\ bkLate[a] = NoBk
  /\ bkLate' = [bkLate EXCEPT ![a] = BkReport(a)]
  /\ UNCHANGED <<bkCp, bkAgents, bkChanges>>

ReceiveLate(a) ==
  /\ bkLate[a] # NoBk
  /\ ApplyReport(a, bkLate[a])
  /\ bkLate' = [bkLate EXCEPT ![a] = NoBk]
  /\ UNCHANGED <<bkLb, bkGuest, bkAgents, bkChanges, bkFaults>>
-----------------------------------------------------------------------------
(* Targets that are no longer declared lose their state, new ones start    *)
(* without a verdict.                                                      *)
syncTargets(h) ==
  [t \in BkTargets |->
     IF t \notin bkTargets[h] THEN NoBk
     ELSE IF bkProbe[h][t] = NoBk THEN NewTarget ELSE bkProbe[h][t]]

(* The verdict turns after as many results in a row as its threshold; the  *)
(* counters stop at the thresholds, past which they make no difference.    *)
applyHysteresis(s, ok) ==
  IF ok
  THEN LET n == IF s.ok < HealthyThreshold THEN s.ok + 1 ELSE s.ok
           c == [s EXCEPT !.ok = n, !.fail = 0]
       IN IF n >= HealthyThreshold THEN [c EXCEPT !.healthy = TRUE, !.known = TRUE] ELSE c
  ELSE LET n == IF s.fail < UnhealthyThreshold THEN s.fail + 1 ELSE s.fail
           c == [s EXCEPT !.fail = n, !.ok = 0]
       IN IF n >= UnhealthyThreshold THEN [c EXCEPT !.healthy = FALSE, !.known = TRUE] ELSE c

(* A guest that does not run on the node gives no result.                  *)
Probed(h, v) == bkGuest[v].host = h /\ bkGuest[v].running

(* One pass of the prober; every check has the same interval, so all are   *)
(* due.                                                                    *)
probeDue(h) ==
  LET synced == syncTargets(h)
  IN /\ bkProbe' = [bkProbe EXCEPT ![h] = [t \in BkTargets |->
          IF synced[t] # NoBk /\ Probed(h, t[2])
          THEN applyHysteresis(synced[t], bkGuest[t[2]].serves)
          ELSE synced[t]]]
     /\ bkProbe' # bkProbe
     /\ UNCHANGED <<bkCp, bkTargets, bkDesired, bkBound, bkLate, bkChanges, bkFaults>>


(* One port of the pass: a listener no longer declared is closed, one of   *)
(* the same owner takes the new backends, one of another owner or one that *)
(* failed to bind is bound anew.                                           *)
reconcileListener(p, up) ==
  IF bkDesired[p] = NoBk THEN NoBk
  ELSE IF bkBound[p] # NoBk /\ bkBound[p].up /\ bkBound[p].lb = bkDesired[p].lb
  THEN [bkBound[p] EXCEPT !.cfg = bkDesired[p].backends]
  ELSE [lb |-> bkDesired[p].lb, up |-> up, cfg |-> IF up THEN bkDesired[p].backends ELSE {}]

(* A pass over all ports, under the lock; nothing happens before the first *)
(* reply.  A bind may fail.                                                *)
reconcilePublished ==
  /\ bkDesired # NoBk
  /\ \/ bkBound' = [p \in BkPorts |-> reconcileListener(p, TRUE)] /\ UNCHANGED bkFaults
     \/ /\ BkFault
        /\ \E q \in BkPorts :
             /\ bkDesired[q] # NoBk
             /\ ~ (bkBound[q] # NoBk /\ bkBound[q].up /\ bkBound[q].lb = bkDesired[q].lb)
             /\ bkBound' = [p \in BkPorts |-> reconcileListener(p, p # q)]
  /\ bkBound' # bkBound
  /\ UNCHANGED <<bkCp, bkTargets, bkProbe, bkDesired, bkLate, bkChanges>>

(* The gateway agent stops, which closes its listeners, and starts again.  *)
closeAll ==
  /\ BkFault
  /\ bkBound' = BkClosed
  /\ bkDesired' = NoBk
  /\ UNCHANGED <<bkCp, bkTargets, bkProbe, bkLate, bkChanges>>

BkNext ==
  \/ \E l \in BkLbs, v \in BkPorts \union {"private", "deleted"} : ChangeLb(l, v)
  \/ \E v \in BkVms : ChangeGuest(v)
  \/ \E t \in BkTargets : healthStalenessWindow(t)
  \/ \E a \in BkAgents : tickBeat(a) \/ GiveUpBeat(a) \/ ReceiveLate(a)
  \/ \E h \in BkHosts : probeDue(h)
  \/ reconcilePublished
  \/ closeAll

(* Agents send heartbeats and reconcile on timers; the control plane       *)
(* answers what arrives.                                                   *)
BkFairness ==
  /\ \A a \in BkAgents : WF_bkVars(tickBeat(a)) /\ WF_bkVars(ReceiveLate(a))
  /\ \A h \in BkHosts : WF_bkVars(probeDue(h))
  /\ WF_bkVars(reconcilePublished)

BkSpec == BkInit /\ [][BkNext]_bkVars /\ BkFairness
-----------------------------------------------------------------------------
(* What the gateway should serve: on each published port, its load         *)
(* balancer with exactly the guests that run and answer.                   *)
BkServed ==
  [p \in BkPorts |->
     IF \E l \in BkLbs : bkLb[l] = p
     THEN [lb |-> CHOOSE l \in BkLbs : bkLb[l] = p, up |-> TRUE,
           cfg |-> {v \in BkVms : bkGuest[v].running /\ bkGuest[v].serves}]
     ELSE NoBk]

=============================================================================
