------------------------------ MODULE Balancer ------------------------------
(***************************************************************************)
(* Load balancer rows and the two uniqueness guards beside them: the name  *)
(* guard and the published-port guard.  A call is one request; each of its *)
(* reads and transactions of etcd is a step, so that calls interleave      *)
(* between them.  Heartbeats add the observed rows (backend health and     *)
(* listener status) that a delete reaps.                                   *)
(*                                                                         *)
(* A row is what the guards depend on: its name, its published port, its   *)
(* revision and whether it is deleted.  Selector, health check, protocol   *)
(* and source ranges travel with the row and are left out.                 *)
(***************************************************************************)
EXTENDS Naturals, FiniteSets

CONSTANTS
  LbIds,             \* ids a create may draw
  LbNames,           \* names
  LbPorts,           \* published ports
  LbCalls,           \* request slots
  NoLb,              \* absence of an id, a row or a port
  LbUpdateAttempts,  \* maxUpdateAttempts of the update handler
  MaxLbRequests,     \* requests in a behaviour
  MaxLbEvents        \* faults and heartbeat reports in a behaviour

VARIABLES
  lbRow,     \* id -> row or NoLb
  lbName,    \* name -> id of the guard, or NoLb
  lbPort,    \* published port -> id of the guard, or NoLb
  lbObs,     \* <<kind, id>> of the observed rows present
  lbCall,    \* the request in each slot
  lbReport,  \* an observed row a heartbeat is about to write, or NoLb
  lbRequests,  \* requests so far
  lbEvents   \* faults and heartbeat reports so far

lbStore == <<lbRow, lbName, lbPort, lbObs>>
lbVars == <<lbStore, lbCall, lbReport, lbRequests, lbEvents>>

LbLive(id) == lbRow[id] # NoLb /\ lbRow[id].live

LbFresh(op, name, newName, newPort) ==
  [pc |-> "byName", op |-> op, name |-> name, newName |-> newName, newPort |-> newPort,
   id |-> NoLb, rev |-> 0, row |-> NoLb, claim |-> "none", tries |-> 1]

LbIdle == [LbFresh("none", NoLb, NoLb, NoLb) EXCEPT !.pc = "idle"]

(* The store holds nothing, or one load balancer that a request created    *)
(* and published.                                                          *)
LbInit ==
  /\ \E one \in LbIds, n \in LbNames, p \in LbPorts, some \in BOOLEAN :
       /\ lbRow = [i \in LbIds |->
                     IF some /\ i = one THEN [name |-> n, port |-> p, rev |-> 1, live |-> TRUE] ELSE NoLb]
       /\ lbName = [m \in LbNames |-> IF some /\ m = n THEN one ELSE NoLb]
       /\ lbPort = [q \in LbPorts |-> IF some /\ q = p THEN one ELSE NoLb]
  /\ lbObs = {}
  /\ lbCall = [c \in LbCalls |-> LbIdle]
  /\ lbReport = NoLb
  /\ lbRequests = 0 /\ lbEvents = 0

LbGoto(c, pc) == lbCall' = [lbCall EXCEPT ![c].pc = pc]

LbReturn(c) == lbCall' = [lbCall EXCEPT ![c] = LbIdle]

LbAt(c, pc) == lbCall[c].pc = pc

LbRest == UNCHANGED <<lbReport, lbRequests, lbEvents>>

(* A slot takes a new request.                                             *)
LbRequest(c, call) ==
  /\ LbAt(c, "idle") /\ lbRequests < MaxLbRequests
  /\ lbRequests' = lbRequests + 1
  /\ lbCall' = [lbCall EXCEPT ![c] = call]
  /\ UNCHANGED <<lbStore, lbReport, lbEvents>>
-----------------------------------------------------------------------------
(* A create draws a fresh id and validates the request; one that publishes *)
(* reads the port guard first.                                             *)
CreateLb(c, id, name, port) ==
  /\ lbRow[id] = NoLb
  /\ \A d \in LbCalls : lbCall[d].id # id
  /\ LbRequest(c, [LbFresh("create", name, name, port) EXCEPT
                     !.id = id, !.pc = IF port = NoLb THEN "createTxn" ELSE "claim"])

(* An update and a delete name the load balancer; an update may rename it, *)
(* publish it, move its port or unpublish it (newPort = NoLb).             *)
UpdateLb(c, name, newName, newPort) == LbRequest(c, LbFresh("update", name, newName, newPort))

DeleteLb(c, name) == LbRequest(c, LbFresh("delete", name, name, NoLb))

(* The name resolves through its guard, then the row is read by id: two    *)
(* reads, between which the load balancer may be renamed or deleted.       *)
LoadBalancerByName(c) ==
  /\ LbAt(c, "byName")
  /\ \/ lbName[lbCall[c].name] = NoLb /\ LbReturn(c)
     \/ /\ lbName[lbCall[c].name] # NoLb
        /\ lbCall' = [lbCall EXCEPT ![c].id = lbName[lbCall[c].name], ![c].pc = "byId"]
  /\ UNCHANGED lbStore
  /\ LbRest

(* The update handler keeps the revision it read; a request the handler    *)
(* refuses (not the owner, no publish permission, invalid fields) returns. *)
LoadBalancerByIDWithRevision(c) ==
  /\ LbAt(c, "byId")
  /\ \/ LbReturn(c)
     \/ /\ LbLive(lbCall[c].id)
        /\ lbCall' = [lbCall EXCEPT ![c].rev = lbRow[lbCall[c].id].rev, ![c].pc = "existing"]
  /\ UNCHANGED lbStore
  /\ LbRest

(* The store operation reads the row again before it writes.               *)
LoadBalancerByID(c) ==
  LET id == lbCall[c].id
      moves == lbCall[c].newPort # lbRow[id].port /\ lbCall[c].newPort # NoLb
  IN /\ LbAt(c, "existing")
     /\ \/ ~LbLive(id) /\ LbReturn(c)
        \/ /\ LbLive(id)
           /\ lbCall' = [lbCall EXCEPT ![c].row = lbRow[id], ![c].pc =
                           CASE lbCall[c].op = "delete" -> "deleteTxn"
                             [] moves -> "claim"
                             [] OTHER -> "updateTxn"]
     /\ UNCHANGED lbStore
     /\ LbRest

(* The port guard: absent, it is claimed in the transaction; ours, the row *)
(* write alone re-adopts it; another's, the request is refused.            *)
claimLBPublishedPortGuard(c) ==
  LET holder == lbPort[lbCall[c].newPort]
  IN /\ LbAt(c, "claim")
     /\ \/ holder \notin {NoLb, lbCall[c].id} /\ LbReturn(c)
        \/ /\ holder \in {NoLb, lbCall[c].id}
           /\ lbCall' = [lbCall EXCEPT
                ![c].claim = IF holder = NoLb THEN "fresh" ELSE "ours",
                ![c].pc = IF lbCall[c].op = "create" THEN "createTxn" ELSE "updateTxn"]
     /\ UNCHANGED lbStore
     /\ LbRest

LbClaimHolds(c) == lbCall[c].claim = "fresh" => lbPort[lbCall[c].newPort] = NoLb

LbClaimed(c) ==
  IF lbCall[c].claim = "fresh" THEN [lbPort EXCEPT ![lbCall[c].newPort] = lbCall[c].id] ELSE lbPort

(* The row and its guards are written together, or not at all.             *)
CreateLoadBalancer(c) ==
  LET call == lbCall[c]
      free == lbName[call.name] = NoLb /\ LbClaimHolds(c)
  IN /\ LbAt(c, "createTxn")
     /\ \/ /\ free
           /\ lbRow' = [lbRow EXCEPT ![call.id] =
                          [name |-> call.name, port |-> call.newPort, rev |-> 1, live |-> TRUE]]
           /\ lbName' = [lbName EXCEPT ![call.name] = call.id]
           /\ lbPort' = LbClaimed(c)
           /\ UNCHANGED lbObs
        \/ ~free /\ UNCHANGED lbStore
     /\ LbReturn(c)
     /\ LbRest

LbRenamed(c) == lbCall[c].row.name # lbCall[c].newName

(* The compares of the update: the row is at the revision the handler      *)
(* read, a new name is free, a claimed port is still free.                 *)
UpdateTxnCommits(c) ==
  /\ lbRow[lbCall[c].id].rev = lbCall[c].rev
  /\ LbRenamed(c) => lbName[lbCall[c].newName] = NoLb
  /\ LbClaimHolds(c)

(* A lost transaction is a conflict when the row moved on, and then the    *)
(* handler reads again, up to its attempts; otherwise it is a refusal.     *)
classifyUpdateTxnFailure(c) ==
  LET call == lbCall[c]
      conflict == ~LbLive(call.id) \/ lbRow[call.id].rev # call.rev
  IN /\ ~UpdateTxnCommits(c)
     /\ IF conflict /\ call.tries < LbUpdateAttempts
        THEN lbCall' = [lbCall EXCEPT ![c] =
               [LbFresh("update", call.name, call.newName, call.newPort) EXCEPT !.tries = call.tries + 1]]
        ELSE LbReturn(c)
     /\ UNCHANGED lbStore

(* The row, the moved name guard and the claimed port in one transaction;  *)
(* the guard of the old port is released after it.                         *)
UpdateLoadBalancer(c) ==
  LET call == lbCall[c]
  IN /\ LbAt(c, "updateTxn")
     /\ \/ classifyUpdateTxnFailure(c)
        \/ /\ UpdateTxnCommits(c)
           /\ lbRow' = [lbRow EXCEPT ![call.id] =
                          [name |-> call.newName, port |-> call.newPort,
                           rev |-> call.rev + 1, live |-> TRUE]]
           /\ lbName' = IF LbRenamed(c)
                        THEN [lbName EXCEPT ![call.row.name] = NoLb, ![call.newName] = call.id]
                        ELSE lbName
           /\ lbPort' = LbClaimed(c)
           /\ UNCHANGED lbObs
           /\ IF call.row.port \notin {NoLb, call.newPort} THEN LbGoto(c, "release") ELSE LbReturn(c)
     /\ LbRest

(* Mutant: the name guard goes with the row, whoever holds it.             *)
DeleteLoadBalancerUngated(c) ==
  LET call == lbCall[c]
  IN /\ LbAt(c, "deleteTxn")
     /\ lbRow' = [lbRow EXCEPT ![call.id] = [call.row EXCEPT !.live = FALSE, !.rev = lbRow[call.id].rev + 1]]
     /\ lbName' = [lbName EXCEPT ![call.row.name] = NoLb]
     /\ LbGoto(c, IF call.row.port = NoLb THEN "reapHealth" ELSE "release")
     /\ UNCHANGED <<lbPort, lbObs>>
     /\ LbRest

(* The tombstone is put without a compare on the row: it overwrites        *)
(* whatever an update wrote since the row was read.  The name guard goes   *)
(* only if it still points at this load balancer.                          *)
DeleteLoadBalancer(c) ==
  LET call == lbCall[c]
  IN /\ LbAt(c, "deleteTxn")
     /\ lbRow' = [lbRow EXCEPT ![call.id] = [call.row EXCEPT !.live = FALSE, !.rev = lbRow[call.id].rev + 1]]
     /\ lbName' = IF lbName[call.row.name] = call.id
                  THEN [lbName EXCEPT ![call.row.name] = NoLb]
                  ELSE lbName
     /\ LbGoto(c, IF call.row.port = NoLb THEN "reapHealth" ELSE "release")
     /\ UNCHANGED <<lbPort, lbObs>>
     /\ LbRest

LbAfterRelease(c) == IF lbCall[c].op = "delete" THEN LbGoto(c, "reapHealth") ELSE LbReturn(c)

(* The release of the old port's guard, if it still points at this load    *)
(* balancer.                                                               *)
releaseLBPublishedPortGuard(c) ==
  LET port == lbCall[c].row.port
  IN /\ LbAt(c, "release")
     /\ lbPort' = IF lbPort[port] = lbCall[c].id THEN [lbPort EXCEPT ![port] = NoLb] ELSE lbPort
     /\ LbAfterRelease(c)
     /\ UNCHANGED <<lbRow, lbName, lbObs>>
     /\ LbRest

(* The observed rows of a deleted load balancer are reaped, kind by kind.  *)
deleteLBBackendHealthPrefix(c) ==
  /\ LbAt(c, "reapHealth")
  /\ lbObs' = lbObs \ {<<"health", lbCall[c].id>>}
  /\ LbGoto(c, "reapStatus")
  /\ UNCHANGED <<lbRow, lbName, lbPort>>
  /\ LbRest

deleteLBPublishedListenerStatusPrefix(c) ==
  /\ LbAt(c, "reapStatus")
  /\ lbObs' = lbObs \ {<<"status", lbCall[c].id>>}
  /\ LbReturn(c)
  /\ UNCHANGED <<lbRow, lbName, lbPort>>
  /\ LbRest

(* A best-effort step that fails is logged and passed over; the process    *)
(* may also end there.                                                     *)
LbStepFails(c) ==
  /\ lbEvents < MaxLbEvents
  /\ lbEvents' = lbEvents + 1
  /\ \/ LbAt(c, "release") /\ LbAfterRelease(c)
     \/ LbAt(c, "reapHealth") /\ LbGoto(c, "reapStatus")
     \/ LbAt(c, "reapStatus") /\ LbReturn(c)
     \/ ~LbAt(c, "idle") /\ LbReturn(c)
  /\ UNCHANGED <<lbStore, lbReport, lbRequests>>
-----------------------------------------------------------------------------
(* A heartbeat checks that the load balancer is live, then writes the      *)
(* observed row.                                                           *)
ReportIsLive(kind, id) ==
  /\ lbReport = NoLb
  /\ LbLive(id)
  /\ lbEvents < MaxLbEvents
  /\ lbEvents' = lbEvents + 1
  /\ lbReport' = <<kind, id>>
  /\ UNCHANGED <<lbStore, lbCall, lbRequests>>

UpsertObserved ==
  /\ lbReport # NoLb
  /\ lbObs' = lbObs \union {lbReport}
  /\ lbReport' = NoLb
  /\ UNCHANGED <<lbRow, lbName, lbPort, lbCall, lbRequests, lbEvents>>

LbNext ==
  \/ \E c \in LbCalls :
       \/ \E id \in LbIds, n \in LbNames, p \in LbPorts \union {NoLb} : CreateLb(c, id, n, p)
       \/ \E n, m \in LbNames, p \in LbPorts \union {NoLb} : UpdateLb(c, n, m, p)
       \/ \E n \in LbNames : DeleteLb(c, n)
       \/ LoadBalancerByName(c)
       \/ LoadBalancerByIDWithRevision(c)
       \/ LoadBalancerByID(c)
       \/ claimLBPublishedPortGuard(c)
       \/ CreateLoadBalancer(c)
       \/ UpdateLoadBalancer(c)
       \/ DeleteLoadBalancer(c)
       \/ releaseLBPublishedPortGuard(c)
       \/ deleteLBBackendHealthPrefix(c)
       \/ deleteLBPublishedListenerStatusPrefix(c)
       \/ LbStepFails(c)
  \/ \E kind \in {"health", "status"}, id \in LbIds : ReportIsLive(kind, id)
  \/ UpsertObserved

LbSpec == LbInit /\ [][LbNext]_lbVars
-----------------------------------------------------------------------------
(* A live load balancer is always found by its name: its name guard points *)
(* at it, whatever renames, deletes and creates overlap.  Rests on the     *)
(* revision compare of UpdateLoadBalancer and on the value gate of         *)
(* DeleteLoadBalancer.                                                     *)
LbNamesResolve ==
  \A id \in LbIds : LbLive(id) => lbName[lbRow[id].name] = id
=============================================================================
