---------------------------- MODULE Idempotency ----------------------------
(***************************************************************************)
(* The Idempotency-Key contract: the middleware                            *)
(* (internal/api/middleware/idempotency.go) over its durable row           *)
(* (internal/etcdstore/idempotency.go) and the enqueue-side index of       *)
(* Store.EnqueueTask (internal/etcdstore/tasks.go), under the request      *)
(* timeout (internal/api/middleware/timeout.go), whose deadline answers    *)
(* the client while the handler's goroutine runs on.                       *)
(*                                                                         *)
(* One user and one key: different keys touch different etcd keys.  A body *)
(* is its hash.  The downstream handler is one that enqueues a task, as    *)
(* the VM deletion and the pool scan do.                                   *)
(***************************************************************************)
EXTENDS Naturals, Sequences, FiniteSets

CONSTANTS IdemCalls,    \* the requests carrying the key
          IdemBodies,   \* the bodies they may carry
          MaxFaults     \* bound on deadlines, lost processes and failed store calls

VARIABLES idemRow,      \* idempotency_keys/<user>/<key>
          idemIndex,    \* index/idempotency_task/<user>/<key>
          idemTasks,    \* the tasks enqueued, each the body it was asked with
          idemSince,    \* history: tasks enqueued before the index last lapsed
          idemCall,     \* the handler goroutine of each request
          idemWriter,   \* the guardedWriter of each request
          idemWire,     \* what the client of each request has been sent
          idemRev,      \* etcd revision of the row
          idemFaults

idemVars == <<idemRow, idemIndex, idemTasks, idemSince, idemCall, idemWriter,
              idemWire, idemRev, idemFaults>>

NoKey == [state |-> "none"]
NoIndex == [task |-> 0]
IdemNew(body) == [pc |-> "new", body |-> body, rev |-> 0, seen |-> NoKey,
                  ok |-> FALSE, task |-> 0]
On(c, pc) == idemCall[c].pc = pc
Step(c, pc) == idemCall' = [idemCall EXCEPT ![c].pc = pc]
End(c) == idemCall' = [idemCall EXCEPT ![c] = [IdemNew(idemCall[c].body) EXCEPT !.pc = "end"]]
Ended(c) == idemCall[c].pc \in {"new", "end"}

IdemInit ==
  /\ idemRow = NoKey
  /\ idemIndex = NoIndex
  /\ idemTasks = <<>>
  /\ idemSince = 0
  /\ \E body \in [IdemCalls -> IdemBodies] :
       idemCall = [c \in IdemCalls |-> IdemNew(body[c])]
  /\ idemWriter = [c \in IdemCalls |-> [timedOut |-> FALSE, wroteHeader |-> FALSE]]
  /\ idemWire = [c \in IdemCalls |-> <<>>]
  /\ idemRev = 0
  /\ idemFaults = 0

PutRow(row) ==
  /\ idemRow' = row
  /\ idemRev' = idemRev + 1

OnlyCall ==
  UNCHANGED <<idemRow, idemIndex, idemTasks, idemSince, idemWriter, idemWire,
              idemRev, idemFaults>>
-----------------------------------------------------------------------------

(* The guarded writer: the handler's answer and the deadline's 503 exclude  *)
(* each other under one mutex.                                              *)
WriteHeader(c, answer) ==
  IF idemWriter[c].timedOut \/ idemWriter[c].wroteHeader
  THEN UNCHANGED <<idemWriter, idemWire>>
  ELSE /\ idemWriter' = [idemWriter EXCEPT ![c].wroteHeader = TRUE]
       /\ idemWire' = [idemWire EXCEPT ![c] = Append(@, answer)]

Timeout(c) ==
  /\ ~Ended(c)
  /\ ~idemWriter[c].timedOut
  /\ idemFaults < MaxFaults
  /\ idemFaults' = idemFaults + 1
  /\ idemWriter' = [idemWriter EXCEPT ![c] = [timedOut |-> TRUE, wroteHeader |-> TRUE]]
  /\ idemWire' = IF idemWriter[c].wroteHeader THEN idemWire
                 ELSE [idemWire EXCEPT ![c] = Append(@, [status |-> "503"])]
  /\ UNCHANGED <<idemRow, idemIndex, idemTasks, idemSince, idemCall, idemRev>>

Refuse(c, status) ==
  /\ End(c)
  /\ WriteHeader(c, [status |-> status])

Replay(c, task) ==
  /\ End(c)
  /\ WriteHeader(c, [status |-> "2xx", task |-> task])
-----------------------------------------------------------------------------
(* acquireKey.  A live row is compared with the request: another body is a  *)
(* mismatch, an in_flight row a conflict, a completed row replays.          *)
determineAction(row, body) ==
  IF row.hash # body THEN "mismatch"
  ELSE IF row.state = "in_flight" THEN "inFlight" ELSE "replay"

Resolve(c, row, body) ==
  LET action == determineAction(row, body) IN
  IF action = "replay" THEN Replay(c, row.task) ELSE Refuse(c, action)

Fresh(body, c) == [state |-> "in_flight", hash |-> body, task |-> 0,
                   expired |-> FALSE, owner |-> c]

Acquire(c) ==
  /\ On(c, "new")
  /\ IF idemRow = NoKey
     THEN Step(c, "begin") /\ UNCHANGED <<idemWriter, idemWire>>
     ELSE IF idemRow.expired
     THEN Step(c, "reclaimRead") /\ UNCHANGED <<idemWriter, idemWire>>
     ELSE Resolve(c, idemRow, idemCall[c].body)
  /\ UNCHANGED <<idemRow, idemIndex, idemTasks, idemSince, idemRev, idemFaults>>

BeginIdempotencyKey(c) ==
  /\ On(c, "begin")
  /\ IF idemRow = NoKey
     THEN PutRow(Fresh(idemCall[c].body, c)) /\ Step(c, "handler")
     ELSE Step(c, "reread") /\ UNCHANGED <<idemRow, idemRev>>
  /\ UNCHANGED <<idemIndex, idemTasks, idemSince, idemWriter, idemWire, idemFaults>>

(* ReclaimIdempotencyKey reads the row again and takes it over only while   *)
(* it is expired, under a compare of the revision it read.                  *)
ReclaimRead(c) ==
  /\ On(c, "reclaimRead")
  /\ IF idemRow = NoKey \/ ~idemRow.expired
     THEN Step(c, "reread")
     ELSE idemCall' = [idemCall EXCEPT ![c].pc = "reclaim", ![c].rev = idemRev]
  /\ OnlyCall

ReclaimIdempotencyKey(c) ==
  /\ On(c, "reclaim")
  /\ IF idemRow # NoKey /\ idemRev = idemCall[c].rev
     THEN PutRow(Fresh(idemCall[c].body, c)) /\ Step(c, "handler")
     ELSE Step(c, "reread") /\ UNCHANGED <<idemRow, idemRev>>
  /\ UNCHANGED <<idemIndex, idemTasks, idemSince, idemWriter, idemWire, idemFaults>>

(* The loser of either race reads the winner's row; a row that is gone by   *)
(* now is a 500.                                                            *)
Reread(c) ==
  /\ On(c, "reread")
  /\ IF idemRow = NoKey THEN Refuse(c, "500")
     ELSE Resolve(c, idemRow, idemCall[c].body)
  /\ UNCHANGED <<idemRow, idemIndex, idemTasks, idemSince, idemRev, idemFaults>>

(* A store error while acquiring is a 500; the reservation may have been    *)
(* committed all the same.                                                  *)
AcquireFails(c) ==
  /\ idemCall[c].pc \in {"begin", "reclaimRead", "reclaim", "reread", "handler"}
  /\ idemFaults < MaxFaults
  /\ idemFaults' = idemFaults + 1
  /\ Refuse(c, "500")
  /\ UNCHANGED <<idemRow, idemIndex, idemTasks, idemSince, idemRev>>
-----------------------------------------------------------------------------
(* The handler.  EnqueueTask commits task, job and index key under          *)
(* CreateRevision = 0 of the index, and otherwise answers from the index.   *)
Enqueued(c, ok, task) ==
  idemCall' = [idemCall EXCEPT ![c].pc = "settleRead", ![c].ok = ok, ![c].task = task]

(* Mutant: the enqueue takes no index guard. *)
EnqueueTaskBlind(c) ==
  LET body == idemCall[c].body IN
  /\ idemTasks' = Append(idemTasks, body)
  /\ idemIndex' = [task |-> Len(idemTasks) + 1, hash |-> body]
  /\ \E answered \in BOOLEAN : Enqueued(c, answered, Len(idemTasks) + 1)

EnqueueTask(c) ==
  LET body == idemCall[c].body IN
  IF idemIndex = NoIndex
  THEN /\ idemTasks' = Append(idemTasks, body)
       /\ idemIndex' = [task |-> Len(idemTasks) + 1, hash |-> body]
       /\ \E answered \in BOOLEAN : Enqueued(c, answered, Len(idemTasks) + 1)
  ELSE /\ Enqueued(c, idemIndex.hash = body, idemIndex.task)
       /\ UNCHANGED <<idemTasks, idemIndex>>

Handler(c) ==
  /\ On(c, "handler")
  /\ \/ EnqueueTask(c)
     \/ Enqueued(c, FALSE, 0) /\ UNCHANGED <<idemTasks, idemIndex>>  \* refused earlier
  /\ UNCHANGED <<idemRow, idemSince, idemWriter, idemWire, idemRev, idemFaults>>

(* finalizeKey: Complete on a 2xx, Delete otherwise.  Both read the row,    *)
(* leave one that is not in_flight alone, and write without a compare; an   *)
(* error is logged and the answer flushed all the same.                     *)
SettleRead(c) ==
  /\ On(c, "settleRead")
  /\ IF idemRow # NoKey /\ idemRow.state = "in_flight"
     THEN idemCall' = [idemCall EXCEPT ![c].pc = "settle", ![c].seen = idemRow]
     ELSE Step(c, "flush")
  /\ OnlyCall

CompleteIdempotencyKey(c) ==
  /\ On(c, "settle")
  /\ idemCall[c].ok
  /\ PutRow([idemCall[c].seen EXCEPT !.state = "completed", !.expired = FALSE,
                                     !.task = idemCall[c].task])
  /\ Step(c, "flush")
  /\ UNCHANGED <<idemIndex, idemTasks, idemSince, idemWriter, idemWire, idemFaults>>

DeleteIdempotencyKey(c) ==
  /\ On(c, "settle")
  /\ ~idemCall[c].ok
  /\ PutRow(NoKey)
  /\ Step(c, "flush")
  /\ UNCHANGED <<idemIndex, idemTasks, idemSince, idemWriter, idemWire, idemFaults>>

SettleFails(c) ==
  /\ idemCall[c].pc \in {"settleRead", "settle"}
  /\ idemFaults < MaxFaults
  /\ idemFaults' = idemFaults + 1
  /\ Step(c, "flush")
  /\ UNCHANGED <<idemRow, idemIndex, idemTasks, idemSince, idemWriter, idemWire, idemRev>>

Flush(c) ==
  /\ On(c, "flush")
  /\ IF idemCall[c].ok THEN Replay(c, idemCall[c].task) ELSE Refuse(c, "error")
  /\ UNCHANGED <<idemRow, idemIndex, idemTasks, idemSince, idemRev, idemFaults>>
-----------------------------------------------------------------------------
(* The process dies in mid-call: the client sees a broken connection.       *)
Crash(c) ==
  /\ ~Ended(c)
  /\ idemFaults < MaxFaults
  /\ idemFaults' = idemFaults + 1
  /\ End(c)
  /\ UNCHANGED <<idemRow, idemIndex, idemTasks, idemSince, idemWriter, idemWire, idemRev>>

(* The in_flight lease is longer than any live request; the completed row   *)
(* lives a day, longer than any request too.                                *)
RowExpires ==
  /\ idemRow # NoKey
  /\ ~idemRow.expired
  /\ IF idemRow.state = "in_flight" THEN Ended(idemRow.owner)
     ELSE \A c \in IdemCalls : Ended(c)
  /\ idemRow' = [idemRow EXCEPT !.expired = TRUE]
  /\ UNCHANGED <<idemIndex, idemTasks, idemSince, idemCall, idemWriter, idemWire,
                 idemRev, idemFaults>>

DeleteExpiredIdempotencyKeys ==
  /\ idemRow # NoKey
  /\ idemRow.expired
  /\ PutRow(NoKey)
  /\ UNCHANGED <<idemIndex, idemTasks, idemSince, idemCall, idemWriter, idemWire, idemFaults>>

(* The index lapses a day after the enqueue; no request lasts that long.    *)
DeleteExpiredIdempotencyTaskIndex ==
  /\ idemIndex # NoIndex
  /\ \A c \in IdemCalls : Ended(c)
  /\ idemIndex' = NoIndex
  /\ idemSince' = Len(idemTasks)
  /\ UNCHANGED <<idemRow, idemTasks, idemCall, idemWriter, idemWire, idemRev, idemFaults>>

IdemNext ==
  \/ \E c \in IdemCalls :
       \/ Acquire(c) \/ AcquireFails(c)
       \/ BeginIdempotencyKey(c) \/ ReclaimRead(c) \/ ReclaimIdempotencyKey(c)
       \/ Reread(c) \/ Handler(c) \/ SettleRead(c)
       \/ CompleteIdempotencyKey(c) \/ DeleteIdempotencyKey(c) \/ SettleFails(c)
       \/ Flush(c) \/ Timeout(c) \/ Crash(c)
  \/ RowExpires \/ DeleteExpiredIdempotencyKeys \/ DeleteExpiredIdempotencyTaskIndex

IdemSpec == IdemInit /\ [][IdemNext]_idemVars
-----------------------------------------------------------------------------
Answers(c) == {idemWire[c][i] : i \in 1 .. Len(idemWire[c])}

(* Within the life of the index a key enqueues at most one task, however    *)
(* many retries, crashes, lapsed leases and lost answers there are; and     *)
(* every 2xx answer, run or replayed, names a task that was enqueued for    *)
(* the body of the request it answers.                                      *)
IdemExactlyOnce ==
  /\ Len(idemTasks) <= idemSince + 1
  /\ \A c \in IdemCalls : \A a \in Answers(c) :
       a.status = "2xx" => idemTasks[a.task] = idemCall[c].body

=============================================================================
