------------------------------ MODULE SerialMux ------------------------------
(***************************************************************************)
(* The serial multiplexer of a running guest.  One pump reads the guest's  *)
(* output, keeps it on disk and hands it to every follower of the log; a   *)
(* follower that is too slow loses output and is told how much.  The log   *)
(* file is rotated, the connection is renewed when the guest's process is  *)
(* restarted, and closing takes all of it down.  Output comes in numbered  *)
(* chunks.                                                                 *)
(***************************************************************************)
EXTENDS Naturals, Sequences

CONSTANTS
  MuxFollowers,
  MuxCapacity,        \* chunks a follower's channel holds
  RotationThreshold,  \* chunks in a file before it is rotated
  MaxChunks,
  MaxReconnects

VARIABLES
  muxConn,      \* the connection to the guest is set
  muxOut,       \* chunks read from the guest
  muxPump,      \* the pump: "read", "disk", "fan" or "gone"
  muxFanned,    \* the last chunk handed to the followers
  muxCurrent, muxRotated,  \* the chunks of serial.log and serial.log.1
  muxRotate,    \* a rotation is asked for
  muxTrans,     \* who holds transitionMu: "free", "reconnect" or "close"
  muxPc,        \* Close: "open", "pump", "background" or "closed"
  muxSub,       \* follower -> its state
  muxList,      \* followers in the fan-out
  muxReconnects

muxVars == <<muxConn, muxOut, muxPump, muxFanned, muxCurrent, muxRotated, muxRotate, muxTrans, muxPc,
             muxSub, muxList, muxReconnects>>

NoFollower ==
  [pc |-> "off", follow |-> FALSE, late |-> FALSE, tail |-> <<>>, ch |-> <<>>, dropped |-> 0,
   done |-> FALSE, last |-> 0, exact |-> TRUE]

MuxInit ==
  /\ muxConn = TRUE
  /\ muxOut = 0 /\ muxPump = "read" /\ muxFanned = 0
  /\ muxCurrent = <<>> /\ muxRotated = <<>> /\ muxRotate = FALSE
  /\ muxTrans = "free" /\ muxPc = "open"
  /\ muxSub = [f \in MuxFollowers |-> NoFollower]
  /\ muxList = {}
  /\ muxReconnects = 0

muxFiles == <<muxCurrent, muxRotated, muxRotate>>
-----------------------------------------------------------------------------
(* The pump reads the next chunk, or ends with its connection.             *)
PumpReads ==
  /\ muxPump = "read"
  /\ IF muxConn THEN /\ muxOut < MaxChunks
                     /\ muxOut' = muxOut + 1
                     /\ muxPump' = "disk"
     ELSE muxPump' = "gone" /\ UNCHANGED muxOut
  /\ UNCHANGED <<muxConn, muxFanned, muxFiles, muxTrans, muxPc, muxSub, muxList, muxReconnects>>

(* The chunk goes to the log, which asks for a rotation when it is full.   *)
writeToDisk ==
  /\ muxPump = "disk"
  /\ muxPump' = "fan"
  /\ muxCurrent' = Append(muxCurrent, muxOut)
  /\ muxRotate' = (muxRotate \/ Len(muxCurrent') >= RotationThreshold)
  /\ UNCHANGED <<muxConn, muxOut, muxFanned, muxRotated, muxTrans, muxPc, muxSub, muxList, muxReconnects>>

(* A chunk for one follower: the losses so far go with it; when it does    *)
(* not fit, it joins them.                                                 *)
tryDeliver(s) ==
  IF s.done THEN s
  ELSE IF Len(s.ch) < MuxCapacity
  THEN [s EXCEPT !.ch = Append(@, [drop |-> s.dropped, chunk |-> muxOut]), !.dropped = 0]
  ELSE [s EXCEPT !.dropped = s.dropped + 1]

(* Mutant: the losses taken for a marker that did not fit are forgotten.   *)
deliverToSubscribersForgets ==
  /\ muxPump = "fan"
  /\ muxPump' = "read"
  /\ muxFanned' = muxOut
  /\ muxSub' = [f \in MuxFollowers |->
                  IF f \in muxList
                  THEN [tryDeliver(muxSub[f]) EXCEPT !.dropped = IF @ > 0 THEN 1 ELSE 0] ELSE muxSub[f]]
  /\ muxList' = {f \in muxList : ~muxSub[f].done}
  /\ UNCHANGED <<muxConn, muxOut, muxFiles, muxTrans, muxPc, muxReconnects>>

(* The fan-out: followers that are closed leave it.                        *)
deliverToSubscribers ==
  /\ muxPump = "fan"
  /\ muxPump' = "read"
  /\ muxFanned' = muxOut
  /\ muxSub' = [f \in MuxFollowers |-> IF f \in muxList THEN tryDeliver(muxSub[f]) ELSE muxSub[f]]
  /\ muxList' = {f \in muxList : ~muxSub[f].done}
  /\ UNCHANGED <<muxConn, muxOut, muxFiles, muxTrans, muxPc, muxReconnects>>

(* The log becomes the one rotated log.                                    *)
runRotation ==
  /\ muxRotate
  /\ muxPc \in {"open", "pump", "background"}
  /\ muxRotate' = FALSE
  /\ muxRotated' = muxCurrent
  /\ muxCurrent' = <<>>
  /\ UNCHANGED <<muxConn, muxOut, muxPump, muxFanned, muxTrans, muxPc, muxSub, muxList, muxReconnects>>
-----------------------------------------------------------------------------
SetSub(f, s) ==
  /\ muxSub' = [muxSub EXCEPT ![f] = s]
  /\ UNCHANGED <<muxConn, muxOut, muxPump, muxFanned, muxFiles, muxTrans, muxPc, muxReconnects>>

(* A log request, following or not; the history is read in the background. *)
SubscribeLogs(f, follow) ==
  /\ muxSub[f].pc = "off"
  /\ SetSub(f, [muxSub[f] EXCEPT !.pc = "rotated", !.follow = follow, !.late = (muxPc = "closed")])
  /\ UNCHANGED muxList

(* The history: the rotated log first, then the current one.               *)
readTailLines(f) ==
  /\ \/ /\ muxSub[f].pc = "rotated"
        /\ SetSub(f, [muxSub[f] EXCEPT !.pc = "current", !.tail = muxRotated])
     \/ /\ muxSub[f].pc = "current"
        /\ SetSub(f, [muxSub[f] EXCEPT !.pc = "attach", !.tail = @ \o muxCurrent])
  /\ UNCHANGED muxList

(* The history is delivered and the follower joins the fan-out in one      *)
(* step; a request that does not follow is over.                           *)
streamHistoryThenAttach(f) ==
  /\ muxSub[f].pc = "attach"
  /\ IF muxSub[f].follow
     THEN SetSub(f, [muxSub[f] EXCEPT !.pc = "attached", !.last = muxFanned]) /\ muxList' = muxList \union {f}
     ELSE SetSub(f, [muxSub[f] EXCEPT !.pc = "attached", !.done = TRUE]) /\ UNCHANGED muxList

(* The handler forwards what the channel holds; once the follower is done  *)
(* it drains the channel and ends.                                         *)
streamLogs(f) ==
  /\ muxSub[f].pc = "attached"
  /\ LET s == muxSub[f]
         item == Head(s.ch)
     IN IF s.ch # <<>>
        THEN SetSub(f, [s EXCEPT !.ch = Tail(@), !.last = item.chunk,
                                 !.exact = @ /\ item.chunk = s.last + item.drop + 1])
        ELSE s.done /\ SetSub(f, [s EXCEPT !.pc = "ended"])
  /\ UNCHANGED muxList

(* The client goes away.                                                   *)
LogsClientGone(f) ==
  /\ muxSub[f].pc = "attached"
  /\ SetSub(f, [muxSub[f] EXCEPT !.pc = "ended", !.done = TRUE, !.ch = <<>>])
  /\ UNCHANGED muxList
-----------------------------------------------------------------------------
(* A restart of the guest's process: the old pump is waited for, then the  *)
(* connection renewed; when that fails the multiplexer is closed.          *)
Reconnect ==
  /\ muxTrans = "free" /\ muxPc = "open" /\ muxReconnects < MaxReconnects
  /\ muxReconnects' = muxReconnects + 1
  /\ muxTrans' = "reconnect"
  /\ muxConn' = FALSE
  /\ UNCHANGED <<muxOut, muxPump, muxFanned, muxFiles, muxPc, muxSub, muxList>>

ReconnectDials(ok) ==
  /\ muxTrans = "reconnect" /\ muxPump = "gone"
  /\ IF ok THEN muxConn' = TRUE /\ muxPump' = "read" ELSE UNCHANGED <<muxConn, muxPump>>
  /\ muxTrans' = IF ok THEN "free" ELSE "close"
  /\ muxPc' = IF ok THEN muxPc ELSE "pump"
  /\ UNCHANGED <<muxOut, muxFanned, muxFiles, muxSub, muxList, muxReconnects>>

(* Close: connection, pump, background work, then the followers.           *)
Close ==
  /\ muxTrans = "free" /\ muxPc = "open"
  /\ muxTrans' = "close"
  /\ muxPc' = "pump"
  /\ muxConn' = FALSE
  /\ UNCHANGED <<muxOut, muxPump, muxFanned, muxFiles, muxSub, muxList, muxReconnects>>

CloseWaitsPump ==
  /\ muxPc = "pump" /\ muxPump = "gone"
  /\ muxPc' = "background"
  /\ UNCHANGED <<muxConn, muxOut, muxPump, muxFanned, muxFiles, muxTrans, muxSub, muxList, muxReconnects>>

Finish ==
  /\ muxPc' = "closed"
  /\ muxTrans' = "free"
  /\ muxSub' = [f \in MuxFollowers |-> IF f \in muxList THEN [muxSub[f] EXCEPT !.done = TRUE] ELSE muxSub[f]]
  /\ muxList' = {}
  /\ UNCHANGED <<muxConn, muxOut, muxPump, muxFanned, muxFiles, muxReconnects>>

CloseWaitsBackground ==
  /\ muxPc = "background"
  /\ \A f \in MuxFollowers : muxSub[f].pc \notin {"rotated", "current", "attach"}
  /\ Finish

MuxStep ==
  \/ PumpReads \/ writeToDisk \/ deliverToSubscribers \/ runRotation
  \/ ReconnectDials(TRUE) \/ ReconnectDials(FALSE) \/ CloseWaitsPump \/ CloseWaitsBackground

MuxNext ==
  \/ MuxStep \/ Reconnect \/ Close
  \/ \E f \in MuxFollowers :
       \/ \E follow \in BOOLEAN : SubscribeLogs(f, follow)
       \/ readTailLines(f) \/ streamHistoryThenAttach(f) \/ streamLogs(f) \/ LogsClientGone(f)

MuxFairness ==
  /\ WF_muxVars(MuxStep) /\ WF_muxVars(CloseWaitsBackground)
  /\ \A f \in MuxFollowers :
       /\ WF_muxVars(readTailLines(f) \/ streamHistoryThenAttach(f))
       /\ WF_muxVars(streamLogs(f))

MuxSpec == MuxInit /\ [][MuxNext]_muxVars /\ MuxFairness
-----------------------------------------------------------------------------
(* A follower is told of every chunk it lost: what it received, the losses *)
(* it was told of and those it will be told of make up, in order, all that *)
(* came since it joined.                                                   *)
LogsAccounted ==
  \A f \in MuxFollowers : LET s == muxSub[f] IN
    /\ s.exact
    /\ f \in muxList /\ ~s.done =>
         LET end == IF s.ch = <<>> THEN s.last ELSE s.ch[Len(s.ch)].chunk
         IN end + s.dropped = muxFanned

=============================================================================
