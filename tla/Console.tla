------------------------------- MODULE Console -------------------------------
(***************************************************************************)
(* A serial console session, relayed by the control plane from an operator *)
(* to the agent that runs the guest, and following the guest across a live *)
(* migration.  What the operator types is buffered between the reader of   *)
(* the session and the writer of the current bridge; frames are numbered   *)
(* in the order they are typed.                                            *)
(*                                                                         *)
(* ConWindow is how many frames a write may run ahead of the agent: the    *)
(* relay's reasoning takes it for one.                                     *)
(***************************************************************************)
EXTENDS Naturals, Sequences, SequencesExt

CONSTANTS
  ConNodes,
  ConBufLimit,    \* frames the buffer holds
  ConWindow,
  MaxTyped,       \* frames the operator types
  MaxConMoves,    \* migrations
  MaxConBreaks    \* upstream breaks besides

VARIABLES
  conOwner, conMigrating,  \* the guest's node; a migration is active
  conTyped,                \* frames typed so far
  conBuf, conOverflow, conSig,  \* consoleInboundBuffer
  conPc,       \* the session: "new", "token", "bridge", "broken", "poll", "ended"
  conToken,    \* [node, used] of the session's last token
  conCur,      \* the node the bridge is attached to
  conUp,       \* the upstream is intact
  conWire,     \* frames written to the upstream and not yet at the guest
  conGot,      \* frames the guest received
  conWriter,   \* the writer of the bridge: "take", "wait", "held" or "off"
  conHeld, conInflight,    \* its frames, 0 for none
  conSlot,     \* node -> its multiplexer has a live console subscriber
  conMoves, conBreaks

conVars == <<conOwner, conMigrating, conTyped, conBuf, conOverflow, conSig, conPc, conToken, conCur,
             conUp, conWire, conGot, conWriter, conHeld, conInflight, conSlot, conMoves, conBreaks>>

ConInit ==
  /\ conOwner \in ConNodes /\ conMigrating = FALSE
  /\ conTyped = 0
  /\ conBuf = <<>> /\ conOverflow = FALSE /\ conSig = FALSE
  /\ conPc = "new"
  /\ conToken = [node |-> conOwner, used |-> TRUE]
  /\ conCur = conOwner /\ conUp = FALSE
  /\ conWire = <<>> /\ conGot = <<>>
  /\ conWriter = "off" /\ conHeld = 0 /\ conInflight = 0
  /\ conSlot = [n \in ConNodes |-> FALSE]
  /\ conMoves = 0 /\ conBreaks = 0

conBuffer == <<conBuf, conOverflow, conSig>>
conWriting == <<conWriter, conHeld, conInflight>>
conGuest == <<conOwner, conMigrating, conMoves>>
-----------------------------------------------------------------------------

(* The buffer.  A frame over the limit is dropped and marks the buffer; a  *)
(* frame put back at the head ignores the limit.                           *)
append(frame) ==
  IF conOverflow \/ Len(conBuf) >= ConBufLimit
  THEN conOverflow' = TRUE /\ conSig' = TRUE /\ UNCHANGED conBuf
  ELSE conBuf' = Append(conBuf, frame) /\ conSig' = TRUE /\ UNCHANGED conOverflow

unshift(frames) ==
  /\ conBuf' = frames \o conBuf
  /\ conSig' = TRUE
  /\ UNCHANGED conOverflow

take ==
  /\ conBuf # <<>>
  /\ conHeld' = Head(conBuf)
  /\ conBuf' = Tail(conBuf)
  /\ UNCHANGED <<conOverflow, conSig>>
-----------------------------------------------------------------------------
(* The token is issued by the agent that runs the guest.                   *)
ConsoleIssueToken ==
  /\ conPc = "new"
  /\ conPc' = "token"
  /\ conToken' = [node |-> conOwner, used |-> FALSE]
  /\ UNCHANGED <<conGuest, conTyped, conBuffer, conCur, conUp, conWire, conGot, conWriting, conSlot, conBreaks>>

(* The agent lets a stream in on a token of its own that is not used, when *)
(* no other console subscriber is live; the token is used up either way.   *)
AgentAdmits(n) == conToken.node = n /\ ~conToken.used /\ ~conSlot[n]

StartBridge(n) ==
  /\ conCur' = n
  /\ conUp' = TRUE
  /\ conWire' = <<>>
  /\ conSlot' = [conSlot EXCEPT ![n] = TRUE]
  /\ conWriter' = "take" /\ conHeld' = 0 /\ conInflight' = 0
  /\ conPc' = "bridge"

(* The stream goes to the node the guest is on now.                        *)
ConsoleStream ==
  /\ conPc = "token"
  /\ conToken' = IF conToken.node = conOwner THEN [conToken EXCEPT !.used = TRUE] ELSE conToken
  /\ IF AgentAdmits(conOwner) THEN StartBridge(conOwner)
     ELSE conPc' = "ended" /\ UNCHANGED <<conCur, conUp, conWire, conWriting, conSlot>>
  /\ UNCHANGED <<conGuest, conTyped, conBuffer, conGot, conBreaks>>

(* The reader of the session: a full buffer ends the session.              *)
OperatorTypes ==
  /\ conPc \in {"bridge", "broken", "poll"}
  /\ ~conOverflow
  /\ conTyped < MaxTyped
  /\ conTyped' = conTyped + 1
  /\ append(conTyped')
  /\ UNCHANGED <<conGuest, conPc, conToken, conCur, conUp, conWire, conGot, conWriting, conSlot, conBreaks>>
-----------------------------------------------------------------------------
(* The writer takes the next frame, or waits for a signal.                 *)
WriterTakes ==
  /\ conWriter = "take"
  /\ \/ take /\ conWriter' = "held"
     \/ conBuf = <<>> /\ conWriter' = "wait" /\ UNCHANGED <<conBuffer, conHeld>>
  /\ UNCHANGED <<conGuest, conTyped, conPc, conToken, conCur, conUp, conWire, conGot, conInflight, conSlot, conBreaks>>

WriterSignalled ==
  /\ conWriter = "wait"
  /\ conSig
  /\ conSig' = FALSE
  /\ conWriter' = "take"
  /\ UNCHANGED <<conGuest, conTyped, conBuf, conOverflow, conPc, conToken, conCur, conUp, conWire, conGot,
                 conHeld, conInflight, conSlot, conBreaks>>

(* A write succeeds when the frame is on its way, also into an upstream    *)
(* that is going down.  Only the last frame written stays in flight.       *)
WriterWrites ==
  /\ conWriter = "held"
  /\ conPc = "bridge"
  /\ Len(conWire) < ConWindow
  /\ conWire' = Append(conWire, conHeld)
  /\ conInflight' = conHeld
  /\ conHeld' = 0
  /\ conWriter' = "take"
  /\ UNCHANGED <<conGuest, conTyped, conBuffer, conPc, conToken, conCur, conUp, conGot, conSlot, conBreaks>>

(* A failed write puts back its frame and, before it, the one in flight.   *)
WriterFails ==
  /\ conWriter = "held"
  /\ ~conUp
  /\ unshift(IF conInflight = 0 THEN <<conHeld>> ELSE <<conInflight, conHeld>>)
  /\ conWriter' = "off" /\ conHeld' = 0 /\ conInflight' = 0
  /\ UNCHANGED <<conGuest, conTyped, conPc, conToken, conCur, conUp, conWire, conGot, conSlot, conBreaks>>

(* A writer that waits leaves when the bridge is over.                     *)
WriterLeaves ==
  /\ conWriter = "wait"
  /\ conPc = "broken"
  /\ IF conInflight = 0 THEN UNCHANGED conBuffer ELSE unshift(<<conInflight>>)
  /\ conWriter' = "off" /\ conInflight' = 0
  /\ UNCHANGED <<conGuest, conTyped, conPc, conToken, conCur, conUp, conWire, conGot, conHeld, conSlot, conBreaks>>

(* The agent hands the next frame to the guest.                            *)
AgentDelivers ==
  /\ conUp
  /\ conWire # <<>>
  /\ conGot' = Append(conGot, Head(conWire))
  /\ conWire' = Tail(conWire)
  /\ UNCHANGED <<conGuest, conTyped, conBuffer, conPc, conToken, conCur, conUp, conWriting, conSlot, conBreaks>>

(* The upstream goes down, with what is on its way: the source closes it   *)
(* in a migration, or the connection fails.                                *)
UpstreamBreaks ==
  /\ conUp
  /\ conMigrating \/ conOwner # conCur \/ (conBreaks < MaxConBreaks)
  /\ conBreaks' = IF conMigrating \/ conOwner # conCur THEN conBreaks ELSE conBreaks + 1
  /\ conUp' = FALSE
  /\ UNCHANGED <<conGuest, conTyped, conBuffer, conPc, conToken, conCur, conWire, conGot, conWriting, conSlot>>

(* The bridge notices; its upstream is closed once the writer is gone.     *)
BridgeNotices ==
  /\ conPc = "bridge" /\ ~conUp
  /\ conPc' = "broken"
  /\ UNCHANGED <<conGuest, conTyped, conBuffer, conToken, conCur, conUp, conWire, conGot, conWriting, conSlot, conBreaks>>

(* The agent's handler ends and its subscriber is closed.                  *)
AgentReleases(n) ==
  /\ conSlot[n]
  /\ conCur # n \/ ~conUp
  /\ conSlot' = [conSlot EXCEPT ![n] = FALSE]
  /\ UNCHANGED <<conGuest, conTyped, conBuffer, conPc, conToken, conCur, conUp, conWire, conGot, conWriting, conBreaks>>
-----------------------------------------------------------------------------
(* Same node and no migration is a clean end; anything else is polled.     *)
decideReattach ==
  /\ conPc = "broken" /\ conWriter = "off"
  /\ conPc' = IF conOwner = conCur /\ ~conMigrating THEN "ended" ELSE "poll"
  /\ UNCHANGED <<conGuest, conTyped, conBuffer, conToken, conCur, conUp, conWire, conGot, conWriting, conSlot, conBreaks>>

(* A fresh token from the new owner, and a stream on it.                   *)
dialReattach(n) ==
  /\ ~conSlot[n]
  /\ conToken' = [node |-> n, used |-> TRUE]
  /\ StartBridge(n)

(* A poll: an overflow or the deadline gives up, a migration that ended    *)
(* where it began is a clean end, a new owner is dialled.                  *)
PollOwner ==
  /\ conPc = "poll"
  /\ IF conOverflow \/ (conOwner = conCur /\ ~conMigrating)
     THEN conPc' = "ended" /\ UNCHANGED <<conToken, conCur, conUp, conWire, conWriting, conSlot>>
     ELSE conOwner # conCur /\ dialReattach(conOwner)
  /\ UNCHANGED <<conGuest, conTyped, conBuffer, conGot, conBreaks>>

(* A full buffer ends the reader and with it a bridged session.            *)
ReaderEnds ==
  /\ conPc \in {"bridge", "broken"}
  /\ conOverflow
  /\ conPc' = "ended"
  /\ conUp' = FALSE
  /\ conWriter' = "off" /\ conHeld' = 0 /\ conInflight' = 0
  /\ UNCHANGED <<conGuest, conTyped, conBuffer, conToken, conCur, conWire, conGot, conSlot, conBreaks>>

(* No new owner within the window.                                         *)
PollExpires ==
  /\ conPc = "poll"
  /\ conPc' = "ended"
  /\ UNCHANGED <<conGuest, conTyped, conBuffer, conToken, conCur, conUp, conWire, conGot, conWriting, conSlot, conBreaks>>

(* The guest migrates; its owner changes or the migration fails.           *)
StartMove ==
  /\ ~conMigrating /\ conMoves < MaxConMoves
  /\ conMigrating' = TRUE /\ conMoves' = conMoves + 1
  /\ UNCHANGED <<conOwner, conTyped, conBuffer, conPc, conToken, conCur, conUp, conWire, conGot, conWriting, conSlot, conBreaks>>

EndMove ==
  /\ conMigrating
  /\ conMigrating' = FALSE
  /\ conOwner' \in ConNodes
  /\ UNCHANGED <<conMoves, conTyped, conBuffer, conPc, conToken, conCur, conUp, conWire, conGot, conWriting, conSlot, conBreaks>>

RelayStep ==
  \/ ConsoleIssueToken \/ ConsoleStream \/ WriterTakes \/ WriterSignalled \/ WriterWrites \/ WriterFails
  \/ WriterLeaves \/ AgentDelivers \/ BridgeNotices \/ decideReattach \/ PollOwner

ConNext ==
  \/ RelayStep \/ OperatorTypes \/ UpstreamBreaks \/ ReaderEnds \/ PollExpires \/ StartMove \/ EndMove
  \/ \E n \in ConNodes : AgentReleases(n)

(* Goroutines of the relay and the agents run on, migrations end, and the  *)
(* console of a guest that has left its node is closed.                    *)
ConFairness ==
  /\ WF_conVars(ConsoleIssueToken) /\ WF_conVars(ConsoleStream)
  /\ WF_conVars(WriterTakes \/ WriterSignalled \/ WriterWrites \/ WriterFails \/ WriterLeaves)
  /\ WF_conVars(AgentDelivers) /\ WF_conVars(BridgeNotices)
  /\ WF_conVars(decideReattach) /\ WF_conVars(PollOwner) /\ WF_conVars(EndMove)
  /\ WF_conVars(ReaderEnds) /\ WF_conVars(conOwner # conCur /\ UpstreamBreaks)
  /\ \A n \in ConNodes : WF_conVars(AgentReleases(n))

ConSpec == ConInit /\ [][ConNext]_conVars /\ ConFairness
-----------------------------------------------------------------------------

=============================================================================
