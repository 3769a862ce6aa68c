------------------------------ MODULE Datapath -------------------------------
(***************************************************************************)
(* The gateway's data path: a client connection, accepted on a published   *)
(* port or on the agent's connect route, takes a slot, is dialled through  *)
(* to its guest and spliced.  Two copiers move the bytes; whatever ends    *)
(* the session must free both sockets, both copiers and the slot.          *)
(***************************************************************************)
EXTENDS Naturals, FiniteSets

CONSTANTS
  DpConns,       \* client connections
  DpPublished,   \* those accepted on a published port
  DpVms,
  PerKeyCap, TotalCap,
  MaxPeerEvents

ASSUME DpAssumption == DpPublished \subseteq DpConns /\ PerKeyCap \in Nat /\ TotalCap \in Nat

Legs == {"client", "guest"}

OtherLeg(leg) == CHOOSE l \in Legs : l # leg

VARIABLES
  dpPc,       \* connection -> where its handler is
  dpVm,       \* connection -> the guest it is for
  dpPerKey, dpTotal,  \* the slots taken: guest -> count, and in all
  dpSession,  \* connections counted as sessions of their network
  dpOpen,     \* connection -> legs whose socket is open
  dpCopier,   \* connection -> leg read -> "off", "read", "write", "signal" or "ended"
  dpDone,     \* connection -> signals in the done channel
  dpSends, dpReads, dpGone,  \* connection -> legs whose peer sends, reads, has gone away
  dpCancelled,  \* connections whose context is cancelled
  dpEvents

dpVars == <<dpPc, dpVm, dpPerKey, dpTotal, dpSession, dpOpen, dpCopier, dpDone, dpSends, dpReads, dpGone,
            dpCancelled, dpEvents>>

DpInit ==
  /\ dpPc = [c \in DpConns |-> "new"]
  /\ dpVm \in [DpConns -> DpVms]
  /\ dpPerKey = [v \in DpVms |-> 0] /\ dpTotal = 0
  /\ dpSession = {}
  /\ dpOpen = [c \in DpConns |-> {"client"}]
  /\ dpCopier = [c \in DpConns |-> [l \in Legs |-> "off"]]
  /\ dpDone = [c \in DpConns |-> 0]
  /\ dpSends = [c \in DpConns |-> Legs] /\ dpReads = [c \in DpConns |-> Legs]
  /\ dpGone = [c \in DpConns |-> {}]
  /\ dpCancelled = {} /\ dpEvents = 0

dpSlots == <<dpPerKey, dpTotal>>
dpPeers == <<dpSends, dpReads, dpGone, dpCancelled, dpEvents>>
dpCopying == <<dpCopier, dpDone>>

DpAt(c, pc) == dpPc[c] = pc
DpGoto(c, pc) == dpPc' = [dpPc EXCEPT ![c] = pc]
CloseLegs(c, legs) == dpOpen' = [dpOpen EXCEPT ![c] = @ \ legs]
-----------------------------------------------------------------------------
(* A connection that is turned away before it has a slot.                  *)
TurnAway(c) ==
  /\ DpGoto(c, "ended")
  /\ CloseLegs(c, Legs)
  /\ UNCHANGED <<dpVm, dpSlots, dpSession, dpCopying, dpPeers>>

(* A slot for the guest, unless the guest or the gateway has no more.      *)
acquire(c) ==
  LET v == dpVm[c]
      free == dpTotal < TotalCap /\ dpPerKey[v] < PerKeyCap
  IN IF free
     THEN /\ dpPerKey' = [dpPerKey EXCEPT ![v] = @ + 1]
          /\ dpTotal' = dpTotal + 1
          /\ DpGoto(c, "slot")
          /\ UNCHANGED <<dpVm, dpSession, dpOpen, dpCopying, dpPeers>>
     ELSE TurnAway(c)

(* The published port: source address, a backend, then a slot.             *)
handleConn(c, admitted) ==
  /\ c \in DpPublished /\ DpAt(c, "new")
  /\ IF admitted THEN acquire(c) ELSE TurnAway(c)

(* The connect route: the credential and the guest's overlay, then a slot. *)
Connect(c, admitted) ==
  /\ c \notin DpPublished /\ DpAt(c, "new")
  /\ IF admitted THEN acquire(c) ELSE TurnAway(c)

(* The neighbour table names the overlay the guest is on; the connect      *)
(* route counts the session against that network.                          *)
resolveCandidate(c, found) ==
  /\ DpAt(c, "slot")
  /\ DpGoto(c, IF found THEN "dial" ELSE "release")
  /\ CloseLegs(c, IF found THEN {} ELSE Legs)
  /\ dpSession' = IF found /\ c \notin DpPublished THEN dpSession \union {c} ELSE dpSession
  /\ UNCHANGED <<dpVm, dpSlots, dpCopying, dpPeers>>

(* The guest is dialled.  On the connect route the client connection is    *)
(* taken over next, and told; each of these can fail.                      *)
DialOverlay(c, connected) ==
  /\ DpAt(c, "dial")
  /\ DpGoto(c, CASE ~connected -> "release" [] c \in DpPublished -> "splice" [] OTHER -> "hijack")
  /\ dpOpen' = [dpOpen EXCEPT ![c] = IF connected THEN Legs ELSE {}]
  /\ UNCHANGED <<dpVm, dpSlots, dpSession, dpCopying, dpPeers>>

Hijack(c, taken) ==
  /\ DpAt(c, "hijack")
  /\ DpGoto(c, IF taken THEN "splice" ELSE "release")
  /\ CloseLegs(c, IF taken THEN {} ELSE Legs)
  /\ UNCHANGED <<dpVm, dpSlots, dpSession, dpCopying, dpPeers>>
-----------------------------------------------------------------------------
(* The splice: two copiers, then the wait for the context or the first     *)
(* copier that ends, then both sockets closed.                             *)
spliceConns(c) ==
  /\ DpAt(c, "splice")
  /\ dpCopier' = [dpCopier EXCEPT ![c] = [l \in Legs |-> "read"]]
  /\ DpGoto(c, "wait")
  /\ UNCHANGED <<dpVm, dpSlots, dpSession, dpOpen, dpDone, dpPeers>>

SpliceEnds(c) ==
  /\ DpAt(c, "wait")
  /\ \/ c \in dpCancelled /\ UNCHANGED dpDone
     \/ dpDone[c] > 0 /\ dpDone' = [dpDone EXCEPT ![c] = @ - 1]
  /\ CloseLegs(c, Legs)
  /\ DpGoto(c, "release")
  /\ UNCHANGED <<dpVm, dpSlots, dpSession, dpCopier, dpPeers>>

(* The deferred releases: the slot, and the session's count.               *)
release(c) ==
  /\ DpAt(c, "release")
  /\ LET v == dpVm[c]
     IN IF dpPerKey[v] > 0
        THEN dpPerKey' = [dpPerKey EXCEPT ![v] = @ - 1] /\ dpTotal' = dpTotal - 1
        ELSE UNCHANGED dpSlots
  /\ dpSession' = dpSession \ {c}
  /\ DpGoto(c, "ended")
  /\ UNCHANGED <<dpVm, dpOpen, dpCopying, dpPeers>>

(* Nothing was read from the leg and nothing written to it for the idle    *)
(* window.                                                                 *)
DpIdle(c, leg) == leg \notin dpSends[c] /\ (OtherLeg(leg) \notin dpSends[c] \/ leg \notin dpReads[c])

SetCopier(c, leg, s) == dpCopier' = [dpCopier EXCEPT ![c][leg] = s]

(* The copier that reads one leg: a closed or broken leg or the idle       *)
(* deadline ends it; a write to a peer that does not read blocks until the *)
(* leg is closed.                                                          *)
copyIdle(c, leg) ==
  LET to == OtherLeg(leg)
      broken(l) == l \notin dpOpen[c] \/ l \in dpGone[c]
  IN /\ \/ /\ dpCopier[c][leg] = "read"
           /\ \/ /\ broken(leg) \/ DpIdle(c, leg) \/ (leg \in dpSends[c] /\ broken(to))
                 /\ SetCopier(c, leg, "signal")
              \/ /\ leg \in dpSends[c] /\ to \notin dpReads[c] /\ ~broken(leg) /\ ~broken(to)
                 /\ SetCopier(c, leg, "write")
        \/ /\ dpCopier[c][leg] = "write"
           /\ broken(to)
           /\ SetCopier(c, leg, "signal")
     /\ UNCHANGED <<dpPc, dpVm, dpSlots, dpSession, dpOpen, dpDone, dpPeers>>

(* Mutant: the done channel holds one signal, so that the second copier of *)
(* a cancelled session waits for a receiver that has left.                 *)
signalDoneOne(c, leg) ==
  /\ dpCopier[c][leg] = "signal"
  /\ dpDone[c] < 1
  /\ dpDone' = [dpDone EXCEPT ![c] = @ + 1]
  /\ SetCopier(c, leg, "ended")
  /\ UNCHANGED <<dpPc, dpVm, dpSlots, dpSession, dpOpen, dpPeers>>

(* A copier signals once when it returns; the channel has room for both.   *)
signalDone(c, leg) ==
  /\ dpCopier[c][leg] = "signal"
  /\ dpDone[c] < 2
  /\ dpDone' = [dpDone EXCEPT ![c] = @ + 1]
  /\ SetCopier(c, leg, "ended")
  /\ UNCHANGED <<dpPc, dpVm, dpSlots, dpSession, dpOpen, dpPeers>>
-----------------------------------------------------------------------------
(* The peers of a spliced session: one falls silent, stops reading or goes *)
(* away; and the session's context is cancelled.                           *)
PeerEvent(c) ==
  /\ DpAt(c, "wait") /\ dpEvents < MaxPeerEvents
  /\ dpEvents' = dpEvents + 1
  /\ UNCHANGED <<dpPc, dpVm, dpSlots, dpSession, dpOpen, dpCopying>>

PeerSilent(c, leg) ==
  /\ leg \in dpSends[c] /\ PeerEvent(c)
  /\ dpSends' = [dpSends EXCEPT ![c] = @ \ {leg}]
  /\ UNCHANGED <<dpReads, dpGone, dpCancelled>>

PeerStalls(c, leg) ==
  /\ leg \in dpReads[c] /\ PeerEvent(c)
  /\ dpReads' = [dpReads EXCEPT ![c] = @ \ {leg}]
  /\ UNCHANGED <<dpSends, dpGone, dpCancelled>>

PeerLeaves(c, leg) ==
  /\ leg \notin dpGone[c] /\ PeerEvent(c)
  /\ dpSends' = [dpSends EXCEPT ![c] = @ \ {leg}]
  /\ dpGone' = [dpGone EXCEPT ![c] = @ \union {leg}]
  /\ UNCHANGED <<dpReads, dpCancelled>>

CancelConn(c) ==
  /\ c \notin dpCancelled /\ PeerEvent(c)
  /\ dpCancelled' = dpCancelled \union {c}
  /\ UNCHANGED <<dpSends, dpReads, dpGone>>

DpHandler(c) ==
  \/ \E b \in BOOLEAN : handleConn(c, b) \/ Connect(c, b) \/ resolveCandidate(c, b) \/ DialOverlay(c, b) \/ Hijack(c, b)
  \/ spliceConns(c) \/ SpliceEnds(c) \/ release(c)

DpCopy(c, leg) == copyIdle(c, leg) \/ signalDone(c, leg)

DpNext ==
  \E c \in DpConns : DpHandler(c) \/ CancelConn(c) \/ \E leg \in Legs : 
       DpCopy(c, leg) \/ PeerSilent(c, leg) \/ PeerStalls(c, leg) \/ PeerLeaves(c, leg)

DpFairness ==
  \A c \in DpConns : WF_dpVars(DpHandler(c)) /\ \A leg \in Legs : WF_dpVars(DpCopy(c, leg))

DpSpec == DpInit /\ [][DpNext]_dpVars /\ DpFairness
-----------------------------------------------------------------------------
(* The session cannot go on: its context is cancelled, a peer has left, or *)
(* both are silent and one of them still takes what is on its way.         *)
Doomed(c) ==
  \/ c \in dpCancelled
  \/ dpGone[c] # {}
  \/ dpSends[c] = {} /\ dpReads[c] # {}

(* Whatever ends a spliced session, and in whatever order its peers stop,  *)
(* no copier, socket, session count or slot of it survives.                *)
KillImpliesTeardown ==
  <>[](\A c \in DpConns :
         Doomed(c) => /\ dpPc[c] = "ended" /\ dpOpen[c] = {} /\ c \notin dpSession
                      /\ \A leg \in Legs : dpCopier[c][leg] = "ended")

=============================================================================
