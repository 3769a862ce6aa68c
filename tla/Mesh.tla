-------------------------------- MODULE Mesh --------------------------------
(***************************************************************************)
(* The WireGuard mesh under the overlays.  Agents report their key and the *)
(* peers they have shaken hands with; the control plane keeps a row per    *)
(* node and replies with the peers a node is to configure: reachable peers *)
(* directly, peers behind NAT through a gateway both sides have reached.   *)
(* With the peers goes the forwarding table of the overlay: where the      *)
(* guests of other nodes are.                                              *)
(*                                                                         *)
(* A heartbeat's report, reply and reconcile pass are one step; a pass may *)
(* fail, a report may come late, a reply may be lost.                      *)
(***************************************************************************)
EXTENDS Naturals, FiniteSets

CONSTANTS
  MeshNodes,
  MeshRank,       \* node -> Nat: the order of node ids
  MeshPublic,     \* nodes that advertise a WireGuard endpoint
  MeshGateways,   \* nodes with the gateway role and an ingress endpoint
  MeshVms,        \* guests with an interface on one overlay
  MeshKeys,       \* key generations
  NoMesh,
  MeshCapacity,   \* host addresses of the overlay supernet
  MaxMeshEvents   \* link changes, key changes, moves, deletes and faults

VARIABLES
  wgRow,       \* node -> [key, index, est] as stored, or NoMesh
  wgGuard,     \* key -> the node that holds it, or NoMesh
  wgSeq,       \* the index sequence
  wgLive,      \* nodes whose row exists
  wgKey,       \* node -> the agent's key
  wgDesired,   \* node -> the last reply's [self, peers, fdb], or NoMesh
  wgKern,      \* node -> the interface: [key, peers], or NoMesh
  wgStatus,    \* node -> status of the last reconcile pass
  wgLink,      \* pairs, one of them public, whose underlay is up
  wgLate,      \* node -> a report still on its way, or NoMesh
  vmHost,      \* guest -> node
  wgEvents

wgVars == <<wgRow, wgGuard, wgSeq, wgLive, wgKey, wgDesired, wgKern, wgStatus, wgLink, wgLate, vmHost, wgEvents>>

MeshPairs == {{m, g} : m \in MeshNodes, g \in MeshPublic} \ {{g} : g \in MeshPublic}

KeyOf(n, k) == <<n, k>>

AllKeys == MeshNodes \X MeshKeys

MeshInit ==
  /\ wgRow = [n \in MeshNodes |-> NoMesh]
  /\ wgGuard = [k \in AllKeys |-> NoMesh]
  /\ wgSeq = 0
  /\ wgLive = MeshNodes
  /\ wgKey = [n \in MeshNodes |-> CHOOSE k \in MeshKeys : TRUE]
  /\ wgDesired = [n \in MeshNodes |-> NoMesh]
  /\ wgKern = [n \in MeshNodes |-> NoMesh]
  /\ wgStatus = [n \in MeshNodes |-> "pending"]
  /\ wgLink = MeshPairs
  /\ wgLate = [n \in MeshNodes |-> NoMesh]
  /\ vmHost \in [MeshVms -> MeshNodes \ MeshGateways]
  /\ wgEvents = 0

MeshEvent == wgEvents < MaxMeshEvents /\ wgEvents' = wgEvents + 1
-----------------------------------------------------------------------------
(* Two interfaces complete a handshake: each has the other's key, one of   *)
(* them knows where to send, and the underlay carries it.                  *)
Handshake(m, n) ==
  /\ m # n
  /\ wgKern[m] # NoMesh /\ wgKern[n] # NoMesh
  /\ n \in DOMAIN wgKern[m].peers /\ m \in DOMAIN wgKern[n].peers
  /\ wgKern[m].peers[n].key = wgKern[n].key
  /\ wgKern[n].peers[m].key = wgKern[m].key
  /\ wgKern[m].peers[n].endpoint \/ wgKern[n].peers[m].endpoint
  /\ {m, n} \in wgLink

(* The peers of the last reply with a recent handshake; not known without  *)
(* an interface or a reply.                                                *)
establishedPeers(n) ==
  IF wgKern[n] = NoMesh \/ wgDesired[n] = NoMesh THEN [unavailable |-> TRUE, peers |-> {}]
  ELSE [unavailable |-> FALSE, peers |-> {p \in DOMAIN wgDesired[n].peers : Handshake(n, p)}]

WireGuardReport(n) ==
  [key |-> KeyOf(n, wgKey[n]), est |-> establishedPeers(n)]
-----------------------------------------------------------------------------
(* Index and address of a new row; the supernet has room for so many.      *)
overlayIPForIndex(index) == IF index < MeshCapacity THEN index ELSE NoMesh

(* First report of a node: the next index, and the key's guard.  A key     *)
(* held by the node itself is kept; held by another it is refused.         *)
createAgentWireguard(n, rep) ==
  LET index == overlayIPForIndex(wgSeq)
      free == wgGuard[rep.key] \in {NoMesh, n}
  IN [row |-> IF index = NoMesh \/ ~free THEN NoMesh
              ELSE [key |-> rep.key, index |-> index, est |-> rep.est.peers],
      guard |-> IF index = NoMesh \/ ~free THEN wgGuard ELSE [wgGuard EXCEPT ![rep.key] = n],
      seq |-> wgSeq + 1]

(* A node with a new key gives the old one's guard back.                   *)
swapAgentWireguardPubkey(n, row, rep) ==
  IF wgGuard[rep.key] \in {NoMesh, n}
  THEN [row |-> [row EXCEPT !.key = rep.key],
        guard |-> [wgGuard EXCEPT ![rep.key] = n, ![wgRow[n].key] = NoMesh],
        seq |-> wgSeq]
  ELSE [row |-> wgRow[n], guard |-> wgGuard, seq |-> wgSeq]

(* A later report keeps index and address and refreshes the peers, unless  *)
(* the agent could not see them.                                           *)
UpsertAgentWireguard(n, rep) ==
  LET row == [wgRow[n] EXCEPT !.est = IF rep.est.unavailable THEN @ ELSE rep.est.peers]
  IN IF wgRow[n] = NoMesh THEN createAgentWireguard(n, rep)
     ELSE IF wgRow[n].key = rep.key THEN [row |-> row, guard |-> wgGuard, seq |-> wgSeq]
     ELSE swapAgentWireguardPubkey(n, row, rep)

applyWireguardReport(n, rep) ==
  LET up == UpsertAgentWireguard(n, rep)
  IN /\ wgRow' = [wgRow EXCEPT ![n] = up.row]
     /\ wgGuard' = up.guard
     /\ wgSeq' = up.seq
-----------------------------------------------------------------------------
(* The gateway a and b relay through: the lowest both have reached.        *)
selectRelayGateway(rows, a, b, gateways) ==
  LET both == {g \in gateways : g \in rows[a].est /\ g \in rows[b].est}
  IN IF both = {} THEN NoMesh
     ELSE CHOOSE g \in both : \A h \in both : MeshRank[g] <= MeshRank[h]

directEntry(rows, p, endpoint) ==
  [key |-> rows[p].key, endpoint |-> endpoint, allowed |-> {p}]


(* Direct entries for reachable peers, and on a gateway for every peer; a  *)
(* peer behind NAT is merged into the entry of the gateway both sides have *)
(* reached, or left out.                                                   *)
computeWireGuardRouting(rows, n, peers) ==
  LET gateways == peers \intersect MeshGateways
      direct == {p \in peers : p \in MeshPublic \/ n \in MeshGateways}
      relay == [p \in peers \ direct |-> selectRelayGateway(rows, n, p, gateways)]
  IN [p \in direct |->
        [directEntry(rows, p, p \in MeshPublic) EXCEPT
           !.allowed = @ \union {q \in DOMAIN relay : relay[q] = p}]]

(* Rows whose node still exists, other than the node's own.                *)
loadDeclaredWireGuardPeers(rows, n) ==
  IF rows[n] = NoMesh THEN <<>>
  ELSE computeWireGuardRouting(rows, n, {p \in wgLive \ {n} : rows[p] # NoMesh})

(* Where the guests of the overlay are, read at one revision.              *)
ListOverlayNICPlacementsPinned == {<<v, vmHost[v]>> : v \in MeshVms}

(* One entry per guest on another live node that has an address.           *)
buildRemoteFDBEntries(rows, placements, n) ==
  {<<p[1], rows[p[2]].index>> : p \in {q \in placements : q[2] # n /\ q[2] \in wgLive /\ rows[q[2]] # NoMesh}}

(* A node without a guest on the overlay needs no entries.                 *)
loadDeclaredFDB(rows, n) ==
  LET placements == ListOverlayNICPlacementsPinned
  IN IF \E p \in placements : p[2] = n THEN buildRemoteFDBEntries(rows, placements, n) ELSE {}

Reply(rows, n) ==
  [self |-> rows[n] # NoMesh, peers |-> loadDeclaredWireGuardPeers(rows, n), fdb |-> loadDeclaredFDB(rows, n)]
-----------------------------------------------------------------------------
(* A pass: nothing before an address is known; interface, then peers.      *)
reconcileWireGuard(n, desired, ok) ==
  /\ wgKern' = [wgKern EXCEPT ![n] = IF desired.self /\ ok
                                     THEN [key |-> KeyOf(n, wgKey[n]), peers |-> desired.peers] ELSE @]
  /\ wgStatus' = [wgStatus EXCEPT ![n] = IF ~desired.self THEN "pending" ELSE IF ok THEN "ready" ELSE "failed"]

(* A heartbeat: the report is applied, the reply becomes desired and a     *)
(* pass follows.  A failing pass keeps the interface as it was.            *)
BeatWireGuard(n, ok) ==
  /\ n \in wgLive
  /\ applyWireguardReport(n, WireGuardReport(n))
  /\ LET desired == Reply(wgRow', n)
     IN wgDesired' = [wgDesired EXCEPT ![n] = desired] /\ reconcileWireGuard(n, desired, ok)
  /\ IF ok THEN UNCHANGED wgEvents ELSE MeshEvent
  /\ UNCHANGED <<wgLive, wgKey, wgLink, wgLate, vmHost>>

(* The agent gives up on a heartbeat; its report may still arrive, after   *)
(* later ones, and its reply is dropped.                                   *)
LoseBeat(n) ==
  /\ wgLate[n] = NoMesh
  /\ MeshEvent
  /\ wgLate' = [wgLate EXCEPT ![n] = WireGuardReport(n)]
  /\ UNCHANGED <<wgRow, wgGuard, wgSeq, wgLive, wgKey, wgDesired, wgKern, wgStatus, wgLink, vmHost>>

ApplyLate(n) ==
  /\ wgLate[n] # NoMesh
  /\ wgLate' = [wgLate EXCEPT ![n] = NoMesh]
  /\ IF n \in wgLive THEN applyWireguardReport(n, wgLate[n]) ELSE UNCHANGED <<wgRow, wgGuard, wgSeq>>
  /\ UNCHANGED <<wgLive, wgKey, wgDesired, wgKern, wgStatus, wgLink, vmHost, wgEvents>>

(* The underlay between two nodes goes down or comes back.                 *)
FlipLink(p) ==
  /\ MeshEvent
  /\ wgLink' = IF p \in wgLink THEN wgLink \ {p} ELSE wgLink \union {p}
  /\ UNCHANGED <<wgRow, wgGuard, wgSeq, wgLive, wgKey, wgDesired, wgKern, wgStatus, wgLate, vmHost>>

(* An agent restarts: its interface stays, its replies are gone.  Without  *)
(* its key file it makes a new key.                                        *)
RestartAgent(n) ==
  /\ MeshEvent
  /\ wgDesired' = [wgDesired EXCEPT ![n] = NoMesh]
  /\ wgStatus' = [wgStatus EXCEPT ![n] = "pending"]
  /\ \E k \in MeshKeys : wgKey' = [wgKey EXCEPT ![n] = k]
  /\ UNCHANGED <<wgRow, wgGuard, wgSeq, wgLive, wgKern, wgLink, wgLate, vmHost>>

(* A node is deleted, its row and its key's guard with it.                 *)
RemoveMeshNode(n) ==
  /\ MeshEvent
  /\ n \in wgLive
  /\ wgLive' = wgLive \ {n}
  /\ wgRow' = [wgRow EXCEPT ![n] = NoMesh]
  /\ wgGuard' = IF wgRow[n] = NoMesh THEN wgGuard ELSE [wgGuard EXCEPT ![wgRow[n].key] = NoMesh]
  /\ UNCHANGED <<wgSeq, wgKey, wgDesired, wgKern, wgStatus, wgLink, wgLate, vmHost>>

(* A guest moves to another node.                                          *)
MoveGuest(v) ==
  /\ MeshEvent
  /\ \E n \in wgLive \ MeshGateways : vmHost[v] # n /\ vmHost' = [vmHost EXCEPT ![v] = n]
  /\ UNCHANGED <<wgRow, wgGuard, wgSeq, wgLive, wgKey, wgDesired, wgKern, wgStatus, wgLink, wgLate>>

MeshNext ==
  \/ \E n \in MeshNodes :
       \/ BeatWireGuard(n, TRUE) \/ BeatWireGuard(n, FALSE) \/ LoseBeat(n) \/ ApplyLate(n)
       \/ RestartAgent(n) \/ RemoveMeshNode(n)
  \/ \E p \in MeshPairs : FlipLink(p)
  \/ \E v \in MeshVms : MoveGuest(v)

(* Agents keep sending heartbeats.                                         *)
MeshSpec ==
  /\ MeshInit /\ [][MeshNext]_wgVars
  /\ \A n \in MeshNodes : WF_wgVars(BeatWireGuard(n, TRUE)) /\ WF_wgVars(ApplyLate(n))
-----------------------------------------------------------------------------
Addressed == {n \in wgLive : wgRow[n] # NoMesh}

(* Traffic passes between two nodes, directly or through a gateway.        *)
Routed(m, n) ==
  \/ Handshake(m, n) /\ n \in wgKern[m].peers[n].allowed /\ m \in wgKern[n].peers[m].allowed
  \/ \E g \in MeshGateways :
       /\ Handshake(m, g) /\ n \in wgKern[m].peers[g].allowed
       /\ Handshake(n, g) /\ m \in wgKern[n].peers[g].allowed

(* The underlay allows a direct path, or one through a gateway.            *)
Connected(m, n) ==
  IF m \in MeshPublic \/ n \in MeshPublic THEN {m, n} \in wgLink
  ELSE \E g \in MeshGateways \intersect Addressed : {m, g} \in wgLink /\ {n, g} \in wgLink

(* Once the cluster is quiet, every two nodes the underlay can connect     *)
(* reach each other both ways, deleted nodes are nobody's peer, and nodes  *)
(* with guests know where every other guest is.                            *)
MeshSettled ==
  /\ \A m, n \in Addressed : m # n /\ Connected(m, n) => Routed(m, n)
  /\ \A n \in Addressed : wgKern[n] # NoMesh /\ DOMAIN wgKern[n].peers \subseteq wgLive
  /\ \A n \in Addressed : wgDesired[n] # NoMesh /\ wgDesired[n].fdb = loadDeclaredFDB(wgRow, n)


=============================================================================
