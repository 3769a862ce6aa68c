------------------------------ MODULE HostNet -------------------------------
(***************************************************************************)
(* The network reconciler of an agent: it brings the host's bridges, VXLAN *)
(* devices, gateway veths, NAT rules, routes, DHCP registrations and       *)
(* forwarding entries to what the control plane declares, and remembers in *)
(* `applied' what it put in place so that it can take it away again.       *)
(*                                                                         *)
(* Networks share no host resource, so a pass is a step per network.  Any  *)
(* host operation in NetFaultOps may fail in a step.                       *)
(***************************************************************************)
EXTENDS Naturals, FiniteSets

CONSTANTS
  NetIds,       \* networks
  NetBridges,   \* bridge names
  NetSubnets,   \* subnets
  NetVteps,     \* overlay addresses of other nodes
  NetMacs,      \* guests on other nodes
  FloodMac,     \* the all-zeros address
  NoNet,        \* absence
  HostsVMs,     \* the node runs guests (a gateway-only node does not)
  NetFaultOps,  \* host operations that may fail
  MaxNetChanges,
  MaxNetFaults

VARIABLES
  netKind,     \* network -> "plain", "anycast" (dhcp/dns), "unmanaged" or "overlay": never changes
  netDecl,     \* network -> what the last reply declares, or NoNet
  netKern,     \* network -> its resources on the host
  netFdb,      \* network -> its forwarding entries on the host: <<mac, vtep>>
  netApplied,  \* network -> the record of what was put in place, or NoNet
  netReport,   \* network -> reconciliation status of the last pass, or NoNet
  netSession,  \* network -> live ingress sessions
  netChanges,
  netFaults

netVars == <<netKind, netDecl, netKern, netFdb, netApplied, netReport, netSession, netChanges, netFaults>>

OverlayNet(id) == netKind[id] = "overlay"

(* What may be declared of a network: its bridge, NAT and subnet, and of   *)
(* an overlay the gateway address and the guests on other nodes.  Only the *)
(* name of an overlay can be changed, so its NAT and subnet are fixed; its *)
(* bridge is named after its VNI.                                          *)
Declarable(id) ==
  [bridge : IF OverlayNet(id) THEN {"vni"} ELSE NetBridges,
   nat : IF OverlayNet(id) THEN {TRUE} ELSE IF netKind[id] = "unmanaged" THEN {FALSE} ELSE BOOLEAN,
   subnet : IF OverlayNet(id) THEN {"vni"} ELSE NetSubnets,
   gw : IF OverlayNet(id) THEN BOOLEAN ELSE {FALSE},
   at : IF OverlayNet(id) THEN [NetMacs -> NetVteps \union {NoNet}] ELSE {[m \in NetMacs |-> NoNet]}]

AppliedNone ==
  [bridge |-> NoNet, managed |-> FALSE, nat |-> FALSE, subnet |-> NoNet,
   anycast |-> FALSE, overlay |-> FALSE, veth |-> FALSE]

NetInit ==
  /\ netKind \in [NetIds -> {"plain", "anycast", "unmanaged", "overlay"}]
  /\ netDecl = [i \in NetIds |-> NoNet]
  /\ netKern = [i \in NetIds |-> {}]
  /\ netFdb = [i \in NetIds |-> {}]
  /\ netApplied = [i \in NetIds |-> NoNet]
  /\ netReport = [i \in NetIds |-> NoNet]
  /\ netSession = [i \in NetIds |-> 0]
  /\ netChanges = 0
  /\ netFaults = 0
-----------------------------------------------------------------------------
(* The host, as one network sees it: resources, forwarding entries, the    *)
(* applied record and the status a step reports.                           *)
Host(id) == [kern |-> netKern[id], fdb |-> netFdb[id], app |-> netApplied[id], rep |-> "ready"]

HasKern(h, r) == [h EXCEPT !.kern = @ \union {r}]

Reported(h, status) == [h EXCEPT !.rep = status]

(* A bridge takes its addresses and routes with it.                        *)
RemoveBridge(h, b) ==
  [h EXCEPT !.kern = {r \in @ : ~ (r[1] \in {"bridge", "gwaddr", "anycast", "route"} /\ r[2] = b)}]

RemoveKern(h, kind, b) == [h EXCEPT !.kern = {r \in @ : ~ (r[1] = kind /\ r[2] = b)}]

(* A removal in a teardown; the one that fails leaves its resource.        *)
Drop(h, kind, b, fail) ==
  IF fail = <<"rm", kind>> THEN h
  ELSE IF kind = "bridge" THEN RemoveBridge(h, b)
  ELSE IF kind = "vxlan" THEN [RemoveKern(h, kind, b) EXCEPT !.fdb = {}]
  ELSE RemoveKern(h, kind, b)

(* NAT of a network that had it: the masquerade rule, and on a bridge with *)
(* a gateway of its own the gateway address.                               *)
teardownNAT(h, a, fail) ==
  IF ~a.nat THEN h
  ELSE LET g == IF fail = <<"rm", "masq">> THEN h
                ELSE [h EXCEPT !.kern = @ \ {<<"masq", a.bridge, a.subnet>>}]
       IN IF a.anycast THEN g ELSE Drop(g, "gwaddr", a.bridge, fail)

(* Everything a network put in place; all removals are tried, also after   *)
(* one that fails.                                                         *)
teardownManaged(h, id, a, fail) ==
  LET nat == teardownNAT(h, a, fail)
      dhcp == IF a.anycast THEN Drop(nat, "dhcp", id, fail) ELSE nat
      services == Drop(Drop(h, "masq", a.bridge, fail), "dhcp", id, fail)
      devices == Drop(Drop(services, "veth", a.bridge, fail), "vxlan", a.bridge, fail)
  IN Drop(IF a.overlay THEN devices ELSE dhcp, "bridge", a.bridge, fail)

(* Whether teardownManaged reports the failure.                            *)
TeardownFails(a, fail) ==
  \/ fail = <<"rm", "bridge">>
  \/ a.overlay /\ fail \in {<<"rm", k>> : k \in {"masq", "dhcp", "veth", "vxlan"}}
  \/ a.nat /\ fail = <<"rm", "masq">>
  \/ a.nat /\ ~a.anycast /\ fail = <<"rm", "gwaddr">>
  \/ a.anycast /\ fail = <<"rm", "dhcp">>

(* What an earlier materialisation left that the declaration no longer     *)
(* asks for; a failure is logged and passed over.                          *)
reconcileDelta(h, id, d, fail) ==
  LET prev == h.app
      rm == IF fail[1] = "delta" THEN <<"rm", fail[2]>> ELSE <<"none", "">>
      moved == prev.anycast /\ prev.bridge = d.bridge /\ prev.subnet # d.subnet
      route == IF moved /\ rm # <<"rm", "route">>
               THEN [h EXCEPT !.kern = @ \ {<<"route", prev.bridge, prev.subnet>>}] ELSE h
  IN IF prev = NoNet THEN h
     ELSE IF ~prev.managed THEN h
     ELSE IF prev.bridge # d.bridge THEN teardownManaged(route, id, prev, rm)
     ELSE IF prev.nat /\ (~d.nat \/ prev.subnet # d.subnet) THEN teardownNAT(route, prev, rm)
     ELSE route

(* The dhcp/dns services of a managed bridge: the record comes first, then *)
(* gateway, route, masquerade and DHCP, as far as they succeed.            *)
applyManagedServices(h, id, d, fail) ==
  LET rec == [h EXCEPT !.app = [AppliedNone EXCEPT !.bridge = d.bridge, !.managed = TRUE,
                                  !.anycast = TRUE, !.nat = d.nat, !.subnet = d.subnet]]
      l3 == HasKern(HasKern(rec, <<"anycast", d.bridge>>), <<"route", d.bridge, d.subnet>>)
      masq == IF d.nat THEN HasKern(l3, <<"masq", d.bridge, d.subnet>>) ELSE l3
  IN IF fail = <<"ensure", "l3">> THEN rec
     ELSE IF fail = <<"ensure", "masq">> THEN l3
     ELSE IF fail = <<"ensure", "dhcp">> THEN masq
     ELSE HasKern(masq, <<"dhcp", id>>)

(* A managed bridge: leftovers, the bridge and its record, then services   *)
(* or NAT; NAT is recorded once both its parts are in place.               *)
applyManaged(h, id, d, fail) ==
  LET delta == reconcileDelta(h, id, d, fail)
      bridge == [HasKern(delta, <<"bridge", d.bridge>>) EXCEPT
                   !.app = [AppliedNone EXCEPT !.bridge = d.bridge, !.managed = TRUE]]
      gw == HasKern(bridge, <<"gwaddr", d.bridge>>)
  IN IF fail = <<"ensure", "bridge">> THEN Reported(delta, "failed")
     ELSE IF netKind[id] = "anycast" THEN applyManagedServices(bridge, id, d, fail)
     ELSE IF ~d.nat THEN bridge
     ELSE IF fail = <<"ensure", "gwaddr">> THEN Reported(bridge, "failed")
     ELSE IF fail = <<"ensure", "masq">> THEN Reported(gw, "failed")
     ELSE [HasKern(gw, <<"masq", d.bridge, d.subnet>>) EXCEPT !.app.nat = TRUE, !.app.subnet = d.subnet]

(* An unmanaged bridge is the operator's; it is only looked for.           *)
applyUnmanaged(h, d, fail) ==
  IF fail = <<"ensure", "bridge">> THEN Reported(h, "failed")
  ELSE [h EXCEPT !.app = [AppliedNone EXCEPT !.bridge = d.bridge]]

(* The ingress veth of a gateway: without a gateway address it is reaped,  *)
(* unless sessions run over it; the flag stays while it may exist.         *)
applyGatewayVeth(h, id, d, fail) ==
  IF d.gw
  THEN IF fail = <<"ensure", "veth">> THEN Reported([h EXCEPT !.app.veth = TRUE], "failed")
       ELSE [HasKern(h, <<"veth", d.bridge>>) EXCEPT !.app.veth = TRUE]
  ELSE IF ~h.app.veth \/ netSession[id] > 0 THEN h
  ELSE IF fail = <<"rm", "veth">> THEN Reported(h, "failed")
  ELSE [RemoveKern(h, "veth", d.bridge) EXCEPT !.app.veth = FALSE]

(* The entries a declaration asks for: one per guest and one per node that *)
(* floods go to.                                                           *)
parseDesiredFDB(d) ==
  LET on == {m \in NetMacs : d.at[m] # NoNet}
  IN {<<m, d.at[m]>> : m \in on} \union {<<FloodMac, d.at[m]>> : m \in on}

(* Stale entries are removed before new ones are added; an address whose   *)
(* removal failed gets no new entry in this pass.                          *)
reconcileFDB(h, d, fail) ==
  LET want == parseDesiredFDB(d)
      stale == h.fdb \ want
      stuck == IF fail = <<"fdb", "prune">> THEN stale ELSE {}
      added == {e \in want \ h.fdb : fail # <<"fdb", "append">> /\ e[1] \notin {s[1] : s \in stuck}}
  IN IF fail = <<"fdb", "list">> THEN Reported(h, "pending")
     ELSE [h EXCEPT !.fdb = (h.fdb \ (stale \ stuck)) \union added,
                    !.rep = IF stuck # {} \/ (fail = <<"fdb", "append">> /\ want \ h.fdb # {}) THEN "pending" ELSE @]

(* The anycast gateway and route, NAT and DHCP of an overlay on a node     *)
(* with guests, as far as they succeed.                                    *)
applyOverlayServices(h, id, d, fail) ==
  LET l3 == HasKern(HasKern(h, <<"anycast", d.bridge>>), <<"route", d.bridge, d.subnet>>)
      masq == HasKern(l3, <<"masq", d.bridge, d.subnet>>)
  IN IF fail = <<"ensure", "l3">> THEN h
     ELSE IF fail = <<"ensure", "masq">> THEN l3
     ELSE IF fail = <<"ensure", "dhcp">> THEN masq
     ELSE HasKern(masq, <<"dhcp", id>>)

(* An overlay: bridge, record, VXLAN device, veth, forwarding entries and  *)
(* services, in that order; a failure ends the step.                       *)
applyOverlay(h, id, d, fail) ==
  LET had == h.app # NoNet /\ h.app.veth
      bridge == [HasKern(h, <<"bridge", d.bridge>>) EXCEPT
                   !.app = [AppliedNone EXCEPT !.bridge = d.bridge, !.managed = TRUE,
                              !.overlay = TRUE, !.veth = had]]
      veth == applyGatewayVeth(HasKern(bridge, <<"vxlan", d.bridge>>), id, d, fail)
      fdb == reconcileFDB(veth, d, fail)
  IN IF fail = <<"ensure", "wireguard">> THEN Reported(h, "pending")
     ELSE IF fail = <<"ensure", "bridge">> THEN Reported(h, "failed")
     ELSE IF fail = <<"ensure", "vxlan">> THEN Reported(bridge, "failed")
     ELSE IF veth.rep # "ready" THEN veth
     ELSE IF fdb.rep # "ready" \/ ~HostsVMs THEN fdb
     ELSE applyOverlayServices(fdb, id, d, fail)

applyNetwork(h, id, d, fail) ==
  IF OverlayNet(id) THEN applyOverlay(h, id, d, fail)
  ELSE IF ~HostsVMs THEN h
  ELSE IF netKind[id] = "unmanaged" THEN applyUnmanaged(h, d, fail)
  ELSE applyManaged(h, id, d, fail)

Becomes(id, h, rep) ==
  /\ netKern' = [netKern EXCEPT ![id] = h.kern]
  /\ netFdb' = [netFdb EXCEPT ![id] = h.fdb]
  /\ netApplied' = [netApplied EXCEPT ![id] = h.app]
  /\ netReport' = [netReport EXCEPT ![id] = rep]
  /\ UNCHANGED <<netKind, netDecl, netSession, netChanges>>

NetFault(fail) ==
  \/ fail = <<"none", "">> /\ UNCHANGED netFaults
  \/ fail \in NetFaultOps /\ netFaults < MaxNetFaults /\ netFaults' = netFaults + 1

(* The part of a pass that is about a declared network.                    *)
reconcileNetwork(id, fail) ==
  /\ netDecl[id] # NoNet
  /\ NetFault(fail)
  /\ LET h == applyNetwork(Host(id), id, netDecl[id], fail) IN Becomes(id, h, h.rep)


(* A network no longer declared: an unmanaged bridge is forgotten, a       *)
(* managed one torn down, and forgotten once all of it is gone.            *)
removeUndeclared(id, fail) ==
  /\ netDecl[id] = NoNet
  /\ netApplied[id] # NoNet \/ netReport[id] # NoNet
  /\ NetFault(fail)
  /\ LET a == netApplied[id]
         down == teardownManaged(Host(id), id, a, fail)
     IN Becomes(id,
          IF a = NoNet THEN Host(id)
          ELSE IF ~a.managed THEN [Host(id) EXCEPT !.app = NoNet]
          ELSE IF TeardownFails(a, fail) THEN down
          ELSE [down EXCEPT !.app = NoNet], NoNet)
-----------------------------------------------------------------------------
(* The control plane declares, changes or withdraws a network.             *)
HandleNetworks(id) ==
  /\ netChanges < MaxNetChanges
  /\ netChanges' = netChanges + 1
  /\ \E d \in Declarable(id) \union {NoNet} :
       /\ d # netDecl[id]
       /\ netDecl' = [netDecl EXCEPT ![id] = d]
  /\ UNCHANGED <<netKind, netKern, netFdb, netApplied, netReport, netSession, netFaults>>

(* An ingress session starts over a declared gateway address, and ends.    *)
AcquireSession(id) ==
  /\ netDecl[id] # NoNet
  /\ netDecl[id].gw
  /\ netSession[id] = 0
  /\ netSession' = [netSession EXCEPT ![id] = @ + 1]
  /\ UNCHANGED <<netKind, netDecl, netKern, netFdb, netApplied, netReport, netChanges, netFaults>>

ReleaseSession(id) ==
  /\ netSession[id] > 0
  /\ netSession' = [netSession EXCEPT ![id] = @ - 1]
  /\ UNCHANGED <<netKind, netDecl, netKern, netFdb, netApplied, netReport, netChanges, netFaults>>

NetNext ==
  \E id \in NetIds :
     \/ \E fail \in NetFaultOps \union {<<"none", "">>} : reconcileNetwork(id, fail) \/ removeUndeclared(id, fail)
     \/ HandleNetworks(id)
     \/ AcquireSession(id)
     \/ ReleaseSession(id)

(* The reconciler runs on a timer; sessions end.                           *)
NetStep(id) == reconcileNetwork(id, <<"none", "">>) \/ removeUndeclared(id, <<"none", "">>)

NetSpec ==
  /\ NetInit /\ [][NetNext]_netVars
  /\ \A id \in NetIds : WF_netVars(NetStep(id)) /\ WF_netVars(ReleaseSession(id))
-----------------------------------------------------------------------------
(* The resources a declaration asks for.                                   *)
WantedKern(id, d) ==
  LET services == {<<"anycast", d.bridge>>, <<"route", d.bridge, d.subnet>>, <<"dhcp", id>>}
      bridge == {<<"bridge", d.bridge>>}
      nat == IF d.nat THEN {<<"masq", d.bridge, d.subnet>>} ELSE {}
  IN CASE OverlayNet(id) -> bridge \union {<<"vxlan", d.bridge>>}
                            \union (IF d.gw THEN {<<"veth", d.bridge>>} ELSE {})
                            \union (IF HostsVMs THEN services \union nat ELSE {})
       [] ~HostsVMs \/ netKind[id] = "unmanaged" -> {}
       [] netKind[id] = "anycast" -> bridge \union services \union nat
       [] OTHER -> bridge \union nat \union (IF d.nat THEN {<<"gwaddr", d.bridge>>} ELSE {})

NetAsDeclared(id) ==
  /\ netKern[id] = IF netDecl[id] = NoNet THEN {} ELSE WantedKern(id, netDecl[id])
  /\ netFdb[id] = IF netDecl[id] = NoNet THEN {} ELSE parseDesiredFDB(netDecl[id])


=============================================================================
