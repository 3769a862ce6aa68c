------------------------------ MODULE MCEdge ------------------------------
(* Backends, Datapath, HostNet, Mesh, Console, SerialMux and Replica side   *)
(* by side: part says which of them a behaviour is about; the others keep   *)
(* their initial state.                                                     *)
EXTENDS Backends, Datapath, HostNet, Mesh, Console, SerialMux, Replica, TLC

CONSTANT EdgeParts

VARIABLE part

edgeVars == <<bkVars, dpVars, netVars, wgVars, conVars, muxVars, rpVars, part>>

MCRank == "a" :> 1 @@ "b" :> 2 @@ "g" :> 3 @@ "h" :> 4

(* The operations of the network reconciler that fail; a failed clean-up of *)
(* stale services is in StaleOps.                                           *)
MCNetOps ==
    ({"ensure"} \X {"wireguard", "bridge", "vxlan", "veth", "l3", "dhcp"})
      \union ({"rm"} \X {"masq", "gwaddr", "dhcp", "veth", "vxlan", "bridge"})
      \union ({"fdb"} \X {"list", "prune", "append"})

-----------------------------------------------------------------------------
(* The mesh starts from two situations: nodes that have registered and one  *)
(* that has not, none of which has heard of the others; and a mesh that has *)
(* settled, on which everything else may happen.                            *)
FirstKey == CHOOSE k \in MeshKeys : TRUE

Registered(old, est) ==
    /\ wgRow = [n \in MeshNodes |->
                  IF n \in old THEN [key |-> KeyOf(n, FirstKey), index |-> MCRank[n] - 1, est |-> est[n]]
                  ELSE NoMesh]
    /\ wgGuard = [k \in AllKeys |-> IF k[2] = FirstKey /\ k[1] \in old THEN k[1] ELSE NoMesh]
    /\ wgSeq = Cardinality(old)
    /\ wgLive = MeshNodes
    /\ wgKey = [n \in MeshNodes |-> FirstKey]
    /\ wgLink = MeshPairs
    /\ wgLate = [n \in MeshNodes |-> NoMesh]
    /\ vmHost = [v \in MeshVms |-> "a"]

MeshCold ==
    /\ Registered(MeshNodes \ {"h"}, [n \in MeshNodes |-> {}])
    /\ wgDesired = [n \in MeshNodes |-> NoMesh]
    /\ wgKern = [n \in MeshNodes |-> NoMesh]
    /\ wgStatus = [n \in MeshNodes |-> "pending"]
    /\ wgEvents = MaxMeshEvents

MeshWarm ==
    /\ Registered(MeshNodes, [n \in MeshNodes |-> IF n \in MeshGateways THEN MeshNodes \ {n} ELSE MeshGateways])
    /\ wgDesired = [n \in MeshNodes |-> Reply(wgRow, n)]
    /\ wgKern = [n \in MeshNodes |-> [key |-> KeyOf(n, FirstKey), peers |-> wgDesired[n].peers]]
    /\ wgStatus = [n \in MeshNodes |-> "ready"]
    /\ wgEvents = 0

(* The load balancers start settled: the first is published and served, its *)
(* guest probed and healthy.                                                *)
FirstLb == CHOOSE l \in BkLbs : TRUE
FirstHost == CHOOSE h \in BkHosts : TRUE

BkWarm ==
    /\ bkLb = [l \in BkLbs |-> IF l = FirstLb THEN CHOOSE p \in BkPorts : TRUE ELSE "private"]
    /\ bkGuest = [v \in BkVms |-> [host |-> FirstHost, running |-> TRUE, serves |-> TRUE]]
    /\ bkHealth = [t \in BkTargets |-> [healthy |-> TRUE, fresh |-> TRUE]]
    /\ bkTargets = [h \in BkHosts |-> IF h = FirstHost THEN BkTargets ELSE {}]
    /\ bkProbe = [h \in BkHosts |-> [t \in BkTargets |->
                    IF h = FirstHost THEN applyHysteresis([NewTarget EXCEPT !.ok = HealthyThreshold], TRUE) ELSE NoBk]]
    /\ bkDesired = ListPublishedLoadBalancerBackends(bkHealth)
    /\ bkBound = BkServed
    /\ bkStatus = [l \in BkLbs |-> IF l = FirstLb THEN [port |-> bkLb[l], bound |-> TRUE] ELSE NoBk]
    /\ bkLate = [a \in BkAgents |-> NoBk]
    /\ bkChanges = 0 /\ bkFaults = 0

EdgeInit ==
    /\ part \in EdgeParts
    /\ BkWarm /\ DpInit /\ NetInit /\ ConInit /\ MuxInit /\ RpInit
    /\ part # "datapath" => dpVm = [c \in DpConns |-> CHOOSE v \in DpVms : TRUE]
    /\ part # "net" => netKind = [i \in NetIds |-> "plain"]
    /\ conOwner = CHOOSE n \in ConNodes : TRUE
    /\ MeshWarm \/ (part = "mesh" /\ MeshCold)
-----------------------------------------------------------------------------
BkPart(A) == part = "backends" /\ A /\ UNCHANGED <<dpVars, netVars, wgVars, conVars, muxVars, rpVars, part>>
DpPart(A) == part = "datapath" /\ A /\ UNCHANGED <<bkVars, netVars, wgVars, conVars, muxVars, rpVars, part>>
NetPart(A) == part = "net" /\ A /\ UNCHANGED <<bkVars, dpVars, wgVars, conVars, muxVars, rpVars, part>>
MeshPart(A) == part = "mesh" /\ A /\ UNCHANGED <<bkVars, dpVars, netVars, conVars, muxVars, rpVars, part>>
ConPart(A) == part = "console" /\ A /\ UNCHANGED <<bkVars, dpVars, netVars, wgVars, muxVars, rpVars, part>>
MuxPart(A) == part = "mux" /\ A /\ UNCHANGED <<bkVars, dpVars, netVars, wgVars, conVars, rpVars, part>>
RpPart(A) == part = "replica" /\ A /\ UNCHANGED <<bkVars, dpVars, netVars, wgVars, conVars, muxVars, part>>

EdgeNext ==
    \/ BkPart(BkNext) \/ DpPart(DpNext) \/ NetPart(NetNext)
    \/ MeshPart(MeshNext) \/ ConPart(ConNext) \/ MuxPart(MuxNext) \/ RpPart(RpNext)

(* The fairness of each module, for the part that runs: its fair actions    *)
(* are numbered, and the actions of one number share a condition, of which  *)
(* a behaviour has at most one.                                             *)
BkAgentSeq == SetToSeq(BkAgents)
BkHostSeq == SetToSeq(BkHosts)
DpConnSeq == SetToSeq(DpConns)
MeshNodeSeq == SetToSeq(MeshNodes)
ConNodeSeq == SetToSeq(ConNodes)

BkFair(i) ==
    \/ i \in 1..3 /\ tickBeat(BkAgentSeq[i])
    \/ i \in 4..6 /\ ReceiveLate(BkAgentSeq[i - 3])
    \/ i \in 7..8 /\ probeDue(BkHostSeq[i - 6])
    \/ i = 9 /\ reconcilePublished

DpFair(i) ==
    \/ i \in 1..2 /\ DpHandler(DpConnSeq[i])
    \/ i \in 3..4 /\ DpCopy(DpConnSeq[i - 2], "client")
    \/ i \in 5..6 /\ DpCopy(DpConnSeq[i - 4], "guest")

NetFair(i) == \E id \in NetIds : (i = 1 /\ NetStep(id)) \/ (i = 2 /\ ReleaseSession(id))

MeshFair(i) ==
    (i \in 1..4 /\ BeatWireGuard(MeshNodeSeq[i], TRUE)) \/ (i \in 5..8 /\ ApplyLate(MeshNodeSeq[i - 4]))

ConFair(i) ==
    \/ i = 1 /\ (ConsoleIssueToken \/ ConsoleStream)
    \/ i = 2 /\ (WriterTakes \/ WriterSignalled \/ WriterWrites \/ WriterFails \/ WriterLeaves)
    \/ i = 3 /\ AgentDelivers
    \/ i = 4 /\ BridgeNotices
    \/ i = 5 /\ (decideReattach \/ PollOwner)
    \/ i = 6 /\ EndMove
    \/ i = 7 /\ ReaderEnds
    \/ i = 8 /\ conOwner # conCur /\ UpstreamBreaks
    \/ i \in 9..10 /\ AgentReleases(ConNodeSeq[i - 8])

MuxFair(i) ==
    \E f \in MuxFollowers :
      \/ i = 1 /\ MuxStep
      \/ i = 2 /\ CloseWaitsBackground
      \/ i = 3 /\ (readTailLines(f) \/ streamHistoryThenAttach(f))
      \/ i = 4 /\ streamLogs(f)

RpFair(i) == (i = 1 /\ RpBootStep) \/ (i = 2 /\ RpCommand) \/ (i = 3 /\ TryPromoteLearners)

EdgeFair(i) ==
    \/ BkPart(BkFair(i)) \/ DpPart(DpFair(i)) \/ NetPart(NetFair(i))
    \/ MeshPart(MeshFair(i)) \/ ConPart(ConFair(i)) \/ MuxPart(MuxFair(i)) \/ RpPart(RpFair(i))

EdgeFairness ==
    /\ \A i \in 1..10 : WF_edgeVars(EdgeFair(i))
    /\ SF_edgeVars(RpPart(runJoinCmd)) /\ SF_edgeVars(RpPart(CleanUp))

EdgeSpec == EdgeInit /\ [][EdgeNext]_edgeVars /\ EdgeFairness
=============================================================================
