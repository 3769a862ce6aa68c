SPECIFICATION MCFairSpec
CONSTANTS
    d1 = d1
    d2 = d2
    Snaps <- MCSnaps
    Digests <- MCDigests
    ANodes <- MCNodes
    SnapNames <- MCNames
    m1 = m1
    m2 = m2
    NoSnap = NoSnap
    NoBlob = NoBlob
    NoTask = NoTask
    MaxSnapAttempts = 2
    MaxAgentTasks = 4
    MaxSnapEvents = 1
    Replicas = {r1}
    HRW <- MCHRW
    Factor <- MCFactor
    Members <- MCMembers
    NoPass = NoPass
    Parts = {"snapshots", "durability", "serve"}
    Pulls <- MCPulls
    Ports <- MCPorts
    NoPull = NoPull
    NoPort = NoPort
    MaxLosses = 1
    MaxDurFaults = 1
INVARIANTS
    
    
    NothingLeft

    
CHECK_DEADLOCK FALSE
