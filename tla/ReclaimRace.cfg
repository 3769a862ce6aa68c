SPECIFICATION ArtFairSpec
CONSTANTS
    Snaps <- MCSnaps
    Digests = {d1}
    ANodes <- MCNodes
    SnapNames = {m1}
    NoSnap = NoSnap
    NoBlob = NoBlob
    NoTask = NoTask
    MaxSnapAttempts = 2
    MaxAgentTasks = 3
    MaxSnapEvents = 0
    Replicas = {r1}
    HRW <- MCHRW
    Factor <- MCFactor
    Members <- MCMembers
    NoPass = NoPass
    MaxLosses = 0
    MaxDurFaults = 0
PROPERTIES
    NeverDropsReferenced
CHECK_DEADLOCK FALSE
