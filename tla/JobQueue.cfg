SPECIFICATION FairSpec
CONSTANTS
    j1 = j1
    r1 = r1
    r2 = r2
    d1 = d1
    d2 = d2
    Jobs = {j1}
    Replicas = {r1, r2}
    Deliveries = {d1, d2}
    NoDelivery = NoDelivery
    NoJob = NoJob
    NoReplica = NoReplica
    MaxAttempts = 2
    MaxConcurrent = 1
    FenceRetries = 3
    MaxFaults = 2
INVARIANTS
    NothingLost
    NoDoubleRunWithoutStall
PROPERTIES
    EventuallyResolved
