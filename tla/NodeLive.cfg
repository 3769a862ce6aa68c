SPECIFICATION FairSpec
CONSTANTS
    n1 = n1
    n2 = n2
    v1 = v1
    t1 = t1
    t2 = t2
    c1 = c1
    c2 = c2
    r1 = r1
    r2 = r2
    d1 = d1
    d2 = d2
    NoNode = NoNode
    NoTask = NoTask
    NoDelivery = NoDelivery
    Away = Away
    Nodes = {n1}
    VMs = {v1}
    Tasks = {t1}
    Callers = {c1}
    Sweepers = {r1}
    Backstops = {r1}
    Deliveries = {d1}
    Initial = {"pending", "gone"}
    Requests = {"drain", "uncordon", "cordon", "role"}
    MaxDrains = 1
    MaxMigrations = 1
    MaxAttempts = 1
    MaxOps = 1
    MaxFaults = 1

    
PROPERTIES
    DrainEnds
CHECK_DEADLOCK FALSE
