SPECIFICATION Spec
CONSTANTS
    n1 = n1
    n2 = n2
    v1 = v1
    t1 = t1
    t2 = t2
    c1 = c1
    c2 = c2
    r1 = r1
    r2 = r2
    d1 = d1
    d2 = d2
    NoNode = NoNode
    NoTask = NoTask
    NoDelivery = NoDelivery
    Away = Away
    Nodes = {n1}
    VMs = {}
    Tasks = {t1, t2}
    Callers = {c1}
    Sweepers = {}
    Backstops = {r1}
    Deliveries = {d1, d2}
    Initial = {"ready"}
    Requests = {"drain", "cancel", "delete"}
    MaxDrains = 1
    MaxMigrations = 1
    MaxAttempts = 2
    MaxOps = 2
    MaxFaults = 1
SYMMETRY Symmetry
PROPERTIES
    DrainEndsWithTask
CHECK_DEADLOCK FALSE
