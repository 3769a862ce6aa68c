SPECIFICATION FairSpec
CONSTANTS
    n1 = n1
    n2 = n2
    n3 = n3
    h1 = h1
    h2 = h2
    NoVM = NoVM
    NoNode = NoNode
    NoRow = NoRow
    NoRuntime = NoRuntime
    VMs = {v1}
    Nodes = {n1, n2, n3}
    Hosts = {h1, h2}
    Founders = {n1, n2}
    Deleters = {d1}
    HostOf <- TwoHosts
    MaxBinds = 2
    MaxLifecycle = 1
    MaxRemovals = 1
    MaxFaults = 1
    MaxEvents = 2
INVARIANTS
    
    NotStranded
PROPERTIES
    LastCopyKept
    DeletedReclaimed
CHECK_DEADLOCK FALSE
