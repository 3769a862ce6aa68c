SPECIFICATION EdgeSpec
CONSTANTS
  EdgeParts = {"backends", "datapath", "net", "mesh", "console", "mux", "replica"}
  BkLbs = {l1, l2}
  BkPorts = {p80}
  BkVms = {v1}
  BkHosts = {h1, h2}
  BkGateway = gw
  NoBk = NoBk
  HealthyThreshold = 1
  UnhealthyThreshold = 2
  MaxBkChanges = 2
  MaxBkFaults = 1
  DpConns = {"c", "d"}
  DpPublished = {"c"}
  DpVms = {"v"}
  PerKeyCap = 1
  TotalCap = 2
  MaxPeerEvents = 3
  NetIds = {"n"}
  NetBridges = {"x", "y"}
  NetSubnets = {"s", "t"}
  NetVteps = {"v", "w"}
  NetMacs = {"m"}
  FloodMac = "00"
  NoNet = NoNet
  HostsVMs = TRUE
  NetFaultOps <- MCNetOps
  MaxNetChanges = 3
  MaxNetFaults = 1
  MeshNodes = {"a", "b", "g", "h"}
  MeshRank <- MCRank
  MeshPublic = {"g", "h"}
  MeshGateways = {"g", "h"}
  MeshVms = {"v"}
  MeshKeys = {"k1", "k2"}
  NoMesh = NoMesh
  MeshCapacity = 9
  MaxMeshEvents = 1
  ConNodes = {"m", "n"}
  ConBufLimit = 2
  ConWindow = 1
  MaxTyped = 3
  MaxConMoves = 2
  MaxConBreaks = 1
  MuxFollowers = {"f"}
  MuxCapacity = 1
  RotationThreshold = 2
  MaxChunks = 4
  MaxReconnects = 1
  RpStartedSingle = FALSE
  MaxRpCrashes = 2
  MaxRpFaults = 2
INVARIANTS LogsAccounted
PROPERTIES
  
  KillImpliesTeardown
  
  
  
  JoinTakesEffect
CHECK_DEADLOCK FALSE
