SPECIFICATION SiteSpec
CONSTANTS
  SiteParts = {"infra", "balancer", "joining", "agent"}
  Res = {r1, r2}
  Names = {n1, n2}
  Refs = {x1}
  Callers = {c1, c2}
  NoRes = NoRes
  MaxIntents = 1
  MaxCrashes = 1
  LbIds = {1, 2}
  LbNames = {"la", "lb"}
  LbPorts = {80}
  LbCalls = {"q1", "q2"}
  NoLb = NoLb
  LbUpdateAttempts = 2
  MaxLbRequests = 3
  MaxLbEvents = 1
  JnNames = {"n1", "n2"}
  JnTokens = {"ta", "tc"}
  JnKind <- MCKind
  JnMaxUses <- MCMaxUses
  JnCalls = {"c1", "c2"}
  NoJn = NoJn
  JnRetries = 2
  MaxJoins = 3
  MaxJnFaults = 1
  AmVms = {1, 2}
  AmCalls = {"c1", "c2"}
  MaxAmOps = 3
  MaxAmRestarts = 1
  MaxAmFaults = 1
SYMMETRY SiteSymmetry
INVARIANTS LbNamesResolve UsesExact NoDiskUnderGuest StoppedIsDown
PROPERTIES NeverDeletedInUse
CHECK_DEADLOCK FALSE
