SPECIFICATION AccessSpec
CONSTANTS
  SessCalls = {c1, c2, c3}
  MaxTokens = 3
  IdemCalls = {c1, c2, c3}
  IdemBodies = {b1, b2}
  MaxFaults = 2
  UserIds = {u1, u2}
  UserNames = {n1}
  UserEmails = {e1}
  UserCalls = {c1, c2, c3}
  BootName = n1
  ListIds = {1, 2, 3}
  ListTimes = {1, 2}
  ListLimits = {1, 2}
  MaxChurn = 2
SYMMETRY AccessSymmetry
INVARIANTS
  FamilySound
  IdemExactlyOnce
  HandlesFreed
  
PROPERTIES
  LoginKeepsAdminWrite
CHECK_DEADLOCK FALSE
