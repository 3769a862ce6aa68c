SPECIFICATION RpSpec
CONSTANTS
  RpStartedSingle = TRUE
  MaxRpCrashes = 1
  MaxRpFaults = 1
PROPERTIES
  JoinTakesEffect
CHECK_DEADLOCK FALSE
