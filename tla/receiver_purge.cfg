\* What DeleteEmptyFile is said to do.
SPECIFICATION Spec
CONSTANTS
  K = 2
  NumRepairSymbols = 2
  Singular <- AlwaysSolvable
  f1 = f1
  f2 = f2
  junk = junk
  Files = {f1}
  Junk = junk
  Oti <- OneOti
  NULL = NULL
  MaxSessions = 2
  MaxCrashes = 1
  MaxLeftover = 0
  MaxFaults = 0
PROPERTY
  StartupPurgesEmptyRows
CHECK_DEADLOCK FALSE
