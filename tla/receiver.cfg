\* One file of two source symbols, two visits, a kill anywhere, one thing that fails and one
\* singular set; three repair symbols, so that a block can be decoded from repairs.
SPECIFICATION Spec
CONSTANTS
  K = 2
  NumRepairSymbols = 3
  Singular <- OneBadSet
  f1 = f1
  f2 = f2
  junk = junk
  Files = {f1}
  Junk = junk
  Oti <- OneOti
  NULL = NULL
  MaxSessions = 2
  MaxCrashes = 1
  MaxLeftover = 1
  MaxFaults = 1
INVARIANTS
  TypeOK
  ProgressIsReal
  CountedIsSaved
PROPERTIES
  NoUncaughtException
  RefinesTransfer
CHECK_DEADLOCK FALSE
