\* A kill while the zip takes the place of the log.
SPECIFICATION Spec
CONSTANTS
  K = 2
  NumRepairSymbols = 2
  Singular <- AlwaysSolvable
  f1 = f1
  f2 = f2
  junk = junk
  Files = {f1}
  Junk = junk
  Oti <- OneOti
  NULL = NULL
  MaxSessions = 3
  MaxCrashes = 2
  MaxLeftover = 0
  MaxFaults = 0
INVARIANT
  ResumeReadsEveryRecord
CHECK_DEADLOCK FALSE
