\* A file of one source symbol, three visits, two kills anywhere, one thing that fails: the
\* log of a resumed reception may decode the block by itself.
SPECIFICATION Spec
CONSTANTS
  K = 1
  NumRepairSymbols = 3
  Singular <- AlwaysSolvable
  f1 = f1
  f2 = f2
  junk = junk
  Files = {f1}
  Junk = junk
  Oti <- OneOti
  NULL = NULL
  MaxSessions = 3
  MaxCrashes = 2
  MaxLeftover = 0
  MaxFaults = 1
INVARIANTS
  UnzipsWholeFiles
  HandedOverOnce
PROPERTIES
  NoUncaughtException
  CompletedIsFinal
CHECK_DEADLOCK FALSE
