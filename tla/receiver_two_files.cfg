\* Two senders with different FEC parameters, a kill anywhere, and one code of the other
\* sender or one failure anywhere; the last visit is left alone.
SPECIFICATION FairSpec
CONSTANTS
  K = 2
  NumRepairSymbols = 2
  Singular <- AlwaysSolvable
  f1 = f1
  f2 = f2
  junk = junk
  Files = {f1, f2}
  Junk = junk
  Oti <- TwoOtis
  NULL = NULL
  MaxSessions = 2
  MaxCrashes = 1
  MaxLeftover = 0
  MaxFaults = 1
INVARIANT
  UnzipsWholeFiles
PROPERTY
  EventuallyReceived
\* The bounds on visits and kills end every behaviour.
CHECK_DEADLOCK FALSE
