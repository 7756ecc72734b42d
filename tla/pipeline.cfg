\* Two visits of the page, one packet on its way at a time.
SPECIFICATION Spec
CONSTANTS
  K = 2
  NumRepairSymbols = 3
  Singular = {{0, 2, 3, 4}}
  MaxVisits = 2
  MaxQueue = 1
INVARIANTS
  TypeOK
  NoCrashOnUndisturbedPage
  OneReceiver
CHECK_DEADLOCK FALSE
