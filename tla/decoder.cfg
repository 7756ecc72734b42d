\* An overhead of two, as in this program, that may later be raised, beyond the cap; packets
\* of one and of two symbols.
SPECIFICATION FairSpec
CONSTANTS
  K = 4
  NumRepairSymbols = 5
  Singular <- MCSingular
  InitialOverhead = 2
  Overheads = {9}
  MaxRepairSymbols = 4
  MaxSymbolsPerPacket = 2
INVARIANTS
  TypeOK
  NothingPending
  DecodedIsComplete
  FailureIsCurrent
PROPERTIES
  NeverForgets
  EventuallyDecoded
