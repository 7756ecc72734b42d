\* One visit, two packets on their way, so that a finish signal can overtake one.
SPECIFICATION FairSpec
CONSTANTS
  K = 2
  NumRepairSymbols = 3
  Singular = {{0, 2, 3, 4}}
  MaxVisits = 1
  MaxQueue = 2
PROPERTIES
  EventuallyAnnounced
CHECK_DEADLOCK FALSE
