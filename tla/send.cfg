\* Two visits that choose among two files, one whose path has no dot and one with a space in
\* it; liveness of the chain of threads, forwards and back.
SPECIFICATION FairSpec
CONSTANTS
  f1 = f1
  f2 = f2
  f3 = f3
  f4 = f4
  Files = {f1, f2, f3, f4}
  Dotless = {f3}
  Spaced = {f4}
  NoFile = NoFile
  MaxVisits = 2
INVARIANTS
  TypeOK
  CrashesOnlyWhenShared
  PlaysWholeFile
  FinishAfterPlayed
PROPERTY
  PhaseMovesOn
  EventuallyPlayed
  ThreadsEnd
\* The system stops when all threads have quit, when one waits for ever after a failure, or
\* when the process has ended.
CHECK_DEADLOCK FALSE
