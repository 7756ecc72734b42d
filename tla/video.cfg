\* Two videos in one process, of zips with one source block and with two, of which the second
\* is the shorter; up to four failures, as many as it takes until frames are repeated at the
\* end of a video.
SPECIFICATION Spec
CONSTANTS
  Lengths = {1, 5}
  T = 1
  KMax = 3
  StartRange = 5
  Probe = 2
  Delay = 2
  MaxVideos = 2
  MaxFaults = 4
INVARIANTS
  TypeOK
  ShownInPlace
  LastBlockShown
  BlamesOwnErrors
\* The process stops when it has crashed, and when it has made its videos.
CHECK_DEADLOCK FALSE
