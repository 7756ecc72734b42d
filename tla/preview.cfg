\* Six frames, three for each buffer, taken, delivered and read at any pace, on a page that is
\* left before or after its file was received.
SPECIFICATION Spec
CONSTANTS
  MaxFrames = 6
INVARIANTS
  DoubleBuffered
  NothingBehindStop
\* The preview ends when the page is left.
CHECK_DEADLOCK FALSE
