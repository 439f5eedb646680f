\* As on POSIX: three sink calls of two bytes through pipes of two bytes, and a
\* child that can write two bytes more than limit and pipe together hold.
SPECIFICATION WindowsFairSpec
CONSTANTS
  Pieces = 3
  PieceSize = 2
  PipeSize = 2
  OutputBound = 5
  kMaximumCapturedOutputBytes = 1
INVARIANTS
  JobContains
PROPERTIES
  ImplementsCall
  WindowsReturns
