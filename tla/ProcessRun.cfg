\* Three sink calls of two bytes through pipes of two bytes; the child can write
\* four bytes more than the limit and two than limit and pipe together.
SPECIFICATION FairSpec
CONSTANTS
  Pieces = 3
  PieceSize = 2
  PipeSize = 2
  OutputBound = 5
  kMaximumCapturedOutputBytes = 1
INVARIANTS
  OurChild
  NothingLeftBehind
  SigpipeContained
  HonestResult
PROPERTIES
  ImplementsCall
  FailureEndsTheCall
  EventuallyReturns
