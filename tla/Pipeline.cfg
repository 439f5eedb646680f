\* Two workers and slots, six frames: the ring wraps twice, a worker can be a
\* frame ahead of the one that is due, and both can wait for room at once.
SPECIFICATION FairSpec
CONSTANTS
  Workers = {w1, w2}
  Writer = writer
  None = None
  frame_count = 6
  ExploredPoints <- MCExploredPoints
INVARIANTS
  SlotOwnership
  TrackInFrameOrder
  NoLostWakeup
PROPERTIES
  ImplementsStream
  EventuallyReturns
