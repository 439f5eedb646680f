\* Two runs to one path, two frames, a pipe of one: the second run can pass its
\* check before or after the first creates the file.
SPECIFICATION FairSpec
CONSTANTS
  r1 = r1
  r2 = r2
  Runs <- MCRuns
  Joined <- MCJoined
  frame_count = 2
  PipeFrames = 1
  Nobody = Nobody
  Someone = Someone
INVARIANTS
  SuccessMeansComplete
  ManifestLifetime
PROPERTIES
  NeverOverwritten
  NothingLingers
