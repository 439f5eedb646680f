\* Arrows that fit inside the track square: repainting by regions and drawing
\* in order alternate, and the buffer always equals the reference picture.
SPECIFICATION Spec
CONSTANTS
  Columns = 14
  track_size = 12
  arrow_size = 3
  ArrowXs <- MCInnerXs
  Snapshots = {0, 1, 2}
  f1 = f1
  f2 = f2
  f3 = f3
  f4 = f4
  WideTexts = {"extreme"}
  Forces <- MCForces
  Magnitude <- MCMagnitude
  Speeds = {7, 8}
  None = None
INVARIANTS
  CachedIsReference
