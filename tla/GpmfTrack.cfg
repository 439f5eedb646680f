\* A file of twelve units, just enough for a track with a description and a
\* table behind or inside another box, and two levels of boxes.
SPECIFICATION Spec
CONSTANTS
  FileSize = 12
  MaximumDepth = 2
  OtherTables = {"stsz"}
  Headers <- MCHeaders
INVARIANTS
  StaysInside
  OneTrack
  Agreement
PROPERTY
  Onward
