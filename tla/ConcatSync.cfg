\* The long chapters: FFmpeg's timeline against that of the telemetry.
SPECIFICATION Spec
CONSTANTS
  ChapterCount = 3
  Longest = 2
  Recordings <- LongRecordings
INVARIANTS
  ShownOnTime
