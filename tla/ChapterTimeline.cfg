\* Three chapters with up to two GPS samples each, in any order: enough for a
\* sample at, before and behind both ends of the chapter in the middle.  And
\* three chapters whose durations have up to seven digits.
SPECIFICATION Spec
CONSTANTS
  ChapterCount = 3
  Longest = 2
  Recordings <- AllRecordings
INVARIANTS
  OnOneTimeline
  NoFalseAlarm
  NothingLost
  ShownAlmostOnTime
