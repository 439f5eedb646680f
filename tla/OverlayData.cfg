\* Up to four samples: enough for two good ones on either side of a stray one,
\* for a range that begins and ends between samples, and for a car that turns.
SPECIFICATION DataSpec
CONSTANTS
  MaxSamples = 4
  MaximumSegmentSpeed = 20
  MinimumBaseline = 15
  Eighth = 12
  Times <- MCTimes
  Places <- MCPlaces
  Ranges <- MCRanges
INVARIANTS
  TrackIsTheDrive
  StrayFixCostsOnlyItself
  CourseIsMeasured
  CourseTurnsTheShortWay
