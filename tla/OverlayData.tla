---------------------------- MODULE OverlayData ----------------------------
(***************************************************************************)
(* What the overlay draws: the track and the course made of the GPS        *)
(* samples (BuildOverlayDataImpl, src/src/overlay/overlay_data.cc:131-262) *)
(* and the values of one frame (SampleOverlayFrame, 274-344).              *)
(*                                                                         *)
(* Time is counted in ticks, places in degrees of longitude and latitude,  *)
(* and the plane is taken as flat: distances are compared by their         *)
(* squares.  A course is one of eight: the code's angle, rounded to the    *)
(* diagonal when it is oblique.  Speed, altitude and g-force are           *)
(* interpolated as the latitude is and left out, and so is the affine map  *)
(* of the track into the unit square.                                      *)
(***************************************************************************)
EXTENDS Integers, Sequences, FiniteSets, FiniteSetsExt

CONSTANTS
  MaxSamples,            \* bound on the GPS samples
  Times,                 \* their timestamps, and those of frames
  Places,                \* where they may be
  Ranges,                \* the ranges that may be asked for
  MaximumSegmentSpeed,   \* kMaximumPlausibleSegmentSpeedMetersPerSecond
  MinimumBaseline,       \* kMinimumHeadingBaselineMeters
  Eighth                 \* units of angle in an eighth of a turn

Place == [longitude : -180 .. 180, latitude : -90 .. 90]

\* Stands for the samples with a value that is not finite or out of bounds.
Unusable == [timestamp |-> 0, place |-> [longitude |-> 181, latitude |-> 0]]
NoFrame == [timestamp |-> -1, heading |-> 0, explored |-> 0]
WholeTrack == [start |-> -1, end |-> -1]

ASSUME OverlayDataAssumption ==
  /\ MaxSamples \in Nat /\ MaximumSegmentSpeed \in Nat
  /\ MinimumBaseline \in Nat \ {0}
  /\ Times \subseteq Nat /\ Places \subseteq Place
  /\ Ranges \subseteq [start : Nat, end : Nat] \cup {WholeTrack}

\* The times at which a point of the track may be.
Moments ==
  Times \cup UNION {{r.start, r.end} : r \in Ranges \ {WholeTrack}}

\* The unit of angle is fine enough that a course interpolated between two of
\* the eight, at a whole tick, is a whole number of units.
ASSUME AngleAssumption ==
  /\ Eighth \in Nat \ {0}
  /\ \A s, t \in Moments : s < t => Eighth % (t - s) = 0

VARIABLES
  stage,         \* filter, project, navigate, frames, or failed
  given,         \* the GPS samples read so far
  valid,         \* those that are kept
  range,         \* what is asked for
  track,         \* the points, with the distance east of the first
  navigation,    \* the course at each of them
  heading_target,
  sampled        \* the latest frame's values

data_vars == <<stage, given, valid, range, track, navigation, heading_target,
             sampled>>

DataInit ==
  /\ stage = "filter" /\ given = << >> /\ valid = << >>
  /\ range = WholeTrack /\ track = << >> /\ navigation = << >>
  /\ heading_target = 2 /\ sampled = NoFrame
-----------------------------------------------------------------------------
\* The way east from one longitude to another, the shorter way round.
ShortWay(difference) ==
  IF difference > 180 THEN difference - 360
  ELSE IF difference < -180 THEN difference + 360 ELSE difference

Squared(x) == x * x

GeographicDistance2(p, q) ==
  Squared(ShortWay(q.longitude - p.longitude)) + Squared(q.latitude - p.latitude)

Plausible(first, second) ==
  GeographicDistance2(first.place, second.place)
    <= Squared(MaximumSegmentSpeed * (second.timestamp - first.timestamp))

\* One iteration of the loop over telemetry.gps.
Read(sample) ==
  /\ stage = "filter" /\ Len(given) < MaxSamples
  /\ given' = Append(given, sample)
  /\ UNCHANGED <<range, track, navigation, heading_target, sampled>>

Ordered(sample) ==
  valid # << >> => valid[Len(valid)].timestamp < sample.timestamp

\* Mutant: compared with the latest sample, whether it was kept or not.
FollowsLatest(sample) == given # << >> => Plausible(given[Len(given)], sample)

Follows(sample) == valid # << >> => Plausible(valid[Len(valid)], sample)

SkipUnusable == Read(Unusable) /\ UNCHANGED <<stage, valid>>

NotIncreasing(sample) ==
  Read(sample) /\ ~Ordered(sample) /\ stage' = "failed" /\ UNCHANGED valid

SkipImplausible(sample) ==
  /\ Read(sample) /\ Ordered(sample) /\ ~Follows(sample)
  /\ UNCHANGED <<stage, valid>>

Keep(sample) ==
  /\ Read(sample) /\ Ordered(sample) /\ Follows(sample)
  /\ valid' = Append(valid, sample) /\ UNCHANGED stage

EndOfGps ==
  /\ stage = "filter"
  /\ stage' = IF Len(valid) < 2 THEN "failed" ELSE "project"
  /\ UNCHANGED <<given, valid, range, track, navigation, heading_target,
                 sampled>>
-----------------------------------------------------------------------------
\* UpperSampleIndex: how many of the samples are at or before the time.
UpperIndex(samples, time) ==
  Cardinality({i \in DOMAIN samples : samples[i].timestamp <= time})

Between(first, second, time, way) ==
  (way * (time - first.timestamp)) \div (second.timestamp - first.timestamp)

InterpolateGps(first, second, time) ==
  LET p == first.place
      q == second.place
      east == Between(first, second, time, ShortWay(q.longitude - p.longitude))
  IN  [timestamp |-> time,
       place |->
         [longitude |-> ShortWay(p.longitude + east),
          latitude |-> p.latitude
            + Between(first, second, time, q.latitude - p.latitude)]]

BeforeIndex(samples, time) ==
  Cardinality({i \in DOMAIN samples : samples[i].timestamp < time})

\* lower_bound: the first sample that is not before the time.
SampleAt(time) ==
  LET upper == BeforeIndex(valid, time) + 1
  IN  IF valid[upper].timestamp = time THEN valid[upper]
      ELSE InterpolateGps(valid[upper - 1], valid[upper], time)

Start(r) == Max({r.start, valid[1].timestamp})
End(r) == Min({r.end, valid[Len(valid)].timestamp})

\* Times increase, so the samples inside are next to each other.
Inside(r) ==
  SubSeq(valid, UpperIndex(valid, Start(r)) + 1, BeforeIndex(valid, End(r)))

Clipped(r) ==
  IF r = WholeTrack THEN valid
  ELSE <<SampleAt(Start(r))>> \o Inside(r) \o <<SampleAt(End(r))>>

\* Mutant: the jump of the longitude is a way across the map.
ProjectedStraight(samples) ==
  [i \in DOMAIN samples |->
    [timestamp |-> samples[i].timestamp,
     x |-> samples[i].place.longitude - samples[1].place.longitude,
     y |-> samples[i].place.latitude]]

Projected(samples) ==
  [i \in DOMAIN samples |->
    [timestamp |-> samples[i].timestamp,
     x |-> ShortWay(samples[i].place.longitude - samples[1].place.longitude),
     y |-> samples[i].place.latitude]]

Drawable(points) ==
  \E i \in DOMAIN points :
    points[i].x # points[1].x \/ points[i].y # points[1].y

NoOverlap(r) ==
  /\ stage = "project" /\ r # WholeTrack /\ End(r) <= Start(r)
  /\ stage' = "failed" /\ range' = r
  /\ UNCHANGED <<given, valid, track, navigation, heading_target, sampled>>

Project(r) ==
  /\ stage = "project" /\ (r = WholeTrack \/ End(r) > Start(r))
  /\ range' = r
  /\ LET points == Projected(Clipped(r)) IN
       IF Drawable(points) THEN stage' = "navigate" /\ track' = points
                           ELSE stage' = "failed" /\ UNCHANGED track
  /\ UNCHANGED <<given, valid, navigation, heading_target, sampled>>
-----------------------------------------------------------------------------
\* 360 and 180 degrees.
FullTurn == 8 * Eighth
HalfTurn == 4 * Eighth

Distance2(p, q) == Squared(q.x - p.x) + Squared(q.y - p.y)

HeadingDegrees(p, q) ==
  Eighth *
    CASE q.x = p.x /\ q.y >= p.y -> 0
      [] q.x > p.x /\ q.y > p.y -> 1
      [] q.x > p.x /\ q.y = p.y -> 2
      [] q.x > p.x /\ q.y < p.y -> 3
      [] q.x = p.x /\ q.y < p.y -> 4
      [] q.x < p.x /\ q.y < p.y -> 5
      [] q.x < p.x /\ q.y = p.y -> 6
      [] q.x < p.x /\ q.y > p.y -> 7

\* The first point, from where the search has got to, that is far enough.
Target(point) ==
  LET from == Max({heading_target, point + 1})
  IN  Min({Len(track) + 1} \cup
          {j \in from .. Len(track) :
             Distance2(track[point], track[j]) >= Squared(MinimumBaseline)})

\* Mutant: without a target the course is north.
Northwards == 0

LastHeading ==
  IF navigation = << >> THEN 0 ELSE navigation[Len(navigation)].heading

\* One iteration of the loop over projected.
AddNavigation ==
  LET point == Len(navigation) + 1
      target == Target(point)
  IN  /\ stage = "navigate" /\ point <= Len(track)
      /\ heading_target' = target
      /\ navigation' = Append(navigation,
           [timestamp |-> track[point].timestamp,
            heading |-> IF target <= Len(track)
                        THEN HeadingDegrees(track[point], track[target])
                        ELSE LastHeading])
      /\ UNCHANGED <<stage, given, valid, range, track, sampled>>

Built ==
  /\ stage = "navigate" /\ Len(navigation) = Len(track)
  /\ stage' = "frames"
  /\ UNCHANGED <<given, valid, range, track, navigation, heading_target,
                 sampled>>
-----------------------------------------------------------------------------
\* fmod takes the sign of its first argument.
Fmod(a, b) == IF a < 0 THEN -((-a) % b) ELSE a % b

\* Mutant: headings are interpolated like any other number.
InterpolatePlainly(first, second, time) ==
  first.heading + Between(first, second, time, second.heading - first.heading)

InterpolateHeading(first, second, time) ==
  LET difference ==
        Fmod(second.heading - first.heading + FullTurn + HalfTurn, FullTurn)
          - HalfTurn
      result ==
        Fmod(first.heading + Between(first, second, time, difference), FullTurn)
  IN  IF result < 0 THEN result + FullTurn ELSE result

\* The course that is drawn: held before the first sample and from the last.
FrameHeading(time) ==
  LET upper == UpperIndex(navigation, time)
  IN  IF upper = 0 THEN navigation[1].heading
      ELSE IF upper = Len(navigation) THEN navigation[upper].heading
      ELSE InterpolateHeading(navigation[upper], navigation[upper + 1], time)

\* Telemetry without g-forces fails at its first frame.
NoGForce ==
  /\ stage = "frames" /\ sampled = NoFrame /\ stage' = "failed"
  /\ UNCHANGED <<given, valid, range, track, navigation, heading_target,
                 sampled>>

\* Frames are sampled at ever later times.
SampleOverlayFrame(time) ==
  /\ stage = "frames" /\ time > sampled.timestamp
  /\ sampled' = [timestamp |-> time, heading |-> FrameHeading(time),
               explored |-> UpperIndex(track, time)]
  /\ UNCHANGED <<stage, given, valid, range, track, navigation,
                 heading_target>>

Finished == stage \in {"failed", "frames"} /\ UNCHANGED data_vars

Sample == [timestamp : Times, place : Places]

DataNext ==
  \/ SkipUnusable
  \/ \E sample \in Sample :
       NotIncreasing(sample) \/ SkipImplausible(sample) \/ Keep(sample)
  \/ EndOfGps
  \/ \E r \in Ranges : NoOverlap(r) \/ Project(r)
  \/ AddNavigation \/ Built \/ NoGForce
  \/ \E time \in Times : SampleOverlayFrame(time)
  \/ Finished

DataSpec == DataInit /\ [][DataNext]_data_vars
-----------------------------------------------------------------------------
(***************************************************************************)
(* Properties                                                              *)
(***************************************************************************)
\* Where the drive is at a time, east and north of its first kept sample:
\* the legs before it, each the shorter way round, and its part of this one.
East ==
  [k \in Nat |->
    IF k \in 1 .. Len(valid) - 1
    THEN ShortWay(valid[k + 1].place.longitude - valid[k].place.longitude)
    ELSE 0]

North ==
  [k \in Nat |->
    IF k \in 1 .. Len(valid) - 1
    THEN valid[k + 1].place.latitude - valid[k].place.latitude
    ELSE 0]

SumOf(legs) ==
  LET sum[k \in Nat] == IF k = 0 THEN 0 ELSE sum[k - 1] + legs[k] IN sum

Along(legs, time) ==
  LET k == UpperIndex(valid, time)
  IN  SumOf(legs)[k - 1]
        + IF k = Len(valid) THEN 0
          ELSE Between(valid[k], valid[k + 1], time, legs[k])

Drawn == stage \in {"navigate", "frames"}

\* What is drawn is the drive within the range, from end to end: every point
\* is where the drive was at its time, no kept sample in the range is missing,
\* times increase, and no line crosses the map where the longitude jumps from
\* 180 to -180 degrees, unless the drive is further from where the range
\* begins than half way round the world.
TrackIsTheDrive ==
  Drawn =>
    LET first == IF range = WholeTrack THEN valid[1].timestamp ELSE Start(range)
        last == IF range = WholeTrack THEN valid[Len(valid)].timestamp
                ELSE End(range)
    IN  /\ track[1].timestamp = first /\ track[Len(track)].timestamp = last
        /\ \A i \in 1 .. Len(track) - 1 :
             track[i].timestamp < track[i + 1].timestamp
        /\ \A i \in DOMAIN track :
             /\ LET x == Along(East, track[i].timestamp) - Along(East, first)
                IN  x \in -179 .. 179 => track[i].x = x
             /\ track[i].y - track[1].y
                  = Along(North, track[i].timestamp) - Along(North, first)
        /\ \A i \in DOMAIN valid :
             valid[i].timestamp \in first .. last
               => \E j \in DOMAIN track :
                    track[j].timestamp = valid[i].timestamp

Without(k) ==
  [i \in 1 .. Len(given) - 1 |-> IF i < k THEN given[i] ELSE given[i + 1]]

PlausibleDrive(samples) ==
  /\ Unusable \notin {samples[i] : i \in DOMAIN samples}
  /\ \A i \in 1 .. Len(samples) - 1 :
       /\ samples[i].timestamp < samples[i + 1].timestamp
       /\ Plausible(samples[i], samples[i + 1])

Stray(k) ==
  /\ given[k] # Unusable
  /\ given[k - 1].timestamp < given[k].timestamp
  /\ ~Plausible(given[k - 1], given[k])

\* A stray position after a good first one costs the track that sample and no
\* other: if the rest of the samples make a plausible drive, they are kept.
StrayFixCostsOnlyItself ==
  \A k \in 2 .. Len(given) :
    PlausibleDrive(Without(k)) /\ Stray(k) => valid = Without(k)

\* A course is measured to a later point at least the baseline away.  It is
\* only repeated once the end of the track is nearer than that to a point
\* already passed.
CourseIsMeasured ==
  \A i \in DOMAIN navigation :
    \/ \E j \in i + 1 .. Len(track) :
         /\ Distance2(track[i], track[j]) >= Squared(MinimumBaseline)
         /\ navigation[i].heading = HeadingDegrees(track[i], track[j])
    \/ /\ navigation[i].heading = IF i = 1 THEN 0 ELSE navigation[i - 1].heading
       /\ \E passed \in 1 .. i :
            Distance2(track[passed], track[Len(track)])
              < Squared(MinimumBaseline)

Turn(a, b) ==
  LET d == (b - a) % FullTurn IN IF d > HalfTurn THEN FullTurn - d ELSE d

\* In a frame the course turns evenly from that of the sample before to that
\* of the sample behind, by no more than half a turn, and is a direction.
CourseTurnsTheShortWay ==
  sampled # NoFrame =>
    /\ sampled.heading \in 0 .. FullTurn - 1
    /\ \A i \in 1 .. Len(navigation) - 1 :
         LET a == navigation[i]
             b == navigation[i + 1]
         IN  sampled.timestamp \in a.timestamp .. b.timestamp =>
               /\ Turn(a.heading, sampled.heading)
                    = Between(a, b, sampled.timestamp, Turn(a.heading, b.heading))
               /\ Turn(a.heading, b.heading)
                    = Turn(a.heading, sampled.heading)
                        + Turn(sampled.heading, b.heading)
=============================================================================
