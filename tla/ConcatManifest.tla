--------------------------- MODULE ConcatManifest ---------------------------
(***************************************************************************)
(* Where FFmpeg shows the chapters whose telemetry ChapterTimeline joins.  *)
(* WriteConcatManifest (src/src/ffmpeg/video_encoder.cc:60-90) lists each  *)
(* chapter with its duration, and FFmpeg's concat demuxer, which is        *)
(* external, starts a chapter at the sum of the durations listed before    *)
(* it.  Number (video_encoder.cc:37-39) writes a duration by absl::StrCat, *)
(* that is with six significant digits.                                    *)
(*                                                                         *)
(* The unit of time is a millisecond, and a chapter is below ten thousand  *)
(* seconds.                                                                *)
(***************************************************************************)
EXTENDS ChapterTimeline

ASSUME DurationAssumption ==
  \A r \in Recordings : \A c \in Chapters : r.duration[c] < 10000000

\* What the last of six digits is worth.
Grain(t) == IF t < 1000000 THEN 1 ELSE 10

\* Mutant: rounded to five digits.
FiveDigits(t) ==
  LET g == 10 * Grain(t) IN ((2 * t + g) \div (2 * g)) * g

Number(t) == LET g == Grain(t) IN ((2 * t + g) \div (2 * g)) * g

\* Where FFmpeg starts a chapter.
Shown(c) ==
  LET behind[d \in 0 .. ChapterCount] ==
        IF d = 0 THEN 0 ELSE behind[d - 1] + Number(recording.duration[d])
  IN  behind[c - 1]

\* Several chapters are treated as one continuous recording, their telemetry
\* and durations combined into a single timeline (README.md:448, 478-479): what
\* FFmpeg shows at the time of a joined sample is what was recorded then.
ShownOnTime ==
  stage = "combined" =>
    \A s \in Streams : \A k \in 1 .. Len(combined[s]) :
      LET entry == combined[s][k]
      IN entry.time = Shown(entry.chapter) +
           recording.samples[entry.chapter][s][entry.sample]

\* What is off is at most five milliseconds for each chapter before.
ShownAlmostOnTime ==
  stage = "combined" =>
    \A s \in Streams : \A k \in 1 .. Len(combined[s]) :
      LET entry == combined[s][k]
          shown == Shown(entry.chapter) +
            recording.samples[entry.chapter][s][entry.sample]
          bound == 5 * (entry.chapter - 1)
      IN entry.time - shown \in -bound .. bound
=============================================================================
