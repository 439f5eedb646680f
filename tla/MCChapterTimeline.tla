------------------------- MODULE MCChapterTimeline -------------------------
(* Short recordings: three chapters of one or two units.  The GPS stream   *)
(* is arbitrary, and can go on behind the end of a short chapter; the      *)
(* others have a sample at both ends of every chapter and no samples.      *)
(* Long ones: chapters of 17 minutes, 9 minutes and the like, in           *)
(* milliseconds, with samples at their beginnings and ends.                *)
EXTENDS ConcatManifest

CONSTANT Longest  \* samples in a short chapter's GPS stream

Times == 0 .. 2
Gps == UNION {[1 .. n -> Times] : n \in 0 .. Longest}

ShortRecordings ==
  {[duration |-> d,
    samples |-> [c \in Chapters |-> <<g[c], <<0, d[c]>>, << >> >>],
    matches |-> [c \in Chapters |-> c < ChapterCount \/ m]] :
   d \in [Chapters -> 1 .. 2], g \in [Chapters -> Gps], m \in BOOLEAN}

Durations == {1061060, 1061064, 1061066, 531531, 999999}

LongRecordings ==
  {[duration |-> d,
    samples |-> [c \in Chapters |-> <<<<0, d[c]>>, << >>, << >>>>],
    matches |-> [c \in Chapters |-> TRUE]] : d \in [Chapters -> Durations]}

AllRecordings == ShortRecordings \cup LongRecordings
=============================================================================
