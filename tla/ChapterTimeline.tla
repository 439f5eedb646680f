-------------------------- MODULE ChapterTimeline --------------------------
(***************************************************************************)
(* Joining the telemetry of consecutive chapters into one timeline:        *)
(* PrepareChapters and AppendSamples (src/src/common/run.cc:90-191).  Each *)
(* chapter's samples are shifted by the durations of the videos before it. *)
(* Where FFmpeg shows the chapters is the subject of ConcatManifest.       *)
(*                                                                         *)
(* Time is an integer.  ffprobe prints durations in microseconds, of which *)
(* absl::Duration holds every multiple exactly; the error of adding them   *)
(* as doubles is far below its resolution of a quarter nanosecond.  Of a   *)
(* sample only its timestamp matters here.                                 *)
(***************************************************************************)
EXTENDS Integers, Sequences

CONSTANTS
  ChapterCount,  \* chapters on the command line or in the input list
  Recordings     \* what can be in them

Chapters == 1 .. ChapterCount

\* GPS, acceleration and angular velocity, in the order they are joined.
Streams == 1 .. 3

Recording == [duration : [Chapters -> Nat \ {0}],
              samples : [Chapters -> [Streams -> Seq(Int)]],
              matches : [Chapters -> BOOLEAN]]

ASSUME ChapterAssumption ==
  /\ ChapterCount \in Nat \ {0}
  /\ Recordings \subseteq Recording

VARIABLES
  recording,     \* the chapters: durations, timestamps, and whether a chapter
                 \* has the first one's video properties and mounting
  stage,         \* scanning a chapter, appending its samples, or returned
  index,         \* the chapter
  stream,        \* the stream that is being appended
  position,      \* the sample of it that is next
  timeline,      \* timeline_seconds
  combined,      \* the joined samples; with each, where it came from
  starts         \* history: where on it each chapter starts

vars == <<recording, stage, index, stream, position, timeline, combined,
          starts>>

Returned == {"combined", "rejected", "not_increasing"}

Init ==
  /\ recording \in Recordings
  /\ stage = "scan" /\ index = 1 /\ stream = 1 /\ position = 1
  /\ timeline = 0
  /\ combined = [s \in Streams |-> << >>]
  /\ starts = <<0>>
-----------------------------------------------------------------------------
\* A chapter that can be read and matches the first.
Accept ==
  /\ stage = "scan" /\ index <= ChapterCount
  /\ index > 1 => recording.matches[index]
  /\ stage' = "append" /\ stream' = 1 /\ position' = 1
  /\ UNCHANGED <<recording, index, timeline, combined, starts>>

\* No such file, no telemetry, another codec, another mounting, ...
Reject ==
  /\ stage = "scan" /\ index <= ChapterCount
  /\ stage' = "rejected"
  /\ UNCHANGED <<recording, index, stream, position, timeline, combined,
                 starts>>
-----------------------------------------------------------------------------
(* AppendSamples, one sample at a time.                                    *)

Source == recording.samples[index][stream]
Destination == combined[stream]
LastTime(samples) == samples[Len(samples)].time
Adjusted == timeline + Source[position]

\* Mutant: telemetry that goes on after the video has ended is kept.
OnlyBefore == Source[position] < 0

\* Mutant: the end is exclusive.
OutsideOrEnd ==
  Source[position] < 0 \/ Source[position] >= recording.duration[index]

Outside == Source[position] < 0 \/ Source[position] > recording.duration[index]

Repeated == Destination # << >> /\ Adjusted = LastTime(Destination)

Late == Destination # << >> /\ Adjusted < LastTime(Destination)

Sampling == stage = "append" /\ position <= Len(Source)

Skip ==
  /\ Sampling
  /\ Outside \/ Repeated
  /\ position' = position + 1
  /\ UNCHANGED <<recording, stage, index, stream, timeline, combined, starts>>

NotIncreasing ==
  /\ Sampling /\ ~Outside /\ Late
  /\ stage' = "not_increasing"
  /\ UNCHANGED <<recording, index, stream, position, timeline, combined,
                 starts>>

AppendSample ==
  /\ Sampling /\ ~Outside /\ ~Repeated /\ ~Late
  /\ combined' = [combined EXCEPT ![stream] =
       Append(@, [time |-> Adjusted, chapter |-> index, sample |-> position])]
  /\ position' = position + 1
  /\ UNCHANGED <<recording, stage, index, stream, timeline, starts>>

NextStream ==
  /\ stage = "append" /\ position > Len(Source) /\ stream < 3
  /\ stream' = stream + 1 /\ position' = 1
  /\ UNCHANGED <<recording, stage, index, timeline, combined, starts>>
-----------------------------------------------------------------------------
\* Mutant: the duration of the chapter replaces the sum.
OwnDuration == recording.duration[index]

NextStart == timeline + recording.duration[index]

FinishChapter ==
  /\ stage = "append" /\ position > Len(Source) /\ stream = 3
  /\ timeline' = NextStart
  /\ starts' = Append(starts, starts[index] + recording.duration[index])
  /\ index' = index + 1 /\ stage' = "scan"
  /\ UNCHANGED <<recording, stream, position, combined>>

\* Calibration and filtering come after the last chapter; they need increasing
\* timestamps and change none.
Combine ==
  /\ stage = "scan" /\ index > ChapterCount
  /\ stage' = "combined"
  /\ UNCHANGED <<recording, index, stream, position, timeline, combined,
                 starts>>

Finished == stage \in Returned /\ UNCHANGED vars

Next ==
  \/ Accept \/ Reject
  \/ Skip \/ NotIncreasing \/ AppendSample \/ NextStream
  \/ FinishChapter \/ Combine
  \/ Finished

Spec == Init /\ [][Next]_vars
-----------------------------------------------------------------------------
(* Properties.                                                             *)

TypeOK ==
  /\ recording \in Recording
  /\ stage \in {"scan", "append"} \cup Returned
  /\ index \in 1 .. ChapterCount + 1
  /\ stage = "append" => index \in Chapters
  /\ stream \in Streams /\ position \in Nat \ {0}
  /\ timeline \in Nat
  /\ combined \in [Streams -> Seq([time : Nat, chapter : Chapters,
                                   sample : Nat \ {0}])]
  /\ starts \in Seq(Nat)

\* The joined timestamps increase strictly, which is what filtering the
\* acceleration (g_force.cc:54) and building the overlay (overlay_data.cc:141)
\* insist on: the end of a chapter and the beginning of the next may be the same
\* moment.
Increasing ==
  \A s \in Streams : \A k \in 2 .. Len(combined[s]) :
    combined[s][k - 1].time < combined[s][k].time

\* A sample lies as far behind the beginning of its chapter as it did in the
\* chapter, and not behind the end: chapters do not overlap (run.cc:161-179).
OnOneTimeline ==
  \A s \in Streams : \A k \in 1 .. Len(combined[s]) :
    LET entry == combined[s][k]
        c == entry.chapter
    IN /\ entry.sample <= Len(recording.samples[c][s])
       /\ entry.time = starts[c] + recording.samples[c][s][entry.sample]
       /\ starts[c] <= entry.time
       /\ entry.time <= starts[c] + recording.duration[c]

\* Chapters whose own samples are in order are never refused for their order
\* (run.cc:102-107), whatever lies before the beginning or behind the end of
\* their videos.
InOrder ==
  \A c \in Chapters, s \in Streams :
    LET samples == recording.samples[c][s]
    IN \A i, j \in 1 .. Len(samples) : i < j => samples[i] <= samples[j]

NoFalseAlarm == InOrder => stage # "not_increasing"

\* Every sample within its video has an entry of its time: samples are dropped
\* for being outside or for being there already, and for nothing else.
Within(c, s, i) ==
  recording.samples[c][s][i] \in 0 .. recording.duration[c]

Kept(c, s, i) ==
  Within(c, s, i) =>
    \E k \in 1 .. Len(combined[s]) :
      combined[s][k].time = starts[c] + recording.samples[c][s][i]

NothingLost ==
  stage = "combined" =>
    \A c \in Chapters, s \in Streams :
      \A i \in 1 .. Len(recording.samples[c][s]) : Kept(c, s, i)

\* The inductive invariant.

\* Chapters and streams that have been appended.
Behind(c, s) == c < index \/ (c = index /\ stage = "append" /\ s < stream)

\* Samples of the stream that is being appended.
Handled(c, s, i) ==
  c = index /\ stage = "append" /\ s = stream /\ i < position

\* The chapters follow each other, and the timeline is where the next starts.
StartsInv ==
  /\ Len(starts) = index /\ starts[index] = timeline
  /\ \A c \in 1 .. index - 1 :
       \A d \in c + 1 .. index : starts[c] + recording.duration[c] <= starts[d]

\* In ordered chapters the last sample of a stream is not behind what is
\* appended to it next.
LastInv ==
  InOrder =>
    \A s \in Streams :
      combined[s] # << >> =>
        \/ LastTime(combined[s]) <= timeline
        \/ stage = "append" /\ s < stream
        \/ /\ stage = "append" /\ s = stream
           /\ \E i \in 1 .. position - 1 :
                /\ i <= Len(Source)
                /\ LastTime(combined[s]) = timeline + Source[i]

KeptInv ==
  \A c \in Chapters, s \in Streams :
    \A i \in 1 .. Len(recording.samples[c][s]) :
      Behind(c, s) \/ Handled(c, s, i) => Kept(c, s, i)

EntryInv ==
  \A s \in Streams : \A k \in 1 .. Len(combined[s]) :
    \/ combined[s][k].chapter < index
    \/ combined[s][k].chapter = index /\ stage # "scan"

IInv ==
  /\ TypeOK /\ StartsInv /\ EntryInv /\ LastInv /\ KeptInv
  /\ Increasing /\ OnOneTimeline /\ NoFalseAlarm
=============================================================================
