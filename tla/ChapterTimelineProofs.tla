----------------------- MODULE ChapterTimelineProofs -----------------------
(***************************************************************************)
(* ChapterTimeline for any number of chapters with any samples: the joined *)
(* timestamps increase, are where their chapters are, and miss nothing.    *)
(* ConcatManifest: FFmpeg shows each chapter almost where it was joined.   *)
(***************************************************************************)
EXTENDS ConcatManifest, WellFoundedInduction, TLAPS

\* The timestamps and the duration of a chapter are integers.
LEMMA RecordingTypes ==
  ASSUME TypeOK, NEW c \in Chapters, NEW s \in Streams
  PROVE  /\ recording.duration[c] \in Nat \ {0}
         /\ recording.samples[c][s] \in Seq(Int)
         /\ Len(recording.samples[c][s]) \in Nat
         /\ \A i \in 1 .. Len(recording.samples[c][s]) :
              recording.samples[c][s][i] \in Int
<1>1. /\ recording.duration \in [Chapters -> Nat \ {0}]
      /\ recording.samples \in [Chapters -> [Streams -> Seq(Int)]]
  BY DEF TypeOK, Recording
<1>2. recording.samples[c][s] \in Seq(Int)
  BY <1>1
<1> QED
  BY <1>1, <1>2

\* So are the entries of a joined stream.
LEMMA CombinedTypes ==
  ASSUME TypeOK, NEW s \in Streams
  PROVE  /\ Len(combined[s]) \in Nat
         /\ combined[s] # << >> <=> Len(combined[s]) > 0
         /\ \A k \in 1 .. Len(combined[s]) :
              /\ combined[s][k].time \in Nat
              /\ combined[s][k].chapter \in Chapters
              /\ combined[s][k].sample \in Nat \ {0}
<1> DEFINE Entries == [time : Nat, chapter : Chapters, sample : Nat \ {0}]
<1>1. combined[s] \in Seq(Entries)
  BY DEF TypeOK
<1>2. ASSUME NEW k \in 1 .. Len(combined[s])
      PROVE  combined[s][k] \in Entries
  <2> HIDE DEF Entries
  <2> QED
    BY <1>1
<1>3. /\ Len(combined[s]) \in Nat
      /\ combined[s] # << >> <=> Len(combined[s]) > 0
  <2> HIDE DEF Entries
  <2> QED
    BY <1>1
<1> QED
  BY <1>2, <1>3

\* What is read when a sample is looked at.
LEMMA SampleTypes ==
  ASSUME TypeOK, Sampling
  PROVE  /\ stage = "append" /\ index \in Chapters
         /\ position \in 1 .. Len(Source)
         /\ Source[position] \in Int
         /\ recording.duration[index] \in Nat \ {0}
         /\ timeline \in Nat /\ Adjusted \in Int
         /\ ~Outside => Source[position] \in 0 .. recording.duration[index]
         /\ ~Outside => Adjusted \in Nat
<1>1. stage = "append" /\ index \in Chapters /\ stream \in Streams
  BY DEF TypeOK, Sampling
<1>2. /\ Len(Source) \in Nat /\ recording.duration[index] \in Nat \ {0}
      /\ \A i \in 1 .. Len(Source) : Source[i] \in Int
  BY <1>1, RecordingTypes DEF Source
<1>3. position \in 1 .. Len(Source)
  BY <1>2 DEF Sampling, TypeOK
<1> QED
  BY <1>1, <1>2, <1>3 DEF Adjusted, Outside, TypeOK

\* Appending keeps the entries there are and adds the sample.
LEMMA Appended ==
  ASSUME TypeOK, AppendSample
  PROVE  /\ Len(combined'[stream]) = Len(combined[stream]) + 1
         /\ \A k \in 1 .. Len(combined[stream]) :
              combined'[stream][k] = combined[stream][k]
         /\ combined'[stream][Len(combined[stream]) + 1] =
              [time |-> Adjusted, chapter |-> index, sample |-> position]
         /\ \A s \in Streams \ {stream} : combined'[s] = combined[s]
         /\ combined' \in [Streams -> Seq([time : Nat, chapter : Chapters,
                                           sample : Nat \ {0}])]
<1> DEFINE entry == [time |-> Adjusted, chapter |-> index, sample |-> position]
           Entries == [time : Nat, chapter : Chapters, sample : Nat \ {0}]
<1>1. Sampling /\ ~Outside
  BY DEF AppendSample
<1>2. entry \in Entries
  BY <1>1, SampleTypes DEF TypeOK
<1>3. stream \in Streams /\ combined \in [Streams -> Seq(Entries)]
  BY DEF TypeOK
<1>4. combined[stream] \in Seq(Entries)
  BY <1>3
<1>5. combined' = [combined EXCEPT ![stream] = Append(combined[stream], entry)]
  BY DEF AppendSample
<1>6. combined'[stream] = Append(combined[stream], entry)
  BY <1>3, <1>5
<1>7. Append(combined[stream], entry) \in Seq(Entries)
  BY <1>2, <1>4
<1>8. \A s \in Streams \ {stream} : combined'[s] = combined[s]
  BY <1>3, <1>5
<1>9. combined' \in [Streams -> Seq(Entries)]
  BY <1>3, <1>5, <1>7
<1> HIDE DEF entry, Entries
<1>10. /\ Len(combined'[stream]) = Len(combined[stream]) + 1
       /\ \A k \in 1 .. Len(combined[stream]) :
            combined'[stream][k] = combined[stream][k]
       /\ combined'[stream][Len(combined[stream]) + 1] = entry
  BY <1>2, <1>4, <1>6
<1> QED
  BY <1>8, <1>9, <1>10 DEF entry, Entries

\* An entry is an old one or that of the sample.
LEMMA NewOrOld ==
  ASSUME TypeOK, AppendSample,
         NEW s \in Streams, NEW k \in 1 .. Len(combined'[s])
  PROVE  \/ /\ s = stream /\ k = Len(combined[stream]) + 1
            /\ combined'[s][k] =
                 [time |-> Adjusted, chapter |-> index, sample |-> position]
         \/ /\ k \in 1 .. Len(combined[s])
            /\ \A i \in 1 .. k : combined'[s][i] = combined[s][i]
<1>1. CASE s = stream
  <2>1. /\ Len(combined[stream]) \in Nat /\ stream \in Streams
        /\ Len(combined'[stream]) = Len(combined[stream]) + 1
    BY <1>1, Appended, CombinedTypes
  <2>2. CASE k = Len(combined[stream]) + 1
    BY <1>1, <2>2, Appended
  <2>3. CASE k # Len(combined[stream]) + 1
    <3>1. k \in 1 .. Len(combined[stream])
      BY <1>1, <2>1, <2>3
    <3> QED
      BY <1>1, <2>1, <3>1, Appended
  <2> QED
    BY <2>2, <2>3
<1>2. CASE s # stream
  BY <1>2, Appended
<1> QED
  BY <1>1, <1>2

\* The only steps that change the joined samples or the beginnings.
LEMMA Unchanged ==
  ASSUME [Next]_vars
  PROVE  /\ recording' = recording
         /\ AppendSample \/ UNCHANGED combined
         /\ FinishChapter \/ UNCHANGED <<index, timeline, starts>>
<1>1. CASE UNCHANGED vars
  BY <1>1 DEF vars
<1> QED
  BY <1>1 DEF Next, Finished, vars, Accept, Reject, Skip, NotIncreasing,
              AppendSample, NextStream, FinishChapter, Combine
-----------------------------------------------------------------------------
(* One lemma for each part of the invariant.                               *)

LEMMA InitInv == Init => IInv
<1> SUFFICES ASSUME Init
             PROVE  IInv
  OBVIOUS
<1> USE ChapterAssumption DEF Init
<1>1. combined \in [Streams -> Seq([time : Nat, chapter : Chapters,
                                    sample : Nat \ {0}])]
  BY DEF Streams
<1>2. starts \in Seq(Nat) /\ Len(starts) = 1 /\ starts[1] = 0
  OBVIOUS
<1>3. \A s \in Streams : combined[s] = << >> /\ Len(combined[s]) = 0
  OBVIOUS
<1>4. TypeOK
  BY <1>1, <1>2 DEF TypeOK, Streams
<1>5. StartsInv
  BY <1>2 DEF StartsInv
<1>6. EntryInv /\ LastInv /\ Increasing /\ OnOneTimeline
  BY <1>3 DEF EntryInv, LastInv, Increasing, OnOneTimeline
<1>7. KeptInv
  BY DEF KeptInv, Behind, Handled, Chapters
<1>8. NoFalseAlarm
  BY DEF NoFalseAlarm
<1> QED
  BY <1>4, <1>5, <1>6, <1>7, <1>8 DEF IInv

LEMMA TypeStep ==
  ASSUME IInv, [Next]_vars
  PROVE  TypeOK'
<1> USE DEF IInv, TypeOK, Returned
<1>1. recording' = recording
  BY Unchanged
<1>2. CASE UNCHANGED vars \/ Finished
  BY <1>2 DEF vars, Finished
<1>3. CASE Accept
  BY <1>1, <1>3 DEF Accept, Chapters, Streams
<1>4. CASE Reject \/ Combine
  BY <1>1, <1>4 DEF Reject, Combine
<1>5. CASE Skip
  <2>1. position' \in Nat \ {0}
    BY <1>5 DEF Skip
  <2> QED
    BY <1>1, <1>5, <2>1 DEF Skip
<1>6. CASE NotIncreasing
  BY <1>1, <1>6 DEF NotIncreasing
<1>7. CASE AppendSample
  <2>1. position' \in Nat \ {0}
    BY <1>7 DEF AppendSample
  <2>2. combined' \in [Streams -> Seq([time : Nat, chapter : Chapters,
                                       sample : Nat \ {0}])]
    BY <1>7, Appended
  <2> QED
    BY <1>1, <1>7, <2>1, <2>2 DEF AppendSample
<1>8. CASE NextStream
  BY <1>1, <1>8 DEF NextStream, Streams
<1>9. CASE FinishChapter
  <2>1. index \in Chapters /\ recording.duration[index] \in Nat \ {0}
    BY <1>9, RecordingTypes DEF FinishChapter, Streams
  <2>2. starts[index] = timeline
    BY DEF StartsInv
  <2>3. starts' \in Seq(Nat) /\ timeline' \in Nat
    BY <1>9, <2>1, <2>2 DEF FinishChapter, NextStart
  <2>4. index' \in 1 .. ChapterCount + 1
    BY <1>9, <2>1, ChapterAssumption DEF FinishChapter, Chapters
  <2> QED
    BY <1>1, <1>9, <2>3, <2>4 DEF FinishChapter
<1> QED
  BY <1>2, <1>3, <1>4, <1>5, <1>6, <1>7, <1>8, <1>9 DEF Next

\* Where the beginnings stay and where the next one is.
LEMMA Began ==
  ASSUME IInv, [Next]_vars
  PROVE  /\ \A c \in 1 .. index : starts'[c] = starts[c]
         /\ index' >= index
         /\ FinishChapter => /\ index \in Chapters
                             /\ index' = index + 1
                             /\ Len(starts') = index + 1
                             /\ starts'[index + 1] =
                                  timeline + recording.duration[index]
                             /\ timeline' =
                                  timeline + recording.duration[index]
<1> USE DEF IInv
<1>1. CASE ~FinishChapter
  BY <1>1, Unchanged DEF TypeOK
<1>2. CASE FinishChapter
  <2>1. index \in Chapters /\ recording.duration[index] \in Nat \ {0}
    BY <1>2, RecordingTypes DEF FinishChapter, TypeOK, Streams
  <2>2. /\ starts \in Seq(Nat) /\ Len(starts) = index
        /\ starts[index] = timeline /\ index \in Nat /\ timeline \in Nat
    BY DEF TypeOK, StartsInv
  <2>3. starts' = Append(starts, timeline + recording.duration[index])
    BY <1>2, <2>2 DEF FinishChapter
  <2>4. timeline + recording.duration[index] \in Nat
    BY <2>1, <2>2
  <2>5. /\ Len(starts') = index + 1
        /\ starts'[index + 1] = timeline + recording.duration[index]
        /\ \A c \in 1 .. index : starts'[c] = starts[c]
    BY <2>2, <2>3, <2>4
  <2> QED
    BY <1>2, <2>1, <2>2, <2>5 DEF FinishChapter, NextStart
<1> QED
  BY <1>1, <1>2

LEMMA StartsStep ==
  ASSUME IInv, [Next]_vars
  PROVE  StartsInv'
<1> USE DEF IInv
<1>1. CASE ~FinishChapter
  BY <1>1, Unchanged DEF StartsInv
<1>2. CASE FinishChapter
  <2>1. recording' = recording
    BY Unchanged
  <2>2. /\ index \in Nat /\ timeline \in Nat /\ index \in Chapters
        /\ starts[index] = timeline
        /\ \A c \in 1 .. index :
             starts[c] \in Nat /\ recording.duration[c] \in Nat \ {0}
    <3>1. index \in Chapters /\ starts \in Seq(Nat) /\ Len(starts) = index
      BY <1>2, Began DEF TypeOK, StartsInv
    <3>2. \A c \in 1 .. index : recording.duration[c] \in Nat \ {0}
      BY <3>1, RecordingTypes, ChapterAssumption DEF Chapters, Streams
    <3>3. \A c \in 1 .. index : starts[c] \in Nat
      BY <3>1, ChapterAssumption DEF Chapters
    <3> QED
      BY <3>1, <3>2, <3>3 DEF TypeOK, StartsInv
  <2>3. ASSUME NEW c \in 1 .. index, NEW d \in 1 .. index, c < d
        PROVE  starts[c] + recording.duration[c] <= starts[d]
    <3>1. c \in 1 .. index - 1 /\ d \in c + 1 .. index
      BY <2>2, <2>3
    <3> QED
      BY <3>1 DEF StartsInv
  <2>4. ASSUME NEW c \in 1 .. index, NEW d \in c + 1 .. index + 1
        PROVE  starts'[c] + recording.duration[c] <= starts'[d]
    <3>1. starts'[c] = starts[c]
      BY Began
    <3>2. CASE d <= index
      <4>1. d \in 1 .. index /\ c < d
        BY <2>2, <2>4, <3>2
      <4>2. starts'[d] = starts[d]
        BY <4>1, Began
      <4> QED
        BY <2>3, <3>1, <4>1, <4>2
    <3>3. CASE d = index + 1
      <4>1. starts'[d] = timeline + recording.duration[index]
        BY <1>2, <3>3, Began
      <4>2. c < index => starts[c] + recording.duration[c] <= timeline
        BY <2>2, <2>3
      <4> QED
        BY <2>2, <3>1, <4>1, <4>2
    <3> QED
      BY <2>2, <3>2, <3>3
  <2>5. /\ Len(starts') = index' /\ starts'[index'] = timeline'
        /\ index' = index + 1
    BY <1>2, <2>2, Began
  <2> QED
    BY <2>1, <2>2, <2>4, <2>5 DEF StartsInv
<1> QED
  BY <1>1, <1>2

\* Entries belong to chapters that have been begun.
LEMMA EntryStep ==
  ASSUME IInv, [Next]_vars
  PROVE  EntryInv'
<1> USE DEF IInv
<1> SUFFICES ASSUME NEW s \in Streams, NEW k \in 1 .. Len(combined'[s])
             PROVE  \/ combined'[s][k].chapter < index'
                    \/ combined'[s][k].chapter = index' /\ stage' # "scan"
  BY DEF EntryInv
<1>1. CASE AppendSample
  <2>1. /\ Sampling /\ index \in Chapters /\ stage = "append"
        /\ UNCHANGED <<index, stage>> /\ stream \in Streams
    BY <1>1, SampleTypes DEF AppendSample, TypeOK
  <2>2. CASE combined'[s][k].chapter = index
    BY <2>1, <2>2
  <2>3. CASE /\ k \in 1 .. Len(combined[s])
             /\ combined'[s][k] = combined[s][k]
    BY <2>1, <2>3 DEF EntryInv
  <2>4. k \in 1 .. k
    OBVIOUS
  <2> QED
    BY <1>1, <2>2, <2>3, <2>4, NewOrOld
<1>2. CASE ~AppendSample
  <2>1. combined' = combined
    BY <1>2, Unchanged
  <2>2. /\ combined[s][k].chapter \in Chapters /\ index \in Nat
        /\ \/ combined[s][k].chapter < index
           \/ combined[s][k].chapter = index /\ stage # "scan"
    <3>1. k \in 1 .. Len(combined[s])
      BY <2>1
    <3>2. combined[s][k].chapter \in Chapters
      BY <3>1, CombinedTypes
    <3>3. index \in Nat
      BY DEF TypeOK
    <3> QED
      BY <3>1, <3>2, <3>3 DEF EntryInv
  <2>3. CASE FinishChapter
    BY <2>1, <2>2, <2>3, Began DEF Chapters
  <2>4. CASE ~FinishChapter
    <3>1. index' = index /\ (stage' = "scan" => stage = "scan")
      BY <1>2, <2>4, Unchanged
         DEF Next, vars, Accept, Reject, Skip, NotIncreasing, NextStream,
             Combine, Finished
    <3> QED
      BY <2>1, <2>2, <3>1
  <2> QED
    BY <2>3, <2>4
<1> QED
  BY <1>1, <1>2

\* A sample is appended behind the last one only.
LEMMA OrderStep ==
  ASSUME IInv, [Next]_vars
  PROVE  Increasing'
<1> USE DEF IInv
<1>1. CASE ~AppendSample
  BY <1>1, Unchanged DEF Increasing
<1>2. CASE AppendSample
  <2> SUFFICES ASSUME NEW s \in Streams, NEW k \in 2 .. Len(combined'[s])
               PROVE  combined'[s][k - 1].time < combined'[s][k].time
    BY DEF Increasing
  <2>1. Sampling /\ ~Repeated /\ ~Late /\ stream \in Streams
    BY <1>2 DEF AppendSample, TypeOK
  <2>2. CASE /\ s = stream /\ k = Len(combined[stream]) + 1
             /\ combined'[s][k] = [time |-> Adjusted, chapter |-> index,
                                    sample |-> position]
    <3>1. Len(combined[stream]) \in Nat /\ Len(combined[stream]) >= 1
      <4>1. Len(combined[stream]) \in Nat
        BY <2>1, CombinedTypes
      <4> QED
        BY <2>2, <4>1
    <3>2. LastTime(combined[stream]) \in Nat /\ Adjusted \in Int
      BY <2>1, <3>1, CombinedTypes, SampleTypes DEF LastTime
    <3>3. LastTime(combined[stream]) < Adjusted
      BY <2>1, <3>1, <3>2, CombinedTypes DEF Repeated, Late, Destination
    <3>4. /\ combined'[s][k - 1] = combined[stream][Len(combined[stream])]
          /\ combined'[s][k].time = Adjusted
      <4>1. /\ k - 1 = Len(combined[stream])
            /\ k - 1 \in 1 .. Len(combined[stream])
        BY <2>2, <3>1
      <4>2. combined'[stream][k - 1] = combined[stream][k - 1]
        BY <1>2, <4>1, Appended
      <4>3. combined'[s][k].time = Adjusted
        BY <2>2
      <4> QED
        BY <2>2, <4>1, <4>2, <4>3
    <3> QED
      BY <3>3, <3>4 DEF LastTime
  <2>3. CASE /\ k \in 1 .. Len(combined[s])
             /\ \A i \in 1 .. k : combined'[s][i] = combined[s][i]
    <3>1. k \in 2 .. Len(combined[s]) /\ k \in 1 .. k /\ k - 1 \in 1 .. k
      BY <2>3
    <3> QED
      BY <2>3, <3>1 DEF Increasing
  <2> QED
    BY <1>2, <2>2, <2>3, NewOrOld
<1> QED
  BY <1>1, <1>2

\* Where the entries are on the timeline does not change.
LEMMA PlaceStep ==
  ASSUME IInv, [Next]_vars
  PROVE  OnOneTimeline'
<1> USE DEF IInv
<1> DEFINE Placed(e, s) ==
      /\ e.sample <= Len(recording.samples[e.chapter][s])
      /\ e.time = starts[e.chapter]
                    + recording.samples[e.chapter][s][e.sample]
      /\ starts[e.chapter] <= e.time
      /\ e.time <= starts[e.chapter] + recording.duration[e.chapter]
<1>1. recording' = recording
  BY Unchanged
<1>2. \A s \in Streams : \A k \in 1 .. Len(combined[s]) :
        /\ Placed(combined[s][k], s)
        /\ combined[s][k].chapter \in 1 .. index
  <2> SUFFICES ASSUME NEW s \in Streams, NEW k \in 1 .. Len(combined[s])
               PROVE  /\ Placed(combined[s][k], s)
                      /\ combined[s][k].chapter \in 1 .. index
    OBVIOUS
  <2>1. combined[s][k].chapter \in Chapters
    BY CombinedTypes
  <2>2. index \in Nat
    BY DEF TypeOK
  <2>3. Placed(combined[s][k], s)
    BY DEF OnOneTimeline
  <2> QED
    BY <2>1, <2>2, <2>3 DEF EntryInv, Chapters
<1>3. ASSUME NEW s \in Streams, NEW k \in 1 .. Len(combined'[s])
      PROVE  /\ Placed(combined'[s][k], s)
             /\ combined'[s][k].chapter \in 1 .. index
  <2>1. CASE ~AppendSample
    BY <1>2, <2>1, Unchanged
  <2>2. CASE /\ AppendSample /\ s = stream
             /\ combined'[s][k] = [time |-> Adjusted, chapter |-> index,
                                    sample |-> position]
    <3>1. /\ Sampling /\ ~Outside /\ index \in Chapters
          /\ starts[index] = timeline
      BY <2>2, SampleTypes DEF AppendSample, StartsInv
    <3>2. /\ Source[position] \in 0 .. recording.duration[index]
          /\ position \in 1 .. Len(Source) /\ timeline \in Nat
          /\ recording.duration[index] \in Nat
      BY <3>1, SampleTypes
    <3>3. /\ Source = recording.samples[index][s] /\ index \in 1 .. index
          /\ Adjusted = timeline + Source[position]
      BY <2>2, <3>1 DEF Adjusted, Source, Chapters
    <3>4. /\ combined'[s][k].time = Adjusted
          /\ combined'[s][k].chapter = index
          /\ combined'[s][k].sample = position
      BY <2>2
    <3>5. position <= Len(recording.samples[index][s])
      BY <3>2, <3>3
    <3>6. Adjusted = starts[index] + recording.samples[index][s][position]
      BY <3>1, <3>3
    <3>7. /\ starts[index] <= Adjusted
          /\ Adjusted <= starts[index] + recording.duration[index]
      <4> DEFINE x == Source[position]
                 d == recording.duration[index]
      <4>1. x \in 0 .. d /\ d \in Nat /\ Adjusted = timeline + x
        BY <3>2, <3>3
      <4> HIDE DEF x, d
      <4>2. timeline <= Adjusted /\ Adjusted <= timeline + d
        BY <3>2, <4>1
      <4> QED
        BY <3>1, <4>2 DEF d
    <3> DEFINE e == combined'[s][k]
    <3>8. e.time = Adjusted /\ e.chapter = index /\ e.sample = position
      BY <3>4
    <3> HIDE DEF e
    <3>9. Placed(e, s) /\ e.chapter \in 1 .. index
      BY <3>3, <3>4, <3>5, <3>6, <3>7, <3>8
    <3> QED
      BY <3>9 DEF e
  <2>3. CASE /\ k \in 1 .. Len(combined[s])
             /\ combined'[s][k] = combined[s][k]
    BY <1>2, <2>3
  <2>4. k \in 1 .. k
    OBVIOUS
  <2> QED
    BY <2>1, <2>2, <2>3, <2>4, NewOrOld
<1>4. \A c \in 1 .. index : starts'[c] = starts[c]
  BY Began
<1> QED
  BY <1>1, <1>3, <1>4 DEF OnOneTimeline

\* The last sample of every stream is before the end of the current chapter.
LEMMA LastWithin ==
  ASSUME IInv, index \in Chapters, NEW s \in Streams, combined[s] # << >>
  PROVE  /\ LastTime(combined[s]) \in Nat
         /\ LastTime(combined[s]) <= timeline + recording.duration[index]
<1> USE DEF IInv
<1> DEFINE n == Len(combined[s])
           c == combined[s][n].chapter
<1>1. n \in 1 .. Len(combined[s])
  BY CombinedTypes
<1>2. LastTime(combined[s]) \in Nat /\ c \in Chapters
  BY <1>1, CombinedTypes DEF LastTime
<1>3. LastTime(combined[s]) <= starts[c] + recording.duration[c]
  BY <1>1 DEF OnOneTimeline, LastTime
<1>4. c \in 1 .. index
  BY <1>1, <1>2 DEF EntryInv, Chapters
<1>5. /\ starts[index] = timeline /\ timeline \in Nat
      /\ recording.duration[index] \in Nat \ {0}
  BY RecordingTypes DEF StartsInv, TypeOK, Streams
<1>6. CASE c = index
  BY <1>2, <1>3, <1>5, <1>6
<1>7. CASE c # index
  <2>1. c \in 1 .. index - 1 /\ index \in c + 1 .. index
    BY <1>4, <1>7 DEF Chapters
  <2>2. starts[c] + recording.duration[c] <= timeline
    BY <1>5, <2>1 DEF StartsInv
  <2>3. starts[c] \in Nat /\ recording.duration[c] \in Nat \ {0}
    <3>1. starts \in Seq(Nat) /\ Len(starts) = index
      BY DEF TypeOK, StartsInv
    <3>2. c \in 1 .. Len(starts)
      BY <1>4, <3>1
    <3>3. starts[c] \in Nat
      BY <3>1, <3>2
    <3> QED
      BY <1>2, <3>3, RecordingTypes DEF Streams
  <2> HIDE DEF c
  <2> QED
    BY <1>2, <1>3, <1>5, <2>2, <2>3
<1> QED
  BY <1>2, <1>6, <1>7

\* In ordered chapters the next sample is not behind the last.
LEMMA NeverLate ==
  ASSUME IInv, InOrder, Sampling, ~Outside
  PROVE  ~Late
<1> USE DEF IInv
<1> SUFFICES ASSUME Late
             PROVE  FALSE
  OBVIOUS
<1>1. /\ stage = "append" /\ index \in Chapters /\ stream \in Streams
      /\ position \in 1 .. Len(Source) /\ timeline \in Nat
      /\ Source[position] \in Nat /\ Adjusted = timeline + Source[position]
  <2>1. /\ Source[position] \in 0 .. recording.duration[index]
        /\ recording.duration[index] \in Nat
    BY SampleTypes
  <2>2. Source[position] \in Nat
    BY <2>1
  <2>3. stream \in Streams
    BY DEF TypeOK
  <2> QED
    BY <2>2, <2>3, SampleTypes DEF Adjusted
<1>2. /\ combined[stream] # << >>
      /\ Adjusted < LastTime(combined[stream])
  BY DEF Late, Destination
<1>3. LastTime(combined[stream]) \in Nat
  BY <1>1, <1>2, LastWithin
<1>4. PICK i \in 1 .. position - 1 :
        i <= Len(Source) /\ LastTime(combined[stream]) = timeline + Source[i]
  <2>1. ~(LastTime(combined[stream]) <= timeline)
    BY <1>1, <1>2, <1>3
  <2>2. ~(stream < stream)
    BY <1>1 DEF Streams
  <2> QED
    BY <1>1, <1>2, <2>1, <2>2 DEF LastInv
<1>5. i \in 1 .. Len(Source) /\ i < position /\ Source[i] \in Int
  BY <1>1, <1>4, RecordingTypes DEF Source
<1>6. Source[i] <= Source[position]
  BY <1>1, <1>5 DEF InOrder, Source
<1> QED
  BY <1>1, <1>2, <1>4, <1>5, <1>6

\* What a chapter appends is not before what there is.
LEMMA LastStep ==
  ASSUME IInv, [Next]_vars
  PROVE  LastInv'
<1> USE DEF IInv
<1>1. recording' = recording
  BY Unchanged
<1> SUFFICES ASSUME InOrder, NEW s \in Streams, combined'[s] # << >>
             PROVE  \/ LastTime(combined'[s]) <= timeline'
                    \/ stage' = "append" /\ s < stream'
                    \/ /\ stage' = "append" /\ s = stream'
                       /\ \E i \in 1 .. position' - 1 :
                            /\ i <= Len(Source')
                            /\ LastTime(combined'[s]) = timeline' + Source'[i]
  BY <1>1 DEF LastInv, InOrder, LastTime
<1>2. /\ index \in Nat /\ stream \in 1 .. 3 /\ position \in Nat \ {0}
      /\ stage = "append" => index \in Chapters
      /\ s \in 1 .. 3
  BY DEF TypeOK, Streams
<1>3. combined[s] # << >> =>
        \/ LastTime(combined[s]) <= timeline
        \/ stage = "append" /\ s < stream
        \/ /\ stage = "append" /\ s = stream
           /\ \E i \in 1 .. position - 1 :
                i <= Len(Source) /\ LastTime(combined[s]) = timeline + Source[i]
  BY DEF LastInv
<1>4. CASE UNCHANGED vars \/ Finished
  BY <1>3, <1>4 DEF vars, Finished, Source
<1>5. CASE Accept \/ Reject \/ Combine
  BY <1>3, <1>5 DEF Accept, Reject, Combine
<1>6. CASE Skip
  <2>1. position' - 1 = position
    BY <1>2, <1>6 DEF Skip
  <2> QED
    BY <1>2, <1>3, <1>6, <2>1 DEF Skip, Source
<1>7. CASE NotIncreasing
  BY <1>7, NeverLate DEF NotIncreasing
<1>8. CASE AppendSample
  <2>1. Sampling /\ position' - 1 = position /\ Source' = Source
    BY <1>2, <1>8 DEF AppendSample, Source
  <2>2. CASE s = stream
    <3>1. LastTime(combined'[s]) = timeline + Source[position]
      <4>1. /\ Len(combined[stream]) \in Nat
            /\ Len(combined'[stream]) = Len(combined[stream]) + 1
            /\ combined'[stream][Len(combined[stream]) + 1] =
                 [time |-> Adjusted, chapter |-> index, sample |-> position]
        BY <1>2, <1>8, Appended, CombinedTypes DEF Streams
      <4> QED
        BY <2>2, <4>1 DEF LastTime, Adjusted
    <3>2. position \in 1 .. position' - 1 /\ position <= Len(Source)
      BY <1>2, <2>1, SampleTypes
    <3> QED
      BY <1>8, <2>1, <2>2, <3>1, <3>2, SampleTypes DEF AppendSample
  <2>3. CASE s # stream
    BY <1>3, <1>8, <2>3, Appended DEF AppendSample
  <2> QED
    BY <2>2, <2>3
<1>9. CASE NextStream
  BY <1>2, <1>3, <1>9 DEF NextStream
<1>10. CASE FinishChapter
  BY <1>1, <1>10, Began, Unchanged, LastWithin DEF FinishChapter
<1> QED
  BY <1>4, <1>5, <1>6, <1>7, <1>8, <1>9, <1>10 DEF Next

\* No sample is lost on the way.
LEMMA KeptStep ==
  ASSUME IInv, [Next]_vars
  PROVE  KeptInv'
<1> USE DEF IInv
<1>1. recording' = recording
  BY Unchanged
<1> SUFFICES ASSUME NEW c \in Chapters, NEW s \in Streams,
                    NEW i \in 1 .. Len(recording.samples[c][s]),
                    Behind(c, s)' \/ Handled(c, s, i)', Within(c, s, i)
             PROVE  \E k \in 1 .. Len(combined'[s]) :
                      combined'[s][k].time =
                        starts'[c] + recording.samples[c][s][i]
  BY <1>1 DEF KeptInv, Kept, Within
<1>2. /\ index \in Nat /\ stream \in 1 .. 3 /\ position \in Nat \ {0}
      /\ c \in Nat /\ i \in Nat /\ s \in 1 .. 3
  BY RecordingTypes DEF TypeOK, Chapters, Streams
<1>3. ASSUME Behind(c, s) \/ Handled(c, s, i)
      PROVE  \E k \in 1 .. Len(combined'[s]) :
               combined'[s][k].time = starts'[c] + recording.samples[c][s][i]
  <2>1. PICK k \in 1 .. Len(combined[s]) :
          combined[s][k].time = starts[c] + recording.samples[c][s][i]
    BY <1>3 DEF KeptInv, Kept
  <2>2. starts'[c] = starts[c]
    <3>1. c \in 1 .. index
      BY <1>2, <1>3 DEF Behind, Handled, Chapters
    <3> QED
      BY <3>1, Began
  <2>3. k \in 1 .. Len(combined'[s]) /\ combined'[s][k] = combined[s][k]
    <3>1. CASE combined' = combined
      BY <3>1
    <3>2. CASE AppendSample
      <4>1. CASE s = stream
        <5>1. /\ Len(combined[stream]) \in Nat
              /\ Len(combined'[stream]) = Len(combined[stream]) + 1
          BY <3>2, <4>1, Appended, CombinedTypes
        <5>2. k \in 1 .. Len(combined'[s])
          BY <4>1, <5>1
        <5> QED
          BY <3>2, <4>1, <5>2, Appended
      <4>2. CASE s # stream
        BY <3>2, <4>2, Appended
      <4> QED
        BY <4>1, <4>2
    <3> QED
      BY <3>1, <3>2, Unchanged
  <2> QED
    BY <2>1, <2>2, <2>3
<1>4. CASE UNCHANGED vars \/ Finished
  BY <1>3, <1>4 DEF vars, Finished, Behind, Handled
<1>5. CASE Accept \/ Reject \/ Combine \/ NotIncreasing
  BY <1>2, <1>3, <1>5
     DEF Accept, Reject, Combine, NotIncreasing, Behind, Handled, Returned
<1>6. CASE NextStream
  BY <1>2, <1>3, <1>6 DEF NextStream, Behind, Handled, Source
<1>7. CASE FinishChapter
  <2>1. c <= index /\ index' = index + 1 /\ stage = "append" /\ stream = 3
    BY <1>2, <1>7 DEF FinishChapter, Behind, Handled
  <2>2. CASE c < index \/ s < stream
    BY <1>2, <1>3, <2>1, <2>2 DEF Behind
  <2>3. CASE c = index /\ s = stream
    <3>1. i <= Len(Source) /\ Len(Source) < position /\ Len(Source) \in Nat
      BY <1>2, <1>7, <2>3, RecordingTypes DEF FinishChapter, Source
    <3>2. Handled(c, s, i)
      BY <1>2, <2>1, <2>3, <3>1 DEF Handled
    <3> QED
      BY <1>3, <3>2
  <2> QED
    BY <1>2, <2>1, <2>2, <2>3
<1>8. CASE Skip \/ AppendSample
  <2>1. /\ Sampling /\ stage' = stage /\ index' = index /\ stream' = stream
        /\ position' = position + 1
    BY <1>8 DEF Skip, AppendSample
  <2>2. CASE Behind(c, s) \/ Handled(c, s, i)
    BY <1>3, <2>2
  <2>3. CASE ~(Behind(c, s) \/ Handled(c, s, i))
    <3>1. c = index /\ s = stream /\ i = position /\ stage = "append"
      BY <1>2, <2>1, <2>3 DEF Behind, Handled
    <3>2. /\ Adjusted = starts[c] + recording.samples[c][s][i]
          /\ starts'[c] = starts[c]
      <4>1. c \in 1 .. index
        BY <1>2, <3>1 DEF Chapters
      <4> QED
        BY <3>1, <4>1, Began DEF Adjusted, Source, StartsInv
    <3>3. CASE Skip
      <4>1. ~Outside
        <5>1. /\ Source[position] \in 0 .. recording.duration[index]
              /\ recording.duration[index] \in Nat
          BY <2>1, <3>1, SampleTypes DEF Within, Source
        <5> QED
          BY <5>1 DEF Outside
      <4>2. /\ combined[s] # << >> /\ Adjusted = LastTime(combined[s])
            /\ combined' = combined
        BY <3>1, <3>3, <4>1 DEF Skip, Repeated, Destination
      <4>3. Len(combined[s]) \in 1 .. Len(combined'[s])
        BY <4>2, CombinedTypes
      <4> QED
        BY <3>2, <4>2, <4>3 DEF LastTime
    <3>4. CASE AppendSample
      <4>1. Len(combined[stream]) + 1 \in 1 .. Len(combined'[stream])
        BY <3>1, <3>4, Appended, CombinedTypes
      <4>2. combined'[stream][Len(combined[stream]) + 1].time = Adjusted
        BY <3>4, Appended
      <4> QED
        BY <3>1, <3>2, <4>1, <4>2
    <3> QED
      BY <1>8, <3>3, <3>4
  <2> QED
    BY <2>2, <2>3
<1> QED
  BY <1>4, <1>5, <1>6, <1>7, <1>8 DEF Next
-----------------------------------------------------------------------------
(* FFmpeg's timeline.                                                      *)

\* Numbers have a least one.
LEMMA NatLeast ==
  ASSUME NEW S \in SUBSET Nat, S # {}
  PROVE  \E n \in S : \A m \in S : n <= m
<1>1. IsWellFoundedOn(OpToRel(<, Nat), Nat)
  BY NatLessThanWellFounded
<1>2. PICK n \in S : \A m \in S : ~ (<<m, n>> \in OpToRel(<, Nat))
  BY <1>1, WFMin
<1>3. \A m \in S : ~(m < n)
  BY <1>2 DEF OpToRel
<1> QED
  BY <1>3

\* What is written for a duration is at most five milliseconds off.
LEMMA NumberIs ==
  ASSUME NEW t \in Nat
  PROVE  Number(t) \in Int /\ Number(t) - t \in -5 .. 5
<1>1. CASE Grain(t) = 1
  <2>1. (2 * t + 1) \div (2 * 1) = t
    OBVIOUS
  <2> QED
    BY <1>1, <2>1 DEF Number
<1>2. CASE Grain(t) = 10
  <2> DEFINE q == (2 * t + 10) \div (2 * 10)
  <2>1. q \in Int /\ 20 * q <= 2 * t + 10 /\ 2 * t + 10 < 20 * q + 20
    OBVIOUS
  <2>2. Number(t) = q * 10
    BY <1>2 DEF Number
  <2> HIDE DEF q
  <2> QED
    BY <2>1, <2>2
<1> QED
  BY <1>1, <1>2 DEF Grain

\* The durations that are listed up to a chapter.
Listed(d) == Number(recording.duration[d])

BehindTo(n) ==
  {b \in [0 .. n -> Int] :
     b[0] = 0 /\ \A d \in 1 .. n : b[d] = b[d - 1] + Listed(d)}

\* The recursion that Shown is made of has a solution.
LEMMA BehindExists ==
  ASSUME TypeOK
  PROVE  BehindTo(ChapterCount) # {}
<1> DEFINE Without == {n \in 0 .. ChapterCount : BehindTo(n) = {}}
<1>1. SUFFICES ASSUME Without # {} PROVE FALSE
  BY ChapterAssumption
<1>2. PICK n \in Without : \A m \in Without : n <= m
  <2>1. Without \in SUBSET Nat
    BY ChapterAssumption
  <2> HIDE DEF Without
  <2> QED
    BY <1>1, <2>1, NatLeast
<1>3. n # 0
  <2>1. [d \in 0 .. 0 |-> 0] \in BehindTo(0)
    BY DEF BehindTo
  <2> QED
    BY <2>1
<1>4. n - 1 \in 0 .. ChapterCount /\ n - 1 \notin Without /\ n \in Chapters
  BY <1>2, <1>3, ChapterAssumption DEF Chapters
<1>5. PICK b : b \in BehindTo(n - 1)
  BY <1>4
<1>6. Listed(n) \in Int
  BY <1>4, RecordingTypes, NumberIs DEF Listed, Streams
<1>7. /\ b \in [0 .. n - 1 -> Int] /\ b[0] = 0
      /\ \A d \in 1 .. n - 1 : b[d] = b[d - 1] + Listed(d)
  BY <1>5 DEF BehindTo
<1> DEFINE r == [d \in 0 .. n |-> IF d = n THEN b[n - 1] + Listed(n) ELSE b[d]]
<1>8. n \in Nat \ {0}
  BY <1>2, <1>3, ChapterAssumption
<1> HIDE DEF Without
<1>9. r \in [0 .. n -> Int] /\ r[0] = 0
  BY <1>6, <1>7, <1>8
<1>10. ASSUME NEW d \in 1 .. n
       PROVE  r[d] = r[d - 1] + Listed(d)
  BY <1>7, <1>8
<1>11. r \in BehindTo(n)
  <2> HIDE DEF r
  <2> QED
    BY <1>9, <1>10 DEF BehindTo
<1> QED
  BY <1>2, <1>11 DEF Without

\* FFmpeg starts a chapter where the one before it ends.
LEMMA ShownIs ==
  ASSUME TypeOK
  PROVE  /\ Shown(1) = 0
         /\ \A c \in Chapters : Shown(c) \in Int
         /\ \A c \in Chapters :
              c + 1 \in Chapters => Shown(c + 1) = Shown(c) + Listed(c)
<1>1. PICK b : b \in BehindTo(ChapterCount)
  BY BehindExists
<1>2. /\ b \in [0 .. ChapterCount -> Int] /\ b[0] = 0
      /\ \A d \in 1 .. ChapterCount : b[d] = b[d - 1] + Listed(d)
  BY <1>1 DEF BehindTo
<1> DEFINE Solves(f) ==
      f = [d \in 0 .. ChapterCount |->
             IF d = 0 THEN 0 ELSE f[d - 1] + Listed(d)]
           f == CHOOSE g : Solves(g)
<1>3. Solves(b)
  BY <1>2, ChapterAssumption
<1>4. Solves(f)
  <2> HIDE DEF Solves
  <2> QED
    BY <1>3
<1>5. \A c : Shown(c) = f[c - 1]
  BY DEF Shown, Listed
<1> HIDE DEF f
<1>6. f[0] = 0 /\ \A d \in 1 .. ChapterCount : f[d] = f[d - 1] + Listed(d)
  <2>1. \A g : Solves(g) =>
          g[0] = 0 /\ \A d \in 1 .. ChapterCount : g[d] = g[d - 1] + Listed(d)
    <3>1. /\ 0 \in 0 .. ChapterCount
          /\ \A d \in 1 .. ChapterCount : d \in 0 .. ChapterCount /\ d # 0
      BY ChapterAssumption
    <3> QED
      BY <3>1
  <2> HIDE DEF Solves
  <2> QED
    BY <1>4, <2>1
<1>7. \A d \in 0 .. ChapterCount : f[d] = b[d]
  <2> DEFINE Other == {d \in 0 .. ChapterCount : f[d] # b[d]}
  <2> SUFFICES ASSUME Other # {} PROVE FALSE
    OBVIOUS
  <2>1. PICK d \in Other : \A e \in Other : d <= e
    <3>1. Other \in SUBSET Nat
      BY ChapterAssumption
    <3> HIDE DEF Other
    <3> QED
      BY <3>1, NatLeast
  <2>2. d # 0
    BY <1>2, <1>6
  <2>3. d \in 1 .. ChapterCount /\ d - 1 \in 0 .. ChapterCount
        /\ d - 1 \notin Other
    BY <2>1, <2>2, ChapterAssumption
  <2> QED
    BY <1>2, <1>6, <2>1, <2>3
<1>8. ASSUME NEW c \in Chapters
      PROVE  Shown(c) \in Int
  <2>1. c - 1 \in 0 .. ChapterCount
    BY ChapterAssumption DEF Chapters
  <2> QED
    BY <1>2, <1>5, <1>7, <2>1
<1>9. ASSUME NEW c \in Chapters, c + 1 \in Chapters
      PROVE  Shown(c + 1) = Shown(c) + Listed(c)
  <2>1. c \in 1 .. ChapterCount /\ (c + 1) - 1 = c
    BY DEF Chapters
  <2> QED
    BY <1>5, <1>6, <2>1
<1> QED
  BY <1>5, <1>6, <1>8, <1>9

\* Where the chapters are on the two timelines.
Almost ==
  \A c \in Chapters :
    c <= index => starts[c] - Shown(c) \in -(5 * (c - 1)) .. 5 * (c - 1)

LEMMA AlmostStep ==
  ASSUME IInv, Almost, [Next]_vars
  PROVE  Almost'
<1> USE DEF IInv
<1>1. recording' = recording /\ \A c : Shown(c)' = Shown(c)
  BY Unchanged DEF Shown
<1> SUFFICES ASSUME NEW c \in Chapters, c <= index'
             PROVE  starts'[c] - Shown(c) \in -(5 * (c - 1)) .. 5 * (c - 1)
  BY <1>1 DEF Almost
<1>2. index \in Nat /\ c \in Nat /\ c >= 1
  BY DEF TypeOK, Chapters
<1>3. CASE c <= index
  BY <1>2, <1>3, Began DEF Almost
<1>4. CASE c > index
  <2>1. FinishChapter
    BY <1>2, <1>4, Unchanged
  <2>2. c = index + 1 /\ index \in Chapters
        /\ starts'[c] = timeline + recording.duration[index]
    BY <1>2, <1>4, <2>1, Began
  <2>3. /\ starts[index] = timeline /\ timeline \in Nat
        /\ recording.duration[index] \in Nat
    BY <2>2, RecordingTypes DEF StartsInv, TypeOK, Streams
  <2>4. Shown(c) = Shown(index) + Listed(index) /\ Shown(index) \in Int
    BY <2>2, ShownIs
  <2>5. /\ Listed(index) \in Int
        /\ Listed(index) - recording.duration[index] \in -5 .. 5
    BY <2>3, NumberIs DEF Listed
  <2>6. timeline - Shown(index) \in -(5 * (index - 1)) .. 5 * (index - 1)
    BY <1>2, <2>2, <2>3 DEF Almost
  <2> QED
    BY <1>2, <2>2, <2>3, <2>4, <2>5, <2>6
<1> QED
  BY <1>2, <1>3, <1>4, Began DEF TypeOK
-----------------------------------------------------------------------------
(* The theorems.                                                           *)

\* The inductive invariant of joining chapters (run.cc:90-191).
THEOREM Invariance == Spec => []IInv
<1>1. ASSUME IInv, [Next]_vars
      PROVE  IInv'
  <2>1. NoFalseAlarm'
    <3>1. recording' = recording
      BY <1>1, Unchanged
    <3>2. InOrder' => InOrder
      BY <3>1 DEF InOrder
    <3>3. CASE NotIncreasing
      BY <1>1, <3>2, <3>3, NeverLate DEF NotIncreasing, NoFalseAlarm
    <3>4. CASE ~NotIncreasing
      <4>1. stage' = "not_increasing" => stage = "not_increasing"
        BY <1>1, <3>4
           DEF Next, vars, Accept, Reject, Skip, AppendSample, NextStream,
               FinishChapter, Combine, Finished
      <4> QED
        BY <1>1, <3>2, <4>1 DEF IInv, NoFalseAlarm
    <3> QED
      BY <3>3, <3>4
  <2> QED
    BY <1>1, <2>1, TypeStep, StartsStep, EntryStep, LastStep, KeptStep,
       OrderStep, PlaceStep DEF IInv
<1> QED
  BY <1>1, InitInv, PTL DEF Spec

\* The joined timestamps increase strictly (g_force.cc:54,
\* overlay_data.cc:141), and each sample is where its chapter is.
THEOREM JoinedInOrder == Spec => [](Increasing /\ OnOneTimeline)
<1>1. IInv => Increasing /\ OnOneTimeline
  BY DEF IInv
<1> QED
  BY <1>1, Invariance, PTL

\* Chapters in order are never refused for their order (run.cc:102-107).
THEOREM AcceptsOrderedChapters == Spec => []NoFalseAlarm
<1>1. IInv => NoFalseAlarm
  BY DEF IInv
<1> QED
  BY <1>1, Invariance, PTL

\* The joined telemetry has every sample that lies within its video.
THEOREM LosesNothing == Spec => []NothingLost
<1> DEFINE Whole == stage = "combined" => index = ChapterCount + 1
<1>1. Init => Whole
  BY DEF Init
<1>2. ASSUME IInv, Whole, [Next]_vars
      PROVE  Whole'
  <2>1. CASE Combine
    BY <1>2, <2>1, ChapterAssumption DEF Combine, IInv, TypeOK
  <2>2. CASE ~Combine
    BY <1>2, <2>2
       DEF Next, vars, Accept, Reject, Skip, AppendSample, NextStream,
           FinishChapter, NotIncreasing, Finished
  <2> QED
    BY <2>1, <2>2
<1>3. IInv /\ Whole => NothingLost
  BY ChapterAssumption DEF IInv, KeptInv, Behind, NothingLost, Chapters
<1> QED
  BY <1>1, <1>2, <1>3, Invariance, PTL DEF Spec

\* What FFmpeg shows at the time of a joined sample was recorded then, but for
\* five milliseconds for each chapter before (video_encoder.cc:37-39, 79-83).
THEOREM ShowsAlmostOnTime == Spec => []ShownAlmostOnTime
<1>1. Init => Almost
  <2> SUFFICES ASSUME Init PROVE Almost
    OBVIOUS
  <2>1. TypeOK /\ index = 1 /\ starts[1] = 0
    BY InitInv DEF Init, IInv
  <2>2. Shown(1) = 0
    BY <2>1, ShownIs
  <2>3. \A c \in Chapters : c <= 1 => c = 1
    BY ChapterAssumption DEF Chapters
  <2> QED
    BY <2>1, <2>2, <2>3 DEF Almost
<1>2. ASSUME IInv, Almost
      PROVE  ShownAlmostOnTime
  <2> USE DEF IInv
  <2> SUFFICES ASSUME NEW s \in Streams, NEW k \in 1 .. Len(combined[s])
               PROVE  LET entry == combined[s][k]
                          shown == Shown(entry.chapter) +
                            recording.samples[entry.chapter][s][entry.sample]
                          bound == 5 * (entry.chapter - 1)
                      IN  entry.time - shown \in -bound .. bound
    BY DEF ShownAlmostOnTime
  <2> DEFINE entry == combined[s][k]
             c == entry.chapter
             at == recording.samples[c][s][entry.sample]
  <2>1. /\ c \in Chapters /\ entry.sample \in Nat \ {0} /\ c <= index
        /\ c \in Nat
    <3>1. c \in Chapters /\ entry.sample \in Nat \ {0}
      BY <1>2, CombinedTypes
    <3>2. c < index \/ c = index
      BY <1>2 DEF EntryInv
    <3> HIDE DEF c
    <3> QED
      BY <1>2, <3>1, <3>2 DEF Chapters, TypeOK
  <2>2. entry.time = starts[c] + at /\ entry.sample <= Len(recording.samples[c][s])
    BY <1>2 DEF OnOneTimeline
  <2>3. at \in Int
    BY <1>2, <2>1, <2>2, RecordingTypes
  <2>4. starts[c] \in Nat /\ Shown(c) \in Int
    <3>1. starts \in Seq(Nat) /\ Len(starts) = index /\ index \in Nat
      BY <1>2 DEF TypeOK, StartsInv
    <3>2. c \in 1 .. Len(starts)
      BY <2>1, <3>1 DEF Chapters
    <3>3. starts[c] \in Nat
      BY <3>1, <3>2
    <3> QED
      BY <1>2, <2>1, <3>3, ShownIs
  <2>5. starts[c] - Shown(c) \in -(5 * (c - 1)) .. 5 * (c - 1)
    BY <1>2, <2>1 DEF Almost
  <2>6. entry.time - (Shown(c) + at) = starts[c] - Shown(c)
    <3> HIDE DEF at, c
    <3> QED
      BY <2>2, <2>3, <2>4
  <2> HIDE DEF entry, c, at
  <2>7. entry.time - (Shown(c) + at) \in -(5 * (c - 1)) .. 5 * (c - 1)
    BY <2>5, <2>6
  <2> QED
    BY <2>7 DEF entry, c, at
<1> QED
  BY <1>1, <1>2, AlmostStep, Invariance, PTL DEF Spec
=============================================================================
