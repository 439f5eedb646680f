-------------------------- MODULE GpmfTrackProofs --------------------------
(***************************************************************************)
(* GpmfTrack for files of any size with any headers: the walks stay in     *)
(* their boxes, go on, make an index of the tables of one track, and agree *)
(* on whether there is one.                                                *)
(***************************************************************************)
EXTENDS GpmfTrack, SequenceTheorems, TLAPS

\* Only the innermost box can be one of descriptions.
EntriesOnTop ==
  \A d \in 1 .. Len(stack) : stack[d].kind = "entries" => d = Len(stack)

\* No box ends behind the end of the file.
EndsInFile == \A d \in 1 .. Len(stack) : stack[d].end <= FileSize

\* Indexing enters tracks from outside of tracks only.
TrackInSearch ==
  walk = "index" =>
    \A d, e \in 1 .. Len(stack) :
      d <= e /\ stack[e].kind = "search" => stack[d].kind = "search"

\* So at most one is open, and while it is indexed all tables are its own.
OneOpen ==
  walk = "index" =>
    \A d, e \in 1 .. Len(stack) :
      stack[d].kind # "search" /\ stack[e].kind # "search" =>
        stack[d].trak = stack[e].trak

OwnTables ==
  walk = "index" =>
    \A d \in 1 .. Len(stack) :
      stack[d].kind # "search" => \A t \in tables : t[2] = stack[d].trak

KnownTables == Tabled \subseteq OtherTables \cup {"gpmd"}

StackInv == TypeOK /\ EntriesOnTop /\ EndsInFile /\ StaysInside

OpenInv == TrackInSearch /\ OneOpen /\ OwnTables

TablesInv == OpenInv /\ KnownTables /\ OneTrack

WalkInv == StackInv /\ TablesInv
-----------------------------------------------------------------------------
\* What is known of the innermost box.
LEMMA TopTypes ==
  ASSUME StackInv
  PROVE  /\ Len(stack) \in Nat \ {0}
         /\ Top \in Frames
         /\ \A d \in 1 .. Len(stack) : stack[d] \in Frames
         /\ Top.end \in Nat /\ Top.left \in Nat /\ Top.trak \in Nat
         /\ Top.kind \in {"search", "track", "entries"}
         /\ offset <= Top.end /\ Top.end <= FileSize
<1>1. stack \in Seq(Frames) /\ stack # << >>
  BY DEF StackInv, TypeOK
<1>2. /\ Len(stack) \in Nat \ {0}
      /\ \A d \in 1 .. Len(stack) : stack[d] \in Frames
  <2> HIDE DEF Frames
  <2> QED
    BY <1>1
<1>3. Top \in Frames
  BY <1>2 DEF Top
<1> QED
  BY <1>2, <1>3 DEF Frames, StackInv, StaysInside

\* A header that is valid moves the walk forward, within the box.
LEMMA BoxBounds ==
  ASSUME StackInv, NEW h \in Headers, Valid(h)
  PROVE  /\ h.entries \in Nat
         /\ Data(h) \in Nat /\ End(h) \in Nat
         /\ offset + 2 <= Data(h) /\ Data(h) <= End(h)
         /\ End(h) <= Top.end
<1>1. h \in Header
  BY WalkAssumption
<1>2. /\ h.size \in Nat /\ h.extended \in Nat /\ h.entries \in Nat
  BY <1>1 DEF Header
<1>3. HeaderUnits(h) \in {2, 4}
  BY DEF HeaderUnits
<1>4. offset \in Nat /\ Top.end \in Nat /\ offset <= Top.end
  BY TopTypes DEF StackInv, TypeOK
<1>5. BoxUnits(h) \in Nat
  BY <1>2, <1>4 DEF BoxUnits
<1> QED
  BY <1>2, <1>3, <1>4, <1>5 DEF Valid, Data, End

\* A box that is pushed on the stack and lies in the one on top of it.
LEMMA Pushed ==
  ASSUME StackInv, NEW frame \in Frames, Top.kind # "entries",
         stack' = Append(stack, frame), offset' \in Nat,
         offset' <= frame.end, frame.end <= Top.end,
         frame.kind # "entries" => Depth < MaximumDepth,
         walk' = walk, verdict' = verdict
  PROVE  /\ StackInv'
         /\ Len(stack') = Len(stack) + 1
         /\ \A d \in 1 .. Len(stack) : stack'[d] = stack[d]
         /\ stack'[Len(stack) + 1] = frame
<1>1. /\ Len(stack) \in Nat \ {0} /\ Top.end \in Nat /\ Top.end <= FileSize
      /\ \A d \in 1 .. Len(stack) : stack[d] \in Frames
  BY TopTypes
<1>2. stack \in Seq(Frames)
  BY DEF StackInv, TypeOK
<1>3. /\ stack' \in Seq(Frames) /\ stack' # << >>
      /\ Len(stack') = Len(stack) + 1
      /\ \A d \in 1 .. Len(stack) : stack'[d] = stack[d]
      /\ stack'[Len(stack) + 1] = frame
  <2> HIDE DEF Frames
  <2> QED
    BY <1>2
<1>4. Top' = frame
  BY <1>3 DEF Top
<1>5. frame.end \in Nat
  BY DEF Frames
<1>6. TypeOK'
  BY <1>3 DEF TypeOK, StackInv
<1>7. EntriesOnTop'
  BY <1>1, <1>3 DEF EntriesOnTop, StackInv, Top
<1>8. StaysInside'
  <2>1. (offset <= Top.end /\ Top.end <= FileSize)'
    BY <1>1, <1>4, <1>5, WalkAssumption
  <2>2. ASSUME NEW d \in 2 .. Len(stack')
        PROVE  stack'[d].end <= stack'[d - 1].end
    <3>1. CASE d = Len(stack) + 1
      <4>1. d - 1 = Len(stack) /\ d - 1 \in 1 .. Len(stack)
        BY <1>1, <3>1
      <4> QED
        BY <1>3, <3>1, <4>1 DEF Top
    <3>2. CASE d \in 2 .. Len(stack)
      <4>1. d \in 1 .. Len(stack) /\ d - 1 \in 1 .. Len(stack)
        BY <1>1, <3>2
      <4> QED
        BY <1>3, <3>2, <4>1 DEF StackInv, StaysInside
    <3> QED
      BY <1>1, <1>3, <3>1, <3>2
  <2>3. ASSUME NEW d \in 1 .. Len(stack'), stack'[d].kind # "entries"
        PROVE  d <= MaximumDepth + 1
    <3>1. CASE d = Len(stack) + 1
      <4>1. Depth < MaximumDepth
        BY <1>3, <2>3, <3>1
      <4> QED
        BY <1>1, <3>1, <4>1, WalkAssumption DEF Depth
    <3>2. CASE d \in 1 .. Len(stack)
      BY <1>3, <2>3, <3>2 DEF StackInv, StaysInside
    <3> QED
      BY <1>1, <1>3, <3>1, <3>2
  <2> QED
    BY <2>1, <2>2, <2>3 DEF StaysInside
<1>9. EndsInFile'
  <2> SUFFICES ASSUME NEW d \in 1 .. Len(stack) + 1
               PROVE  stack'[d].end <= FileSize
    BY <1>3 DEF EndsInFile
  <2>1. CASE d = Len(stack) + 1
    BY <1>1, <1>3, <1>5, <2>1, WalkAssumption
  <2>2. CASE d \in 1 .. Len(stack)
    BY <1>3, <2>2 DEF EndsInFile, StackInv
  <2> QED
    BY <1>1, <2>1, <2>2
<1> QED
  BY <1>3, <1>6, <1>7, <1>8, <1>9 DEF StackInv

\* A step within the box keeps the stack.
LEMMA Moved ==
  ASSUME StackInv, stack' = stack, offset' \in Nat, offset' <= Top.end,
         walk' = walk,
         verdict' \in [Walks -> {"pending", "found", "none", "failed"}]
  PROVE  StackInv'
BY DEF StackInv, TypeOK, EntriesOnTop, EndsInFile, StaysInside, Top

\* The walk that has ended keeps the stack as well.
LEMMA Ended ==
  ASSUME StackInv, stack' = stack, offset' = offset, walk' = walk,
         NEW result \in {"pending", "found", "none", "failed"},
         verdict' = [verdict EXCEPT ![walk] = result]
  PROVE  /\ StackInv'
         /\ verdict' \in [Walks -> {"pending", "found", "none", "failed"}]
         /\ verdict'[walk] = result
         /\ \A w \in Walks : w # walk => verdict'[w] = verdict[w]
<1>1. /\ walk \in Walks /\ offset \in Nat
      /\ verdict \in [Walks -> {"pending", "found", "none", "failed"}]
  BY DEF StackInv, TypeOK
<1>2. offset <= Top.end
  BY TopTypes
<1>3. verdict' \in [Walks -> {"pending", "found", "none", "failed"}]
  BY <1>1
<1>4. StackInv'
  BY <1>1, <1>2, <1>3, Moved
<1> QED
  BY <1>1, <1>3, <1>4
-----------------------------------------------------------------------------
LEMMA InitStack == Init => StackInv
<1> SUFFICES ASSUME Init PROVE StackInv
  OBVIOUS
<1>1. Start[1] = [kind |-> "search", end |-> FileSize, left |-> 0, trak |-> 0]
  BY DEF Start
<1>2. Start \in Seq(Frames) /\ Len(Start) = 1 /\ Start # << >>
  BY WalkAssumption DEF Start, Frames
<1> QED
  BY <1>1, <1>2, WalkAssumption
     DEF Init, StackInv, TypeOK, EntriesOnTop, EndsInFile, StaysInside, Top,
         Walks

\* Whatever fails ends the walk where it is.
LEMMA FailStack ==
  ASSUME StackInv, Fail
  PROVE  StackInv' /\ verdict'[walk] = "failed"
BY Ended DEF Fail

LEMMA EnterStack ==
  ASSUME StackInv, NEW h \in Headers, Valid(h), Enter(h), Top.kind # "entries"
  PROVE  StackInv'
<1>1. CASE ~NotTooDeep
  BY <1>1, FailStack DEF Enter
<1>2. CASE NotTooDeep
  <2>1. /\ stack' = Append(stack, Entered(h)) /\ offset' = Data(h)
        /\ walk' = walk /\ verdict' = verdict
    BY <1>2 DEF Enter
  <2>2. Entered(h) \in Frames /\ Entered(h).end = End(h)
    BY TopTypes, BoxBounds DEF Entered, Frame, Frames, StackInv, TypeOK
  <2> QED
    BY <1>2, <2>1, <2>2, BoxBounds, Pushed DEF NotTooDeep
<1> QED
  BY <1>1, <1>2

LEMMA OpenDescriptionsStack ==
  ASSUME StackInv, OpenDescriptions
  PROVE  StackInv'
<1>1. PICK h \in Headers :
        /\ Box(h) /\ Valid(h)
        /\ IF End(h) - Data(h) >= 2
           THEN /\ stack' = Append(stack,
                     [Frame("entries", End(h)) EXCEPT !.left = h.entries,
                                                      !.trak = Top.trak])
                /\ offset' = Data(h) + 2
                /\ UNCHANGED <<walk, verdict>>
           ELSE Fail
  BY DEF OpenDescriptions
<1> DEFINE frame == [Frame("entries", End(h)) EXCEPT !.left = h.entries,
                                                     !.trak = Top.trak]
<1>2. CASE ~(End(h) - Data(h) >= 2)
  BY <1>1, <1>2, FailStack
<1>3. CASE End(h) - Data(h) >= 2
  <2>1. frame \in Frames /\ frame.end = End(h) /\ frame.kind = "entries"
    BY <1>1, TopTypes, BoxBounds DEF Frame, Frames, StackInv, TypeOK
  <2>2. Top.kind # "entries"
    BY <1>1 DEF Box, Walker
  <2> HIDE DEF frame
  <2>3. stack' = Append(stack, frame)
    BY <1>1, <1>3 DEF frame
  <2> QED
    BY <1>1, <1>3, <2>1, <2>2, <2>3, BoxBounds, Pushed
<1> QED
  BY <1>2, <1>3

LEMMA DescriptionStack ==
  ASSUME StackInv, Description
  PROVE  /\ StackInv' /\ Len(stack') = Len(stack)
         /\ offset' > offset
         /\ \A d \in 1 .. Len(stack) :
              /\ stack'[d].kind = stack[d].kind
              /\ stack'[d].trak = stack[d].trak
<1>1. PICK h \in Headers :
        /\ Entry(h) /\ Valid(h)
        /\ offset' = End(h)
        /\ stack' = [stack EXCEPT ![Len(stack)].left = @ - 1]
        /\ UNCHANGED <<walk, verdict>>
  BY DEF Description
<1>2. /\ Top.left \in Nat \ {0} /\ Top \in Frames /\ Len(stack) \in Nat \ {0}
      /\ \A d \in 1 .. Len(stack) : stack[d] \in Frames
      /\ Top.end <= FileSize
  BY <1>1, TopTypes DEF Entry
<1>3. offset + 2 <= End(h) /\ End(h) <= Top.end /\ End(h) \in Nat
      /\ offset \in Nat
  BY <1>1, TopTypes, BoxBounds DEF StackInv, TypeOK
<1>4. stack \in Seq(Frames)
  BY DEF StackInv, TypeOK
<1>5. stack' = [stack EXCEPT ![Len(stack)] = [Top EXCEPT !.left = @ - 1]]
  BY <1>1 DEF Top
<1>6. [Top EXCEPT !.left = @ - 1] \in Frames
  BY <1>2 DEF Frames
<1>7. stack' \in Seq(Frames) /\ Len(stack') = Len(stack)
  <2> HIDE DEF Frames
  <2> QED
    BY <1>2, <1>4, <1>5, <1>6
<1>8. \A d \in 1 .. Len(stack) :
        /\ stack'[d].kind = stack[d].kind
        /\ stack'[d].trak = stack[d].trak
        /\ stack'[d].end = stack[d].end
  <2> SUFFICES ASSUME NEW d \in 1 .. Len(stack)
               PROVE  /\ stack'[d].kind = stack[d].kind
                      /\ stack'[d].trak = stack[d].trak
                      /\ stack'[d].end = stack[d].end
    OBVIOUS
  <2>1. CASE d # Len(stack)
    <3>1. stack'[d] = stack[d]
      BY <1>2, <1>4, <1>5, <2>1
    <3> QED
      BY <3>1
  <2>2. CASE d = Len(stack)
    <3>1. stack'[d] = [Top EXCEPT !.left = @ - 1] /\ stack[d] = Top
      BY <1>2, <1>4, <1>5, <2>2 DEF Top
    <3> QED
      BY <1>2, <3>1 DEF Frames
  <2> QED
    BY <2>1, <2>2
<1>9. Top'.end = Top.end
  BY <1>2, <1>7, <1>8 DEF Top
<1>10. TypeOK'
  BY <1>1, <1>2, <1>3, <1>7 DEF TypeOK, StackInv
<1>11. EntriesOnTop'
  BY <1>7, <1>8 DEF EntriesOnTop, StackInv
<1>12. StaysInside'
  <2>1. \A d \in 2 .. Len(stack') : stack'[d].end <= stack'[d - 1].end
    <3> SUFFICES ASSUME NEW d \in 2 .. Len(stack)
                 PROVE  stack'[d].end <= stack'[d - 1].end
      BY <1>7
    <3>1. d \in 1 .. Len(stack) /\ d - 1 \in 1 .. Len(stack)
      BY <1>2
    <3> QED
      BY <1>8, <3>1 DEF StackInv, StaysInside
  <2>2. \A d \in 1 .. Len(stack') :
          stack'[d].kind # "entries" => d <= MaximumDepth + 1
    BY <1>7, <1>8 DEF StackInv, StaysInside
  <2> QED
    BY <1>1, <1>2, <1>3, <1>9, <2>1, <2>2 DEF StaysInside
<1>13. EndsInFile'
  BY <1>7, <1>8 DEF EndsInFile, StackInv
<1> QED
  BY <1>3, <1>1, <1>7, <1>8, <1>10, <1>11, <1>12, <1>13 DEF StackInv

LEMMA LeaveStack ==
  ASSUME StackInv, Leave
  PROVE  /\ StackInv' /\ Len(stack') = Len(stack) - 1
         /\ offset' >= offset
         /\ \A d \in 1 .. Len(stack) - 1 : stack'[d] = stack[d]
<1>1. /\ Len(stack) \in Nat /\ Len(stack) > 1
      /\ stack' = SubSeq(stack, 1, Len(stack) - 1)
      /\ offset' = Top.end /\ walk' = walk /\ verdict' = verdict
      /\ Top.end \in Nat /\ Top.end <= FileSize /\ offset <= Top.end
      /\ \A d \in 1 .. Len(stack) : stack[d] \in Frames
  BY TopTypes DEF Leave
<1>2. stack \in Seq(Frames)
  BY DEF StackInv, TypeOK
<1>3. /\ stack' \in Seq(Frames) /\ stack' # << >>
      /\ Len(stack') = Len(stack) - 1
      /\ \A d \in 1 .. Len(stack) - 1 : stack'[d] = stack[d]
  <2> HIDE DEF Frames
  <2>1. 1 \in Int /\ Len(stack) - 1 \in Int
    BY <1>1
  <2>2. \A d \in 1 .. Len(stack) - 1 : stack[d] \in Frames
    BY <1>1
  <2>3. /\ SubSeq(stack, 1, Len(stack) - 1) \in Seq(Frames)
        /\ Len(SubSeq(stack, 1, Len(stack) - 1)) =
             IF 1 <= Len(stack) - 1 THEN Len(stack) - 1 - 1 + 1 ELSE 0
        /\ \A d \in 1 .. Len(stack) - 1 - 1 + 1 :
             SubSeq(stack, 1, Len(stack) - 1)[d] = stack[1 + d - 1]
    BY <2>1, <2>2, SubSeqProperties
  <2>4. stack' \in Seq(Frames) /\ Len(stack') = Len(stack) - 1
    BY <1>1, <2>3
  <2>5. \A d \in 1 .. Len(stack) - 1 : stack'[d] = stack[d]
    BY <1>1, <2>3
  <2>6. stack' # << >>
    <3>1. Len(stack') > 0
      BY <1>1, <2>4
    <3>2. stack' = << >> => Len(stack') = 0
      OBVIOUS
    <3> QED
      BY <3>1, <3>2
  <2> QED
    BY <2>4, <2>5, <2>6
<1>4. Top' = stack[Len(stack) - 1]
  BY <1>1, <1>3 DEF Top
<1>5. TypeOK'
  BY <1>1, <1>3 DEF TypeOK, StackInv
<1>6. EntriesOnTop'
  BY <1>1, <1>3 DEF EntriesOnTop, StackInv
<1>7. StaysInside'
  <2>1. Top.end <= Top'.end /\ Top'.end <= FileSize
    <3>1. stack[Len(stack)].end <= stack[Len(stack) - 1].end
      BY <1>1 DEF StackInv, StaysInside
    <3>2. \A d \in 1 .. Len(stack) : stack[d].end <= FileSize
      BY DEF StackInv, EndsInFile
    <3> QED
      BY <1>1, <1>4, <3>1, <3>2 DEF Top
  <2>2. \A d \in 2 .. Len(stack') : stack'[d].end <= stack'[d - 1].end
    BY <1>1, <1>3 DEF StackInv, StaysInside
  <2>3. \A d \in 1 .. Len(stack') :
          stack'[d].kind # "entries" => d <= MaximumDepth + 1
    BY <1>1, <1>3 DEF StackInv, StaysInside
  <2> QED
    BY <1>1, <2>1, <2>2, <2>3 DEF StaysInside
<1>8. EndsInFile'
  BY <1>1, <1>3 DEF EndsInFile, StackInv
<1> QED
  BY <1>1, <1>3, <1>5, <1>6, <1>7, <1>8 DEF StackInv

\* Every step keeps the walk in its boxes.
LEMMA StackStep ==
  ASSUME StackInv, [Next]_vars
  PROVE  StackInv'
<1>0. /\ offset \in Nat /\ offset <= Top.end
      /\ verdict \in [Walks -> {"pending", "found", "none", "failed"}]
  BY TopTypes DEF StackInv, TypeOK
<1>1. CASE TooShortForHeader
  BY <1>1, FailStack DEF TooShortForHeader
<1>2. CASE BadBox
  BY <1>2, FailStack DEF BadBox
<1>3. CASE EnterBox
  <2>1. PICK h \in Headers : Box(h) /\ Valid(h) /\ Enter(h)
    BY <1>3 DEF EnterBox
  <2>2. Top.kind # "entries"
    BY <2>1 DEF Box, Walker
  <2> QED
    BY <2>1, <2>2, EnterStack
<1>4. CASE SkipBox
  <2>1. PICK h \in Headers :
          Valid(h) /\ offset' = End(h) /\ UNCHANGED <<walk, verdict, stack>>
    BY <1>4 DEF SkipBox, Skip
  <2>2. offset' \in Nat /\ offset' <= Top.end
    BY <2>1, BoxBounds
  <2> QED
    BY <1>0, <2>1, <2>2, Moved
<1>5. CASE ReadTable
  <2>1. PICK h \in Headers :
          /\ Valid(h)
          /\ \/ offset' = End(h) /\ UNCHANGED <<walk, verdict, stack>>
             \/ Fail
    BY <1>5 DEF ReadTable
  <2>2. CASE Fail
    BY <2>2, FailStack
  <2>3. CASE offset' = End(h) /\ UNCHANGED <<walk, verdict, stack>>
    <3>1. offset' \in Nat /\ offset' <= Top.end
      BY <2>1, <2>3, BoxBounds
    <3> QED
      BY <1>0, <2>3, <3>1, Moved
  <2> QED
    BY <2>1, <2>2, <2>3
<1>6. CASE OpenDescriptions
  BY <1>6, OpenDescriptionsStack
<1>7. CASE BadEntry
  BY <1>7, FailStack DEF BadEntry
<1>8. CASE Description
  BY <1>8, DescriptionStack
<1>9. CASE Located
  BY <1>9, Ended DEF Located
<1>10. CASE Leave
  BY <1>10, LeaveStack
<1>11. CASE BuildIndex
  <2>1. PICK result \in {"failed", "found"} :
          /\ verdict' = [verdict EXCEPT ![walk] = result]
          /\ UNCHANGED <<walk, stack, offset>>
    BY <1>11 DEF BuildIndex
  <2> QED
    BY <2>1, Ended
<1>12. CASE NoTrack
  BY <1>12, Ended DEF NoTrack
<1>13. CASE Again
  <2>1. /\ Start[1] =
             [kind |-> "search", end |-> FileSize, left |-> 0, trak |-> 0]
        /\ Start \in Seq(Frames) /\ Len(Start) = 1 /\ Start # << >>
    BY WalkAssumption DEF Start, Frames
  <2>2. walk' = "locate" /\ stack' = Start /\ offset' = 0 /\ verdict' = verdict
    BY <1>13 DEF Again
  <2>3. /\ stack' \in Seq(Frames) /\ Len(stack') = 1 /\ stack' # << >>
    BY <2>1, <2>2
  <2>4. /\ stack'[1].end = FileSize /\ stack'[1].kind = "search"
        /\ Top'.end = FileSize
    <3>1. stack'[1] =
            [kind |-> "search", end |-> FileSize, left |-> 0, trak |-> 0]
      BY <2>1, <2>2
    <3>2. Top' = stack'[1]
      BY <2>3 DEF Top
    <3> QED
      BY <3>1, <3>2
  <2>5. TypeOK'
    BY <1>0, <2>2, <2>3 DEF TypeOK, Walks
  <2>6. EntriesOnTop' /\ EndsInFile'
    BY <2>3, <2>4, WalkAssumption DEF EntriesOnTop, EndsInFile
  <2>7. StaysInside'
    BY <2>2, <2>3, <2>4, WalkAssumption DEF StaysInside
  <2> QED
    BY <2>5, <2>6, <2>7 DEF StackInv
<1>14. CASE UNCHANGED vars
  BY <1>14
     DEF vars, StackInv, TypeOK, EntriesOnTop, StaysInside, EndsInFile, Top
<1> QED
  BY <1>1, <1>2, <1>3, <1>4, <1>5, <1>6, <1>7, <1>8, <1>9, <1>10, <1>11,
     <1>12, <1>13, <1>14 DEF Next, Step, Finished

LEMMA StackAlways == Spec => []StackInv
<1>1. Init => StackInv
  BY InitStack
<1>2. StackInv /\ [Next]_vars => StackInv'
  BY StackStep
<1> QED
  BY <1>1, <1>2, PTL DEF Spec

\* Every box the walks are in has a kind, an end and a track.
THEOREM WalkTypeOK == Spec => []TypeOK
<1>1. StackInv => TypeOK
  BY DEF StackInv
<1> QED
  BY <1>1, StackAlways, PTL

\* Whatever sizes the boxes of a file claim, both walks stay in the box they
\* are in and in the file, and no deeper than the limit
\* (mp4_gpmf_index.cc:100, 218; mp4_gpmf.cc:89, 118).
THEOREM WalkStaysInside == Spec => []StaysInside
<1>1. StackInv => StaysInside
  BY DEF StackInv
<1> QED
  BY <1>1, StackAlways, PTL
-----------------------------------------------------------------------------
\* What ends a walk is a step forward, since it was not ended before.
LEMMA EndingIsOnward ==
  ASSUME Walking, verdict'[walk] # "pending"
  PROVE  verdict' # verdict
BY DEF Walking

LEMMA StepOnward ==
  ASSUME StackInv, [Next]_vars, walk' = walk
  PROVE  \/ offset' > offset
         \/ offset' >= offset /\ Len(stack') < Len(stack)
         \/ verdict' # verdict
         \/ UNCHANGED vars
<1>0. offset \in Nat
  BY DEF StackInv, TypeOK
<1>1. CASE TooShortForHeader
  BY <1>1, FailStack, EndingIsOnward DEF TooShortForHeader, Walker
<1>2. CASE BadBox
  BY <1>2, FailStack, EndingIsOnward DEF BadBox, Box, Walker
<1>3. CASE EnterBox
  <2>1. PICK h \in Headers :
          /\ Walking /\ Valid(h)
          /\ Fail \/ offset' = Data(h)
    BY <1>3 DEF EnterBox, Enter, Box, Walker
  <2>2. Data(h) > offset
    BY <1>0, <2>1, BoxBounds
  <2> QED
    BY <2>1, <2>2, FailStack, EndingIsOnward
<1>4. CASE SkipBox
  <2>1. PICK h \in Headers : Valid(h) /\ offset' = End(h)
    BY <1>4 DEF SkipBox, Skip
  <2> QED
    BY <1>0, <2>1, BoxBounds
<1>5. CASE ReadTable
  <2>1. PICK h \in Headers :
          /\ Walking /\ Valid(h)
          /\ Fail \/ offset' = End(h)
    BY <1>5 DEF ReadTable, Box, Walker
  <2>2. End(h) > offset
    BY <1>0, <2>1, BoxBounds
  <2> QED
    BY <2>1, <2>2, FailStack, EndingIsOnward
<1>6. CASE OpenDescriptions
  <2>1. PICK h \in Headers :
          /\ Walking /\ Valid(h)
          /\ Fail \/ offset' = Data(h) + 2
    BY <1>6 DEF OpenDescriptions, Box, Walker
  <2>2. Data(h) + 2 > offset
    BY <1>0, <2>1, BoxBounds
  <2> QED
    BY <2>1, <2>2, FailStack, EndingIsOnward
<1>7. CASE BadEntry
  BY <1>7, FailStack, EndingIsOnward DEF BadEntry, Entry
<1>8. CASE Description
  BY <1>8, DescriptionStack
<1>9. CASE Located
  <2>1. /\ Walking /\ verdict' = [verdict EXCEPT ![walk] = "found"]
        /\ UNCHANGED <<walk, stack, offset>>
    BY <1>9 DEF Located, Entry
  <2> QED
    BY <2>1, Ended, EndingIsOnward
<1>10. CASE Leave
  <2>1. Len(stack) \in Nat
    BY TopTypes
  <2> QED
    BY <1>10, <2>1, LeaveStack
<1>11. CASE BuildIndex
  <2>1. PICK result \in {"failed", "found"} :
          /\ Walking /\ verdict' = [verdict EXCEPT ![walk] = result]
          /\ UNCHANGED <<walk, stack, offset>>
    BY <1>11 DEF BuildIndex, AtEnd
  <2> QED
    BY <2>1, Ended, EndingIsOnward
<1>12. CASE NoTrack
  <2>1. /\ Walking /\ verdict' = [verdict EXCEPT ![walk] = "none"]
        /\ UNCHANGED <<walk, stack, offset>>
    BY <1>12 DEF NoTrack, AtEnd
  <2> QED
    BY <2>1, Ended, EndingIsOnward
<1>13. CASE Again
  BY <1>13 DEF Again
<1> QED
  BY <1>1, <1>2, <1>3, <1>4, <1>5, <1>6, <1>7, <1>8, <1>9, <1>10, <1>11,
     <1>12, <1>13 DEF Next, Step, Finished

\* No file makes a walk go round in circles: every step goes further in the
\* file, or out of a box, or ends the walk (mp4_gpmf_index.cc:100, 234).
THEOREM WalkGoesOn == Spec => Onward
<1>1. StackInv /\ [Next]_vars =>
        [walk' = walk =>
           \/ offset' > offset
           \/ offset' >= offset /\ Len(stack') < Len(stack)
           \/ verdict' # verdict]_vars
  BY StepOnward
<1> QED
  BY <1>1, StackAlways, PTL DEF Spec, Onward
-----------------------------------------------------------------------------
LEMMA InitTables == Init => TablesInv
<1> SUFFICES ASSUME Init PROVE TablesInv
  OBVIOUS
<1>1. Len(stack) = 1 /\ tables = {} /\ verdict["index"] = "pending"
  BY DEF Init, Start, Walks
<1> QED
  BY <1>1 DEF TablesInv, OpenInv, TrackInSearch, OneOpen, OwnTables,
              KnownTables, Tabled, OneTrack

\* A step that touches neither the stack nor the tables.
LEMMA TablesKept ==
  ASSUME TablesInv, walk' = walk, stack' = stack, tables' = tables,
         verdict'["index"] = "found" => verdict["index"] = "found"
  PROVE  TablesInv'
BY DEF TablesInv, OpenInv, TrackInSearch, OneOpen, OwnTables, KnownTables,
       Tabled, OneTrack

LEMMA FailTables ==
  ASSUME StackInv, TablesInv, Fail
  PROVE  TablesInv'
<1>1. /\ walk' = walk /\ stack' = stack /\ tables' = tables
      /\ offset' = offset
      /\ verdict' = [verdict EXCEPT ![walk] = "failed"]
  BY DEF Fail
<1>2. verdict'["index"] = "found" => verdict["index"] = "found"
  BY <1>1, Ended DEF Walks
<1> QED
  BY <1>1, <1>2, TablesKept

\* The index is built once: while its walk goes on there is none.
LEMMA NoIndexYet ==
  ASSUME walk = "index", Walking, KnownTables', OpenInv', verdict' = verdict
  PROVE  TablesInv'
BY DEF Walking, TablesInv, OneTrack

\* The other walk has its own boxes, and no tables.
LEMMA OnlyLocating ==
  ASSUME TablesInv, walk' # "index", tables' = tables,
         verdict'["index"] = verdict["index"]
  PROVE  TablesInv'
BY DEF TablesInv, OpenInv, TrackInSearch, OneOpen, OwnTables, KnownTables,
       Tabled, OneTrack

\* A box that is pushed and belongs to the track of the one on top of it.
LEMMA SameTrackPushed ==
  ASSUME StackInv, OpenInv, walk' = walk, tables' = tables,
         NEW frame \in Frames,
         Len(stack') = Len(stack) + 1,
         \A d \in 1 .. Len(stack) : stack'[d] = stack[d],
         stack'[Len(stack) + 1] = frame,
         frame.trak = Top.trak, frame.kind = "search" <=> Top.kind = "search"
  PROVE  OpenInv'
<1>1. Len(stack) \in Nat \ {0}
  BY TopTypes
<1>2. Top = stack[Len(stack)] /\ Len(stack) \in 1 .. Len(stack)
  BY <1>1 DEF Top
<1> DEFINE Below(d) == IF d = Len(stack) + 1 THEN Len(stack) ELSE d
<1>3. ASSUME NEW d \in 1 .. Len(stack')
      PROVE  /\ Below(d) \in 1 .. Len(stack)
             /\ stack'[d].trak = stack[Below(d)].trak
             /\ stack'[d].kind = "search" <=> stack[Below(d)].kind = "search"
  BY <1>1, <1>2
<1>4. TrackInSearch'
  <2> SUFFICES ASSUME walk = "index",
                      NEW d \in 1 .. Len(stack'), NEW e \in 1 .. Len(stack'),
                      d <= e, stack'[e].kind = "search"
               PROVE  stack'[d].kind = "search"
    BY DEF TrackInSearch
  <2>1. Below(d) <= Below(e)
    BY <1>1
  <2> QED
    BY <1>3, <2>1 DEF OpenInv, TrackInSearch
<1>5. OneOpen'
  <2> SUFFICES ASSUME walk = "index",
                      NEW d \in 1 .. Len(stack'), NEW e \in 1 .. Len(stack'),
                      stack'[d].kind # "search", stack'[e].kind # "search"
               PROVE  stack'[d].trak = stack'[e].trak
    BY DEF OneOpen
  <2> QED
    BY <1>3 DEF OpenInv, OneOpen
<1>6. OwnTables'
  <2> SUFFICES ASSUME walk = "index",
                      NEW d \in 1 .. Len(stack'), stack'[d].kind # "search",
                      NEW t \in tables
               PROVE  t[2] = stack'[d].trak
    BY DEF OwnTables
  <2> QED
    BY <1>3 DEF OpenInv, OwnTables
<1> QED
  BY <1>4, <1>5, <1>6 DEF OpenInv

LEMMA EnterTables ==
  ASSUME StackInv, TablesInv, NEW h \in Headers, Walker, Valid(h), Enter(h)
  PROVE  TablesInv'
<1>0. Top.kind # "entries" /\ Walking
  BY DEF Walker
<1>1. CASE ~NotTooDeep
  BY <1>1, FailTables DEF Enter
<1>2. CASE NotTooDeep
  <2>1. /\ stack' = Append(stack, Entered(h)) /\ offset' = Data(h)
        /\ tables' = TablesIn(h) /\ walk' = walk /\ verdict' = verdict
        /\ Container(h) \/ Track(h)
    BY <1>2 DEF Enter
  <2>2. Entered(h) \in Frames /\ Entered(h).end = End(h)
    BY TopTypes, BoxBounds DEF Entered, Frame, Frames, StackInv, TypeOK
  <2>3. /\ Len(stack') = Len(stack) + 1
        /\ \A d \in 1 .. Len(stack) : stack'[d] = stack[d]
        /\ stack'[Len(stack) + 1] = Entered(h)
    BY <1>0, <1>2, <2>1, <2>2, BoxBounds, Pushed DEF NotTooDeep
  <2>4. CASE walk # "index"
    BY <2>1, <2>4, OnlyLocating DEF TablesIn
  <2>5. CASE walk = "index" /\ h.type = "trak"
    <3>1. Top.kind = "search" /\ Len(stack) \in Nat \ {0}
      BY <1>0, <2>1, <2>5, TopTypes DEF Container, Track, InTrack
    <3>2. \A d \in 1 .. Len(stack) : stack[d].kind = "search"
      BY <2>5, <3>1 DEF TablesInv, OpenInv, TrackInSearch, Top
    <3>3. Entered(h).kind = "track" /\ tables' = {}
      BY <2>1, <2>5 DEF Entered, Frame, TablesIn
    <3>4. \A d \in 1 .. Len(stack') :
            stack'[d].kind # "search" <=> d = Len(stack) + 1
      BY <2>3, <3>1, <3>2, <3>3
    <3>5. OpenInv'
      BY <2>3, <3>1, <3>3, <3>4
         DEF OpenInv, TrackInSearch, OneOpen, OwnTables
    <3>6. KnownTables'
      BY <3>3 DEF KnownTables, Tabled
    <3> QED
      BY <1>0, <2>1, <2>5, <3>5, <3>6, NoIndexYet
  <2>6. CASE walk = "index" /\ h.type # "trak"
    <3>1. /\ Entered(h) = [Top EXCEPT !.end = End(h)] /\ tables' = tables
          /\ Top \in Frames
      BY <2>1, <2>6, TopTypes DEF Entered, TablesIn
    <3>2. Entered(h).trak = Top.trak /\ Entered(h).kind = Top.kind
      BY <3>1 DEF Frames
    <3>3. OpenInv'
      BY <2>1, <2>2, <2>3, <3>1, <3>2, SameTrackPushed DEF TablesInv
    <3>4. KnownTables'
      BY <3>1 DEF TablesInv, KnownTables, Tabled
    <3> QED
      BY <1>0, <2>1, <2>6, <3>3, <3>4, NoIndexYet
  <2> QED
    BY <2>4, <2>5, <2>6
<1> QED
  BY <1>1, <1>2

\* A table of the track that is open joins those that have been read.
LEMMA TableAdded ==
  ASSUME StackInv, TablesInv, walk' = walk, walk = "index", Walking,
         verdict' = verdict, Top.kind # "search",
         NEW type \in OtherTables \cup {"gpmd"},
         tables' = tables \cup {<<type, Top.trak>>},
         Len(stack') = Len(stack),
         \A d \in 1 .. Len(stack) :
           stack'[d].kind = stack[d].kind /\ stack'[d].trak = stack[d].trak
  PROVE  TablesInv'
<1>1. Len(stack) \in 1 .. Len(stack) /\ Top = stack[Len(stack)]
  BY TopTypes DEF Top
<1>2. TrackInSearch' /\ OneOpen'
  BY DEF TablesInv, OpenInv, TrackInSearch, OneOpen
<1>3. OwnTables'
  <2> SUFFICES ASSUME NEW d \in 1 .. Len(stack), stack[d].kind # "search",
                      NEW t \in tables \cup {<<type, Top.trak>>}
               PROVE  t[2] = stack[d].trak
    BY DEF OwnTables
  <2>1. CASE t \in tables
    BY <2>1 DEF TablesInv, OpenInv, OwnTables
  <2>2. CASE t = <<type, Top.trak>>
    BY <1>1, <2>2 DEF TablesInv, OpenInv, OneOpen
  <2> QED
    BY <2>1, <2>2
<1>4. KnownTables'
  BY DEF TablesInv, KnownTables, Tabled
<1>5. OpenInv'
  BY <1>2, <1>3 DEF OpenInv
<1> QED
  BY <1>4, <1>5, NoIndexYet

LEMMA TablesStep ==
  ASSUME StackInv, TablesInv, [Next]_vars
  PROVE  TablesInv'
<1>0. StackInv' /\ Len(stack) \in Nat \ {0}
  BY StackStep, TopTypes
<1>1. CASE TooShortForHeader
  BY <1>1, FailTables DEF TooShortForHeader
<1>2. CASE BadBox
  BY <1>2, FailTables DEF BadBox
<1>3. CASE EnterBox
  BY <1>3, EnterTables DEF EnterBox, Box
<1>4. CASE SkipBox
  BY <1>4, TablesKept DEF SkipBox, Skip
<1>5. CASE ReadTable
  <2>1. PICK h \in Headers :
          /\ Walking /\ walk = "index" /\ Top.kind = "track"
          /\ h.type \in OtherTables
          /\ \/ /\ tables' = tables \cup {<<h.type, Top.trak>>}
                /\ UNCHANGED <<walk, verdict, stack>>
             \/ Fail
    BY <1>5 DEF ReadTable, Box, Walker, InTrack
  <2>2. CASE Fail
    BY <2>2, FailTables
  <2>3. CASE /\ tables' = tables \cup {<<h.type, Top.trak>>}
             /\ UNCHANGED <<walk, verdict, stack>>
    BY <2>1, <2>3, TableAdded
  <2> QED
    BY <2>1, <2>2, <2>3
<1>6. CASE OpenDescriptions
  <2>1. PICK h \in Headers :
          /\ Box(h) /\ Valid(h) /\ (walk = "index" => InTrack)
          /\ IF End(h) - Data(h) >= 2
             THEN /\ stack' = Append(stack,
                       [Frame("entries", End(h)) EXCEPT !.left = h.entries,
                                                        !.trak = Top.trak])
                  /\ offset' = Data(h) + 2
                  /\ UNCHANGED <<walk, verdict, tables>>
             ELSE Fail
    BY <1>6 DEF OpenDescriptions
  <2> DEFINE frame == [Frame("entries", End(h)) EXCEPT !.left = h.entries,
                                                       !.trak = Top.trak]
  <2>2. CASE ~(End(h) - Data(h) >= 2)
    BY <2>1, <2>2, FailTables
  <2>3. CASE End(h) - Data(h) >= 2
    <3>1. /\ frame \in Frames /\ frame.end = End(h)
          /\ frame.kind = "entries" /\ frame.trak = Top.trak
      BY <2>1, TopTypes, BoxBounds DEF Frame, Frames, StackInv, TypeOK
    <3>2. Top.kind # "entries" /\ Walking
      BY <2>1 DEF Box, Walker
    <3> HIDE DEF frame
    <3>3. stack' = Append(stack, frame)
      BY <2>1, <2>3 DEF frame
    <3>4. /\ Len(stack') = Len(stack) + 1
          /\ \A d \in 1 .. Len(stack) : stack'[d] = stack[d]
          /\ stack'[Len(stack) + 1] = frame
      BY <2>1, <2>3, <3>1, <3>2, <3>3, BoxBounds, Pushed
    <3>5. CASE walk # "index"
      BY <2>1, <2>3, <3>5, OnlyLocating
    <3>6. CASE walk = "index"
      <4>1. Top.kind = "track"
        BY <2>1, <3>6 DEF InTrack
      <4>2. OpenInv'
        BY <2>1, <2>3, <3>1, <3>4, <4>1, SameTrackPushed DEF TablesInv
      <4>3. KnownTables'
        BY <2>1, <2>3 DEF TablesInv, KnownTables, Tabled
      <4> QED
        BY <2>1, <2>3, <3>2, <3>6, <4>2, <4>3, NoIndexYet
    <3> QED
      BY <3>5, <3>6
  <2> QED
    BY <2>2, <2>3
<1>7. CASE BadEntry
  BY <1>7, FailTables DEF BadEntry
<1>8. CASE Description
  <2>1. PICK h \in Headers :
          /\ Walking /\ Top.kind = "entries"
          /\ walk = "locate" => h.type # "gpmd"
          /\ tables' = IF h.type = "gpmd"
                       THEN tables \cup {<<"gpmd", Top.trak>>} ELSE tables
          /\ UNCHANGED <<walk, verdict>>
    BY <1>8 DEF Description, Entry
  <2>2. /\ Len(stack') = Len(stack)
        /\ \A d \in 1 .. Len(stack) :
             stack'[d].kind = stack[d].kind /\ stack'[d].trak = stack[d].trak
    BY <1>8, DescriptionStack
  <2>3. CASE walk # "index"
    <3>1. walk = "locate"
      BY <2>3 DEF StackInv, TypeOK, Walks
    <3> QED
      BY <2>1, <2>3, <3>1, OnlyLocating
  <2>4. CASE walk = "index" /\ h.type = "gpmd"
    BY <2>1, <2>2, <2>4, TableAdded
  <2>5. CASE walk = "index" /\ h.type # "gpmd"
    <3>1. OpenInv' /\ KnownTables'
      BY <2>1, <2>2, <2>5
         DEF TablesInv, OpenInv, TrackInSearch, OneOpen, OwnTables,
             KnownTables, Tabled
    <3> QED
      BY <2>1, <2>5, <3>1, NoIndexYet
  <2> QED
    BY <2>3, <2>4, <2>5
<1>9. CASE Located
  <2>1. /\ walk = "locate" /\ UNCHANGED <<walk, stack, offset, tables>>
        /\ verdict' = [verdict EXCEPT ![walk] = "found"]
    BY <1>9 DEF Located
  <2>2. verdict'["index"] = verdict["index"]
    BY <2>1, Ended DEF Walks
  <2> QED
    BY <2>1, <2>2, TablesKept
<1>10. CASE Leave
  <2>1. /\ Walking /\ UNCHANGED <<walk, verdict, tables>>
        /\ Len(stack') = Len(stack) - 1
        /\ \A d \in 1 .. Len(stack) - 1 : stack'[d] = stack[d]
    BY <1>10, LeaveStack DEF Leave, AtEnd
  <2>2. OpenInv' /\ KnownTables'
    BY <1>0, <2>1 DEF TablesInv, OpenInv, TrackInSearch, OneOpen, OwnTables,
                      KnownTables, Tabled
  <2>3. OneTrack'
    BY <2>1 DEF TablesInv, OneTrack, Tabled
  <2> QED
    BY <2>2, <2>3 DEF TablesInv
<1>11. CASE BuildIndex
  <2>1. /\ walk = "index" /\ Top.kind = "track" /\ "gpmd" \in Tabled
        /\ UNCHANGED <<walk, stack, offset, tables>>
    BY <1>11 DEF BuildIndex, GpmfTrack, TrackDone, InTrack
  <2>2. PICK result \in {"failed", "found"} :
          /\ verdict' = [verdict EXCEPT ![walk] = result]
          /\ result = "found" => OtherTables \subseteq Tabled
    BY <1>11 DEF BuildIndex
  <2>3. verdict'["index"] = result
    BY <2>1, <2>2, Ended
  <2>4. \A t \in tables : t[2] = Top.trak
    BY <1>0, <2>1 DEF TablesInv, OpenInv, OwnTables, Top
  <2>5. OpenInv' /\ KnownTables'
    BY <2>1 DEF TablesInv, OpenInv, TrackInSearch, OneOpen, OwnTables,
                KnownTables, Tabled
  <2>6. OneTrack'
    BY <2>1, <2>2, <2>3, <2>4 DEF TablesInv, KnownTables, OneTrack, Tabled
  <2> QED
    BY <2>5, <2>6 DEF TablesInv
<1>12. CASE NoTrack
  <2>1. /\ UNCHANGED <<walk, stack, offset, tables>>
        /\ verdict' = [verdict EXCEPT ![walk] = "none"]
    BY <1>12 DEF NoTrack
  <2>2. verdict'["index"] = "found" => verdict["index"] = "found"
    BY <2>1, Ended DEF Walks
  <2> QED
    BY <2>1, <2>2, TablesKept
<1>13. CASE Again
  BY <1>13, OnlyLocating DEF Again
<1>14. CASE UNCHANGED vars
  BY <1>14, TablesKept DEF vars
<1> QED
  BY <1>1, <1>2, <1>3, <1>4, <1>5, <1>6, <1>7, <1>8, <1>9, <1>10, <1>11,
     <1>12, <1>13, <1>14 DEF Next, Step, Finished

LEMMA WalkAlways == Spec => []WalkInv
<1>1. Init => WalkInv
  BY InitStack, InitTables DEF WalkInv
<1>2. WalkInv /\ [Next]_vars => WalkInv'
  BY StackStep, TablesStep DEF WalkInv
<1> QED
  BY <1>1, <1>2, PTL DEF Spec

\* All tables of an index are of one track, the one with the GPMF description,
\* and none is missing (mp4_gpmf_index.cc:293, 296).
THEOREM IndexOfOneTrack == Spec => []OneTrack
<1>1. WalkInv => OneTrack
  BY DEF WalkInv, TablesInv
<1> QED
  BY <1>1, WalkAlways, PTL
-----------------------------------------------------------------------------
(* The two walks agree.  A view is what a walk looks at: its stack and its *)
(* offset.  Moves says where a walk of file f goes from one view if it is  *)
(* in a file that nests as it should, whichever walk it is.                *)

Room(s, o) == s[Len(s)].end - o

Units(h, s, o) == CASE h.size = 0 -> Room(s, o)
                    [] h.size = 1 -> h.extended
                    [] OTHER -> h.size

Fits(h, s, o) ==
  Units(h, s, o) >= HeaderUnits(h) /\ Units(h, s, o) <= Room(s, o)

EntersBox(h, s, o, t, p) ==
  /\ h.type \in {"moov", "trak"} /\ Len(s) - 1 < MaximumDepth
  /\ h.type = "trak" => s[Len(s)].kind # "track"
  /\ t = Append(s, IF h.type = "trak"
                   THEN [kind |-> "track", end |-> o + Units(h, s, o),
                         left |-> 0, trak |-> o]
                   ELSE [s[Len(s)] EXCEPT !.end = o + Units(h, s, o)])
  /\ p = o + HeaderUnits(h)

OpensDescriptions(h, s, o, t, p) ==
  /\ h.type = "stsd" /\ s[Len(s)].kind = "track"
  /\ (o + Units(h, s, o)) - (o + HeaderUnits(h)) >= 2
  /\ t = Append(s, [kind |-> "entries", end |-> o + Units(h, s, o),
                    left |-> h.entries, trak |-> s[Len(s)].trak])
  /\ p = o + HeaderUnits(h) + 2

GoesPast(h, s, o, t, p) ==
  /\ h.type \notin {"moov", "trak", "stsd"}
  /\ t = s /\ p = o + Units(h, s, o)

MovesInBox(f, s, o, t, p) ==
  /\ s[Len(s)].kind # "entries" /\ o < s[Len(s)].end /\ Room(s, o) >= 2
  /\ o \in DOMAIN f /\ Fits(f[o], s, o)
  /\ \/ EntersBox(f[o], s, o, t, p)
     \/ OpensDescriptions(f[o], s, o, t, p)
     \/ GoesPast(f[o], s, o, t, p)

AtDescription(f, s, o) ==
  /\ s[Len(s)].kind = "entries" /\ s[Len(s)].left > 0
  /\ o \in DOMAIN f /\ Fits(f[o], s, o)

MovesOnEntry(f, s, o, t, p) ==
  /\ AtDescription(f, s, o) /\ f[o].type # "gpmd"
  /\ t = [s EXCEPT ![Len(s)].left = @ - 1]
  /\ p = o + Units(f[o], s, o)

IsAtEnd(s, o) ==
  IF s[Len(s)].kind = "entries" THEN s[Len(s)].left = 0
                                ELSE o >= s[Len(s)].end

MovesOut(s, o, t, p) ==
  /\ IsAtEnd(s, o) /\ Len(s) > 1
  /\ t = SubSeq(s, 1, Len(s) - 1) /\ p = s[Len(s)].end

Moves(f, s, o, t, p) ==
  \/ MovesInBox(f, s, o, t, p)
  \/ MovesOnEntry(f, s, o, t, p)
  \/ MovesOut(s, o, t, p)

Describes(f, s, o) == AtDescription(f, s, o) /\ f[o].type = "gpmd"

IsAtLast(s, o) == IsAtEnd(s, o) /\ Len(s) = 1

\* The views of a walk of file f from its beginning to the view last.
Leads(f, views, last) ==
  /\ \E v \in views : v.stack = Start /\ v.offset = 0
  /\ \A v \in views :
       \/ v = last
       \/ \E w \in views : Moves(f, v.stack, v.offset, w.stack, w.offset)

IsHere(v) == v.stack = stack /\ v.offset = offset

HasDescription == "gpmd" \in Tabled

\* While the first walk goes on, its views lead to where it is or, once it has
\* read a GPMF description, to that one; so they do when it has ended.
IndexPath(views, last) ==
  walk = "index" /\ Walking =>
    IF HasDescription THEN Describes(file, last.stack, last.offset)
    ELSE last \in views /\ IsHere(last)

Outcome(last) ==
  /\ verdict["index"] = "found" => Describes(file, last.stack, last.offset)
  /\ verdict["index"] = "none" => IsAtLast(last.stack, last.offset)

\* The second walk is on the path of the first.
LocatePath(views) ==
  /\ walk = "locate" /\ Walking /\ verdict["index"] \in {"found", "none"}
  => \E v \in views : IsHere(v)

PathInv ==
  nested => \E views, last : /\ Leads(file, views, last)
                             /\ IndexPath(views, last)
                             /\ Outcome(last)
                             /\ LocatePath(views)

\* The second walk ends as the first did.
Verdicts ==
  nested =>
    /\ verdict["index"] = "found" => verdict["locate"] \in {"pending", "found"}
    /\ verdict["index"] = "none" => verdict["locate"] \in {"pending", "none"}

OneAfterTheOther ==
  /\ walk = "index" => verdict["locate"] = "pending"
  /\ walk = "locate" => verdict["index"] # "pending"

\* Indexing has a GPMF description only while its track is open, and reads
\* descriptions in tracks only.
InOpenTrack ==
  walk = "index" =>
    /\ Walking /\ HasDescription => Top.kind # "search"
    /\ Top.kind = "entries" => stack[Len(stack) - 1].kind = "track"

FirstIsSearch == stack[1].kind = "search"

PlainInv == OneAfterTheOther /\ FirstIsSearch /\ InOpenTrack

AgreeInv == PlainInv /\ Verdicts /\ PathInv
-----------------------------------------------------------------------------
\* What a box that is entered, or a table of descriptions, puts on the stack.
LEMMA EnteredPushes ==
  ASSUME StackInv, NEW h \in Headers, Walker, Valid(h), Enter(h), NotTooDeep
  PROVE  /\ Len(stack) \in Nat \ {0} /\ Len(stack') = Len(stack) + 1
         /\ \A d \in 1 .. Len(stack) : stack'[d] = stack[d]
         /\ Top' = Entered(h)
         /\ Top'.kind = IF h.type = "trak" THEN "track" ELSE Top.kind
<1>1. /\ stack' = Append(stack, Entered(h)) /\ offset' = Data(h)
      /\ walk' = walk /\ verdict' = verdict
  BY DEF Enter
<1>2. Entered(h) \in Frames /\ Entered(h).end = End(h)
  BY TopTypes, BoxBounds DEF Entered, Frame, Frames, StackInv, TypeOK
<1>3. /\ Len(stack) \in Nat \ {0} /\ Len(stack') = Len(stack) + 1
      /\ \A d \in 1 .. Len(stack) : stack'[d] = stack[d]
      /\ stack'[Len(stack) + 1] = Entered(h)
  BY <1>1, <1>2, BoxBounds, Pushed, TopTypes DEF NotTooDeep, Walker
<1>4. Entered(h).kind = IF h.type = "trak" THEN "track" ELSE Top.kind
  BY TopTypes DEF Entered, Frame, Frames
<1> QED
  BY <1>3, <1>4 DEF Top

Descriptions(h) == [Frame("entries", End(h)) EXCEPT !.left = h.entries,
                                                    !.trak = Top.trak]

LEMMA DescriptionsPushed ==
  ASSUME StackInv, NEW h \in Headers, Walker, Valid(h),
         End(h) - Data(h) >= 2, stack' = Append(stack, Descriptions(h)),
         offset' = Data(h) + 2, UNCHANGED <<walk, verdict>>
  PROVE  /\ Len(stack) \in Nat \ {0} /\ Len(stack') = Len(stack) + 1
         /\ \A d \in 1 .. Len(stack) : stack'[d] = stack[d]
         /\ Top'.kind = "entries" /\ stack'[Len(stack') - 1] = Top
<1>1. /\ Descriptions(h) \in Frames /\ Descriptions(h).end = End(h)
      /\ Descriptions(h).kind = "entries"
  BY TopTypes, BoxBounds DEF Descriptions, Frame, Frames, StackInv, TypeOK
<1>2. /\ Len(stack) \in Nat \ {0} /\ Len(stack') = Len(stack) + 1
      /\ \A d \in 1 .. Len(stack) : stack'[d] = stack[d]
      /\ stack'[Len(stack) + 1] = Descriptions(h)
  BY <1>1, BoxBounds, Pushed, TopTypes DEF Walker
<1>3. Len(stack') - 1 = Len(stack) /\ Len(stack) \in 1 .. Len(stack)
  BY <1>2
<1> QED
  BY <1>1, <1>2, <1>3 DEF Top

LEMMA InitPlain == Init => PlainInv
<1> SUFFICES ASSUME Init PROVE PlainInv
  OBVIOUS
<1>1. Len(stack) = 1 /\ stack[1].kind = "search" /\ tables = {}
  BY DEF Init, Start
<1> QED
  BY <1>1 DEF Init, PlainInv, OneAfterTheOther, FirstIsSearch, InOpenTrack,
              Walks, Top, HasDescription, Tabled

\* Steps that keep the stack, the tables and the walk.
LEMMA PlainKept ==
  ASSUME StackInv, PlainInv, UNCHANGED <<walk, stack, tables>>,
         \/ verdict' = verdict
         \/ /\ Walking
            /\ \E result \in {"found", "none", "failed"} :
                 verdict' = [verdict EXCEPT ![walk] = result]
  PROVE  PlainInv'
<1>1. /\ walk \in Walks
      /\ verdict \in [Walks -> {"pending", "found", "none", "failed"}]
  BY DEF StackInv, TypeOK
<1>2. Walking' => Walking
  BY <1>1 DEF Walking
<1>3. OneAfterTheOther'
  BY <1>1 DEF Walks, PlainInv, OneAfterTheOther
<1> QED
  BY <1>2, <1>3 DEF PlainInv, FirstIsSearch, InOpenTrack, HasDescription,
                    Tabled, Top

LEMMA PlainStep ==
  ASSUME WalkInv, PlainInv, [Next]_vars
  PROVE  PlainInv'
<1>0. /\ StackInv /\ StackInv' /\ Len(stack) \in Nat \ {0}
      /\ 1 \in 1 .. Len(stack)
  BY StackStep, TopTypes DEF WalkInv
<1>fail. ASSUME Walking, Fail PROVE PlainInv'
  BY <1>0, <1>fail, PlainKept DEF Fail
<1>1. CASE TooShortForHeader
  BY <1>1, <1>fail DEF TooShortForHeader, Walker
<1>2. CASE BadBox
  BY <1>2, <1>fail DEF BadBox, Box, Walker
<1>3. CASE EnterBox
  <2>1. PICK h \in Headers : Walker /\ Valid(h) /\ Enter(h)
    BY <1>3 DEF EnterBox, Box
  <2>2. CASE ~NotTooDeep
    BY <2>1, <2>2, <1>fail DEF Enter, Walker
  <2>3. CASE NotTooDeep
    <3>1. /\ \A d \in 1 .. Len(stack) : stack'[d] = stack[d]
          /\ Top'.kind = IF h.type = "trak" THEN "track" ELSE Top.kind
      BY <1>0, <2>1, <2>3, EnteredPushes
    <3>2. /\ walk' = walk /\ verdict' = verdict /\ tables' = TablesIn(h)
          /\ Top.kind # "entries"
      BY <2>1, <2>3 DEF Enter, Walker
    <3>3. OneAfterTheOther' /\ FirstIsSearch'
      BY <1>0, <3>1, <3>2 DEF PlainInv, OneAfterTheOther, FirstIsSearch
    <3>4. ASSUME walk = "index", HasDescription', Walking'
          PROVE  Top'.kind # "search"
      <4>1. CASE h.type = "trak"
        BY <3>1, <4>1
      <4>2. CASE h.type # "trak"
        <5>1. tables' = tables /\ Walking
          BY <3>2, <3>4, <4>2 DEF TablesIn, Walking
        <5>2. HasDescription
          BY <3>4, <5>1 DEF HasDescription, Tabled
        <5> QED
          BY <3>1, <3>4, <4>2, <5>1, <5>2 DEF PlainInv, InOpenTrack
      <4> QED
        BY <4>1, <4>2
    <3>5. Top'.kind # "entries"
      BY <3>1, <3>2
    <3> QED
      BY <3>2, <3>3, <3>4, <3>5 DEF PlainInv, InOpenTrack
  <2> QED
    BY <2>2, <2>3
<1>4. CASE SkipBox
  BY <1>0, <1>4, PlainKept DEF SkipBox, Skip
<1>5. CASE ReadTable
  <2>1. PICK h \in Headers :
          /\ Walking /\ walk = "index" /\ Top.kind = "track"
          /\ \/ UNCHANGED <<walk, verdict, stack>>
             \/ Fail
    BY <1>5 DEF ReadTable, Box, Walker, InTrack
  <2>2. CASE Fail
    BY <2>1, <2>2, <1>fail
  <2>3. CASE UNCHANGED <<walk, verdict, stack>>
    BY <2>1, <2>3 DEF PlainInv, OneAfterTheOther, FirstIsSearch, InOpenTrack,
                      Top
  <2> QED
    BY <2>1, <2>2, <2>3
<1>6. CASE OpenDescriptions
  <2>1. PICK h \in Headers :
          /\ Walker /\ Valid(h) /\ (walk = "index" => InTrack)
          /\ IF End(h) - Data(h) >= 2
             THEN /\ stack' = Append(stack, Descriptions(h))
                  /\ offset' = Data(h) + 2
                  /\ UNCHANGED <<walk, verdict, tables>>
             ELSE Fail
    BY <1>6, ZenonT(20) DEF OpenDescriptions, Descriptions, Box
  <2>2. CASE ~(End(h) - Data(h) >= 2)
    BY <2>1, <2>2, <1>fail DEF Walker
  <2>3. CASE End(h) - Data(h) >= 2
    <3>1. /\ \A d \in 1 .. Len(stack) : stack'[d] = stack[d]
          /\ Top'.kind = "entries" /\ stack'[Len(stack') - 1] = Top
      BY <1>0, <2>1, <2>3, DescriptionsPushed
    <3> QED
      BY <1>0, <2>1, <2>3, <3>1
         DEF PlainInv, OneAfterTheOther, FirstIsSearch, InOpenTrack, InTrack
  <2> QED
    BY <2>2, <2>3
<1>7. CASE BadEntry
  BY <1>7, <1>fail DEF BadEntry, Entry
<1>8. CASE Description
  <2>1. /\ Len(stack') = Len(stack)
        /\ \A d \in 1 .. Len(stack) : stack'[d].kind = stack[d].kind
    BY <1>0, <1>8, DescriptionStack
  <2>2. UNCHANGED <<walk, verdict>> /\ Top.kind = "entries"
    BY <1>8 DEF Description, Entry
  <2>3. OneAfterTheOther' /\ FirstIsSearch'
    BY <1>0, <2>1, <2>2 DEF PlainInv, OneAfterTheOther, FirstIsSearch
  <2>4. Top'.kind = "entries"
    BY <1>0, <2>1, <2>2 DEF Top
  <2>5. ASSUME walk = "index" PROVE stack'[Len(stack') - 1].kind = "track"
    <3>1. stack[Len(stack) - 1].kind = "track"
      BY <2>2, <2>5 DEF PlainInv, InOpenTrack
    <3>2. Len(stack) # 1
      BY <1>0, <2>2 DEF PlainInv, FirstIsSearch, Top
    <3>3. Len(stack) - 1 \in 1 .. Len(stack)
      BY <1>0, <3>2
    <3> QED
      BY <2>1, <3>1, <3>3
  <2> QED
    BY <2>2, <2>3, <2>4, <2>5 DEF PlainInv, InOpenTrack
<1>9. CASE Located
  <2>1. /\ Walking /\ UNCHANGED <<walk, stack, offset, tables>>
        /\ verdict' = [verdict EXCEPT ![walk] = "found"]
    BY <1>9 DEF Located, Entry
  <2> QED
    BY <1>0, <2>1, PlainKept
<1>10. CASE Leave
  <2>1. /\ Walking /\ UNCHANGED <<walk, verdict, tables>> /\ Len(stack) > 1
        /\ Len(stack') = Len(stack) - 1
        /\ \A d \in 1 .. Len(stack) - 1 : stack'[d] = stack[d]
        /\ ~GpmfTrack
    BY <1>0, <1>10, LeaveStack DEF Leave, AtEnd
  <2>2. /\ Len(stack) - 1 \in 1 .. Len(stack) - 1
        /\ Len(stack) - 1 \in 1 .. Len(stack)
        /\ Len(stack) \in 1 .. Len(stack) /\ Len(stack) - 1 # Len(stack)
        /\ 1 \in 1 .. Len(stack) - 1 /\ Len(stack) - 1 <= Len(stack)
    BY <1>0, <2>1
  <2>3. Top' = stack[Len(stack) - 1]
    BY <2>1, <2>2 DEF Top
  <2>4. OneAfterTheOther' /\ FirstIsSearch'
    BY <2>1, <2>2 DEF PlainInv, OneAfterTheOther, FirstIsSearch
  <2>5. Top'.kind # "entries"
    BY <1>0, <2>2, <2>3 DEF StackInv, EntriesOnTop
  <2>6. ASSUME walk = "index", HasDescription
        PROVE  Top'.kind # "search"
    <3>1. Top.kind # "search"
      BY <2>1, <2>6 DEF PlainInv, InOpenTrack
    <3>2. CASE Top.kind = "entries"
      BY <2>3, <2>6, <3>2 DEF PlainInv, InOpenTrack
    <3>3. CASE Top.kind = "track"
      BY <2>1, <2>3, <2>6, <3>3
         DEF GpmfTrack, TrackDone, InTrack, HasDescription
    <3> QED
      BY <1>0, <3>1, <3>2, <3>3, TopTypes
  <2>7. HasDescription' <=> HasDescription
    BY <2>1 DEF HasDescription, Tabled
  <2> QED
    BY <2>1, <2>4, <2>5, <2>6, <2>7 DEF PlainInv, InOpenTrack
<1>11. CASE BuildIndex
  <2>1. /\ Walking /\ UNCHANGED <<walk, stack, offset, tables>>
        /\ \E result \in {"found", "none", "failed"} :
             verdict' = [verdict EXCEPT ![walk] = result]
    BY <1>11 DEF BuildIndex, AtEnd
  <2> QED
    BY <1>0, <2>1, PlainKept
<1>12. CASE NoTrack
  <2>1. /\ Walking /\ UNCHANGED <<walk, stack, offset, tables>>
        /\ verdict' = [verdict EXCEPT ![walk] = "none"]
    BY <1>12 DEF NoTrack, AtEnd
  <2> QED
    BY <1>0, <2>1, PlainKept
<1>13. CASE Again
  BY <1>13 DEF Again, Walking, PlainInv, OneAfterTheOther, FirstIsSearch,
               InOpenTrack, Start
<1>14. CASE UNCHANGED vars
  BY <1>0, <1>14, PlainKept DEF vars
<1> QED
  BY <1>1, <1>2, <1>3, <1>4, <1>5, <1>6, <1>7, <1>8, <1>9, <1>10, <1>11,
     <1>12, <1>13, <1>14 DEF Next, Step, Finished
-----------------------------------------------------------------------------
\* What has been read of the file is kept.
LEMMA FileGrows ==
  ASSUME [Next]_vars
  PROVE  \A o \in DOMAIN file : o \in DOMAIN file' /\ file'[o] = file[o]
<1>1. CASE UNCHANGED file
  BY <1>1
<1>2. CASE \E h \in Headers : HeaderAt(h) /\ Reveal(h)
  BY <1>2 DEF HeaderAt, Reveal
<1> QED
  BY <1>1, <1>2, ZenonT(40)
     DEF Next, Step, Finished, vars, TooShortForHeader, BadBox, EnterBox,
         SkipBox, ReadTable, OpenDescriptions, BadEntry, Description, Located,
         Leave, BuildIndex, NoTrack, Again, Box, Entry

LEMMA ReadHeader ==
  ASSUME NEW h, HeaderAt(h), Reveal(h)
  PROVE  offset \in DOMAIN file' /\ file'[offset] = h
BY DEF HeaderAt, Reveal

\* In a file that nests as it should, it has done so all along.
LEMMA NestedBefore ==
  ASSUME Step, nested'
  PROVE  nested
<1>1. CASE nested' = nested
  BY <1>1
<1>2. CASE EnterBox
  BY <1>2 DEF EnterBox, Enter, Fail
<1>3. CASE SkipBox
  BY <1>3 DEF SkipBox, Skip
<1>4. CASE OpenDescriptions
  <2>1. \/ nested' = (nested /\ InTrack)
        \/ Fail
    BY <1>4, ZenonT(20) DEF OpenDescriptions
  <2> QED
    BY <2>1 DEF Fail
<1>5. CASE ReadTable
  <2>1. nested' = nested \/ Fail
    BY <1>5, ZenonT(20) DEF ReadTable
  <2> QED
    BY <2>1 DEF Fail
<1>6. ASSUME \/ TooShortForHeader \/ BadBox \/ BadEntry \/ Description
             \/ Located \/ Leave \/ BuildIndex \/ NoTrack \/ Again
      PROVE  nested' = nested
  BY <1>6, ZenonT(20)
     DEF TooShortForHeader, BadBox, BadEntry, Description, Fail, Located,
         Leave, BuildIndex, NoTrack, Again
<1> QED
  BY <1>1, <1>2, <1>3, <1>4, <1>5, <1>6 DEF Step

\* The model's own terms for what a header says.
LEMMA UnitsAre ==
  ASSUME NEW h
  PROVE  /\ Units(h, stack, offset) = BoxUnits(h)
         /\ Fits(h, stack, offset) <=> Valid(h)
         /\ offset + Units(h, stack, offset) = End(h)
         /\ offset + HeaderUnits(h) = Data(h)
         /\ Room(stack, offset) = Top.end - offset
<1>1. Units(h, stack, offset) = BoxUnits(h)
  BY DEF Units, BoxUnits, Room, Top
<1> QED
  BY <1>1 DEF Fits, Valid, Room, Top, End, Data

LEMMA PushedFrames ==
  ASSUME NEW h
  PROVE  /\ Entered(h) = IF h.type = "trak"
                         THEN [kind |-> "track", end |-> End(h), left |-> 0,
                               trak |-> offset]
                         ELSE [Top EXCEPT !.end = End(h)]
         /\ Descriptions(h) = [kind |-> "entries", end |-> End(h),
                               left |-> h.entries, trak |-> Top.trak]
<1>1. \A kind : Frame(kind, End(h)) = [kind |-> kind, end |-> End(h),
                                       left |-> 0, trak |-> offset]
  BY DEF Frame
<1>2. Entered(h) = IF h.type = "trak"
                   THEN [kind |-> "track", end |-> End(h), left |-> 0,
                         trak |-> offset]
                   ELSE [Top EXCEPT !.end = End(h)]
  BY <1>1 DEF Entered
<1>3. Descriptions(h) = [kind |-> "entries", end |-> End(h),
                         left |-> h.entries, trak |-> Top.trak]
  <2>1. Descriptions(h) = [[kind |-> "entries", end |-> End(h), left |-> 0,
                            trak |-> offset]
                             EXCEPT !.left = h.entries, !.trak = Top.trak]
    BY <1>1 DEF Descriptions
  <2> QED
    BY <2>1
<1> QED
  BY <1>2, <1>3

\* The moves of the walks are those of a path.
LEMMA EnterMoves ==
  ASSUME NEW h, Box(h), Valid(h), Enter(h), NotTooDeep,
         h.type = "trak" => ~InTrack
  PROVE  MovesInBox(file', stack, offset, stack', offset')
<1>1. offset \in DOMAIN file' /\ file'[offset] = h
  BY ReadHeader DEF Box
<1>2. EntersBox(h, stack, offset, stack', offset')
  <2>1. h.type \in {"moov", "trak"} /\ Len(stack) - 1 < MaximumDepth
    BY DEF Enter, Container, Track, NotTooDeep, Depth
  <2>2. h.type = "trak" => stack[Len(stack)].kind # "track"
    BY DEF InTrack, Top
  <2>3. stack' = Append(stack, Entered(h)) /\ offset' = Data(h)
    BY DEF Enter
  <2> QED
    BY <2>1, <2>2, <2>3, UnitsAre, PushedFrames DEF EntersBox, Top
<1> QED
  BY <1>1, <1>2, UnitsAre DEF MovesInBox, Box, Walker, Top

LEMMA DescriptionsMove ==
  ASSUME NEW h, Box(h), Valid(h), h.type = "stsd", InTrack,
         End(h) - Data(h) >= 2, stack' = Append(stack, Descriptions(h)),
         offset' = Data(h) + 2
  PROVE  MovesInBox(file', stack, offset, stack', offset')
<1>1. offset \in DOMAIN file' /\ file'[offset] = h
  BY ReadHeader DEF Box
<1>2. OpensDescriptions(h, stack, offset, stack', offset')
  BY UnitsAre, PushedFrames DEF OpensDescriptions, InTrack, Top
<1> QED
  BY <1>1, <1>2, UnitsAre DEF MovesInBox, Box, Walker, Top

LEMMA SkipMoves ==
  ASSUME NEW h, Box(h), Valid(h), h.type \notin {"moov", "trak", "stsd"},
         stack' = stack, offset' = End(h)
  PROVE  MovesInBox(file', stack, offset, stack', offset')
<1>1. offset \in DOMAIN file' /\ file'[offset] = h
  BY ReadHeader DEF Box
<1>2. GoesPast(h, stack, offset, stack', offset')
  BY UnitsAre DEF GoesPast
<1> QED
  BY <1>1, <1>2, UnitsAre DEF MovesInBox, Box, Walker, Top

LEMMA EntryIsDescription ==
  ASSUME NEW h, Entry(h), Valid(h)
  PROVE  AtDescription(file', stack, offset) /\ file'[offset] = h
BY ReadHeader, UnitsAre DEF Entry, AtDescription, Top

\* Where a step of the first walk goes in a file that nests as it should.
IndexGoes ==
  \/ /\ verdict' = verdict /\ (HasDescription' <=> HasDescription)
     /\ Moves(file', stack, offset, stack', offset')
  \/ /\ verdict' = verdict /\ HasDescription'
     /\ Describes(file', stack, offset)
  \/ verdict'["index"] = "failed"
  \/ verdict'["index"] = "found" /\ HasDescription
  \/ /\ verdict'["index"] = "none" /\ ~HasDescription
     /\ IsAtLast(stack, offset)

LEMMA IndexStep ==
  ASSUME WalkInv, PlainInv, Step, walk = "index", Walking, nested'
  PROVE  walk' = walk /\ IndexGoes
<1>0. /\ StackInv /\ Len(stack) \in Nat \ {0}
      /\ verdict \in [Walks -> {"pending", "found", "none", "failed"}]
      /\ "index" \in Walks
  BY TopTypes DEF WalkInv, StackInv, TypeOK, Walks
<1>same. ASSUME tables' = tables PROVE HasDescription' <=> HasDescription
  BY <1>same DEF HasDescription, Tabled
<1>fail. ASSUME Fail PROVE walk' = walk /\ IndexGoes
  BY <1>0, <1>fail DEF Fail, IndexGoes
<1>1. CASE TooShortForHeader
  BY <1>1, <1>fail DEF TooShortForHeader
<1>2. CASE BadBox
  BY <1>2, <1>fail DEF BadBox
<1>3. CASE EnterBox
  <2>1. PICK h \in Headers : Box(h) /\ Valid(h) /\ Enter(h)
    BY <1>3 DEF EnterBox
  <2>2. CASE ~NotTooDeep
    BY <2>1, <2>2, <1>fail DEF Enter
  <2>3. CASE NotTooDeep
    <3>1. /\ h.type = "trak" => ~InTrack
          /\ UNCHANGED <<walk, verdict>> /\ tables' = TablesIn(h)
      BY <2>1, <2>3 DEF Enter
    <3>2. Moves(file', stack, offset, stack', offset')
      BY <2>1, <2>3, <3>1, EnterMoves DEF Moves
    <3>3. HasDescription' <=> HasDescription
      <4>1. CASE h.type = "trak"
        <5>1. tables' = {} /\ Top.kind \notin {"entries", "track"}
          BY <2>1, <3>1, <4>1 DEF TablesIn, Box, Walker, InTrack
        <5>2. Top.kind = "search"
          BY <1>0, <5>1, TopTypes
        <5>3. ~HasDescription
          BY <5>2 DEF PlainInv, InOpenTrack
        <5>4. ~HasDescription'
          BY <5>1 DEF HasDescription, Tabled
        <5> QED
          BY <5>3, <5>4
      <4>2. CASE h.type # "trak"
        BY <1>same, <3>1, <4>2 DEF TablesIn
      <4> QED
        BY <4>1, <4>2
    <3> QED
      BY <3>1, <3>2, <3>3 DEF IndexGoes
  <2> QED
    BY <2>2, <2>3
<1>4. CASE SkipBox
  <2>1. PICK h \in Headers : Box(h) /\ Valid(h) /\ Skip(h)
    BY <1>4 DEF SkipBox
  <2>2. /\ h.type \notin {"moov", "trak", "stsd"} /\ stack' = stack
        /\ offset' = End(h) /\ UNCHANGED <<walk, verdict, tables>>
    BY <2>1 DEF Skip, Skipped, Container
  <2>3. Moves(file', stack, offset, stack', offset')
    BY <2>1, <2>2, SkipMoves DEF Moves
  <2> QED
    BY <1>same, <2>2, <2>3 DEF IndexGoes
<1>5. CASE ReadTable
  <2>1. PICK h \in Headers :
          /\ Box(h) /\ Valid(h) /\ h.type \in OtherTables
          /\ \/ /\ tables' = tables \cup {<<h.type, Top.trak>>}
                /\ offset' = End(h)
                /\ UNCHANGED <<walk, verdict, stack>>
             \/ Fail
    BY <1>5 DEF ReadTable
  <2>2. CASE Fail
    BY <2>2, <1>fail
  <2>3. CASE /\ tables' = tables \cup {<<h.type, Top.trak>>}
             /\ offset' = End(h)
             /\ UNCHANGED <<walk, verdict, stack>>
    <3>1. h.type \notin {"moov", "trak", "stsd", "gpmd"}
      BY <2>1, WalkAssumption
    <3>2. Moves(file', stack, offset, stack', offset')
      BY <2>1, <2>3, <3>1, SkipMoves DEF Moves
    <3>3. HasDescription' <=> HasDescription
      BY <2>3, <3>1 DEF HasDescription, Tabled
    <3> QED
      BY <2>3, <3>2, <3>3 DEF IndexGoes
  <2> QED
    BY <2>1, <2>2, <2>3
<1>6. CASE OpenDescriptions
  <2>1. PICK h \in Headers :
          /\ Box(h) /\ Valid(h) /\ h.type = "stsd"
          /\ (walk = "index" => InTrack)
          /\ IF End(h) - Data(h) >= 2
             THEN /\ stack' = Append(stack, Descriptions(h))
                  /\ offset' = Data(h) + 2
                  /\ UNCHANGED <<walk, verdict, tables>>
             ELSE Fail
    BY <1>6, ZenonT(20) DEF OpenDescriptions, Descriptions
  <2>2. CASE ~(End(h) - Data(h) >= 2)
    BY <2>1, <2>2, <1>fail
  <2>3. CASE End(h) - Data(h) >= 2
    <3>1. Moves(file', stack, offset, stack', offset')
      BY <2>1, <2>3, DescriptionsMove DEF Moves
    <3> QED
      BY <1>same, <2>1, <2>3, <3>1 DEF IndexGoes
  <2> QED
    BY <2>2, <2>3
<1>7. CASE BadEntry
  BY <1>7, <1>fail DEF BadEntry
<1>8. CASE Description
  <2>1. PICK h \in Headers :
          /\ Entry(h) /\ Valid(h) /\ offset' = End(h)
          /\ stack' = [stack EXCEPT ![Len(stack)].left = @ - 1]
          /\ tables' = IF h.type = "gpmd"
                       THEN tables \cup {<<"gpmd", Top.trak>>} ELSE tables
          /\ UNCHANGED <<walk, verdict>>
    BY <1>8 DEF Description
  <2>2. AtDescription(file', stack, offset) /\ file'[offset] = h
    BY <2>1, EntryIsDescription
  <2>3. CASE h.type = "gpmd"
    <3>1. HasDescription'
      <4>1. <<"gpmd", Top.trak>> \in tables'
        BY <2>1, <2>3
      <4> QED
        BY <4>1 DEF HasDescription, Tabled
    <3> QED
      BY <2>1, <2>2, <2>3, <3>1 DEF IndexGoes, Describes
  <2>4. CASE h.type # "gpmd"
    <3>1. MovesOnEntry(file', stack, offset, stack', offset')
      BY <2>1, <2>2, <2>4, UnitsAre DEF MovesOnEntry
    <3> QED
      BY <1>same, <2>1, <2>4, <3>1 DEF IndexGoes, Moves
  <2> QED
    BY <2>3, <2>4
<1>9. CASE Located
  BY <1>9 DEF Located
<1>10. CASE Leave
  <2>1. /\ AtEnd /\ Len(stack) > 1
        /\ stack' = SubSeq(stack, 1, Len(stack) - 1)
        /\ offset' = Top.end
        /\ UNCHANGED <<walk, verdict, tables>>
    BY <1>10 DEF Leave
  <2>2. MovesOut(stack, offset, stack', offset')
    BY <2>1 DEF MovesOut, AtEnd, IsAtEnd, Top
  <2> QED
    BY <1>same, <2>1, <2>2 DEF IndexGoes, Moves
<1>11. CASE BuildIndex
  <2>1. HasDescription /\ walk' = walk
    BY <1>11 DEF BuildIndex, GpmfTrack, HasDescription
  <2>2. PICK result \in {"failed", "found"} :
          verdict' = [verdict EXCEPT ![walk] = result]
    BY <1>11 DEF BuildIndex
  <2> QED
    BY <1>0, <2>1, <2>2 DEF IndexGoes
<1>12. CASE NoTrack
  <2>1. /\ AtEnd /\ Len(stack) = 1 /\ walk' = walk
        /\ verdict' = [verdict EXCEPT ![walk] = "none"]
    BY <1>12 DEF NoTrack
  <2>2. IsAtLast(stack, offset)
    BY <2>1 DEF IsAtLast, AtEnd, IsAtEnd, Top
  <2>3. ~HasDescription
    BY <2>1 DEF PlainInv, FirstIsSearch, InOpenTrack, Top
  <2> QED
    BY <1>0, <2>1, <2>2, <2>3 DEF IndexGoes
<1>13. CASE Again
  BY <1>13 DEF Again
<1> QED
  BY <1>1, <1>2, <1>3, <1>4, <1>5, <1>6, <1>7, <1>8, <1>9, <1>10, <1>11,
     <1>12, <1>13 DEF Step
-----------------------------------------------------------------------------
Grows(f, g) == \A o \in DOMAIN f : o \in DOMAIN g /\ g[o] = f[o]

\* A path stays one when more of the file is read.
LEMMA StillMoves ==
  ASSUME NEW f, NEW g, Grows(f, g), NEW s, NEW o
  PROVE  /\ \A t, p : Moves(f, s, o, t, p) => Moves(g, s, o, t, p)
         /\ Describes(f, s, o) => Describes(g, s, o)
<1>1. CASE o \notin DOMAIN f
  BY <1>1 DEF Moves, MovesInBox, MovesOnEntry, AtDescription, Describes
<1>2. CASE o \in DOMAIN f
  <2>1. o \in DOMAIN g /\ g[o] = f[o]
    BY <1>2 DEF Grows
  <2>2. AtDescription(f, s, o) => AtDescription(g, s, o)
    BY <1>2, <2>1 DEF AtDescription
  <2>3. ASSUME NEW t, NEW p, MovesInBox(f, s, o, t, p)
        PROVE  MovesInBox(g, s, o, t, p)
    BY <1>2, <2>1, <2>3 DEF MovesInBox
  <2> QED
    BY <1>2, <2>1, <2>2, <2>3 DEF Moves, MovesOnEntry, Describes
<1> QED
  BY <1>1, <1>2

LEMMA StillLeads ==
  ASSUME NEW f, NEW g, Grows(f, g), NEW views, NEW last,
         Leads(f, views, last)
  PROVE  Leads(g, views, last)
BY StillMoves DEF Leads

LEMMA LeadsOn ==
  ASSUME NEW f, NEW views, NEW last \in views, Leads(f, views, last), NEW next,
         Moves(f, last.stack, last.offset, next.stack, next.offset)
  PROVE  Leads(f, views \cup {next}, next)
<1> SUFFICES ASSUME NEW v \in views \cup {next}, v # next
             PROVE  \E w \in views \cup {next} :
                      Moves(f, v.stack, v.offset, w.stack, w.offset)
  BY DEF Leads
<1>1. CASE v = last
  BY <1>1
<1>2. CASE v # last
  BY <1>2 DEF Leads
<1> QED
  BY <1>1, <1>2

View == [stack |-> stack, offset |-> offset]

LEMMA InitPath == Init => Verdicts /\ PathInv
<1> SUFFICES ASSUME Init PROVE Verdicts /\ PathInv
  OBVIOUS
<1>1. /\ View.stack = Start /\ View.offset = 0 /\ IsHere(View)
      /\ verdict["index"] = "pending" /\ walk = "index" /\ ~HasDescription
  BY DEF Init, View, IsHere, Walks, HasDescription, Tabled
<1>2. /\ Leads(file, {View}, View) /\ IndexPath({View}, View)
      /\ Outcome(View) /\ LocatePath({View})
  BY <1>1 DEF Leads, IndexPath, Outcome, LocatePath
<1>3. PathInv
  BY <1>2 DEF PathInv
<1> QED
  BY <1>1, <1>3 DEF Verdicts

\* The first walk makes the path.
LEMMA IndexMakesPath ==
  ASSUME WalkInv, AgreeInv, Step, walk = "index", Walking
  PROVE  Verdicts' /\ PathInv'
<1> SUFFICES ASSUME nested' PROVE Verdicts' /\ PathInv'
  BY DEF Verdicts, PathInv
<1>1. nested /\ walk' = walk /\ IndexGoes
  BY NestedBefore, IndexStep DEF AgreeInv
<1>2. Verdicts'
  <2>1. PlainInv'
    BY PlainStep DEF AgreeInv, Next
  <2> QED
    BY <1>1, <2>1 DEF PlainInv, OneAfterTheOther, Verdicts
<1>3. PICK views, last : /\ Leads(file, views, last)
                         /\ IndexPath(views, last)
  BY <1>1 DEF AgreeInv, PathInv
<1>4. Grows(file, file')
  BY FileGrows DEF Next, Grows
<1>5. Leads(file', views, last)
  BY <1>3, <1>4, StillLeads
<1>6. HasDescription => Describes(file', last.stack, last.offset)
  BY <1>3, <1>4, StillMoves DEF IndexPath
<1>7. ~HasDescription => last \in views /\ IsHere(last)
  BY <1>3 DEF IndexPath
<1>8. verdict["index"] = "pending"
  BY DEF Walking
<1>9. \A v : LocatePath(v)'
  BY <1>1 DEF LocatePath
<1>10. CASE /\ verdict' = verdict /\ (HasDescription' <=> HasDescription)
            /\ Moves(file', stack, offset, stack', offset')
  <2>1. \A v : Outcome(v)'
    BY <1>8, <1>10 DEF Outcome
  <2>2. CASE HasDescription
    <3>1. IndexPath(views, last)'
      BY <1>6, <1>10, <2>2 DEF IndexPath
    <3> QED
      BY <1>2, <1>5, <1>9, <2>1, <3>1 DEF PathInv
  <2>3. CASE ~HasDescription
    <3>0. PICK next : next.stack = stack' /\ next.offset = offset'
      <4>1. /\ [stack |-> stack', offset |-> offset'].stack = stack'
            /\ [stack |-> stack', offset |-> offset'].offset = offset'
        OBVIOUS
      <4> QED
        BY <4>1
    <3>1. Moves(file', last.stack, last.offset, next.stack, next.offset)
      BY <1>7, <1>10, <2>3, <3>0 DEF IsHere
    <3>2. IsHere(next)' /\ next \in views \cup {next}
      BY <3>0 DEF IsHere
    <3>3. Leads(file', views \cup {next}, next)
      BY <1>5, <1>7, <2>3, <3>1, LeadsOn
    <3>4. IndexPath(views \cup {next}, next)'
      BY <1>10, <2>3, <3>2 DEF IndexPath
    <3> QED
      BY <1>9, <2>1, <3>3, <3>4, <1>2 DEF PathInv
  <2> QED
    BY <2>2, <2>3
<1>11. CASE /\ verdict' = verdict /\ HasDescription'
            /\ Describes(file', stack, offset)
  <2>1. Describes(file', last.stack, last.offset)
    BY <1>6, <1>7, <1>11 DEF IsHere
  <2>2. IndexPath(views, last)' /\ Outcome(last)'
    BY <1>8, <1>11, <2>1 DEF IndexPath, Outcome
  <2> QED
    BY <1>2, <1>5, <1>9, <2>2 DEF PathInv
<1>12. CASE verdict'["index"] = "failed"
  <2>1. IndexPath(views, last)' /\ Outcome(last)'
    BY <1>1, <1>12 DEF IndexPath, Outcome, Walking
  <2> QED
    BY <1>2, <1>5, <1>9, <2>1 DEF PathInv
<1>13. CASE verdict'["index"] = "found" /\ HasDescription
  <2>1. IndexPath(views, last)' /\ Outcome(last)'
    BY <1>1, <1>6, <1>13 DEF IndexPath, Outcome, Walking
  <2> QED
    BY <1>2, <1>5, <1>9, <2>1 DEF PathInv
<1>14. CASE /\ verdict'["index"] = "none" /\ ~HasDescription
            /\ IsAtLast(stack, offset)
  <2>1. IndexPath(views, last)' /\ Outcome(last)'
    BY <1>1, <1>7, <1>14 DEF IndexPath, Outcome, Walking, IsHere
  <2> QED
    BY <1>2, <1>5, <1>9, <2>1 DEF PathInv
<1> QED
  BY <1>1, <1>10, <1>11, <1>12, <1>13, <1>14 DEF IndexGoes
-----------------------------------------------------------------------------
\* What the second walk does where the first has been, by the kind of step:
\* at a box, at a description, and at the end of what it is in.
AtBox ==
  /\ Walker /\ Top.end - offset >= 2
  /\ offset \in DOMAIN file /\ Valid(file[offset])

LEMMA BoxSteps ==
  ASSUME StackInv, AtBox, Step
  PROVE  /\ walk' = walk
         /\ \E h \in Headers :
              /\ h = file[offset] /\ Valid(h)
              /\ \/ Enter(h)
                 \/ Skip(h)
                 \/ walk = "index"
                 \/ /\ h.type = "stsd" /\ End(h) - Data(h) < 2 /\ Fail
                 \/ /\ h.type = "stsd" /\ End(h) - Data(h) >= 2
                    /\ stack' = Append(stack, Descriptions(h))
                    /\ offset' = Data(h) + 2 /\ verdict' = verdict
<1>0. /\ Walking /\ Top.kind # "entries" /\ ~AtEnd
      /\ \A h : HeaderAt(h) <=> h = file[offset]
  BY TopTypes DEF AtBox, Walker, AtEnd, HeaderAt, StackInv, TypeOK
<1>1. CASE TooShortForHeader
  BY <1>1, TopTypes DEF TooShortForHeader, AtBox, StackInv, TypeOK
<1>2. CASE BadBox
  BY <1>0, <1>2 DEF BadBox, Box, AtBox
<1>3. CASE EnterBox
  BY <1>0, <1>3 DEF EnterBox, Box, Enter, Fail
<1>4. CASE SkipBox
  BY <1>0, <1>4 DEF SkipBox, Box, Skip
<1>5. CASE ReadTable
  <2>1. PICK h \in Headers :
          /\ Box(h) /\ Valid(h) /\ walk = "index"
          /\ walk' = walk \/ Fail
    BY <1>5 DEF ReadTable
  <2> QED
    BY <1>0, <2>1 DEF Box, Fail
<1>6. CASE OpenDescriptions
  <2>1. PICK h \in Headers :
          /\ Box(h) /\ Valid(h) /\ h.type = "stsd"
          /\ IF End(h) - Data(h) >= 2
             THEN /\ stack' = Append(stack, Descriptions(h))
                  /\ offset' = Data(h) + 2
                  /\ UNCHANGED <<walk, verdict, tables>>
             ELSE Fail
    BY <1>6, ZenonT(20) DEF OpenDescriptions, Descriptions
  <2>2. Data(h) \in Nat /\ End(h) \in Nat
    BY <2>1, BoxBounds
  <2>3. h = file[offset]
    BY <1>0, <2>1 DEF Box
  <2>4. CASE End(h) - Data(h) >= 2
    BY <2>1, <2>3, <2>4
  <2>5. CASE ~(End(h) - Data(h) >= 2)
    BY <2>1, <2>2, <2>3, <2>5 DEF Fail
  <2> QED
    BY <2>4, <2>5
<1>7. CASE BadEntry \/ Description \/ Located
  BY <1>0, <1>7 DEF BadEntry, Description, Located, Entry
<1>8. CASE Leave \/ BuildIndex \/ NoTrack
  BY <1>0, <1>8 DEF Leave, BuildIndex, NoTrack
<1>9. CASE Again
  BY <1>0, <1>9 DEF Again
<1> QED
  BY <1>1, <1>2, <1>3, <1>4, <1>5, <1>6, <1>7, <1>8, <1>9 DEF Step

LEMMA EntrySteps ==
  ASSUME walk = "locate", Walking, AtDescription(file, stack, offset), Step
  PROVE  \/ Located /\ file[offset].type = "gpmd"
         \/ /\ Description /\ file[offset].type # "gpmd"
            /\ offset' = End(file[offset])
<1>0. /\ Top.kind = "entries" /\ Top.left > 0 /\ Valid(file[offset])
      /\ ~AtEnd /\ ~Walker
      /\ \A h : HeaderAt(h) <=> h = file[offset]
  <2>1. Top.kind = "entries" /\ Top.left > 0 /\ Valid(file[offset])
        /\ offset \in DOMAIN file
    BY UnitsAre DEF AtDescription, Top
  <2>2. Top.left # 0
    BY <2>1
  <2> QED
    BY <2>1, <2>2 DEF AtEnd, Walker, HeaderAt
<1>1. ~(TooShortForHeader \/ BadBox \/ EnterBox \/ SkipBox \/ ReadTable)
  BY <1>0 DEF TooShortForHeader, BadBox, EnterBox, SkipBox, ReadTable, Box
<1>2. ~OpenDescriptions
  BY <1>0 DEF OpenDescriptions, Box
<1>3. ~(Leave \/ BuildIndex \/ NoTrack \/ Again)
  BY <1>0 DEF Leave, BuildIndex, NoTrack, Again
<1>4. ~BadEntry
  BY <1>0 DEF BadEntry, Entry
<1>5. Located => file[offset].type = "gpmd"
  BY <1>0 DEF Located, Entry
<1>6. Description => /\ file[offset].type # "gpmd"
                     /\ offset' = End(file[offset])
  BY <1>0 DEF Description, Entry
<1> QED
  BY <1>1, <1>2, <1>3, <1>4, <1>5, <1>6 DEF Step

LEMMA EndSteps ==
  ASSUME StackInv, walk = "locate", Walking, AtEnd, Step
  PROVE  /\ Len(stack) > 1 => Leave
         /\ Len(stack) = 1 => NoTrack
<1>0. /\ ~Walker /\ Len(stack) \in Nat \ {0}
      /\ ~(Top.kind = "entries" /\ Top.left > 0)
  BY TopTypes DEF AtEnd, Walker, StackInv, TypeOK
<1>1. ~(TooShortForHeader \/ BadBox \/ EnterBox \/ SkipBox \/ ReadTable)
  BY <1>0 DEF TooShortForHeader, BadBox, EnterBox, SkipBox, ReadTable, Box
<1>2. ~OpenDescriptions
  BY <1>0 DEF OpenDescriptions, Box
<1>3. ~(BadEntry \/ Description \/ Located)
  BY <1>0 DEF BadEntry, Description, Located, Entry
<1>4. ~(BuildIndex \/ Again)
  BY DEF BuildIndex, GpmfTrack, TrackDone, Again
<1>5. (NoTrack => Len(stack) = 1) /\ (Leave => Len(stack) > 1)
  BY DEF Leave, NoTrack
<1>6. Leave \/ NoTrack
  BY <1>1, <1>2, <1>3, <1>4 DEF Step
<1>7. ~(Len(stack) = 1 /\ Len(stack) > 1)
  BY <1>0
<1> QED
  BY <1>5, <1>6, <1>7

\* It follows every move,
LEMMA LocateFollows ==
  ASSUME StackInv, walk = "locate", Walking, Step, NEW v,
         Moves(file, stack, offset, v.stack, v.offset)
  PROVE  IsHere(v)' /\ UNCHANGED <<walk, verdict>>
<1>1. CASE MovesInBox(file, stack, offset, v.stack, v.offset)
  <2>1. AtBox
    BY <1>1, UnitsAre DEF MovesInBox, AtBox, Walker, Top
  <2>2. PICK h \in Headers :
          /\ h = file[offset] /\ Valid(h)
          /\ \/ Enter(h)
             \/ Skip(h)
             \/ /\ h.type = "stsd" /\ End(h) - Data(h) < 2
             \/ /\ h.type = "stsd" /\ End(h) - Data(h) >= 2
                /\ stack' = Append(stack, Descriptions(h))
                /\ offset' = Data(h) + 2 /\ verdict' = verdict
    BY <2>1, BoxSteps
  <2>3. walk' = walk
    BY <2>1, BoxSteps
  <2>4. Data(h) \in Nat /\ End(h) \in Nat
    BY <2>2, BoxBounds
  <2>5. CASE EntersBox(h, stack, offset, v.stack, v.offset)
    <3>1. h.type \in {"moov", "trak"} /\ NotTooDeep
      BY <2>5 DEF EntersBox, NotTooDeep, Depth
    <3>2. Enter(h)
      BY <2>2, <3>1 DEF Skip, Skipped, Container
    <3>3. /\ stack' = Append(stack, Entered(h)) /\ offset' = Data(h)
          /\ verdict' = verdict
      BY <3>1, <3>2 DEF Enter
    <3>4. v.stack = Append(stack, Entered(h)) /\ v.offset = Data(h)
      BY <2>5, <3>1, UnitsAre, PushedFrames DEF EntersBox, Top
    <3> QED
      BY <2>3, <3>3, <3>4 DEF IsHere
  <2>6. CASE OpensDescriptions(h, stack, offset, v.stack, v.offset)
    <3>1. /\ h.type = "stsd" /\ End(h) - Data(h) >= 2
          /\ v.stack = Append(stack, Descriptions(h))
          /\ v.offset = Data(h) + 2
      BY <2>6, UnitsAre, PushedFrames DEF OpensDescriptions, Top
    <3>2. ~Enter(h) /\ ~Skip(h)
      BY <3>1 DEF Enter, Container, Track, Skip
    <3>3. /\ stack' = Append(stack, Descriptions(h))
          /\ offset' = Data(h) + 2 /\ verdict' = verdict
      BY <2>2, <2>4, <3>1, <3>2
    <3> QED
      BY <2>3, <3>1, <3>3 DEF IsHere
  <2>7. CASE GoesPast(h, stack, offset, v.stack, v.offset)
    <3>1. /\ h.type \notin {"moov", "trak", "stsd"}
          /\ v.stack = stack /\ v.offset = End(h)
      BY <2>7, UnitsAre DEF GoesPast
    <3>2. ~Enter(h)
      BY <3>1 DEF Enter, Container, Track
    <3>3. Skip(h)
      BY <2>2, <3>1, <3>2
    <3> QED
      BY <3>1, <3>3 DEF Skip, IsHere
  <2> QED
    BY <1>1, <2>2, <2>5, <2>6, <2>7 DEF MovesInBox
<1>2. CASE MovesOnEntry(file, stack, offset, v.stack, v.offset)
  <2>1. /\ Description /\ offset' = End(file[offset])
        /\ v.stack = [stack EXCEPT ![Len(stack)].left = @ - 1]
        /\ v.offset = End(file[offset])
    BY <1>2, EntrySteps, UnitsAre DEF MovesOnEntry
  <2>2. /\ stack' = [stack EXCEPT ![Len(stack)].left = @ - 1]
        /\ UNCHANGED <<walk, verdict>>
    BY <2>1 DEF Description
  <2> QED
    BY <2>1, <2>2 DEF IsHere
<1>3. CASE MovesOut(stack, offset, v.stack, v.offset)
  <2>1. AtEnd /\ Len(stack) > 1
    BY <1>3 DEF MovesOut, AtEnd, IsAtEnd, Top
  <2>2. Leave
    BY <2>1, EndSteps
  <2> QED
    BY <1>3, <2>2 DEF Leave, MovesOut, IsHere, Top
<1> QED
  BY <1>1, <1>2, <1>3 DEF Moves

\* finds the description that the first has read,
LEMMA LocateFinds ==
  ASSUME walk = "locate", Walking, Step, Describes(file, stack, offset)
  PROVE  walk' = walk /\ verdict' = [verdict EXCEPT ![walk] = "found"]
BY EntrySteps DEF Describes, Located

\* and ends where the first has found none.
LEMMA LocateEnds ==
  ASSUME StackInv, walk = "locate", Walking, Step, IsAtLast(stack, offset)
  PROVE  walk' = walk /\ verdict' = [verdict EXCEPT ![walk] = "none"]
<1>1. AtEnd /\ Len(stack) = 1
  BY DEF IsAtLast, AtEnd, IsAtEnd, Top
<1> QED
  BY <1>1, EndSteps DEF NoTrack
-----------------------------------------------------------------------------
LEMMA LocateStep ==
  ASSUME WalkInv, AgreeInv, Step, walk = "locate", Walking
  PROVE  Verdicts' /\ PathInv'
<1> SUFFICES ASSUME nested' PROVE Verdicts' /\ PathInv'
  BY DEF Verdicts, PathInv
<1>0. /\ nested /\ StackInv /\ "index" # "locate"
      /\ verdict \in [Walks -> {"pending", "found", "none", "failed"}]
      /\ "index" \in Walks /\ "locate" \in Walks
  BY NestedBefore DEF WalkInv, StackInv, TypeOK, Walks
<1>1. PICK views, last : /\ Leads(file, views, last)
                         /\ Outcome(last)
                         /\ LocatePath(views)
  BY <1>0 DEF AgreeInv, PathInv
<1>2. Leads(file', views, last)
  BY <1>1, FileGrows, StillLeads DEF Next, Grows
<1>3. walk' = "locate" /\ verdict'["index"] = verdict["index"]
  <2>1. /\ walk' = walk
        /\ \/ verdict' = verdict
           \/ \E result : verdict' = [verdict EXCEPT ![walk] = result]
    <3>1. CASE Again
      BY <3>1 DEF Again
    <3>2. CASE Fail
      BY <3>2 DEF Fail
    <3>3. CASE UNCHANGED <<walk, verdict>>
      BY <3>3
    <3>4. CASE Located \/ BuildIndex \/ NoTrack
      BY <3>4 DEF Located, BuildIndex, NoTrack
    <3>5. TooShortForHeader \/ BadBox \/ BadEntry => Fail
      BY DEF TooShortForHeader, BadBox, BadEntry
    <3>6. Description \/ Leave => UNCHANGED <<walk, verdict>>
      BY DEF Description, Leave
    <3>7. EnterBox \/ SkipBox => UNCHANGED <<walk, verdict>> \/ Fail
      BY DEF EnterBox, Enter, SkipBox, Skip
    <3>8. ReadTable \/ OpenDescriptions =>
            UNCHANGED <<walk, verdict>> \/ Fail
      BY ZenonT(30) DEF ReadTable, OpenDescriptions
    <3> QED
      BY <3>1, <3>2, <3>3, <3>4, <3>5, <3>6, <3>7, <3>8 DEF Step
  <2> QED
    BY <1>0, <2>1
<1>4. Outcome(last)'
  BY <1>1, <1>3, FileGrows, StillMoves DEF Outcome, Next, Grows
<1>5. IndexPath(views, last)'
  BY <1>3 DEF IndexPath
<1>6. CASE verdict["index"] \notin {"found", "none"}
  <2>1. LocatePath(views)' /\ Verdicts'
    BY <1>3, <1>6 DEF LocatePath, Verdicts
  <2> QED
    BY <1>2, <1>4, <1>5, <2>1 DEF PathInv
<1>7. CASE verdict["index"] \in {"found", "none"}
  <2>1. PICK v \in views : IsHere(v)
    BY <1>1, <1>7 DEF LocatePath
  <2>2. verdict["locate"] = "pending"
    BY DEF Walking
  <2>3. CASE \E w \in views : Moves(file, v.stack, v.offset, w.stack, w.offset)
    <3>1. PICK w \in views : Moves(file, stack, offset, w.stack, w.offset)
      BY <2>1, <2>3 DEF IsHere
    <3>2. IsHere(w)' /\ verdict' = verdict
      BY <1>0, <3>1, LocateFollows
    <3>3. LocatePath(views)' /\ Verdicts'
      BY <2>2, <3>2 DEF LocatePath, Verdicts
    <3> QED
      BY <1>2, <1>4, <1>5, <3>3 DEF PathInv
  <2>4. CASE v = last
    <3>1. CASE verdict["index"] = "found"
      <4>1. Describes(file, stack, offset)
        BY <1>1, <2>1, <2>4, <3>1 DEF Outcome, IsHere
      <4>2. verdict' = [verdict EXCEPT ![walk] = "found"]
        BY <4>1, LocateFinds
      <4>3. verdict'["locate"] = "found"
        BY <1>0, <4>2
      <4>4. LocatePath(views)' /\ Verdicts'
        BY <1>3, <3>1, <4>3 DEF LocatePath, Verdicts, Walking
      <4> QED
        BY <1>2, <1>4, <1>5, <4>4 DEF PathInv
    <3>2. CASE verdict["index"] = "none"
      <4>1. IsAtLast(stack, offset)
        BY <1>1, <2>1, <2>4, <3>2 DEF Outcome, IsHere
      <4>2. verdict' = [verdict EXCEPT ![walk] = "none"]
        BY <1>0, <4>1, LocateEnds
      <4>3. verdict'["locate"] = "none"
        BY <1>0, <4>2
      <4>4. LocatePath(views)' /\ Verdicts'
        BY <1>3, <3>2, <4>3 DEF LocatePath, Verdicts, Walking
      <4> QED
        BY <1>2, <1>4, <1>5, <4>4 DEF PathInv
    <3> QED
      BY <1>7, <3>1, <3>2
  <2> QED
    BY <1>1, <2>3, <2>4 DEF Leads
<1> QED
  BY <1>6, <1>7

\* Between the walks, and after them.
LEMMA StartAgain ==
  ASSUME AgreeInv, Again
  PROVE  Verdicts' /\ PathInv'
<1>1. /\ walk' = "locate" /\ stack' = Start /\ offset' = 0
      /\ UNCHANGED <<verdict, file, tables, nested>>
  BY DEF Again
<1>2. Verdicts'
  BY <1>1 DEF AgreeInv, Verdicts
<1>3. ASSUME nested
      PROVE  PathInv'
  <2>1. PICK views, last : Leads(file, views, last) /\ Outcome(last)
    BY <1>3 DEF AgreeInv, PathInv
  <2>2. Leads(file', views, last) /\ Outcome(last)'
    BY <1>1, <2>1 DEF Outcome
  <2>3. LocatePath(views)' /\ IndexPath(views, last)'
    BY <1>1, <2>1 DEF LocatePath, IndexPath, Leads, IsHere
  <2> QED
    BY <2>2, <2>3 DEF PathInv
<1> QED
  BY <1>1, <1>2, <1>3 DEF PathInv

LEMMA AgreeStep ==
  ASSUME WalkInv, AgreeInv, [Next]_vars
  PROVE  AgreeInv'
<1>1. PlainInv'
  BY PlainStep DEF AgreeInv
<1>2. CASE Step /\ Walking
  <2>1. walk \in {"index", "locate"}
    BY DEF WalkInv, StackInv, TypeOK, Walks
  <2> QED
    BY <1>1, <1>2, <2>1, IndexMakesPath, LocateStep DEF AgreeInv
<1>3. CASE Step /\ ~Walking
  <2>1. Again
    <3>1. ~(TooShortForHeader \/ BadBox \/ EnterBox \/ SkipBox \/ ReadTable)
      BY <1>3 DEF TooShortForHeader, BadBox, EnterBox, SkipBox, ReadTable,
                  Box, Walker
    <3>2. ~(OpenDescriptions \/ BadEntry \/ Description \/ Located)
      BY <1>3 DEF OpenDescriptions, BadEntry, Description, Located, Box,
                  Walker, Entry
    <3>3. ~(Leave \/ BuildIndex \/ NoTrack)
      BY <1>3 DEF Leave, BuildIndex, NoTrack, AtEnd
    <3> QED
      BY <1>3, <3>1, <3>2, <3>3 DEF Step
  <2> QED
    BY <1>1, <2>1, StartAgain DEF AgreeInv
<1>4. CASE UNCHANGED vars
  <2>1. Verdicts'
    BY <1>4 DEF vars, AgreeInv, Verdicts
  <2>2. PathInv'
    BY <1>4 DEF vars, AgreeInv, PathInv, IndexPath, Outcome, LocatePath,
                IsHere, HasDescription, Tabled, Walking
  <2> QED
    BY <1>1, <2>1, <2>2 DEF AgreeInv
<1> QED
  BY <1>2, <1>3, <1>4 DEF Next, Finished

\* In every file whose tracks and descriptions are where they belong the two
\* walks agree: one that can be indexed is also found to have a GPMF track, and
\* in one without a track to index none is found (mp4_gpmf.h:25-31).
THEOREM WalksAgree == Spec => []Agreement
<1>1. Init => AgreeInv
  BY InitPlain, InitPath DEF AgreeInv
<1>2. WalkInv /\ AgreeInv /\ [Next]_vars => AgreeInv'
  BY AgreeStep
<1>3. AgreeInv => Agreement
  BY DEF AgreeInv, Verdicts, Agreement, Done
<1> QED
  BY <1>1, <1>2, <1>3, WalkAlways, PTL DEF Spec
=============================================================================
