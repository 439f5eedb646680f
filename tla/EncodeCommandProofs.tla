------------------------ MODULE EncodeCommandProofs ------------------------
(***************************************************************************)
(* EncodeCommand for any number of runs, frames and chapters: the output   *)
(* of a run that reports success is complete, no output is ever            *)
(* overwritten, and what runs take the process runner and the overlay to   *)
(* be is what the contracts of both say.                                   *)
(***************************************************************************)
EXTENDS EncodeCommand, TLAPS

\* The invariant holds before anything has happened.
LEMMA InitInv == Init => IInv
<1> SUFFICES ASSUME Init
             PROVE  IInv
  OBVIOUS
<1> USE EncodeAssumption DEF Init
<1>1. \A r \in Runs :
        /\ stage[r] \in {"prepare", "check"} /\ status[r] = "pending"
        /\ producer[r] = "running" /\ manifest[r] = "none"
        /\ ffmpeg[r] = "none"
  OBVIOUS
<1>2. /\ output.writer \in {Nobody, Someone}
      /\ output \in [writer : Runs \cup {Nobody, Someone},
                     content : {"none", "partial", "truncated", "complete"}]
  OBVIOUS
<1>3. TypeOK
  BY <1>2 DEF TypeOK, Stages, Returned
<1>4. FilesInv
  BY <1>1, <1>2 DEF FilesInv
<1>5. StageInv
  BY <1>1 DEF StageInv, Returned, Alive
<1>6. ManifestInv
  BY <1>1 DEF ManifestInv, Returned, Alive
<1> QED
  BY <1>3, <1>4, <1>5, <1>6 DEF IInv

\* What runs and FFmpeg processes do to the types.
LEMMA TypeStep ==
  ASSUME IInv, [Next]_vars
  PROVE  TypeOK'
<1> USE EncodeAssumption DEF IInv, TypeOK
<1>1. CASE UNCHANGED vars
  BY <1>1 DEF vars, runVars
<1>2. ASSUME NEW r \in Runs, Run(r)
      PROVE  TypeOK'
  <2> USE DEF Go, Stages, Returned
  <2>1. CASE Prepare(r)
    BY <2>1 DEF Prepare
  <2>2. CASE CheckOutput(r)
    BY <2>2 DEF CheckOutput
  <2>3. CASE Probe(r)
    BY <2>3 DEF Probe
  <2>4. CASE CreateManifest(r)
    <3>1. manifest' \in [Runs -> {"none", "partial", "whole"}]
      BY <2>4 DEF CreateManifest
    <3> QED
      BY <2>4, <3>1 DEF CreateManifest
  <2>5. CASE ListChapters(r)
    BY <2>5 DEF ListChapters
  <2>6. CASE Start(r)
    <3>1. ffmpeg' \in [Runs -> {"none", "opening", "encoding", "exited",
                                "error", "killed"}]
      BY <2>6 DEF Start
    <3>2. input_open' \in [Runs -> BOOLEAN]
      BY <2>6 DEF Start
    <3>3. /\ stage' \in [Runs -> Stages]
          /\ status' \in [Runs -> {"pending", "ok", "failed"}]
      BY <2>6 DEF Start
    <3> QED
      BY <2>6, <3>1, <3>2, <3>3 DEF Start
  <2>7. CASE FeedFrame(r)
    BY <2>7 DEF FeedFrame
  <2>8. CASE BrokenPipe(r)
    BY <2>8 DEF BrokenPipe, StopFeeding
  <2>9. CASE AllFed(r)
    BY <2>9 DEF AllFed
  <2>10. CASE CloseInput(r)
    BY <2>10 DEF CloseInput
  <2>11. CASE Terminate(r)
    BY <2>11 DEF Terminate
  <2>12. CASE Wait(r)
    BY <2>12 DEF Wait, Answers
  <2>13. CASE RemoveManifest(r)
    BY <2>13 DEF RemoveManifest, StageInv
  <2> QED
    BY <1>2, <2>1, <2>2, <2>3, <2>4, <2>5, <2>6, <2>7, <2>8, <2>9, <2>10,
       <2>11, <2>12, <2>13 DEF Run
<1>3. ASSUME NEW r \in Runs, FrameFails(r) \/ Crash(r)
      PROVE  TypeOK'
  <2>1. CASE FrameFails(r)
    BY <2>1 DEF FrameFails, StopFeeding, Go, Stages
  <2>2. CASE Crash(r)
    BY <2>2 DEF Crash, Go, Stages
  <2> QED
    BY <1>3, <2>1, <2>2
<1>4. ASSUME NEW r \in Runs, Ffmpeg(r) \/ BreakDown(r) \/ EndOfVideo(r)
      PROVE  TypeOK'
  <2>1. CASE OpenOutput(r)
    BY <2>1 DEF OpenOutput, runVars
  <2>2. CASE RefuseOutput(r) \/ BreakDown(r)
    BY <2>2 DEF RefuseOutput, BreakDown, ExitWithError, runVars
  <2>3. CASE ReadFrame(r)
    BY <2>3 DEF ReadFrame, runVars
  <2>4. CASE EndOfFrames(r)
    BY <2>4 DEF EndOfFrames, runVars
  <2>5. CASE EndOfVideo(r)
    BY <2>5 DEF EndOfVideo, runVars
  <2> QED
    BY <1>4, <2>1, <2>2, <2>3, <2>4, <2>5 DEF Ffmpeg
<1>5. CASE SomeoneWrites
  BY <1>5 DEF SomeoneWrites, runVars
<1> QED
  BY <1>1, <1>2, <1>3, <1>4, <1>5 DEF Next, Finished
-----------------------------------------------------------------------------
(* One lemma for each part of the invariant.                               *)

\* An output belongs to the FFmpeg that created it, and is only truncated if
\* frames are missing.
LEMMA FilesStep ==
  ASSUME IInv, NEW r \in Runs,
         \/ Run(r) \/ FrameFails(r) \/ Crash(r)
         \/ Ffmpeg(r) \/ BreakDown(r) \/ EndOfVideo(r)
  PROVE  FilesInv'
<1> USE EncodeAssumption DEF IInv, TypeOK, FilesInv
<1>1. CASE Prepare(r)
  BY <1>1 DEF Prepare, Go
<1>2. CASE CheckOutput(r)
  BY <1>2 DEF CheckOutput, Go
<1>3. CASE Probe(r)
  BY <1>3 DEF Probe, Go
<1>4. CASE CreateManifest(r)
  BY <1>4 DEF CreateManifest, Go
<1>5. CASE ListChapters(r)
  BY <1>5 DEF ListChapters, Go
<1>6. CASE Start(r)
  BY <1>6 DEF Start, Go, StageInv, Alive, Early
<1>7. CASE FeedFrame(r)
  BY <1>7 DEF FeedFrame, StageInv, Alive, Early
<1>8. CASE BrokenPipe(r)
  BY <1>8 DEF BrokenPipe, StopFeeding, Go
<1>9. CASE AllFed(r)
  BY <1>9 DEF AllFed, Go
<1>10. CASE CloseInput(r)
  BY <1>10 DEF CloseInput, Go
<1>11. CASE Terminate(r)
  BY <1>11 DEF Terminate, Go, StageInv, Alive, Early
<1>12. CASE Wait(r)
  BY <1>12 DEF Wait, Answers, Ended, Go
<1>13. CASE RemoveManifest(r)
  BY <1>13 DEF RemoveManifest, Go
<1>14. CASE FrameFails(r)
  BY <1>14 DEF FrameFails, StopFeeding, Go
<1>15. CASE Crash(r)
  BY <1>15 DEF Crash, Go
<1>16. CASE OpenOutput(r)
  BY <1>16 DEF OpenOutput, Refuses, runVars
<1>17. CASE RefuseOutput(r)
  BY <1>17 DEF RefuseOutput, ExitWithError, runVars, StageInv, Alive, Early
<1>18. CASE BreakDown(r)
  BY <1>18 DEF BreakDown, ExitWithError, runVars, StageInv, Alive, Early
<1>19. CASE ReadFrame(r)
  BY <1>19 DEF ReadFrame, runVars
<1>20. CASE EndOfFrames(r)
  BY <1>20 DEF EndOfFrames, runVars
<1>21. CASE EndOfVideo(r)
  BY <1>21 DEF EndOfVideo, runVars
<1> QED
  BY <1>1, <1>2, <1>3, <1>4, <1>5, <1>6, <1>7, <1>8, <1>9, <1>10, <1>11,
     <1>12, <1>13, <1>14, <1>15, <1>16, <1>17, <1>18, <1>19, <1>20, <1>21
     DEF Run, Ffmpeg

\* A run gets as far as its producer and its FFmpeg let it.
LEMMA StageStep ==
  ASSUME IInv, NEW r \in Runs,
         \/ Run(r) \/ FrameFails(r) \/ Crash(r)
         \/ Ffmpeg(r) \/ BreakDown(r) \/ EndOfVideo(r)
  PROVE  StageInv'
<1> USE EncodeAssumption
    DEF IInv, TypeOK, StageInv, Alive, Early, Returned, Stages
<1>1. CASE Prepare(r)
  BY <1>1 DEF Prepare, Go
<1>2. CASE CheckOutput(r)
  BY <1>2 DEF CheckOutput, Go
<1>3. CASE Probe(r)
  BY <1>3 DEF Probe, Go
<1>4. CASE CreateManifest(r)
  BY <1>4 DEF CreateManifest, Go
<1>5. CASE ListChapters(r)
  BY <1>5 DEF ListChapters, Go
<1>6. CASE Start(r)
  BY <1>6 DEF Start, Go
<1>7. CASE FeedFrame(r)
  BY <1>7 DEF FeedFrame
<1>8. CASE BrokenPipe(r)
  BY <1>8 DEF BrokenPipe, StopFeeding, Go
<1>9. CASE AllFed(r)
  BY <1>9 DEF AllFed, Go
<1>10. CASE CloseInput(r)
  BY <1>10 DEF CloseInput, Go
<1>11. CASE Terminate(r)
  BY <1>11 DEF Terminate, Go
<1>12. CASE Wait(r)
  BY <1>12 DEF Wait, Answers, Ended, Go
<1>13. CASE RemoveManifest(r)
  BY <1>13 DEF RemoveManifest, Go
<1>14. CASE FrameFails(r)
  BY <1>14 DEF FrameFails, StopFeeding, Go
<1>15. CASE Crash(r)
  BY <1>15 DEF Crash, Go
<1>16. CASE OpenOutput(r)
  BY <1>16 DEF OpenOutput, Refuses, runVars
<1>17. CASE RefuseOutput(r)
  BY <1>17 DEF RefuseOutput, ExitWithError, runVars
<1>18. CASE BreakDown(r)
  BY <1>18 DEF BreakDown, ExitWithError, runVars
<1>19. CASE ReadFrame(r)
  BY <1>19 DEF ReadFrame, runVars
<1>20. CASE EndOfFrames(r)
  BY <1>20 DEF EndOfFrames, runVars
<1>21. CASE EndOfVideo(r)
  BY <1>21 DEF EndOfVideo, runVars
<1> QED
  BY <1>1, <1>2, <1>3, <1>4, <1>5, <1>6, <1>7, <1>8, <1>9, <1>10, <1>11,
     <1>12, <1>13, <1>14, <1>15, <1>16, <1>17, <1>18, <1>19, <1>20, <1>21
     DEF Run, Ffmpeg

\* A manifest is there from its creation until FFmpeg has ended.
LEMMA ManifestStep ==
  ASSUME IInv, NEW r \in Runs,
         \/ Run(r) \/ FrameFails(r) \/ Crash(r)
         \/ Ffmpeg(r) \/ BreakDown(r) \/ EndOfVideo(r)
  PROVE  ManifestInv'
<1> USE EncodeAssumption DEF IInv, TypeOK, ManifestInv, Alive, Early, Returned
<1>1. CASE Prepare(r)
  BY <1>1 DEF Prepare, Go, StageInv
<1>2. CASE CheckOutput(r)
  BY <1>2 DEF CheckOutput, Go, StageInv
<1>3. CASE Probe(r)
  BY <1>3 DEF Probe, Go, StageInv
<1>4. CASE CreateManifest(r)
  BY <1>4 DEF CreateManifest, Go, StageInv
<1>5. CASE ListChapters(r)
  BY <1>5 DEF ListChapters, Go, StageInv
<1>6. CASE Start(r)
  BY <1>6 DEF Start, Go, StageInv
<1>7. CASE FeedFrame(r)
  BY <1>7 DEF FeedFrame
<1>8. CASE BrokenPipe(r)
  BY <1>8 DEF BrokenPipe, StopFeeding, Go
<1>9. CASE AllFed(r)
  BY <1>9 DEF AllFed, Go
<1>10. CASE CloseInput(r)
  BY <1>10 DEF CloseInput, Go
<1>11. CASE Terminate(r)
  BY <1>11 DEF Terminate, Go, StageInv
<1>12. CASE Wait(r)
  BY <1>12 DEF Wait, Answers, Ended, Go, StageInv
<1>13. CASE RemoveManifest(r)
  BY <1>13 DEF RemoveManifest, Go, StageInv, Stages
<1>14. CASE FrameFails(r)
  BY <1>14 DEF FrameFails, StopFeeding, Go
<1>15. CASE Crash(r)
  BY <1>15 DEF Crash, Go
<1>16. CASE OpenOutput(r)
  BY <1>16 DEF OpenOutput, Refuses, runVars
<1>17. CASE RefuseOutput(r)
  BY <1>17 DEF RefuseOutput, ExitWithError, runVars
<1>18. CASE BreakDown(r)
  BY <1>18 DEF BreakDown, ExitWithError, runVars
<1>19. CASE ReadFrame(r)
  BY <1>19 DEF ReadFrame, runVars
<1>20. CASE EndOfFrames(r)
  BY <1>20 DEF EndOfFrames, runVars
<1>21. CASE EndOfVideo(r)
  BY <1>21 DEF EndOfVideo, runVars
<1> QED
  BY <1>1, <1>2, <1>3, <1>4, <1>5, <1>6, <1>7, <1>8, <1>9, <1>10, <1>11,
     <1>12, <1>13, <1>14, <1>15, <1>16, <1>17, <1>18, <1>19, <1>20, <1>21
     DEF Run, Ffmpeg
-----------------------------------------------------------------------------
(* The theorems.                                                           *)

\* The inductive invariant: who wrote the output, how far each run is, and
\* which manifests exist (video_encoder.cc:370-582).
THEOREM Invariance == Spec => []IInv
<1>1. ASSUME IInv, [Next]_vars
      PROVE  IInv'
  <2>1. TypeOK'
    BY <1>1, TypeStep
  <2>2. CASE UNCHANGED vars
    BY <1>1, <2>1, <2>2
       DEF IInv, vars, runVars, FilesInv, StageInv, ManifestInv, Alive
  <2>3. ASSUME NEW r \in Runs,
               \/ Run(r) \/ FrameFails(r) \/ Crash(r)
               \/ Ffmpeg(r) \/ BreakDown(r) \/ EndOfVideo(r)
        PROVE  IInv'
    BY <1>1, <2>1, <2>3, FilesStep, StageStep, ManifestStep DEF IInv
  <2>4. CASE SomeoneWrites
    <3>1. FilesInv'
      BY <1>1, <2>4, EncodeAssumption DEF SomeoneWrites, IInv, FilesInv, runVars
    <3>2. StageInv' /\ ManifestInv'
      BY <1>1, <2>4
         DEF SomeoneWrites, IInv, StageInv, ManifestInv, runVars, Alive
    <3> QED
      BY <2>1, <3>1, <3>2 DEF IInv
  <2> QED
    BY <1>1, <2>2, <2>3, <2>4 DEF Next, Finished
<1> QED
  BY <1>1, InitInv, PTL DEF Spec

\* Success means that the file at the output path is complete and the run's
\* own (video_encoder.cc:557-570).
THEOREM SuccessIsComplete == Spec => []SuccessMeansComplete
<1>1. ASSUME IInv, NEW r \in Runs, stage[r] = "ok"
      PROVE  output = [writer |-> r, content |-> "complete"]
  <2>1. producer[r] = "ok" /\ ffmpeg[r] = "exited" /\ fed[r] = frame_count
    BY <1>1 DEF IInv, StageInv
  <2>2. output.writer = r /\ output.content = "complete"
    BY <1>1, <2>1, EncodeAssumption DEF IInv, FilesInv
  <2> QED
    BY <1>1, <2>2 DEF IInv, TypeOK
<1>2. IInv => SuccessMeansComplete
  BY <1>1 DEF SuccessMeansComplete
<1> QED
  BY <1>2, Invariance, PTL

\* No run's manifest goes while its FFmpeg may read it, and none stays behind a
\* run that returns (video_encoder.cc:559-562).
THEOREM ManifestsAreKept == Spec => []ManifestLifetime
<1>1. IInv => ManifestLifetime
  BY DEF IInv, ManifestInv, ManifestLifetime
<1> QED
  BY <1>1, Invariance, PTL

\* Existing outputs are never overwritten (README.md:351).
THEOREM NothingIsOverwritten == Spec => NeverOverwritten
<1> DEFINE Kept == \/ output.writer = Nobody
                   \/ /\ output.writer \in Runs
                      /\ ffmpeg[output.writer] = "encoding"
                      /\ output'.writer = output.writer
<1>1. ASSUME IInv, [Next]_vars
      PROVE  [Kept]_output
  <2>1. ASSUME NEW r \in Runs, OpenOutput(r)
        PROVE  Kept
    BY <2>1 DEF OpenOutput, Refuses
  <2>2. ASSUME NEW r \in Runs, EndOfFrames(r) \/ EndOfVideo(r)
        PROVE  Kept
    BY <1>1, <2>2 DEF EndOfFrames, EndOfVideo, IInv, FilesInv, TypeOK
  <2>3. CASE SomeoneWrites
    BY <2>3 DEF SomeoneWrites
  <2>4. ASSUME NEW r \in Runs, Run(r) \/ FrameFails(r) \/ Crash(r)
        PROVE  UNCHANGED output
    BY <2>4
       DEF Run, Prepare, CheckOutput, Probe, CreateManifest, ListChapters,
           Start, FeedFrame, BrokenPipe, FrameFails, StopFeeding, AllFed,
           CloseInput, Terminate, Wait, RemoveManifest, Crash
  <2>5. ASSUME NEW r \in Runs, RefuseOutput(r) \/ ReadFrame(r) \/ BreakDown(r)
        PROVE  UNCHANGED output
    BY <2>5 DEF RefuseOutput, ReadFrame, BreakDown, ExitWithError
  <2> QED
    BY <1>1, <2>1, <2>2, <2>3, <2>4, <2>5 DEF Next, Ffmpeg, Finished, vars
<1> QED
  BY <1>1, Invariance, PTL DEF Spec, NeverOverwritten
-----------------------------------------------------------------------------
(* The contracts of the runner and of the frames.                          *)

\* A step of one run and its FFmpeg.
Step(r) == \/ Run(r) \/ FrameFails(r) \/ Crash(r)
           \/ Ffmpeg(r) \/ BreakDown(r) \/ EndOfVideo(r)

Same(r) ==
  /\ stage'[r] = stage[r] /\ status'[r] = status[r]
  /\ producer'[r] = producer[r] /\ fed'[r] = fed[r]
  /\ ffmpeg'[r] = ffmpeg[r]

\* A run has no answer before the call returns, and its producer goes on until
\* it stops.
Calling(r) ==
  /\ stage[r] \in Early \cup {"feed", "close", "kill", "wait"} =>
       status[r] = "pending"
  /\ stage[r] \in Early \cup {"feed"} => producer[r] = "running"

\* What one run does, another does not see, but for the output.
LEMMA OthersSame ==
  ASSUME TypeOK, NEW r \in Runs, NEW s \in Runs, s # r, Step(s)
  PROVE  Same(r)
<1> USE DEF TypeOK, Same
<1>1. CASE Prepare(s) \/ CheckOutput(s) \/ Probe(s)
  BY <1>1 DEF Prepare, CheckOutput, Probe, Go
<1>2. CASE CreateManifest(s) \/ ListChapters(s) \/ RemoveManifest(s)
  BY <1>2 DEF CreateManifest, ListChapters, RemoveManifest, Go
<1>3. CASE Start(s)
  BY <1>3 DEF Start, Go
<1>4. CASE FeedFrame(s)
  BY <1>4 DEF FeedFrame
<1>5. CASE StopFeeding(s) \/ AllFed(s)
  BY <1>5 DEF StopFeeding, AllFed, Go
<1>6. CASE CloseInput(s) \/ Crash(s)
  BY <1>6 DEF CloseInput, Crash, Go
<1>7. CASE Terminate(s)
  BY <1>7 DEF Terminate, Go
<1>8. CASE Wait(s)
  BY <1>8 DEF Wait, Go
<1>9. CASE OpenOutput(s) \/ ReadFrame(s)
  BY <1>9 DEF OpenOutput, ReadFrame, runVars
<1>10. CASE ExitWithError(s)
  BY <1>10 DEF ExitWithError, runVars
<1>11. CASE EndOfFrames(s) \/ EndOfVideo(s)
  BY <1>11 DEF EndOfFrames, EndOfVideo, runVars
<1> QED
  BY <1>1, <1>2, <1>3, <1>4, <1>5, <1>6, <1>7, <1>8, <1>9, <1>10, <1>11
     DEF Step, Run, Ffmpeg, BrokenPipe, FrameFails, RefuseOutput, BreakDown

\* The process and the answer for what is known of FFmpeg and of the status.
Views(r) ==
  /\ ffmpeg[r] = "none" => Process(r) = "none"
  /\ ffmpeg[r] \in {"opening", "encoding"} => Process(r) = "running"
  /\ ffmpeg[r] = "killed" => Process(r) = "doomed"
  /\ ffmpeg[r] \in {"exited", "error"} => Process(r) = "ended"
  /\ status[r] = "pending" => Answer(r) = "none"
  /\ status[r] = "ok" => Answer(r) = "completed"
  /\ status[r] = "failed" =>
       IF ffmpeg[r] = "none" THEN Answer(r) = "not_started"
       ELSE \/ Answer(r) \in {"producer_error", "wait_error"}
            \/ /\ Answer(r) = "completed"
               /\ producer[r] = "ok" /\ ffmpeg[r] = "error"

LEMMA ViewsHold == ASSUME NEW r \in Runs PROVE Views(r) /\ Views(r)'
<1>1. Views(r)
  BY DEF Views, Process, Answer, Alive
<1>2. Views(r)'
  BY DEF Views, Process, Answer, Alive
<1> QED
  BY <1>1, <1>2

\* To a call, a step is one of its own or none.
CallStep(r) == Call(r)!Next \/ UNCHANGED Call(r)!callVars

StreamStep(r) == Stream(r)!Next \/ UNCHANGED Stream(r)!streamVars

LEMMA SameKeeps ==
  ASSUME NEW r \in Runs, Same(r)
  PROVE  CallStep(r) /\ StreamStep(r) /\ (Calling(r) => Calling(r)')
<1>1. /\ Process(r)' = Process(r) /\ Answer(r)' = Answer(r)
      /\ StreamOutcome(r)' = StreamOutcome(r)
  BY DEF Same, Process, Answer, StreamOutcome, Alive
<1>2. UNCHANGED Call(r)!callVars
  BY <1>1 DEF Same, Call!callVars
<1>3. UNCHANGED Stream(r)!streamVars
  BY <1>1 DEF Same, Stream!streamVars
<1> QED
  BY <1>2, <1>3 DEF CallStep, StreamStep, Same, Calling

\* Before the call, around it and after it nothing is seen of the run.
LEMMA OutsideTheCall ==
  ASSUME IInv, NEW r \in Runs, Calling(r),
         \/ Prepare(r) \/ CheckOutput(r) \/ Probe(r) \/ CreateManifest(r)
         \/ ListChapters(r) \/ CloseInput(r) \/ RemoveManifest(r) \/ Crash(r)
         \/ OpenOutput(r) \/ ReadFrame(r)
  PROVE  CallStep(r) /\ StreamStep(r) /\ Calling(r)'
<1> USE DEF IInv, TypeOK
<1>1. /\ UNCHANGED <<status, producer, fed>>
      /\ \/ ffmpeg' = ffmpeg
         \/ ffmpeg[r] = "opening" /\ ffmpeg'[r] = "encoding"
  BY DEF Prepare, CheckOutput, Probe, CreateManifest, ListChapters, CloseInput,
         RemoveManifest, Crash, OpenOutput, ReadFrame, runVars
<1>2. /\ Process(r)' = Process(r) /\ Answer(r)' = Answer(r)
      /\ StreamOutcome(r)' = StreamOutcome(r)
  BY <1>1 DEF Process, Answer, StreamOutcome, Alive
<1>3. UNCHANGED Call(r)!callVars
  BY <1>1, <1>2 DEF Call!callVars
<1>4. UNCHANGED Stream(r)!streamVars
  BY <1>1, <1>2 DEF Stream!streamVars
<1>5. Calling(r)'
  <2>1. CASE Prepare(r) \/ CheckOutput(r) \/ Probe(r)
    BY <2>1, <1>1 DEF Prepare, CheckOutput, Probe, Go, Calling, Early
  <2>2. CASE CreateManifest(r) \/ ListChapters(r)
    BY <2>2, <1>1 DEF CreateManifest, ListChapters, Go, Calling, Early
  <2>3. CASE CloseInput(r) \/ Crash(r)
    BY <2>3, <1>1 DEF CloseInput, Crash, Go, Calling, Early
  <2>4. CASE RemoveManifest(r)
    BY <2>4, <1>1 DEF RemoveManifest, Go, Calling, Early, StageInv, Returned
  <2>5. CASE OpenOutput(r) \/ ReadFrame(r)
    BY <2>5 DEF OpenOutput, ReadFrame, runVars, Calling
  <2> QED
    BY <2>1, <2>2, <2>3, <2>4, <2>5
<1> QED
  BY <1>3, <1>4, <1>5 DEF CallStep, StreamStep

\* FFmpeg is launched, or the call is refused.
LEMMA StartIsLaunch ==
  ASSUME IInv, NEW r \in Runs, Calling(r), Start(r)
  PROVE  CallStep(r) /\ StreamStep(r) /\ Calling(r)'
<1> USE DEF IInv, TypeOK
<1>1. /\ stage[r] = "start" /\ status[r] = "pending" /\ ffmpeg[r] = "none"
      /\ producer[r] = "running" /\ UNCHANGED <<producer, fed>>
  BY DEF Start, Calling, Early, StageInv
<1>2. \/ /\ ffmpeg'[r] = "opening" /\ status' = status
         /\ stage'[r] = "feed"
      \/ /\ ffmpeg' = ffmpeg /\ status'[r] = "failed"
         /\ stage'[r] = "clean"
  BY DEF Start, Go
<1>3. CallStep(r)
  <2>1. Process(r) = "none" /\ Answer(r) = "none"
    BY <1>1, ViewsHold DEF Views
  <2>2. CASE ffmpeg'[r] = "opening"
    <3>1. Process(r)' = "running" /\ Answer(r)' = "none"
      BY <1>1, <1>2, <2>2, ViewsHold DEF Views
    <3> QED
      BY <1>1, <2>1, <3>1 DEF CallStep, Call!Next, Call!Launch
  <2>3. CASE ffmpeg' = ffmpeg /\ status'[r] = "failed"
    <3>1. Process(r)' = "none" /\ Answer(r)' = "not_started"
      BY <1>1, <2>3, ViewsHold DEF Views
    <3> QED
      BY <1>1, <2>1, <3>1 DEF CallStep, Call!Next, Call!Refuse
  <2> QED
    BY <1>2, <2>2, <2>3
<1>4. StreamStep(r)
  BY <1>1 DEF StreamStep, Stream!streamVars, StreamOutcome
<1>5. Calling(r)'
  BY <1>1, <1>2 DEF Calling, Early
<1> QED
  BY <1>3, <1>4, <1>5

\* A frame is handed over, and is the next of the stream.
LEMMA FeedIsDelivery ==
  ASSUME IInv, NEW r \in Runs, Calling(r), FeedFrame(r)
  PROVE  CallStep(r) /\ StreamStep(r) /\ Calling(r)'
<1> USE EncodeAssumption DEF IInv, TypeOK
<1>1. /\ stage[r] = "feed" /\ status[r] = "pending" /\ Alive(r)
      /\ producer[r] = "running" /\ fed[r] \in Nat /\ fed[r] < frame_count
      /\ UNCHANGED <<stage, status, producer, ffmpeg>>
      /\ fed'[r] = fed[r] + 1
  BY DEF FeedFrame, Calling
<1>2. CallStep(r)
  <2>1. Process(r) = "running" /\ Answer(r) = "none"
    BY <1>1 DEF Process, Answer, Alive
  <2>2. Process(r)' = Process(r) /\ Answer(r)' = Answer(r)
    BY <1>1 DEF Process, Answer, Alive
  <2>3. fed'[r] \in fed[r] + 1 .. frame_count
    BY <1>1
  <2> QED
    BY <2>1, <2>2, <2>3 DEF CallStep, Call!Next, Call!Feed
<1>3. StreamStep(r)
  <2>1. StreamOutcome(r) = "streaming" /\ StreamOutcome(r)' = StreamOutcome(r)
    BY <1>1 DEF StreamOutcome
  <2> DEFINE before == [k \in 1 .. fed[r] |-> Picture(k - 1)]
             after == [k \in 1 .. fed[r] + 1 |-> Picture(k - 1)]
  <2>2. before \in Seq(Nat) /\ Len(before) = fed[r]
    <3>1. before \in [1 .. fed[r] -> Nat]
      BY <1>1 DEF Picture
    <3> HIDE DEF before
    <3>2. fed[r] \in Nat
      BY <1>1
    <3> QED
      BY ONLY <3>1, <3>2
  <2>3. after = Append(before, Picture(Len(before)))
    BY <1>1, <2>2 DEF Picture
  <2> QED
    BY <1>1, <2>1, <2>2, <2>3 DEF StreamStep, Stream!Next, Stream!Deliver
<1>4. Calling(r)'
  BY <1>1 DEF Calling
<1> QED
  BY <1>2, <1>3, <1>4

\* The producer returns.
LEMMA StopIsOutcome ==
  ASSUME IInv, NEW r \in Runs, Calling(r), StopFeeding(r) \/ AllFed(r)
  PROVE  CallStep(r) /\ StreamStep(r) /\ Calling(r)'
<1> USE EncodeAssumption DEF IInv, TypeOK
<1>1. /\ stage[r] = "feed" /\ status[r] = "pending"
      /\ producer[r] = "running" /\ fed[r] \in Nat
      /\ UNCHANGED <<status, ffmpeg, fed>> /\ stage'[r] = "close"
  BY DEF StopFeeding, AllFed, Calling, Go
<1>2. \/ fed[r] < frame_count /\ producer'[r] = "failed"
      \/ fed[r] = frame_count /\ producer'[r] = "ok"
  BY DEF StopFeeding, AllFed
<1>3. CallStep(r)
  <2>1. /\ Process(r)' = Process(r)
        /\ Answer(r) = "none" /\ Answer(r)' = "none"
    BY <1>1, ViewsHold DEF Views, Process, Alive
  <2> QED
    BY <1>1, <2>1 DEF CallStep, Call!callVars
<1>4. StreamStep(r)
  <2>1. StreamOutcome(r) = "streaming"
        /\ Len([k \in 1 .. fed[r] |-> Picture(k - 1)]) = fed[r]
    BY <1>1 DEF StreamOutcome, Picture
  <2>2. \/ fed[r] < frame_count /\ StreamOutcome(r)' = "error"
        \/ fed[r] = frame_count /\ StreamOutcome(r)' = "ok"
    BY <1>2 DEF StreamOutcome
  <2> QED
    BY <1>1, <2>1, <2>2
       DEF StreamStep, Stream!Next, Stream!Succeed, Stream!Fail
<1>5. Calling(r)'
  BY <1>1 DEF Calling, Early
<1> QED
  BY <1>3, <1>4, <1>5

\* FFmpeg ends by itself or is killed.
LEMMA FfmpegEnds ==
  ASSUME IInv, NEW r \in Runs, Calling(r),
         \/ Terminate(r) \/ ExitWithError(r) \/ EndOfFrames(r) \/ EndOfVideo(r)
  PROVE  CallStep(r) /\ StreamStep(r) /\ Calling(r)'
<1> USE DEF IInv, TypeOK
<1>1. /\ UNCHANGED <<status, producer, fed>>
      /\ \/ ffmpeg'[r] = ffmpeg[r]
         \/ Alive(r) /\ ffmpeg'[r] \in {"killed", "error", "exited"}
  BY DEF Terminate, ExitWithError, EndOfFrames, EndOfVideo, runVars, Alive
<1>2. Answer(r)' = Answer(r) /\ StreamOutcome(r)' = StreamOutcome(r)
  BY <1>1 DEF Answer, StreamOutcome, Alive
<1>3. \/ Process(r)' = Process(r)
      \/ Process(r) = "running" /\ Process(r)' \in {"ended", "doomed"}
  BY <1>1 DEF Process, Alive
<1>4. CallStep(r)
  BY <1>1, <1>2, <1>3
     DEF CallStep, Call!Next, Call!End, Call!Doom, Call!callVars
<1>5. StreamStep(r)
  BY <1>1, <1>2 DEF StreamStep, Stream!streamVars
<1>6. Calling(r)'
  <2>1. CASE Terminate(r)
    BY <2>1, <1>1 DEF Terminate, Go, Calling, Early
  <2>2. CASE ~Terminate(r)
    BY <2>2, <1>1 DEF ExitWithError, EndOfFrames, EndOfVideo, runVars, Calling
  <2> QED
    BY <2>1, <2>2
<1> QED
  BY <1>4, <1>5, <1>6

\* The call returns.
LEMMA WaitIsAnswer ==
  ASSUME IInv, NEW r \in Runs, Calling(r), Wait(r)
  PROVE  CallStep(r) /\ StreamStep(r) /\ Calling(r)'
<1> USE DEF IInv, TypeOK
<1>1. /\ stage[r] = "wait" /\ status[r] = "pending" /\ Ended(r)
      /\ UNCHANGED <<producer, fed, ffmpeg>> /\ stage'[r] = "clean"
      /\ status'[r] \in Answers(r)
  BY DEF Wait, Calling, Go
<1>2. Answer(r) = "none" /\ Process(r) \in {"ended", "doomed"}
      /\ Process(r)' = Process(r)
  <2>1. ffmpeg[r] \in {"exited", "error", "killed"}
    BY <1>1 DEF Ended
  <2>2. Answer(r) = "none" /\ Process(r) \in {"ended", "doomed"}
    BY <1>1, <2>1, ViewsHold DEF Views
  <2>3. Process(r)' = Process(r)
    BY <1>1 DEF Process, Alive
  <2> QED
    BY <2>2, <2>3
<1>3. CASE status'[r] = "ok"
  <2>1. ffmpeg[r] = "exited" /\ producer[r] = "ok"
    BY <1>1, <1>3 DEF Answers
  <2>2. fed[r] = frame_count /\ Process(r) = "ended"
        /\ Answer(r)' = "completed"
    <3>1. fed[r] = frame_count
      BY <2>1 DEF StageInv
    <3> QED
      BY <1>3, <2>1, <3>1, ViewsHold DEF Views
  <2>3. CallStep(r)
    BY <1>1, <1>2, <2>2 DEF CallStep, Call!Next, Call!Succeed
  <2> QED
    BY <2>3, <1>1
       DEF StreamStep, Stream!streamVars, StreamOutcome, Calling, Early
<1>4. CASE status'[r] = "failed"
  <2>1. \/ Answer(r)' \in {"wait_error", "producer_error"}
        \/ Answer(r)' = "completed" /\ producer[r] = "ok" /\ ffmpeg[r] = "error"
    BY <1>1, <1>4, ViewsHold DEF Views, Ended
  <2>2. CallStep(r)
    <3>1. CASE Answer(r)' \in {"wait_error", "producer_error"}
      BY <1>1, <1>2, <3>1 DEF CallStep, Call!Next, Call!Fail
    <3>2. CASE /\ Answer(r)' = "completed"
               /\ producer[r] = "ok" /\ ffmpeg[r] = "error"
      <4>1. fed[r] = frame_count
        BY <3>2 DEF StageInv
      <4>2. Process(r) = "ended"
        BY <3>2, ViewsHold DEF Views
      <4> QED
        BY <1>1, <1>2, <3>2, <4>1, <4>2 DEF CallStep, Call!Next, Call!Succeed
    <3> QED
      BY <2>1, <3>1, <3>2
  <2> QED
    BY <2>2, <1>1
       DEF StreamStep, Stream!streamVars, StreamOutcome, Calling, Early
<1> QED
  BY <1>1, <1>3, <1>4 DEF Answers

LEMMA ContractStep ==
  ASSUME IInv, NEW r \in Runs, Calling(r), [Next]_vars
  PROVE  CallStep(r) /\ StreamStep(r) /\ Calling(r)'
<1>1. CASE UNCHANGED vars \/ SomeoneWrites
  <2>1. Same(r)
    BY <1>1 DEF vars, runVars, SomeoneWrites, Same
  <2> QED
    BY <2>1, SameKeeps
<1>2. ASSUME NEW s \in Runs, s # r, Step(s)
      PROVE  CallStep(r) /\ StreamStep(r) /\ Calling(r)'
  BY <1>2, OthersSame, SameKeeps DEF IInv
<1>3. CASE Step(r)
  BY <1>3, OutsideTheCall, StartIsLaunch, FeedIsDelivery, StopIsOutcome,
     FfmpegEnds, WaitIsAnswer
     DEF Step, Run, Ffmpeg, BrokenPipe, FrameFails, RefuseOutput, BreakDown
<1> QED
  BY <1>1, <1>2, <1>3 DEF Next, Finished, Step

\* To each run its call of the process runner is what process.h promises, and
\* its frames come as video_encoder.h promises: what this module takes both to
\* be is no more than ProcessRun, WindowsProcess and OverlayPipeline implement
\* (video_encoder.cc:557-570).
THEOREM KeepsContracts ==
  ASSUME NEW r \in Runs
  PROVE  Spec => Call(r)!Spec /\ Stream(r)!Spec
<1>1. Init => Calling(r)
  BY DEF Init, Calling
<1>2. Init => Call(r)!Init
  BY EncodeAssumption, ViewsHold DEF Init, Call!Init, Views
<1>3. Init => Stream(r)!Init
  BY DEF Init, Stream!Init, StreamOutcome
<1>4. IInv /\ Calling(r) /\ [Next]_vars => Calling(r)'
  BY ContractStep
<1>5. IInv /\ Calling(r) /\ [Next]_vars => [Call(r)!Next]_(Call(r)!callVars)
  BY ContractStep DEF CallStep
<1>6. IInv /\ Calling(r) /\ [Next]_vars
        => [Stream(r)!Next]_(Stream(r)!streamVars)
  BY ContractStep DEF StreamStep
<1> QED
  BY <1>1, <1>2, <1>3, <1>4, <1>5, <1>6, Invariance, PTL
     DEF Spec, Call!Spec, Stream!Spec
=============================================================================
