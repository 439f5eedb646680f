--------------------------- MODULE EncodeCommand ---------------------------
(***************************************************************************)
(* Runs of the program that encode to the same output path, one after the  *)
(* other or at the same time: the check of the path (src/src/common/       *)
(* run.cc:232-243, 526-537), EncodeOverlayVideo (src/src/ffmpeg/           *)
(* video_encoder.cc:370-582) with its concat manifest, and the FFmpeg      *)
(* process each run starts.  A run can crash between any two steps.        *)
(*                                                                         *)
(* The call of the process runner is its contract: what ProcessRun shows   *)
(* of it.  FFmpeg is external; of it is assumed that -n makes it create    *)
(* the output only if there is none, and that it exits with zero if its    *)
(* piped input ends, whether all frames have come or not, and if its main  *)
(* input ends first.                                                       *)
(***************************************************************************)
EXTENDS Naturals, Sequences

CONSTANTS
  Runs,          \* the runs of the program
  Joined,        \* of these, the runs over several chapters
  frame_count,   \* frames of the overlay
  PipeFrames,    \* frames the pipe holds
  Nobody,        \* writer of an output that does not exist
  Someone        \* writer of an output that is none of ours

ASSUME EncodeAssumption ==
  /\ Joined \subseteq Runs
  /\ frame_count \in Nat \ {0} /\ PipeFrames \in Nat \ {0}
  /\ Nobody \notin Runs /\ Someone \notin Runs /\ Nobody # Someone

VARIABLES
  stage,         \* where each run is
  status,        \* what RunProcessWithInput made of it
  producer,      \* how the stream of frames ended
  fed,           \* frames written to the pipe
  input_open,    \* our end of the pipe
  manifest,      \* the concat manifest, named after the time of its creation
  ffmpeg,        \* the FFmpeg process
  taken,         \* frames it has read
  output         \* the file at the output path: by whom, and how much of it

runVars == <<stage, status, producer, fed, input_open, manifest>>
vars == <<runVars, ffmpeg, taken, output>>

Returned == {"ok", "failed"}
Stages == Returned \cup {"crashed", "prepare", "check", "probe", "create",
                         "list", "start", "feed", "close", "kill", "wait",
                         "clean"}

Alive(r) == ffmpeg[r] \in {"opening", "encoding"}
Ended(r) == ffmpeg[r] \in {"exited", "error", "killed"}

Go(r, next) == stage' = [stage EXCEPT ![r] = next]

Init ==
  /\ stage = [r \in Runs |-> IF r \in Joined THEN "prepare" ELSE "check"]
  /\ status = [r \in Runs |-> "pending"]
  /\ producer = [r \in Runs |-> "running"]
  /\ fed = [r \in Runs |-> 0]
  /\ input_open = [r \in Runs |-> FALSE]
  /\ manifest = [r \in Runs |-> "none"]
  /\ ffmpeg = [r \in Runs |-> "none"]
  /\ taken = [r \in Runs |-> 0]
  /\ output \in {[writer |-> w, content |-> "none"] : w \in {Nobody, Someone}}
-----------------------------------------------------------------------------
(* A run before it starts FFmpeg.                                          *)

\* Scanning, decoding and building the overlay: first for several chapters,
\* after the check of the output for a single one.
Prepare(r) ==
  /\ stage[r] = "prepare"
  /\ Go(r, IF r \in Joined THEN "check" ELSE "probe") \/ Go(r, "failed")
  /\ UNCHANGED <<status, producer, fed, input_open, manifest, ffmpeg, taken,
                 output>>

\* Refuses a path that exists or can not be inspected.
CheckOutput(r) ==
  /\ stage[r] = "check"
  /\ \/ output.writer = Nobody /\ Go(r, IF r \in Joined THEN "probe"
                                        ELSE "prepare")
     \/ Go(r, "failed")
  /\ UNCHANGED <<status, producer, fed, input_open, manifest, ffmpeg, taken,
                 output>>

\* FFmpeg must be there and offer the encoder and the filters.
Probe(r) ==
  /\ stage[r] = "probe"
  /\ Go(r, IF r \in Joined THEN "create" ELSE "start") \/ Go(r, "failed")
  /\ UNCHANGED <<status, producer, fed, input_open, manifest, ffmpeg, taken,
                 output>>

CreateManifest(r) ==
  /\ stage[r] = "create"
  /\ \/ manifest' = [manifest EXCEPT ![r] = "partial"] /\ Go(r, "list")
     \/ UNCHANGED manifest /\ Go(r, "failed")
  /\ UNCHANGED <<status, producer, fed, input_open, ffmpeg, taken, output>>

\* A manifest that can not be written is removed again.
ListChapters(r) ==
  /\ stage[r] = "list"
  /\ \/ manifest' = [manifest EXCEPT ![r] = "whole"] /\ Go(r, "start")
     \/ manifest' = [manifest EXCEPT ![r] = "none"] /\ Go(r, "failed")
  /\ UNCHANGED <<status, producer, fed, input_open, ffmpeg, taken, output>>

Start(r) ==
  /\ stage[r] = "start"
  /\ \/ /\ ffmpeg' = [ffmpeg EXCEPT ![r] = "opening"]
        /\ input_open' = [input_open EXCEPT ![r] = TRUE]
        /\ Go(r, "feed")
        /\ UNCHANGED status
     \/ /\ status' = [status EXCEPT ![r] = "failed"]
        /\ Go(r, "clean")
        /\ UNCHANGED <<ffmpeg, input_open>>
  /\ UNCHANGED <<producer, fed, manifest, taken, output>>
-----------------------------------------------------------------------------
(* The call of RunProcessWithInput.                                        *)

FeedFrame(r) ==
  /\ stage[r] = "feed" /\ fed[r] < frame_count
  /\ Alive(r) /\ fed[r] - taken[r] < PipeFrames
  /\ fed' = [fed EXCEPT ![r] = @ + 1]
  /\ UNCHANGED <<stage, status, producer, input_open, manifest, ffmpeg, taken,
                 output>>

StopFeeding(r) ==
  /\ stage[r] = "feed" /\ fed[r] < frame_count
  /\ producer' = [producer EXCEPT ![r] = "failed"]
  /\ Go(r, "close")
  /\ UNCHANGED <<status, fed, input_open, manifest, ffmpeg, taken, output>>

FrameFails(r) == StopFeeding(r)

BrokenPipe(r) == Ended(r) /\ StopFeeding(r)

AllFed(r) ==
  /\ stage[r] = "feed" /\ fed[r] = frame_count
  /\ producer' = [producer EXCEPT ![r] = "ok"]
  /\ Go(r, "close")
  /\ UNCHANGED <<status, fed, input_open, manifest, ffmpeg, taken, output>>

\* Mutant: the input stays open until the process has ended.
CloseLater(r) ==
  /\ stage[r] = "close"
  /\ Go(r, IF producer[r] = "failed" THEN "kill" ELSE "wait")
  /\ UNCHANGED <<status, producer, fed, input_open, manifest, ffmpeg, taken,
                 output>>

CloseInput(r) ==
  /\ stage[r] = "close"
  /\ input_open' = [input_open EXCEPT ![r] = FALSE]
  /\ Go(r, IF producer[r] = "failed" THEN "kill" ELSE "wait")
  /\ UNCHANGED <<status, producer, fed, manifest, ffmpeg, taken, output>>

Terminate(r) ==
  /\ stage[r] = "kill"
  /\ ffmpeg' = [ffmpeg EXCEPT ![r] = IF Alive(r) THEN "killed" ELSE @]
  /\ Go(r, "wait")
  /\ UNCHANGED <<status, producer, fed, input_open, manifest, taken, output>>

\* Mutant: the exit code alone decides.
ExitDecides(r) == IF ffmpeg[r] = "exited" THEN {"ok", "failed"} ELSE {"failed"}

\* The possible answers: an error of its own, and success only if neither the
\* producer nor FFmpeg has failed.
Answers(r) ==
  IF producer[r] = "ok" /\ ffmpeg[r] = "exited" THEN {"ok", "failed"}
  ELSE {"failed"}

Wait(r) ==
  /\ stage[r] = "wait" /\ Ended(r)
  /\ \E answer \in Answers(r) : status' = [status EXCEPT ![r] = answer]
  /\ Go(r, "clean")
  /\ UNCHANGED <<producer, fed, input_open, manifest, ffmpeg, taken, output>>

\* Mutant: an error returns at once.
ReturnFirst(r) ==
  /\ stage[r] = "clean"
  /\ manifest' = [manifest EXCEPT ![r] = IF status[r] = "ok" THEN "none" ELSE @]
  /\ Go(r, status[r])
  /\ UNCHANGED <<status, producer, fed, input_open, ffmpeg, taken, output>>

\* The manifest is removed whatever became of the process.
RemoveManifest(r) ==
  /\ stage[r] = "clean"
  /\ manifest' = [manifest EXCEPT ![r] = "none"]
  /\ Go(r, status[r])
  /\ UNCHANGED <<status, producer, fed, input_open, ffmpeg, taken, output>>

\* The program is killed: the pipe closes, nothing is cleaned up, and FFmpeg
\* goes on with what it has.
Crash(r) ==
  /\ stage[r] \notin Returned \cup {"crashed"}
  /\ Go(r, "crashed")
  /\ input_open' = [input_open EXCEPT ![r] = FALSE]
  /\ UNCHANGED <<status, producer, fed, manifest, ffmpeg, taken, output>>

Run(r) ==
  \/ Prepare(r) \/ CheckOutput(r) \/ Probe(r) \/ CreateManifest(r)
  \/ ListChapters(r) \/ Start(r) \/ FeedFrame(r) \/ BrokenPipe(r) \/ AllFed(r)
  \/ CloseInput(r) \/ Terminate(r) \/ Wait(r) \/ RemoveManifest(r)
-----------------------------------------------------------------------------
(* FFmpeg.                                                                 *)

\* Mutant: FFmpeg is started with -y.
Overwrites == FALSE

\* FFmpeg is started with -n.
Refuses == output.writer # Nobody

OpenOutput(r) ==
  /\ ffmpeg[r] = "opening"
  /\ ~Refuses
  /\ ffmpeg' = [ffmpeg EXCEPT ![r] = "encoding"]
  /\ output' = [writer |-> r, content |-> "partial"]
  /\ UNCHANGED <<runVars, taken>>

ExitWithError(r) ==
  /\ Alive(r)
  /\ ffmpeg' = [ffmpeg EXCEPT ![r] = "error"]
  /\ UNCHANGED <<runVars, taken, output>>

RefuseOutput(r) == ffmpeg[r] = "opening" /\ Refuses /\ ExitWithError(r)

\* An input can not be opened, an encoder breaks down, the disk is full.
BreakDown(r) == ExitWithError(r)

ReadFrame(r) ==
  /\ ffmpeg[r] = "encoding" /\ taken[r] < fed[r]
  /\ taken' = [taken EXCEPT ![r] = @ + 1]
  /\ UNCHANGED <<runVars, ffmpeg, output>>

\* The pipe has come to its end: the file is what the frames make of it.
EndOfFrames(r) ==
  /\ ffmpeg[r] = "encoding" /\ taken[r] = fed[r] /\ ~input_open[r]
  /\ ffmpeg' = [ffmpeg EXCEPT ![r] = "exited"]
  /\ output' = [output EXCEPT !.content =
                  IF taken[r] = frame_count THEN "complete" ELSE "truncated"]
  /\ UNCHANGED <<runVars, taken>>

\* The main input has come to its end before the pipe.
EndOfVideo(r) ==
  /\ ffmpeg[r] = "encoding" /\ taken[r] > 0
  /\ ffmpeg' = [ffmpeg EXCEPT ![r] = "exited"]
  /\ output' = [output EXCEPT !.content = "complete"]
  /\ UNCHANGED <<runVars, taken>>

Ffmpeg(r) ==
  OpenOutput(r) \/ RefuseOutput(r) \/ ReadFrame(r) \/ EndOfFrames(r)

SomeoneWrites ==
  /\ output.writer = Nobody
  /\ output' = [writer |-> Someone, content |-> "none"]
  /\ UNCHANGED <<runVars, ffmpeg, taken>>

Finished ==
  /\ \A r \in Runs : stage[r] \in Returned \cup {"crashed"} /\ ~Alive(r)
  /\ UNCHANGED vars

Next ==
  \/ \E r \in Runs :
       \/ Run(r) \/ FrameFails(r) \/ Crash(r)
       \/ Ffmpeg(r) \/ BreakDown(r) \/ EndOfVideo(r)
  \/ SomeoneWrites
  \/ Finished

Spec == Init /\ [][Next]_vars

\* A run and an FFmpeg that can go on do.  No frame has to fail, nobody has to
\* crash, and FFmpeg may but need not stop before the end of its piped input.
Fairness == \A r \in Runs : WF_vars(Run(r)) /\ WF_vars(Ffmpeg(r))

FairSpec == Spec /\ Fairness
-----------------------------------------------------------------------------
(* Properties.                                                             *)

TypeOK ==
  /\ stage \in [Runs -> Stages]
  /\ status \in [Runs -> {"pending", "ok", "failed"}]
  /\ producer \in [Runs -> {"running", "ok", "failed"}]
  /\ fed \in [Runs -> 0 .. frame_count]
  /\ input_open \in [Runs -> BOOLEAN]
  /\ manifest \in [Runs -> {"none", "partial", "whole"}]
  /\ ffmpeg \in [Runs -> {"none", "opening", "encoding", "exited", "error",
                          "killed"}]
  /\ taken \in [Runs -> 0 .. frame_count]
  /\ output \in [writer : Runs \cup {Nobody, Someone},
                 content : {"none", "partial", "truncated", "complete"}]

\* A run that reports success has written the file at the output path, and
\* nobody else has since: all of its frames, or all of the video
\* (video_encoder.cc:557-570).  A frame that fails, a broken pipe and an FFmpeg
\* that takes the end of the pipe for the end of the overlay are not success.
SuccessMeansComplete ==
  \A r \in Runs :
    stage[r] = "ok" => output = [writer |-> r, content |-> "complete"]

\* Existing output files are never overwritten (README.md:351): a file that
\* exists is changed by the FFmpeg that created it only, while it is encoding.
\* The check of the path alone does not give that: another run may pass it
\* before this one's FFmpeg creates the file.
NeverOverwritten ==
  [][ \/ output.writer = Nobody
      \/ /\ output.writer \in Runs /\ ffmpeg[output.writer] = "encoding"
         /\ output'.writer = output.writer ]_output

\* The manifest is there, and whole, for as long as an FFmpeg may read it, even
\* if its run has crashed; a run that returns has removed it
\* (video_encoder.cc:559-562).
ManifestLifetime ==
  \A r \in Joined :
    /\ Alive(r) => manifest[r] = "whole"
    /\ stage[r] \in Returned => manifest[r] = "none"

\* Every run returns unless it crashes, and no FFmpeg is left waiting for
\* frames, not even that of a crashed run.
NothingLingers ==
  \A r \in Runs :
    <>[](stage[r] \in Returned \cup {"crashed"} /\ ~Alive(r))
-----------------------------------------------------------------------------
(* The contracts a run's call of the process runner and its frames keep.   *)

\* Whether the runner has killed FFmpeg or not makes no difference any more.
Process(r) ==
  CASE ffmpeg[r] = "none" -> "none"
    [] Alive(r) -> "running"
    [] ffmpeg[r] = "killed" -> "doomed"
    [] OTHER -> "ended"

\* An FFmpeg that exits with an error is no failure of the call, which reports
\* its exit code.
Answer(r) ==
  CASE status[r] = "pending" -> "none"
    [] status[r] = "ok" -> "completed"
    [] status[r] = "failed" ->
         IF ffmpeg[r] = "none" THEN "not_started"
         ELSE IF producer[r] = "failed" THEN "producer_error"
         ELSE IF producer[r] = "ok" /\ ffmpeg[r] = "error" THEN "completed"
         ELSE "wait_error"

Call(r) == INSTANCE ProcessCall WITH
  due <- frame_count, fed <- fed[r], process <- Process(r),
  answer <- Answer(r)

\* A picture is known by the number of its frame.
Picture(frame) == frame

StreamOutcome(r) ==
  CASE producer[r] = "running" -> "streaming"
    [] producer[r] = "ok" -> "ok"
    [] OTHER -> "error"

Stream(r) == INSTANCE OverlayStream WITH
  Picture <- Picture, delivered <- [k \in 1 .. fed[r] |-> Picture(k - 1)],
  outcome <- StreamOutcome(r)
-----------------------------------------------------------------------------
(* The inductive invariant.                                                *)

\* Before a run starts FFmpeg.
Early == {"prepare", "check", "probe", "create", "list", "start"}

FilesInv ==
  /\ output.writer \in Runs => ffmpeg[output.writer] \notin {"none", "opening"}
  /\ \A r \in Runs :
       /\ ffmpeg[r] \in {"encoding", "exited"} => output.writer = r
       /\ ffmpeg[r] = "exited" =>
            output.content = "complete" \/ fed[r] < frame_count

StageInv ==
  \A r \in Runs :
    /\ stage[r] \in Early => ffmpeg[r] = "none"
    /\ producer[r] = "ok" => fed[r] = frame_count
    /\ status[r] = "ok" => producer[r] = "ok" /\ ffmpeg[r] = "exited"
    /\ stage[r] = "clean" => status[r] \in Returned
    /\ stage[r] = "ok" => status[r] = "ok"
    /\ stage[r] \in Returned \cup {"clean"} => ~Alive(r)

ManifestInv ==
  \A r \in Joined :
    /\ stage[r] \in Returned \cup (Early \ {"list", "start"}) =>
         manifest[r] = "none"
    /\ stage[r] \in {"start", "feed", "close", "kill", "wait"} =>
         manifest[r] = "whole"
    /\ Alive(r) => manifest[r] = "whole"

IInv == TypeOK /\ FilesInv /\ StageInv /\ ManifestInv
=============================================================================
