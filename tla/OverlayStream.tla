--------------------------- MODULE OverlayStream ---------------------------
(***************************************************************************)
(* What RenderOverlayFrames (video_encoder.h:45-46) promises its caller,   *)
(* with no threads in it: the sink receives the picture of every frame,    *)
(* one at a time and in frame order, and the first frame that cannot be    *)
(* prepared, rendered or accepted ends the stream with an error.           *)
(***************************************************************************)
EXTENDS Naturals, Sequences

CONSTANTS
  frame_count,   \* how many frames the clip has
  Picture(_)     \* the picture that belongs to a frame, numbered from 0

VARIABLES
  delivered,     \* the pictures the sink has accepted, in order
  outcome        \* "streaming" until the call returns "ok" or "error"

streamVars == <<delivered, outcome>>

Init ==
  /\ delivered = <<>>
  /\ outcome = "streaming"

\* The sink accepts the next picture; it belongs to the next frame.
Deliver ==
  /\ outcome = "streaming"
  /\ Len(delivered) < frame_count
  /\ delivered' = Append(delivered, Picture(Len(delivered)))
  /\ UNCHANGED outcome

\* Success is reported for a complete stream only.
Succeed ==
  /\ outcome = "streaming"
  /\ Len(delivered) = frame_count
  /\ outcome' = "ok"
  /\ UNCHANGED delivered

\* An error is reported for an incomplete stream only.
Fail ==
  /\ outcome = "streaming"
  /\ Len(delivered) < frame_count
  /\ outcome' = "error"
  /\ UNCHANGED delivered

Next == Deliver \/ Succeed \/ Fail

Spec == Init /\ [][Next]_streamVars

\* A caller whose sink returns gets an answer.
FairSpec == Spec /\ WF_streamVars(Next)
=============================================================================
