-------------------------- MODULE OverlayPipeline --------------------------
(***************************************************************************)
(* ProduceOverlayFrames (src/src/ffmpeg/video_encoder.cc:99-327): a pool   *)
(* of workers renders overlay frames out of order into a ring of           *)
(* persistent frame buffers, and the calling thread, the writer, hands     *)
(* them to a synchronous sink in frame order.  All threads share one mutex *)
(* and one condition variable.                                             *)
(*                                                                         *)
(* A critical section without an interesting middle is one action guarded  *)
(* by the mutex being free.  The section that claims a frame is two,       *)
(* because sampling and the track update must stay inside it.  Rendering   *)
(* and the sink call run unlocked, so each has a beginning and an end.     *)
(***************************************************************************)
EXTENDS Integers, Sequences, FiniteSets

CONSTANTS
  Workers,        \* the rendering threads
  Writer,         \* the thread that called ProduceOverlayFrames
  frame_count,
  ExploredPoints, \* frame -> track points explored at its timestamp
  None            \* no owner, no snapshot, no usable picture

Frames == 0 .. frame_count - 1

\* A later timestamp never explores fewer track points (SampleOverlayFrame
\* takes an upper bound over sorted timestamps).
ASSUME PipelineAssumption ==
  /\ IsFiniteSet(Workers) /\ Workers # {}
  /\ Writer \notin Workers
  /\ None \notin Workers \cup {Writer}
  /\ frame_count \in Nat \ {0}
  /\ ExploredPoints \in [Frames -> Nat]
  /\ \A f, g \in Frames : f <= g => ExploredPoints[f] <= ExploredPoints[g]

Threads == Workers \cup {Writer}

\* capacity = worker_count: one slot, hence one buffer, per worker.
capacity == Cardinality(Workers)

Slots == 0 .. capacity - 1

Slot(f) == f % capacity

VARIABLES
  mutex,            \* the thread inside a critical section, or None
  waiting,          \* the threads blocked on state_changed
  pc,               \* where each thread is
  stop,
  next_to_assign,
  next_to_write,
  frame,            \* frame_index, a local of each worker
  status,           \* preparation_status / render_status of each worker
  snapshot,         \* track_snapshot, a local of each worker
  slot_ready, slot_status, slot_pixels,
  explored,         \* track_state.explored_point_count
  track_drawn,      \* the track segments painted into track_state.pixels
  track_snapshot,   \* track_state.snapshot: the segments of the shared copy
  result,           \* what ProduceOverlayFrames will return
  delivered         \* history: the pictures the sink accepted

trackVars == <<explored, track_drawn, track_snapshot>>
slotVars  == <<slot_ready, slot_status, slot_pixels>>
localVars == <<frame, status, snapshot>>
vars == <<mutex, waiting, pc, stop, next_to_assign, next_to_write, localVars,
          slotVars, trackVars, result, delivered>>

\* Segment i joins the points i and i + 1 (counted from 1).
Segments(points) == 1 .. points - 1

Pictures == [frame : Frames, track : (SUBSET Nat) \cup {None}]

Picture(f) == [frame |-> f, track |-> Segments(ExploredPoints[f])]

Errors == {"sample", "track_order", "render", "sink"}

WorkerPcs == {"unborn", "claim", "prepare", "render", "drawing", "publish",
              "notify", "done"}
WriterPcs == {"spawn", "await", "notify_taken", "sinking", "release",
              "notify_released", "notify_failed", "sink_failed",
              "notify_sink_failed", "shutdown", "notify_shutdown", "join",
              "done"}
-----------------------------------------------------------------------------
Init ==
  /\ mutex = None
  /\ waiting = {}
  /\ pc = [t \in Threads |-> IF t = Writer THEN "spawn" ELSE "unborn"]
  /\ stop = FALSE
  /\ next_to_assign = 0
  /\ next_to_write = 0
  /\ frame = [w \in Workers |-> 0]
  /\ status = [w \in Workers |-> "ok"]
  /\ snapshot = [w \in Workers |-> None]
  /\ slot_ready = [s \in Slots |-> FALSE]
  /\ slot_status = [s \in Slots |-> "ok"]
  /\ slot_pixels = [s \in Slots |-> None]
  /\ explored = 0
  /\ track_drawn = {}
  /\ track_snapshot = None
  /\ result = "ok"
  /\ delivered = <<>>

Goto(t, label) == pc' = [pc EXCEPT ![t] = label]

\* Thread t is at a label and not blocked on the condition variable.
At(t, label) == pc[t] = label /\ t \notin waiting

\* state_changed.notify_all(), called without the mutex.
NotifyAll(t, from, to) ==
  /\ At(t, from)
  /\ waiting' = {}
  /\ Goto(t, to)
  /\ UNCHANGED <<mutex, stop, next_to_assign, next_to_write, localVars,
                 slotVars, trackVars, result, delivered>>

\* condition_variable::wait may return without a notification; the predicate
\* is then evaluated again.
SpuriousWakeup(t) ==
  /\ t \in waiting
  /\ waiting' = waiting \ {t}
  /\ UNCHANGED <<mutex, pc, stop, next_to_assign, next_to_write, localVars,
                 slotVars, trackVars, result, delivered>>
-----------------------------------------------------------------------------
(* The workers. *)

NothingToClaim == stop \/ next_to_assign >= frame_count

\* Mutant: one frame more than there are slots.
RoomForOneMore == next_to_assign <= next_to_write + capacity

RoomAhead == next_to_assign < next_to_write + capacity

\* The wait predicate is false: release the mutex and block, in one step.
BlockWorker(w) ==
  /\ At(w, "claim") /\ mutex = None
  /\ ~NothingToClaim /\ ~RoomAhead
  /\ waiting' = waiting \cup {w}
  /\ UNCHANGED <<mutex, pc, stop, next_to_assign, next_to_write, localVars,
                 slotVars, trackVars, result, delivered>>

Quit(w) ==
  /\ At(w, "claim") /\ mutex = None
  /\ NothingToClaim
  /\ Goto(w, "done")
  /\ UNCHANGED <<mutex, waiting, stop, next_to_assign, next_to_write,
                 localVars, slotVars, trackVars, result, delivered>>

ClaimFrame(w) ==
  /\ At(w, "claim") /\ mutex = None
  /\ ~NothingToClaim /\ RoomAhead
  /\ frame' = [frame EXCEPT ![w] = next_to_assign]
  /\ status' = [status EXCEPT ![w] = "ok"]
  /\ snapshot' = [snapshot EXCEPT ![w] = None]
  /\ next_to_assign' = next_to_assign + 1
  /\ Goto(w, "prepare")
  /\ UNCHANGED <<waiting, stop, next_to_write, slotVars, trackVars, result,
                 delivered>>

\* Mutant: the frame is prepared after the mutex has been released.
ClaimUnlocked(w) == ClaimFrame(w) /\ mutex' = None

\* Takes the next frame and keeps the mutex for its preparation.
Claim(w) == ClaimFrame(w) /\ mutex' = w

\* A frame that could not be prepared is not rendered, only published.
GiveUp(w, error) ==
  /\ status' = [status EXCEPT ![w] = error]
  /\ Goto(w, "publish")

SampleFails(w) ==
  /\ At(w, "prepare")
  /\ GiveUp(w, "sample")
  /\ mutex' = None
  /\ UNCHANGED <<waiting, stop, next_to_assign, next_to_write, frame,
                 snapshot, slotVars, trackVars, result, delivered>>

AtLeastOne(n) == IF n > 1 THEN n ELSE 1

\* Paints the newly explored segments and shares a copy of the track, the
\* previous one if nothing was painted.
PaintTrack(target) ==
  /\ explored' = target
  /\ track_drawn' = track_drawn \cup (AtLeastOne(explored) .. target - 1)
  /\ track_snapshot' =
       IF target > AtLeastOne(explored) \/ track_snapshot = None
       THEN track_drawn'
       ELSE track_snapshot

\* AdvanceTrackRenderState, which refuses to go back.
AdvanceTrack(w) ==
  LET target == ExploredPoints[frame[w]]
  IN  /\ At(w, "prepare")
      /\ mutex' = None
      /\ IF target < explored
         THEN GiveUp(w, "track_order") /\ UNCHANGED <<snapshot, trackVars>>
         ELSE /\ PaintTrack(target)
              /\ snapshot' = [snapshot EXCEPT ![w] = track_snapshot']
              /\ Goto(w, "render")
              /\ UNCHANGED status
      /\ UNCHANGED <<waiting, stop, next_to_assign, next_to_write, frame,
                     slotVars, result, delivered>>

\* Render validates its input before it touches the buffer.
RenderFails(w) ==
  /\ At(w, "render")
  /\ GiveUp(w, "render")
  /\ UNCHANGED <<mutex, waiting, stop, next_to_assign, next_to_write, frame,
                 snapshot, slotVars, trackVars, result, delivered>>

\* From here to EndRender the buffer of the slot holds no complete picture.
BeginRender(w) ==
  /\ At(w, "render")
  /\ slot_pixels' = [slot_pixels EXCEPT ![Slot(frame[w])] = None]
  /\ Goto(w, "drawing")
  /\ UNCHANGED <<mutex, waiting, stop, next_to_assign, next_to_write,
                 localVars, slot_ready, slot_status, trackVars, result,
                 delivered>>

EndRender(w) ==
  /\ At(w, "drawing")
  /\ slot_pixels' = [slot_pixels EXCEPT ![Slot(frame[w])] =
                       [frame |-> frame[w], track |-> snapshot[w]]]
  /\ Goto(w, "publish")
  /\ UNCHANGED <<mutex, waiting, stop, next_to_assign, next_to_write,
                 localVars, slot_ready, slot_status, trackVars, result,
                 delivered>>

Publish(w) ==
  /\ At(w, "publish") /\ mutex = None
  /\ slot_status' = [slot_status EXCEPT ![Slot(frame[w])] = status[w]]
  /\ slot_ready' = [slot_ready EXCEPT ![Slot(frame[w])] = TRUE]
  /\ Goto(w, "notify")
  /\ UNCHANGED <<mutex, waiting, stop, next_to_assign, next_to_write,
                 localVars, slot_pixels, trackVars, result, delivered>>

\* Mutant: the writer is not told of the published frame.
PublishSilently(w) ==
  /\ At(w, "notify")
  /\ Goto(w, "claim")
  /\ UNCHANGED <<mutex, waiting, stop, next_to_assign, next_to_write,
                 localVars, slotVars, trackVars, result, delivered>>

NotifyPublished(w) == NotifyAll(w, "notify", "claim")

Worker(w) ==
  \/ BlockWorker(w) \/ Quit(w) \/ Claim(w)
  \/ SampleFails(w) \/ AdvanceTrack(w) \/ RenderFails(w)
  \/ BeginRender(w) \/ EndRender(w)
  \/ Publish(w) \/ NotifyPublished(w)
-----------------------------------------------------------------------------
(* The writer. *)

\* workers.emplace_back(worker); a worker runs as soon as it exists.
Spawn(w) ==
  /\ pc[Writer] = "spawn"
  /\ pc[w] = "unborn"
  /\ pc' = [pc EXCEPT ![w] = "claim"]
  /\ UNCHANGED <<mutex, waiting, stop, next_to_assign, next_to_write,
                 localVars, slotVars, trackVars, result, delivered>>

Spawned ==
  /\ pc[Writer] = "spawn"
  /\ \A w \in Workers : pc[w] # "unborn"
  /\ Goto(Writer, "await")
  /\ UNCHANGED <<mutex, waiting, stop, next_to_assign, next_to_write,
                 localVars, slotVars, trackVars, result, delivered>>

NextSlot == Slot(next_to_write)

BlockWriter ==
  /\ At(Writer, "await") /\ mutex = None
  /\ ~slot_ready[NextSlot]
  /\ waiting' = waiting \cup {Writer}
  /\ UNCHANGED <<mutex, pc, stop, next_to_assign, next_to_write, localVars,
                 slotVars, trackVars, result, delivered>>

\* pixels becomes a view of the slot's buffer; nothing is copied.
TakeFrame ==
  /\ At(Writer, "await") /\ mutex = None
  /\ slot_ready[NextSlot] /\ slot_status[NextSlot] = "ok"
  /\ Goto(Writer, "notify_taken")
  /\ UNCHANGED <<mutex, waiting, stop, next_to_assign, next_to_write,
                 localVars, slotVars, trackVars, result, delivered>>

TakeError ==
  /\ At(Writer, "await") /\ mutex = None
  /\ slot_ready[NextSlot] /\ slot_status[NextSlot] # "ok"
  /\ result' = slot_status[NextSlot]
  /\ stop' = TRUE
  /\ Goto(Writer, "notify_failed")
  /\ UNCHANGED <<mutex, waiting, next_to_assign, next_to_write, localVars,
                 slotVars, trackVars, delivered>>

NotifyTaken == NotifyAll(Writer, "notify_taken", "sinking")

\* Mutant: the loop is not left after a frame that failed.
NotifyFailedWithoutBreak == NotifyAll(Writer, "notify_failed", "sinking")

NotifyFailed == NotifyAll(Writer, "notify_failed", "shutdown")

\* The sink has consumed whatever the buffer holds when it returns.
SinkAccepts ==
  /\ At(Writer, "sinking")
  /\ delivered' = Append(delivered, slot_pixels[NextSlot])
  /\ Goto(Writer, "release")
  /\ UNCHANGED <<mutex, waiting, stop, next_to_assign, next_to_write,
                 localVars, slotVars, trackVars, result>>

SinkFails ==
  /\ At(Writer, "sinking")
  /\ result' = "sink"
  /\ Goto(Writer, "sink_failed")
  /\ UNCHANGED <<mutex, waiting, stop, next_to_assign, next_to_write,
                 localVars, slotVars, trackVars, delivered>>

StopAfterSink ==
  /\ At(Writer, "sink_failed") /\ mutex = None
  /\ stop' = TRUE
  /\ Goto(Writer, "notify_sink_failed")
  /\ UNCHANGED <<mutex, waiting, next_to_assign, next_to_write, localVars,
                 slotVars, trackVars, result, delivered>>

NotifySinkFailed == NotifyAll(Writer, "notify_sink_failed", "shutdown")

\* Only now may a worker render into the slot's buffer again.
Release ==
  /\ At(Writer, "release") /\ mutex = None
  /\ slot_ready' = [slot_ready EXCEPT ![NextSlot] = FALSE]
  /\ next_to_write' = next_to_write + 1
  /\ Goto(Writer, "notify_released")
  /\ UNCHANGED <<mutex, waiting, stop, next_to_assign, localVars, slot_status,
                 slot_pixels, trackVars, result, delivered>>

NotifyReleased ==
  NotifyAll(Writer, "notify_released",
            IF next_to_write < frame_count THEN "await" ELSE "shutdown")

Shutdown ==
  /\ At(Writer, "shutdown") /\ mutex = None
  /\ stop' = TRUE
  /\ Goto(Writer, "notify_shutdown")
  /\ UNCHANGED <<mutex, waiting, next_to_assign, next_to_write, localVars,
                 slotVars, trackVars, result, delivered>>

NotifyShutdown == NotifyAll(Writer, "notify_shutdown", "join")

Join ==
  /\ At(Writer, "join")
  /\ \A w \in Workers : pc[w] = "done"
  /\ Goto(Writer, "done")
  /\ UNCHANGED <<mutex, waiting, stop, next_to_assign, next_to_write,
                 localVars, slotVars, trackVars, result, delivered>>

WriterStep ==
  \/ \E w \in Workers : Spawn(w)
  \/ Spawned \/ BlockWriter \/ TakeFrame \/ TakeError
  \/ NotifyTaken \/ NotifyFailed
  \/ SinkAccepts \/ SinkFails \/ StopAfterSink \/ NotifySinkFailed
  \/ Release \/ NotifyReleased
  \/ Shutdown \/ NotifyShutdown \/ Join

\* The call has returned; nothing of it is left to run.
Returned == pc[Writer] = "done" /\ UNCHANGED vars

Next ==
  \/ \E w \in Workers : Worker(w)
  \/ WriterStep
  \/ \E t \in Threads : SpuriousWakeup(t)
  \/ Returned

Spec == Init /\ [][Next]_vars

\* The scheduler runs every thread that can run, and the sink returns.
\* Nothing is assumed of spurious wakeups.
FairSpec ==
  /\ Spec
  /\ \A w \in Workers : WF_vars(Worker(w))
  /\ WF_vars(WriterStep)
-----------------------------------------------------------------------------
(* Properties. *)

\* The mutex is taken across a step only by a worker preparing its frame.
ControlType ==
  /\ mutex \in Workers \cup {None}
  /\ waiting \subseteq Threads
  /\ pc \in [Threads -> WorkerPcs \cup WriterPcs]
  /\ \A w \in Workers : pc[w] \in WorkerPcs
  /\ pc[Writer] \in WriterPcs

Statuses == {"ok"} \cup Errors

DataType ==
  /\ stop \in BOOLEAN
  /\ next_to_assign \in 0 .. frame_count
  /\ next_to_write \in Nat
  /\ frame \in [Workers -> Frames]
  /\ status \in [Workers -> Statuses]
  /\ snapshot \in [Workers -> (SUBSET Nat) \cup {None}]
  /\ slot_ready \in [Slots -> BOOLEAN]
  /\ slot_status \in [Slots -> Statuses]
  /\ slot_pixels \in [Slots -> Pictures \cup {None}]
  /\ explored \in Nat
  /\ track_drawn \subseteq Nat
  /\ track_snapshot \in (SUBSET Nat) \cup {None}
  /\ result \in Statuses
  /\ delivered \in Seq(Pictures \cup {None})

\* Every variable has its type; no frame beyond the last is ever claimed.
TypeOK == ControlType /\ DataType

\* The worker owns a frame, and with it the buffer of the frame's slot.
Holds(w) == pc[w] \in {"prepare", "render", "drawing", "publish"}

\* The writer reads the buffer of the next slot.
Sinking == pc[Writer] \in {"notify_taken", "sinking"}

\* A buffer has one user at a time: no two workers share a slot, no worker
\* renders into a buffer that waits for the writer, and the buffer the sink is
\* reading (video_encoder.cc:276-277) keeps the complete picture of the frame
\* that is due.
SlotOwnership ==
  /\ \A v, w \in Workers :
       Holds(v) /\ Holds(w) /\ Slot(frame[v]) = Slot(frame[w]) => v = w
  /\ \A w \in Workers : Holds(w) => ~slot_ready[Slot(frame[w])]
  /\ Sinking => slot_pixels[NextSlot] = Picture(next_to_write)

\* Although frames finish in any order, the shared track state is advanced in
\* frame order (it would refuse anything else, debug_renderer.cc:683-686), and
\* each picture shows the track of its own timestamp.
TrackInFrameOrder ==
  \A w \in Workers :
    /\ status[w] # "track_order"
    /\ pc[w] \in {"render", "drawing"} =>
         snapshot[w] = Segments(ExploredPoints[frame[w]])

\* No wakeup is lost: while a thread is blocked although its wait predicate has
\* become true, the thread that made it true has its notify_all still ahead of
\* it.  The last claim makes the predicate of the blocked workers true without
\* a notification of its own; its worker notifies when it has published.
NoLostWakeup ==
  /\ waiting \cap Workers # {} =>
       /\ stop => pc[Writer] \in {"notify_failed", "notify_sink_failed",
                                  "notify_shutdown"}
       /\ ~NothingToClaim /\ RoomAhead => pc[Writer] = "notify_released"
       /\ next_to_assign = frame_count =>
            \E w \in Workers : Holds(w) \/ pc[w] = "notify"
  /\ Writer \in waiting /\ slot_ready[NextSlot] =>
       \E w \in Workers : pc[w] = "notify"

\* The outcome a caller sees: none before every worker has been joined.
outcome ==
  IF pc[Writer] # "done" THEN "streaming"
  ELSE IF result = "ok" THEN "ok" ELSE "error"

Stream == INSTANCE OverlayStream WITH
  frame_count <- frame_count, Picture <- Picture, delivered <- delivered,
  outcome <- outcome

\* The pool delivers what one loop over the frames would have delivered: the
\* pictures in frame order, all of them or, with an error, those before the
\* first frame that failed.
ImplementsStream == Stream!Spec

\* If the sink always returns, the call returns: no thread is left blocked
\* and every worker is joined, whether the stream succeeded or failed.
EventuallyReturns == <>(pc[Writer] = "done" /\ waiting = {})
-----------------------------------------------------------------------------
(* The inductive invariant, in the parts that OverlayPipelineProofs proves *)
(* one after the other.                                                    *)

\* The frames that were claimed and are not yet written.
InFlight == next_to_write .. next_to_assign - 1

\* A frame in flight is with one worker, or ready in its slot; there are no
\* more of them than slots, so no two of them share one.
FlightInv ==
  /\ next_to_write <= next_to_assign
  /\ next_to_assign <= next_to_write + capacity
  /\ \A w \in Workers :
       Holds(w) => frame[w] \in InFlight /\ ~slot_ready[Slot(frame[w])]
  /\ \A v, w \in Workers :
       Holds(v) /\ Holds(w) /\ frame[v] = frame[w] => v = w
  /\ \A s \in Slots : slot_ready[s] => \E f \in InFlight : Slot(f) = s
  /\ pc[Writer] \in {"notify_taken", "sinking", "release"} =>
       slot_ready[NextSlot]

\* The track shows what the last prepared frame has explored, and the frame
\* being prepared is the last one claimed.
TrackInv ==
  /\ track_drawn = Segments(explored)
  /\ track_snapshot \in {None, Segments(explored)}
  /\ \A f \in Frames : next_to_assign <= f => explored <= ExploredPoints[f]
  /\ \A w \in Workers : pc[w] = "prepare" =>
       /\ mutex = w
       /\ next_to_assign = frame[w] + 1
       /\ explored <= ExploredPoints[frame[w]]
  /\ TrackInFrameOrder

\* A buffer published without an error holds the picture of its frame.
PictureInv ==
  /\ \A w \in Workers :
       /\ pc[w] = "publish" /\ status[w] = "ok" =>
            slot_pixels[Slot(frame[w])] = Picture(frame[w])
       /\ pc[w] \in {"prepare", "render", "drawing"} => status[w] = "ok"
  /\ \A f \in InFlight :
       slot_ready[Slot(f)] /\ slot_status[Slot(f)] = "ok" =>
         slot_pixels[Slot(f)] = Picture(f)
  /\ pc[Writer] \in {"notify_taken", "sinking"} =>
       slot_status[NextSlot] = "ok"

\* The sink has accepted the pictures of the frames that were written, and of
\* the one whose slot is about to be released.
DeliveryInv ==
  /\ Len(delivered) =
       IF pc[Writer] = "release" THEN next_to_write + 1 ELSE next_to_write
  /\ \A i \in 1 .. Len(delivered) : delivered[i] = Picture(i - 1)
  /\ pc[Writer] \in {"spawn", "await", "notify_taken", "sinking", "release"}
       => result = "ok" /\ next_to_write < frame_count
  /\ pc[Writer] = "notify_released" => result = "ok"
  /\ pc[Writer] \in {"notify_failed", "sink_failed", "notify_sink_failed"}
       => result # "ok" /\ next_to_write < frame_count
  /\ pc[Writer] \in {"shutdown", "notify_shutdown", "join", "done"} =>
       (result = "ok" <=> next_to_write = frame_count)

\* Frames, slots, track and deliveries are consistent with one another.
IInv == FlightInv /\ TrackInv /\ PictureInv /\ DeliveryInv
=============================================================================
