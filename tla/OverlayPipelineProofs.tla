----------------------- MODULE OverlayPipelineProofs -----------------------
(***************************************************************************)
(* What the overlay worker pool guarantees for every number of workers and *)
(* frames.  The parts of IInv are proved one after the other, each from    *)
(* TypeOK and the parts before it; the refinement and the absence of lost  *)
(* wakeups come last.  A step is split by who takes it: a worker, the      *)
(* writer, or a thread that wakes up spuriously.                           *)
(***************************************************************************)
EXTENDS OverlayPipeline, FiniteSetTheorems, TLAPS

\* There is a slot: the pool has at least one worker.
LEMMA CapacityPositive == capacity \in Nat \ {0}
  BY PipelineAssumption, FS_CardinalityType, FS_EmptySet DEF capacity

\* Every frame has a slot.
LEMMA SlotType == \A f \in Nat : Slot(f) \in Slots
  BY CapacityPositive, SMT DEF Slot, Slots

\* Frames less than capacity apart do not share a slot.
LEMMA SlotsDistinct ==
  ASSUME NEW f \in Nat, NEW g \in Nat, f < g, g < f + capacity
  PROVE  Slot(f) # Slot(g)
<1>1. ASSUME NEW c \in Nat \ {0}, NEW p \in Int, NEW q \in Int, NEW r \in Int,
             NEW a \in Nat, NEW b \in Nat,
             a < b, b < a + c, a = (c * p) + r, b = (c * q) + r
      PROVE  FALSE
  <2>1. b - a = c * (q - p) BY <1>1, SMT
  <2>2. CASE q <= p BY <1>1, <2>2, <2>1, SMT
  <2>3. CASE q > p BY <1>1, <2>3, <2>1, SMT
  <2> QED BY <2>2, <2>3
<1>2. \A n \in Nat, c \in Nat \ {0} :
        /\ n = (c * (n \div c)) + (n % c)
        /\ n \div c \in Int
        /\ n % c \in Int
  BY SMT
<1>3. SUFFICES ASSUME f % capacity = g % capacity PROVE FALSE
  BY DEF Slot
<1>4. /\ f = (capacity * (f \div capacity)) + (f % capacity)
      /\ g = (capacity * (g \div capacity)) + (f % capacity)
      /\ f \div capacity \in Int /\ g \div capacity \in Int
      /\ f % capacity \in Int
  BY <1>2, <1>3, CapacityPositive, Zenon
<1> QED BY <1>1, <1>4, CapacityPositive, Zenon
-----------------------------------------------------------------------------
\* What the proofs use of the assumption on the constants.
LEMMA ConstantTypes ==
  /\ Writer \notin Workers
  /\ None \notin Workers
  /\ frame_count \in Nat \ {0}
  /\ ExploredPoints \in [Frames -> Nat]
  BY PipelineAssumption

\* The variables start with values of their types.
LEMMA InitType == Init => TypeOK
<1> SUFFICES ASSUME Init PROVE TypeOK
  OBVIOUS
<1>1. ControlType
  BY ConstantTypes DEF Init, ControlType, Threads, WorkerPcs, WriterPcs
<1>2. DataType
  <2>1. 0 \in Frames /\ "ok" \in Statuses
    BY ConstantTypes DEF Frames, Statuses
  <2>2. delivered \in Seq(Pictures \cup {None})
    BY DEF Init
  <2>3. /\ next_to_assign \in 0 .. frame_count
        /\ next_to_write \in Nat
        /\ explored \in Nat
    BY ConstantTypes DEF Init
  <2>4. /\ track_drawn \subseteq Nat
        /\ track_snapshot \in (SUBSET Nat) \cup {None}
        /\ slot_ready \in [Slots -> BOOLEAN]
        /\ slot_pixels \in [Slots -> Pictures \cup {None}]
        /\ snapshot \in [Workers -> (SUBSET Nat) \cup {None}]
    BY DEF Init
  <2> QED BY <2>1, <2>2, <2>3, <2>4 DEF Init, DataType
<1> QED BY <1>1, <1>2 DEF TypeOK

\* The frame that is due has a slot.
LEMMA NextSlotType == TypeOK => NextSlot \in Slots
  BY SlotType DEF TypeOK, DataType, NextSlot

\* The frame of a worker has a slot.
LEMMA WorkerSlotType ==
  TypeOK => \A w \in Workers : Slot(frame[w]) \in Slots
  BY SlotType, ConstantTypes DEF TypeOK, DataType, Frames

\* A thread that moves keeps the others where they are.
LEMMA GotoWorker ==
  ASSUME ControlType, NEW w \in Workers, NEW to \in WorkerPcs, Goto(w, to)
  PROVE  /\ pc' \in [Threads -> WorkerPcs \cup WriterPcs]
         /\ \A v \in Workers : pc'[v] \in WorkerPcs
         /\ pc'[Writer] \in WriterPcs
         /\ pc'[w] = to
         /\ \A t \in Threads : t # w => pc'[t] = pc[t]
  BY ConstantTypes DEF ControlType, Goto, Threads

LEMMA GotoWriter ==
  ASSUME ControlType, NEW to \in WriterPcs, Goto(Writer, to)
  PROVE  /\ pc' \in [Threads -> WorkerPcs \cup WriterPcs]
         /\ \A v \in Workers : pc'[v] \in WorkerPcs
         /\ pc'[Writer] \in WriterPcs
         /\ pc'[Writer] = to
         /\ \A w \in Workers : pc'[w] = pc[w]
  BY ConstantTypes DEF ControlType, Goto, Threads

\* Every step keeps the types of the mutex, the wait set and the labels.
LEMMA ControlStep == TypeOK /\ [Next]_vars => ControlType'
<1> SUFFICES ASSUME TypeOK, [Next]_vars PROVE ControlType'
  OBVIOUS
<1>0. ControlType BY DEF TypeOK
<1>1. ASSUME NEW w \in Workers, NEW to \in WorkerPcs, Goto(w, to),
             mutex' \in {mutex, None, w}, waiting' \subseteq waiting
      PROVE  ControlType'
  BY <1>0, <1>1, GotoWorker DEF ControlType
<1>2. ASSUME NEW to \in WriterPcs, Goto(Writer, to),
             mutex' = mutex, waiting' \subseteq waiting
      PROVE  ControlType'
  BY <1>0, <1>2, GotoWriter DEF ControlType
<1>3. ASSUME NEW t \in Threads, pc' = pc, mutex' = mutex,
             waiting' \subseteq waiting \cup {t}
      PROVE  ControlType'
  BY <1>0, <1>3 DEF ControlType
<1>4. /\ {"claim", "prepare", "render", "drawing", "publish", "notify", "done"}
           \subseteq WorkerPcs
      /\ WriterPcs = WriterPcs \cup
           {"await", "notify_taken", "sinking", "release", "notify_released",
            "notify_failed", "sink_failed", "notify_sink_failed", "shutdown",
            "notify_shutdown", "join", "done"}
  BY DEF WorkerPcs, WriterPcs
<1>5. ASSUME NEW w \in Workers, Worker(w) PROVE ControlType'
  <2>1. CASE BlockWorker(w)
    BY <2>1, <1>3 DEF BlockWorker, Threads
  <2>2. CASE Claim(w)
    BY <2>2, <1>1, <1>4 DEF Claim, ClaimFrame
  <2>3. CASE SampleFails(w) \/ AdvanceTrack(w) \/ RenderFails(w)
    BY <2>3, <1>1, <1>4 DEF SampleFails, AdvanceTrack, RenderFails, GiveUp
  <2>4. CASE Quit(w) \/ BeginRender(w) \/ EndRender(w) \/ Publish(w)
    BY <2>4, <1>1, <1>4 DEF Quit, BeginRender, EndRender, Publish
  <2>5. CASE NotifyPublished(w)
    BY <2>5, <1>1, <1>4 DEF NotifyPublished, NotifyAll
  <2> QED BY <1>5, <2>1, <2>2, <2>3, <2>4, <2>5 DEF Worker
<1>6. CASE WriterStep
  <2>1. ASSUME NEW w \in Workers, Spawn(w) PROVE ControlType'
    BY <2>1, <1>1, <1>4 DEF Spawn, Goto
  <2>2. CASE BlockWriter
    BY <2>2, <1>3 DEF BlockWriter, Threads
  <2>3. CASE Spawned \/ TakeFrame \/ TakeError \/ SinkAccepts \/ SinkFails
    BY <2>3, <1>2, <1>4
    DEF Spawned, TakeFrame, TakeError, SinkAccepts, SinkFails
  <2>4. CASE StopAfterSink \/ Release \/ Shutdown \/ Join
    BY <2>4, <1>2, <1>4 DEF StopAfterSink, Release, Shutdown, Join
  <2>5. CASE NotifyTaken \/ NotifyFailed \/ NotifySinkFailed \/ NotifyReleased
             \/ NotifyShutdown
    BY <2>5, <1>2, <1>4
    DEF NotifyTaken, NotifyFailed, NotifySinkFailed, NotifyReleased,
        NotifyShutdown, NotifyAll
  <2> QED BY <1>6, <2>1, <2>2, <2>3, <2>4, <2>5 DEF WriterStep
<1>7. CASE (\E t \in Threads : SpuriousWakeup(t)) \/ UNCHANGED vars
  BY <1>7, <1>3 DEF SpuriousWakeup, vars, Threads
<1> QED BY <1>5, <1>6, <1>7 DEF Next, Returned

\* Every step keeps the types of the counters, locals, slots and track state.
LEMMA DataStep == TypeOK /\ [Next]_vars => DataType'
<1> SUFFICES ASSUME TypeOK, [Next]_vars PROVE DataType'
  OBVIOUS
<1>0. DataType BY DEF TypeOK
<1> USE DEF slotVars, trackVars, localVars
<1>1. {"ok", "sample", "track_order", "render", "sink"} \subseteq Statuses
  BY DEF Statuses, Errors
<1>2. ASSUME NEW w \in Workers, Worker(w) PROVE DataType'
  <2>1. CASE Claim(w)
    <3>1. next_to_assign \in Frames /\ next_to_assign + 1 \in 0 .. frame_count
      BY <1>0, <2>1, ConstantTypes
      DEF DataType, Claim, ClaimFrame, NothingToClaim, Frames
    <3> QED BY <1>0, <1>1, <2>1, <3>1 DEF DataType, Claim, ClaimFrame
  <2>2. CASE SampleFails(w) \/ RenderFails(w)
    BY <1>0, <1>1, <2>2 DEF DataType, SampleFails, RenderFails, GiveUp
  <2>3. CASE AdvanceTrack(w)
    <3> DEFINE target == ExploredPoints[frame[w]]
    <3>1. CASE target < explored
      BY <1>0, <1>1, <2>3, <3>1 DEF DataType, AdvanceTrack, GiveUp
    <3>2. CASE ~(target < explored)
      <4>1. target \in Nat
        BY <1>0, ConstantTypes DEF DataType
      <4>2. AtLeastOne(explored) .. target - 1 \subseteq Nat
        BY <1>0, <4>1 DEF DataType, AtLeastOne
      <4>3. /\ explored' \in Nat
            /\ track_drawn' \subseteq Nat
            /\ track_snapshot' \in (SUBSET Nat) \cup {None}
            /\ snapshot' = [snapshot EXCEPT ![w] = track_snapshot']
            /\ UNCHANGED <<stop, next_to_assign, next_to_write, frame, status,
                           slotVars, result, delivered>>
        BY <1>0, <2>3, <3>2, <4>1, <4>2 DEF DataType, AdvanceTrack, PaintTrack
      <4> QED BY <1>0, <4>3 DEF DataType
    <3> QED BY <3>1, <3>2
  <2>4. CASE BeginRender(w)
    BY <1>0, <2>4, WorkerSlotType DEF DataType, BeginRender
  <2>5. CASE EndRender(w)
    <3>1. [frame |-> frame[w], track |-> snapshot[w]] \in Pictures
      BY <1>0 DEF DataType, Pictures
    <3> QED BY <1>0, <2>5, <3>1, WorkerSlotType DEF DataType, EndRender
  <2>6. CASE Publish(w)
    BY <1>0, <2>6, WorkerSlotType DEF DataType, Publish
  <2>7. CASE BlockWorker(w) \/ Quit(w) \/ NotifyPublished(w)
    BY <1>0, <2>7 DEF DataType, BlockWorker, Quit, NotifyPublished, NotifyAll
  <2> QED
    BY <1>2, <2>1, <2>2, <2>3, <2>4, <2>5, <2>6, <2>7 DEF Worker
<1>3. CASE WriterStep
  <2>1. CASE \/ (\E w \in Workers : Spawn(w)) \/ Spawned \/ BlockWriter
             \/ TakeFrame \/ Join
    BY <1>0, <2>1 DEF DataType, Spawn, Spawned, BlockWriter, TakeFrame, Join
  <2>2. CASE TakeError
    BY <1>0, <2>2, NextSlotType DEF DataType, TakeError
  <2>3. CASE NotifyTaken \/ NotifyFailed \/ NotifySinkFailed \/ NotifyReleased
             \/ NotifyShutdown
    BY <1>0, <2>3
    DEF DataType, NotifyTaken, NotifyFailed, NotifySinkFailed, NotifyReleased,
        NotifyShutdown, NotifyAll
  <2>4. CASE SinkAccepts
    <3>1. slot_pixels[NextSlot] \in Pictures \cup {None}
      BY <1>0, NextSlotType DEF DataType
    <3> QED BY <1>0, <2>4, <3>1 DEF DataType, SinkAccepts
  <2>5. CASE SinkFails \/ StopAfterSink \/ Shutdown
    BY <1>0, <1>1, <2>5 DEF DataType, SinkFails, StopAfterSink, Shutdown
  <2>6. CASE Release
    BY <1>0, <2>6, NextSlotType DEF DataType, Release
  <2> QED
    BY <1>3, <2>1, <2>2, <2>3, <2>4, <2>5, <2>6 DEF WriterStep
<1>4. CASE (\E t \in Threads : SpuriousWakeup(t)) \/ UNCHANGED vars
  BY <1>0, <1>4 DEF DataType, SpuriousWakeup, vars
<1> QED BY <1>2, <1>3, <1>4 DEF Next, Returned

\* Every variable of the pool keeps its type: in particular no frame beyond the
\* last is ever claimed, and what is delivered is pictures.
THEOREM TypeCorrect == Spec => []TypeOK
<1>1. TypeOK /\ [Next]_vars => TypeOK'
  BY ControlStep, DataStep DEF TypeOK
<1> QED BY InitType, <1>1, PTL DEF Spec
-----------------------------------------------------------------------------
(* At most capacity frames are in flight, so each has a slot of its own. *)

\* Two frames in flight with the same slot are the same frame.
LEMMA InFlightSlots ==
  ASSUME TypeOK, next_to_assign <= next_to_write + capacity,
         NEW f \in InFlight, NEW g \in InFlight, Slot(f) = Slot(g)
  PROVE  f = g
<1>1. f \in Nat /\ g \in Nat /\ f < g + capacity /\ g < f + capacity
  BY CapacityPositive DEF TypeOK, DataType, InFlight
<1> QED BY <1>1, SlotsDistinct

\* If there is room ahead, the slot of the next frame to assign is free.
LEMMA NextFrameHasASlot ==
  ASSUME TypeOK, FlightInv, RoomAhead
  PROVE  ~slot_ready[Slot(next_to_assign)]
<1>1. next_to_assign \in Nat BY ConstantTypes DEF TypeOK, DataType
<1>2. ASSUME NEW f \in InFlight, Slot(f) = Slot(next_to_assign) PROVE FALSE
  <2>1. f \in Nat /\ f < next_to_assign /\ next_to_assign < f + capacity
    BY <1>1, CapacityPositive DEF TypeOK, DataType, InFlight, RoomAhead
  <2> QED BY <1>1, <1>2, <2>1, SlotsDistinct
<1> QED BY <1>1, <1>2, SlotType DEF FlightInv

\* Initially nothing is in flight.
LEMMA FlightInit == Init => FlightInv
  BY ConstantTypes, CapacityPositive
  DEF Init, FlightInv, Holds, Threads, Slots, InFlight

\* Claiming a frame takes a free slot, releasing one frees it.
LEMMA FlightStep == TypeOK /\ FlightInv /\ [Next]_vars => FlightInv'
<1> SUFFICES ASSUME TypeOK, FlightInv, [Next]_vars PROVE FlightInv'
  OBVIOUS
<1>0. ControlType /\ DataType BY DEF TypeOK
<1> USE DEF slotVars, trackVars, localVars
\* A step that leaves the counters, the frames and the slots alone and makes
\* no thread an owner.
<1>1. ASSUME UNCHANGED <<next_to_assign, next_to_write, frame, slot_ready>>,
             \A v \in Workers : Holds(v)' => Holds(v),
             \/ pc'[Writer] = pc[Writer]
             \/ pc'[Writer] = "release" /\ pc[Writer] = "sinking"
             \/ pc'[Writer] = "sinking" /\ pc[Writer] = "notify_taken"
             \/ pc'[Writer] \notin {"notify_taken", "sinking", "release"}
      PROVE  FlightInv'
  BY <1>1 DEF FlightInv, InFlight, NextSlot, Slots, Slot
<1>2. ASSUME NEW w \in Workers, Worker(w) PROVE FlightInv'
  <2>1. CASE Claim(w)
    <3>1. /\ Goto(w, "prepare")
          /\ next_to_assign \in Frames
          /\ next_to_assign' = next_to_assign + 1
          /\ frame' = [frame EXCEPT ![w] = next_to_assign]
          /\ UNCHANGED <<next_to_write, slot_ready>>
          /\ RoomAhead
      BY <1>0, <2>1, ConstantTypes
      DEF Claim, ClaimFrame, NothingToClaim, Frames, DataType
    <3>2. \A t \in Threads : t # w => pc'[t] = pc[t]
      BY <1>0, <3>1, GotoWorker DEF WorkerPcs
    <3>3. /\ pc'[Writer] = pc[Writer]
          /\ \A v \in Workers : v # w => (Holds(v)' <=> Holds(v))
      BY <3>2, ConstantTypes DEF Threads, Holds
    <3>4. InFlight' = InFlight \cup {next_to_assign}
      BY <1>0, <3>1 DEF InFlight, DataType, FlightInv, Frames
    <3>5. next_to_assign \notin InFlight
      BY <1>0 DEF InFlight, DataType
    <3>6. /\ frame'[w] = next_to_assign
          /\ \A v \in Workers : v # w => frame'[v] = frame[v]
      BY <1>0, <3>1 DEF DataType
    <3>7. \A v \in Workers : Holds(v)' =>
             frame'[v] \in InFlight' /\ ~slot_ready'[Slot(frame'[v])]
      BY <3>1, <3>3, <3>4, <3>6, NextFrameHasASlot DEF FlightInv
    <3>8. \A v, u \in Workers :
             Holds(v)' /\ Holds(u)' /\ frame'[v] = frame'[u] => v = u
      BY <3>3, <3>5, <3>6 DEF FlightInv
    <3>9. /\ next_to_write' <= next_to_assign'
          /\ next_to_assign' <= next_to_write' + capacity
      BY <1>0, <3>1, CapacityPositive DEF FlightInv, RoomAhead, DataType
    <3> QED
      BY <3>1, <3>3, <3>4, <3>7, <3>8, <3>9
      DEF FlightInv, Slots, NextSlot, Slot
  <2>2. CASE SampleFails(w) \/ AdvanceTrack(w) \/ RenderFails(w)
             \/ BeginRender(w) \/ EndRender(w)
    <3>1. PICK to \in {"render", "drawing", "publish"} :
            Goto(w, to)
      BY <2>2
      DEF SampleFails, AdvanceTrack, RenderFails, BeginRender, EndRender,
          GiveUp
    <3>2. Holds(w)
      BY <2>2 DEF SampleFails, AdvanceTrack, RenderFails, BeginRender,
                  EndRender, At, Holds
    <3>3. \A t \in Threads : t # w => pc'[t] = pc[t]
      BY <1>0, <3>1, GotoWorker DEF WorkerPcs
    <3>4. UNCHANGED <<next_to_assign, next_to_write, frame, slot_ready>>
      BY <2>2 DEF SampleFails, AdvanceTrack, RenderFails, BeginRender,
                  EndRender
    <3> QED BY <1>1, <3>2, <3>3, <3>4, ConstantTypes DEF Threads, Holds
  <2>3. CASE Publish(w)
    <3> DEFINE s == Slot(frame[w])
    <3>1. /\ Goto(w, "notify")
          /\ slot_ready' = [slot_ready EXCEPT ![s] = TRUE]
          /\ UNCHANGED <<next_to_assign, next_to_write, frame>>
          /\ Holds(w)
      BY <2>3 DEF Publish, At, Holds
    <3>2. pc'[w] = "notify" /\ \A t \in Threads : t # w => pc'[t] = pc[t]
      BY <1>0, <3>1, GotoWorker DEF WorkerPcs
    <3>3. /\ pc'[Writer] = pc[Writer]
          /\ \A v \in Workers : Holds(v)' => v # w /\ Holds(v)
      BY <3>2, ConstantTypes DEF Threads, Holds
    <3>4. \A v \in Workers : Holds(v)' => Slot(frame[v]) # s
      BY <3>1, <3>3, InFlightSlots DEF FlightInv
    <3>5. /\ s \in Slots
          /\ \A r \in Slots : slot_ready'[r] <=> slot_ready[r] \/ r = s
      BY <1>0, <3>1, WorkerSlotType DEF DataType
    <3>6. \A v \in Workers : Slot(frame[v]) \in Slots
      BY WorkerSlotType
    <3>7. InFlight' = InFlight /\ NextSlot' = NextSlot /\ Slots' = Slots
      BY <3>1 DEF InFlight, NextSlot, Slots, Slot
    <3>8. \A v \in Workers : Holds(v)' =>
             frame'[v] \in InFlight' /\ ~slot_ready'[Slot(frame'[v])]
      BY <3>1, <3>3, <3>4, <3>5, <3>6, <3>7 DEF FlightInv
    <3>9. \A r \in Slots : slot_ready'[r] => \E f \in InFlight' : Slot(f) = r
      BY <3>1, <3>5, <3>7 DEF FlightInv
    <3>10. pc'[Writer] \in {"notify_taken", "sinking", "release"} =>
             slot_ready'[NextSlot']
      BY <3>3, <3>5, <3>7, NextSlotType DEF FlightInv
    <3> QED
      BY <3>1, <3>3, <3>7, <3>8, <3>9, <3>10 DEF FlightInv
  <2>4. CASE BlockWorker(w)
    BY <1>1, <2>4 DEF BlockWorker, Holds
  <2>5. CASE Quit(w) \/ NotifyPublished(w)
    <3>1. PICK to \in {"claim", "done"} : Goto(w, to)
      BY <2>5 DEF Quit, NotifyPublished, NotifyAll
    <3>2. /\ pc'[w] \in {"claim", "done"}
          /\ \A t \in Threads : t # w => pc'[t] = pc[t]
      BY <1>0, <3>1, GotoWorker DEF WorkerPcs
    <3>3. UNCHANGED <<next_to_assign, next_to_write, frame, slot_ready>>
      BY <2>5 DEF Quit, NotifyPublished, NotifyAll
    <3> QED BY <1>1, <3>2, <3>3, ConstantTypes DEF Threads, Holds
  <2> QED BY <1>2, <2>1, <2>2, <2>3, <2>4, <2>5 DEF Worker
<1>3. CASE WriterStep
  <2>1. CASE Release
    <3>1. /\ Goto(Writer, "notify_released")
          /\ slot_ready[NextSlot]
          /\ slot_ready' = [slot_ready EXCEPT ![NextSlot] = FALSE]
          /\ next_to_write' = next_to_write + 1
          /\ UNCHANGED <<next_to_assign, frame>>
      BY <2>1 DEF Release, At, FlightInv
    <3>2. /\ pc'[Writer] = "notify_released"
          /\ \A v \in Workers : Holds(v)' <=> Holds(v)
      BY <1>0, <3>1, GotoWriter DEF WriterPcs, Holds
    <3>3. PICK f \in InFlight : Slot(f) = NextSlot
      BY <3>1, NextSlotType DEF FlightInv
    <3>4. next_to_write \in InFlight
      BY <1>0, <3>3 DEF InFlight, DataType
    <3>5. \A g \in InFlight : g # next_to_write => g \in InFlight'
      BY <1>0, <3>1 DEF InFlight, DataType
    <3>6. /\ next_to_write' <= next_to_assign'
          /\ next_to_assign' <= next_to_write' + capacity
      BY <1>0, <3>1, <3>4, CapacityPositive DEF FlightInv, InFlight, DataType
    <3>7. \A s \in Slots : slot_ready'[s] => slot_ready[s] /\ s # NextSlot
      BY <1>0, <3>1, NextSlotType DEF DataType
    <3>8. \A v \in Workers : Holds(v) => frame[v] # next_to_write
      BY <3>1 DEF FlightInv, NextSlot
    <3>9. \A v \in Workers : Holds(v)' =>
             frame'[v] \in InFlight' /\ ~slot_ready'[Slot(frame'[v])]
      BY <3>1, <3>2, <3>5, <3>7, <3>8, WorkerSlotType DEF FlightInv
    <3>10. \A s \in Slots : slot_ready'[s] => \E g \in InFlight' : Slot(g) = s
      BY <3>5, <3>7 DEF FlightInv, NextSlot
    <3> QED
      BY <3>1, <3>2, <3>6, <3>9, <3>10 DEF FlightInv
  <2>2. ASSUME NEW w \in Workers, Spawn(w) PROVE FlightInv'
    <3>1. pc'[w] = "claim" /\ \A t \in Threads : t # w => pc'[t] = pc[t]
      BY <1>0, <2>2, GotoWorker DEF Spawn, Goto, WorkerPcs
    <3> QED BY <1>1, <2>2, <3>1, ConstantTypes DEF Spawn, Threads, Holds
  <2>3. CASE BlockWriter
    BY <1>1, <2>3 DEF BlockWriter, Holds
  <2>4. CASE TakeFrame
    <3>1. slot_ready[NextSlot]
          /\ UNCHANGED <<next_to_assign, next_to_write, frame, slot_ready>>
      BY <2>4 DEF TakeFrame
    <3>2. \A v \in Workers : Holds(v)' <=> Holds(v)
      BY <1>0, <2>4, GotoWriter DEF TakeFrame, WriterPcs, Holds
    <3> QED BY <3>1, <3>2 DEF FlightInv, InFlight, NextSlot, Slots, Slot
  <2>5. CASE Spawned \/ TakeError \/ NotifyFailed \/ SinkFails
             \/ StopAfterSink \/ NotifySinkFailed \/ NotifyReleased
             \/ Shutdown \/ NotifyShutdown \/ Join
    <3>1. PICK to \in {"await", "notify_failed", "shutdown", "sink_failed",
                       "notify_sink_failed", "notify_shutdown", "join",
                       "done"} : Goto(Writer, to)
      BY <2>5
      DEF Spawned, TakeError, NotifyFailed, SinkFails, StopAfterSink,
          NotifySinkFailed, NotifyReleased, Shutdown, NotifyShutdown, Join,
          NotifyAll
    <3>2. /\ pc'[Writer] = to
          /\ \A v \in Workers : Holds(v)' <=> Holds(v)
      BY <1>0, <3>1, GotoWriter DEF WriterPcs, Holds
    <3>3. UNCHANGED <<next_to_assign, next_to_write, frame, slot_ready>>
      BY <2>5
      DEF Spawned, TakeError, NotifyFailed, SinkFails, StopAfterSink,
          NotifySinkFailed, NotifyReleased, Shutdown, NotifyShutdown, Join,
          NotifyAll
    <3> QED BY <1>1, <3>2, <3>3
  <2>6. CASE NotifyTaken \/ SinkAccepts
    <3>1. \/ Goto(Writer, "sinking") /\ pc[Writer] = "notify_taken"
          \/ Goto(Writer, "release") /\ pc[Writer] = "sinking"
      BY <2>6 DEF NotifyTaken, SinkAccepts, NotifyAll, At
    <3>2. /\ \/ pc'[Writer] = "sinking" /\ pc[Writer] = "notify_taken"
             \/ pc'[Writer] = "release" /\ pc[Writer] = "sinking"
          /\ \A v \in Workers : Holds(v)' <=> Holds(v)
      BY <1>0, <3>1, GotoWriter DEF WriterPcs, Holds
    <3>3. UNCHANGED <<next_to_assign, next_to_write, frame, slot_ready>>
      BY <2>6 DEF NotifyTaken, SinkAccepts, NotifyAll
    <3> QED BY <1>1, <3>2, <3>3
  <2> QED
    BY <1>3, <2>1, <2>2, <2>3, <2>4, <2>5, <2>6 DEF WriterStep
<1>4. CASE (\E t \in Threads : SpuriousWakeup(t)) \/ UNCHANGED vars
  BY <1>1, <1>4 DEF SpuriousWakeup, vars, Holds
<1> QED BY <1>2, <1>3, <1>4 DEF Next, Returned

\* Frames in flight keep to their slots in every reachable state.
LEMMA FlightCorrect == Spec => []FlightInv
  BY FlightInit, FlightStep, TypeCorrect, PTL DEF Spec
-----------------------------------------------------------------------------
(* The shared track state follows the frame order. *)

\* Painting the segments up to a target leaves the segments of the target.
LEMMA PaintedSegments ==
  ASSUME NEW n \in Nat, NEW m \in Nat, n <= m
  PROVE  /\ Segments(n) \cup (AtLeastOne(n) .. m - 1) = Segments(m)
         /\ m <= AtLeastOne(n) => Segments(n) = Segments(m)
  BY DEF Segments, AtLeastOne

\* Initially the track is empty.
LEMMA TrackInit == Init => TrackInv
  BY ConstantTypes
  DEF Init, TrackInv, TrackInFrameOrder, Segments, Threads

\* The track advances with the frame claimed last, inside the same critical
\* section.
LEMMA TrackStep == TypeOK /\ TrackInv /\ [Next]_vars => TrackInv'
<1> SUFFICES ASSUME TypeOK, TrackInv, [Next]_vars PROVE TrackInv'
  OBVIOUS
<1>0. ControlType /\ DataType BY DEF TypeOK
<1> USE DEF slotVars, trackVars, localVars
\* A step that leaves the track and the locals of the workers alone and moves
\* no worker into the sections that deal with the track.
<1>1. ASSUME UNCHANGED <<mutex, next_to_assign, frame, status, snapshot,
                         trackVars>>,
             \A v \in Workers : pc'[v] \in {"prepare", "render", "drawing"} =>
               \/ pc'[v] = pc[v]
               \/ pc[v] = "render" /\ pc'[v] = "drawing"
      PROVE  TrackInv'
  BY <1>1 DEF TrackInv, TrackInFrameOrder
<1>2. ASSUME NEW w \in Workers, Worker(w) PROVE TrackInv'
  <2>1. CASE Claim(w)
    <3>1. /\ Goto(w, "prepare")
          /\ mutex = None /\ mutex' = w
          /\ next_to_assign \in Frames
          /\ next_to_assign' = next_to_assign + 1
          /\ frame' = [frame EXCEPT ![w] = next_to_assign]
          /\ status' = [status EXCEPT ![w] = "ok"]
          /\ snapshot' = [snapshot EXCEPT ![w] = None]
          /\ UNCHANGED trackVars
      BY <1>0, <2>1, ConstantTypes
      DEF Claim, ClaimFrame, NothingToClaim, Frames, DataType
    <3>2. /\ pc'[w] = "prepare"
          /\ \A v \in Workers : v # w => pc'[v] = pc[v]
      BY <1>0, <3>1, GotoWorker DEF WorkerPcs, Threads
    <3>3. \A v \in Workers : pc[v] # "prepare"
      BY <3>1, ConstantTypes DEF TrackInv
    <3>4. /\ frame'[w] = next_to_assign
          /\ status'[w] = "ok"
          /\ \A v \in Workers : v # w =>
               /\ frame'[v] = frame[v]
               /\ status'[v] = status[v]
               /\ snapshot'[v] = snapshot[v]
      BY <1>0, <3>1 DEF DataType
    <3>5. explored <= ExploredPoints[next_to_assign]
      BY <1>0, <3>1 DEF TrackInv, DataType, Frames
    <3>6. \A f \in Frames :
            next_to_assign' <= f => explored' <= ExploredPoints[f]
      BY <1>0, <3>1 DEF TrackInv, DataType, Frames
    <3>7. \A v \in Workers : pc'[v] = "prepare" => v = w
      BY <3>2, <3>3
    <3>8. TrackInFrameOrder'
      BY <3>2, <3>4 DEF TrackInv, TrackInFrameOrder
    <3> QED BY <3>1, <3>4, <3>5, <3>6, <3>7, <3>8 DEF TrackInv
  <2>2. CASE SampleFails(w)
    <3>1. /\ Goto(w, "publish")
          /\ pc[w] = "prepare"
          /\ status' = [status EXCEPT ![w] = "sample"]
          /\ UNCHANGED <<next_to_assign, frame, snapshot, trackVars>>
      BY <2>2 DEF SampleFails, GiveUp, At
    <3>2. /\ pc'[w] = "publish"
          /\ \A v \in Workers : v # w => pc'[v] = pc[v]
      BY <1>0, <3>1, GotoWorker DEF WorkerPcs, Threads
    <3>3. \A v \in Workers : pc'[v] # "prepare"
      BY <3>1, <3>2 DEF TrackInv
    <3>4. /\ status'[w] = "sample"
          /\ \A v \in Workers : v # w => status'[v] = status[v]
      BY <1>0, <3>1 DEF DataType
    <3>5. TrackInFrameOrder'
      BY <3>1, <3>2, <3>4 DEF TrackInv, TrackInFrameOrder
    <3> QED BY <3>1, <3>3, <3>5 DEF TrackInv
  <2>3. CASE AdvanceTrack(w)
    <3> DEFINE target == ExploredPoints[frame[w]]
    <3>1. /\ pc[w] = "prepare"
          /\ mutex = w
          /\ next_to_assign = frame[w] + 1
          /\ explored <= target
          /\ frame[w] \in Frames
          /\ target \in Nat
          /\ explored \in Nat
      BY <1>0, <2>3, ConstantTypes DEF AdvanceTrack, At, TrackInv, DataType
    <3>2. /\ Goto(w, "render")
          /\ PaintTrack(target)
          /\ snapshot' = [snapshot EXCEPT ![w] = track_snapshot']
          /\ UNCHANGED <<next_to_assign, frame, status>>
      BY <2>3, <3>1 DEF AdvanceTrack
    <3>3. /\ explored' = target
          /\ track_drawn' = Segments(target)
          /\ track_snapshot' = Segments(target)
      <4>1. /\ Segments(explored) \cup (AtLeastOne(explored) .. target - 1)
                = Segments(target)
            /\ target <= AtLeastOne(explored) =>
                 Segments(explored) = Segments(target)
        BY <3>1, PaintedSegments
      <4>2. explored' = target /\ track_drawn' = Segments(target)
        BY <3>2, <4>1 DEF PaintTrack, TrackInv
      <4>3. AtLeastOne(explored) \in Nat
        BY <3>1 DEF AtLeastOne
      <4>4. CASE target > AtLeastOne(explored) \/ track_snapshot = None
        BY <3>2, <4>2, <4>4 DEF PaintTrack
      <4>5. CASE ~(target > AtLeastOne(explored) \/ track_snapshot = None)
        BY <3>1, <3>2, <4>1, <4>3, <4>5 DEF PaintTrack, TrackInv
      <4> QED BY <4>2, <4>4, <4>5
    <3>4. /\ pc'[w] = "render"
          /\ \A v \in Workers : v # w => pc'[v] = pc[v]
      BY <1>0, <3>2, GotoWorker DEF WorkerPcs, Threads
    <3>5. \A v \in Workers : pc'[v] # "prepare"
      BY <3>1, <3>4 DEF TrackInv
    <3>6. /\ snapshot'[w] = Segments(target)
          /\ \A v \in Workers : v # w => snapshot'[v] = snapshot[v]
      BY <1>0, <3>2, <3>3 DEF DataType
    <3>7. TrackInFrameOrder'
      BY <3>2, <3>4, <3>6 DEF TrackInv, TrackInFrameOrder
    <3>8. \A f \in Frames : next_to_assign <= f => target <= ExploredPoints[f]
      BY <3>1, PipelineAssumption DEF Frames
    <3> QED BY <3>2, <3>3, <3>5, <3>7, <3>8 DEF TrackInv
  <2>4. CASE RenderFails(w)
    <3>1. /\ Goto(w, "publish")
          /\ status' = [status EXCEPT ![w] = "render"]
          /\ UNCHANGED <<mutex, next_to_assign, frame, snapshot, trackVars>>
      BY <2>4 DEF RenderFails, GiveUp
    <3>2. /\ pc'[w] = "publish"
          /\ \A v \in Workers : v # w => pc'[v] = pc[v]
      BY <1>0, <3>1, GotoWorker DEF WorkerPcs, Threads
    <3>3. /\ status'[w] = "render"
          /\ \A v \in Workers : v # w => status'[v] = status[v]
      BY <1>0, <3>1 DEF DataType
    <3> QED BY <3>1, <3>2, <3>3 DEF TrackInv, TrackInFrameOrder
  <2>5. CASE BeginRender(w) \/ EndRender(w) \/ Publish(w) \/ Quit(w)
             \/ NotifyPublished(w)
    <3>1. \/ Goto(w, "drawing") /\ pc[w] = "render"
          \/ \E to \in {"publish", "notify", "done", "claim"} : Goto(w, to)
      BY <2>5
      DEF BeginRender, EndRender, Publish, Quit, NotifyPublished, NotifyAll, At
    <3>2. /\ \/ pc'[w] = "drawing" /\ pc[w] = "render"
             \/ pc'[w] \in {"publish", "notify", "done", "claim"}
          /\ \A v \in Workers : v # w => pc'[v] = pc[v]
      BY <1>0, <3>1, GotoWorker DEF WorkerPcs, Threads
    <3>3. UNCHANGED <<mutex, next_to_assign, frame, status, snapshot,
                      trackVars>>
      BY <2>5
      DEF BeginRender, EndRender, Publish, Quit, NotifyPublished, NotifyAll
    <3> QED BY <1>1, <3>2, <3>3
  <2>6. CASE BlockWorker(w)
    BY <1>1, <2>6 DEF BlockWorker
  <2> QED
    BY <1>2, <2>1, <2>2, <2>3, <2>4, <2>5, <2>6 DEF Worker
<1>3. CASE WriterStep
  <2>1. ASSUME NEW w \in Workers, Spawn(w) PROVE TrackInv'
    <3>1. pc'[w] = "claim" /\ \A v \in Workers : v # w => pc'[v] = pc[v]
      BY <1>0, <2>1, GotoWorker DEF Spawn, Goto, WorkerPcs, Threads
    <3> QED BY <1>1, <2>1, <3>1 DEF Spawn
  <2>2. CASE ~\E w \in Workers : Spawn(w)
    <3>1. UNCHANGED <<mutex, next_to_assign, frame, status, snapshot,
                      trackVars>>
      BY <1>3, <2>2
      DEF WriterStep, Spawned, BlockWriter, TakeFrame, TakeError, NotifyTaken,
          NotifyFailed, SinkAccepts, SinkFails, StopAfterSink,
          NotifySinkFailed, Release, NotifyReleased, Shutdown, NotifyShutdown,
          Join, NotifyAll
    <3>2. pc' = pc \/ \E to \in WriterPcs : Goto(Writer, to)
      BY <1>3, <2>2
      DEF WriterStep, Spawned, BlockWriter, TakeFrame, TakeError, NotifyTaken,
          NotifyFailed, SinkAccepts, SinkFails, StopAfterSink,
          NotifySinkFailed, Release, NotifyReleased, Shutdown, NotifyShutdown,
          Join, NotifyAll, WriterPcs
    <3>3. \A v \in Workers : pc'[v] = pc[v]
      BY <1>0, <3>2, GotoWriter
    <3> QED BY <1>1, <3>1, <3>3
  <2> QED BY <2>1, <2>2
<1>4. CASE (\E t \in Threads : SpuriousWakeup(t)) \/ UNCHANGED vars
  BY <1>1, <1>4 DEF SpuriousWakeup, vars
<1> QED BY <1>2, <1>3, <1>4 DEF Next, Returned

\* The track state follows the frame order in every reachable state.
LEMMA TrackCorrect == Spec => []TrackInv
  BY TrackInit, TrackStep, TypeCorrect, PTL DEF Spec

\* Whatever the schedule, the track state is advanced in frame order, never
\* refuses a frame, and every picture is drawn on the track of its own
\* timestamp.
THEOREM TrackOrder == Spec => []TrackInFrameOrder
<1>1. TrackInv => TrackInFrameOrder BY DEF TrackInv
<1> QED BY <1>1, TrackCorrect, PTL
-----------------------------------------------------------------------------
(* A buffer belongs to one frame at a time. *)

\* Initially no slot is ready.
LEMMA PictureInit == Init => PictureInv
  BY ConstantTypes DEF Init, PictureInv, Threads, InFlight

\* A slot is published with the picture of its frame or with an error, and its
\* buffer then stays as it is until the slot is released.
LEMMA PictureStep ==
  TypeOK /\ FlightInv /\ TrackInv /\ PictureInv /\ [Next]_vars => PictureInv'
<1> SUFFICES ASSUME TypeOK, FlightInv, TrackInv, PictureInv, [Next]_vars
             PROVE  PictureInv'
  OBVIOUS
<1>0. ControlType /\ DataType BY DEF TypeOK
<1> USE DEF slotVars, trackVars, localVars
\* A step that leaves the frames and the slots alone and moves no worker to
\* publish and no thread to the sink.
<1>1. ASSUME UNCHANGED <<next_to_assign, next_to_write, frame, status,
                         slotVars>>,
             \A v \in Workers :
               /\ pc'[v] = "publish" => pc[v] = "publish"
               /\ pc'[v] \in {"prepare", "render", "drawing"} =>
                    pc[v] \in {"prepare", "render", "drawing"},
             pc'[Writer] \in {"notify_taken", "sinking"} =>
               \/ pc[Writer] \in {"notify_taken", "sinking"}
               \/ slot_status[NextSlot] = "ok"
      PROVE  PictureInv'
  BY <1>1 DEF PictureInv, InFlight, NextSlot, Slot
\* The slot of a worker that holds a frame is not the slot of another one,
\* nor a slot that is ready.
<1>2. ASSUME NEW w \in Workers, Holds(w)
      PROVE  /\ \A v \in Workers : Holds(v) /\ v # w =>
                  Slot(frame[v]) # Slot(frame[w])
             /\ \A f \in InFlight : slot_ready[Slot(f)] =>
                  Slot(f) # Slot(frame[w])
             /\ pc[Writer] \in {"notify_taken", "sinking"} =>
                  NextSlot # Slot(frame[w])
  BY <1>2, InFlightSlots DEF FlightInv
<1>3. \A f \in InFlight : Slot(f) \in Slots
  BY <1>0, SlotType DEF InFlight, DataType
<1>4. ASSUME NEW w \in Workers, Worker(w) PROVE PictureInv'
  <2>1. CASE Claim(w)
    <3>1. /\ Goto(w, "prepare")
          /\ next_to_assign \in Nat
          /\ next_to_assign' = next_to_assign + 1
          /\ frame' = [frame EXCEPT ![w] = next_to_assign]
          /\ status' = [status EXCEPT ![w] = "ok"]
          /\ UNCHANGED <<next_to_write, slotVars>>
          /\ RoomAhead
      BY <1>0, <2>1, ConstantTypes DEF Claim, ClaimFrame, DataType
    <3>2. /\ pc'[w] = "prepare"
          /\ \A t \in Threads : t # w => pc'[t] = pc[t]
      BY <1>0, <3>1, GotoWorker DEF WorkerPcs
    <3>3. /\ status'[w] = "ok"
          /\ \A v \in Workers : v # w =>
               frame'[v] = frame[v] /\ status'[v] = status[v]
      BY <1>0, <3>1 DEF DataType
    <3>4. \A f \in InFlight' : f \in InFlight \/ f = next_to_assign
      BY <1>0, <3>1 DEF InFlight, DataType
    <3>5. ~slot_ready[Slot(next_to_assign)]
      BY <3>1, NextFrameHasASlot
    <3>6. pc'[Writer] = pc[Writer] /\ NextSlot' = NextSlot
      BY <3>1, <3>2, ConstantTypes DEF Threads, NextSlot, Slot
    <3>7. \A v \in Workers :
             /\ pc'[v] = "publish" /\ status'[v] = "ok" =>
                  slot_pixels[Slot(frame'[v])] = Picture(frame'[v])
             /\ pc'[v] \in {"prepare", "render",
                  "drawing"} => status'[v] = "ok"
      BY <3>2, <3>3 DEF PictureInv, Threads
    <3> QED BY <3>1, <3>4, <3>5, <3>6, <3>7 DEF PictureInv
  <2>2. CASE SampleFails(w) \/ RenderFails(w)
    <3>1. /\ Goto(w, "publish")
          /\ \E e \in Errors : status' = [status EXCEPT ![w] = e]
          /\ UNCHANGED <<next_to_assign, next_to_write, frame, slotVars>>
      BY <2>2 DEF SampleFails, RenderFails, GiveUp, Errors
    <3>2. /\ pc'[w] = "publish"
          /\ \A t \in Threads : t # w => pc'[t] = pc[t]
      BY <1>0, <3>1, GotoWorker DEF WorkerPcs
    <3>3. /\ status'[w] # "ok"
          /\ \A v \in Workers : v # w => status'[v] = status[v]
      BY <1>0, <3>1 DEF DataType, Errors
    <3> QED
      BY <3>1, <3>2, <3>3, ConstantTypes
      DEF PictureInv, InFlight, NextSlot, Slot, Threads
  <2>3. CASE AdvanceTrack(w)
    <3>1. ~(ExploredPoints[frame[w]] < explored) /\ pc[w] = "prepare"
      BY <1>0, <2>3, ConstantTypes
      DEF AdvanceTrack, At, TrackInv, DataType, Frames
    <3>2. /\ Goto(w, "render")
          /\ UNCHANGED <<next_to_assign, next_to_write, frame, status,
                         slotVars>>
      BY <2>3, <3>1 DEF AdvanceTrack
    <3>3. /\ pc'[w] = "render"
          /\ \A t \in Threads : t # w => pc'[t] = pc[t]
      BY <1>0, <3>2, GotoWorker DEF WorkerPcs
    <3> QED BY <1>1, <3>1, <3>2, <3>3, ConstantTypes DEF Threads
  <2>4. CASE BeginRender(w)
    <3>1. /\ Goto(w, "drawing")
          /\ pc[w] = "render"
          /\ slot_pixels' = [slot_pixels EXCEPT ![Slot(frame[w])] = None]
          /\ UNCHANGED <<next_to_assign, next_to_write, frame, status,
                         slot_ready, slot_status>>
      BY <2>4 DEF BeginRender, At
    <3>2. /\ pc'[w] = "drawing"
          /\ \A t \in Threads : t # w => pc'[t] = pc[t]
      BY <1>0, <3>1, GotoWorker DEF WorkerPcs
    <3>3. \A s \in Slots :
            s # Slot(frame[w]) => slot_pixels'[s] = slot_pixels[s]
      BY <1>0, <3>1 DEF DataType
    <3>4. \A v \in Workers : pc[v] = "publish" =>
             slot_pixels'[Slot(frame[v])] = slot_pixels[Slot(frame[v])]
      BY <1>2, <3>1, <3>3, WorkerSlotType DEF Holds
    <3>5. \A f \in InFlight : slot_ready[Slot(f)] =>
             slot_pixels'[Slot(f)] = slot_pixels[Slot(f)]
      BY <1>2, <1>3, <3>1, <3>3 DEF Holds
    <3> QED
      BY <3>1, <3>2, <3>4, <3>5, ConstantTypes
      DEF PictureInv, InFlight, NextSlot, Slot, Threads
  <2>5. CASE EndRender(w)
    <3>1. /\ Goto(w, "publish")
          /\ pc[w] = "drawing"
          /\ slot_pixels' = [slot_pixels EXCEPT ![Slot(frame[w])] =
                               [frame |-> frame[w], track |-> snapshot[w]]]
          /\ UNCHANGED <<next_to_assign, next_to_write, frame, status,
                         slot_ready, slot_status>>
      BY <2>5 DEF EndRender, At
    <3>2. /\ pc'[w] = "publish"
          /\ \A t \in Threads : t # w => pc'[t] = pc[t]
      BY <1>0, <3>1, GotoWorker DEF WorkerPcs
    <3>3. /\ \A s \in Slots : s # Slot(frame[w]) =>
               slot_pixels'[s] = slot_pixels[s]
          /\ slot_pixels'[Slot(frame[w])] = Picture(frame[w])
      BY <1>0, <3>1, WorkerSlotType
      DEF DataType, TrackInv, TrackInFrameOrder, Picture
    <3>4. \A v \in Workers : pc[v] = "publish" =>
             slot_pixels'[Slot(frame[v])] = slot_pixels[Slot(frame[v])]
      BY <1>2, <3>1, <3>3, WorkerSlotType DEF Holds
    <3>5. \A f \in InFlight : slot_ready[Slot(f)] =>
             slot_pixels'[Slot(f)] = slot_pixels[Slot(f)]
      BY <1>2, <1>3, <3>1, <3>3 DEF Holds
    <3> QED
      BY <3>1, <3>2, <3>3, <3>4, <3>5, ConstantTypes
      DEF PictureInv, InFlight, NextSlot, Slot, Threads
  <2>6. CASE Publish(w)
    <3> DEFINE s == Slot(frame[w])
    <3>1. /\ Goto(w, "notify")
          /\ pc[w] = "publish"
          /\ slot_status' = [slot_status EXCEPT ![s] = status[w]]
          /\ slot_ready' = [slot_ready EXCEPT ![s] = TRUE]
          /\ UNCHANGED <<next_to_assign, next_to_write, frame, status,
                         slot_pixels>>
      BY <2>6 DEF Publish, At
    <3>2. /\ pc'[w] = "notify"
          /\ \A t \in Threads : t # w => pc'[t] = pc[t]
      BY <1>0, <3>1, GotoWorker DEF WorkerPcs
    <3>3. /\ s \in Slots
          /\ slot_status'[s] = status[w]
          /\ \A r \in Slots : r # s =>
               /\ slot_status'[r] = slot_status[r]
               /\ slot_ready'[r] = slot_ready[r]
      BY <1>0, <3>1, WorkerSlotType DEF DataType
    <3>4. /\ Holds(w) /\ frame[w] \in InFlight
          /\ \A f \in InFlight : Slot(f) = s => f = frame[w]
      BY <3>1, InFlightSlots DEF Holds, FlightInv
    <3>5. \A f \in InFlight :
             slot_ready'[Slot(f)] /\ slot_status'[Slot(f)] = "ok" =>
               slot_pixels[Slot(f)] = Picture(f)
      BY <1>3, <3>1, <3>3, <3>4 DEF PictureInv
    <3>6. pc[Writer] \in {"notify_taken", "sinking"} =>
             slot_status'[NextSlot] = "ok"
      BY <1>2, <3>3, <3>4, NextSlotType DEF PictureInv
    <3>7. /\ pc'[Writer] = pc[Writer]
          /\ NextSlot' = NextSlot /\ InFlight' = InFlight
      BY <3>1, <3>2, ConstantTypes DEF Threads, NextSlot, Slot, InFlight
    <3>8. \A v \in Workers :
            /\ pc'[v] = "publish" => pc[v] = "publish"
            /\ pc'[v] \in {"prepare", "render", "drawing"} => pc'[v] = pc[v]
      BY <3>2 DEF Threads
    <3> QED
      BY <3>1, <3>5, <3>6, <3>7, <3>8 DEF PictureInv
  <2>7. CASE Quit(w) \/ NotifyPublished(w)
    <3>1. PICK to \in {"claim", "done"} : Goto(w, to)
      BY <2>7 DEF Quit, NotifyPublished, NotifyAll
    <3>2. /\ pc'[w] \in {"claim", "done"}
          /\ \A t \in Threads : t # w => pc'[t] = pc[t]
      BY <1>0, <3>1, GotoWorker DEF WorkerPcs
    <3>3. UNCHANGED <<next_to_assign, next_to_write, frame, status, slotVars>>
      BY <2>7 DEF Quit, NotifyPublished, NotifyAll
    <3> QED BY <1>1, <3>2, <3>3, ConstantTypes DEF Threads
  <2>8. CASE BlockWorker(w)
    BY <1>1, <2>8 DEF BlockWorker
  <2> QED
    BY <1>4, <2>1, <2>2, <2>3, <2>4, <2>5, <2>6, <2>7, <2>8 DEF Worker
<1>5. CASE WriterStep
  <2>1. CASE Release
    <3>1. /\ Goto(Writer, "notify_released")
          /\ slot_ready' = [slot_ready EXCEPT ![NextSlot] = FALSE]
          /\ next_to_write' = next_to_write + 1
          /\ UNCHANGED <<next_to_assign, frame, status, slot_status,
                         slot_pixels>>
      BY <2>1 DEF Release
    <3>2. /\ pc'[Writer] = "notify_released"
          /\ \A v \in Workers : pc'[v] = pc[v]
      BY <1>0, <3>1, GotoWriter DEF WriterPcs
    <3>3. \A f \in InFlight' : f \in InFlight
      BY <1>0, <3>1 DEF InFlight, DataType
    <3>4. \A s \in Slots : slot_ready'[s] => slot_ready[s]
      BY <1>0, <3>1, NextSlotType DEF DataType
    <3> QED BY <1>3, <3>1, <3>2, <3>3, <3>4 DEF PictureInv
  <2>2. ASSUME NEW w \in Workers, Spawn(w) PROVE PictureInv'
    <3>1. pc'[w] = "claim" /\ \A t \in Threads : t # w => pc'[t] = pc[t]
      BY <1>0, <2>2, GotoWorker DEF Spawn, Goto, WorkerPcs
    <3> QED BY <1>1, <2>2, <3>1, ConstantTypes DEF Spawn, Threads
  <2>3. CASE BlockWriter
    BY <1>1, <2>3 DEF BlockWriter
  <2>4. CASE TakeFrame
    <3>1. \A v \in Workers : pc'[v] = pc[v]
      BY <1>0, <2>4, GotoWriter DEF TakeFrame, WriterPcs
    <3> QED BY <1>1, <2>4, <3>1 DEF TakeFrame
  <2>5. CASE Spawned \/ TakeError \/ NotifyFailed \/ SinkFails
             \/ StopAfterSink \/ NotifySinkFailed \/ NotifyReleased
             \/ Shutdown \/ NotifyShutdown \/ Join \/ NotifyTaken
             \/ SinkAccepts
    <3>1. \/ Goto(Writer, "sinking") /\ pc[Writer] = "notify_taken"
          \/ \E to \in {"await", "notify_failed", "shutdown", "sink_failed",
                        "notify_sink_failed", "notify_shutdown", "join",
                        "done", "release"} : Goto(Writer, to)
      BY <2>5
      DEF Spawned, TakeError, NotifyFailed, SinkFails, StopAfterSink,
          NotifySinkFailed, NotifyReleased, Shutdown, NotifyShutdown, Join,
          NotifyTaken, SinkAccepts, NotifyAll, At
    <3>2. /\ \/ pc[Writer] = "notify_taken"
             \/ pc'[Writer] \notin {"notify_taken", "sinking"}
          /\ \A v \in Workers : pc'[v] = pc[v]
      BY <1>0, <3>1, GotoWriter DEF WriterPcs
    <3>3. UNCHANGED <<next_to_assign, next_to_write, frame, status, slotVars>>
      BY <2>5
      DEF Spawned, TakeError, NotifyFailed, SinkFails, StopAfterSink,
          NotifySinkFailed, NotifyReleased, Shutdown, NotifyShutdown, Join,
          NotifyTaken, SinkAccepts, NotifyAll
    <3> QED BY <1>1, <3>2, <3>3
  <2> QED BY <1>5, <2>1, <2>2, <2>3, <2>4, <2>5 DEF WriterStep
<1>6. CASE (\E t \in Threads : SpuriousWakeup(t)) \/ UNCHANGED vars
  BY <1>1, <1>6 DEF SpuriousWakeup, vars
<1> QED BY <1>4, <1>5, <1>6 DEF Next, Returned

\* A published buffer holds its frame's picture in every reachable state.
LEMMA PictureCorrect == Spec => []PictureInv
  BY PictureInit, PictureStep, TypeCorrect, FlightCorrect, TrackCorrect, PTL
  DEF Spec

\* SlotOwnership follows from the flight and the picture invariants.
LEMMA OwnershipHolds ==
  ASSUME TypeOK, FlightInv, PictureInv
  PROVE  SlotOwnership
<1>1. \A v, w \in Workers :
        Holds(v) /\ Holds(w) /\ Slot(frame[v]) = Slot(frame[w]) => v = w
  BY InFlightSlots DEF FlightInv
<1>2. Sinking => slot_pixels[NextSlot] = Picture(next_to_write)
  <2>1. SUFFICES ASSUME Sinking
                 PROVE  slot_pixels[NextSlot] = Picture(next_to_write)
    OBVIOUS
  <2>2. slot_ready[NextSlot] /\ slot_status[NextSlot] = "ok"
    BY <2>1 DEF Sinking, FlightInv, PictureInv
  <2>3. next_to_write \in InFlight
    BY <2>2, NextSlotType DEF FlightInv, InFlight, TypeOK, DataType
  <2> QED BY <2>2, <2>3 DEF PictureInv, NextSlot
<1> QED BY <1>1, <1>2 DEF SlotOwnership, FlightInv

\* For any number of workers and frames no buffer ever has two users, and the
\* buffer the sink reads holds the complete picture of the frame that is due.
THEOREM BuffersAreOwned == Spec => []SlotOwnership
  BY OwnershipHolds, TypeCorrect, FlightCorrect, PictureCorrect, PTL
-----------------------------------------------------------------------------
(* What the sink has received. *)

\* Every step but those of the writer is invisible to the caller.
LEMMA OnlyTheWriterDelivers ==
  ASSUME TypeOK, [Next]_vars, ~WriterStep
  PROVE  UNCHANGED <<delivered, result, next_to_write, pc[Writer]>>
<1>0. ControlType BY DEF TypeOK
<1> USE DEF slotVars, trackVars, localVars
<1>1. ASSUME NEW w \in Workers, Worker(w)
      PROVE  UNCHANGED <<delivered, result, next_to_write, pc[Writer]>>
  <2>1. UNCHANGED <<delivered, result, next_to_write>>
    BY <1>1
    DEF Worker, BlockWorker, Quit, Claim, ClaimFrame, SampleFails,
        AdvanceTrack, RenderFails, BeginRender, EndRender, Publish,
        NotifyPublished, NotifyAll
  <2>2. \/ pc' = pc
        \/ \E to \in WorkerPcs : Goto(w, to)
    BY <1>1
    DEF Worker, BlockWorker, Quit, Claim, ClaimFrame, SampleFails,
        AdvanceTrack, RenderFails, BeginRender, EndRender, Publish,
        NotifyPublished, NotifyAll, GiveUp, WorkerPcs
  <2>3. pc'[Writer] = pc[Writer]
    BY <1>0, <2>2, GotoWorker, ConstantTypes DEF Threads
  <2> QED BY <2>1, <2>3
<1>2. CASE (\E t \in Threads : SpuriousWakeup(t)) \/ UNCHANGED vars
  BY <1>2 DEF SpuriousWakeup, vars
<1> QED BY <1>1, <1>2 DEF Next, Returned

\* Initially nothing has been delivered.
LEMMA DeliveryInit == Init => DeliveryInv
  BY ConstantTypes DEF Init, DeliveryInv, Threads

\* The sink accepts the frame that is due, and the writer leaves its loop with
\* an error exactly if a frame is missing.
LEMMA DeliveryStep ==
  TypeOK /\ FlightInv /\ PictureInv /\ DeliveryInv /\ [Next]_vars
    => DeliveryInv'
<1> SUFFICES ASSUME TypeOK, FlightInv, PictureInv, DeliveryInv, [Next]_vars
             PROVE  DeliveryInv'
  OBVIOUS
<1>0. ControlType /\ DataType BY DEF TypeOK
<1> USE DEF slotVars, trackVars, localVars
<1>1. CASE ~WriterStep
  BY <1>1, OnlyTheWriterDelivers DEF DeliveryInv
<1>2. ASSUME NEW w \in Workers, Spawn(w) PROVE DeliveryInv'
  <2>1. pc'[Writer] = pc[Writer]
    BY <1>0, <1>2, GotoWorker, ConstantTypes
    DEF Spawn, Goto, WorkerPcs, Threads
  <2> QED BY <1>2, <2>1 DEF DeliveryInv, Spawn
<1>3. CASE BlockWriter
  BY <1>3 DEF DeliveryInv, BlockWriter
<1>4. CASE Spawned \/ TakeFrame \/ NotifyTaken
  <2>1. /\ pc[Writer] \in {"spawn", "await", "notify_taken"}
        /\ \E to \in {"await", "notify_taken", "sinking"} : Goto(Writer, to)
        /\ UNCHANGED <<delivered, result, next_to_write>>
    BY <1>4 DEF Spawned, TakeFrame, NotifyTaken, NotifyAll, At
  <2>2. pc'[Writer] \in {"await", "notify_taken", "sinking"}
    BY <1>0, <2>1, GotoWriter DEF WriterPcs
  <2> QED BY <2>1, <2>2 DEF DeliveryInv
<1>5. CASE TakeError \/ SinkFails
  <2>1. /\ pc[Writer] \in {"await", "sinking"}
        /\ \E to \in {"notify_failed", "sink_failed"} : Goto(Writer, to)
        /\ result' # "ok"
        /\ UNCHANGED <<delivered, next_to_write>>
    BY <1>5 DEF TakeError, SinkFails, At
  <2>2. pc'[Writer] \in {"notify_failed", "sink_failed"}
    BY <1>0, <2>1, GotoWriter DEF WriterPcs
  <2> QED BY <2>1, <2>2 DEF DeliveryInv
<1>6. CASE SinkAccepts
  <2>1. /\ pc[Writer] = "sinking"
        /\ Goto(Writer, "release")
        /\ delivered' = Append(delivered, slot_pixels[NextSlot])
        /\ UNCHANGED <<result, next_to_write>>
    BY <1>6 DEF SinkAccepts, At
  <2>2. pc'[Writer] = "release"
    BY <1>0, <2>1, GotoWriter DEF WriterPcs
  <2>3. slot_pixels[NextSlot] = Picture(next_to_write)
    BY <2>1, OwnershipHolds DEF SlotOwnership, Sinking
  <2>4. Len(delivered) = next_to_write /\ next_to_write \in Nat
    BY <1>0, <2>1 DEF DeliveryInv, DataType
  <2>5. /\ Len(delivered') = next_to_write + 1
        /\ \A i \in 1 .. next_to_write : delivered'[i] = delivered[i]
        /\ delivered'[next_to_write + 1] = Picture(next_to_write)
    <3>1. /\ delivered \in Seq(Pictures \cup {None})
          /\ Picture(next_to_write) \in Pictures \cup {None}
      BY <1>0, <2>3, NextSlotType DEF DataType
    <3> QED BY <2>1, <2>3, <2>4, <3>1
  <2>6. \A i \in 1 .. Len(delivered') : delivered'[i] = Picture(i - 1)
    BY <2>4, <2>5 DEF DeliveryInv
  <2> QED BY <2>1, <2>2, <2>5, <2>6 DEF DeliveryInv
<1>7. CASE Release
  <2>1. /\ pc[Writer] = "release"
        /\ Goto(Writer, "notify_released")
        /\ next_to_write' = next_to_write + 1
        /\ UNCHANGED <<delivered, result>>
    BY <1>7 DEF Release, At
  <2>2. pc'[Writer] = "notify_released"
    BY <1>0, <2>1, GotoWriter DEF WriterPcs
  <2> QED BY <2>1, <2>2 DEF DeliveryInv
<1>8. CASE NotifyReleased
  <2>1. /\ pc[Writer] = "notify_released"
        /\ Goto(Writer, IF next_to_write < frame_count
                        THEN "await" ELSE "shutdown")
        /\ UNCHANGED <<delivered, result, next_to_write>>
    BY <1>8 DEF NotifyReleased, NotifyAll, At
  <2>2. pc'[Writer] = IF next_to_write < frame_count
                      THEN "await" ELSE "shutdown"
    BY <1>0, <2>1, GotoWriter DEF WriterPcs
  <2>3. next_to_write <= frame_count
    BY <1>0, ConstantTypes DEF FlightInv, DataType
  <2> QED BY <1>0, <2>1, <2>2, <2>3, ConstantTypes DEF DeliveryInv, DataType
<1>9. CASE StopAfterSink \/ NotifyFailed \/ NotifySinkFailed
  <2>1. /\ pc[Writer] \in {"sink_failed", "notify_failed",
                           "notify_sink_failed"}
        /\ \E to \in {"shutdown", "notify_sink_failed"} : Goto(Writer, to)
        /\ UNCHANGED <<delivered, result, next_to_write>>
    BY <1>9 DEF StopAfterSink, NotifyFailed, NotifySinkFailed, NotifyAll, At
  <2>2. pc'[Writer] \in {"shutdown", "notify_sink_failed"}
    BY <1>0, <2>1, GotoWriter DEF WriterPcs
  <2> QED BY <1>0, <2>1, <2>2, ConstantTypes DEF DeliveryInv, DataType
<1>10. CASE Shutdown \/ NotifyShutdown \/ Join
  <2>1. /\ pc[Writer] \in {"shutdown", "notify_shutdown", "join"}
        /\ \E to \in {"notify_shutdown", "join", "done"} : Goto(Writer, to)
        /\ UNCHANGED <<delivered, result, next_to_write>>
    BY <1>10 DEF Shutdown, NotifyShutdown, Join, NotifyAll, At
  <2>2. pc'[Writer] \in {"notify_shutdown", "join", "done"}
    BY <1>0, <2>1, GotoWriter DEF WriterPcs
  <2> QED BY <2>1, <2>2 DEF DeliveryInv
<1> QED
  BY <1>1, <1>2, <1>3, <1>4, <1>5, <1>6, <1>7, <1>8, <1>9, <1>10
  DEF WriterStep

\* The sink has accepted the pictures of the written frames, in order.
LEMMA DeliveryCorrect == Spec => []DeliveryInv
  BY DeliveryInit, DeliveryStep, TypeCorrect, FlightCorrect, PictureCorrect,
     PTL
  DEF Spec

\* The pool never leaves the invariant that the model checker confirms on small
\* instances: frames, slots, track and deliveries stay consistent.
THEOREM Invariance == Spec => []IInv
  BY FlightCorrect, TrackCorrect, PictureCorrect, DeliveryCorrect, PTL DEF IInv
-----------------------------------------------------------------------------
(* The thread pool implements the loop over the frames. *)

\* The pool starts in an initial state of the stream.
LEMMA StreamInit == Init => Stream!Init
  BY ConstantTypes DEF Init, Stream!Init, outcome, Threads

\* Every step of the pool is a step of the stream or invisible to its caller.
LEMMA StreamStep ==
  TypeOK /\ FlightInv /\ PictureInv /\ DeliveryInv /\ [Next]_vars
    => [Stream!Next]_(Stream!streamVars)
<1> SUFFICES ASSUME TypeOK, FlightInv, PictureInv, DeliveryInv, [Next]_vars
             PROVE  [Stream!Next]_(Stream!streamVars)
  OBVIOUS
<1>0. ControlType /\ DataType BY DEF TypeOK
<1> USE DEF slotVars, trackVars, localVars
<1>1. CASE SinkAccepts
  <2>1. /\ pc[Writer] = "sinking"
        /\ Goto(Writer, "release")
        /\ delivered' = Append(delivered, slot_pixels[NextSlot])
    BY <1>1 DEF SinkAccepts, At
  <2>2. pc'[Writer] = "release"
    BY <1>0, <2>1, GotoWriter DEF WriterPcs
  <2>3. slot_pixels[NextSlot] = Picture(next_to_write)
    BY <2>1, OwnershipHolds DEF SlotOwnership, Sinking
  <2>4. Len(delivered) = next_to_write /\ next_to_write < frame_count
    BY <2>1 DEF DeliveryInv
  <2> QED BY <2>1, <2>2, <2>3, <2>4 DEF Stream!Next, Stream!Deliver, outcome
<1>2. CASE Join
  <2>1. /\ pc[Writer] = "join"
        /\ Goto(Writer, "done")
        /\ UNCHANGED <<delivered, result>>
    BY <1>2 DEF Join, At
  <2>2. pc'[Writer] = "done"
    BY <1>0, <2>1, GotoWriter DEF WriterPcs
  <2>3. /\ Len(delivered) = next_to_write
        /\ result = "ok" <=> next_to_write = frame_count
        /\ next_to_write <= frame_count
    BY <1>0, <2>1, ConstantTypes DEF DeliveryInv, FlightInv, DataType
  <2>4. CASE result = "ok"
    BY <2>1, <2>2, <2>3, <2>4 DEF Stream!Next, Stream!Succeed, outcome
  <2>5. CASE result # "ok"
    <3>1. Len(delivered) < frame_count
      BY <1>0, <2>3, <2>5, ConstantTypes DEF DataType
    <3> QED BY <2>1, <2>2, <2>5, <3>1 DEF Stream!Next, Stream!Fail, outcome
  <2> QED BY <2>4, <2>5
<1>3. CASE ~WriterStep
  BY <1>3, OnlyTheWriterDelivers DEF Stream!streamVars, outcome
<1>4. ASSUME NEW w \in Workers, Spawn(w)
      PROVE  UNCHANGED Stream!streamVars
  <2>1. pc'[Writer] = pc[Writer]
    BY <1>0, <1>4, GotoWorker, ConstantTypes
    DEF Spawn, Goto, WorkerPcs, Threads
  <2> QED BY <1>4, <2>1 DEF Spawn, Stream!streamVars, outcome
<1>5. CASE \/ Spawned \/ BlockWriter \/ TakeFrame \/ TakeError
           \/ NotifyTaken \/ NotifyFailed
           \/ SinkFails \/ StopAfterSink \/ NotifySinkFailed
           \/ Release \/ NotifyReleased
           \/ Shutdown \/ NotifyShutdown
  <2>1. pc[Writer] # "done" /\ delivered' = delivered
    BY <1>5
    DEF Spawned, BlockWriter, TakeFrame, TakeError, NotifyTaken, NotifyFailed,
        SinkFails, StopAfterSink, NotifySinkFailed, Release, NotifyReleased,
        Shutdown, NotifyShutdown, NotifyAll, At
  <2>2. pc' = pc \/ \E to \in WriterPcs \ {"done"} : Goto(Writer, to)
    BY <1>5
    DEF Spawned, BlockWriter, TakeFrame, TakeError, NotifyTaken, NotifyFailed,
        SinkFails, StopAfterSink, NotifySinkFailed, Release, NotifyReleased,
        Shutdown, NotifyShutdown, NotifyAll, At, WriterPcs
  <2>3. pc'[Writer] # "done"
    BY <1>0, <2>1, <2>2, GotoWriter
  <2> QED BY <2>1, <2>3 DEF Stream!streamVars, outcome
<1> QED BY <1>1, <1>2, <1>3, <1>4, <1>5 DEF WriterStep

\* With any number of workers and any schedule the pool delivers what one
\* loop over the frames would have delivered.
THEOREM PoolImplementsStream == Spec => ImplementsStream
  BY StreamInit, StreamStep, TypeCorrect, FlightCorrect, PictureCorrect,
     DeliveryCorrect, PTL
  DEF Spec, ImplementsStream, Stream!Spec
-----------------------------------------------------------------------------
(* Notifications. *)

\* Initially nobody is blocked.
LEMMA WakeupInit == Init => NoLostWakeup
  BY DEF Init, NoLostWakeup

\* Whoever makes a wait predicate true has its notify_all still ahead of it.
LEMMA WakeupStep == TypeOK /\ NoLostWakeup /\ [Next]_vars => NoLostWakeup'
<1> SUFFICES ASSUME TypeOK, NoLostWakeup, [Next]_vars PROVE NoLostWakeup'
  OBVIOUS
<1>0. ControlType /\ DataType BY DEF TypeOK
<1> USE DEF slotVars, trackVars, localVars
\* A step that changes nothing the predicates read, blocks nobody and keeps
\* the threads that still have to notify.
<1>1. ASSUME UNCHANGED <<stop, next_to_assign, next_to_write, slot_ready>>,
             waiting' \subseteq waiting,
             pc'[Writer] = pc[Writer],
             \A v \in Workers :
               /\ Holds(v) => Holds(v)'
               /\ pc[v] = "notify" => pc'[v] = "notify"
      PROVE  NoLostWakeup'
  BY <1>1 DEF NoLostWakeup, NothingToClaim, RoomAhead, NextSlot, Slot, capacity
<1>2. ASSUME waiting' = {} PROVE NoLostWakeup'
  BY <1>2 DEF NoLostWakeup
<1>3. ASSUME NEW w \in Workers, Worker(w) PROVE NoLostWakeup'
  <2>1. CASE BlockWorker(w)
    BY <1>0, <2>1, ConstantTypes
    DEF BlockWorker, NoLostWakeup, NothingToClaim, RoomAhead, DataType, Holds,
        NextSlot, Slot, capacity
  <2>2. CASE Claim(w)
    <3>1. /\ Goto(w, "prepare") /\ pc[w] = "claim"
          /\ ~NothingToClaim /\ RoomAhead
          /\ UNCHANGED <<waiting, stop, next_to_write, slot_ready>>
      BY <2>2 DEF Claim, ClaimFrame, At
    <3>2. /\ pc'[w] = "prepare"
          /\ \A t \in Threads : t # w => pc'[t] = pc[t]
      BY <1>0, <3>1, GotoWorker DEF WorkerPcs
    <3>3. pc'[Writer] = pc[Writer]
      BY <3>2, ConstantTypes DEF Threads
    <3>4. waiting \cap Workers # {} => pc[Writer] = "notify_released"
      BY <3>1 DEF NoLostWakeup
    <3>5. \A v \in Workers : pc[v] = "notify" => pc'[v] = "notify"
      BY <3>1, <3>2 DEF Threads
    <3>6. Holds(w)'
      BY <3>2 DEF Holds
    <3> QED
      BY <3>1, <3>3, <3>4, <3>5, <3>6
      DEF NoLostWakeup, NothingToClaim, NextSlot, Slot, capacity
  <2>3. CASE SampleFails(w) \/ AdvanceTrack(w) \/ RenderFails(w)
             \/ BeginRender(w) \/ EndRender(w)
    <3>1. PICK to \in {"render", "drawing", "publish"} : Goto(w, to)
      BY <2>3
      DEF SampleFails, AdvanceTrack, RenderFails, BeginRender, EndRender,
          GiveUp
    <3>2. /\ pc'[w] \in {"render", "drawing", "publish"}
          /\ \A t \in Threads : t # w => pc'[t] = pc[t]
      BY <1>0, <3>1, GotoWorker DEF WorkerPcs
    <3>3. /\ pc[w] # "notify"
          /\ UNCHANGED <<waiting, stop, next_to_assign, next_to_write,
                         slot_ready>>
      BY <2>3
      DEF SampleFails, AdvanceTrack, RenderFails, BeginRender, EndRender, At
    <3> QED BY <1>1, <3>2, <3>3, ConstantTypes DEF Threads, Holds
  <2>4. CASE Publish(w)
    <3>1. /\ Goto(w, "notify")
          /\ UNCHANGED <<waiting, stop, next_to_assign, next_to_write>>
      BY <2>4 DEF Publish
    <3>2. /\ pc'[w] = "notify"
          /\ \A t \in Threads : t # w => pc'[t] = pc[t]
      BY <1>0, <3>1, GotoWorker DEF WorkerPcs
    <3> QED
      BY <3>1, <3>2, ConstantTypes
      DEF NoLostWakeup, NothingToClaim, RoomAhead, Threads, capacity
  <2>5. CASE Quit(w)
    <3>1. /\ Goto(w, "done") /\ pc[w] = "claim"
          /\ UNCHANGED <<waiting, stop, next_to_assign, next_to_write,
                         slot_ready>>
      BY <2>5 DEF Quit, At
    <3>2. \A t \in Threads : t # w => pc'[t] = pc[t]
      BY <1>0, <3>1, GotoWorker DEF WorkerPcs
    <3> QED BY <1>1, <3>1, <3>2, ConstantTypes DEF Threads, Holds
  <2>6. CASE NotifyPublished(w)
    BY <1>2, <2>6 DEF NotifyPublished, NotifyAll
  <2> QED BY <1>3, <2>1, <2>2, <2>3, <2>4, <2>5, <2>6 DEF Worker
<1>4. CASE WriterStep
  <2>1. ASSUME NEW w \in Workers, Spawn(w) PROVE NoLostWakeup'
    <3>1. /\ pc[w] = "unborn"
          /\ UNCHANGED <<waiting, stop, next_to_assign, next_to_write,
                         slot_ready>>
          /\ \A t \in Threads : t # w => pc'[t] = pc[t]
      BY <1>0, <2>1 DEF Spawn, ControlType
    <3> QED BY <1>1, <3>1, ConstantTypes DEF Threads, Holds
  <2>2. CASE BlockWriter
    BY <2>2, ConstantTypes
    DEF BlockWriter, NoLostWakeup, NothingToClaim, RoomAhead, NextSlot, Slot,
        capacity, Holds
  <2>3. CASE NotifyTaken \/ NotifyFailed \/ NotifySinkFailed \/ NotifyReleased
             \/ NotifyShutdown
    BY <1>2, <2>3
    DEF NotifyTaken, NotifyFailed, NotifySinkFailed, NotifyReleased,
        NotifyShutdown, NotifyAll
  <2>4. CASE Spawned \/ TakeFrame \/ SinkAccepts \/ SinkFails \/ Join
    <3>1. /\ Writer \notin waiting \/ pc[Writer] = "spawn"
          /\ pc[Writer] \in {"spawn", "await", "sinking", "join"}
          /\ \E to \in WriterPcs : Goto(Writer, to)
          /\ UNCHANGED <<waiting, stop, next_to_assign, next_to_write,
                         slot_ready>>
      BY <2>4
      DEF Spawned, TakeFrame, SinkAccepts, SinkFails, Join, At, WriterPcs
    <3>2. \A v \in Workers : pc'[v] = pc[v]
      BY <1>0, <3>1, GotoWriter
    <3> QED
      BY <3>1, <3>2
      DEF NoLostWakeup, NothingToClaim, RoomAhead, NextSlot, Slot, capacity,
          Holds
  <2>5. CASE TakeError \/ StopAfterSink \/ Shutdown
    <3>1. /\ Writer \notin waiting
          /\ pc[Writer] \in {"await", "sink_failed", "shutdown"}
          /\ \E to \in {"notify_failed", "notify_sink_failed",
                        "notify_shutdown"} : Goto(Writer, to)
          /\ stop'
          /\ UNCHANGED <<waiting, next_to_assign, next_to_write, slot_ready>>
      BY <2>5 DEF TakeError, StopAfterSink, Shutdown, At
    <3>2. /\ pc'[Writer] \in {"notify_failed", "notify_sink_failed",
                              "notify_shutdown"}
          /\ \A v \in Workers : pc'[v] = pc[v]
      BY <1>0, <3>1, GotoWriter DEF WriterPcs
    <3> QED BY <3>1, <3>2 DEF NoLostWakeup, NothingToClaim, Holds
  <2>6. CASE Release
    <3>1. /\ Writer \notin waiting
          /\ pc[Writer] = "release"
          /\ Goto(Writer, "notify_released")
          /\ UNCHANGED <<waiting, stop, next_to_assign>>
      BY <2>6 DEF Release, At
    <3>2. /\ pc'[Writer] = "notify_released"
          /\ \A v \in Workers : pc'[v] = pc[v]
      BY <1>0, <3>1, GotoWriter DEF WriterPcs
    <3> QED BY <3>1, <3>2 DEF NoLostWakeup, NothingToClaim, Holds
  <2> QED BY <1>4, <2>1, <2>2, <2>3, <2>4, <2>5, <2>6 DEF WriterStep
<1>5. CASE (\E t \in Threads : SpuriousWakeup(t)) \/ UNCHANGED vars
  BY <1>1, <1>5 DEF SpuriousWakeup, vars, Holds
<1> QED BY <1>3, <1>4, <1>5 DEF Next, Returned

\* No wakeup is lost, for any number of workers and frames.
THEOREM NoWakeupIsLost == Spec => []NoLostWakeup
  BY WakeupInit, WakeupStep, TypeCorrect, PTL DEF Spec
=============================================================================
