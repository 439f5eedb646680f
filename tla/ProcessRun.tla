----------------------------- MODULE ProcessRun -----------------------------
(***************************************************************************)
(* RunProcess on POSIX (src/src/ffmpeg/process_posix.cc:177-296): starts a *)
(* child with a pipe to its standard input and one from its output, lets a *)
(* producer write the input while a reader thread drains the output, and   *)
(* reaps the child on every path.  Without a producer the child's input is *)
(* closed at once and the calling thread drains the output itself.         *)
(*                                                                         *)
(* Bytes are counted, not stored: a pipe is how many of them it holds.     *)
(* The child and the producer are external.  The child reads, writes,      *)
(* closes its ends, exits or crashes as it likes, but a read or a write it *)
(* has begun blocks it, as the kernel would.  The producer calls the sink  *)
(* a fixed number of times, may fail between two calls, and stops at the   *)
(* first call that fails, like ProduceOverlayFrames.                       *)
(***************************************************************************)
EXTENDS Integers

CONSTANTS
  Pieces,          \* sink calls of the producer
  PieceSize,       \* bytes of each call
  PipeSize,        \* bytes a pipe holds before a write blocks
  OutputBound,     \* bound: bytes the child can write
  kMaximumCapturedOutputBytes

ASSUME ProcessAssumption ==
  /\ Pieces \in Nat /\ OutputBound \in Nat
  /\ PieceSize \in Nat \ {0} /\ PipeSize \in Nat \ {0}
  /\ kMaximumCapturedOutputBytes \in Nat

VARIABLES
  caller,          \* the call: has it a producer, and the thread's SIGPIPE
  pc,              \* where the calling thread is
  reader,          \* where read_output is, on whichever thread runs it
  child,           \* the child process: none, running, zombie or reaped
  doing,           \* the system call the child is in, or "think"
  killed,          \* a SIGKILL is pending for the child
  exit_status,     \* how the child ended
  input_open,      \* input->write, our end of the child's standard input
  stdin_open,      \* the child's end of it
  stdout_open,     \* the child's end of its output
  sent,            \* bytes written to the child, all calls together
  todo,            \* bytes left of the current sink call
  in_pipe,         \* bytes sent and not yet read by the child
  written,         \* bytes the child has written
  out_pipe,        \* of these, the bytes not yet read by us
  captured,        \* captured.size()
  too_large,
  read_status,
  producer_status,
  sigpipe,         \* SIGPIPE on the calling thread: blocked? pending?
  result           \* what RunProcess returned

childVars  == <<child, doing, killed, exit_status, stdin_open, stdout_open>>
inputVars  == <<input_open, sent, todo, in_pipe>>
outputVars == <<written, out_pipe>>
readVars   == <<reader, captured, too_large, read_status>>
vars == <<caller, pc, producer_status, sigpipe, result, childVars, inputVars,
          outputVars, readVars>>

Lesser(m, n) == IF m < n THEN m ELSE n

Callers == {c \in [producer : BOOLEAN, blocked : BOOLEAN, pending : BOOLEAN] :
              c.pending => c.blocked}

Init ==
  /\ caller \in Callers
  /\ pc = "start"
  /\ reader = "none"
  /\ child = "none" /\ doing = "think" /\ killed = FALSE
  /\ exit_status = "none"
  /\ input_open = TRUE /\ stdin_open = TRUE /\ stdout_open = TRUE
  /\ sent = 0 /\ todo = 0 /\ in_pipe = 0
  /\ written = 0 /\ out_pipe = 0
  /\ captured = 0 /\ too_large = FALSE
  /\ read_status = "ok" /\ producer_status = "ok"
  /\ sigpipe = [blocked |-> caller.blocked, pending |-> caller.pending]
  /\ result = "none"
-----------------------------------------------------------------------------
(* The child.                                                              *)

\* The child's end of the process: the kernel closes its ends of the pipes.
Ends(status) ==
  /\ child' = "zombie"
  /\ exit_status' = status
  /\ stdin_open' = FALSE /\ stdout_open' = FALSE
  /\ UNCHANGED <<doing, killed>>

Begin(operation) ==
  /\ child = "running" /\ doing = "think"
  /\ operation = "read" => stdin_open
  /\ operation = "write" => stdout_open /\ written < OutputBound
  /\ doing' = operation
  /\ UNCHANGED <<caller, pc, producer_status, sigpipe, result, child, killed,
                 exit_status, stdin_open, stdout_open, inputVars, outputVars,
                 readVars>>

\* Blocks while the pipe is empty and our end of it open.  After the end of
\* its input the child does not read again.
ChildReads ==
  /\ child = "running" /\ doing = "read"
  /\ \/ in_pipe > 0 /\ in_pipe' = in_pipe - 1 /\ UNCHANGED stdin_open
     \/ in_pipe = 0 /\ ~input_open /\ stdin_open' = FALSE /\ UNCHANGED in_pipe
  /\ doing' = "think"
  /\ UNCHANGED <<caller, pc, producer_status, sigpipe, result, child, killed,
                 exit_status, stdout_open, input_open, sent, todo, outputVars,
                 readVars>>

\* Blocks while the pipe is full.
ChildWrites ==
  /\ child = "running" /\ doing = "write"
  /\ out_pipe < PipeSize
  /\ out_pipe' = out_pipe + 1
  /\ written' = written + 1
  /\ doing' = "think"
  /\ UNCHANGED <<caller, pc, producer_status, sigpipe, result, child, killed,
                 exit_status, stdin_open, stdout_open, inputVars, readVars>>

ChildCloses ==
  /\ child = "running" /\ doing = "think"
  /\ \/ stdin_open /\ stdin_open' = FALSE /\ UNCHANGED stdout_open
     \/ stdout_open /\ stdout_open' = FALSE /\ UNCHANGED stdin_open
  /\ UNCHANGED <<caller, pc, producer_status, sigpipe, result, child, doing,
                 killed, exit_status, inputVars, outputVars, readVars>>

ChildExits(status) ==
  /\ child = "running" /\ doing = "think"
  /\ Ends(status)
  /\ UNCHANGED <<caller, pc, producer_status, sigpipe, result, inputVars,
                 outputVars, readVars>>

\* SIGKILL takes the child out of whatever it is doing.
ChildDies ==
  /\ child = "running" /\ killed
  /\ Ends("killed")
  /\ UNCHANGED <<caller, pc, producer_status, sigpipe, result, inputVars,
                 outputVars, readVars>>

Child ==
  \/ \E operation \in {"read", "write"} : Begin(operation)
  \/ ChildReads \/ ChildWrites \/ ChildCloses
  \/ \E status \in {"zero", "nonzero", "crashed"} : ChildExits(status)

\* ChildProcess::Terminate.  It has no effect on a zombie; that the process
\* identifier still belongs to the child is what OurChild states.
Kill == killed' = (killed \/ child = "running")
-----------------------------------------------------------------------------
(* read_output.                                                            *)

\* Mutant: reading stops when the limit has been reached.
ReadUpToTheLimit ==
  /\ reader = "reading" /\ out_pipe > 0
  /\ \E count \in 1 .. out_pipe :
       LET to_copy == Lesser(count, kMaximumCapturedOutputBytes - captured)
       IN  /\ out_pipe' = out_pipe - count
           /\ captured' = captured + to_copy
           /\ too_large' = (to_copy < count)
           /\ reader' = IF too_large' THEN "done" ELSE reader
  /\ UNCHANGED <<caller, pc, producer_status, sigpipe, result, childVars,
                 inputVars, written, read_status>>

\* A read returns some of what the pipe holds.  Output beyond the limit is
\* dropped, but read.
ReadOutput ==
  /\ reader = "reading" /\ out_pipe > 0
  /\ \E count \in 1 .. out_pipe :
       LET to_copy == Lesser(count, kMaximumCapturedOutputBytes - captured)
       IN  /\ out_pipe' = out_pipe - count
           /\ captured' = captured + to_copy
           /\ too_large' = (too_large \/ to_copy < count)
  /\ UNCHANGED <<caller, pc, producer_status, sigpipe, result, childVars,
                 inputVars, written, reader, read_status>>

EndOfOutput ==
  /\ reader = "reading" /\ out_pipe = 0 /\ ~stdout_open
  /\ reader' = "done"
  /\ UNCHANGED <<caller, pc, producer_status, sigpipe, result, childVars,
                 inputVars, outputVars, captured, too_large, read_status>>

ReadFails ==
  /\ reader = "reading"
  /\ read_status' = "error"
  /\ reader' = "terminate"
  /\ UNCHANGED <<caller, pc, producer_status, sigpipe, result, childVars,
                 inputVars, outputVars, captured, too_large>>

ReaderTerminates ==
  /\ reader = "terminate"
  /\ Kill
  /\ reader' = "done"
  /\ UNCHANGED <<caller, pc, producer_status, sigpipe, result, child, doing,
                 exit_status, stdin_open, stdout_open, inputVars, outputVars,
                 captured, too_large, read_status>>

ReaderGoesOn == ReadOutput \/ EndOfOutput \/ ReaderTerminates

Reader == ReaderGoesOn \/ ReadFails
-----------------------------------------------------------------------------
(* The calling thread.                                                     *)

Goto(label) == pc' = label

\* Leaves RunProcess; what is left of the pipes is closed.
Return(outcome) ==
  /\ result' = outcome
  /\ input_open' = FALSE
  /\ Goto("returned")

\* A bad argument, no pipe, or no process: there is no child.
StartFails ==
  /\ pc = "start"
  /\ Return("not_started")
  /\ UNCHANGED <<caller, producer_status, sigpipe, childVars, sent, todo,
                 in_pipe, outputVars, readVars>>

Start ==
  /\ pc = "start"
  /\ child' = "running"
  /\ Goto(IF caller.producer THEN "start_reader" ELSE "capture")
  /\ UNCHANGED <<caller, producer_status, sigpipe, result, doing, killed,
                 exit_status, stdin_open, stdout_open, inputVars, outputVars,
                 readVars>>

\* Without a producer: end of input for the child, then read_output inline.
Capture ==
  /\ pc = "capture"
  /\ input_open' = FALSE
  /\ reader' = "reading"
  /\ Goto("join")
  /\ UNCHANGED <<caller, producer_status, sigpipe, result, childVars, sent,
                 todo, in_pipe, outputVars, captured, too_large, read_status>>

StartReader ==
  /\ pc = "start_reader"
  /\ reader' = "reading"
  /\ Goto("mask")
  /\ UNCHANGED <<caller, producer_status, sigpipe, result, childVars,
                 inputVars, outputVars, captured, too_large, read_status>>

\* SuppressSigpipe, on Linux: block the signal on this thread.
Mask ==
  /\ pc = "mask"
  /\ sigpipe' = [sigpipe EXCEPT !.blocked = TRUE]
  /\ Goto("produce")
  /\ UNCHANGED <<caller, producer_status, result, childVars, inputVars,
                 outputVars, readVars>>

MaskFails ==
  /\ pc = "mask"
  /\ producer_status' = "error"
  /\ Goto("close_input")
  /\ UNCHANGED <<caller, sigpipe, result, childVars, inputVars, outputVars,
                 readVars>>

SinkCall ==
  /\ pc = "produce" /\ sent < Pieces * PieceSize
  /\ todo' = PieceSize
  /\ Goto("write")
  /\ UNCHANGED <<caller, producer_status, sigpipe, result, childVars,
                 input_open, sent, in_pipe, outputVars, readVars>>

\* The producer returns, having handed over everything or with an error of
\* its own.
ProducerReturns(status) ==
  /\ pc = "produce"
  /\ status = "ok" => sent = Pieces * PieceSize
  /\ producer_status' = status
  /\ Goto("unmask")
  /\ UNCHANGED <<caller, sigpipe, result, childVars, inputVars, outputVars,
                 readVars>>

\* A write hands over some of what is left; it blocks while the pipe is full.
WriteInput ==
  /\ pc = "write" /\ stdin_open
  /\ \E count \in 1 .. Lesser(todo, PipeSize - in_pipe) :
       /\ in_pipe' = in_pipe + count
       /\ sent' = sent + count
       /\ todo' = todo - count
       /\ Goto(IF count = todo THEN "produce" ELSE "write")
  /\ UNCHANGED <<caller, producer_status, sigpipe, result, childVars,
                 input_open, outputVars, readVars>>

\* Nobody can read the pipe any more: SIGPIPE, and EPIPE ends the producer.
BrokenPipe ==
  /\ pc = "write" /\ ~stdin_open
  /\ sigpipe' = [sigpipe EXCEPT !.pending = TRUE]
  /\ producer_status' = "error"
  /\ Goto("unmask")
  /\ UNCHANGED <<caller, result, childVars, inputVars, outputVars, readVars>>

\* Mutant: a signal that was pending before the call is consumed too.
UnmaskConsuming ==
  /\ pc = "unmask"
  /\ sigpipe' = [blocked |-> caller.blocked, pending |-> FALSE]
  /\ Goto("close_input")
  /\ UNCHANGED <<caller, producer_status, result, childVars, inputVars,
                 outputVars, readVars>>

\* ~SuppressSigpipe consumes the signal unless it was pending before, then
\* restores the mask.
Unmask ==
  /\ pc = "unmask"
  /\ sigpipe' = [blocked |-> caller.blocked,
                 pending |-> sigpipe.pending /\ caller.pending]
  /\ Goto("close_input")
  /\ UNCHANGED <<caller, producer_status, result, childVars, inputVars,
                 outputVars, readVars>>

\* Mutant: a failed producer leaves the child waiting for its input.
CloseInputOnly ==
  /\ pc = "close_input"
  /\ input_open' = FALSE
  /\ Goto("join")
  /\ UNCHANGED <<caller, producer_status, sigpipe, result, childVars, sent,
                 todo, in_pipe, outputVars, readVars>>

CloseInput ==
  /\ pc = "close_input"
  /\ input_open' = FALSE
  /\ Goto(IF producer_status = "ok" THEN "join" ELSE "terminate")
  /\ UNCHANGED <<caller, producer_status, sigpipe, result, childVars, sent,
                 todo, in_pipe, outputVars, readVars>>

\* Mutant: the error is returned at once.
TerminateAndReturn ==
  /\ pc = "terminate"
  /\ Kill
  /\ Return("producer_error")
  /\ UNCHANGED <<caller, producer_status, sigpipe, child, doing, exit_status,
                 stdin_open, stdout_open, sent, todo, in_pipe, outputVars,
                 readVars>>

Terminate ==
  /\ pc = "terminate"
  /\ Kill
  /\ Goto("join")
  /\ UNCHANGED <<caller, producer_status, sigpipe, result, child, doing,
                 exit_status, stdin_open, stdout_open, inputVars, outputVars,
                 readVars>>

\* Mutant: the child is reaped without waiting for the reader.
JoinNobody ==
  /\ pc = "join"
  /\ Goto("wait")
  /\ UNCHANGED <<caller, producer_status, sigpipe, result, childVars,
                 inputVars, outputVars, readVars>>

Join ==
  /\ pc = "join" /\ reader = "done"
  /\ Goto("wait")
  /\ UNCHANGED <<caller, producer_status, sigpipe, result, childVars,
                 inputVars, outputVars, readVars>>

\* Mutant: what the child reports comes before a failure of the producer.
ExitBeforeProducer ==
  IF read_status # "ok" THEN "read_error"
  ELSE IF too_large THEN "too_large" ELSE "completed"

\* Which of the errors is reported.
Outcome ==
  IF read_status # "ok" THEN "read_error"
  ELSE IF producer_status # "ok" THEN "producer_error"
  ELSE IF too_large THEN "too_large" ELSE "completed"

\* waitpid; it fails if somebody else has taken the child's status.
Wait(outcome) ==
  /\ pc = "wait" /\ child = "zombie"
  /\ child' = "reaped"
  /\ Return(outcome)
  /\ UNCHANGED <<caller, producer_status, sigpipe, doing, killed, exit_status,
                 stdin_open, stdout_open, sent, todo, in_pipe, outputVars,
                 readVars>>

Caller ==
  \/ StartFails \/ Start \/ Capture
  \/ StartReader \/ Mask \/ MaskFails
  \/ SinkCall \/ \E status \in {"ok", "error"} : ProducerReturns(status)
  \/ WriteInput \/ BrokenPipe \/ Unmask
  \/ CloseInput \/ Terminate \/ Join
  \/ Wait(Outcome) \/ Wait("wait_error")

Returned == pc = "returned" /\ UNCHANGED vars

Next == Child \/ ChildDies \/ Reader \/ Caller \/ Returned

Spec == Init /\ [][Next]_vars

\* Both threads run, the producer gets on, and SIGKILL takes effect.  Nothing
\* is assumed of the child, and no read has to fail.
FairSpec ==
  Spec /\ WF_vars(Caller) /\ WF_vars(ReaderGoesOn) /\ WF_vars(ChildDies)
-----------------------------------------------------------------------------
(* Properties.                                                             *)

Pcs == {"start", "capture", "start_reader", "mask", "produce", "write",
        "unmask", "close_input", "terminate", "join", "wait", "returned"}

\* Where the threads, the child and the results are.
StageType ==
  /\ pc \in Pcs
  /\ reader \in {"none", "reading", "terminate", "done"}
  /\ child \in {"none", "running", "zombie", "reaped"}
  /\ doing \in {"think", "read", "write"}
  /\ exit_status \in {"none", "zero", "nonzero", "crashed", "killed"}
  /\ read_status \in {"ok", "error"}
  /\ producer_status \in {"ok", "error"}
  /\ result \in {"none", "not_started", "wait_error", "read_error",
                 "producer_error", "too_large", "completed"}

\* The flags, and the call's parameters.
FlagType ==
  /\ caller \in Callers
  /\ killed \in BOOLEAN
  /\ input_open \in BOOLEAN /\ stdin_open \in BOOLEAN
  /\ stdout_open \in BOOLEAN
  /\ too_large \in BOOLEAN
  /\ sigpipe \in [blocked : BOOLEAN, pending : BOOLEAN]

\* The bytes under way and the bytes captured.
CountType ==
  /\ sent \in Nat
  /\ todo \in 0 .. PieceSize
  /\ in_pipe \in 0 .. PipeSize
  /\ written \in 0 .. OutputBound
  /\ out_pipe \in 0 .. PipeSize
  /\ captured \in 0 .. kMaximumCapturedOutputBytes

\* Every variable has its type; no pipe holds more than its capacity and the
\* captured output never exceeds the limit.
TypeOK == StageType /\ FlagType /\ CountType

\* Two threads may signal the child, and the identifier of a reaped process
\* may belong to somebody else: whoever is about to signal still has a child
\* that was not reaped (process_posix.cc:107-118, 236, 277, 283).
OurChild ==
  reader = "terminate" \/ pc = "terminate" =>
    child \in {"running", "zombie"}

\* The call leaves no process, no thread and no open pipe behind, on any of
\* its paths.
NothingLeftBehind ==
  pc = "returned" =>
    /\ child = "none" \/ child = "reaped"
    /\ reader = "none" \/ reader = "done"
    /\ ~input_open

\* A SIGPIPE caused by the call never reaches the program, and the calling
\* thread gets back the mask and the pending signal it came with.
SigpipeContained ==
  /\ sigpipe.pending => sigpipe.blocked
  /\ pc = "returned" => /\ sigpipe.blocked = caller.blocked
                        /\ sigpipe.pending = caller.pending

\* Success is reported for a child that ended by itself, took part in no
\* failure of ours, got all the input and whose whole output was captured.  A
\* producer's error carries whatever the child wrote, up to the limit.
HonestResult ==
  pc = "returned" =>
    /\ result = "completed" =>
         /\ exit_status \in {"zero", "nonzero", "crashed"} /\ ~killed
         /\ producer_status = "ok" /\ read_status = "ok"
         /\ caller.producer => sent = Pieces * PieceSize
         /\ captured = written
    /\ result = "too_large" => written > kMaximumCapturedOutputBytes
    /\ result = "producer_error" =>
         /\ producer_status = "error"
         /\ captured = Lesser(written, kMaximumCapturedOutputBytes)

\* With a child that keeps reading, writing or exiting while it is not blocked,
\* and so ends some time, the call returns: no two of the child, the caller and
\* the reader wait for one another, however much the child writes.
EventuallyReturns == WF_vars(Child) => <>(pc = "returned")

\* A failed producer or a failed read ends the call whatever the child does:
\* it may hang, or never read its input (process_posix.cc:92-94).
FailureEndsTheCall ==
  producer_status = "error" \/ read_status = "error" ~> pc = "returned"

\* The process as the caller of the runner sees it.  Only on Windows is it
\* suspended before it runs.
process ==
  CASE child \in {"none", "suspended"} -> "none"
    [] child = "running" -> IF killed THEN "doomed" ELSE "running"
    [] OTHER -> IF killed THEN "killed" ELSE "ended"

Call == INSTANCE ProcessCall WITH
  due <- IF caller.producer THEN Pieces * PieceSize ELSE 0,
  fed <- sent, process <- process, answer <- result

\* With its threads, pipes and signals the call is what process.h promises.
ImplementsCall == Call!Spec
-----------------------------------------------------------------------------
(* The inductive invariant, in the parts that ProcessRunProofs proves one  *)
(* after the other.                                                        *)

\* Before there is a reader, and on the paths that never start one.
WithoutReader ==
  \/ pc \in {"start", "capture", "start_reader"}
  \/ result = "not_started"

\* The stages of the call, the life of the child and that of the reader.
LifeInv ==
  /\ result = "none" <=> pc # "returned"
  /\ child = "none" <=> pc = "start" \/ result = "not_started"
  /\ child = "reaped" <=> pc = "returned" /\ result # "not_started"
  /\ reader = "none" <=> WithoutReader
  /\ pc \in {"wait", "returned"} => reader \in {"none", "done"}
  /\ pc = "returned" => ~input_open
  /\ pc = "capture" => ~caller.producer
  /\ pc \in {"start", "capture", "start_reader", "mask", "produce", "write"} =>
       producer_status = "ok"
  /\ pc = "terminate" => producer_status = "error"
  /\ reader = "terminate" => read_status = "error"

\* SIGPIPE is ours between Mask and Unmask, and the caller's otherwise.
SigpipeInv ==
  IF pc \in {"produce", "write", "unmask"}
  THEN sigpipe.blocked /\ (caller.pending => sigpipe.pending)
  ELSE /\ sigpipe.blocked = caller.blocked
       /\ sigpipe.pending = caller.pending

\* What was captured is what was read, up to the limit; a reader that met no
\* error has read everything, and nothing more can come.
CaptureInv ==
  /\ out_pipe <= written
  /\ captured = Lesser(written - out_pipe, kMaximumCapturedOutputBytes)
  /\ too_large <=> written - out_pipe > kMaximumCapturedOutputBytes
  /\ child = "none" => doing = "think"
  /\ child = "running" /\ doing = "write" =>
       stdout_open /\ written < OutputBound
  /\ reader = "done" /\ read_status = "ok" => out_pipe = 0 /\ ~stdout_open

\* The bytes handed over so far end at the end of a sink call.
WholePieces(bytes) == \E n \in 0 .. Pieces : bytes = n * PieceSize

\* A producer succeeds with nothing left to send.
InputInv ==
  /\ WholePieces(sent + todo)
  /\ pc # "write" /\ producer_status = "ok" => todo = 0
  /\ pc \in {"unmask", "close_input", "join", "wait", "returned"}
     /\ caller.producer /\ ~WithoutReader /\ producer_status = "ok" =>
       sent = Pieces * PieceSize

\* The child is killed for a reason that is reported, and ends that way only
\* if it was.
KillInv ==
  /\ killed => read_status = "error" \/ producer_status = "error"
  /\ exit_status = "killed" => killed
  /\ child \in {"zombie", "reaped"} => exit_status # "none"
  /\ result \in {"read_error", "producer_error", "too_large", "completed"} =>
       result = Outcome

\* Stages, signals, output, input and the reasons for a kill are consistent.
IInv ==
  LifeInv /\ SigpipeInv /\ CaptureInv /\ InputInv /\ KillInv
=============================================================================
