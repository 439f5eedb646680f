-------------------------- MODULE WindowsProcess --------------------------
(***************************************************************************)
(* The process runner on Windows (src/src/ffmpeg/process.cc:58-111,        *)
(* 219-423): the pipes, the child and the reading of its output are those  *)
(* of ProcessRun; what differs is the life of the child.  It is created    *)
(* suspended, put into a job object that kills it when the job's last      *)
(* handle is closed, and only then resumed; no failure ends it before the  *)
(* call returns; and the program may be killed at any time.                *)
(*                                                                         *)
(* A captured program inherits the caller's standard input.  It is assumed *)
(* not to read it, as ffprobe and FFmpeg's listings do not.                *)
(***************************************************************************)
EXTENDS ProcessRun

VARIABLE
  job        \* the job object: none, open or closed

windowsVars == <<vars, job>>

Exists == child \in {"suspended", "running"}

WindowsInit == Init /\ ~caller.blocked /\ job = "none"

\* Closing the last handle of the job ends the child.
CloseJob ==
  /\ job' = IF job = "open" THEN "closed" ELSE job
  /\ killed' = (killed \/ (job = "open" /\ Exists))

\* The destructors of the handles, on every way out.
Leave(outcome) ==
  /\ Return(outcome)
  /\ CloseJob
  /\ child' = IF child = "zombie" THEN "reaped" ELSE child
-----------------------------------------------------------------------------
(* Starting the child.                                                     *)

\* Mutant: the child runs before it belongs to the job.
CreateRunning ==
  /\ pc = "start"
  /\ child' = "running"
  /\ Goto("assign")
  /\ UNCHANGED <<producer_status, result, doing, killed, exit_status,
                 stdin_open, stdout_open, inputVars, outputVars, readVars, job>>

CreateSuspended ==
  /\ pc = "start"
  /\ child' = "suspended"
  /\ Goto("assign")
  /\ UNCHANGED <<producer_status, result, doing, killed, exit_status,
                 stdin_open, stdout_open, inputVars, outputVars, readVars, job>>

AssignToJob ==
  /\ pc = "assign"
  /\ job' = "open"
  /\ Goto("resume")
  /\ UNCHANGED <<producer_status, result, childVars, inputVars, outputVars,
                 readVars>>

\* Not assigned, or not resumed: the child is terminated.
Abandon ==
  /\ pc \in {"assign", "resume"}
  /\ Return("not_started")
  /\ killed' = TRUE
  /\ job' = IF job = "open" THEN "closed" ELSE job
  /\ UNCHANGED <<producer_status, child, doing, exit_status, stdin_open,
                 stdout_open, sent, todo, in_pipe, outputVars, readVars>>

\* Without a producer the output is read at once, on this thread.
Resume ==
  /\ pc = "resume"
  /\ child' = "running"
  /\ reader' = IF caller.producer THEN reader ELSE "reading"
  /\ Goto(IF caller.producer THEN "start_reader" ELSE "drain")
  /\ UNCHANGED <<producer_status, result, doing, killed, exit_status,
                 stdin_open, stdout_open, inputVars, outputVars, captured,
                 too_large, read_status, job>>

SuspendedDies ==
  /\ child = "suspended" /\ killed
  /\ child' = "none"
  /\ UNCHANGED <<pc, producer_status, result, doing, killed, exit_status,
                 stdin_open, stdout_open, inputVars, outputVars, readVars, job>>
-----------------------------------------------------------------------------
(* Reading.                                                                *)

\* The reader thread stops; the child and the calling thread go on.
ReadStops ==
  /\ reader = "reading" /\ caller.producer
  /\ read_status' = "error" /\ reader' = "done"
  /\ UNCHANGED <<pc, producer_status, result, childVars, inputVars, outputVars,
                 captured, too_large, job>>

\* Without a producer the error is returned at once.
ReadFailsInline ==
  /\ pc = "drain" /\ reader = "reading"
  /\ read_status' = "error" /\ reader' = "done"
  /\ Leave("read_error")
  /\ UNCHANGED <<producer_status, doing, exit_status, stdin_open, stdout_open,
                 sent, todo, in_pipe, outputVars, captured, too_large>>

Drained ==
  /\ pc = "drain" /\ reader = "done"
  /\ Goto("wait_child")
  /\ UNCHANGED <<producer_status, result, childVars, inputVars, outputVars,
                 readVars, job>>

WindowsReader == (ReadOutput \/ EndOfOutput) /\ UNCHANGED job
-----------------------------------------------------------------------------
(* Feeding the child and waiting for it.                                   *)

StartReaderThread ==
  /\ pc = "start_reader"
  /\ reader' = "reading"
  /\ Goto("produce")
  /\ UNCHANGED <<producer_status, result, childVars, inputVars, outputVars,
                 captured, too_large, read_status, job>>

\* The producer is done, has failed, or can write no more.
StopProducing(status) ==
  /\ \/ pc = "produce" /\ (status = "ok" => sent = Pieces * PieceSize)
     \/ pc = "write" /\ ~stdin_open /\ status = "error"
  /\ producer_status' = status
  /\ Goto("close_input")
  /\ UNCHANGED <<result, childVars, inputVars, outputVars, readVars, job>>

\* Mutant: the child of a failed producer is left its input.
CloseInputOfSuccess ==
  /\ pc = "close_input"
  /\ input_open' = (producer_status = "error")
  /\ Goto("wait_child")
  /\ UNCHANGED <<producer_status, result, childVars, sent, todo, in_pipe,
                 outputVars, readVars, job>>

\* The end of its input is all the child of a failed producer is told.
CloseChildInput ==
  /\ pc = "close_input"
  /\ input_open' = FALSE
  /\ Goto("wait_child")
  /\ UNCHANGED <<producer_status, result, childVars, sent, todo, in_pipe,
                 outputVars, readVars, job>>

\* A child that wrote too much hides a failure of the producer.
WindowsOutcome ==
  IF read_status # "ok" THEN "read_error"
  ELSE IF too_large THEN "too_large"
  ELSE IF producer_status # "ok" THEN "producer_error" ELSE "completed"

\* Mutant: the wait has a limit, and its result is not looked at.
WaitAWhile ==
  /\ pc = "wait_child"
  /\ Goto("join")
  /\ UNCHANGED <<producer_status, result, childVars, inputVars, outputVars,
                 readVars, job>>

\* WaitForSingleObject, without a limit.
WaitForChild ==
  /\ pc = "wait_child" /\ child = "zombie"
  /\ Goto("join")
  /\ UNCHANGED <<producer_status, result, childVars, inputVars, outputVars,
                 readVars, job>>

WaitFails ==
  /\ pc = "wait_child"
  /\ Goto("join_failed")
  /\ UNCHANGED <<producer_status, result, childVars, inputVars, outputVars,
                 readVars, job>>

\* An exit code that can not be read is an error of the wait.  With a producer
\* it is only asked for when the output has been read and kept.
MayAskForExitCode ==
  caller.producer => WindowsOutcome \notin {"read_error", "too_large"}

\* A wait that failed is reported once the reader is done.
JoinAndLeave ==
  /\ pc \in {"join", "join_failed"} /\ reader = "done"
  /\ \/ /\ pc = "join_failed" \/ MayAskForExitCode
        /\ Leave("wait_error")
     \/ pc = "join" /\ Leave(WindowsOutcome)
  /\ UNCHANGED <<producer_status, doing, exit_status, stdin_open, stdout_open,
                 sent, todo, in_pipe, outputVars, readVars>>

WindowsCaller ==
  \/ (StartFails \/ SinkCall \/ WriteInput) /\ UNCHANGED job
  \/ CreateSuspended \/ AssignToJob \/ Abandon \/ Resume
  \/ Drained \/ StartReaderThread
  \/ \E status \in {"ok", "error"} : StopProducing(status)
  \/ CloseChildInput \/ WaitForChild \/ JoinAndLeave

\* What only a failing system call does.
SystemFails == ReadStops \/ ReadFailsInline \/ WaitFails
-----------------------------------------------------------------------------
\* The program is killed: both threads are gone and the kernel closes what was
\* open.
ProgramKilled ==
  /\ pc \notin {"returned", "gone"}
  /\ Goto("gone")
  /\ reader' = IF reader = "none" THEN "none" ELSE "done"
  /\ input_open' = FALSE
  /\ CloseJob
  /\ UNCHANGED <<producer_status, result, child, doing, exit_status,
                 stdin_open, stdout_open, sent, todo, in_pipe, outputVars,
                 captured, too_large, read_status>>

WindowsChild == Child /\ (doing' = "read" => caller.producer) /\ UNCHANGED job

Dies == (ChildDies /\ UNCHANGED job) \/ SuspendedDies

Gone == pc \in {"returned", "gone"} /\ UNCHANGED windowsVars

OfTheCall(step) == step /\ UNCHANGED <<caller, sigpipe>>

WindowsNext ==
  \/ OfTheCall(WindowsChild) \/ OfTheCall(Dies) \/ OfTheCall(ProgramKilled)
  \/ OfTheCall(WindowsReader) \/ OfTheCall(WindowsCaller)
  \/ OfTheCall(SystemFails)
  \/ Gone

WindowsSpec == WindowsInit /\ [][WindowsNext]_windowsVars

\* Both threads run, the producer gets on, and what was killed dies; no system
\* call has to fail.
WindowsFairSpec ==
  /\ WindowsSpec
  /\ WF_windowsVars(OfTheCall(WindowsReader))
  /\ WF_windowsVars(OfTheCall(WindowsCaller))
  /\ WF_windowsVars(OfTheCall(Dies))
-----------------------------------------------------------------------------
(* Properties.                                                             *)

\* A child that has begun to run ends with the program or with the call,
\* however either ends (README.md:231-232): it is in an open job, or it has
\* been killed (process.cc:83-109).
JobContains == child = "running" => killed \/ job = "open"

\* The input of a child whose producer has failed is closed, and its output
\* read: if the child goes on whenever it is not blocked, and no read fails,
\* the call returns (process.cc:390-396).  A child that hangs is not ended.
WindowsReturns ==
  WF_windowsVars(OfTheCall(WindowsChild)) =>
    <>(pc \in {"returned", "gone"} \/ read_status = "error")

\* The inductive invariant behind JobContains: from the assignment on the
\* program holds the job, and before it the child is suspended.
JobInv ==
  /\ JobContains
  /\ pc \in {"start", "assign", "returned", "gone"} \/ job = "open"
  /\ pc \in {"start", "assign"} => child # "running"
=============================================================================
