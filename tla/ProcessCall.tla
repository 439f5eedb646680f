---------------------------- MODULE ProcessCall ----------------------------
(***************************************************************************)
(* What a call of the process runner (src/src/ffmpeg/process.h) promises   *)
(* on every platform, with no pipes, threads or signals in it: there is    *)
(* one answer; success is reported of a process that came to its end by    *)
(* itself and had all of the input; and no answer leaves a process behind  *)
(* that nobody has ended.                                                  *)
(***************************************************************************)
EXTENDS Naturals

VARIABLES
  due,       \* bytes the producer has for the process
  fed,       \* bytes handed over
  process,   \* none, running, ended by itself, doomed or, after that, killed
  answer     \* "none" until the call returns

callVars == <<due, fed, process, answer>>

Init ==
  /\ due \in Nat
  /\ fed = 0
  /\ process = "none"
  /\ answer = "none"

Launch ==
  /\ process = "none" /\ answer = "none"
  /\ process' = "running"
  /\ UNCHANGED <<due, fed, answer>>

Feed ==
  /\ process \in {"running", "doomed"} /\ answer = "none"
  /\ fed' \in fed + 1 .. due
  /\ UNCHANGED <<due, process, answer>>

End ==
  /\ \/ process = "running" /\ process' = "ended"
     \/ process = "doomed" /\ process' = "killed"
  /\ UNCHANGED <<due, fed, answer>>

\* Something went wrong, or the program comes to its end.
Doom ==
  /\ process = "running"
  /\ process' = "doomed"
  /\ UNCHANGED <<due, fed, answer>>

Refuse ==
  /\ process = "none" /\ answer = "none"
  /\ answer' = "not_started"
  /\ UNCHANGED <<due, fed, process>>

Succeed ==
  /\ process = "ended" /\ fed = due /\ answer = "none"
  /\ answer' = "completed"
  /\ UNCHANGED <<due, fed, process>>

\* A process that still runs when its call fails is ended with it.
Fail ==
  /\ process # "none" /\ answer = "none"
  /\ answer' \in {"wait_error", "read_error", "producer_error", "too_large"}
  /\ process' = IF process = "running" THEN "doomed" ELSE process
  /\ UNCHANGED <<due, fed>>

Next == Launch \/ Feed \/ End \/ Doom \/ Refuse \/ Succeed \/ Fail

Spec == Init /\ [][Next]_callVars
=============================================================================
