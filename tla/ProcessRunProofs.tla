-------------------------- MODULE ProcessRunProofs --------------------------
(***************************************************************************)
(* What the process runner guarantees for every number and size of sink    *)
(* calls, any pipe capacity and any limit of the captured output.  The     *)
(* parts of IInv are proved one after the other, each from the ones before *)
(* it; a step is split by who takes it: the child, the kernel killing it,  *)
(* the reader or the caller.                                               *)
(***************************************************************************)
EXTENDS WindowsProcess, TLAPS

\* The call, the child and the reader go through their stages together.
LEMMA LifeStep == TypeOK /\ LifeInv /\ [Next]_vars => LifeInv'
<1> SUFFICES ASSUME TypeOK, LifeInv, [Next]_vars
             PROVE  LifeInv'
  OBVIOUS
<1> USE ProcessAssumption DEF TypeOK, StageType, FlagType, LifeInv,
     WithoutReader
<1>1. CASE Child
  BY <1>1 DEF Child, Begin, ChildReads, ChildWrites, ChildCloses,
              ChildExits, Ends, inputVars, readVars, outputVars, childVars
<1>2. CASE ChildDies
  BY <1>2 DEF ChildDies, Ends, inputVars, readVars, outputVars, childVars
<1>3. CASE Reader
  BY <1>3 DEF Reader, ReaderGoesOn, ReadOutput, EndOfOutput, ReadFails,
              ReaderTerminates, Kill, inputVars, readVars, outputVars,
              childVars
<1>4. CASE Caller
  BY <1>4 DEF Caller, StartFails, Start, Capture, StartReader, Mask,
              MaskFails, SinkCall, ProducerReturns, WriteInput, BrokenPipe,
              Unmask, CloseInput, Terminate, Join, Wait, Outcome, Kill,
              Return, Goto, inputVars, readVars, outputVars, childVars
<1>5. CASE UNCHANGED vars
  BY <1>5 DEF vars, inputVars, readVars, outputVars, childVars
<1> QED
  BY <1>1, <1>2, <1>3, <1>4, <1>5 DEF Next, Returned

\* SIGPIPE is ours between Mask and Unmask only.
LEMMA SigpipeStep == TypeOK /\ SigpipeInv /\ [Next]_vars => SigpipeInv'
<1> SUFFICES ASSUME TypeOK, SigpipeInv, [Next]_vars
             PROVE  SigpipeInv'
  OBVIOUS
<1> USE ProcessAssumption DEF TypeOK, StageType, FlagType, SigpipeInv, Callers
<1>1. CASE Child
  BY <1>1 DEF Child, Begin, ChildReads, ChildWrites, ChildCloses,
              ChildExits, Ends, inputVars, readVars, outputVars, childVars
<1>2. CASE ChildDies
  BY <1>2 DEF ChildDies, Ends, inputVars, readVars, outputVars, childVars
<1>3. CASE Reader
  BY <1>3 DEF Reader, ReaderGoesOn, ReadOutput, EndOfOutput, ReadFails,
              ReaderTerminates, Kill, inputVars, readVars, outputVars,
              childVars
<1>4. CASE Caller
  BY <1>4 DEF Caller, StartFails, Start, Capture, StartReader, Mask,
              MaskFails, SinkCall, ProducerReturns, WriteInput, BrokenPipe,
              Unmask, CloseInput, Terminate, Join, Wait, Outcome, Kill,
              Return, Goto, inputVars, readVars, outputVars, childVars
<1>5. CASE UNCHANGED vars
  BY <1>5 DEF vars, inputVars, readVars, outputVars, childVars
<1> QED
  BY <1>1, <1>2, <1>3, <1>4, <1>5 DEF Next, Returned

\* Every read adds to the captured output what the limit leaves room for.
LEMMA CaptureStep ==
  TypeOK /\ LifeInv /\ CaptureInv /\ [Next]_vars => CaptureInv'
<1> SUFFICES ASSUME TypeOK, LifeInv, CaptureInv, [Next]_vars
             PROVE  CaptureInv'
  OBVIOUS
<1> USE ProcessAssumption DEF TypeOK, StageType, FlagType, CountType, LifeInv,
     WithoutReader, CaptureInv, Lesser
<1>1. CASE Child
  BY <1>1 DEF Child, Begin, ChildReads, ChildWrites, ChildCloses,
              ChildExits, Ends, inputVars, readVars, outputVars, childVars
<1>2. CASE ChildDies
  BY <1>2 DEF ChildDies, Ends, inputVars, readVars, outputVars, childVars
<1>3. CASE Reader
  <2>1. CASE ReadOutput
    <3>1. PICK count \in 1 .. out_pipe :
            LET to_copy == Lesser(count,
                                  kMaximumCapturedOutputBytes - captured)
            IN  /\ out_pipe' = out_pipe - count
                /\ captured' = captured + to_copy
                /\ too_large' = (too_large \/ to_copy < count)
      BY <2>1 DEF ReadOutput
    <3>2. captured' = Lesser(written - out_pipe',
                             kMaximumCapturedOutputBytes)
      BY <3>1
    <3>3. written - out_pipe' > kMaximumCapturedOutputBytes
            <=> \/ written - out_pipe > kMaximumCapturedOutputBytes
                \/ Lesser(count, kMaximumCapturedOutputBytes - captured)
                     < count
      BY <3>1
    <3>4. too_large' <=> written - out_pipe' > kMaximumCapturedOutputBytes
      BY <3>1, <3>3, Zenon
    <3>5. UNCHANGED <<child, doing, stdout_open, written, reader>>
          /\ out_pipe' \in Int /\ out_pipe' <= out_pipe /\ reader = "reading"
      BY <2>1, <3>1 DEF ReadOutput, childVars
    <3>6. out_pipe' <= written'
      BY <3>5
    <3> QED
      BY <3>2, <3>4, <3>5, <3>6
  <2>2. CASE EndOfOutput \/ ReadFails \/ ReaderTerminates
    BY <2>2 DEF EndOfOutput, ReadFails, ReaderTerminates, Kill, inputVars,
                outputVars, childVars
  <2> QED
    BY <1>3, <2>1, <2>2 DEF Reader, ReaderGoesOn
<1>4. CASE Caller
  BY <1>4 DEF Caller, StartFails, Start, Capture, StartReader, Mask,
              MaskFails, SinkCall, ProducerReturns, WriteInput, BrokenPipe,
              Unmask, CloseInput, Terminate, Join, Wait, Outcome, Kill,
              Return, Goto, inputVars, readVars, outputVars, childVars
<1>5. CASE UNCHANGED vars
  BY <1>5 DEF vars, inputVars, readVars, outputVars, childVars
<1> QED
  BY <1>1, <1>2, <1>3, <1>4, <1>5 DEF Next, Returned

\* A producer that has handed over whole pieces, but not all of them, can hand
\* over one more.
LEMMA NextPiece ==
  ASSUME NEW n \in 0 .. Pieces, n * PieceSize < Pieces * PieceSize
  PROVE  /\ n + 1 \in 0 .. Pieces
         /\ (n + 1) * PieceSize = n * PieceSize + PieceSize
<1>1. n # Pieces
  BY ProcessAssumption
<1> QED
  BY <1>1, ProcessAssumption

\* Every write belongs to a piece; a producer that succeeds has written all.
LEMMA InputStep == TypeOK /\ LifeInv /\ InputInv /\ [Next]_vars => InputInv'
<1> SUFFICES ASSUME TypeOK, LifeInv, InputInv, [Next]_vars
             PROVE  InputInv'
  OBVIOUS
<1> USE ProcessAssumption DEF TypeOK, StageType, FlagType, CountType, LifeInv,
     InputInv, WithoutReader, Lesser
<1>1. CASE Child
  BY <1>1 DEF Child, Begin, ChildReads, ChildWrites, ChildCloses,
              ChildExits, Ends, inputVars, readVars, outputVars, childVars
<1>2. CASE ChildDies
  BY <1>2 DEF ChildDies, Ends, inputVars, readVars, outputVars, childVars
<1>3. CASE Reader
  BY <1>3 DEF Reader, ReaderGoesOn, ReadOutput, EndOfOutput, ReadFails,
              ReaderTerminates, Kill, inputVars, readVars, outputVars,
              childVars
<1>4. CASE Caller
  <2>1. CASE StartFails
    BY <2>1 DEF StartFails, Return, Goto,
           inputVars, readVars, outputVars, childVars
  <2>2. CASE Start
    BY <2>2 DEF Start, Goto,
           inputVars, readVars, outputVars, childVars
  <2>3. CASE Capture
    BY <2>3 DEF Capture, Goto,
           inputVars, readVars, outputVars, childVars
  <2>4. CASE StartReader
    BY <2>4 DEF StartReader, Goto,
           inputVars, readVars, outputVars, childVars
  <2>5. CASE Mask
    BY <2>5 DEF Mask, Goto,
           inputVars, readVars, outputVars, childVars
  <2>6. CASE MaskFails
    BY <2>6 DEF MaskFails, Goto,
           inputVars, readVars, outputVars, childVars
  <2>7. CASE SinkCall
    <3>1. todo = 0 /\ todo' = PieceSize /\ sent' = sent
      BY <2>7 DEF SinkCall
    <3>2. PICK n \in 0 .. Pieces : sent + todo = n * PieceSize
      BY DEF WholePieces
    <3>3. n * PieceSize < Pieces * PieceSize
      BY <2>7, <3>1, <3>2 DEF SinkCall
    <3>4. sent' + todo' = (n + 1) * PieceSize
      BY <3>1, <3>2, <3>3, NextPiece
    <3>5. WholePieces(sent + todo)'
      BY <3>3, <3>4, NextPiece DEF WholePieces
    <3> QED
      BY <2>7, <3>5 DEF SinkCall, Goto, childVars, readVars, outputVars
  <2>8. ASSUME NEW status \in {"ok", "error"}, ProducerReturns(status)
        PROVE  InputInv'
    BY <2>8 DEF ProducerReturns, Goto,
           inputVars, readVars, outputVars, childVars
  <2>9. CASE WriteInput
    BY <2>9 DEF WriteInput, Goto,
           inputVars, readVars, outputVars, childVars
  <2>10. CASE BrokenPipe
    BY <2>10 DEF BrokenPipe, Goto,
           inputVars, readVars, outputVars, childVars
  <2>11. CASE Unmask
    BY <2>11 DEF Unmask, Goto,
           inputVars, readVars, outputVars, childVars
  <2>12. CASE CloseInput
    BY <2>12 DEF CloseInput, Goto,
           inputVars, readVars, outputVars, childVars
  <2>13. CASE Terminate
    BY <2>13 DEF Terminate, Kill, Goto,
           inputVars, readVars, outputVars, childVars
  <2>14. CASE Join
    BY <2>14 DEF Join, Goto,
           inputVars, readVars, outputVars, childVars
  <2>15. CASE Wait(Outcome)
    BY <2>15 DEF Wait, Return, Goto, Outcome,
           inputVars, readVars, outputVars, childVars
  <2>16. CASE Wait("wait_error")
    BY <2>16 DEF Wait, Return, Goto, Outcome,
           inputVars, readVars, outputVars, childVars
  <2> QED
    BY <1>4, <2>1, <2>2, <2>3, <2>4, <2>5, <2>6, <2>7, <2>8, <2>9, <2>10,
         <2>11, <2>12, <2>13, <2>14, <2>15, <2>16
    DEF Caller
<1>5. CASE UNCHANGED vars
  BY <1>5 DEF vars, inputVars, readVars, outputVars, childVars
<1> QED
  BY <1>1, <1>2, <1>3, <1>4, <1>5 DEF Next, Returned

\* Whoever kills the child has noted the reason first.
LEMMA KillStep == TypeOK /\ LifeInv /\ KillInv /\ [Next]_vars => KillInv'
<1> SUFFICES ASSUME TypeOK, LifeInv, KillInv, [Next]_vars
             PROVE  KillInv'
  OBVIOUS
<1> USE ProcessAssumption DEF TypeOK, StageType, FlagType, LifeInv,
     WithoutReader, KillInv, Outcome
<1>1. CASE Child
  BY <1>1 DEF Child, Begin, ChildReads, ChildWrites, ChildCloses,
              ChildExits, Ends, inputVars, readVars, outputVars, childVars
<1>2. CASE ChildDies
  BY <1>2 DEF ChildDies, Ends, inputVars, readVars, outputVars, childVars
<1>3. CASE Reader
  BY <1>3 DEF Reader, ReaderGoesOn, ReadOutput, EndOfOutput, ReadFails,
              ReaderTerminates, Kill, inputVars, readVars, outputVars,
              childVars
<1>4. CASE Caller
  BY <1>4 DEF Caller, StartFails, Start, Capture, StartReader, Mask,
              MaskFails, SinkCall, ProducerReturns, WriteInput, BrokenPipe,
              Unmask, CloseInput, Terminate, Join, Wait, Outcome, Kill,
              Return, Goto, inputVars, readVars, outputVars, childVars
<1>5. CASE UNCHANGED vars
  BY <1>5 DEF vars, inputVars, readVars, outputVars, childVars
<1> QED
  BY <1>1, <1>2, <1>3, <1>4, <1>5 DEF Next, Returned

\* Program counters, stages and results stay in their sets.
LEMMA StageTypeStep == StageType /\ [Next]_vars => StageType'
<1> SUFFICES ASSUME StageType, [Next]_vars
             PROVE  StageType'
  OBVIOUS
<1> USE ProcessAssumption DEF StageType, Pcs
<1>1. CASE Child
  BY <1>1 DEF Child, Begin, ChildReads, ChildWrites, ChildCloses,
              ChildExits, Ends, inputVars, readVars, outputVars, childVars
<1>2. CASE ChildDies
  BY <1>2 DEF ChildDies, Ends, inputVars, readVars, outputVars, childVars
<1>3. CASE Reader
  BY <1>3 DEF Reader, ReaderGoesOn, ReadOutput, EndOfOutput, ReadFails,
              ReaderTerminates, Kill, inputVars, readVars, outputVars,
              childVars
<1>4. CASE Caller
  BY <1>4 DEF Caller, StartFails, Start, Capture, StartReader, Mask,
              MaskFails, SinkCall, ProducerReturns, WriteInput, BrokenPipe,
              Unmask, CloseInput, Terminate, Join, Wait, Outcome, Kill,
              Return, Goto, inputVars, readVars, outputVars, childVars
<1>5. CASE UNCHANGED vars
  BY <1>5 DEF vars, inputVars, readVars, outputVars, childVars
<1> QED
  BY <1>1, <1>2, <1>3, <1>4, <1>5 DEF Next, Returned

\* Flags stay Boolean.
LEMMA FlagTypeStep == FlagType /\ [Next]_vars => FlagType'
<1> SUFFICES ASSUME FlagType, [Next]_vars
             PROVE  FlagType'
  OBVIOUS
<1> USE ProcessAssumption DEF FlagType
<1>1. CASE Child
  BY <1>1 DEF Child, Begin, ChildReads, ChildWrites, ChildCloses,
              ChildExits, Ends, inputVars, readVars, outputVars, childVars
<1>2. CASE ChildDies
  BY <1>2 DEF ChildDies, Ends, inputVars, readVars, outputVars, childVars
<1>3. CASE Reader
  BY <1>3 DEF Reader, ReaderGoesOn, ReadOutput, EndOfOutput, ReadFails,
              ReaderTerminates, Kill, inputVars, readVars, outputVars,
              childVars
<1>4. CASE Caller
  <2>1. CASE StartFails
    BY <2>1 DEF StartFails, Return, Goto,
           inputVars, readVars, outputVars, childVars
  <2>2. CASE Start
    BY <2>2 DEF Start, Goto,
           inputVars, readVars, outputVars, childVars
  <2>3. CASE Capture
    BY <2>3 DEF Capture, Goto,
           inputVars, readVars, outputVars, childVars
  <2>4. CASE StartReader
    BY <2>4 DEF StartReader, Goto,
           inputVars, readVars, outputVars, childVars
  <2>5. CASE Mask
    BY <2>5 DEF Mask, Goto,
           inputVars, readVars, outputVars, childVars
  <2>6. CASE MaskFails
    BY <2>6 DEF MaskFails, Goto,
           inputVars, readVars, outputVars, childVars
  <2>7. CASE SinkCall
    BY <2>7 DEF SinkCall, Goto,
           inputVars, readVars, outputVars, childVars
  <2>8. ASSUME NEW status \in {"ok", "error"}, ProducerReturns(status)
        PROVE  FlagType'
    BY <2>8 DEF ProducerReturns, Goto,
           inputVars, readVars, outputVars, childVars
  <2>9. CASE WriteInput
    BY <2>9 DEF WriteInput, Goto,
           inputVars, readVars, outputVars, childVars
  <2>10. CASE BrokenPipe
    BY <2>10 DEF BrokenPipe, Goto,
           inputVars, readVars, outputVars, childVars
  <2>11. CASE Unmask
    <3>1. caller.blocked \in BOOLEAN /\ caller.pending \in BOOLEAN
      BY DEF Callers
    <3>2. (sigpipe.pending /\ caller.pending) \in BOOLEAN
      BY <3>1
    <3>3. sigpipe' \in [blocked : BOOLEAN, pending : BOOLEAN]
      BY <2>11, <3>1, <3>2 DEF Unmask
    <3> QED
      BY <2>11, <3>3 DEF Unmask, Goto, inputVars, readVars, outputVars,
                         childVars
  <2>12. CASE CloseInput
    BY <2>12 DEF CloseInput, Goto,
           inputVars, readVars, outputVars, childVars
  <2>13. CASE Terminate
    BY <2>13 DEF Terminate, Kill, Goto,
           inputVars, readVars, outputVars, childVars
  <2>14. CASE Join
    BY <2>14 DEF Join, Goto,
           inputVars, readVars, outputVars, childVars
  <2>15. CASE Wait(Outcome)
    BY <2>15 DEF Wait, Return, Goto, Outcome,
           inputVars, readVars, outputVars, childVars
  <2>16. CASE Wait("wait_error")
    BY <2>16 DEF Wait, Return, Goto, Outcome,
           inputVars, readVars, outputVars, childVars
  <2> QED
    BY <1>4, <2>1, <2>2, <2>3, <2>4, <2>5, <2>6, <2>7, <2>8, <2>9, <2>10,
         <2>11, <2>12, <2>13, <2>14, <2>15, <2>16
    DEF Caller
<1>5. CASE UNCHANGED vars
  BY <1>5 DEF vars, inputVars, readVars, outputVars, childVars
<1> QED
  BY <1>1, <1>2, <1>3, <1>4, <1>5 DEF Next, Returned

\* Counters stay within the pipes and the limit.
LEMMA CountTypeStep == TypeOK /\ CaptureInv /\ [Next]_vars => CountType'
<1> SUFFICES ASSUME TypeOK, CaptureInv, [Next]_vars
             PROVE  CountType'
  OBVIOUS
<1> USE ProcessAssumption DEF TypeOK, StageType, FlagType, CountType,
     CaptureInv, Lesser
<1>1. CASE Child
  BY <1>1 DEF Child, Begin, ChildReads, ChildWrites, ChildCloses,
              ChildExits, Ends, inputVars, readVars, outputVars, childVars
<1>2. CASE ChildDies
  BY <1>2 DEF ChildDies, Ends, inputVars, readVars, outputVars, childVars
<1>3. CASE Reader
  BY <1>3 DEF Reader, ReaderGoesOn, ReadOutput, EndOfOutput, ReadFails,
              ReaderTerminates, Kill, inputVars, readVars, outputVars,
              childVars
<1>4. CASE Caller
  BY <1>4 DEF Caller, StartFails, Start, Capture, StartReader, Mask,
              MaskFails, SinkCall, ProducerReturns, WriteInput, BrokenPipe,
              Unmask, CloseInput, Terminate, Join, Wait, Outcome, Kill,
              Return, Goto, inputVars, readVars, outputVars, childVars
<1>5. CASE UNCHANGED vars
  BY <1>5 DEF vars, inputVars, readVars, outputVars, childVars
<1> QED
  BY <1>1, <1>2, <1>3, <1>4, <1>5 DEF Next, Returned

-----------------------------------------------------------------------------
\* Initially nothing has been started, sent, read or captured.
LEMMA InitInv == Init => TypeOK /\ IInv
<1> SUFFICES ASSUME Init PROVE TypeOK /\ IInv
  OBVIOUS
<1> USE ProcessAssumption DEF Init
<1>1. StageType
  BY DEF StageType, Pcs
<1>2. caller.blocked \in BOOLEAN /\ caller.pending \in BOOLEAN
  BY DEF Callers
<1>3. FlagType
  BY <1>2 DEF FlagType
<1>4. CountType
  BY DEF CountType
<1>5. LifeInv
  BY DEF LifeInv, WithoutReader
<1>6. SigpipeInv
  BY DEF SigpipeInv
<1>7. CaptureInv
  BY DEF CaptureInv, Lesser
<1>8. InputInv
  <2>1. 0 \in 0 .. Pieces /\ sent + todo = 0 * PieceSize
    OBVIOUS
  <2> QED
    BY <2>1 DEF InputInv, WholePieces
<1>9. KillInv
  BY DEF KillInv
<1> QED
  BY <1>1, <1>3, <1>4, <1>5, <1>6, <1>7, <1>8, <1>9 DEF TypeOK, IInv

\* Every state RunProcess can be in satisfies the invariant and has its type:
\* in particular no pipe overflows and the captured output stays within the
\* limit.
THEOREM Invariance == Spec => [](TypeOK /\ IInv)
<1>1. Init => TypeOK /\ IInv
  BY InitInv
<1>2. TypeOK /\ IInv /\ [Next]_vars => (TypeOK /\ IInv)'
  BY LifeStep, SigpipeStep, CaptureStep, InputStep, KillStep, StageTypeStep,
     FlagTypeStep, CountTypeStep DEF TypeOK, IInv
<1> QED
  BY <1>1, <1>2, PTL DEF Spec

\* TypeOK for every size and number of the sink calls, any pipe capacity and
\* any limit of the captured output.
THEOREM TypeCorrect == Spec => []TypeOK
  BY Invariance, PTL

\* Neither the reader nor the caller ever signals a process identifier that
\* waitpid has given back.
THEOREM SignalsOurChild == Spec => []OurChild
<1>1. TypeOK /\ IInv => OurChild
  BY DEF TypeOK, StageType, IInv, LifeInv, WithoutReader, OurChild
<1> QED
  BY <1>1, Invariance, PTL

\* On every path out of RunProcess the child, if any, has been reaped, the
\* reader has ended and our end of the child's input is closed.
THEOREM CleansUp == Spec => []NothingLeftBehind
<1>1. TypeOK /\ IInv => NothingLeftBehind
  BY DEF TypeOK, StageType, IInv, LifeInv, WithoutReader, NothingLeftBehind
<1> QED
  BY <1>1, Invariance, PTL

\* SuppressSigpipe gives the calling thread back what it came with, and keeps
\* the signal of a broken pipe blocked until it has been consumed.
THEOREM ContainsSigpipe == Spec => []SigpipeContained
<1>1. TypeOK /\ IInv => SigpipeContained
  <2> SUFFICES ASSUME TypeOK, IInv PROVE SigpipeContained
    OBVIOUS
  <2>1. caller.pending => caller.blocked
    BY DEF TypeOK, FlagType, Callers
  <2> QED
    BY <2>1 DEF IInv, SigpipeInv, SigpipeContained
<1> QED
  BY <1>1, Invariance, PTL

\* A completed result is the child's own, with all of the input written and
\* all of the output captured.
THEOREM ReportsHonestly == Spec => []HonestResult
<1>1. TypeOK /\ IInv => HonestResult
  <2> SUFFICES ASSUME TypeOK, IInv, pc = "returned" PROVE HonestResult
    BY DEF HonestResult
  <2> USE DEF TypeOK, StageType, IInv, LifeInv, WithoutReader, CaptureInv,
              KillInv, InputInv, Outcome
  <2>1. CASE result = "completed"
    <3>1. /\ producer_status = "ok" /\ read_status = "ok" /\ ~too_large
          /\ ~killed /\ child = "reaped"
      BY <2>1
    <3>2. exit_status \in {"zero", "nonzero", "crashed"}
      BY <3>1
    <3>3. caller.producer => sent = Pieces * PieceSize
      BY <2>1, <3>1
    <3>4. captured = written
      BY <2>1, <3>1, ProcessAssumption DEF CountType, Lesser
    <3> QED
      BY <2>1, <3>1, <3>2, <3>3, <3>4 DEF HonestResult
  <2>2. CASE result = "too_large"
    <3>1. too_large
      BY <2>2
    <3> QED
      BY <2>2, <3>1, ProcessAssumption DEF HonestResult, CountType
  <2>3. CASE result = "producer_error"
    <3>1. producer_status = "error" /\ read_status = "ok" /\ reader = "done"
      BY <2>3
    <3>2. out_pipe = 0
      BY <3>1
    <3> QED
      BY <2>3, <3>1, <3>2, ProcessAssumption DEF HonestResult, CountType
  <2> QED
    BY <2>1, <2>2, <2>3 DEF HonestResult
<1> QED
  BY <1>1, Invariance, PTL
-----------------------------------------------------------------------------
(* The call as process.h describes it.                                     *)

\* A child is killed after it was started and reads nothing when it is dead;
\* only a producer feeds one.
RoleInv ==
  /\ child = "none" => ~killed
  /\ child \in {"zombie", "reaped"} => ~stdin_open
  /\ pc \in {"start_reader", "mask", "produce", "write"} => caller.producer
  /\ ~caller.producer => sent = 0

\* The kernel closes the child's ends, and Start tells the two calls apart.
LEMMA RoleStep == TypeOK /\ LifeInv /\ RoleInv /\ [Next]_vars => RoleInv'
<1> SUFFICES ASSUME TypeOK, LifeInv, RoleInv, [Next]_vars
             PROVE  RoleInv'
  OBVIOUS
<1> USE DEF TypeOK, StageType, LifeInv, RoleInv
<1>1. CASE Child \/ ChildDies
  BY <1>1 DEF Child, ChildDies, Begin, ChildReads, ChildWrites, ChildCloses,
              ChildExits, Ends, inputVars, readVars, outputVars, childVars
<1>2. CASE Reader
  BY <1>2 DEF Reader, ReaderGoesOn, ReadOutput, EndOfOutput, ReadFails,
              ReaderTerminates, Kill, inputVars, readVars, outputVars,
              childVars,
              WithoutReader, FlagType
<1>3. CASE Caller
  BY <1>3 DEF Caller, StartFails, Start, Capture, StartReader, Mask,
              MaskFails, SinkCall, ProducerReturns, WriteInput, BrokenPipe,
              Unmask, CloseInput, Terminate, Join, Wait, Kill, Return, Goto,
              inputVars, readVars, outputVars, childVars
<1>4. CASE Returned \/ UNCHANGED vars
  BY <1>4 DEF Returned, vars, inputVars, childVars
<1> QED
  BY <1>1, <1>2, <1>3, <1>4 DEF Next

\* A call begins with nothing handed over and no process.
LEMMA CallInit == Init => Call!Init
<1>1. Pieces * PieceSize \in Nat
  BY ProcessAssumption
<1> QED
  BY <1>1 DEF Init, Call!Init, process

\* What the child, the kernel and the reader do to the process is that it
\* ends or is doomed, and the caller sees nothing else of it.
LEMMA OthersStep ==
  TypeOK /\ LifeInv /\ (Child \/ ChildDies \/ Reader)
    => [Call!Next]_(Call!callVars)
<1> SUFFICES ASSUME TypeOK, LifeInv
             PROVE  Child \/ ChildDies \/ Reader
                      => [Call!Next]_(Call!callVars)
  OBVIOUS
<1> USE DEF TypeOK, StageType, Call!callVars, process, inputVars, childVars
<1>1. ASSUME Child, ~(\E status \in {"zero", "nonzero", "crashed"} :
                        ChildExits(status))
      PROVE  UNCHANGED Call!callVars
  BY <1>1 DEF Child, Begin, ChildReads, ChildWrites, ChildCloses
<1>2. ASSUME NEW status \in {"zero", "nonzero", "crashed"},
             ChildExits(status)
      PROVE  Call!End
  BY <1>2 DEF ChildExits, Ends, Call!End
<1>3. ChildDies => Call!End
  BY DEF ChildDies, Ends, Call!End
<1>4. ReadOutput \/ EndOfOutput \/ ReadFails => UNCHANGED Call!callVars
  BY DEF ReadOutput, EndOfOutput, ReadFails
<1>5. ASSUME ReaderTerminates, child = "running", ~killed
      PROVE  Call!Doom
  BY <1>5, Zenon DEF ReaderTerminates, Kill, Call!Doom
<1>6. ASSUME ReaderTerminates, ~(child = "running" /\ ~killed)
      PROVE  UNCHANGED Call!callVars
  BY <1>6, Zenon DEF ReaderTerminates, Kill
<1> QED
  BY <1>1, <1>2, <1>3, <1>4, <1>5, <1>6 DEF Call!Next, Reader,
                                              ReaderGoesOn

\* A write that stays within the total.
LEMMA Room ==
  ASSUME NEW before \in Nat, NEW after \in Nat, NEW rest \in Nat,
         NEW total \in Int, after > before, after + rest <= total
  PROVE  after \in before + 1 .. total
  OBVIOUS

\* The caller starts the process, feeds it and answers.
LEMMA CallerStep ==
  TypeOK /\ TypeOK' /\ IInv /\ InputInv' /\ RoleInv /\ Caller
    => [Call!Next]_(Call!callVars)
<1> SUFFICES ASSUME TypeOK, TypeOK', IInv, InputInv', RoleInv
             PROVE  Caller => [Call!Next]_(Call!callVars)
  OBVIOUS
<1> USE DEF TypeOK, StageType, FlagType, IInv, LifeInv, Call!callVars,
            process, inputVars, childVars
<1>1. StartFails => Call!Refuse
  BY DEF StartFails, Return, Call!Refuse
<1>2. Start => Call!Launch
  BY DEF Start, Call!Launch, RoleInv
<1>3. Capture \/ StartReader \/ Mask \/ MaskFails \/ SinkCall \/ BrokenPipe
        \/ Unmask \/ CloseInput \/ Join => UNCHANGED Call!callVars
  BY DEF Capture, StartReader, Mask, MaskFails, SinkCall, BrokenPipe, Unmask,
         CloseInput, Join, Goto
<1>4. ASSUME NEW status \in {"ok", "error"}, ProducerReturns(status)
      PROVE  UNCHANGED Call!callVars
  BY <1>4 DEF ProducerReturns
<1>5. ASSUME WriteInput
      PROVE  Call!Feed
  <2>1. PICK count \in 1 .. Lesser(todo, PipeSize - in_pipe) :
          sent' = sent + count /\ todo' = todo - count
    BY <1>5 DEF WriteInput
  <2>2. /\ sent \in Nat /\ sent' \in Nat /\ todo' \in Nat /\ sent' > sent
    BY <2>1 DEF CountType
  <2>3. sent' + todo' <= Pieces * PieceSize
    <3>1. PICK n \in 0 .. Pieces : sent' + todo' = n * PieceSize
      BY DEF InputInv, WholePieces
    <3>2. n * PieceSize <= Pieces * PieceSize
      BY ProcessAssumption, <3>1
    <3> QED
      BY <3>1, <3>2
  <2>4. sent' \in sent + 1 .. Pieces * PieceSize
    <3>1. Pieces * PieceSize \in Int
      BY ProcessAssumption
    <3> QED
      BY ONLY <2>2, <2>3, <3>1, Room
  <2>5. caller.producer /\ child = "running" /\ result = "none"
    BY <1>5 DEF WriteInput, RoleInv
  <2> QED
    BY <1>5, <2>4, <2>5 DEF WriteInput, Call!Feed
<1>6. ASSUME Terminate
      PROVE  [Call!Next]_(Call!callVars)
  <2>1. CASE child = "running" /\ ~killed
    BY <1>6, <2>1, Zenon DEF Terminate, Kill, Call!Doom, Call!Next
  <2>2. CASE ~(child = "running" /\ ~killed)
    BY <1>6, <2>2, Zenon DEF Terminate, Kill
  <2> QED
    BY <2>1, <2>2
<1>7. ASSUME NEW outcome, Wait(outcome), outcome \in {Outcome, "wait_error"}
      PROVE  Call!Next
  <2>1. /\ child = "zombie" /\ child' = "reaped" /\ killed' = killed
        /\ result = "none" /\ result' = outcome /\ sent' = sent
        /\ caller' = caller
    BY <1>7 DEF Wait, Return
  <2>2. CASE outcome = "completed"
    <3>1. producer_status = "ok" /\ ~killed
      BY <1>7, <2>2 DEF Outcome, KillInv
    <3>2. sent = IF caller.producer THEN Pieces * PieceSize ELSE 0
      BY <1>7, <3>1 DEF Wait, InputInv, RoleInv, WithoutReader
    <3> QED
      BY <2>1, <2>2, <3>1, <3>2 DEF Call!Next, Call!Succeed
  <2>3. CASE outcome # "completed"
    <3>1. outcome \in {"wait_error", "read_error", "producer_error",
                       "too_large"}
      BY <1>7, <2>3 DEF Outcome
    <3> QED
      BY <2>1, <3>1 DEF Call!Next, Call!Fail
  <2> QED
    BY <2>2, <2>3
<1> QED
  BY <1>1, <1>2, <1>3, <1>4, <1>5, <1>6, <1>7 DEF Caller, Call!Next

\* The call on POSIX, with its threads, pipes and signals, is a call of the
\* process runner as its header promises it.
THEOREM PosixImplementsCall == Spec => ImplementsCall
<1>1. Init => RoleInv
  BY DEF Init, RoleInv
<1>2. Spec => []RoleInv
  BY <1>1, RoleStep, Invariance, PTL DEF Spec, IInv
<1>3. TypeOK /\ TypeOK' /\ IInv /\ IInv' /\ RoleInv /\ [Next]_vars
        => [Call!Next]_(Call!callVars)
  <2>1. Returned \/ UNCHANGED vars => UNCHANGED Call!callVars
    BY DEF Returned, vars, process, inputVars, childVars, Call!callVars
  <2> QED
    BY <2>1, OthersStep, CallerStep DEF Next, IInv
<1> QED
  BY <1>2, <1>3, CallInit, Invariance, PTL DEF Spec, ImplementsCall, Call!Spec
-----------------------------------------------------------------------------
(* The child of a call on Windows.                                         *)

\* No step lets the child run outside of a job that the program holds.
LEMMA JobStep == JobInv /\ [WindowsNext]_windowsVars => JobInv'
<1> SUFFICES ASSUME JobInv, [WindowsNext]_windowsVars
             PROVE  JobInv'
  OBVIOUS
<1> USE DEF JobInv, JobContains, childVars, inputVars, outputVars, readVars
<1>1. CASE WindowsChild
  BY <1>1 DEF WindowsChild, Child, Begin, ChildReads, ChildWrites,
              ChildCloses, ChildExits, Ends
<1>2. CASE Dies
  BY <1>2 DEF Dies, ChildDies, SuspendedDies, Ends
<1>3. CASE WindowsReader
  BY <1>3 DEF WindowsReader, ReadOutput, EndOfOutput
<1>4. CASE WindowsCaller
  <2>1. CASE (StartFails \/ SinkCall \/ WriteInput) /\ UNCHANGED job
    BY <2>1 DEF StartFails, SinkCall, WriteInput, Return, Goto
  <2>2. CASE CreateSuspended \/ AssignToJob \/ Abandon \/ Resume
    BY <2>2 DEF CreateSuspended, AssignToJob, Abandon, Resume, Return, Goto
  <2>3. CASE JoinAndLeave
    BY <2>3 DEF JoinAndLeave, Leave, CloseJob, Exists, Return, Goto
  <2>4. CASE Drained \/ StartReaderThread \/ CloseChildInput \/ WaitForChild
    BY <2>4 DEF Drained, StartReaderThread, CloseChildInput, WaitForChild,
                Goto
  <2>5. CASE \E status \in {"ok", "error"} : StopProducing(status)
    BY <2>5 DEF StopProducing, Goto
  <2> QED
    BY <1>4, <2>1, <2>2, <2>3, <2>4, <2>5 DEF WindowsCaller
<1>5. CASE ProgramKilled
  BY <1>5 DEF ProgramKilled, CloseJob, Exists, Goto
<1>6. CASE SystemFails
  BY <1>6 DEF SystemFails, ReadStops, ReadFailsInline, WaitFails, Leave,
              CloseJob, Exists, Return, Goto
<1>7. CASE Gone \/ UNCHANGED windowsVars
  BY <1>7 DEF Gone, windowsVars, vars
<1> QED
  BY <1>1, <1>2, <1>3, <1>4, <1>5, <1>6, <1>7 DEF WindowsNext, OfTheCall

\* On Windows no child outlives the call or the program, whatever ends them.
THEOREM WindowsJobContains == WindowsSpec => []JobContains
<1>1. WindowsInit => JobInv
  BY DEF WindowsInit, Init, JobInv, JobContains
<1> QED
  BY <1>1, JobStep, PTL DEF WindowsSpec, JobInv
-----------------------------------------------------------------------------
(* The call on Windows as process.h describes it.                          *)

\* Before the program answers nothing kills the child, which goes through its
\* stages with the call; only a producer feeds it.
WindowsLifeInv ==
  /\ caller \in Callers /\ killed \in BOOLEAN
  /\ child \in {"none", "suspended", "running", "zombie", "reaped"}
  /\ result = "none" <=> pc # "returned"
  /\ killed => pc \in {"returned", "gone"}
  /\ pc = "start" => child = "none"
  /\ pc \in {"assign", "resume"} => child = "suspended"
  /\ child \in {"none", "suspended"} =>
       pc \in {"start", "assign", "resume", "gone"} \/ result = "not_started"
  /\ child = "reaped" => pc = "returned"
  /\ child \in {"zombie", "reaped"} => ~stdin_open
  /\ pc = "join" => child = "zombie"
  /\ pc \in {"start_reader", "produce", "write", "close_input"} =>
       caller.producer
  /\ pc = "drain" => ~caller.producer
  /\ pc \in {"start", "assign", "resume", "start_reader", "produce", "write"} =>
       producer_status = "ok"

\* What a producer that succeeds has handed over, as in InputInv.
WindowsInputInv ==
  /\ sent \in Nat /\ todo \in Nat /\ in_pipe \in Int
  /\ ~caller.producer => sent = 0
  /\ WholePieces(sent + todo)
  /\ pc \notin {"write", "gone"} /\ producer_status = "ok" => todo = 0
  /\ pc \in {"close_input", "wait_child", "join"}
     /\ caller.producer /\ producer_status = "ok" => sent = Pieces * PieceSize

\* The child's stages: they change with the call, and by itself it only ends.
LEMMA WindowsLifeStep ==
  WindowsLifeInv /\ [WindowsNext]_windowsVars => WindowsLifeInv'
<1> SUFFICES ASSUME WindowsLifeInv, [WindowsNext]_windowsVars
             PROVE  WindowsLifeInv'
  OBVIOUS
<1> USE DEF WindowsLifeInv, OfTheCall, childVars, inputVars, outputVars,
            readVars
<1>1. CASE OfTheCall(WindowsChild)
  BY <1>1 DEF WindowsChild, Child, Begin, ChildReads, ChildWrites,
              ChildCloses, ChildExits, Ends
<1>2. CASE OfTheCall(Dies)
  BY <1>2 DEF Dies, ChildDies, SuspendedDies, Ends
<1>3. CASE OfTheCall(WindowsReader)
  BY <1>3 DEF WindowsReader, ReadOutput, EndOfOutput
<1>4. CASE OfTheCall(WindowsCaller)
  <2>1. CASE StartFails \/ SinkCall \/ WriteInput
    BY <1>4, <2>1 DEF StartFails, SinkCall, WriteInput, Return, Goto
  <2>2. CASE CreateSuspended \/ AssignToJob \/ Abandon \/ Resume
    <3>1. CASE CreateSuspended \/ AssignToJob
      BY <1>4, <2>2, <3>1 DEF CreateSuspended, AssignToJob, Goto
    <3>2. CASE Abandon
      BY <1>4, <3>2 DEF Abandon, Return, Goto
    <3>3. CASE Resume
      BY <1>4, <3>3 DEF Resume, Goto
    <3> QED
      BY <2>2, <3>1, <3>2, <3>3
  <2>3. CASE JoinAndLeave
    <3>1. PICK outcome : Leave(outcome) /\ outcome \in {"wait_error",
                                                       WindowsOutcome}
      BY <2>3 DEF JoinAndLeave
    <3>2. outcome # "none" /\ outcome # "not_started"
      BY <3>1 DEF WindowsOutcome
    <3>3. child \in {"running", "zombie"} /\ result = "none"
      BY <2>3 DEF JoinAndLeave
    <3> QED
      BY <1>4, <2>3, <3>1, <3>2, <3>3
      DEF JoinAndLeave, Leave, CloseJob, Exists, Return, Goto
  <2>4. CASE Drained \/ StartReaderThread \/ CloseChildInput \/ WaitForChild
    BY <1>4, <2>4 DEF Drained, StartReaderThread, CloseChildInput,
                      WaitForChild, Goto
  <2>5. CASE \E status \in {"ok", "error"} : StopProducing(status)
    BY <1>4, <2>5 DEF StopProducing, Goto
  <2> QED
    BY <1>4, <2>1, <2>2, <2>3, <2>4, <2>5 DEF WindowsCaller
<1>5. CASE OfTheCall(ProgramKilled)
  BY <1>5 DEF ProgramKilled, CloseJob, Exists, Goto
<1>6. CASE OfTheCall(SystemFails)
  <2>1. CASE ReadStops \/ WaitFails
    BY <1>6, <2>1 DEF ReadStops, WaitFails, Goto
  <2>2. CASE ReadFailsInline
    <3>1. child \in {"running", "zombie"} /\ result = "none"
      BY <2>2 DEF ReadFailsInline
    <3> QED
      BY <1>6, <2>2, <3>1
      DEF ReadFailsInline, Leave, CloseJob, Exists, Return, Goto
  <2> QED
    BY <1>6, <2>1, <2>2 DEF SystemFails
<1>7. CASE Gone \/ UNCHANGED windowsVars
  BY <1>7 DEF Gone, windowsVars, vars
<1> QED
  BY <1>1, <1>2, <1>3, <1>4, <1>5, <1>6, <1>7 DEF WindowsNext

\* Whole pieces are handed over, and all of them where the producer succeeds.
LEMMA WindowsInputStep ==
  WindowsLifeInv /\ WindowsInputInv /\ [WindowsNext]_windowsVars
    => WindowsInputInv'
<1> SUFFICES ASSUME WindowsLifeInv, WindowsInputInv,
                    [WindowsNext]_windowsVars
             PROVE  WindowsInputInv'
  OBVIOUS
<1> USE ProcessAssumption DEF WindowsInputInv, OfTheCall, childVars,
            inputVars, outputVars, readVars
<1>1. CASE OfTheCall(WindowsChild)
  BY <1>1 DEF WindowsChild, Child, Begin, ChildReads, ChildWrites,
              ChildCloses, ChildExits, Ends
<1>2. CASE OfTheCall(Dies)
  BY <1>2 DEF Dies, ChildDies, SuspendedDies, Ends
<1>3. CASE OfTheCall(WindowsReader)
  BY <1>3 DEF WindowsReader, ReadOutput, EndOfOutput
<1>4. CASE OfTheCall(WindowsCaller)
  <2>1. CASE StartFails
    BY <1>4, <2>1 DEF StartFails, Return, Goto
  <2>2. CASE SinkCall
    <3>1. /\ todo = 0 /\ todo' = PieceSize /\ sent' = sent
          /\ in_pipe' = in_pipe /\ caller' = caller /\ pc' = "write"
      BY <1>4, <2>2 DEF SinkCall, Goto, WindowsLifeInv
    <3>2. PICK n \in 0 .. Pieces : sent + todo = n * PieceSize
      BY DEF WholePieces
    <3>3. n * PieceSize < Pieces * PieceSize
      BY <2>2, <3>1, <3>2 DEF SinkCall
    <3>4. sent' + todo' = (n + 1) * PieceSize
      BY <3>1, <3>2, <3>3, NextPiece
    <3>5. WholePieces(sent + todo)'
      BY <3>3, <3>4, NextPiece DEF WholePieces
    <3> QED
      BY <3>1, <3>5
  <2>3. CASE WriteInput
    <3>1. PICK count \in 1 .. Lesser(todo, PipeSize - in_pipe) :
            /\ in_pipe' = in_pipe + count
            /\ sent' = sent + count /\ todo' = todo - count
            /\ pc' = IF count = todo THEN "produce" ELSE "write"
      BY <2>3 DEF WriteInput, Goto
    <3>2. count \in Nat /\ count <= todo
      BY <3>1 DEF Lesser
    <3>3. caller.producer /\ caller' = caller
      BY <1>4, <2>3 DEF WriteInput, WindowsLifeInv
    <3>4. sent' + todo' = sent + todo
      BY <3>1, <3>2
    <3>5. WholePieces(sent + todo)'
      BY <3>4 DEF WholePieces
    <3> QED
      BY <3>1, <3>2, <3>3, <3>5
  <2>4. CASE CreateSuspended \/ AssignToJob \/ Abandon \/ Resume
    BY <1>4, <2>4 DEF CreateSuspended, AssignToJob, Abandon, Resume, Return,
                      Goto, WindowsLifeInv
  <2>5. CASE JoinAndLeave
    BY <1>4, <2>5 DEF JoinAndLeave, Leave, Return, Goto
  <2>6. CASE Drained \/ StartReaderThread \/ CloseChildInput \/ WaitForChild
    BY <1>4, <2>6 DEF Drained, StartReaderThread, CloseChildInput,
                      WaitForChild, Goto, WindowsLifeInv
  <2>7. CASE \E status \in {"ok", "error"} : StopProducing(status)
    BY <1>4, <2>7 DEF StopProducing, Goto, WindowsLifeInv
  <2> QED
    BY <1>4, <2>1, <2>2, <2>3, <2>4, <2>5, <2>6, <2>7 DEF WindowsCaller
<1>5. CASE OfTheCall(ProgramKilled)
  BY <1>5 DEF ProgramKilled, Goto
<1>6. CASE OfTheCall(SystemFails)
  BY <1>6 DEF SystemFails, ReadStops, ReadFailsInline, WaitFails, Leave,
              Return, Goto
<1>7. CASE Gone \/ UNCHANGED windowsVars
  BY <1>7 DEF Gone, windowsVars, vars
<1> QED
  BY <1>1, <1>2, <1>3, <1>4, <1>5, <1>6, <1>7 DEF WindowsNext

\* What closes the job dooms a child that runs, and does nothing to any other.
LEMMA ClosingDooms ==
  ASSUME WindowsLifeInv, JobInv, CloseJob, pc \notin {"returned", "gone"},
         UNCHANGED child
  PROVE  process' = IF process = "running" THEN "doomed" ELSE process
<1>1. killed = FALSE /\ killed' \in BOOLEAN
  BY DEF WindowsLifeInv, CloseJob
<1>2. child = "running" => killed'
  BY <1>1 DEF WindowsLifeInv, JobInv, JobContains, CloseJob, Exists
<1>3. child \in {"zombie", "reaped"} => ~killed'
  BY <1>1 DEF CloseJob, Exists
<1> QED
  BY <1>1, <1>2, <1>3 DEF process, WindowsLifeInv

\* The way out with an answer: what is left of the process is ended.
LEMMA LeavingAnswers ==
  ASSUME WindowsLifeInv, WindowsInputInv, JobInv,
         NEW outcome, Leave(outcome), UNCHANGED <<caller, sent>>,
         pc \in {"drain", "join", "join_failed"},
         outcome \in {"wait_error", "read_error", "producer_error",
                      "too_large", "completed"},
         outcome = "completed" => pc = "join" /\ producer_status = "ok"
  PROVE  Call!Next
<1>1. /\ result = "none" /\ result' = outcome /\ ~killed
      /\ child \in {"running", "zombie"}
  BY DEF Leave, Return, WindowsLifeInv
<1>2. CASE outcome = "completed"
  <2>1. child = "zombie" /\ child' = "reaped" /\ killed' = FALSE
    BY <1>1, <1>2 DEF Leave, CloseJob, Exists, WindowsLifeInv
  <2>2. process = "ended" /\ process' = "ended"
    BY <1>1, <2>1 DEF process
  <2>3. sent = IF caller.producer THEN Pieces * PieceSize ELSE 0
    BY <1>2 DEF WindowsInputInv
  <2> QED
    BY <1>1, <1>2, <2>2, <2>3 DEF Call!Next, Call!Succeed
<1>3. CASE outcome # "completed"
  <2>1. CASE child = "running"
    <3>1. job = "open" /\ killed' = TRUE /\ child' = "running"
      BY <1>1, <2>1 DEF JobInv, JobContains, Leave, CloseJob, Exists
    <3>2. process = "running" /\ process' = "doomed"
      BY <1>1, <2>1, <3>1 DEF process
    <3> QED
      BY <1>1, <1>3, <3>2 DEF Call!Next, Call!Fail
  <2>2. CASE child = "zombie"
    <3>1. child' = "reaped" /\ killed' = killed
      BY <1>1, <2>2 DEF Leave, CloseJob, Exists, WindowsLifeInv
    <3>2. process = "ended" /\ process' = "ended"
      BY <1>1, <2>2, <3>1 DEF process
    <3> QED
      BY <1>1, <1>3, <3>2 DEF Call!Next, Call!Fail
  <2> QED
    BY <1>1, <2>1, <2>2
<1> QED
  BY <1>2, <1>3

\* The calling thread on Windows starts the process, feeds it and answers.
LEMMA WindowsCallerStep ==
  /\ WindowsLifeInv /\ WindowsInputInv /\ WindowsInputInv' /\ JobInv
  /\ OfTheCall(WindowsCaller)
  => [Call!Next]_(Call!callVars)
<1> SUFFICES ASSUME WindowsLifeInv, WindowsInputInv, WindowsInputInv', JobInv,
                    WindowsCaller, UNCHANGED caller
             PROVE  [Call!Next]_(Call!callVars)
  BY DEF OfTheCall
<1> USE DEF Call!callVars, childVars, inputVars, outputVars, readVars
<1>1. CASE StartFails
  BY <1>1 DEF StartFails, Return, process, WindowsLifeInv, Call!Next,
              Call!Refuse
<1>2. CASE CreateSuspended \/ AssignToJob
  BY <1>2 DEF CreateSuspended, AssignToJob, process, WindowsLifeInv
<1>3. CASE Abandon
  BY <1>3 DEF Abandon, Return, process, WindowsLifeInv, Call!Next, Call!Refuse
<1>4. CASE Resume
  BY <1>4 DEF Resume, process, WindowsLifeInv, Call!Next, Call!Launch
<1>5. CASE SinkCall \/ Drained \/ StartReaderThread \/ CloseChildInput
           \/ WaitForChild
  BY <1>5 DEF SinkCall, Drained, StartReaderThread, CloseChildInput,
              WaitForChild, process
<1>6. ASSUME NEW status, StopProducing(status)
      PROVE  UNCHANGED Call!callVars
  BY <1>6 DEF StopProducing, process
<1>7. CASE WriteInput
  <2>1. PICK count \in 1 .. Lesser(todo, PipeSize - in_pipe) :
          sent' = sent + count /\ todo' = todo - count
    BY <1>7 DEF WriteInput
  <2>2. sent \in Nat /\ sent' \in Nat /\ todo' \in Nat /\ sent' > sent
    BY <2>1 DEF WindowsInputInv
  <2>3. sent' + todo' <= Pieces * PieceSize
    <3>1. PICK n \in 0 .. Pieces : sent' + todo' = n * PieceSize
      BY DEF WindowsInputInv, WholePieces
    <3>2. n * PieceSize <= Pieces * PieceSize
      BY ProcessAssumption, <3>1
    <3> QED
      BY <3>1, <3>2
  <2>4. sent' \in sent + 1 .. Pieces * PieceSize
    <3>1. Pieces * PieceSize \in Int
      BY ProcessAssumption
    <3> QED
      BY ONLY <2>2, <2>3, <3>1, Room
  <2>5. /\ caller.producer /\ child = "running" /\ ~killed
        /\ result = "none" /\ UNCHANGED <<result, child, killed>>
    BY <1>7 DEF WriteInput, WindowsLifeInv
  <2> QED
    BY <2>4, <2>5 DEF process, Call!Next, Call!Feed
<1>8. CASE JoinAndLeave
  <2>1. PICK outcome : /\ Leave(outcome)
                       /\ outcome \in {"wait_error", WindowsOutcome}
                       /\ outcome = WindowsOutcome => pc = "join"
    BY <1>8 DEF JoinAndLeave, WindowsOutcome
  <2>2. /\ outcome \in {"wait_error", "read_error", "producer_error",
                        "too_large", "completed"}
        /\ outcome = "completed" => pc = "join" /\ producer_status = "ok"
    BY <2>1 DEF WindowsOutcome
  <2> QED
    BY <1>8, <2>1, <2>2, LeavingAnswers DEF JoinAndLeave
<1> QED
  BY <1>1, <1>2, <1>3, <1>4, <1>5, <1>6, <1>7, <1>8 DEF WindowsCaller

\* The child ends, is doomed with the program, or is seen to do nothing.
LEMMA WindowsOthersStep ==
  /\ WindowsLifeInv /\ WindowsInputInv /\ JobInv
  /\ \/ WindowsChild \/ Dies \/ WindowsReader \/ ProgramKilled \/ SystemFails
  /\ UNCHANGED caller
  => [Call!Next]_(Call!callVars)
<1> SUFFICES ASSUME WindowsLifeInv, WindowsInputInv, JobInv, UNCHANGED caller
             PROVE  WindowsChild \/ Dies \/ WindowsReader \/ ProgramKilled
                      \/ SystemFails => [Call!Next]_(Call!callVars)
  OBVIOUS
<1> USE DEF Call!callVars, childVars, inputVars, outputVars, readVars
<1>1. ASSUME Child, ~(\E status \in {"zero", "nonzero", "crashed"} :
                        ChildExits(status))
      PROVE  UNCHANGED Call!callVars
  BY <1>1 DEF Child, Begin, ChildReads, ChildWrites, ChildCloses, process
<1>2. ASSUME NEW status \in {"zero", "nonzero", "crashed"},
             ChildExits(status)
      PROVE  Call!End
  BY <1>2 DEF ChildExits, Ends, Call!End, process
<1>3. ChildDies => Call!End
  BY DEF ChildDies, Ends, Call!End, process
<1>4. SuspendedDies => UNCHANGED Call!callVars
  BY DEF SuspendedDies, process
<1>5. WindowsReader \/ ReadStops \/ WaitFails => UNCHANGED Call!callVars
  BY DEF WindowsReader, ReadOutput, EndOfOutput, ReadStops, WaitFails, process
<1>6. ReadFailsInline => Call!Next
  BY LeavingAnswers DEF ReadFailsInline
<1>7. ProgramKilled => [Call!Next]_(Call!callVars)
  BY ClosingDooms DEF ProgramKilled, Call!Next, Call!Doom
<1> QED
  BY <1>1, <1>2, <1>3, <1>4, <1>5, <1>6, <1>7
  DEF WindowsChild, Dies, SystemFails, Call!Next

\* The call on Windows, with its job object and a program that may be killed
\* at any time, is the call that process.h promises too.
THEOREM WindowsImplementsCall == WindowsSpec => ImplementsCall
<1>1. WindowsInit => JobInv /\ WindowsLifeInv /\ WindowsInputInv
  <2>1. WindowsInit => JobInv /\ WindowsLifeInv
    BY DEF WindowsInit, Init, JobInv, JobContains, WindowsLifeInv
  <2>2. WindowsInit => WindowsInputInv
    BY ProcessAssumption DEF WindowsInit, Init, WindowsInputInv, WholePieces
  <2> QED
    BY <2>1, <2>2
<1>2. WindowsSpec => [](JobInv /\ WindowsLifeInv /\ WindowsInputInv)
  BY <1>1, JobStep, WindowsLifeStep, WindowsInputStep, PTL DEF WindowsSpec
<1>3. /\ JobInv /\ WindowsLifeInv /\ WindowsInputInv /\ WindowsInputInv'
      /\ [WindowsNext]_windowsVars
      => [Call!Next]_(Call!callVars)
  <2>1. Gone \/ UNCHANGED windowsVars => UNCHANGED Call!callVars
    BY DEF Gone, windowsVars, vars, process, inputVars, childVars,
           Call!callVars
  <2> QED
    BY <2>1, WindowsOthersStep, WindowsCallerStep DEF WindowsNext, OfTheCall
<1>4. WindowsInit => Call!Init
  BY CallInit DEF WindowsInit
<1> QED
  BY <1>2, <1>3, <1>4, PTL DEF WindowsSpec, ImplementsCall, Call!Spec
=============================================================================
