------------------------- MODULE SessionScriptProofs -------------------------
(***************************************************************************)
(* A day with the program.                                                 *)
(*                                                                         *)
(* No invocation changes a video that it reads, whatever its options and   *)
(* however paths resolve.  A script is the whole day or there is a reason  *)
(* that it is not, and it goes on only over finished overlays.             *)
(*                                                                         *)
(* The invariant says of the generator's table that it has each chapter of *)
(* the folder once, of the script that it is the first sessions in order,  *)
(* and of the folder that no command adds a chapter of its own to it.  The *)
(* number of a session's chapters is their last number, if none is         *)
(* missing; least elements stand for induction.                            *)
(***************************************************************************)
EXTENDS SessionScript, FiniteSetTheorems, WellFoundedInduction, TLAPS

(* One invocation.                                                         *)

\* An option that is given leads to a file.
LEMMA Flags ==
  ASSUME options \in Options, NEW flag \in Outputs, options[flag] # NoPath,
         resolve \in [Paths -> Paths]
  PROVE  options[flag] \in Paths /\ Target(flag) \in Paths
<1>1. options[flag] \in Paths \cup {NoPath}
  BY DEF Options, Outputs, Exports
<1> QED
  BY <1>1 DEF Target

\* The single input of an export is the only one.
LEMMA OnlyInput ==
  ASSUME options \in Options, Len(options.inputs) = 1
  PROVE  Own = {resolve[Head(options.inputs)]}
<1>1. options.inputs \in Seq(Paths)
  BY DEF Options
<1>2. Head(options.inputs) = options.inputs[1]
  BY <1>1
<1> QED
  BY <1>2 DEF Own

\* The inputs of an invocation are files.
LEMMA OwnPaths ==
  ASSUME options \in Options, resolve \in [Paths -> Paths]
  PROVE  Own \subseteq Paths
<1>1. options.inputs \in Seq(Paths)
  BY DEF Options
<1> QED
  BY <1>1 DEF Own

\* Whatever is written goes to another file, and so the inputs stay there.
LEMMA Written ==
  ASSUME InputInv, NEW content \in {"partial", "complete"},
         at \in Outputs, Given(at), Target(at) \notin Own, Write(content)
  PROVE  /\ disk' \in [Paths -> Content] /\ resolve' = resolve
         /\ options' = options
         /\ AllThere' /\ \A file \in Own : disk'[file] = disk[file]
<1>1. Target(at) \in Paths
  BY Flags DEF InputInv, InvocationType, Given
<1>2. options.inputs \in Seq(Paths)
  BY DEF InputInv, InvocationType, Options
<1>3. disk' \in [Paths -> Content]
  BY <1>1, <1>2 DEF Write, InputInv, InvocationType, Content
<1>4. \A file \in Own : disk'[file] = disk[file]
  BY <1>1, OwnPaths DEF Write, InputInv, InvocationType
<1>5. AllThere'
  BY <1>4 DEF Write, InputInv, AllThere, Own
<1> QED
  BY <1>3, <1>4, <1>5 DEF Write

\* A step of an invocation keeps the invariant of its inputs.
LEMMA InputStep == InputInv /\ [Run]_invocationVars => InputInv'
<1> SUFFICES ASSUME InputInv, [Run]_invocationVars
             PROVE  InputInv'
  OBVIOUS
<1> USE DEF InputInv
<1>1. CASE Parse \/ Inspect \/ ReadInputList \/ Chapters \/ Single
  <2>1. CASE Parse
    <3>1. options.inputs # << >> => Len(options.inputs) \in Nat \ {0}
      BY DEF Options
    <3>2. /\ at' \in {"inspect", "list", "chapters", "single"}
          /\ at' = "single" => /\ options.inputs # << >>
                                /\ ~(Len(options.inputs) > 1)
      BY <2>1 DEF Parse, Accepted, Goto, Given
    <3>3. \A n \in Nat \ {0} : ~(n > 1) => n = 1
      OBVIOUS
    <3>4. at' = "single" => Len(options.inputs) = 1
      BY <3>1, <3>2, <3>3
    <3> QED
      BY <2>1, <3>2, <3>4 DEF Parse, Goto, InvocationType, Active, Ended,
                              Outputs, Exports
  <2>2. CASE Single
    BY <2>2 DEF Single, Goto, InvocationType, Active, Outputs, Exports,
                AllThere
  <2>3. CASE Inspect \/ ReadInputList \/ Chapters
    BY <2>3 DEF Inspect, ReadInputList, Chapters, Goto, InvocationType,
                Active, Ended, Outputs, Exports, AllThere
  <2> QED
    BY <1>1, <2>1, <2>2, <2>3
<1>2. CASE Skip
  BY <1>2 DEF Skip, Goto, InvocationType, Active, Ended, Outputs, Exports,
              After, AllThere
<1>3. CASE OpenExport
  <2>1. Target(at) \notin Own
    BY <1>3, OnlyInput DEF OpenExport, InvocationType
  <2> QED
    BY <1>3, <2>1, Written DEF OpenExport, InvocationType, Outputs, Given,
                               Target, Own
<1>4. CASE OpenOutput
  <2>1. Target(at) \notin Own
    BY <1>4 DEF OpenOutput, AllThere, Own, Outputs
  <2> QED
    BY <1>4, <2>1, Written DEF OpenOutput, InvocationType, Outputs, Given,
                               Target, Own
<1>5. CASE Finish
  <2>1. /\ disk' \in [Paths -> Content] /\ resolve' = resolve
        /\ options' = options /\ AllThere'
    BY <1>5, Written DEF Finish
  <2>2. /\ at' \in {"export_json", "export_telemetry", "render_frames",
                     "output_video", "ok"}
        /\ at' \in Exports => at \in Exports
    BY <1>5 DEF Finish, Outputs, Exports, After
  <2> QED
    BY <1>5, <2>1, <2>2 DEF Finish, InvocationType, Active, Ended, Outputs,
                            Exports
<1>6. CASE Fail
  BY <1>6 DEF Fail, InvocationType, Active, Ended, Outputs, Exports
<1>7. CASE UNCHANGED invocationVars
  BY <1>7 DEF invocationVars, InvocationType, Given, Target, Own, AllThere
<1> QED
  BY <1>1, <1>2, <1>3, <1>4, <1>5, <1>6, <1>7 DEF Run

\* A step that writes writes to a file that is not an input.
LEMMA WritesElsewhere ==
  ASSUME InputInv, [Run]_invocationVars, at \in Active,
         NEW file \in Own
  PROVE  disk'[file] = disk[file]
<1>1. CASE OpenExport
  <2>1. Target(at) \notin Own
    BY <1>1, OnlyInput DEF OpenExport, InputInv, InvocationType
  <2> QED
    BY <1>1, <2>1, Written DEF OpenExport, Outputs
<1>2. CASE OpenOutput
  <2>1. Target(at) \notin Own
    BY <1>2 DEF OpenOutput, InputInv, AllThere, Own, Outputs
  <2> QED
    BY <1>2, <2>1, Written DEF OpenOutput, Outputs
<1>3. CASE Finish
  BY <1>3, Written DEF Finish, InputInv
<1> QED
  BY <1>1, <1>2, <1>3 DEF Run, Parse, Inspect, ReadInputList, Chapters, Single,
       Skip, Fail, Goto, invocationVars

\* The input files of an invocation remain unchanged while it runs.
THEOREM InputsRemainUnchanged == InvocationSpec => OwnInputsUnchanged
<1>1. InvocationInit => InputInv
  BY DEF InvocationInit, InputInv, InvocationType, Active, Outputs, Exports
<1>2. InputInv /\ [Run]_invocationVars
        => [\A file \in Own : at \in Active => disk'[file] = disk[file]]_disk
  BY WritesElsewhere
<1> QED
  BY <1>1, <1>2, InputStep, PTL DEF InvocationSpec, OwnInputsUnchanged
-----------------------------------------------------------------------------
(* The inductive invariant of the day.                                     *)

\* What is where.
FilesInv ==
  /\ camera \in Folders /\ resolve \in Mounts /\ defaults \in Settings
  /\ disk \in [Paths -> Content]
  /\ \A n \in camera : resolve[n] = n /\ disk[n] # Absent

\* Every chapter that is listed is one the camera has left, or a file beside
\* it under the name of one.
NamesInv ==
  \A n \in Folder : IsChapter(n) => \E m \in CameraChapters : SameChapter(m, n)

\* What an invocation may write makes no new chapter.
MakesNoChapter ==
  \A flag \in Outputs :
    Given(flag) /\ Listed(Target(flag)) =>
      \E m \in CameraChapters : SameChapter(m, Target(flag))

\* Between commands nothing is being written.
ShellInv ==
  /\ IF at = "idle" THEN writing = FALSE /\ options \in Options ELSE InputInv
  /\ at \in Active => MakesNoChapter
  /\ running \in Nat /\ attempts \in Nat

Entry(n) == [session |-> Session(n), index |-> n.chapter, file |-> n]

\* The scan: what was listed is there, a chapter is in the table once, and the
\* camera's chapters are in it or still to be read.
ScanInv ==
  /\ stage \in Done \cup {"defaults", "scan", "emit"}
  /\ stage \in {"scan", "emit", "printed"} => DefaultsAccepted
  /\ unread \subseteq Folder
  /\ \A c \in chapters :
       c.file \in Folder \ unread /\ IsChapter(c.file) /\ c = Entry(c.file)
  /\ \A b, c \in chapters :
       b.session = c.session /\ b.index = c.index => b = c
  /\ stage \in {"scan", "emit"} =>
       \A n \in CameraChapters : n \in unread \/ Entry(n) \in chapters
  /\ stage = "emit" => unread = {} /\ chapters # {}

Sessions ==
  [letters : {"GOPR", "GH", "GX"}, first : {0, 1}, id : Nat]

Commands == [session : Sessions, inputs : Seq(Names), output : Paths]

\* The commands so far are those of the first sessions, in order.
InOrderSoFar ==
  \A k \in 1 .. Len(script) :
    /\ \E c \in chapters : c.session = script[k].session
    /\ Gapless(script[k].session)
    /\ script[k] = Command(script[k].session)
    /\ \A s \in Waiting : Precedes(script[k].session, s)
    /\ \A j \in 1 .. k - 1 : Precedes(script[j].session, script[k].session)

EmitInv ==
  /\ stage \notin {"emit", "printed"} => script = << >>
  /\ script \in Seq(Commands)
  /\ stage = "emit" => InOrderSoFar

\* A script that was printed stays the camera's day.
PrintInv ==
  /\ stage = "printed" =>
       /\ Whole /\ CoversTheDay
       /\ script # << >>
       /\ \A k \in 1 .. Len(script) :
            /\ script[k].inputs # << >>
            /\ script[k].output
                 = OutputVideo(defaults.output_prefix, script[k].session)
  /\ stage = "rejected" => ~DefaultsAccepted \/ ~Whole \/ InTheWay

FinishedOverlay(k) ==
  disk[resolve[script[k].output]] =
    [state |-> "complete", of |-> script[k].inputs]

\* A command of a script that runs; it is not done before its overlay is.
RunningInv ==
  running > 0 =>
    /\ stage = "printed" /\ running \in 1 .. Len(script)
    /\ at \in (Active \cup Ended) \ {"inspect"}
    /\ options = OptionsOf(script[running])
    /\ writing => disk[Target(at)].state = "partial"
    /\ \A k \in 1 .. running - 1 : FinishedOverlay(k)
    /\ at = "ok" => FinishedOverlay(running)

DayInv ==
  /\ FilesInv /\ NamesInv /\ ShellInv /\ ScanInv /\ EmitInv /\ PrintInv
  /\ RunningInv
-----------------------------------------------------------------------------
(* Names.                                                                  *)

\* What the name of a chapter says.
LEMMA ChapterNames ==
  ASSUME NEW n \in Names, IsChapter(n)
  PROVE  /\ n \in Paths /\ Session(n) \in Sessions
         /\ n.chapter \in Nat /\ n.chapter <= 99
         /\ Session(n).first <= n.chapter
<1>1. n \in FileName /\ (n.letters = "GOPR" => n.chapter = 0) /\ n \in Paths
  BY FolderAssumption
<1>2. n.letters \in {"GOPR", "GP", "GH", "GX"} /\ n.chapter \in 0 .. 99
      /\ n.id \in Nat /\ (n.letters \in {"GH", "GX"} => n.chapter > 0)
  BY <1>1 DEF FileName, IsChapter
<1>3. ASSUME n.letters \in {"GOPR", "GP"}
      PROVE  Session(n) \in Sessions /\ Session(n).first = 0
  <2>1. Session(n) = [letters |-> "GOPR", first |-> 0, id |-> n.id]
    BY <1>3 DEF Session
  <2> QED
    BY <1>2, <2>1 DEF Sessions
<1>4. ASSUME n.letters \in {"GH", "GX"}
      PROVE  Session(n) \in Sessions /\ Session(n).first = 1
  <2>1. Session(n) = [letters |-> n.letters, first |-> 1, id |-> n.id]
    BY <1>4 DEF Session
  <2> QED
    BY <1>2, <1>4, <2>1 DEF Sessions
<1>5. n.chapter \in Nat /\ n.chapter <= 99
      /\ (n.letters \in {"GH", "GX"} => n.chapter >= 1)
  BY <1>2
<1>6. Session(n) \in Sessions /\ Session(n).first <= n.chapter
  BY <1>2, <1>3, <1>4, <1>5
<1> QED
  BY <1>1, <1>5, <1>6

\* The overlay of a session has the session's name.
LEMMA OverlayOf ==
  ASSUME NEW n \in Names, IsChapter(n), NEW prefix
  PROVE  /\ Session(OutputVideo(prefix, Session(n))) = Session(n)
         /\ OutputVideo(prefix, Session(n)).chapter = Session(n).first
<1>1. n \in FileName
  BY FolderAssumption
<1>2. n.letters \in {"GOPR", "GP", "GH", "GX"}
  BY <1>1 DEF FileName, IsChapter
<1>3. ASSUME n.letters \in {"GOPR", "GP"}
      PROVE  /\ Session(OutputVideo(prefix, Session(n))) = Session(n)
             /\ OutputVideo(prefix, Session(n)).chapter = Session(n).first
  <2>1. Session(n) = [letters |-> "GOPR", first |-> 0, id |-> n.id]
    BY <1>3 DEF Session
  <2> QED
    BY <2>1 DEF Session, OutputVideo
<1>4. ASSUME n.letters \in {"GH", "GX"}
      PROVE  /\ Session(OutputVideo(prefix, Session(n))) = Session(n)
             /\ OutputVideo(prefix, Session(n)).chapter = Session(n).first
  <2>1. Session(n) = [letters |-> n.letters, first |-> 1, id |-> n.id]
    BY <1>4 DEF Session
  <2> QED
    BY <1>4, <2>1 DEF Session, OutputVideo
<1> QED
  BY <1>2, <1>3, <1>4

\* Two sessions have two overlays.
LEMMA OverlaysDiffer ==
  ASSUME NEW s \in Sessions, NEW r \in Sessions, Precedes(s, r), NEW prefix
  PROVE  OutputVideo(prefix, s) # OutputVideo(prefix, r)
<1>1. s.letters # r.letters \/ s.id # r.id
  <2>1. Rank[s.letters] \in Nat /\ s.id \in Nat
    BY DEF Sessions, Rank
  <2> QED
    BY <2>1 DEF Precedes
<1>2. /\ OutputVideo(prefix, s).letters = s.letters
      /\ OutputVideo(prefix, r).letters = r.letters
      /\ OutputVideo(prefix, s).id = s.id /\ OutputVideo(prefix, r).id = r.id
  BY DEF OutputVideo
<1> QED
  BY <1>1, <1>2

\* The camera's files are in the folder.
LEMMA CameraFiles ==
  ASSUME FilesInv
  PROVE  camera \subseteq Folder /\ Folder \subseteq Names
<1>1. camera \subseteq Names
  BY FolderAssumption DEF FilesInv
<1> QED
  BY <1>1 DEF FilesInv, Folder

\* The invariant holds at the beginning.
LEMMA Initially == ScriptInit => DayInv
<1> SUFFICES ASSUME ScriptInit PROVE DayInv
  OBVIOUS
<1>1. camera \subseteq Names /\ Names \subseteq Paths
      /\ resolve \in [Paths -> Paths]
  BY FolderAssumption DEF ScriptInit
<1>2. Footage \in Content /\ Absent \in Content /\ Footage # Absent
  BY DEF Footage, Absent, Content
<1>3. FilesInv
  BY <1>1, <1>2 DEF ScriptInit, FilesInv
<1>4. Folder \subseteq camera
  BY <1>1, <1>2 DEF ScriptInit, Folder
<1>5. NamesInv
  BY <1>4 DEF NamesInv, CameraChapters, SameChapter
<1>6. NoOptions \in Options
  BY DEF NoOptions, Options
<1>7. ShellInv
  BY <1>6 DEF ScriptInit, ShellInv, Active, Outputs, Exports
<1>8. ScanInv
  BY DEF ScriptInit, ScanInv, Done
<1>9. EmitInv
  BY DEF ScriptInit, EmitInv
<1>10. PrintInv
  BY DEF ScriptInit, PrintInv
<1>11. RunningInv
  BY DEF ScriptInit, RunningInv
<1> QED
  BY <1>3, <1>5, <1>7, <1>8, <1>9, <1>10, <1>11 DEF DayInv
-----------------------------------------------------------------------------
(* What a step of an invocation, or of the shell, leaves alone.            *)

\* The generator's state stays good while files appear.
LEMMA GeneratorWaits ==
  ASSUME ScanInv, EmitInv, PrintInv, UNCHANGED <<generatorVars, camera>>,
         Folder \subseteq Folder'
  PROVE  ScanInv' /\ EmitInv' /\ PrintInv'
<1> USE DEF generatorVars
<1>1. ScanInv'
  <2>1. DefaultsAccepted' = DefaultsAccepted
        /\ CameraChapters' = CameraChapters
    BY DEF DefaultsAccepted, CameraChapters
  <2>2. (Folder \ unread) \subseteq Folder' \ unread'
    OBVIOUS
  <2>3. \A c \in chapters' :
          c.file \in Folder' \ unread' /\ IsChapter(c.file)
            /\ c = Entry(c.file)
    BY <2>2 DEF ScanInv
  <2>4. unread' \subseteq Folder'
    BY DEF ScanInv
  <2> QED
    BY <2>1, <2>3, <2>4 DEF ScanInv
<1>2. EmitInv'
  <2>1. ASSUME NEW s
        PROVE  (Gapless(s) <=> Gapless(s)') /\ Command(s)' = Command(s)
    BY DEF Gapless, Command, Of
  <2>2. Waiting' = Waiting
    BY DEF Waiting
  <2> QED
    BY <2>1, <2>2 DEF EmitInv, InOrderSoFar
<1>3. PrintInv'
  <2>1. /\ Whole' = Whole /\ CoversTheDay' = CoversTheDay
        /\ DefaultsAccepted' = DefaultsAccepted
    BY DEF Whole, CoversTheDay, CameraChapters, DefaultsAccepted
  <2>2. InTheWay => InTheWay'
    BY DEF InTheWay
  <2> QED
    BY <2>1, <2>2 DEF PrintInv
<1> QED
  BY <1>1, <1>2, <1>3

\* What an invocation may do to the disk.
Wrote(content) ==
  /\ at \in Outputs /\ Given(at)
  /\ disk' = [disk EXCEPT ![Target(at)] =
                [state |-> content, of |-> options.inputs]]

\* An invocation writes an output that is given, or nothing.
LEMMA RunWrites ==
  ASSUME InputInv, Run
  PROVE  /\ UNCHANGED <<resolve, options>>
         /\ \/ disk' = disk
            \/ \E content \in {"partial", "complete"} : Wrote(content)
<1>1. CASE \/ Parse \/ Inspect \/ ReadInputList \/ Chapters \/ Single \/ Skip
           \/ Fail
  BY <1>1 DEF Parse, Inspect, ReadInputList, Chapters, Single, Skip, Fail, Goto
<1>2. CASE OpenExport
  BY <1>2 DEF OpenExport, Write, Wrote, Outputs
<1>3. CASE OpenOutput
  BY <1>3 DEF OpenOutput, Write, Wrote
<1>4. CASE Finish
  BY <1>4 DEF Finish, Write, Wrote, InputInv
<1> QED
  BY <1>1, <1>2, <1>3, <1>4 DEF Run

\* The file an option leads to.
LEMMA TargetIs ==
  ASSUME InputInv, NEW flag \in Outputs, Given(flag)
  PROVE  Target(flag) \in Paths /\ options.inputs \in Seq(Paths)
<1>1. options.inputs \in Seq(Paths)
  BY DEF InputInv, InvocationType, Options
<1> QED
  BY <1>1, Flags DEF InputInv, InvocationType, Given

\* The folder while an invocation runs.
LEMMA FilesStay ==
  ASSUME FilesInv, NamesInv, ShellInv, Run, UNCHANGED <<camera, defaults>>
  PROVE  FilesInv' /\ NamesInv' /\ Folder \subseteq Folder'
<1>1. at # "idle"
  BY DEF Run, Parse, Inspect, ReadInputList, Chapters, Single, Skip, OpenExport,
         OpenOutput, Finish, Fail, Active, Outputs, Exports
<1>2. InputInv
  BY <1>1 DEF ShellInv
<1>3. UNCHANGED <<resolve, options>>
  BY <1>2, RunWrites
<1>4. CASE disk' = disk
  BY <1>3, <1>4 DEF FilesInv, NamesInv, Folder, CameraChapters
<1>5. ASSUME NEW content \in {"partial", "complete"}, Wrote(content)
      PROVE  FilesInv' /\ NamesInv' /\ Folder \subseteq Folder'
  <2> DEFINE new == [state |-> content, of |-> options.inputs]
  <2>1. /\ at \in Outputs /\ Given(at) /\ Target(at) \in Paths
        /\ options.inputs \in Seq(Paths)
        /\ disk' = [disk EXCEPT ![Target(at)] = new]
    BY <1>2, <1>5, TargetIs DEF Wrote
  <2>2. new \in Content /\ new # Absent
    BY <2>1 DEF Content, Absent
  <2> HIDE DEF new
  <2>3. disk' \in [Paths -> Content]
    BY <2>1, <2>2 DEF FilesInv
  <2>4. \A file \in Paths : disk[file] # Absent => disk'[file] # Absent
    BY <2>1, <2>2 DEF FilesInv
  <2>5. \A file \in Paths :
          disk'[file] # Absent => disk[file] # Absent \/ file = Target(at)
    BY <2>1, <2>2 DEF FilesInv
  <2>6. camera \subseteq Paths /\ Names \subseteq Paths
    BY FolderAssumption DEF FilesInv
  <2>7. FilesInv'
    BY <1>3, <2>3, <2>4, <2>6 DEF FilesInv
  <2>8. Folder \subseteq Folder'
    BY <1>3, <2>4, <2>6 DEF Folder
  <2>9. ASSUME NEW n \in Folder', IsChapter(n)
        PROVE  \E m \in CameraChapters : SameChapter(m, n)
    <3>1. n \in Names /\ resolve[n] = n /\ disk'[n] # Absent
      BY <1>3 DEF Folder
    <3>2. CASE disk[n] # Absent
      BY <2>9, <3>1, <3>2 DEF NamesInv, Folder
    <3>3. CASE n = Target(at)
      <4>1. at \in Active
        BY <2>1 DEF Active
      <4> QED
        BY <2>1, <2>9, <3>1, <3>3, <4>1 DEF ShellInv, MakesNoChapter, Listed
    <3> QED
      BY <2>5, <2>6, <3>1, <3>2, <3>3
  <2>10. NamesInv'
    BY <2>9 DEF NamesInv, CameraChapters
  <2> QED
    BY <2>7, <2>8, <2>10
<1> QED
  BY <1>2, <1>4, <1>5, RunWrites

\* Where an invocation goes.
LEMMA RunStaysActive ==
  ASSUME InputInv, Run
  PROVE  at \in Active /\ at' \in Active \cup Ended /\ InputInv'
<1>1. InputInv'
  BY InputStep
<1>2. at \in Active
  BY DEF Run, Parse, Inspect, ReadInputList, Chapters, Single, Skip, OpenExport,
         OpenOutput, Finish, Fail, Active, Outputs, Exports
<1> QED
  BY <1>1, <1>2 DEF InputInv, InvocationType

\* What the shell has to know of a command is kept while it runs.
LEMMA ShellWaits ==
  ASSUME FilesInv, ShellInv, Run, UNCHANGED <<camera, running, attempts>>
  PROVE  ShellInv'
<1>1. at \in Active /\ at # "idle" /\ InputInv
  BY DEF ShellInv, Run, Parse, Inspect, ReadInputList, Chapters, Single, Skip,
         OpenExport, OpenOutput, Finish, Fail, Active, Outputs, Exports
<1>2. at' \in Active \cup Ended /\ InputInv'
  BY <1>1, RunStaysActive
<1>3. at' # "idle"
  BY <1>2 DEF Active, Ended, Outputs, Exports
<1>4. UNCHANGED <<resolve, options>>
  BY <1>1, RunWrites
<1>5. MakesNoChapter'
  BY <1>1, <1>4
     DEF ShellInv, MakesNoChapter, Given, Target, CameraChapters
<1> QED
  BY <1>2, <1>3, <1>5 DEF ShellInv
-----------------------------------------------------------------------------
(* The commands of a script.                                               *)

\* The options of a command, one by one.
LEMMA OptionsIs ==
  ASSUME NEW command
  PROVE  /\ OptionsOf(command).inputs = command.inputs
         /\ OptionsOf(command).list = FALSE
         /\ OptionsOf(command).in_range = TRUE
         /\ OptionsOf(command).imu_axis_order
              = (DefaultOf("imu_axis_order") # NoPath)
         /\ OptionsOf(command).inspect_telemetry
              = DefaultOf("inspect_telemetry")
         /\ \A flag \in Outputs \ {"output_video"} :
              OptionsOf(command)[flag] = DefaultOf(flag)
         /\ OptionsOf(command).output_video = command.output
BY DEF OptionsOf, Outputs, Exports

\* A default is in one of the lines.
LEMMA DefaultIs ==
  ASSUME NEW flag, DefaultOf(flag) # NoPath
  PROVE  \E k \in 1 .. Len(defaults.lines) :
           /\ defaults.lines[k].flag = flag
           /\ defaults.lines[k].value = DefaultOf(flag)
<1> DEFINE lines == {k \in 1 .. Len(defaults.lines) :
                       defaults.lines[k].flag = flag}
<1>1. lines # {} /\ DefaultOf(flag)
                      = defaults.lines[CHOOSE k \in lines : TRUE].value
  BY DEF DefaultOf
<1>2. (CHOOSE k \in lines : TRUE) \in lines
  BY <1>1
<1> QED
  BY <1>1, <1>2

\* An output in the defaults, if there is one, is out of the way.
LEMMA DefaultOutputs ==
  ASSUME FilesInv, NEW flag \in Outputs, DefaultOf(flag) # NoPath
  PROVE  /\ DefaultOf(flag) \in Paths /\ ~Listed(resolve[DefaultOf(flag)])
         /\ \A overlay \in Overlays(defaults) :
              resolve[DefaultOf(flag)] # resolve[overlay]
<1>1. PICK k \in 1 .. Len(defaults.lines) :
        /\ defaults.lines[k].flag = flag
        /\ defaults.lines[k].value = DefaultOf(flag)
  BY DefaultIs
<1>2. defaults \in Settings /\ resolve \in Mounts
  BY DEF FilesInv
<1> QED
  BY <1>1, <1>2, SettingsAssumption

\* What a printed script says.
LEMMA CommandIs ==
  ASSUME FilesInv, EmitInv, PrintInv, stage = "printed",
         NEW k \in 1 .. Len(script)
  PROVE  /\ script[k].inputs \in Seq(Names) \ {<< >>}
         /\ script[k].inputs[1] \in CameraChapters
         /\ Session(script[k].inputs[1]) = script[k].session
         /\ script[k].inputs[1].chapter = script[k].session.first
         /\ script[k].output
              = OutputVideo(defaults.output_prefix, script[k].session)
         /\ script[k].output \in Overlays(defaults)
         /\ script[k].output \in Paths
<1>1. script[k] \in Commands
  BY DEF EmitInv
<1>2. script[k].inputs \in Seq(Names) /\ script[k].session.first \in Nat
  BY <1>1 DEF Commands, Sessions
<1>3. /\ CoversTheDay /\ script[k].inputs # << >>
      /\ script[k].output
           = OutputVideo(defaults.output_prefix, script[k].session)
  BY DEF PrintInv
<1>4. 1 \in 1 .. Len(script[k].inputs)
  BY <1>2, <1>3
<1> DEFINE Input(i) == {script[i].inputs[j] : j \in 1 .. Len(script[i].inputs)}
<1>5. UNION {Input(i) : i \in 1 .. Len(script)} = CameraChapters
  BY <1>3 DEF CoversTheDay
<1>6. script[k].inputs[1] \in Input(k)
  BY <1>4
<1>7. script[k].inputs[1] \in CameraChapters
  BY <1>5, <1>6
<1>8. /\ Session(script[k].inputs[1]) = script[k].session
      /\ script[k].inputs[1].chapter = script[k].session.first + 1 - 1
  BY <1>3, <1>4 DEF CoversTheDay
<1>9. camera \subseteq Names /\ defaults \in Settings
  BY FolderAssumption DEF FilesInv
<1>10. script[k].inputs[1] \in Names /\ IsChapter(script[k].inputs[1])
  BY <1>7, <1>9 DEF CameraChapters
<1>11. script[k].output \in Overlays(defaults)
  BY <1>3, <1>8, <1>10 DEF Overlays
<1>12. Overlays(defaults) \subseteq Paths
  BY <1>9, SettingsAssumption
<1> QED
  BY <1>2, <1>3, <1>7, <1>8, <1>11, <1>12

\* The options of a command of the script.
LEMMA ScriptOptions ==
  ASSUME FilesInv, EmitInv, PrintInv, stage = "printed",
         NEW k \in 1 .. Len(script)
  PROVE  OptionsOf(script[k]) \in Options
<1>1. \A flag \in Outputs : DefaultOf(flag) \in Paths \cup {NoPath}
  BY DefaultOutputs
<1>2. DefaultOf("inspect_telemetry") \in Paths \cup {NoPath}
  <2>1. ASSUME DefaultOf("inspect_telemetry") # NoPath
        PROVE  DefaultOf("inspect_telemetry") \in Paths
    <3>1. PICK i \in 1 .. Len(defaults.lines) :
            /\ defaults.lines[i].flag = "inspect_telemetry"
            /\ defaults.lines[i].value = DefaultOf("inspect_telemetry")
      BY <2>1, DefaultIs
    <3>2. defaults \in Settings
      BY DEF FilesInv
    <3> QED
      BY <3>1, <3>2, SettingsAssumption
  <2> QED
    BY <2>1
<1>3. script[k].output \in Paths /\ script[k].inputs \in Seq(Paths)
  <2>1. script[k].inputs \in Seq(Names) /\ script[k].output \in Paths
    BY CommandIs
  <2> QED
    BY <2>1, FolderAssumption
<1>4. DefaultOf("extract_gpmf") \in Paths \cup {NoPath}
      /\ DefaultOf("export_json") \in Paths \cup {NoPath}
      /\ DefaultOf("export_telemetry") \in Paths \cup {NoPath}
      /\ DefaultOf("render_frames") \in Paths \cup {NoPath}
  BY <1>1 DEF Outputs, Exports
<1>5. (DefaultOf("imu_axis_order") # NoPath) \in BOOLEAN
  OBVIOUS
<1> QED
  BY <1>2, <1>3, <1>4, <1>5 DEF OptionsOf, Options

\* A command of the script makes no new chapter.
LEMMA ScriptMakesNoChapter ==
  ASSUME FilesInv, EmitInv, PrintInv, stage = "printed",
         NEW k \in 1 .. Len(script), NEW flag \in Outputs,
         OptionsOf(script[k])[flag] # NoPath,
         Listed(resolve[OptionsOf(script[k])[flag]])
  PROVE  \E m \in CameraChapters :
           SameChapter(m, resolve[OptionsOf(script[k])[flag]])
<1>1. flag = "output_video"
  <2> SUFFICES ASSUME flag # "output_video" PROVE FALSE
    OBVIOUS
  <2>1. OptionsOf(script[k])[flag] = DefaultOf(flag)
    BY OptionsIs
  <2> QED
    BY <2>1, DefaultOutputs
<1>2. OptionsOf(script[k])[flag] = script[k].output
  BY <1>1, OptionsIs
<1> DEFINE first == script[k].inputs[1]
           there == resolve[script[k].output]
<1>3. /\ first \in CameraChapters /\ Session(first) = script[k].session
      /\ first.chapter = script[k].session.first
      /\ script[k].output
           = OutputVideo(defaults.output_prefix, Session(first))
      /\ script[k].output \in Overlays(defaults)
  BY CommandIs
<1>4. first \in Names /\ IsChapter(first)
  <2>1. camera \subseteq Names
    BY FolderAssumption DEF FilesInv
  <2> QED
    BY <1>3, <2>1 DEF CameraChapters
<1>5. /\ Session(script[k].output) = Session(first)
      /\ script[k].output.chapter = Session(first).first
  BY <1>3, <1>4, OverlayOf
<1>6. defaults \in Settings /\ resolve \in Mounts
  BY DEF FilesInv
<1>7. SameChapter(there, script[k].output)
  BY <1>2, <1>3, <1>6, SettingsAssumption
<1>8. SameChapter(first, there)
  BY <1>3, <1>5, <1>7 DEF SameChapter
<1> QED
  BY <1>2, <1>3, <1>8
-----------------------------------------------------------------------------
(* A command of the script runs.                                           *)

\* What is being written is no overlay that is finished: a new file is where
\* none was, and an export goes elsewhere.
LEMMA OverlaysStay ==
  ASSUME FilesInv, EmitInv, PrintInv, ShellInv, RunningInv, running > 0, Run,
         NEW k \in 1 .. Len(script), FinishedOverlay(k)
  PROVE  disk'[resolve[script[k].output]] = disk[resolve[script[k].output]]
<1>1. /\ stage = "printed" /\ options = OptionsOf(script[running])
      /\ running \in 1 .. Len(script) /\ at # "idle"
      /\ writing => disk[Target(at)].state = "partial"
  BY DEF RunningInv, Active, Ended, Outputs, Exports
<1>2. InputInv
  BY <1>1 DEF ShellInv
<1>3. script[k].output \in Paths /\ script[k].output \in Overlays(defaults)
  BY <1>1, CommandIs
<1> DEFINE file == resolve[script[k].output]
<1>4. file \in Paths /\ disk \in [Paths -> Content]
  BY <1>2, <1>3 DEF InputInv, InvocationType
<1>5. disk[file].state = "complete"
  BY DEF FinishedOverlay
<1>6. CASE \/ Parse \/ Inspect \/ ReadInputList \/ Chapters \/ Single \/ Skip
           \/ Fail
  BY <1>6 DEF Parse, Inspect, ReadInputList, Chapters, Single, Skip, Fail, Goto
<1> SUFFICES ASSUME OpenExport \/ OpenOutput \/ Finish
             PROVE  /\ Target(at) # file
                    /\ \E c : disk' = [disk EXCEPT ![Target(at)] = c]
  BY <1>4, <1>6 DEF Run
<1>7. \E c : disk' = [disk EXCEPT ![Target(at)] = c]
  BY DEF OpenExport, OpenOutput, Finish, Write
<1>8. CASE OpenExport
  <2>1. at \in Outputs /\ at # "output_video" /\ options[at] # NoPath
    BY <1>8 DEF OpenExport, Outputs, Exports, Given
  <2>2. options[at] = DefaultOf(at)
    BY <1>1, <2>1, OptionsIs
  <2>3. resolve[DefaultOf(at)] # resolve[script[k].output]
    BY <1>3, <2>1, <2>2, DefaultOutputs
  <2> QED
    BY <1>7, <2>2, <2>3 DEF Target
<1>9. CASE OpenOutput
  <2>1. disk[Target(at)].state = "absent"
    BY <1>9 DEF OpenOutput, Absent
  <2> QED
    BY <1>5, <1>7, <2>1
<1>10. CASE Finish
  <2>1. writing
    BY <1>10 DEF Finish
  <2> QED
    BY <1>1, <1>5, <1>7, <2>1
<1> QED
  BY <1>8, <1>9, <1>10

\* A step of a running command.
LEMMA CommandGoesOn ==
  ASSUME FilesInv, EmitInv, PrintInv, ShellInv, RunningInv, Run,
         UNCHANGED <<generatorVars, camera, running, attempts>>
  PROVE  RunningInv'
<1> SUFFICES ASSUME running > 0 PROVE RunningInv'
  BY DEF RunningInv
<1> DEFINE command == script[running]
<1>1. /\ stage = "printed" /\ options = OptionsOf(command)
      /\ running \in 1 .. Len(script) /\ at \notin {"idle", "inspect"}
      /\ writing => disk[Target(at)].state = "partial"
      /\ \A k \in 1 .. running - 1 : FinishedOverlay(k)
  BY DEF RunningInv, Active, Ended, Outputs, Exports
<1>2. InputInv
  BY <1>1 DEF ShellInv
<1>3. /\ at \in Active /\ at' \in Active \cup Ended
      /\ UNCHANGED <<resolve, options>>
  BY <1>2, RunStaysActive, RunWrites
<1>4. command.inputs # << >> /\ command.output \in Paths
  BY <1>1, CommandIs
<1>5. /\ options.inputs = command.inputs
      /\ options.output_video = command.output
      /\ options.output_video # NoPath
  BY <1>1, <1>4, OptionsIs, PathAssumption
<1>6. at' # "inspect"
  BY <1>1, <1>4, <1>5
     DEF Run, Parse, Accepted, Inspect, ReadInputList, Chapters, Single, Skip,
         OpenExport, OpenOutput, Finish, Fail, Goto, After, Outputs, Exports
<1>7. writing' => disk'[Target(at')].state = "partial"
  <2> SUFFICES ASSUME writing'
               PROVE  disk'[Target(at)].state = "partial" /\ at' = at
    OBVIOUS
  <2>1. OpenExport \/ OpenOutput
    BY <1>2 DEF InputInv, Run, Parse, Inspect, ReadInputList, Chapters, Single,
                Skip, Finish, Fail, Goto, Outputs, Exports
  <2>2. at \in Outputs /\ Given(at) /\ Write("partial") /\ at' = at
    BY <2>1 DEF OpenExport, OpenOutput, Outputs
  <2>3. Target(at) \in Paths
    BY <1>2, <2>2, TargetIs
  <2> QED
    BY <1>2, <2>2, <2>3 DEF Write, InputInv, InvocationType
<1>8. Target(at)' = Target(at')
  BY <1>3 DEF Target
<1>9. ASSUME NEW k \in 1 .. running - 1 PROVE FinishedOverlay(k)'
  <2>1. k \in 1 .. Len(script) /\ FinishedOverlay(k)
    BY <1>1
  <2>2. disk'[resolve[script[k].output]] = disk[resolve[script[k].output]]
    BY <2>1, OverlaysStay
  <2> QED
    BY <1>3, <2>1, <2>2 DEF FinishedOverlay, generatorVars
<1>10. ASSUME at' = "ok" PROVE FinishedOverlay(running)'
  <2>1. Finish /\ at = "output_video"
    BY <1>1, <1>5, <1>10
       DEF Run, Parse, Inspect, ReadInputList, Chapters, Single, Skip,
           OpenExport, OpenOutput, Finish, Fail, Goto, After, Outputs, Exports,
           Given
  <2>2. Write("complete")
    BY <2>1 DEF Finish, Exports
  <2>3. Target(at) = resolve[command.output] /\ Target(at) \in Paths
    BY <1>2, <1>4, <1>5, <2>1 DEF Target, InputInv, InvocationType
  <2>4. disk'[resolve[command.output]]
          = [state |-> "complete", of |-> command.inputs]
    BY <1>2, <1>5, <2>2, <2>3 DEF Write, InputInv, InvocationType
  <2> QED
    BY <1>3, <2>4 DEF FinishedOverlay, generatorVars
<1>11. OptionsOf(command)' = OptionsOf(command)
  BY DEF OptionsOf, DefaultOf, generatorVars
<1>12. /\ stage' = "printed" /\ running' \in 1 .. Len(script')
       /\ options' = OptionsOf(command)'
  BY <1>1, <1>3, <1>11 DEF generatorVars
<1> QED
  BY <1>3, <1>6, <1>7, <1>8, <1>9, <1>10, <1>12 DEF RunningInv, generatorVars
-----------------------------------------------------------------------------
(* The shell and its user.                                                 *)

\* A step that writes no file leaves the folder as it is.
LEMMA FilesUntouched ==
  ASSUME FilesInv, NamesInv, UNCHANGED <<resolve, disk, camera, defaults>>
  PROVE  FilesInv' /\ NamesInv' /\ Folder' = Folder
<1>1. Folder' = Folder /\ CameraChapters' = CameraChapters
  BY DEF Folder, CameraChapters
<1> QED
  BY <1>1 DEF FilesInv, NamesInv

\* Any command that makes no new chapter may begin.
LEMMA CommandBegins ==
  ASSUME FilesInv, writing = FALSE, NEW command \in Options, Begin(command),
         \A flag \in Outputs :
           command[flag] # NoPath /\ Listed(resolve[command[flag]]) =>
             \E m \in CameraChapters :
               SameChapter(m, resolve[command[flag]]),
         running' \in Nat, attempts' \in Nat
  PROVE  ShellInv'
<1>1. /\ at' = "parse" /\ options' = command /\ writing' = FALSE
      /\ UNCHANGED <<resolve, disk, camera>>
  BY DEF Begin
<1>2. /\ resolve \in [Paths -> Paths] /\ disk \in [Paths -> Content]
  BY FolderAssumption DEF FilesInv
<1>3. InputInv'
  BY <1>1, <1>2 DEF InputInv, InvocationType, Active, Outputs, Exports
<1>4. MakesNoChapter'
  BY <1>1 DEF MakesNoChapter, Given, Target, CameraChapters
<1> QED
  BY <1>1, <1>3, <1>4 DEF ShellInv

\* A command of the script begins, after all those before it.
LEMMA ScriptCommandBegins ==
  ASSUME DayInv, stage = "printed", writing = FALSE, NEW k \in 1 .. Len(script),
         Begin(OptionsOf(script[k])), running' = k, attempts' \in Nat,
         \A j \in 1 .. k - 1 : FinishedOverlay(j)
  PROVE  DayInv'
<1> USE DEF DayInv
<1>1. /\ at' = "parse" /\ options' = OptionsOf(script[k]) /\ writing' = FALSE
      /\ UNCHANGED <<generatorVars, resolve, disk, camera>>
  BY DEF Begin
<1>2. UNCHANGED <<defaults, script, stage>>
  BY <1>1 DEF generatorVars
<1>3. FilesInv' /\ NamesInv' /\ Folder' = Folder
  BY <1>1, <1>2, FilesUntouched
<1>4. ScanInv' /\ EmitInv' /\ PrintInv'
  BY <1>1, <1>3, GeneratorWaits
<1>5. OptionsOf(script[k]) \in Options
  BY ScriptOptions
<1>6. \A flag \in Outputs :
        OptionsOf(script[k])[flag] # NoPath
          /\ Listed(resolve[OptionsOf(script[k])[flag]]) =>
            \E m \in CameraChapters :
              SameChapter(m, resolve[OptionsOf(script[k])[flag]])
  BY ScriptMakesNoChapter
<1>7. ShellInv'
  <2>1. running' \in Nat
    BY DEF EmitInv
  <2> QED
    BY <1>5, <1>6, <2>1, CommandBegins
<1>8. RunningInv'
  <2>2. \A j \in 1 .. k - 1 : FinishedOverlay(j)'
    BY <1>1, <1>2 DEF FinishedOverlay
  <2>3. OptionsOf(script[running])' = OptionsOf(script[k])
    <3>1. ASSUME NEW flag PROVE DefaultOf(flag)' = DefaultOf(flag)
      BY <1>2 DEF DefaultOf
    <3>2. script'[running'] = script[k]
      BY <1>2
    <3> QED
      BY <3>1, <3>2, Zenon DEF OptionsOf
  <2> QED
    BY <1>1, <1>2, <2>2, <2>3 DEF RunningInv, Active, Ended, Outputs, Exports
<1> QED
  BY <1>3, <1>4, <1>7, <1>8

\* A command typed by hand begins.
LEMMA HandCommandBegins ==
  ASSUME DayInv, TypeCommand
  PROVE  DayInv'
<1> USE DEF DayInv
<1>1. PICK command \in ByHand :
        /\ \A k \in 1 .. Len(command.inputs) :
             resolve[command.inputs[k]] \in camera
        /\ Begin(command)
  BY DEF TypeCommand
<1>2. /\ UNCHANGED <<generatorVars, resolve, disk, camera>> /\ running' = 0
      /\ attempts' \in Nat /\ at = "idle"
  BY <1>1 DEF TypeCommand, Begin, Idle, ShellInv
<1>3. UNCHANGED defaults
  BY <1>2 DEF generatorVars
<1>4. FilesInv' /\ NamesInv' /\ Folder' = Folder
  BY <1>2, <1>3, FilesUntouched
<1>5. ScanInv' /\ EmitInv' /\ PrintInv'
  BY <1>2, <1>4, GeneratorWaits
<1>6. command \in Options
  BY ByHandAssumption
<1>7. ASSUME NEW flag \in Outputs, command[flag] # NoPath,
             Listed(resolve[command[flag]])
      PROVE  \E m \in CameraChapters : SameChapter(m, resolve[command[flag]])
  <2>1. camera \in Folders /\ resolve \in Mounts
    BY DEF FilesInv
  <2>2. \E m \in camera : IsChapter(m) /\ SameChapter(m, resolve[command[flag]])
    BY <1>1, <1>7, <2>1, ByHandAssumption
  <2> QED
    BY <2>2 DEF CameraChapters
<1>8. writing = FALSE
  BY <1>2 DEF ShellInv
<1>9. ShellInv'
  BY <1>1, <1>2, <1>6, <1>7, <1>8, CommandBegins
<1>10. RunningInv'
  BY <1>2 DEF RunningInv
<1> QED
  BY <1>4, <1>5, <1>9, <1>10

\* A step of the shell or its user keeps the invariant.
LEMMA ShellStep ==
  ASSUME DayInv, Shell
  PROVE  DayInv'
<1>1. CASE RunScript
  <2>1. /\ at = "idle" /\ stage = "printed" /\ Begin(OptionsOf(script[1]))
        /\ running' = 1 /\ attempts' \in Nat
    BY <1>1 DEF RunScript, Idle, DayInv, ShellInv
  <2>2. 1 \in 1 .. Len(script)
    <3>1. script # << >> /\ script \in Seq(Commands)
      BY <2>1 DEF DayInv, PrintInv, EmitInv
    <3> QED
      BY <3>1
  <2>3. writing = FALSE
    BY <2>1 DEF DayInv, ShellInv, RunScript
  <2>4. \A j \in 1 .. 1 - 1 : FinishedOverlay(j)
    OBVIOUS
  <2> QED
    BY <2>1, <2>2, <2>3, <2>4, ScriptCommandBegins
<1>2. CASE TypeCommand
  BY <1>2, HandCommandBegins
<1>3. CASE GenerateAgain
  <2>1. /\ stage' = "defaults" /\ script' = << >>
        /\ UNCHANGED <<defaults, unread, chapters, resolve, disk, options, at,
                       writing, camera, running>>
        /\ at = "idle" /\ running = 0 /\ attempts' \in Nat
    BY <1>3 DEF GenerateAgain, Idle, invocationVars, DayInv, ShellInv
  <2>2. FilesInv' /\ NamesInv' /\ Folder' = Folder
    BY <2>1, FilesUntouched DEF DayInv
  <2>3. ShellInv'
    BY <2>1 DEF DayInv, ShellInv, Active, Outputs, Exports
  <2>4. ScanInv'
    BY <2>1, <2>2 DEF DayInv, ScanInv, Done
  <2>5. EmitInv' /\ PrintInv' /\ RunningInv'
    BY <2>1 DEF EmitInv, PrintInv, RunningInv
  <2> QED
    BY <2>2, <2>3, <2>4, <2>5 DEF DayInv
<1>4. CASE NextCommand
  <2>1. /\ at = "ok" /\ running \in 1 .. Len(script) - 1
        /\ Begin(OptionsOf(script[running + 1])) /\ running' = running + 1
        /\ attempts' = attempts
    BY <1>4 DEF NextCommand, Continues
  <2>2. running + 1 \in 1 .. Len(script) /\ running \in Nat /\ attempts \in Nat
    <3>1. script \in Seq(Commands)
      BY DEF DayInv, EmitInv
    <3> QED
      BY <2>1, <3>1 DEF DayInv, ShellInv
  <2>3. /\ stage = "printed" /\ FinishedOverlay(running)
        /\ \A k \in 1 .. running - 1 : FinishedOverlay(k)
    BY <2>1 DEF DayInv, RunningInv
  <2>4. InputInv
    BY <2>1 DEF DayInv, ShellInv
  <2>5. writing = FALSE
    BY <2>1, <2>4 DEF InputInv, InvocationType, Outputs, Exports
  <2>6. \A j \in 1 .. (running + 1) - 1 : FinishedOverlay(j)
    BY <2>2, <2>3
  <2> QED
    BY <2>1, <2>2, <2>3, <2>5, <2>6, ScriptCommandBegins
<1>5. CASE Prompt
  <2>1. /\ at' = "idle" /\ options' = NoOptions /\ running' = 0
        /\ UNCHANGED <<generatorVars, resolve, disk, writing, camera, attempts>>
        /\ at \in Ended
    BY <1>5 DEF Prompt
  <2>2. FilesInv' /\ NamesInv' /\ Folder' = Folder
    BY <2>1, FilesUntouched DEF DayInv, generatorVars
  <2>3. ScanInv' /\ EmitInv' /\ PrintInv'
    BY <2>1, <2>2, GeneratorWaits DEF DayInv
  <2>4. writing = FALSE
    BY <2>1 DEF DayInv, ShellInv, InputInv, InvocationType, Ended, Outputs,
                Exports
  <2>5. NoOptions \in Options
    BY DEF NoOptions, Options
  <2>6. ShellInv'
    BY <2>1, <2>4, <2>5 DEF DayInv, ShellInv, Active, Outputs, Exports
  <2>7. RunningInv'
    BY <2>1 DEF RunningInv
  <2> QED
    BY <2>2, <2>3, <2>6, <2>7 DEF DayInv
<1> QED
  BY <1>1, <1>2, <1>3, <1>4, <1>5 DEF Shell
-----------------------------------------------------------------------------
(* The chapters of a session, counted.                                     *)

\* A set of natural numbers has a least element.
LEMMA NatLeast ==
  ASSUME NEW S \in SUBSET Nat, S # {}
  PROVE  \E n \in S : \A m \in S : n <= m
<1>1. IsWellFoundedOn(OpToRel(<, Nat), Nat)
  BY NatLessThanWellFounded
<1>2. PICK n \in S : \A m \in S : ~ (<<m, n>> \in OpToRel(<, Nat))
  BY <1>1, WFMin
<1>3. \A m \in S : ~(m < n)
  BY <1>2 DEF OpToRel
<1> QED
  BY <1>3

\* A set that has, with a number above the first, the one below it, is an
\* interval.
LEMMA GaplessSet ==
  ASSUME NEW I \in SUBSET Nat, NEW first \in Nat, I # {},
         \A i \in I : first <= i /\ i <= 99,
         \A i \in I : i > first => i - 1 \in I
  PROVE  \E n \in Nat \ {0} : I = first .. first + n - 1
<1> DEFINE Out == {i \in Nat : i >= first /\ i \notin I}
<1>1. PICK last \in Out : \A m \in Out : last <= m
  <2>1. 100 + first \in Out
    OBVIOUS
  <2> QED
    BY <2>1, NatLeast
<1> DEFINE Above == {i \in I : i > last}
<1>2. Above = {}
  <2> SUFFICES ASSUME Above # {} PROVE FALSE
    OBVIOUS
  <2>1. PICK i \in Above : \A m \in Above : i <= m
    <3>1. Above \in SUBSET Nat
      OBVIOUS
    <3> QED
      BY <3>1, NatLeast
  <2>2. i - 1 \in I /\ i - 1 \in Nat
    BY <2>1
  <2>3. i - 1 = last
    BY <2>1, <2>2
  <2> QED
    BY <2>2, <2>3
<1>3. I \subseteq first .. last - 1
  BY <1>2
<1>4. first .. last - 1 \subseteq I
  BY <1>1
<1>5. last - first \in Nat \ {0}
  <2>1. PICK i \in I : TRUE
    OBVIOUS
  <2>2. first <= i /\ i <= last - 1 /\ i \in Nat /\ last \in Nat
    BY <1>1, <1>3, <2>1
  <2> QED
    BY <2>2
<1>6. last - 1 = first + (last - first) - 1
  OBVIOUS
<1> QED
  BY <1>3, <1>4, <1>5, <1>6

\* An entry of the table is a chapter of the folder.
LEMMA ChapterEntries ==
  ASSUME FilesInv, ScanInv, NEW c \in chapters
  PROVE  /\ c.file \in Names /\ IsChapter(c.file) /\ c.file \in Folder
         /\ c.session = Session(c.file) /\ c.session \in Sessions
         /\ c.index = c.file.chapter /\ c.index \in Nat /\ c.index <= 99
         /\ c.session.first \in Nat /\ c.session.first <= c.index
<1>1. /\ c.file \in Folder /\ IsChapter(c.file) /\ c = Entry(c.file)
  BY DEF ScanInv
<1>2. c.file \in Names
  BY <1>1, CameraFiles
<1>3. c.session = Session(c.file) /\ c.index = c.file.chapter
  BY <1>1 DEF Entry
<1>4. /\ Session(c.file) \in Sessions /\ c.file.chapter \in Nat
      /\ c.file.chapter <= 99 /\ Session(c.file).first <= c.file.chapter
  BY <1>1, <1>2, ChapterNames
<1>5. \A s \in Sessions : s.first \in Nat
  BY DEF Sessions
<1> QED
  BY <1>1, <1>2, <1>3, <1>4, <1>5

\* A session without a gap has as many chapters as there are numbers from its
\* first to its last.
LEMMA ChaptersCounted ==
  ASSUME FilesInv, ScanInv, NEW s, Of(s) # {}, Gapless(s)
  PROVE  /\ Cardinality(Of(s)) \in Nat \ {0}
         /\ \A k \in 1 .. Cardinality(Of(s)) :
              \E c \in Of(s) : c.index = s.first + k - 1
         /\ \A c \in Of(s) : c.index - s.first + 1 \in 1 .. Cardinality(Of(s))
<1> DEFINE I == {c.index : c \in Of(s)}
<1>1. /\ Of(s) \subseteq chapters /\ s \in Sessions /\ s.first \in Nat
      /\ \A c \in Of(s) : c.session = s
  BY ChapterEntries DEF Of
<1>2. \A c \in Of(s) : c.index \in Nat /\ s.first <= c.index /\ c.index <= 99
  BY <1>1, ChapterEntries
<1>3. PICK n \in Nat \ {0} : I = s.first .. s.first + n - 1
  <2>1. \A i \in I : i > s.first => i - 1 \in I
    <3> SUFFICES ASSUME NEW c \in Of(s), c.index > s.first
                 PROVE  c.index - 1 \in I
      OBVIOUS
    <3>1. PICK b \in Of(s) : b.index = c.index - 1
      BY DEF Gapless
    <3> QED
      BY <3>1
  <2>2. I \in SUBSET Nat /\ I # {} /\ \A i \in I : s.first <= i /\ i <= 99
    BY <1>2
  <2> HIDE DEF I
  <2> QED
    BY <1>1, <2>1, <2>2, GaplessSet
<1> DEFINE f == [c \in Of(s) |-> c.index]
<1>4. f \in Bijection(Of(s), I)
  <2>1. f \in [Of(s) -> I]
    OBVIOUS
  <2>2. \A b, c \in Of(s) : f[b] = f[c] => b = c
    BY <1>1 DEF ScanInv
  <2>3. \A i \in I : \E c \in Of(s) : f[c] = i
    OBVIOUS
  <2> HIDE DEF f, I
  <2> QED
    BY <2>1, <2>2, <2>3 DEF Bijection, Injection, Surjection, IsInjective
<1>5. IsFiniteSet(I) /\ Cardinality(I) = n
  <2>1. s.first \in Int /\ s.first + n - 1 \in Int
    BY <1>1
  <2>2. /\ IsFiniteSet(s.first .. s.first + n - 1)
        /\ Cardinality(s.first .. s.first + n - 1)
             = IF s.first > s.first + n - 1 THEN 0
               ELSE (s.first + n - 1) - s.first + 1
    BY <2>1, FS_Interval
  <2>3. Cardinality(s.first .. s.first + n - 1) = n
    BY <1>1, <2>2
  <2> HIDE DEF I
  <2> QED
    BY <1>3, <2>2, <2>3
<1>6. Cardinality(Of(s)) = n
  <2> HIDE DEF f, I
  <2>1. f \in Injection(Of(s), I) /\ f \in Surjection(Of(s), I)
    BY <1>4 DEF Bijection
  <2>2. IsFiniteSet(Of(s))
        /\ (Cardinality(Of(s)) = Cardinality(I) <=> f \in Surjection(Of(s), I))
    BY <1>5, <2>1, FS_Injection
  <2> QED
    BY <1>5, <2>1, <2>2
<1>7. \A k \in 1 .. n : \E c \in Of(s) : c.index = s.first + k - 1
  <2> SUFFICES ASSUME NEW k \in 1 .. n
               PROVE  \E c \in Of(s) : c.index = s.first + k - 1
    OBVIOUS
  <2>1. s.first + k - 1 \in s.first .. s.first + n - 1
    BY <1>1
  <2> QED
    BY <1>3, <2>1
<1>8. \A c \in Of(s) : c.index - s.first + 1 \in 1 .. n
  <2> SUFFICES ASSUME NEW c \in Of(s) PROVE c.index - s.first + 1 \in 1 .. n
    OBVIOUS
  <2>1. c.index \in s.first .. s.first + n - 1
    BY <1>3
  <2> QED
    BY <1>1, <1>2, <2>1
<1> QED
  BY <1>6, <1>7, <1>8

\* The command of such a session has its chapters, in order.
LEMMA CommandHasChapters ==
  ASSUME FilesInv, ScanInv, NEW s, Of(s) # {}, Gapless(s)
  PROVE  /\ Command(s) \in Commands /\ Command(s).session = s
         /\ Command(s).output = OutputVideo(defaults.output_prefix, s)
         /\ Command(s).inputs # << >>
         /\ \A i \in 1 .. Len(Command(s).inputs) :
              \E c \in Of(s) : /\ Command(s).inputs[i] = c.file
                               /\ c.index = s.first + i - 1
         /\ \A c \in Of(s) : \E i \in 1 .. Len(Command(s).inputs) :
              Command(s).inputs[i] = c.file
<1> DEFINE n == Cardinality(Of(s))
           chosen(k) == CHOOSE c \in Of(s) : c.index = s.first + k - 1
<1>1. /\ n \in Nat \ {0}
      /\ \A k \in 1 .. n : \E c \in Of(s) : c.index = s.first + k - 1
      /\ \A c \in Of(s) : c.index - s.first + 1 \in 1 .. n
  BY ChaptersCounted
<1>2. \A k \in 1 .. n : chosen(k) \in Of(s)
                          /\ chosen(k).index = s.first + k - 1
  BY <1>1
<1>3. /\ Command(s).inputs = [k \in 1 .. n |-> chosen(k).file]
      /\ Command(s).session = s
      /\ Command(s).output = OutputVideo(defaults.output_prefix, s)
      /\ Command(s) = [session |-> Command(s).session,
                       inputs |-> Command(s).inputs,
                       output |-> Command(s).output]
  BY DEF Command
<1> HIDE DEF n, chosen
<1>4. /\ Of(s) \subseteq chapters /\ s \in Sessions /\ s.first \in Nat
      /\ \A c \in Of(s) : c.session = s
  BY ChapterEntries DEF Of
<1>5. \A k \in 1 .. n : chosen(k).file \in Names
  BY <1>2, <1>4, ChapterEntries
<1>6. Command(s).inputs \in Seq(Names) /\ Len(Command(s).inputs) = n
  <2>1. Command(s).inputs \in [1 .. n -> Names] /\ n \in Nat
    BY <1>1, <1>3, <1>5
  <2> QED
    BY <2>1
<1>7. Command(s).output \in Paths
  <2>1. PICK c \in Of(s) : TRUE
    OBVIOUS
  <2>2. c.file \in Names /\ IsChapter(c.file) /\ s = Session(c.file)
    BY <1>4, ChapterEntries
  <2>3. OutputVideo(defaults.output_prefix, s) \in Overlays(defaults)
    BY <2>2 DEF Overlays
  <2>4. defaults \in Settings
    BY DEF FilesInv
  <2> QED
    BY <1>3, <2>3, <2>4, SettingsAssumption
<1>8. Command(s) \in Commands
  BY <1>3, <1>4, <1>6, <1>7 DEF Commands
<1>9. \A i \in 1 .. n :
        \E c \in Of(s) : /\ Command(s).inputs[i] = c.file
                         /\ c.index = s.first + i - 1
  BY <1>2, <1>3
<1>10. ASSUME NEW c \in Of(s)
       PROVE  \E i \in 1 .. n : Command(s).inputs[i] = c.file
  <2> DEFINE i == c.index - s.first + 1
  <2>1. i \in 1 .. n /\ c.index \in Nat
    BY <1>1, <1>4, ChapterEntries
  <2>2. chosen(i) \in Of(s) /\ chosen(i).index = c.index
    BY <1>2, <1>4, <2>1
  <2>3. chosen(i) = c
    BY <1>4, <2>2 DEF ScanInv
  <2> QED
    BY <1>3, <2>1, <2>3
<1>11. Command(s).inputs # << >>
  BY <1>1, <1>6
<1> QED
  BY <1>3, <1>6, <1>8, <1>9, <1>10, <1>11

\* There is an earliest session.
LEMMA EarliestIs ==
  ASSUME FilesInv, ScanInv, Waiting # {}
  PROVE  /\ Earliest \in Waiting /\ Waiting \subseteq Sessions
         /\ \A r \in Waiting \ {Earliest} : Precedes(Earliest, r)
<1>1. Waiting \subseteq Sessions
  BY ChapterEntries DEF Waiting
<1> DEFINE Ranks == {Rank[s.letters] : s \in Waiting}
<1>2. \A s \in Sessions : Rank[s.letters] \in Nat /\ s.id \in Nat
  BY DEF Rank, Sessions
<1>3. PICK rank \in Ranks : \A m \in Ranks : rank <= m
  <2>1. Ranks \in SUBSET Nat /\ Ranks # {}
    BY <1>1, <1>2
  <2> QED
    BY <2>1, NatLeast
<1> DEFINE Ids == {s.id : s \in {s \in Waiting : Rank[s.letters] = rank}}
<1>4. PICK id \in Ids : \A m \in Ids : id <= m
  <2>1. Ids \in SUBSET Nat /\ Ids # {}
    BY <1>1, <1>2
  <2> QED
    BY <2>1, NatLeast
<1>5. PICK s \in Waiting : Rank[s.letters] = rank /\ s.id = id
  BY <1>4
<1>6. ASSUME NEW r \in Waiting, r # s PROVE Precedes(s, r)
  <2>1. Rank[r.letters] \in Nat /\ rank <= Rank[r.letters] /\ rank \in Nat
    BY <1>1, <1>2, <1>3
  <2>2. CASE Rank[r.letters] # rank
    BY <1>5, <2>1, <2>2 DEF Precedes
  <2>3. CASE Rank[r.letters] = rank
    <3>1. id <= r.id /\ r.id \in Nat /\ id \in Nat
      BY <1>1, <1>2, <1>4, <1>5, <2>3
    <3>2. r.letters = s.letters
      BY <1>1, <1>5, <2>3 DEF Rank, Sessions
    <3>3. r.first = s.first
      <4>1. ASSUME NEW c \in chapters
            PROVE  c.session.first
                     = IF c.session.letters = "GOPR" THEN 0 ELSE 1
        <5>1. c.session = Session(c.file)
          BY ChapterEntries
        <5>2. CASE c.file.letters \in {"GOPR", "GP"}
          BY <5>1, <5>2 DEF Session
        <5>3. CASE c.file.letters \notin {"GOPR", "GP"}
          BY <5>1, <5>3 DEF Session
        <5> QED
          BY <5>2, <5>3
      <4> QED
        BY <3>2, <4>1 DEF Waiting
    <3>4. r.id # s.id
      BY <1>1, <1>6, <3>2, <3>3 DEF Sessions
    <3> QED
      BY <1>5, <3>1, <3>2, <3>4 DEF Precedes
  <2> QED
    BY <2>2, <2>3
<1>7. \E t \in Waiting : \A r \in Waiting \ {t} : Precedes(t, r)
  BY <1>6
<1> QED
  BY <1>1, <1>7 DEF Earliest
-----------------------------------------------------------------------------
(* The generator.                                                          *)

\* Once the folder is read, the table is the camera's day: a file beside a
\* chapter of the same number would have been an error.
LEMMA TableIsTheDay ==
  ASSUME FilesInv, NamesInv, ScanInv, stage = "emit"
  PROVE  /\ \A c \in chapters : c.file \in CameraChapters
         /\ \A n \in CameraChapters : Entry(n) \in chapters
<1>1. \A n \in CameraChapters : Entry(n) \in chapters
  BY DEF ScanInv
<1>2. ASSUME NEW c \in chapters PROVE c.file \in CameraChapters
  <2>1. c.file \in Folder /\ IsChapter(c.file) /\ c = Entry(c.file)
    BY DEF ScanInv
  <2>2. PICK m \in CameraChapters : SameChapter(m, c.file)
    BY <2>1 DEF NamesInv
  <2>3. Entry(m) \in chapters /\ Entry(m).session = c.session
        /\ Entry(m).index = c.index /\ Entry(m).file = m
    BY <1>1, <2>1, <2>2 DEF Entry, SameChapter
  <2>4. Entry(m) = c
    BY <2>3 DEF ScanInv
  <2> QED
    BY <2>3, <2>4
<1> QED
  BY <1>1, <1>2

\* If no session has a gap, the day is whole.
LEMMA DayIsWhole ==
  ASSUME FilesInv, NamesInv, ScanInv, stage = "emit",
         \A c \in chapters : Gapless(c.session)
  PROVE  Whole
<1>1. /\ \A c \in chapters : c.file \in CameraChapters
      /\ \A n \in CameraChapters : Entry(n) \in chapters
  BY TableIsTheDay
<1>2. CameraChapters # {}
  BY <1>1 DEF ScanInv
<1>3. ASSUME NEW m \in CameraChapters, NEW n \in CameraChapters,
             Session(m) = Session(n), m.chapter = n.chapter
      PROVE  m = n
  <2>1. /\ Entry(m) \in chapters /\ Entry(n) \in chapters
        /\ Entry(m).session = Entry(n).session
        /\ Entry(m).index = Entry(n).index
    BY <1>1, <1>3 DEF Entry
  <2>2. Entry(m) = Entry(n)
    BY <2>1 DEF ScanInv
  <2> QED
    BY <2>2 DEF Entry
<1>4. ASSUME NEW n \in CameraChapters, n.chapter > Session(n).first
      PROVE  \E m \in CameraChapters :
               Session(m) = Session(n) /\ m.chapter = n.chapter - 1
  <2>1. /\ Entry(n) \in chapters /\ Entry(n).session = Session(n)
        /\ Entry(n).index = n.chapter
    BY <1>1 DEF Entry
  <2>2. Entry(n) \in Of(Session(n)) /\ Gapless(Session(n))
    BY <2>1 DEF Of
  <2>3. PICK b \in Of(Session(n)) : b.index = n.chapter - 1
    BY <1>4, <2>1, <2>2 DEF Gapless
  <2>4. b \in chapters /\ b.session = Session(n)
    BY DEF Of
  <2>5. Session(b.file) = b.session /\ b.file.chapter = b.index
    BY <2>4, ChapterEntries
  <2> QED
    BY <1>1, <2>3, <2>4, <2>5
<1> QED
  BY <1>2, <1>3, <1>4 DEF Whole

\* The script is the day once no session waits.
LEMMA ScriptCoversTheDay ==
  ASSUME FilesInv, NamesInv, ScanInv, EmitInv, stage = "emit", Waiting = {}
  PROVE  /\ Whole /\ CoversTheDay /\ script # << >>
         /\ \A k \in 1 .. Len(script) :
              /\ script[k].inputs # << >>
              /\ script[k].output
                   = OutputVideo(defaults.output_prefix, script[k].session)
<1> DEFINE Input(k) == {script[k].inputs[i] : i \in 1 .. Len(script[k].inputs)}
<1>1. /\ \A c \in chapters : c.file \in CameraChapters
      /\ \A n \in CameraChapters : Entry(n) \in chapters
  BY TableIsTheDay
<1>2. \A c \in chapters : \E k \in 1 .. Len(script) :
        c.session = script[k].session
  BY DEF Waiting
<1>3. ASSUME NEW k \in 1 .. Len(script)
      PROVE  /\ Of(script[k].session) # {} /\ Gapless(script[k].session)
             /\ script[k] = Command(script[k].session)
             /\ script[k].session \in Sessions
             /\ \A j \in 1 .. k - 1 :
                  Precedes(script[j].session, script[k].session)
    <2>1. InOrderSoFar
      BY DEF EmitInv
    <2>2. PICK c \in chapters : c.session = script[k].session
      BY <2>1 DEF InOrderSoFar
    <2>3. c \in Of(script[k].session) /\ c.session \in Sessions
      BY <2>2, ChapterEntries DEF Of
    <2> QED
      BY <2>1, <2>2, <2>3 DEF InOrderSoFar
<1>4. Whole
  <2>1. \A c \in chapters : Gapless(c.session)
    BY <1>2, <1>3
  <2> QED
    BY <2>1, DayIsWhole
<1>5. script # << >>
  <2>1. PICK c \in chapters : TRUE
    BY DEF ScanInv
  <2>2. PICK k \in 1 .. Len(script) : TRUE
    BY <1>2, <2>1
  <2>3. Len(<< >>) = 0
    OBVIOUS
  <2> QED
    BY <2>2, <2>3
<1>6. ASSUME NEW k \in 1 .. Len(script)
      PROVE  /\ script[k].inputs # << >>
             /\ script[k].output
                  = OutputVideo(defaults.output_prefix, script[k].session)
             /\ \A i \in 1 .. Len(script[k].inputs) :
                  \E c \in Of(script[k].session) :
                    /\ script[k].inputs[i] = c.file
                    /\ c.index = script[k].session.first + i - 1
             /\ \A c \in Of(script[k].session) :
                  \E i \in 1 .. Len(script[k].inputs) :
                    script[k].inputs[i] = c.file
  <2> DEFINE s == script[k].session
  <2>1. Of(s) # {} /\ Gapless(s) /\ script[k] = Command(s)
    BY <1>3
  <2> HIDE DEF s
  <2>2. /\ Command(s).output = OutputVideo(defaults.output_prefix, s)
        /\ Command(s).inputs # << >>
        /\ \A i \in 1 .. Len(Command(s).inputs) :
             \E c \in Of(s) : /\ Command(s).inputs[i] = c.file
                              /\ c.index = s.first + i - 1
        /\ \A c \in Of(s) : \E i \in 1 .. Len(Command(s).inputs) :
             Command(s).inputs[i] = c.file
    BY <2>1, CommandHasChapters
  <2> QED
    BY <2>1, <2>2 DEF s
<1>7. \A k \in 1 .. Len(script) : Input(k) \subseteq CameraChapters
  <2> SUFFICES ASSUME NEW k \in 1 .. Len(script),
                      NEW i \in 1 .. Len(script[k].inputs)
               PROVE  script[k].inputs[i] \in CameraChapters
    OBVIOUS
  <2>1. PICK c \in Of(script[k].session) : script[k].inputs[i] = c.file
    BY <1>6
  <2> QED
    BY <1>1, <2>1 DEF Of
<1>8. ASSUME NEW n \in CameraChapters
      PROVE  \E k \in 1 .. Len(script) : n \in Input(k)
  <2>1. /\ Entry(n) \in chapters /\ Entry(n).session = Session(n)
        /\ Entry(n).file = n
    BY <1>1 DEF Entry
  <2>2. PICK k \in 1 .. Len(script) : Session(n) = script[k].session
    BY <1>2, <2>1
  <2>3. Entry(n) \in Of(script[k].session)
    BY <2>1, <2>2 DEF Of
  <2>4. \E i \in 1 .. Len(script[k].inputs) : script[k].inputs[i] = n
    BY <1>6, <2>1, <2>3
  <2> QED
    BY <2>4
<1>9. UNION {Input(k) : k \in 1 .. Len(script)} = CameraChapters
  BY <1>7, <1>8
<1>10. ASSUME NEW k \in 1 .. Len(script), NEW i \in 1 .. Len(script[k].inputs)
       PROVE  /\ Session(script[k].inputs[i]) = script[k].session
              /\ script[k].inputs[i].chapter
                   = script[k].session.first + i - 1
  <2>1. PICK c \in Of(script[k].session) :
          /\ script[k].inputs[i] = c.file
          /\ c.index = script[k].session.first + i - 1
    BY <1>6
  <2>2. c \in chapters /\ c.session = script[k].session
    BY DEF Of
  <2>3. c.session = Session(c.file) /\ c.index = c.file.chapter
    BY <2>2, ChapterEntries
  <2> QED
    BY <2>1, <2>2, <2>3
<1>11. ASSUME NEW j \in 1 .. Len(script), NEW k \in 1 .. Len(script), j < k
       PROVE  /\ Precedes(script[j].session, script[k].session)
              /\ script[j].output # script[k].output
  <2>1. Precedes(script[j].session, script[k].session)
    <3>1. j \in 1 .. k - 1
      BY <1>11
    <3> QED
      BY <1>3, <3>1
  <2> QED
    BY <1>3, <1>6, <2>1, OverlaysDiffer
<1>12. CoversTheDay
  BY <1>9, <1>10, <1>11 DEF CoversTheDay
<1> QED
  BY <1>4, <1>5, <1>6, <1>12

\* A command is added.
LEMMA Emits ==
  ASSUME FilesInv, ScanInv, EmitInv, stage = "emit", Waiting # {},
         Gapless(Earliest), script' = Append(script, Command(Earliest)),
         UNCHANGED <<stage, defaults, unread, chapters>>
  PROVE  EmitInv'
<1> DEFINE n == Len(script)
<1>1. /\ Earliest \in Waiting /\ Waiting \subseteq Sessions
      /\ \A r \in Waiting \ {Earliest} : Precedes(Earliest, r)
  BY EarliestIs
<1>2. Of(Earliest) # {} /\ \E c \in chapters : c.session = Earliest
  BY <1>1 DEF Waiting, Of
<1>3. Command(Earliest) \in Commands /\ Command(Earliest).session = Earliest
  BY <1>2, CommandHasChapters
<1>4. script \in Seq(Commands) /\ InOrderSoFar
  BY DEF EmitInv
<1>5. /\ script' \in Seq(Commands) /\ Len(script') = n + 1 /\ n \in Nat
      /\ script'[n + 1] = Command(Earliest)
      /\ \A k \in 1 .. n : script'[k] = script[k]
  BY <1>3, <1>4
<1>6. Waiting' \subseteq Waiting \ {Earliest}
  <2>1. \A k \in 1 .. n : script'[k].session = script[k].session
    BY <1>5
  <2>2. script'[n + 1].session = Earliest
    BY <1>3, <1>5
  <2> HIDE DEF Earliest
  <2> QED
    BY <1>5, <2>1, <2>2 DEF Waiting
<1>7. ASSUME NEW s
      PROVE  (Gapless(s) <=> Gapless(s)') /\ Command(s)' = Command(s)
  BY DEF Gapless, Command, Of
<1> DEFINE e == Earliest
<1> HIDE DEF n, e
<1>8. \A k \in 1 .. n :
        /\ \E c \in chapters' : c.session = script'[k].session
        /\ Gapless(script[k].session)
        /\ script'[k] = Command(script[k].session)
        /\ \A s \in Waiting' : Precedes(script'[k].session, s)
        /\ \A j \in 1 .. k - 1 :
             Precedes(script'[j].session, script'[k].session)
  <2> SUFFICES ASSUME NEW k \in 1 .. n
               PROVE  /\ \E c \in chapters' : c.session = script'[k].session
                      /\ Gapless(script[k].session)
                      /\ script'[k] = Command(script[k].session)
                      /\ \A s \in Waiting' : Precedes(script'[k].session, s)
                      /\ \A j \in 1 .. k - 1 :
                           Precedes(script'[j].session, script'[k].session)
    OBVIOUS
  <2>1. /\ \E c \in chapters : c.session = script[k].session
        /\ Gapless(script[k].session)
        /\ script[k] = Command(script[k].session)
        /\ \A s \in Waiting : Precedes(script[k].session, s)
        /\ \A j \in 1 .. k - 1 : Precedes(script[j].session, script[k].session)
    BY <1>4 DEF InOrderSoFar, n
  <2>2. script'[k] = script[k] /\ \A j \in 1 .. k - 1 : script'[j] = script[j]
    BY <1>5
  <2> QED
    BY <1>6, <2>1, <2>2
<1>9. /\ \E c \in chapters' : c.session = e
      /\ Gapless(e) /\ script'[n + 1] = Command(e) /\ script'[n + 1].session = e
      /\ \A s \in Waiting' : Precedes(e, s)
      /\ \A j \in 1 .. n : Precedes(script'[j].session, e)
  <2>1. ASSUME NEW j \in 1 .. n PROVE Precedes(script'[j].session, e)
    <3>1. Precedes(script[j].session, Earliest)
      BY <1>1, <1>4 DEF InOrderSoFar, n
    <3> QED
      BY <1>5, <3>1 DEF e
  <2> QED
    BY <1>1, <1>2, <1>3, <1>5, <1>6, <2>1 DEF e
<1>10. InOrderSoFar'
  <2> SUFFICES ASSUME NEW k \in 1 .. Len(script')
               PROVE  /\ \E c \in chapters' : c.session = script'[k].session
                      /\ Gapless(script[k].session)'
                      /\ script'[k] = Command(script[k].session)'
                      /\ \A s \in Waiting' : Precedes(script'[k].session, s)
                      /\ \A j \in 1 .. k - 1 :
                           Precedes(script'[j].session, script'[k].session)
    BY DEF InOrderSoFar
  <2>1. ASSUME NEW s, s = script'[k].session
        PROVE  /\ Gapless(script[k].session)' <=> Gapless(s)
               /\ Command(script[k].session)' = Command(s)
    BY <2>1 DEF Gapless, Command, Of
  <2>2. CASE k \in 1 .. n
    BY <1>5, <1>8, <2>1, <2>2
  <2>3. CASE k = n + 1
    BY <1>5, <1>9, <2>1, <2>3
  <2> QED
    BY <1>5, <2>2, <2>3
<1> QED
  BY <1>5, <1>10 DEF EmitInv

\* A gap is a chapter that the camera's day lacks.
LEMMA GapHasAReason ==
  ASSUME FilesInv, NamesInv, ScanInv, stage = "emit", Waiting # {},
         ~Gapless(Earliest)
  PROVE  ~Whole
<1>1. /\ \A c \in chapters : c.file \in CameraChapters
      /\ \A n \in CameraChapters : Entry(n) \in chapters
  BY TableIsTheDay
<1> DEFINE e == Earliest
<1> HIDE DEF e
<1>2. PICK c \in Of(e) : c.index > e.first
                           /\ ~\E b \in Of(e) : b.index = c.index - 1
  BY DEF Gapless, e
<1>3. c \in chapters /\ c.session = e
  BY DEF Of
<1>4. c.session = Session(c.file) /\ c.index = c.file.chapter
  BY <1>3, ChapterEntries
<1> SUFFICES ASSUME Whole PROVE FALSE
  OBVIOUS
<1>5. PICK m \in CameraChapters :
        Session(m) = Session(c.file) /\ m.chapter = c.file.chapter - 1
  BY <1>1, <1>2, <1>3, <1>4 DEF Whole
<1>6. Entry(m) \in Of(e) /\ Entry(m).index = c.index - 1
  BY <1>1, <1>3, <1>4, <1>5 DEF Entry, Of
<1> QED
  BY <1>2, <1>6

\* One entry of the folder.
LEMMA EntryStep ==
  ASSUME DayInv, NEW name \in unread, ReadEntry(name),
         UNCHANGED <<resolve, disk, camera>>
  PROVE  ScanInv' /\ EmitInv' /\ PrintInv'
<1> USE DEF DayInv
<1>1. /\ stage = "scan" /\ unread' = unread \ {name}
      /\ UNCHANGED <<defaults, script>> /\ script = << >>
      /\ stage' \in {"scan", "rejected"}
  BY DEF ReadEntry, Add, EmitInv
<1>2. EmitInv'
  BY <1>1 DEF EmitInv
<1>3. /\ Folder' = Folder /\ CameraChapters' = CameraChapters
      /\ DefaultsAccepted' = DefaultsAccepted /\ Whole' = Whole
      /\ InTheWay' = InTheWay
  BY <1>1 DEF Folder, CameraChapters, DefaultsAccepted, Whole, InTheWay
<1>4. name \in Folder
  BY DEF ScanInv
<1>5. CASE ~IsChapter(name)
  <2>1. chapters' = chapters /\ stage' = "scan"
    BY <1>1, <1>5 DEF ReadEntry
  <2>2. name \notin CameraChapters
    BY <1>5 DEF CameraChapters
  <2>3. ScanInv'
    BY <1>1, <1>3, <2>1, <2>2 DEF ScanInv
  <2>4. PrintInv'
    BY <2>1 DEF PrintInv
  <2> QED
    BY <1>2, <2>3, <2>4
<1>6. CASE IsChapter(name) /\ ~Known(name)
  <2>1. chapters' = chapters \cup {Entry(name)} /\ stage' = "scan"
    BY <1>1, <1>6 DEF ReadEntry, Add, Entry
  <2>2. /\ Entry(name).file = name /\ Entry(name).session = Session(name)
        /\ Entry(name).index = name.chapter
    BY DEF Entry
  <2>3. \A c \in chapters' :
          c.file \in Folder' \ unread' /\ IsChapter(c.file)
            /\ c = Entry(c.file)
    BY <1>1, <1>3, <1>4, <1>6, <2>1, <2>2 DEF ScanInv
  <2>4. \A c \in chapters :
          ~(c.session = Entry(name).session /\ c.index = Entry(name).index)
    BY <1>6, <2>2 DEF Known
  <2>5. \A b, c \in chapters' :
          b.session = c.session /\ b.index = c.index => b = c
    BY <2>1, <2>4 DEF ScanInv
  <2>6. \A n \in CameraChapters : n \in unread' \/ Entry(n) \in chapters'
    BY <1>1, <2>1 DEF ScanInv
  <2>7. ScanInv'
    BY <1>1, <1>3, <2>1, <2>3, <2>5, <2>6 DEF ScanInv
  <2>8. PrintInv'
    BY <2>1 DEF PrintInv
  <2> QED
    BY <1>2, <2>7, <2>8
<1>7. CASE IsChapter(name) /\ Known(name)
  <2>1. chapters' = chapters /\ stage' = "rejected"
    BY <1>1, <1>7 DEF ReadEntry
  <2>2. ScanInv'
    BY <1>1, <1>3, <2>1 DEF ScanInv, Done
  <2>3. PICK c \in chapters :
          c.session = Session(name) /\ c.index = name.chapter
    BY <1>7 DEF Known
  <2>4. /\ c.file \in Folder /\ c.file \notin unread /\ IsChapter(c.file)
        /\ c.session = Session(c.file) /\ c.index = c.file.chapter
    BY ChapterEntries DEF ScanInv
  <2>5. c.file # name
    BY <2>4
  <2>6. ~Whole \/ InTheWay
    <3>1. CASE name \in camera /\ c.file \in camera
      BY <1>7, <2>3, <2>4, <2>5, <3>1 DEF Whole, CameraChapters
    <3>2. CASE name \notin camera \/ c.file \notin camera
      BY <1>4, <1>7, <2>4, <3>2 DEF InTheWay
    <3> QED
      BY <3>1, <3>2
  <2>7. PrintInv'
    BY <1>3, <2>1, <2>6 DEF PrintInv
  <2> QED
    BY <1>2, <2>2, <2>7
<1> QED
  BY <1>5, <1>6, <1>7

\* A step of the generator keeps the invariant.
LEMMA GenerateStep ==
  ASSUME DayInv, Generate(Folder),
         UNCHANGED <<invocationVars, camera, running, attempts>>
  PROVE  DayInv'
<1> USE DEF DayInv, invocationVars
<1>1. /\ UNCHANGED <<defaults, resolve, disk, options, at, writing, camera,
                     running, attempts>>
      /\ stage \in {"defaults", "scan", "emit"}
  BY DEF Generate, ReadDefaults, RejectDefaults, ReadingFails, ReadEntry,
         EndOfFolder, Emit, WriteScript
<1>2. FilesInv' /\ NamesInv' /\ Folder' = Folder
  BY <1>1, FilesUntouched
<1>3. ShellInv'
  <2>1. InputInv' = InputInv /\ MakesNoChapter' = MakesNoChapter
    BY <1>1 DEF InputInv, InvocationType, MakesNoChapter, Given, Target, Own,
                AllThere, CameraChapters
  <2> QED
    BY <1>1, <2>1 DEF ShellInv
<1>4. RunningInv'
  <2>1. ~(running > 0)
    BY <1>1 DEF RunningInv
  <2> QED
    BY <1>1, <2>1 DEF RunningInv
<1>5. /\ CameraChapters' = CameraChapters
      /\ DefaultsAccepted' = DefaultsAccepted /\ Whole' = Whole
      /\ camera \subseteq Folder
  BY <1>1, CameraFiles DEF CameraChapters, DefaultsAccepted, Whole
<1>6. CASE ReadDefaults(Folder)
  <2>1. /\ stage' = "scan" /\ unread' = Folder /\ chapters' = {}
        /\ script' = << >> /\ DefaultsAccepted
    BY <1>6 DEF ReadDefaults
  <2>2. ScanInv'
    BY <1>2, <1>5, <2>1 DEF ScanInv, CameraChapters
  <2>3. EmitInv' /\ PrintInv'
    BY <2>1 DEF EmitInv, PrintInv
  <2> QED
    BY <1>2, <1>3, <1>4, <2>2, <2>3
<1>7. CASE RejectDefaults \/ ReadingFails
  <2>1. /\ stage \in {"defaults", "scan"}
        /\ UNCHANGED <<unread, chapters, script>>
        /\ \/ stage' = "unreadable"
           \/ stage' = "rejected" /\ ~DefaultsAccepted
    BY <1>7 DEF RejectDefaults, ReadingFails
  <2>2. ScanInv'
    BY <1>2, <1>5, <2>1 DEF ScanInv, Done
  <2>3. EmitInv' /\ PrintInv'
    BY <1>5, <2>1 DEF EmitInv, PrintInv
  <2> QED
    BY <1>2, <1>3, <1>4, <2>2, <2>3
<1>8. CASE \E name \in unread : ReadEntry(name)
  BY <1>1, <1>2, <1>3, <1>4, <1>8, EntryStep
<1>9. CASE EndOfFolder
  <2>1. /\ stage = "scan" /\ unread = {} /\ script = << >>
        /\ UNCHANGED <<unread, chapters, script>>
        /\ stage' = IF chapters = {} THEN "rejected" ELSE "emit"
    BY <1>9 DEF EndOfFolder, EmitInv
  <2>2. ScanInv'
    BY <1>2, <1>5, <2>1 DEF ScanInv, Done
  <2>3. EmitInv'
    BY <2>1 DEF EmitInv, InOrderSoFar
  <2>4. chapters = {} => ~Whole
    BY <2>1 DEF ScanInv, Whole
  <2>5. PrintInv'
    BY <1>5, <2>1, <2>4 DEF PrintInv
  <2> QED
    BY <1>2, <1>3, <1>4, <2>2, <2>3, <2>5
<1>10. CASE Emit
  <2>1. /\ stage = "emit" /\ Waiting # {} /\ UNCHANGED <<unread, chapters>>
    BY <1>10 DEF Emit
  <2>2. CASE Gapless(Earliest)
    <3>1. stage' = "emit" /\ script' = Append(script, Command(Earliest))
      BY <1>10, <2>1, <2>2 DEF Emit
    <3>2. EmitInv'
      BY <1>1, <2>1, <2>2, <3>1, Emits
    <3>3. ScanInv'
      BY <1>2, <1>5, <2>1, <3>1 DEF ScanInv
    <3>4. PrintInv'
      BY <3>1 DEF PrintInv
    <3> QED
      BY <1>2, <1>3, <1>4, <3>2, <3>3, <3>4
  <2>3. CASE ~Gapless(Earliest)
    <3>1. stage' = "rejected" /\ script' = << >>
      BY <1>10, <2>3 DEF Emit
    <3>2. ~Whole
      BY <2>1, <2>3, GapHasAReason
    <3>3. ScanInv'
      BY <1>2, <1>5, <2>1, <3>1 DEF ScanInv, Done
    <3>4. EmitInv' /\ PrintInv'
      BY <1>5, <3>1, <3>2 DEF EmitInv, PrintInv
    <3> QED
      BY <1>2, <1>3, <1>4, <3>3, <3>4
  <2> QED
    BY <2>2, <2>3
<1>11. CASE WriteScript
  <2>1. /\ stage = "emit" /\ Waiting = {} /\ stage' = "printed"
        /\ UNCHANGED <<unread, chapters, script>>
    BY <1>11 DEF WriteScript
  <2>2. ScanInv'
    BY <1>2, <1>5, <2>1 DEF ScanInv, Done
  <2>3. EmitInv'
    BY <2>1 DEF EmitInv
  <2>4. /\ Whole /\ CoversTheDay /\ script # << >>
        /\ \A k \in 1 .. Len(script) :
             /\ script[k].inputs # << >>
             /\ script[k].output
                  = OutputVideo(defaults.output_prefix, script[k].session)
    BY <2>1, ScriptCoversTheDay
  <2>5. CoversTheDay'
    BY <1>5, <2>1, <2>4 DEF CoversTheDay
  <2>6. PrintInv'
    BY <1>1, <1>5, <2>1, <2>4, <2>5 DEF PrintInv
  <2> QED
    BY <1>2, <1>3, <1>4, <2>2, <2>3, <2>6
<1> QED
  BY <1>6, <1>7, <1>8, <1>9, <1>10, <1>11 DEF Generate

\* The invariant is kept by every step.
LEMMA DayStep == DayInv /\ [ScriptNext]_scriptVars => DayInv'
<1> SUFFICES ASSUME DayInv, [ScriptNext]_scriptVars PROVE DayInv'
  OBVIOUS
<1>1. CASE /\ Generate(Folder)
           /\ UNCHANGED <<invocationVars, camera, running, attempts>>
  BY <1>1, GenerateStep
<1>2. CASE /\ Run
           /\ UNCHANGED <<generatorVars, camera, running, attempts>>
  <2>1. UNCHANGED defaults
    BY <1>2 DEF generatorVars
  <2>2. FilesInv' /\ NamesInv' /\ Folder \subseteq Folder'
    BY <1>2, <2>1, FilesStay DEF DayInv
  <2>3. ScanInv' /\ EmitInv' /\ PrintInv'
    BY <1>2, <2>2, GeneratorWaits DEF DayInv
  <2>4. ShellInv'
    BY <1>2, ShellWaits DEF DayInv
  <2>5. RunningInv'
    BY <1>2, CommandGoesOn DEF DayInv
  <2> QED
    BY <2>2, <2>3, <2>4, <2>5 DEF DayInv
<1>3. CASE Shell
  BY <1>3, ShellStep
<1>4. CASE UNCHANGED scriptVars
  <2>1. UNCHANGED <<generatorVars, resolve, disk, options, at, writing, camera,
                    running, attempts>>
    BY <1>4 DEF scriptVars, invocationVars
  <2>2. FilesInv' /\ NamesInv' /\ Folder' = Folder
    BY <2>1, FilesUntouched DEF DayInv, generatorVars
  <2>3. ScanInv' /\ EmitInv' /\ PrintInv'
    BY <2>1, <2>2, GeneratorWaits DEF DayInv
  <2>4. InputInv' = InputInv /\ MakesNoChapter' = MakesNoChapter
    BY <2>1 DEF InputInv, InvocationType, MakesNoChapter, Given, Target, Own,
                AllThere, CameraChapters
  <2>5. ShellInv'
    BY <2>1, <2>4 DEF ShellInv, DayInv
  <2>6. OptionsOf(script[running])' = OptionsOf(script[running])
        /\ \A k : FinishedOverlay(k)' = FinishedOverlay(k)
    BY <2>1 DEF OptionsOf, DefaultOf, FinishedOverlay, generatorVars
  <2>7. RunningInv'
    BY <2>1, <2>6 DEF RunningInv, DayInv, generatorVars, Target
  <2> QED
    BY <2>2, <2>3, <2>5, <2>7 DEF DayInv
<1> QED
  BY <1>1, <1>2, <1>3, <1>4 DEF ScriptNext

\* The inductive invariant of the day: for any folder, any order of its listing,
\* any number of attempts, and whatever fails.
THEOREM DayInvariant == ScriptSpec => []DayInv
BY Initially, DayStep, PTL DEF ScriptSpec

\* A script is the whole day, or there is a reason that there is none
\* (session_commands.cc:163-212).
THEOREM ScriptIsWhole == ScriptSpec => []ScriptIsTheDay
<1>1. DayInv => ScriptIsTheDay
  BY DEF DayInv, PrintInv, EmitInv, ScriptIsTheDay
<1> QED
  BY <1>1, DayInvariant, PTL

\* Whenever a command of a script runs, the overlays of all sessions before it
\* are complete (session_commands.cc:187-209).
THEOREM ScriptFinishesInOrder == ScriptSpec => []FinishedInOrder
<1>1. DayInv => FinishedInOrder
  BY DEF DayInv, RunningInv, FinishedInOrder, FinishedOverlay
<1> QED
  BY <1>1, DayInvariant, PTL

\* Nor does any command of the day, typed or generated, change a video that it
\* reads (run.cc:413-418, 451-456, 528-532).
THEOREM DayLeavesInputs == ScriptSpec => OwnInputsUnchanged
<1>1. DayInv /\ [ScriptNext]_scriptVars
        => [\A file \in Own : at \in Active => disk'[file] = disk[file]]_disk
  <2> SUFFICES ASSUME DayInv, [ScriptNext]_scriptVars, disk' # disk,
                      NEW file \in Own, at \in Active
               PROVE  disk'[file] = disk[file]
    OBVIOUS
  <2>1. Run
    BY DEF ScriptNext, Shell, RunScript, TypeCommand, GenerateAgain,
           NextCommand, Prompt, Begin, invocationVars, scriptVars
  <2>2. InputInv
    BY DEF DayInv, ShellInv, Active, Outputs, Exports
  <2> QED
    BY <2>1, <2>2, WritesElsewhere
<1> QED
  BY <1>1, DayInvariant, DayStep, PTL DEF ScriptSpec, OwnInputsUnchanged
=============================================================================
