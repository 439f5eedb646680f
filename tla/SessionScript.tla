--------------------------- MODULE SessionScript ---------------------------
(***************************************************************************)
(* A day with the program: the generator (SessionCommands) reads the       *)
(* folder, the shell runs its script, and the user generates again, runs   *)
(* the script again, or types a command.  Overlays may be written to the   *)
(* folder that is read.  The shell is external: with "set -e", or by       *)
(* looking at $LASTEXITCODE, it stops at the first command that fails.     *)
(***************************************************************************)
EXTENDS SessionCommands, Invocation

CONSTANTS
  Names,         \* of these paths, the names in the folder
  Folders,       \* what the camera may have left there
  Mounts,        \* how paths may resolve
  Settings,      \* the defaults, and the output prefix
  ByHand,        \* commands a user may type
  Attempts       \* bound: how often the user does something

\* Names as a camera, or a script, may give them.
FileName ==
  [prefix : STRING, letters : STRING, chapter : 0 .. 99, id : Nat,
   case : {"upper", "lower"}]

ASSUME FolderAssumption ==
  /\ Names \subseteq Paths
  /\ Names \subseteq
       {n \in FileName : n.letters = "GOPR" => n.chapter = 0}
  /\ Folders \subseteq SUBSET Names /\ Mounts \subseteq [Paths -> Paths]
  /\ Attempts \in Nat

\* The generator would take this file for a chapter.
Listed(path) == path \in Names /\ IsChapter(path)

SameChapter(m, n) == Session(m) = Session(n) /\ m.chapter = n.chapter

\* What scripts with these settings may be told to write.
Overlays(setting) ==
  {OutputVideo(setting.output_prefix, Session(n)) :
     n \in {n \in Names : IsChapter(n)}}

\* The names of overlays are no links: they lead to a file of that name, or to
\* one whose name differs by case.  Other outputs in the defaults lead neither
\* to an overlay nor to the name of a chapter.
ASSUME SettingsAssumption ==
  \A setting \in Settings :
    /\ Overlays(setting) \subseteq Paths
    /\ \A r \in Mounts : \A overlay \in Overlays(setting) :
         Listed(r[overlay]) =>
           IsChapter(overlay) /\ SameChapter(r[overlay], overlay)
    /\ \A k \in 1 .. Len(setting.lines) :
         LET line == setting.lines[k]
         IN  /\ line.flag \in Outputs \cup {"inspect_telemetry"} =>
                  line.value \in Paths
             /\ line.flag \in Outputs =>
                  \A r \in Mounts :
                    /\ ~Listed(r[line.value])
                    /\ \A overlay \in Overlays(setting) :
                         r[line.value] # r[overlay]

\* Nor does a command typed by hand give a file the name of a chapter, unless
\* the camera has left that chapter.
ASSUME ByHandAssumption ==
  \A command \in ByHand :
    /\ command \in Options
    /\ \A flag \in Outputs : \A r \in Mounts : \A folder \in Folders :
         /\ command[flag] # NoPath /\ Listed(r[command[flag]])
         /\ \A k \in 1 .. Len(command.inputs) : r[command.inputs[k]] \in folder
         => \E m \in folder : IsChapter(m) /\ SameChapter(m, r[command[flag]])

VARIABLES
  camera,        \* the camera's files
  running,       \* the command that is running, 0 if none is
  attempts       \* what the user has done so far

scriptVars == <<generatorVars, invocationVars, camera, running, attempts>>

\* The entries of the folder: one name for each file.
Folder == {name \in Names : resolve[name] = name /\ disk[name] # Absent}

NoOptions ==
  [inputs |-> << >>, list |-> FALSE, imu_axis_order |-> FALSE,
   in_range |-> TRUE, inspect_telemetry |-> NoPath, extract_gpmf |-> NoPath,
   export_json |-> NoPath, export_telemetry |-> NoPath,
   render_frames |-> NoPath, output_video |-> NoPath]

ScriptInit ==
  /\ camera \in Folders /\ resolve \in Mounts /\ defaults \in Settings
  /\ \A name \in camera : resolve[name] = name
  /\ disk = [path \in Paths |-> IF path \in camera THEN Footage ELSE Absent]
  /\ unread = {} /\ chapters = {} /\ script = << >> /\ stage = "defaults"
  /\ options = NoOptions /\ at = "idle" /\ writing = FALSE
  /\ running = 0 /\ attempts = 0

\* What a command of the script passes on: the defaults as they are.
DefaultOf(flag) ==
  LET lines == {k \in 1 .. Len(defaults.lines) : defaults.lines[k].flag = flag}
  IN  IF lines = {} THEN NoPath
      ELSE defaults.lines[CHOOSE k \in lines : TRUE].value

OptionsOf(command) ==
  [inputs |-> command.inputs, list |-> FALSE, in_range |-> TRUE,
   imu_axis_order |-> DefaultOf("imu_axis_order") # NoPath,
   inspect_telemetry |-> DefaultOf("inspect_telemetry"),
   extract_gpmf |-> DefaultOf("extract_gpmf"),
   export_json |-> DefaultOf("export_json"),
   export_telemetry |-> DefaultOf("export_telemetry"),
   render_frames |-> DefaultOf("render_frames"),
   output_video |-> command.output]

Begin(command) ==
  /\ options' = command
  /\ at' = "parse"
  /\ UNCHANGED <<generatorVars, resolve, disk, writing, camera>>

Idle == at = "idle" /\ running = 0 /\ attempts < Attempts

RunScript ==
  /\ Idle /\ stage = "printed"
  /\ Begin(OptionsOf(script[1]))
  /\ running' = 1 /\ attempts' = attempts + 1

\* The chapters of a command typed by hand are the camera's.
TypeCommand ==
  /\ Idle
  /\ \E command \in ByHand :
       /\ \A k \in 1 .. Len(command.inputs) :
            resolve[command.inputs[k]] \in camera
       /\ Begin(command)
  /\ attempts' = attempts + 1 /\ UNCHANGED running

GenerateAgain ==
  /\ Idle /\ stage \in Done
  /\ stage' = "defaults" /\ script' = << >>
  /\ attempts' = attempts + 1
  /\ UNCHANGED <<defaults, unread, chapters, invocationVars, camera, running>>

\* Mutant: a script without "set -e".
GoesOn == at \in Ended /\ running \in 1 .. Len(script) - 1

\* The shell takes the next command after one that has succeeded.
Continues == at = "ok" /\ running \in 1 .. Len(script) - 1

NextCommand ==
  /\ Continues
  /\ Begin(OptionsOf(script[running + 1]))
  /\ running' = running + 1 /\ UNCHANGED attempts

Prompt ==
  /\ at \in Ended /\ ~Continues
  /\ at' = "idle" /\ options' = NoOptions /\ running' = 0
  /\ UNCHANGED <<generatorVars, resolve, disk, writing, camera, attempts>>

Shell == RunScript \/ TypeCommand \/ GenerateAgain \/ NextCommand \/ Prompt

ScriptNext ==
  \/ Generate(Folder) /\ UNCHANGED <<invocationVars, camera, running, attempts>>
  \/ Run /\ UNCHANGED <<generatorVars, camera, running, attempts>>
  \/ Shell
  \/ /\ stage \in Done /\ at = "idle" /\ attempts = Attempts
     /\ UNCHANGED scriptVars

ScriptSpec == ScriptInit /\ [][ScriptNext]_scriptVars
-----------------------------------------------------------------------------
(* Properties.                                                             *)

CameraChapters == {name \in camera : IsChapter(name)}

\* A day that a script can be made of: every session is there from its first
\* chapter on, and every chapter once.
Whole ==
  /\ CameraChapters # {}
  /\ \A m, n \in CameraChapters :
       Session(m) = Session(n) /\ m.chapter = n.chapter => m = n
  /\ \A n \in CameraChapters :
       n.chapter > Session(n).first =>
         \E m \in CameraChapters :
           Session(m) = Session(n) /\ m.chapter = n.chapter - 1

\* An overlay has been written under the name of a chapter.
InTheWay == \E name \in Folder \ camera : IsChapter(name)

\* A script has each of the camera's chapters exactly once, every session in
\* one command, in order and from its first chapter on, and an output for each.
CoversTheDay ==
  LET Input(k) == {script[k].inputs[i] : i \in 1 .. Len(script[k].inputs)}
  IN  /\ UNION {Input(k) : k \in 1 .. Len(script)} = CameraChapters
      /\ \A k \in 1 .. Len(script) : \A i \in 1 .. Len(script[k].inputs) :
           LET name == script[k].inputs[i]
           IN  /\ Session(name) = script[k].session
               /\ name.chapter = script[k].session.first + i - 1
      /\ \A j, k \in 1 .. Len(script) :
           j < k => /\ Precedes(script[j].session, script[k].session)
                    /\ script[j].output # script[k].output

\* Whatever the order of the listing, a script is the whole day, and an error
\* has a reason: a chapter is missing or there twice (README.md:497-501), or
\* the defaults are at fault, or the folder has overlays under names that the
\* camera gives.  An overlay never becomes the input of another.
ScriptIsTheDay ==
  /\ stage = "printed" => Whole /\ CoversTheDay
  /\ stage = "rejected" =>
       script = << >> /\ (~DefaultsAccepted \/ ~Whole \/ InTheWay)

\* A script goes on only after a success (README.md:558): whenever one of its
\* commands runs, the overlays of all sessions before it are finished, and none
\* is of another session.
FinishedInOrder ==
  running > 0 =>
    \A k \in 1 .. running - 1 :
      disk[resolve[script[k].output]] =
        [state |-> "complete", of |-> script[k].inputs]
=============================================================================
