----------------------------- MODULE Invocation -----------------------------
(***************************************************************************)
(* One invocation of the program: which options are accepted               *)
(* (src/src/cli/options.cc:82-265), and what Run (src/src/common/          *)
(* run.cc:193-590) reads and writes for them, in its order.                *)
(*                                                                         *)
(* A path is an opaque name; links, and names that differ by case only,    *)
(* may resolve to one file.  Scanning, decoding and encoding are one step  *)
(* each here, which may fail; other modules model them in detail.  Nothing *)
(* else writes while the invocation runs (EncodeCommand has that).         *)
(***************************************************************************)
EXTENDS Naturals, Sequences

CONSTANTS
  Paths,
  NoPath         \* an option that is not given

ASSUME PathAssumption == NoPath \notin Paths

VARIABLES
  resolve,       \* the file a path leads to
  disk,          \* what is in it, and of which videos it was made
  options,       \* the options of the invocation
  at,            \* where Run is; for an output, the name of its option
  writing        \* has the output been opened?

invocationVars == <<resolve, disk, options, at, writing>>

Content ==
  [state : {"absent", "footage", "partial", "complete"}, of : Seq(Paths)]

Absent == [state |-> "absent", of |-> << >>]
Footage == [state |-> "footage", of |-> << >>]

Exports == {"extract_gpmf", "export_json", "export_telemetry"}
Outputs == Exports \cup {"render_frames", "output_video"}
Active == Outputs \cup {"parse", "inspect", "list", "chapters", "single"}
Ended == {"ok", "failed"}

Options ==
  [inputs : Seq(Paths), list : BOOLEAN, inspect_telemetry : Paths \cup {NoPath},
   imu_axis_order : BOOLEAN, in_range : BOOLEAN,
   extract_gpmf : Paths \cup {NoPath}, export_json : Paths \cup {NoPath},
   export_telemetry : Paths \cup {NoPath}, render_frames : Paths \cup {NoPath},
   output_video : Paths \cup {NoPath}]

Given(flag) == options[flag] # NoPath
Rendering == Given("render_frames") \/ Given("output_video")
Target(flag) == resolve[options[flag]]

\* Whether ParseOptions accepts the options.  The inputs of a list are those
\* that the file names.
Accepted ==
  /\ options.in_range
  /\ IF Given("inspect_telemetry")
     THEN options.inputs = << >> /\ ~options.list /\ ~Rendering
     ELSE options.inputs # << >>
  /\ options.list \/ Len(options.inputs) > 1 => Rendering
  /\ Given("output_video") => options.imu_axis_order
-----------------------------------------------------------------------------
Goto(next) == at' = next /\ UNCHANGED <<resolve, disk, options, writing>>

Parse ==
  /\ at = "parse" /\ Accepted
  /\ Goto(IF Given("inspect_telemetry") THEN "inspect"
          ELSE IF options.list THEN "list"
          ELSE IF Len(options.inputs) > 1 THEN "chapters" ELSE "single")

Inspect == at = "inspect" /\ Goto("ok")

ReadInputList == at = "list" /\ Goto("chapters")

AllThere ==
  \A k \in 1 .. Len(options.inputs) : disk[resolve[options.inputs[k]]] # Absent

\* RunChapters scans all chapters first.  Only rendering follows: the options
\* to inspect or export have no effect.
Chapters ==
  /\ at = "chapters" /\ AllThere /\ options.imu_axis_order
  /\ Goto("render_frames")

\* A single input is scanned, and inspected if that is asked for.
Single == at = "single" /\ AllThere /\ Goto("extract_gpmf")

After == [extract_gpmf |-> "export_json", export_json |-> "export_telemetry",
          export_telemetry |-> "render_frames",
          render_frames |-> "output_video", output_video |-> "ok"]

Skip == at \in Outputs /\ ~Given(at) /\ Goto(After[at])

Write(content) ==
  /\ disk' = [disk EXCEPT ![Target(at)] =
                [state |-> content, of |-> options.inputs]]
  /\ UNCHANGED <<resolve, options>>

\* Mutant: the paths are compared, not the files they lead to.
OpenExportByName ==
  /\ at \in Exports /\ Given(at) /\ ~writing
  /\ options[at] # Head(options.inputs)
  /\ Write("partial") /\ writing' = TRUE /\ UNCHANGED at

\* An export truncates whatever it is told to write, unless that is the input.
OpenExport ==
  /\ at \in Exports /\ Given(at) /\ ~writing
  /\ Target(at) # resolve[Head(options.inputs)]
  /\ Write("partial") /\ writing' = TRUE /\ UNCHANGED at

\* Frames and videos are new, whether it is the program or FFmpeg that looks.
OpenOutput ==
  /\ at \in Outputs \ Exports /\ Given(at) /\ ~writing
  /\ options.imu_axis_order
  /\ disk[Target(at)] = Absent
  /\ Write("partial") /\ writing' = TRUE /\ UNCHANGED at

\* An export may lose its end without an error: closing it is not checked.
Finish ==
  /\ at \in Outputs /\ writing
  /\ \/ Write("complete")
     \/ at \in Exports /\ Write("partial")
  /\ writing' = FALSE /\ at' = After[at]

\* Any step may fail, be refused or be the last before a crash: what has been
\* written stays.
Fail ==
  /\ at \in Active
  /\ at' = "failed" /\ writing' = FALSE
  /\ UNCHANGED <<resolve, disk, options>>

Run ==
  \/ Parse \/ Inspect \/ ReadInputList \/ Chapters \/ Single
  \/ Skip \/ OpenExport \/ OpenOutput \/ Finish
  \/ Fail

\* Any options, on any file system.
InvocationInit ==
  /\ resolve \in [Paths -> Paths] /\ disk \in [Paths -> Content]
  /\ options \in Options
  /\ at = "parse" /\ writing = FALSE

InvocationSpec == InvocationInit /\ [][Run]_invocationVars
-----------------------------------------------------------------------------
(* Properties.                                                             *)

\* The videos an invocation reads.
Own == {resolve[options.inputs[k]] : k \in 1 .. Len(options.inputs)}

\* The input files remain unchanged (README.md:485-486), by whatever path an
\* output option leads to one of them (run.cc:413-418, 451-456, 528-532;
\* gpmf_metadata.cc:83-87; debug_renderer.cc:784-787).
OwnInputsUnchanged ==
  [][\A file \in Own : at \in Active => disk'[file] = disk[file]]_disk

\* The inductive invariant behind it.
InvocationType ==
  /\ resolve \in [Paths -> Paths] /\ disk \in [Paths -> Content]
  /\ options \in Options
  /\ at \in Active \cup Ended /\ writing \in BOOLEAN

\* What is being written is none of the inputs.  They have been there since
\* before anything was written, and exports have a single one.
InputInv ==
  /\ InvocationType
  /\ writing => at \in Outputs /\ Given(at) /\ Target(at) \notin Own
  /\ at \in Outputs => AllThere
  /\ at \in Exports \cup {"single"} => Len(options.inputs) = 1
=============================================================================
