-------------------------- MODULE MCSessionScript --------------------------
(* Recording 1 of an old camera and 2 of a new one, whole, with gaps and   *)
(* with files that differ by case, where the file system lets them.        *)
EXTENDS SessionScript

CONSTANTS telemetry, frames, video, link

Name(letters, chapter, id) ==
  [prefix |-> "", letters |-> letters, chapter |-> chapter, id |-> id,
   case |-> "upper"]
Lower(name) == [name EXCEPT !.case = "lower"]

First == Name("GOPR", 0, 1)
Second == Name("GP", 1, 1)
Third == Name("GP", 2, 1)
Modern == Name("GX", 1, 2)
Later == Name("GX", 2, 2)
Stray == Name("VID_", 0, 1)

MCFolders ==
  {{First, Lower(First), Modern}, {First, Modern, Later}, {First, Third, Stray},
   {First, Second, Third, Modern}, {First, Second, Lower(Second)},
   {Second, Modern}, {Modern, Later}, {First, Modern}, {Stray}, {}}

OverlayNames ==
  {[name EXCEPT !.prefix = prefix, !.case = "lower"] :
     name \in {First, Modern}, prefix \in {"", "overlay-"}}
MCNames == UNION MCFolders \cup OverlayNames
MCPaths == MCNames \cup {telemetry, frames, video, link}

\* The link leads to the first video.
Linked(path) == IF path = link THEN First ELSE path

MCMounts ==
  {[path \in MCPaths |-> Linked(path)],
   [path \in MCPaths |->
      IF path \in {Lower(First), Lower(Second), Lower(Modern)}
      THEN [path EXCEPT !.case = "upper"] ELSE Linked(path)]}

Line(flag, value) == [flag |-> flag, value |-> value]
Axes == Line("imu_axis_order", "ZXY")
Defaults(lines) ==
  {[lines |-> lines, output_prefix |-> prefix] : prefix \in {"", "overlay-"}}

MCSettings ==
  Defaults(<<Axes>>) \cup Defaults(<<Line("export_json", telemetry), Axes>>)
  \cup {[lines |-> lines, output_prefix |-> ""] :
           lines \in {<<Line("output_video", video)>>, <<Axes, Axes>>, << >>}}

Plain == [NoOptions EXCEPT !.inputs = <<First>>]

\* Outputs that lead to the input, several outputs, several inputs, a list,
\* and options that are refused at once or late.
MCByHand ==
  {[Plain EXCEPT !.extract_gpmf = link, !.export_json = telemetry],
   [Plain EXCEPT !.export_telemetry = link],
   [Plain EXCEPT !.imu_axis_order = TRUE, !.output_video = link],
   [Plain EXCEPT !.extract_gpmf = video, !.render_frames = frames],
   [Plain EXCEPT !.inputs = <<First, Second>>, !.export_json = telemetry],
   [Plain EXCEPT !.inputs = <<First, Second>>, !.list = TRUE,
                 !.imu_axis_order = TRUE, !.export_json = link,
                 !.render_frames = frames, !.output_video = Lower(First)],
   [NoOptions EXCEPT !.inspect_telemetry = telemetry]}
=============================================================================
