\* Two sessions of up to three chapters; the user may generate, run the script
\* or type a command three times, enough to run a script, generate again and
\* run that.
SPECIFICATION ScriptSpec
CONSTANTS
  NoPath = NoPath
  telemetry = telemetry
  frames = frames
  video = video
  link = link
  Paths <- MCPaths
  Names <- MCNames
  Folders <- MCFolders
  Mounts <- MCMounts
  Settings <- MCSettings
  ByHand <- MCByHand
  Attempts = 3
INVARIANTS
  ScriptIsTheDay
  FinishedInOrder
PROPERTIES
  OwnInputsUnchanged
