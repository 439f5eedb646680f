# RaceVideo: specifications, model checking and proofs

RaceVideo reads GoPro recordings, extracts their GPMF telemetry, and has FFmpeg
encode the video with a telemetry overlay that RaceVideo renders frame by frame.
This directory holds TLA+ models of the parts where the difficulty is in the
control flow: threads, processes, buffers, files, orderings and boundaries. Each
definition is translated from the source; `PROJECT.json` maps it to the lines it
stands for.

Paths below are relative to the repository, except that `src/...` means
`src/src/...` as seen from `PROJECT.json`.

## 1. The system

| component | state it keeps | operations | interacts with |
|---|---|---|---|
| Overlay frame pipeline (`ffmpeg/video_encoder.cc:92-346`) | one mutex, one condition variable, `next_to_assign`, `next_to_write`, `stop`, a ring of slots with a persistent frame buffer each, the shared track state | claim, prepare, render, publish (workers); take, sink, release, shut down (writer) | renderer, overlay data, sink |
| Process runner, POSIX (`ffmpeg/process_posix.cc`) | child process, two pipes, reader thread, captured output, SIGPIPE mask and pending set of the calling thread | start, feed, drain, kill, reap | child (FFmpeg, ffprobe), producer |
| Process runner, Windows (`ffmpeg/process.cc`) | the same with handles, and a job object that ends the child with the program | create suspended, assign to the job, resume, feed, drain, wait | the same |
| Encoding command (`ffmpeg/video_encoder.cc:60-90, 348-582`) | concat manifest, output file | choose dimensions, write manifest, run FFmpeg with the pipeline as producer, remove manifest | process runner, pipeline, file system |
| Cached renderer and track state (`renderer/debug_renderer.cc`) | per-slot pixels, cached gauge and text regions, explored track, shared snapshot | render, advance track | pipeline, debug PNG output |
| Overlay data (`overlay/overlay_data.cc`) | clipped track, bounds, sorted timestamps | build, sample at a timestamp | telemetry, renderer |
| Command dispatch and chapters (`common/run.cc`, `common/input_list.cc`, `cli/*`) | options, chapter list, joined telemetry | validate, join chapters, dispatch to inspect / export / debug / video | everything below it |
| MP4 and GPMF parsers (`parser/*`) | box offsets, sample tables, decoded streams | walk boxes, index samples, decode | dispatch |
| Telemetry processing (`telemetry/*`, `statistics/*`) | axis mapping, mounting orientation, g-forces | detect, map, remove gravity | dispatch |
| Video probing (`ffmpeg/video_probe.cc`) | probe result per chapter | run ffprobe, parse, compare chapters | process runner, dispatch |
| Session command generator (`tools/session_commands*.cc`) | chapters grouped by session | read defaults, scan a folder, group, write a script | the shell, and through it the program |

**How they interact.** `common/run.cc` parses the chapters, joins their telemetry
into one timeline and calls `EncodeOverlayVideo`. That starts FFmpeg through
`RunProcessWithInput` and gives it a producer; the producer is
`ProduceOverlayFrames`, whose sink writes to FFmpeg's standard input. Hence three
kinds of concurrency nest in one call: the render workers and the writer, the
writer and the reader of FFmpeg's output, and all of these and FFmpeg.

**What is hard.**

* The writer reads a slot's buffer without the mutex; the ring alone keeps the
  workers off it. One condition variable serves two predicates, and every
  notification comes after the unlock.
* The track is incremental: it must be advanced in frame order although frames
  finish in any order.
* A child with two pipes deadlocks with a caller that does not drain one while it
  fills the other; output beyond the capture limit must still be drained.
* Two threads may kill the child, one reaps it. SIGPIPE is raised by the broken
  pipe of a child that ends early, and must not reach the program.
* Any of the producer, the reader, the child and `waitpid` may fail in one call.
* Two runs of the program, or a run and another program, may want the same output
  file; the check of the path comes minutes before FFmpeg opens it. A run may
  crash and leave FFmpeg, a manifest and half a file behind.
* The renderer repaints what it takes for changed. What it misses stays on the
  picture for as long as the region is not repainted.
* Chapters are joined by time, in three streams, with samples that begin before
  and end after their videos; FFmpeg joins their videos by numbers it is given as
  text.
* An MP4 file is a tree of boxes that may lie about their sizes, and a track's
  samples are spread over five run-length coded tables. Two walks of the tree are
  implemented side by side.
* On Windows nothing ends a child with its parent by itself: the program has to
  put it into a job before it runs. Nothing kills the child of a failed producer
  there either.
* An export truncates its file, which a link or a name of different case may make
  an input. A script made of a folder is run later, command after command, over
  the files an earlier run of it has left.
* GPS positions jump, stand still and cross the 180th meridian; headings cross
  north.

**What makes each component correct.** Pipeline: the sink gets exactly the pictures a
single loop would give it, and the call always returns. Process runner: it leaves
nothing behind and reports the truth, and returns: on POSIX whatever the child does
once something failed, on Windows if the child goes on. Encoding command: success
means a complete file, a file that exists is never overwritten. Renderer: the cached
picture equals the reference picture. Overlay data and chapters: sampling and joining
agree with their definition at every boundary. Parsers: the index lists every sample
once, inside the file. Commands: no invocation changes what it reads, and a script is
the whole day or an error.

## 2. The modules

| module | what it is |
|---|---|
| `OverlayStream` | the abstract promise of `RenderOverlayFrames`: pictures in frame order; success for a complete stream only, an error for an incomplete one only |
| `OverlayPipeline` | `ProduceOverlayFrames`: the pool of workers, the writer, slots, track and condition variable |
| `ProcessCall` | the abstract promise of a call of the process runner on any platform: one truthful answer, and no process left behind that nobody has ended |
| `ProcessRun` | `RunProcess` on POSIX with its reader thread, its producer and an arbitrary child |
| `WindowsProcess` | the runner on Windows: its own life of the child, on the pipes, the child and the reader of `ProcessRun`, which it extends |
| `EncodeCommand` | runs of the program that encode to one path, with their FFmpeg processes and the file system |
| `CachedRenderer` | `CachedOverlayRenderer::Render` and the reference it has to equal |
| `OverlayData` | the track and the courses made of the GPS samples, and the values of a frame |
| `ChapterTimeline` | joining the telemetry of chapters |
| `ConcatManifest` | where FFmpeg shows these chapters; extends `ChapterTimeline` |
| `GpmfTrack` | finding the GPMF track in an MP4 file, both walks |
| `SampleIndex` | expanding that track's sample tables, entry by entry |
| `SampleFormat` | what these tables mean, in closed form; extends `SampleIndex` |
| `TelemetryDecoder` | decoding the samples of the index; extends `SampleIndex` |
| `Invocation` | one invocation of the program: which options are accepted, and every file `Run` and `RunChapters` read and write for them |
| `SessionCommands` | the generator of a day's script |
| `SessionScript` | both of these with the shell and the user: generate, run the script, type commands, generate again |
| `MC...` | the small instances TLC checks |
| `...Proofs` | the theorems: `OverlayProofs` has those of `CachedRenderer` and of `OverlayData`, `SessionScriptProofs` of `Invocation`, `SessionCommands` and `SessionScript`, `ChapterTimelineProofs` also of `ConcatManifest`, `SampleIndexProofs` also of `SampleFormat` and `TelemetryDecoder`, `ProcessRunProofs` also of `WindowsProcess`; the others of the module of their name |

How they compose: `OverlayPipeline` implements `OverlayStream`, whose sink is the
producer's side of the process runner. `ProcessRun` and `WindowsProcess` both implement
`ProcessCall`: what a caller may rely on is one specification for two platforms.
`EncodeCommand` stands on these: of each run, `Call` is the instance of `ProcessCall`
that its call of the runner is, and `Stream` the instance of `OverlayStream` that its
frames are. In its call success needs the producer's and the child's, the child has
ended on return, and the producer delivers frames in order or fails, all of which the
theorem `KeepsContracts` shows to be within the two contracts; that the input is closed
before the child is killed it has from `ProcessRun`. `CachedRenderer` draws the pictures
that `OverlayPipeline` treats as values; what it assumes of its frames (tracks move
forwards, an arrow stays once there is one) is `TrackInFrameOrder`. `OverlayData` gives
`OverlayPipeline` its `ExploredPoints`, which may not decrease (it is the number of
timestamps up to the frame's; that it does not is the theorem `ExploresOnwards`). The
tables that `GpmfTrack` finds are the constants of `SampleIndex`; `TelemetryDecoder`
reads the payloads of the index in the same behaviour, and its result, ordered samples
inside their payloads, is what `ChapterTimeline` joins. Its result is in turn what
`OverlayData` starts from. `SessionScript` composes `SessionCommands` and `Invocation`
over one file system: the commands of the script are the options of invocations, and the
overlays they write may be in the folder that is scanned next.

### OverlayPipeline

`mutex`, `waiting` (the threads blocked on `state_changed`) and `pc` are the
threads' state; `stop`, `next_to_assign`, `next_to_write` and the `slot_*`
functions are the variables of the same names; `explored`, `track_drawn` and
`track_snapshot` are `TrackRenderState`. `frame`, `status` and `snapshot` are
locals of a worker. `delivered` is history: what the sink accepted.

A critical section whose middle cannot be observed is one action guarded by
`mutex = None`. The section that claims a frame is split at the claim, because
the sampling and the track update inside it are what keeps the track in order;
the mutant `ClaimUnlocked` moves the unlock between them. Waiting is two steps,
as `condition_variable::wait` is: evaluate the predicate and block
(`BlockWorker`, `BlockWriter`), atomically with the release of the mutex; any
notification or a spurious wakeup makes the thread evaluate it again. Notifying
is a step of its own, since the code notifies after unlocking. A rendering frame
has a beginning and an end, between which its buffer holds no picture; the sink
reads the buffer at its end, whatever it then holds.

A picture is the pair of a frame and the track segments in it, all that the
properties tell apart. `Stream` is the instance of `OverlayStream` that the pool
implements: `delivered` is itself, and `outcome` is "streaming" until the threads are
joined and the call returns. `ExploredPoints` gives the number of track points explored
at each frame; the source guarantees that it does not decrease. Left out: timing,
progress output, and failure to create a thread (the program is built without
exceptions, `CMakeLists.txt:12-17`, so that aborts it).

### ProcessRun

Variables have the names of the locals of `RunProcess` where there is one.
`input_open` is our end of the child's input, `stdin_open` and `stdout_open` the
child's ends; `in_pipe` and `out_pipe` are the bytes in the two pipes. `caller`
says whether the call has a producer (`RunProcessWithInput`) or not
(`RunProcessAndCaptureOutput`) and how SIGPIPE stood on the calling thread.

The child is external. It may read, write, close, exit and crash in any order,
or do nothing for ever; but a `read` or a `write` it has begun blocks it as the
kernel would. `Kill` sets `killed`; `ChildDies` is the kernel acting on it. The
producer is external too: it makes up to `Pieces` sink calls, may fail between
two, and returns at the first sink error, as `ProduceOverlayFrames` does. Reads
and writes move any positive number of bytes that fits. `Outcome` is the order of
the returns at the end of the function. Darwin's way of suppressing SIGPIPE
(a flag of the descriptor) is left out, the Linux way is modelled.

Assumptions: SIGCHLD is not ignored and nobody else reaps the child (its
violation is `Wait("wait_error")`); the child has no child of its own that holds
the output pipe open; a thread can be created.

`Call` is the instance of `ProcessCall` that the run implements. Its `process` is
derived from `child` and `killed`: a child that was killed is doomed and runs on for
a while, so that success of a call that has killed its child is not a step of
`ProcessCall`.

### WindowsProcess

`child` has one more state, "suspended", and `job` is the job object; the pipes, the
child's behaviour and `ReadOutput` are `ProcessRun`'s. `ProgramKilled` ends the
program at any time: its threads are gone, and the kernel closes its handles, the
job's included. A reader that fails stops reading and nothing else; a wait that fails
joins the reader first; the answers come in this platform's order, in which a child
that wrote too much hides a failed producer. `SystemFails` holds what only a failing
system call does, and no fairness asks for it. Without a producer the child has the
caller's standard input; it is assumed not to read it.

### EncodeCommand

`stage` is where a run is in `Run` or `RunChapters`, `EncodeOverlayVideo` and
`RunProcessWithInput`; `manifest` and `output` are the files; `ffmpeg`, `taken`,
`fed` and `input_open` the process and the pipe. A run over several chapters
(`Joined`) prepares its telemetry before it checks the output, a run over one
chapter afterwards, as `run.cc:193-243` and `500-537` do. A crash is possible in
every step and closes the pipe; the FFmpeg of a crashed run goes on with what it
has. `SomeoneWrites` is another program that creates the file.

FFmpeg is external. Assumed are: `-n` makes it create the output if there is none
and stop otherwise; the end of its piped input, and of its main input, makes it
finish its file and exit with zero. Further: two runs do not choose the same
manifest name (it is made of the time in nanoseconds), and removing a manifest
that exists succeeds.

### CachedRenderer

A pixel is the sequence of layers painted on it since it was cleared, because ink
is translucent: painting twice is not painting once. The canvas is reduced to one
cell for each widget, one for what is beside them, and the columns of the track's
part, which also stand for rows. `pixels`, the two cached backgrounds and
`initialized` are the state of the renderer, `previous` the values of the last
frame it keeps. `layout` says which rectangles overlap, which the picture's size
decides once. `RenderInOrder` is the fallback, `RenderSeparately` the repainting
by regions; both are whole calls, since a renderer has one thread.
`Reference` is `RenderOverlayFrameRgba`.

The theorems assume `ArrowsFit`: an arrow stays inside the track square. The
square is padded by the 14th part of its size, and `BuildOverlayData` keeps the
track off the padding by another 5%: an arrow, 7 pixels at least, fits in pictures
of 166 rows and 276 columns and more, and for a track that fills the unit square
from 270 rows and 450 columns on. In smaller pictures run `renderer_edge` shows ink
of an old arrow left behind (section 3).

### OverlayData

The stages are the loops of `BuildOverlayDataImpl`: `Read...` and `Keep` are one
iteration of the filter over `telemetry.gps`, `Project` the clipping and the
projection, `AddNavigation` one iteration of the search for courses; then
`SampleOverlayFrame` is a call for a later and later time. `given` is history, the
samples as they came; `sampled` is what the latest frame got, with its time.

The earth is flat in the model but not open: longitudes wrap at 180 degrees, which
is where the three differences of longitudes in the code can go wrong. Distances
are compared by their squares, and courses are rounded to eight. `Eighth` is the
number of units of angle in an eighth of a turn: `AngleAssumption` asks that an eighth
divides evenly by the ticks between any two times of the track, so that a course
interpolated between two of the eight is exact, where the code has a fraction.
Positions are rounded down to the degree. Speed and g-force are interpolated as the latitude is
and left out, likewise the map into the unit square.

### ChapterTimeline and ConcatManifest

`index`, `stream` and `position` are the nested loops of `PrepareChapters` and
`AppendSamples`; `combined` keeps with each joined sample where it came from, and
`starts` where each chapter begins: history. `Reject` is any chapter that can not
be read or does not match the first (`ValidateCompatibleVideo` and the checks
around it). Time is an integer: ffprobe's durations are in microseconds and
`absl::Duration` represents their multiples exactly.

`ConcatManifest` adds `Number`, the six significant digits `absl::StrCat` writes of
a double, and `Shown`, where FFmpeg's concat demuxer then starts a chapter: at the
sum of the durations listed before it (external).

### GpmfTrack

A walk is a stack of boxes (`stack`), an offset, and the tables it has read so
far. The recursion of the code is the stack. The file is arbitrary: a header is
chosen when it is read first and kept in `file`, so that the second walk and a
second visit see the same. The unit is four bytes; `moov` stands for `moov`,
`mdia`, `minf` and `stbl`, which both walks treat alike; a table is readable or
not. `IndexGpmfTrack` walks first, `FindGpmfTrack` second. `WalkAssumption` says of the
constants that the tables and the kinds of boxes are different things, and that the
tables besides `gpmd` are none of those with a meaning of their own.

`Onward` replaces a liveness property: every step goes further in a finite file or
out of a box or ends the walk.

`Frames` is the type of a box on the stack; `StaysInside` says that the offset is in
the innermost box and each box in the one around it, no deeper than the limit.

### SampleIndex and TelemetryDecoder

`chunk`, `rule`, `i`, `offset`, `timed` and `start` are the loop variables of
`Build`; a payload carries, as history, its chunk and its number there. The
tables are arbitrary, not only well-formed ones. In `TelemetryDecoder` what GoPro's
library (external) finds in a payload is chosen when the payload is read;
`Resolution` makes all times integers.

`SampleFormat` says what the file format says, without loops: which rule governs a
chunk, which samples are in it (`Inside`), how far behind its beginning one is
(`Distance`), which rule of times is about a sample and how long the rules before it
last. `WellFormed` is what the tables have to be. One thing it asks that the code does
not is that rules ascend from the first chunk on (`Ascending`): the code accepts a
first rule that begins at chunk 0 and rules that go back, and gives an index of
another meaning than any reader of the format would. What is shown of such tables is
what holds of all (`Located`, whole chunks, seamless times).

### Invocation, SessionCommands and SessionScript

`options` is what was typed, with a path or `NoPath` for each output; `at` goes through
`ParseOptions`, the three routes (inspect a file, several chapters, one chapter) and
the outputs in the order of `Run`. `resolve` says to which file a path leads: links,
and names that differ by case on a file system that ignores it. `disk` keeps with each
file of which videos it was made. An output is opened (`OpenExport` truncates,
`OpenOutput` wants none to be there), then finished or left as it is. `Fail` is a
refusal, an error or a crash anywhere.

`defaults` are the lines of the defaults file and the output prefix; `unread` is the
rest of the directory, listed in any order; `chapters` is the map of sessions,
`script` the commands so far. A file name is the record of what `ParseChapter` looks
at. The shell is external: it stops at the first command that fails (`set -e`,
`$LASTEXITCODE`). `camera` is history: which files the camera has left.

What the model shows of the code, and no document denies: exports named in the
defaults are overwritten by every session of one chapter and ignored for several
chapters; a script that was stopped stops again at the first session whose overlay is
there, and cannot resume behind it; with an empty output prefix an overlay in the
scanned folder takes the place of a chapter, and the next generation rejects the
folder; the loss of the end of an export, when it is closed, is not noticed.

Neither is an export refused that is aimed at a video of another session, or at an
overlay, and the user may type anything between two commands. Three assumptions name
what is expected of them, in the module, where TLC evaluates them for the instance:
`FolderAssumption` (names are as a camera gives them), `SettingsAssumption` (the
overlays' names are no links to other chapters; the other outputs of the defaults are
neither overlays nor chapters) and `ByHandAssumption` (a command typed by hand gives
no file the name of a chapter the camera has not left). Without the last a file may
join the day that was no part of it.

## 3. What TLC checks

Deadlock is checked in every run: a state without a successor other than that of a
call that has returned would be reported. Every property has in `PROJECT.json` a
mutant of the code that violates it in the same run.

| run | instance | distinct states | what it shows |
|---|---|---|---|
| `pipeline` | 2 workers, 2 slots, 6 frames, fair threads | 50 000 | `SlotOwnership`, `TrackInFrameOrder`, `NoLostWakeup`, `ImplementsStream`, `EventuallyReturns` |
| `process_run` | 3 sink calls of 2 bytes, pipes of 2, limit 1, up to 5 bytes of output, fair threads | 272 000 | `OurChild`, `NothingLeftBehind`, `SigpipeContained`, `HonestResult`, `ImplementsCall`, `FailureEndsTheCall`, `EventuallyReturns` |
| `windows_process` | the same, and a program that may be killed | 66 000 | `JobContains`, `ImplementsCall`, `WindowsReturns` |
| `encode_command` | 2 runs, one of several chapters and one of one, 2 frames, a pipe of 1, fair runs and FFmpegs | 17 000 | `SuccessMeansComplete`, `ManifestLifetime`, `NeverOverwritten`, `NothingLingers` |
| `renderer_inner` | a track square of 12 columns, arrows of 3, 3 track images, 4 readings, 2 speeds | 870 | `CachedIsReference` where arrows fit |
| `renderer_edge` | the same with arrows that do not fit | | `CachedIsReference` is violated |
| `overlay_data` | up to 4 GPS samples on 6 places over the 180th meridian, 5 times, 3 ranges | 733 000 | `TrackIsTheDrive`, `StrayFixCostsOnlyItself`, `CourseIsMeasured`, `CourseTurnsTheShortWay` |
| `chapter_timeline` | 3 chapters of 1 or 2 units with up to 2 GPS samples each, and chapters of up to seven digits | 669 000 | `OnOneTimeline`, `NoFalseAlarm`, `NothingLost`, `ShownAlmostOnTime` |
| `concat_sync` | the long chapters | | `ShownOnTime` is violated |
| `gpmf_samples` | up to 3 samples in up to 3 chunks, 2 rules of each kind, in any order | 249 000 | `Located`, `ImplementsFormat`, `InItsPayload`, `InOrder`, `AllDecoded` |
| `gpmf_track` | files of 12 units with 2 levels of boxes, both walks | 826 000 | `StaysInside`, `OneTrack`, `Agreement`, `Onward` |
| `session_script` | two sessions of up to three chapters in ten folders, seven commands by hand, 3 attempts | 1 049 000 | `ScriptIsTheDay`, `FinishedInOrder`, `OwnInputsUnchanged` |

**Why the bounds are enough to be interesting.** Six frames over two slots wrap the
ring twice, let a worker finish a frame ahead of the writer, let both wait for room at
once, and leave workers without a frame at the end; what three workers add is left to
the theorems, which hold for any number. The explored points 0, 0, 1, 3, 5, 8 give
frames that add nothing to the track, a first point that paints nothing, and frames
that add two or three segments. Six bytes through a pipe of two force partial writes;
the input exceeds the pipe, and five bytes of output exceed both the limit and the
pipe, so that writer, reader and child can all block. Two runs to one path are the
smallest instance of the race for the file; two frames over a pipe of one make a run
block and FFmpeg fall behind. In the renderer two readings share a text and one has a
text wider than its region, and the layouts with and without overlap are initial
states. Three chapters have one with neighbours on both sides. Four GPS samples are
two good ones around a stray one and one more; places differ by 12 degrees where a
tick allows 20, and by 24 where it does not; a baseline of 15 lies between. Two rules
and three chunks have a rule that begins too early (at chunk 0), late, twice or
never. The ten folders
have a whole day, every kind of gap, files that differ by case, a file that is no
chapter, and nothing; three attempts are enough to run a script, to generate again
over its overlays and to run that, or to type a command between.

**Fairness.** Each worker and the writer is a thread the scheduler runs: weak fairness
of each. Blocking on the mutex needs no more than that, because every thread passes
through finitely many critical sections, so nobody can hold off another for ever.
Nothing is assumed of spurious wakeups. The sink is assumed to return, which is
`process_run`'s subject. In `ProcessRun` the two threads and the delivery of SIGKILL
are fair, in `WindowsProcess` likewise; but no read and no other system call has to
fail (`ReaderGoesOn`, `SystemFails`), so that no call owes its return to an error. The
child is not fair: `FailureEndsTheCall` says that after a failure the call returns
whatever the child does. `EventuallyReturns` needs a child that gets on with its work,
and says so (`WF_vars(Child) => ...`): one that hangs does block a caller that has no
reason to kill it. On Windows the same goes for the child of a failed producer, which
is told by the end of its input only, and a read that fails leaves a child blocked on
its output: `WindowsReturns` is as much as the code gives. In `EncodeCommand` a run
and an FFmpeg that can go on do (`Run`, `Ffmpeg`); nothing has to fail, crash or end
early (`FrameFails`, `Crash`, `BreakDown`, `EndOfVideo` are not fair), so that
`NothingLingers` does not owe its truth to a rescue.

**Disagreements of code and documents.**

* `renderer_edge`. The comment at `renderer/debug_renderer.cc:544` and the test
  `MatchesReferenceAcrossFrameChangesAndLayouts` want the cached picture to equal
  the reference. A frame whose arrow is near the edge of the track is drawn in
  order; the next one, repainted by regions, clears what is left of the track and
  the track square, and not what the arrow left above, below or right of it. It
  takes a small picture (256x144 or 180x320, for example).
* `concat_sync`. `README.md:448` and `478` promise one continuous timeline. The
  concat manifest gives FFmpeg durations of six significant digits, so that each
  chapter of a thousand seconds or more shifts those that follow it by up to five
  milliseconds against their telemetry. `ShownAlmostOnTime` is the bound that holds.

## 4. What is proved

Every theorem holds for all values of the constants the named assumptions allow:
any number of workers, frames, runs and chapters, any sizes of pipes, pieces and
limits, any tables, any timestamps.

**The pipeline.** `IInv` of `OverlayPipeline` is inductive together with `TypeOK`.
Its parts: `FlightInv` (the frames claimed and not yet written are at most
`capacity` many, and each is with exactly one worker or ready in its slot: two
frames less than `capacity` apart never share a slot, which is the lemma on `%`
the rest stands on), `TrackInv` (the worker that prepares a frame holds the mutex,
and the frame is the last one claimed, so targets arrive in order), `PictureInv`
(a slot published without error holds the picture of its frame) and
`DeliveryInv` (what was accepted is the sequence of pictures up to
`next_to_write`). Neither `SlotOwnership` nor `TrackInFrameOrder` is inductive by
itself: that no worker renders into the slot being written follows only from the
claimed frames being bounded by the ring, and that the track never goes back only
from the mutex being held between claim and update. `NoWakeupIsLost` needs an
invariant of its own on who still has a notification to send.
`PoolImplementsStream` is the refinement that the run `pipeline` checks: each action
maps to an action of `OverlayStream` or to a stutter.

**The process runner.** `IInv` of `ProcessRun` has the parts `LifeInv` (stages of
the call, the child and the reader go together), `SigpipeInv`, `CaptureInv`
(captured = what was read, up to the limit), `InputInv` (bytes sent end at the
end of a sink call, except inside one) and `KillInv` (a kill has a reason that
`Outcome` reports). `OurChild`, `NothingLeftBehind`, `SigpipeContained` and
`HonestResult` follow from it. `PosixImplementsCall` is the refinement of `ProcessCall`:
a step of the caller, the reader or the child is one of its steps or a stutter, and
`KillInv` is what excludes that a call succeeds with a child it has killed.
`WindowsJobContains` needs only that the program holds the job from the assignment on
and that the child is suspended before. `WindowsImplementsCall` is the same refinement
there. It rests on that, on `WindowsLifeInv` (nothing kills the child before the call
answers or the program dies, so what has ended by then ended by itself) and on
`WindowsInputInv` (a producer that succeeded has handed over everything): closing the
job is what dooms a child that is left, and is a step of its own only when the program
is killed.

**The encoding command.** `SuccessMeansComplete` is not inductive: that a later
FFmpeg does not touch the file needs `FilesInv` (an FFmpeg that encodes or has
exited is the writer of the output, so there is at most one), that the file is
complete needs `StageInv` (the producer's success means all frames were fed, the
call's needs both). `ManifestInv` gives `ManifestLifetime`; its difficulty is the
FFmpeg of a crashed run. `NeverOverwritten` is an action property, from `FilesInv`.
`KeepsContracts` maps every run to a `ProcessCall` and to an `OverlayStream` of its own;
the steps of the others are stutters. So what this module assumes of the runner and of
the pool of workers is what `PosixImplementsCall`, `WindowsImplementsCall` and
`PoolImplementsStream` show of them. (A killed FFmpeg stays "doomed" in this mapping,
since the run does not tell its death from its end.)

**The renderer.** `DrawsTheReference` shows `CachedIsReference` under `ArrowsFit`
for any sequence of frames. Its invariant adds `CacheInv`: a cache that is in use
holds what drawing would produce again.

**Overlay data.** `DataInvariant` says what each stage leaves to the next, for any
samples, places and ranges. `KeptInOrder` (the samples kept increase, and any two
neighbours are plausible) and `EnoughKept` carry the filter;
`PlausibleDriveKept` is `StrayFixCostsOnlyItself` together with the same of a drive
without strays, for the two only hold together: the filter does not know yet whether
a stray is to come. `DrawnAsAsked` says that the track is the projection of the clip,
and from it `DrawsTheDrive` shows `TrackIsTheDrive`, which compares it with sums of
legs: that the way east of a sample is the sum of the shorter ways between the
samples before it, modulo a whole turn, is shown with the first index that would
break it. `CourseFollowsTrack` carries the search for courses, whose target only
moves forwards, and gives `MeasuresTheCourse`; `FrameIsSampled` gives
`TurnsTheShortWay`, with the lemmas about `fmod` and the shorter way round.

**Chapters.** `OnOneTimeline` and `NoFalseAlarm` need `LastInv`: the last joined
sample of a stream is not behind where the next chapter begins, although the
samples dropped behind the end are. `NothingLost` needs `KeptInv`, which says the
same of the samples already passed. `Increasing`, that joined timestamps increase
strictly, is a conjunct of the invariant; no run checks it any more.
`ShowsAlmostOnTime` goes on to where FFmpeg shows them: `Almost` bounds the drift of
a chapter by that of the one before and five milliseconds, because six digits of a
number below ten thousand seconds are off by no more. Which six digits they are is
chosen in `Number` by the size of the number, and the proof has a case for each.

**The sample index.** `RuleInv` (the rule at hand governs the chunk), `NextInv`
(the offset is where the last sample ended), `WholeInv` (chunks that have been left
have all their samples) and `TimedInv` (the times so far are seamless) give
`Located`, `EveryChunkWhole` and `Seamless`, for tables of any content and length.
The last two are only proved: what they say of small tables is part of
`ImplementsFormat`.

`FormatImplemented` proves that property for any tables. `FormatInv` relates the
loops to the closed form: with ascending rules the rule at hand is the one that
governs the chunk, the list is as long as the chunks passed and the samples of this
one (`ListedInv`), and the clock is the sum of the rules passed and the samples of
this one (`ClockInv`). Each way to reject tables then contradicts one conjunct of
`WellFormed`. The sums are recursive functions, and what is needed of them
(they grow with their length; the sums of chunks add up) is shown by the
least element at which it would fail. `Ascending` is what makes `Governing` unique;
TLC found that it has to speak of the first rule too.

**The decoder**, in the same module, stands on that invariant and `OrderInv`: what has
been timed ends before what is timed later begins. (Stated of all pairs of payloads it
is kept by a step; derived from `Seamless` it would need induction over the list.)
`HandInv` says that the samples of the payload at hand come last and are of a stream
already passed, `PairInv` orders neighbours. `SamplesInTheirPayload` and
`SamplesInOrder` follow, for any tables, contents and limits, with a little arithmetic
of `\div` (`Evenly`). `DecodesAll` needs two more: every sample of a stream that is
behind the cursor is in the result (`WholeTelemetry`), and every sample of the result
is of a stream behind the cursor and behind the samples before it (`OnceInv`), which
together say that none is missing, doubled or out of the order of the file.

**The box walks.** `StackInv` is `TypeOK`, `StaysInside`, and two facts about the
innermost box and the ends of all. Boxes may claim any size, and the file is any. A
step checks a box against its parent once, when it is entered, and the theorem is that
this suffices: `WalkStaysInside`. `WalkGoesOn` (`Onward`) follows, and `IndexOfOneTrack`
(`OneTrack`): all tables of an index are of one track.

`WalksAgree` is about two walks through one file that nests its tracks as the format
wants. `PathInv` describes what they have in common: there is a set of `views`, each a
stack and an offset, that leads from the beginning of the file to where the first walk
is, or to the GPMF description it has found (`Moves` says where either walk goes from a
view, `Leads` that all views but the last lead on). When the first walk has ended, its
verdict is that of the last view (`Outcome`), and wherever the second walk is, it is at
one of them. So it comes to the same end (`Verdicts`). `PlainInv` has what either walk
knows of itself: which is first, and that descriptions are read inside tracks only. The
path is bound in the invariant; it is no variable of the model.

**Commands and the day.** `InputsRemainUnchanged` proves `OwnInputsUnchanged` for any
options on any file system: `InputInv` says that what is being written is none of the
inputs, which exports have from the comparison of files with their single input, and
other outputs from the inputs having been there before anything was written.

`DayInv` is the invariant of a whole day. `FilesInv`: what the camera left is there.
`NamesInv`: whatever is listed as a chapter is the camera's, or has its name, so that
a later scan can see more files but no more chapters. `ShellInv`: between commands
nothing is being written. `ScanInv`: each of the camera's chapters is in the table or
still to be read, and none is there twice. `EmitInv`: the script so far is in order
and before every session that waits. `PrintInv`: a script stays the day it was made
of while its commands run and others are typed. `RunningInv`: the overlays before the
running command are complete. `ScriptIsWhole` and `ScriptFinishesInOrder` follow; the
hard steps are a scan over the overlays of an earlier script, and a typed command
that comes between a script and its next run. `DayLeavesInputs` is
`OwnInputsUnchanged` again, of every command of such a day.

**Assumed.** Each theorem holds for all constants that satisfy the named assumption of
their module (`...Assumption`); TLC evaluates these on every run. They say of what type
a constant is, or what of its environment the program is owed; section 2 has those that
are more than types.

**Induction.** The provers have no induction over data: the theorems of the library
that have it take an operator. Where a recursive function has to be reasoned about
(`Sum`, `SumOf`, the starts of chapters), the fact is put as a set of counterexamples,
which would have a least element (`WFMin`, `NatLessThanWellFounded`). No module with a
theorem, and none it uses, has a recursive operator.

**Only model-checked.** Liveness under fairness (`EventuallyReturns` twice,
`FailureEndsTheCall`, `WindowsReturns`, `NothingLingers`), which is out of the
provers' reach. All other properties of the passing runs are theorems. TLC does not
check the inductive invariants in these runs, because they are proved.

## 5. Plan

Done since the plan was first written: the Windows runner, the abstract call with both
refinements, the generator with the shell and the program, the outputs of an invocation
on every route, and the proofs: of every safety property, of the refinements, and of
the contracts between the encoding, the process runner and the pool.

What is left: `OutputDimensions` (against `README.md:378`) and the selected range, as
pure functions checked at their boundaries.

## 6. What is not modelled, and why

* **Options** (`cli/options.cc`): which combinations are accepted is `Accepted` in
  `Invocation`; the ranges of the numbers are one condition, and parsing is left out.
* **Telemetry serialisation, GPMF metadata** (`parser/telemetry_protobuf.cc`,
  `parser/gpmf_metadata.cc`): field-by-field translations without control flow that
  TLC would add anything to. Which files they write is in `Invocation`.
* **Signal processing** (`telemetry/g_force.cc`, `telemetry/axis_mapping.cc`,
  `telemetry/mount_orientation.cc`, `statistics/gps_statistics.cc`): floating-point
  sums and filters over one pass; the choice of a mapping is the best score of a fixed
  list. What they ask of their input, strictly increasing times, is `Increasing`.
* **Probing** (`ffmpeg/video_probe.cc`): parsing text. Its use of the process runner
  is a call without producer of `ProcessRun`; whether a chapter matches the first is
  the choice of `Reject` in `ChapterTimeline`.
* **Quoting and paths of the generator**, and its own command line: text.
* **The end of FFmpeg's main input before the overlay's** (`process_posix.cc:265`): a
  run may fail although its file was finished, if FFmpeg closes its input early;
  `EndOfVideo` allows it and no property speaks of it, because the order is FFmpeg's.
* **The first position of a recording** is taken as true by `BuildOverlayDataImpl`; no
  property asks for more, since nothing tells which of two is the stray one.
* **Drawing**: glyphs, lines, colours and scaling are layers in `CachedRenderer`.
* **Threads that can not be created** abort the program, which is built without
  exceptions; **a grandchild** that holds FFmpeg's output open would block the
  reader: FFmpeg starts none.
* **The benchmark, the build and continuous integration** have no behaviour.
