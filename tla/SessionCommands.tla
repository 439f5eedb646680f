-------------------------- MODULE SessionCommands --------------------------
(***************************************************************************)
(* The generator of a day's script (src/tools/session_commands.cc): it     *)
(* reads the defaults, lists a folder in whatever order the file system    *)
(* has, groups the camera's files into sessions, and prints one command    *)
(* for each session, or an error and nothing else.                         *)
(*                                                                         *)
(* A file name is a record of the parts that ParseChapter looks at: what   *)
(* precedes the camera's name, the letters, the chapter and the number of  *)
(* the recording, and upper or lower case.  A session is a record of what  *)
(* its name is made of.  Quoting is left out.                              *)
(***************************************************************************)
EXTENDS Naturals, Sequences, FiniteSets

VARIABLES
  defaults,      \* the lines of the defaults file, and the output prefix
  unread,        \* names in the folder that were not yet listed
  chapters,      \* of each chapter: its session, its index and its file
  script,        \* the commands so far
  stage          \* where GenerateSessionCommands is

generatorVars == <<defaults, unread, chapters, script, stage>>

Done == {"printed", "rejected", "unreadable"}

Generated == {"input", "input_list", "output_video"}

\* Every flag at most once, no flag that is generated, and the axes.
DefaultsAccepted ==
  LET lines == defaults.lines
  IN  /\ \A k \in 1 .. Len(lines) : lines[k].flag \notin Generated
      /\ \A j, k \in 1 .. Len(lines) : lines[j].flag = lines[k].flag => j = k
      /\ \E k \in 1 .. Len(lines) :
           lines[k].flag = "imu_axis_order" /\ lines[k].value # ""

IsChapter(name) ==
  /\ name.prefix = ""
  /\ \/ name.letters = "GOPR"
     \/ name.letters \in {"GP", "GH", "GX"} /\ name.chapter > 0

\* Later chapters of a GOPR recording are called GP; a GH or GX recording
\* begins with chapter 1.
Session(name) ==
  IF name.letters \in {"GOPR", "GP"}
  THEN [letters |-> "GOPR", first |-> 0, id |-> name.id]
  ELSE [letters |-> name.letters, first |-> 1, id |-> name.id]

\* The order of std::map: that of the sessions' names.
Rank == [GH |-> 1, GOPR |-> 2, GX |-> 3]

Precedes(s, r) ==
  \/ Rank[s.letters] < Rank[r.letters]
  \/ s.letters = r.letters /\ s.id < r.id

\* A session is named after its first chapter, in upper case, and so is its
\* output; the extension is in lower case.
OutputVideo(prefix, session) ==
  [prefix |-> prefix, letters |-> session.letters,
   chapter |-> session.first, id |-> session.id, case |-> "lower"]
-----------------------------------------------------------------------------
ReadDefaults(folder) ==
  /\ stage = "defaults" /\ DefaultsAccepted
  /\ stage' = "scan"
  /\ unread' = folder
  /\ chapters' = {}
  /\ script' = << >>
  /\ UNCHANGED defaults

RejectDefaults ==
  /\ stage = "defaults" /\ ~DefaultsAccepted
  /\ stage' = "rejected"
  /\ UNCHANGED <<defaults, unread, chapters, script>>

\* The defaults, the folder or an entry of it can not be read.
ReadingFails ==
  /\ stage \in {"defaults", "scan"}
  /\ stage' = "unreadable"
  /\ UNCHANGED <<defaults, unread, chapters, script>>

Known(name) ==
  \E c \in chapters : c.session = Session(name) /\ c.index = name.chapter

Add(name) ==
  chapters' = chapters \cup {[session |-> Session(name),
                              index |-> name.chapter, file |-> name]}

\* Mutant: the first file of a chapter is taken.
TakeFirst(name) ==
  /\ stage = "scan" /\ name \in unread
  /\ unread' = unread \ {name}
  /\ IF IsChapter(name) /\ ~Known(name) THEN Add(name)
     ELSE UNCHANGED chapters
  /\ UNCHANGED <<defaults, script, stage>>

\* One entry of the folder.  A second file for a chapter is an error.
ReadEntry(name) ==
  /\ stage = "scan" /\ name \in unread
  /\ unread' = unread \ {name}
  /\ \/ ~IsChapter(name) /\ UNCHANGED <<chapters, stage>>
     \/ IsChapter(name) /\ ~Known(name) /\ Add(name) /\ UNCHANGED stage
     \/ /\ IsChapter(name) /\ Known(name)
        /\ stage' = "rejected" /\ UNCHANGED chapters
  /\ UNCHANGED <<defaults, script>>

EndOfFolder ==
  /\ stage = "scan" /\ unread = {}
  /\ stage' = IF chapters = {} THEN "rejected" ELSE "emit"
  /\ UNCHANGED <<defaults, unread, chapters, script>>

Of(session) == {c \in chapters : c.session = session}

\* The sessions without a command, in order.
Waiting ==
  {c.session : c \in chapters} \ {script[k].session : k \in 1 .. Len(script)}

Earliest == CHOOSE s \in Waiting : \A r \in Waiting \ {s} : Precedes(s, r)

\* No chapter is missing before the last one that is there.
Gapless(session) ==
  \A c \in Of(session) :
    c.index > session.first => \E b \in Of(session) : b.index = c.index - 1

Command(session) ==
  [session |-> session,
   inputs |-> [k \in 1 .. Cardinality(Of(session)) |->
                 (CHOOSE c \in Of(session) :
                    c.index = session.first + k - 1).file],
   output |-> OutputVideo(defaults.output_prefix, session)]

Emit ==
  /\ stage = "emit" /\ Waiting # {}
  /\ \/ /\ Gapless(Earliest)
        /\ script' = Append(script, Command(Earliest))
        /\ UNCHANGED stage
     \/ /\ ~Gapless(Earliest)
        /\ script' = << >>
        /\ stage' = "rejected"
  /\ UNCHANGED <<defaults, unread, chapters>>

WriteScript ==
  /\ stage = "emit" /\ Waiting = {}
  /\ stage' = "printed"
  /\ UNCHANGED <<defaults, unread, chapters, script>>

Generate(folder) ==
  \/ ReadDefaults(folder) \/ RejectDefaults \/ ReadingFails
  \/ \E name \in unread : ReadEntry(name)
  \/ EndOfFolder \/ Emit \/ WriteScript
=============================================================================
