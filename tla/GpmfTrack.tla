----------------------------- MODULE GpmfTrack -----------------------------
(***************************************************************************)
(* Finding the GPMF track in the tree of boxes of an MP4 file.  Two walks  *)
(* do so: IndexGpmfTrack (src/src/parser/mp4_gpmf_index.cc:75-325), which  *)
(* also reads the track's sample tables for SampleIndex, and FindGpmfTrack *)
(* (src/src/parser/mp4_gpmf.cc:54-161), which only tells whether there is  *)
(* one.  The model lets one follow the other on the same file.             *)
(*                                                                         *)
(* The file is arbitrary, and what a header contains is chosen when it is  *)
(* first read.  The unit is four bytes: a header has two, an extended one  *)
(* four.  What a table contains is reduced to whether it can be read; with *)
(* its header goes the number of entries of a table of sample descriptions.*)
(***************************************************************************)
EXTENDS Integers, Sequences

CONSTANTS
  FileSize,      \* of the file, in units
  MaximumDepth,  \* kMaximumBoxDepth, 16 in both walks
  Headers,       \* what may be read as a header
  OtherTables    \* mdhd, stsz, stco or co64, stsc, stts

\* One name for moov, mdia, minf and stbl, which both walks treat alike.
Types == {"moov", "trak", "stsd", "gpmd", "free"} \cup OtherTables

Header == [type : Types, size : Nat, extended : Nat, entries : Nat,
           good : BOOLEAN]

ASSUME WalkAssumption ==
  /\ FileSize \in Nat /\ MaximumDepth \in Nat
  /\ Headers \subseteq Header
  /\ OtherTables \cap {"moov", "trak", "stsd", "gpmd", "free"} = {}

VARIABLES
  walk,     \* which of the two walks it is
  verdict,  \* what each has returned: found, none, failed, or nothing so far
  file,     \* the headers read so far
  stack,    \* the boxes the walk is in: where they end, and what they are
  offset,   \* where the next header is
  tables,   \* tables of the track read so far, with the box of the track
  nested    \* history: the tracks and tables are where the format wants them

vars == <<walk, verdict, file, stack, offset, tables, nested>>

Walks == {"index", "locate"}
Top == stack[Len(stack)]
Depth == Len(stack) - 1

Frame(kind, end) == [kind |-> kind, end |-> end, left |-> 0, trak |-> offset]

Start == <<[kind |-> "search", end |-> FileSize, left |-> 0, trak |-> 0]>>

Init ==
  /\ walk = "index" /\ verdict = [w \in Walks |-> "pending"]
  /\ file = << >>
  /\ stack = Start /\ offset = 0
  /\ tables = {} /\ nested = TRUE

Walking == verdict[walk] = "pending"
-----------------------------------------------------------------------------
(* ReadBox.                                                                *)

HeaderAt(h) ==
  IF offset \in DOMAIN file THEN h = file[offset] ELSE h \in Headers

Reveal(h) == file' = [o \in DOMAIN file \cup {offset} |->
                       IF o = offset THEN h ELSE file[o]]

HeaderUnits(h) == IF h.size = 1 THEN 4 ELSE 2

\* A size of zero means up to the end of the parent, one that the size follows.
BoxUnits(h) ==
  CASE h.size = 0 -> Top.end - offset
    [] h.size = 1 -> h.extended
    [] OTHER -> h.size

\* Mutant: a box may be smaller than its header.
NotTooLarge(h) == BoxUnits(h) <= Top.end - offset

\* Mutant: a box may end behind its parent, if only inside the file.
InsideFile(h) ==
  BoxUnits(h) >= HeaderUnits(h) /\ BoxUnits(h) <= FileSize - offset

Valid(h) ==
  BoxUnits(h) >= HeaderUnits(h) /\ BoxUnits(h) <= Top.end - offset

Data(h) == offset + HeaderUnits(h)
End(h) == offset + BoxUnits(h)
-----------------------------------------------------------------------------
(* The walks.                                                              *)

Fail ==
  /\ verdict' = [verdict EXCEPT ![walk] = "failed"]
  /\ UNCHANGED <<walk, stack, offset, tables, nested>>

Walker == Walking /\ Top.kind # "entries" /\ offset < Top.end

TooShortForHeader ==
  Walker /\ Top.end - offset < 2 /\ Fail /\ UNCHANGED file

\* A box that is read; BadBox is one whose size is wrong.
Box(h) == Walker /\ Top.end - offset >= 2 /\ HeaderAt(h) /\ Reveal(h)

BadBox == \E h \in Headers : Box(h) /\ ~Valid(h) /\ Fail

\* Mutant: finding the track does not look into tracks.
NotTracks(h) == h.type = "moov"

\* The boxes both walks look into, and a track for the one that only locates.
Container(h) == h.type = "moov" \/ (h.type = "trak" /\ walk = "locate")

NotTooDeep == Depth < MaximumDepth

InTrack == Top.kind = "track"

\* To indexing, a track within a track is a box like any other.
Track(h) == h.type = "trak" /\ walk = "index" /\ ~InTrack

\* The walk of a track begins with empty tables.
Entered(h) == IF h.type = "trak" THEN Frame("track", End(h))
              ELSE [Top EXCEPT !.end = End(h)]

\* Mutant: the tables of one track are kept for the next.
KeepTables(h) == tables

TablesIn(h) == IF h.type = "trak" /\ walk = "index" THEN {} ELSE tables

Enter(h) ==
  /\ Container(h) \/ Track(h)
  /\ IF NotTooDeep
     THEN /\ stack' = Append(stack, Entered(h))
          /\ offset' = Data(h)
          /\ tables' = TablesIn(h)
          /\ nested' = (nested /\ (h.type = "trak" => ~InTrack))
          /\ UNCHANGED <<walk, verdict>>
     ELSE Fail

EnterBox == \E h \in Headers : Box(h) /\ Valid(h) /\ Enter(h)

Skipped(h) == ~Container(h) /\ ~Track(h)

\* Boxes that mean nothing to the walk.  Indexing looks for tables in a track
\* only.
Skip(h) ==
  /\ Skipped(h)
  /\ h.type = "stsd" => walk = "index" /\ ~InTrack
  /\ h.type \in OtherTables => walk = "locate" \/ ~InTrack
  /\ offset' = End(h)
  /\ nested' = (nested /\ (walk = "index" => h.type \notin {"stsd", "trak"}))
  /\ UNCHANGED <<walk, verdict, stack, tables>>

SkipBox == \E h \in Headers : Box(h) /\ Valid(h) /\ Skip(h)

\* Mdhd, Stsz, ChunkOffsets, Stsc, Stts.
ReadTable ==
  \E h \in Headers :
    /\ Box(h) /\ Valid(h)
    /\ h.type \in OtherTables /\ walk = "index" /\ InTrack
    /\ IF h.good
       THEN /\ tables' = tables \cup {<<h.type, Top.trak>>}
            /\ offset' = End(h)
            /\ UNCHANGED <<walk, verdict, stack, nested>>
       ELSE Fail

\* Stsd and ScanSampleDescriptions.
OpenDescriptions ==
  \E h \in Headers :
    /\ Box(h) /\ Valid(h)
    /\ h.type = "stsd" /\ (walk = "index" => InTrack)
    /\ IF End(h) - Data(h) >= 2
       THEN /\ stack' = Append(stack,
                 [Frame("entries", End(h)) EXCEPT !.left = h.entries,
                                                  !.trak = Top.trak])
            /\ offset' = Data(h) + 2
            /\ nested' = (nested /\ InTrack)
            /\ UNCHANGED <<walk, verdict, tables>>
       ELSE Fail

Entry(h) ==
  /\ Walking /\ Top.kind = "entries" /\ Top.left > 0
  /\ HeaderAt(h) /\ Reveal(h)

BadEntry == \E h \in Headers : Entry(h) /\ ~Valid(h) /\ Fail

Description ==
  \E h \in Headers :
    /\ Entry(h) /\ Valid(h)
    /\ walk = "locate" => h.type # "gpmd"
    /\ offset' = End(h)
    /\ stack' = [stack EXCEPT ![Len(stack)].left = @ - 1]
    /\ tables' = IF h.type = "gpmd"
                 THEN tables \cup {<<"gpmd", Top.trak>>} ELSE tables
    /\ UNCHANGED <<walk, verdict, nested>>

\* The other walk has found what it looks for.
Located ==
  \E h \in Headers :
    /\ Entry(h) /\ Valid(h) /\ walk = "locate" /\ h.type = "gpmd"
    /\ verdict' = [verdict EXCEPT ![walk] = "found"]
    /\ UNCHANGED <<walk, stack, offset, tables, nested>>
-----------------------------------------------------------------------------
(* Leaving a box.                                                          *)

AtEnd ==
  /\ Walking
  /\ IF Top.kind = "entries" THEN Top.left = 0 ELSE offset >= Top.end

\* The box that is left is the one of a track, not one within it.
TrackDone ==
  walk = "index" /\ InTrack /\ stack[Len(stack) - 1].kind = "search"

\* The track is the GPMF track.  What Build makes of complete tables is the
\* subject of SampleIndex.
Tabled == {pair[1] : pair \in tables}
GpmfTrack == TrackDone /\ "gpmd" \in Tabled

\* What is left ends inside its parent; the walk goes on behind it.
Leave ==
  /\ AtEnd /\ Len(stack) > 1 /\ ~GpmfTrack
  /\ stack' = SubSeq(stack, 1, Len(stack) - 1)
  /\ offset' = Top.end
  /\ UNCHANGED <<walk, verdict, file, tables, nested>>

BuildIndex ==
  /\ AtEnd /\ Len(stack) > 1 /\ GpmfTrack
  /\ \E result \in {"failed"} \cup
                   (IF OtherTables \subseteq Tabled THEN {"found"} ELSE {}) :
       verdict' = [verdict EXCEPT ![walk] = result]
  /\ UNCHANGED <<walk, file, stack, offset, tables, nested>>

NoTrack ==
  /\ AtEnd /\ Len(stack) = 1
  /\ verdict' = [verdict EXCEPT ![walk] = "none"]
  /\ UNCHANGED <<walk, file, stack, offset, tables, nested>>

\* The other walk, on the same file.
Again ==
  /\ walk = "index" /\ ~Walking
  /\ walk' = "locate" /\ stack' = Start /\ offset' = 0
  /\ UNCHANGED <<verdict, file, tables, nested>>

Done == verdict["locate"] # "pending"
Finished == Done /\ UNCHANGED vars

Step ==
  \/ TooShortForHeader \/ BadBox \/ EnterBox \/ SkipBox \/ ReadTable
  \/ OpenDescriptions \/ BadEntry \/ Description \/ Located
  \/ Leave \/ BuildIndex \/ NoTrack \/ Again

Next == Step \/ Finished

Spec == Init /\ [][Next]_vars
-----------------------------------------------------------------------------
(* Properties.                                                             *)

Frames == [kind : {"search", "track", "entries"}, end : Nat, left : Nat,
           trak : Nat]

TypeOK ==
  /\ walk \in Walks
  /\ verdict \in [Walks -> {"pending", "found", "none", "failed"}]
  /\ stack \in Seq(Frames) /\ stack # << >>
  /\ offset \in Nat

\* Whatever sizes a file claims, the walk never leaves the box it is in, nor
\* the box the file, and the nesting is bounded (mp4_gpmf_index.cc:100, 218;
\* mp4_gpmf.cc:89, 118): nothing is taken for a box of a track that is not in
\* it, and only descriptions lie one deeper than the limit, without recursion.
StaysInside ==
  /\ offset <= Top.end
  /\ Top.end <= FileSize
  /\ \A d \in 2 .. Len(stack) : stack[d].end <= stack[d - 1].end
  /\ \A d \in 1 .. Len(stack) :
       stack[d].kind # "entries" => d <= MaximumDepth + 1

\* All tables of an index are those of the track with the GPMF description.
OneTrack ==
  verdict["index"] = "found" =>
    /\ \A a, b \in tables : a[2] = b[2]
    /\ Tabled = OtherTables \cup {"gpmd"}

\* In a file whose tracks and descriptions are where they belong the two walks
\* agree: one that can be indexed is also found to have a GPMF track, and in
\* one without a track to index none is found (mp4_gpmf.h:25-31).
Agreement ==
  Done /\ nested =>
    /\ verdict["index"] = "found" => verdict["locate"] = "found"
    /\ verdict["index"] = "none" => verdict["locate"] = "none"

\* Every step of a walk goes further in the file, or out of a box, or ends the
\* walk: no file makes it go round in circles (mp4_gpmf_index.cc:100, 234).
Onward ==
  [][walk' = walk =>
       \/ offset' > offset
       \/ offset' >= offset /\ Len(stack') < Len(stack)
       \/ verdict' # verdict]_vars
=============================================================================
