---------------------------- MODULE SampleIndex ----------------------------
(***************************************************************************)
(* Where in the file and when in the recording each GPMF sample is: Build  *)
(* (src/src/parser/mp4_gpmf_index.cc:239-282), which expands the           *)
(* run-length coded sample tables of the track.  The tables are read by    *)
(* GpmfTrack; what they contain is arbitrary.                              *)
(*                                                                         *)
(* Offsets and times are 64 bits wide.  The first are compared with the    *)
(* size of the file before they are added to, the second are sums of at    *)
(* most ten million 32-bit durations: neither wraps.                       *)
(***************************************************************************)
EXTENDS Integers, Sequences

CONSTANT Tables  \* the sample tables a track may have

ChunkRule == [first : Nat, count : Nat, description : Nat]
TimeRule == [count : Nat, duration : Nat]

SampleTables ==
  [file_size : Nat, gpmd_description : Nat, timescale : Nat,
   sizes : Seq(Nat), chunks : Seq(Nat),
   chunk_rules : Seq(ChunkRule), time_rules : Seq(TimeRule)]

ASSUME TablesAssumption == Tables \subseteq SampleTables

VARIABLES
  t,         \* the tables
  stage,     \* looking for a chunk's rule, listing, timing, returned
  chunk,     \* the chunk
  rule,      \* the entry of the table of chunks, then that of times
  i,         \* how many samples of the chunk, or of the time rule, are done
  offset,    \* where the chunk's next sample is
  start,     \* when the next sample begins
  timed,     \* how many samples have a time
  payloads   \* out.payloads; with each, the chunk it is in and its number there

vars == <<t, stage, chunk, rule, i, offset, start, timed, payloads>>

Returned == {"indexed", "rejected"}

Init ==
  /\ t \in Tables
  /\ stage = "check" /\ chunk = 1 /\ rule = 1 /\ i = 0
  /\ offset = 0 /\ start = 0 /\ timed = 0
  /\ payloads = << >>
-----------------------------------------------------------------------------
Reject ==
  /\ stage' = "rejected"
  /\ UNCHANGED <<t, chunk, rule, i, offset, start, timed, payloads>>

Incomplete ==
  \/ t.gpmd_description = 0 \/ t.timescale = 0
  \/ t.sizes = << >> \/ t.chunks = << >>
  \/ t.chunk_rules = << >> \/ t.time_rules = << >>

RejectIncomplete == stage = "check" /\ Incomplete /\ Reject

Begin ==
  /\ stage = "check" /\ ~Incomplete
  /\ stage' = "chunk"
  /\ UNCHANGED <<t, chunk, rule, i, offset, start, timed, payloads>>
-----------------------------------------------------------------------------
(* Chunks.  Chunks, rules and samples count from 1, as in the file.        *)

Rule == t.chunk_rules[rule]

NextRuleApplies ==
  rule < Len(t.chunk_rules) /\ t.chunk_rules[rule + 1].first <= chunk

AtChunk == stage = "chunk" /\ chunk <= Len(t.chunks)

AdvanceRule ==
  /\ AtChunk /\ NextRuleApplies
  /\ rule' = rule + 1
  /\ UNCHANGED <<t, stage, chunk, i, offset, start, timed, payloads>>

\* No rule for the chunk, or one that is about another kind of sample.
WrongRule == Rule.first > chunk \/ Rule.description # t.gpmd_description

RejectRule == AtChunk /\ ~NextRuleApplies /\ WrongRule /\ Reject

EnterChunk ==
  /\ AtChunk /\ ~NextRuleApplies /\ ~WrongRule
  /\ stage' = "samples" /\ i' = 0
  /\ offset' = t.chunks[chunk]
  /\ UNCHANGED <<t, chunk, rule, start, timed, payloads>>

Sample == Len(payloads) + 1

\* Mutant: only where a sample begins is looked at.
BeginsInFile == Sample <= Len(t.sizes) /\ offset <= t.file_size

\* There is a size for the sample, and it lies inside the file.
InFile ==
  /\ Sample <= Len(t.sizes)
  /\ offset <= t.file_size /\ t.sizes[Sample] <= t.file_size - offset

RejectSample == stage = "samples" /\ i < Rule.count /\ ~InFile /\ Reject

\* Mutant: the chunk's samples all lie at its beginning.
StayAtBeginning == offset

After == offset + t.sizes[Sample]

ListSample ==
  /\ stage = "samples" /\ i < Rule.count /\ InFile
  /\ payloads' = Append(payloads,
       [file_offset |-> offset, size_bytes |-> t.sizes[Sample],
        start_time_units |-> 0, duration_units |-> 0,
        chunk |-> chunk, number |-> i])
  /\ offset' = After
  /\ i' = i + 1
  /\ UNCHANGED <<t, stage, chunk, rule, start, timed>>

LeaveChunk ==
  /\ stage = "samples" /\ i = Rule.count
  /\ stage' = "chunk" /\ chunk' = chunk + 1
  /\ UNCHANGED <<t, rule, i, offset, start, timed, payloads>>

AllListed ==
  stage = "chunk" /\ chunk > Len(t.chunks) /\ Len(payloads) = Len(t.sizes)

TooFewListed ==
  /\ stage = "chunk" /\ chunk > Len(t.chunks) /\ ~AllListed
  /\ Reject
-----------------------------------------------------------------------------
(* Times.                                                                  *)

BeginTiming ==
  /\ AllListed
  /\ stage' = "time" /\ rule' = 1 /\ i' = 0
  /\ UNCHANGED <<t, chunk, offset, start, timed, payloads>>

Timing == stage = "time" /\ rule <= Len(t.time_rules)

TooManyTimed ==
  /\ Timing /\ i < t.time_rules[rule].count /\ timed >= Len(payloads)
  /\ Reject

NextStart == start + t.time_rules[rule].duration

WithTime ==
  [payloads[timed + 1] EXCEPT !.start_time_units = start,
                              !.duration_units = t.time_rules[rule].duration]

TimeSample ==
  /\ Timing /\ i < t.time_rules[rule].count /\ timed < Len(payloads)
  /\ payloads' = [payloads EXCEPT ![timed + 1] = WithTime]
  /\ start' = NextStart
  /\ timed' = timed + 1
  /\ i' = i + 1
  /\ UNCHANGED <<t, stage, chunk, rule, offset>>

NextTimeRule ==
  /\ Timing /\ i = t.time_rules[rule].count
  /\ rule' = rule + 1 /\ i' = 0
  /\ UNCHANGED <<t, stage, chunk, offset, start, timed, payloads>>

AllTimed == timed = Len(payloads)

TooFewTimed ==
  /\ stage = "time" /\ rule > Len(t.time_rules) /\ ~AllTimed
  /\ Reject

Finish ==
  /\ stage = "time" /\ rule > Len(t.time_rules) /\ AllTimed
  /\ stage' = "indexed"
  /\ UNCHANGED <<t, chunk, rule, i, offset, start, timed, payloads>>

Finished == stage \in Returned /\ UNCHANGED vars

Step ==
  \/ RejectIncomplete \/ Begin
  \/ AdvanceRule \/ RejectRule \/ EnterChunk
  \/ RejectSample \/ ListSample \/ LeaveChunk \/ TooFewListed
  \/ BeginTiming \/ TooManyTimed \/ TimeSample \/ NextTimeRule
  \/ TooFewTimed \/ Finish

Next == Step \/ Finished

Spec == Init /\ [][Next]_vars
-----------------------------------------------------------------------------
(* Properties.                                                             *)

Payload ==
  [file_offset : Nat, size_bytes : Nat,
   start_time_units : Nat, duration_units : Nat,
   chunk : Nat \ {0}, number : Nat]

TypeOK ==
  /\ t \in SampleTables
  /\ stage \in {"check", "chunk", "samples", "time"} \cup Returned
  /\ chunk \in Nat \ {0} /\ rule \in Nat \ {0}
  /\ i \in Nat /\ offset \in Nat /\ start \in Nat /\ timed \in Nat
  /\ payloads \in Seq(Payload)

\* The rule of the table of chunks that holds for a chunk.
Governs(r, c) ==
  /\ r \in 1 .. Len(t.chunk_rules)
  /\ t.chunk_rules[r].first <= c
  /\ r < Len(t.chunk_rules) => t.chunk_rules[r + 1].first > c

\* A sample is as long as the table of sizes says and lies inside the file. The
\* first of a chunk lies at the offset of the chunk and every other one right
\* behind the one before it (mp4_gpmf_index.cc:257-266): wherever the tables
\* point, the decoder reads whole samples.
Located ==
  /\ Len(payloads) <= Len(t.sizes)
  /\ \A k \in 1 .. Len(payloads) :
       LET p == payloads[k]
       IN /\ p.size_bytes = t.sizes[k]
          /\ p.file_offset + p.size_bytes <= t.file_size
          /\ p.number = 0 => p.file_offset = t.chunks[p.chunk]
          /\ p.number > 0 =>
               /\ k > 1
               /\ payloads[k - 1].chunk = p.chunk
               /\ payloads[k - 1].number = p.number - 1
               /\ p.file_offset =
                    payloads[k - 1].file_offset + payloads[k - 1].size_bytes

\* An index lists all samples, and each chunk has exactly as many of them as
\* the rule that holds for it says, a rule for GPMF samples (:250-258, 268).
InChunk(c, n) ==
  \E k \in 1 .. Len(payloads) :
    payloads[k].chunk = c /\ payloads[k].number = n

EveryChunkWhole ==
  stage = "indexed" =>
    /\ Len(payloads) = Len(t.sizes)
    /\ \A c \in 1 .. Len(t.chunks) :
         \E r \in 1 .. Len(t.chunk_rules) :
           /\ Governs(r, c)
           /\ t.chunk_rules[r].description = t.gpmd_description
           /\ \A n \in 0 .. t.chunk_rules[r].count - 1 : InChunk(c, n)
    /\ \A k \in 1 .. Len(payloads) :
         \E r \in 1 .. Len(t.chunk_rules) :
           /\ Governs(r, payloads[k].chunk)
           /\ payloads[k].number < t.chunk_rules[r].count

\* In an index the first sample begins at zero and every other one when the one
\* before it ends (:269-280): the timeline has neither gaps nor overlaps.
Seamless ==
  stage = "indexed" =>
    \A k \in 1 .. Len(payloads) :
      payloads[k].start_time_units =
        IF k = 1 THEN 0
        ELSE payloads[k - 1].start_time_units + payloads[k - 1].duration_units

\* The inductive invariant.

Listing == stage \in {"chunk", "samples"}

\* The rule that is looked at never lies ahead of the chunk.
RuleInv ==
  /\ stage = "check" => rule = 1 /\ chunk = 1 /\ payloads = << >>
  /\ stage # "check" /\ stage # "rejected" => ~Incomplete
  /\ stage = "chunk" =>
       /\ rule \in 1 .. Len(t.chunk_rules)
       /\ rule > 1 => Rule.first <= chunk
  /\ stage = "samples" =>
       /\ chunk <= Len(t.chunks) /\ Governs(rule, chunk)
       /\ Rule.description = t.gpmd_description
       /\ i <= Rule.count
  /\ stage \in {"time", "indexed"} =>
       chunk > Len(t.chunks) /\ Len(payloads) = Len(t.sizes)

\* The next sample of a chunk goes right behind the last.
NextInv ==
  stage = "samples" =>
    IF i = 0 THEN offset = t.chunks[chunk]
    ELSE LET last == payloads[Len(payloads)]
         IN /\ payloads # << >>
            /\ last.chunk = chunk /\ last.number = i - 1
            /\ offset = last.file_offset + last.size_bytes

\* The chunks that have been left are whole, the one entered is so far.
WholeInv ==
  stage \notin {"check", "rejected"} =>
    /\ \A c \in 1 .. Len(t.chunks) :
         c < chunk =>
           \E r \in 1 .. Len(t.chunk_rules) :
             /\ Governs(r, c)
             /\ t.chunk_rules[r].description = t.gpmd_description
             /\ \A n \in 0 .. t.chunk_rules[r].count - 1 : InChunk(c, n)
    /\ stage = "samples" => \A n \in 0 .. i - 1 : InChunk(chunk, n)
    /\ \A k \in 1 .. Len(payloads) :
         \E r \in 1 .. Len(t.chunk_rules) :
           /\ Governs(r, payloads[k].chunk)
           /\ payloads[k].number < t.chunk_rules[r].count

TimedInv ==
  /\ timed <= Len(payloads)
  /\ stage \in {"check", "chunk", "samples"} => timed = 0 /\ start = 0
  /\ stage = "indexed" => timed = Len(payloads)
  /\ \A k \in 1 .. timed :
       payloads[k].start_time_units =
         IF k = 1 THEN 0
         ELSE payloads[k - 1].start_time_units + payloads[k - 1].duration_units
  /\ start = IF timed = 0 THEN 0
             ELSE payloads[timed].start_time_units
                    + payloads[timed].duration_units

IInv ==
  /\ TypeOK /\ RuleInv /\ Located /\ NextInv /\ WholeInv /\ TimedInv
=============================================================================
