---------------------------- MODULE SampleFormat ---------------------------
(***************************************************************************)
(* What the tables of a track mean: the file format in closed form, where  *)
(* SampleIndex goes through the tables entry by entry.                     *)
(***************************************************************************)
EXTENDS SampleIndex

\* The sum of the first n elements of f.
Sum(f, n) ==
  LET sum[m \in {0} \cup DOMAIN f] == IF m = 0 THEN 0 ELSE sum[m - 1] + f[m]
  IN sum[n]

\* Rules of chunks begin at a chunk, each behind the one before it.
Ascending ==
  \A r \in 1 .. Len(t.chunk_rules) :
    t.chunk_rules[r].first >
      IF r = 1 THEN 0 ELSE t.chunk_rules[r - 1].first

Chunks == 1 .. Len(t.chunks)
Governing(c) == CHOOSE r \in 1 .. Len(t.chunk_rules) : Governs(r, c)

\* How many samples are in the chunks before c.
InChunks == [c \in Chunks |-> t.chunk_rules[Governing(c)].count]
Before(c) == Sum(InChunks, c - 1)

\* The samples of a chunk, and how far behind its beginning one begins.
Inside(k, c) == k \in Before(c) + 1 .. Before(c + 1)
Distance(k, c) == Sum(t.sizes, k - 1) - Sum(t.sizes, Before(c))

\* How many samples the first r rules of times are about, which ones r is
\* about, and how long the first r rules last.
TimeRules == 1 .. Len(t.time_rules)
Until(r) == Sum([q \in TimeRules |-> t.time_rules[q].count], r)
About(k, r) == k \in Until(r - 1) + 1 .. Until(r)
Lasting(r) ==
  Sum([q \in TimeRules |->
         t.time_rules[q].count * t.time_rules[q].duration], r)

WellFormed ==
  /\ ~Incomplete /\ Ascending /\ t.chunk_rules[1].first = 1
  /\ \A c \in Chunks :
       t.chunk_rules[Governing(c)].description = t.gpmd_description
  /\ Before(Len(t.chunks) + 1) = Len(t.sizes)
  /\ Until(Len(t.time_rules)) = Len(t.sizes)
  /\ \A k \in 1 .. Len(t.sizes) : \A c \in Chunks :
       Inside(k, c) =>
         t.chunks[c] + Distance(k, c) + t.sizes[k] <= t.file_size

Matches(k) ==
  /\ payloads[k].size_bytes = t.sizes[k]
  /\ \E c \in Chunks :
       /\ Inside(k, c)
       /\ payloads[k].file_offset = t.chunks[c] + Distance(k, c)
  /\ \E r \in TimeRules :
       /\ About(k, r)
       /\ payloads[k].duration_units = t.time_rules[r].duration
       /\ payloads[k].start_time_units =
            Lasting(r - 1) + (k - 1 - Until(r - 1)) * t.time_rules[r].duration

\* An index of tables with ascending rules is the one the file format defines,
\* and tables that are well formed are never rejected (mp4_gpmf_index.cc:
\* 241-282).
ImplementsFormat ==
  /\ stage = "indexed" /\ Ascending =>
       /\ WellFormed
       /\ \A k \in 1 .. Len(t.sizes) : Matches(k)
  /\ stage = "rejected" => ~WellFormed
-----------------------------------------------------------------------------
(* The inductive invariant.                                                *)

\* Tables of chunks whose rules are numbered as they should be.
Numbered ==
  Len(t.chunk_rules) >= 1 /\ t.chunk_rules[1].first = 1 /\ Ascending

\* The list so far is what the format says of the chunks so far.
ListedInv ==
  /\ stage = "chunk" =>
       chunk <= Len(t.chunks) + 1 /\ Len(payloads) = Before(chunk)
  /\ stage = "samples" =>
       /\ Len(payloads) = Before(chunk) + i
       /\ offset = t.chunks[chunk] + Distance(Len(payloads) + 1, chunk)
  /\ stage \in {"time", "indexed"} =>
       Len(payloads) = Before(Len(t.chunks) + 1)
  /\ \A k \in 1 .. Len(payloads) : \E c \in Chunks :
       /\ Inside(k, c)
       /\ payloads[k].file_offset = t.chunks[c] + Distance(k, c)

\* So are the times of the samples that have one.
ClockInv ==
  /\ stage = "time" =>
       /\ rule <= Len(t.time_rules) + 1
       /\ timed = Until(rule - 1) + i
       /\ IF rule > Len(t.time_rules)
          THEN i = 0 /\ start = Lasting(rule - 1)
          ELSE /\ i <= t.time_rules[rule].count
               /\ start = Lasting(rule - 1) + i * t.time_rules[rule].duration
  /\ stage = "indexed" => timed = Until(Len(t.time_rules))
  /\ \A k \in 1 .. timed : \E r \in TimeRules :
       /\ About(k, r)
       /\ payloads[k].duration_units = t.time_rules[r].duration
       /\ payloads[k].start_time_units =
            Lasting(r - 1) + (k - 1 - Until(r - 1)) * t.time_rules[r].duration

FormatInv ==
  /\ Numbered => ListedInv
  /\ ClockInv
  /\ stage = "rejected" => ~WellFormed
=============================================================================
