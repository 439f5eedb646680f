------------------------- MODULE SampleIndexProofs -------------------------
(***************************************************************************)
(* SampleIndex for any sample tables: every sample is inside the file and  *)
(* where its chunk is, every chunk is whole, and time has no gaps.  Then   *)
(* TelemetryDecoder for any payloads: the samples that are decoded are all *)
(* there, lie in their payloads and are in the order in which chapters are *)
(* joined.  Last, SampleFormat: what going through the tables entry by     *)
(* entry lists is what the format says in closed form.                     *)
(***************************************************************************)
EXTENDS TelemetryDecoder, SampleFormat, WellFoundedInduction, TLAPS

\* The entries of the tables and of the list are of their types.
LEMMA EntryTypes ==
  ASSUME TypeOK
  PROVE  /\ Len(t.sizes) \in Nat /\ Len(t.chunks) \in Nat
         /\ Len(t.chunk_rules) \in Nat /\ Len(t.time_rules) \in Nat
         /\ Len(payloads) \in Nat
         /\ t.file_size \in Nat /\ t.gpmd_description \in Nat
         /\ \A k \in 1 .. Len(t.sizes) : t.sizes[k] \in Nat
         /\ \A c \in 1 .. Len(t.chunks) : t.chunks[c] \in Nat
         /\ \A r \in 1 .. Len(t.chunk_rules) :
              /\ t.chunk_rules[r].first \in Nat
              /\ t.chunk_rules[r].count \in Nat
         /\ \A r \in 1 .. Len(t.time_rules) :
              /\ t.time_rules[r].count \in Nat
              /\ t.time_rules[r].duration \in Nat
         /\ \A k \in 1 .. Len(payloads) :
              /\ payloads[k] \in Payload
              /\ payloads[k].file_offset \in Nat
              /\ payloads[k].size_bytes \in Nat
              /\ payloads[k].start_time_units \in Nat
              /\ payloads[k].duration_units \in Nat
              /\ payloads[k].chunk \in Nat \ {0}
              /\ payloads[k].number \in Nat
<1>1. /\ t.sizes \in Seq(Nat) /\ t.chunks \in Seq(Nat)
      /\ t.chunk_rules \in Seq(ChunkRule) /\ t.time_rules \in Seq(TimeRule)
      /\ t.file_size \in Nat /\ t.gpmd_description \in Nat
      /\ payloads \in Seq(Payload)
  BY DEF TypeOK, SampleTables
<1>2. \A r \in 1 .. Len(t.chunk_rules) : t.chunk_rules[r] \in ChunkRule
  BY <1>1
<1>3. \A r \in 1 .. Len(t.time_rules) : t.time_rules[r] \in TimeRule
  BY <1>1
<1>4. \A k \in 1 .. Len(payloads) : payloads[k] \in Payload
  BY <1>1
<1>5. \A k \in 1 .. Len(payloads) :
        /\ payloads[k] \in Payload
        /\ payloads[k].file_offset \in Nat
        /\ payloads[k].size_bytes \in Nat
        /\ payloads[k].start_time_units \in Nat
        /\ payloads[k].duration_units \in Nat
        /\ payloads[k].chunk \in Nat \ {0}
        /\ payloads[k].number \in Nat
  BY <1>4 DEF Payload
<1>6. \A r \in 1 .. Len(t.chunk_rules) :
        t.chunk_rules[r].first \in Nat /\ t.chunk_rules[r].count \in Nat
  BY <1>2 DEF ChunkRule
<1>7. \A r \in 1 .. Len(t.time_rules) :
        t.time_rules[r].count \in Nat /\ t.time_rules[r].duration \in Nat
  BY <1>3 DEF TimeRule
<1>8. /\ Len(t.sizes) \in Nat /\ Len(t.chunks) \in Nat
      /\ Len(t.chunk_rules) \in Nat /\ Len(t.time_rules) \in Nat
      /\ Len(payloads) \in Nat
  BY <1>1
<1>9. \A k \in 1 .. Len(t.sizes) : t.sizes[k] \in Nat
  BY <1>1
<1>10. \A c \in 1 .. Len(t.chunks) : t.chunks[c] \in Nat
  BY <1>1
<1> QED
  BY <1>1, <1>5, <1>6, <1>7, <1>8, <1>9, <1>10

\* What is known of the sample that is listed.
LEMMA ListTypes ==
  ASSUME TypeOK, RuleInv, ListSample
  PROVE  /\ chunk \in 1 .. Len(t.chunks) /\ rule \in 1 .. Len(t.chunk_rules)
         /\ i < Rule.count /\ Rule.count \in Nat
         /\ Sample \in 1 .. Len(t.sizes) /\ t.sizes[Sample] \in Nat
         /\ offset + t.sizes[Sample] <= t.file_size
<1>1. stage = "samples" /\ i < Rule.count /\ InFile
  BY DEF ListSample
<1>2. chunk <= Len(t.chunks) /\ rule \in 1 .. Len(t.chunk_rules)
  BY <1>1 DEF RuleInv, Governs
<1>3. Sample \in 1 .. Len(t.sizes) /\ t.sizes[Sample] \in Nat
  BY <1>1, EntryTypes DEF InFile, Sample
<1>4. offset + t.sizes[Sample] <= t.file_size
  BY <1>1, <1>3, EntryTypes DEF InFile, TypeOK
<1> QED
  BY <1>1, <1>2, <1>3, <1>4, EntryTypes DEF TypeOK, Rule

\* Listing keeps the samples there are and adds one.
LEMMA Listed ==
  ASSUME TypeOK, RuleInv, ListSample
  PROVE  LET new == [file_offset |-> offset, size_bytes |-> t.sizes[Sample],
                     start_time_units |-> 0, duration_units |-> 0,
                     chunk |-> chunk, number |-> i]
         IN /\ Len(payloads') = Len(payloads) + 1
            /\ \A k \in 1 .. Len(payloads) : payloads'[k] = payloads[k]
            /\ payloads'[Len(payloads) + 1] = new
            /\ payloads' \in Seq(Payload)
<1> DEFINE new == [file_offset |-> offset, size_bytes |-> t.sizes[Sample],
                   start_time_units |-> 0, duration_units |-> 0,
                   chunk |-> chunk, number |-> i]
<1>1. new \in Payload
  BY ListTypes DEF TypeOK, Payload
<1>2. payloads' = Append(payloads, new)
  BY DEF ListSample
<1>3. payloads \in Seq(Payload)
  BY DEF TypeOK
<1> HIDE DEF new
<1>4. /\ Len(payloads') = Len(payloads) + 1
      /\ \A k \in 1 .. Len(payloads) : payloads'[k] = payloads[k]
      /\ payloads'[Len(payloads) + 1] = new
      /\ payloads' \in Seq(Payload)
  BY <1>1, <1>2, <1>3
<1> QED
  BY <1>4 DEF new

\* Timing changes the times of one sample.
LEMMA Timed ==
  ASSUME TypeOK, TimeSample
  PROVE  /\ timed + 1 \in 1 .. Len(payloads)
         /\ t.time_rules[rule].duration \in Nat
         /\ Len(payloads') = Len(payloads)
         /\ payloads' \in Seq(Payload)
         /\ \A k \in 1 .. Len(payloads) :
              /\ payloads'[k].file_offset = payloads[k].file_offset
              /\ payloads'[k].size_bytes = payloads[k].size_bytes
              /\ payloads'[k].chunk = payloads[k].chunk
              /\ payloads'[k].number = payloads[k].number
              /\ k # timed + 1 => payloads'[k] = payloads[k]
         /\ payloads'[timed + 1].start_time_units = start
         /\ payloads'[timed + 1].duration_units = t.time_rules[rule].duration
<1> DEFINE d == t.time_rules[rule].duration
           new == WithTime
<1>1. timed + 1 \in 1 .. Len(payloads) /\ d \in Nat
  <2>1. /\ timed < Len(payloads) /\ rule <= Len(t.time_rules)
        /\ timed \in Nat /\ rule \in Nat \ {0}
    BY DEF TimeSample, Timing, TypeOK
  <2>2. timed + 1 \in 1 .. Len(payloads) /\ rule \in 1 .. Len(t.time_rules)
    BY <2>1, EntryTypes
  <2> QED
    BY <2>2, EntryTypes
<1>2. payloads[timed + 1] \in Payload
  BY <1>1, EntryTypes
<1>3. /\ new \in Payload
      /\ new.start_time_units = start /\ new.duration_units = d
      /\ new.file_offset = payloads[timed + 1].file_offset
      /\ new.size_bytes = payloads[timed + 1].size_bytes
      /\ new.chunk = payloads[timed + 1].chunk
      /\ new.number = payloads[timed + 1].number
  <2> HIDE DEF d
  <2>1. new = [payloads[timed + 1] EXCEPT !.start_time_units = start,
                                          !.duration_units = d]
    BY DEF d, WithTime
  <2> QED
    BY <1>1, <1>2, <2>1 DEF TypeOK, Payload
<1>4. payloads' = [payloads EXCEPT ![timed + 1] = new]
  BY DEF TimeSample
<1>5. payloads \in Seq(Payload)
  BY DEF TypeOK
<1> HIDE DEF new, d
<1>6. /\ Len(payloads') = Len(payloads)
      /\ payloads' \in Seq(Payload)
      /\ payloads'[timed + 1] = new
      /\ \A k \in 1 .. Len(payloads) :
           k # timed + 1 => payloads'[k] = payloads[k]
  BY <1>1, <1>3, <1>4, <1>5
<1> QED
  BY <1>1, <1>3, <1>6 DEF d
-----------------------------------------------------------------------------
\* What a step can do: it lists a sample, times one, or leaves the list as it
\* is; the tables never change.
LEMMA Steps ==
  ASSUME [Next]_vars
  PROVE  /\ t' = t
         /\ ListSample \/ TimeSample \/ UNCHANGED payloads
BY DEF Next, Step, vars, Reject, RejectIncomplete, Begin, AdvanceRule,
       RejectRule,
       EnterChunk, RejectSample, ListSample, LeaveChunk, TooFewListed,
       BeginTiming, TooManyTimed, TimeSample, NextTimeRule, TooFewTimed,
       Finish, Finished

LEMMA InitTypeOK == Init => TypeOK
BY TablesAssumption DEF Init, TypeOK

LEMMA TypeStep == TypeOK /\ RuleInv /\ [Next]_vars => TypeOK'
<1> SUFFICES ASSUME TypeOK, RuleInv, [Next]_vars
             PROVE  TypeOK'
  OBVIOUS
<1> USE DEF Returned
<1>1. CASE ListSample
  <2>1. payloads' \in Seq(Payload) /\ t.sizes[Sample] \in Nat
    BY <1>1, Listed, ListTypes
  <2>2. offset' \in Nat /\ i' \in Nat
    BY <1>1, <2>1 DEF ListSample, After, TypeOK
  <2> QED
    BY <1>1, <2>1, <2>2 DEF ListSample, TypeOK
<1>2. CASE TimeSample
  <2>1. payloads' \in Seq(Payload) /\ t.time_rules[rule].duration \in Nat
    BY <1>2, Timed
  <2>2. start' \in Nat /\ i' \in Nat /\ timed' \in Nat
    BY <1>2, <2>1 DEF TimeSample, NextStart, TypeOK
  <2> QED
    BY <1>2, <2>1, <2>2 DEF TimeSample, TypeOK
<1>3. CASE EnterChunk
  <2>1. t.chunks[chunk] \in Nat
    BY <1>3, EntryTypes DEF EnterChunk, AtChunk, TypeOK
  <2> QED
    BY <1>3, <2>1 DEF EnterChunk, TypeOK
<1>4. CASE AdvanceRule \/ LeaveChunk \/ BeginTiming \/ NextTimeRule
  BY <1>4 DEF AdvanceRule, LeaveChunk, BeginTiming, NextTimeRule, TypeOK
<1>5. CASE Reject \/ Begin \/ Finish \/ UNCHANGED vars
  BY <1>5 DEF Reject, Begin, Finish, TypeOK, vars
<1> QED
  BY <1>1, <1>2, <1>3, <1>4, <1>5
     DEF Next, Step, RejectIncomplete, RejectRule, RejectSample, TooFewListed,
         TooManyTimed, TooFewTimed, Finished

\* The rule in force when a chunk is entered is the one that governs it.
LEMMA RuleStep == TypeOK /\ RuleInv /\ [Next]_vars => RuleInv'
<1> SUFFICES ASSUME TypeOK, RuleInv, [Next]_vars
             PROVE  RuleInv'
  OBVIOUS
<1> USE DEF Incomplete, Returned
<1>1. CASE Begin
  <2>1. 1 \in 1 .. Len(t.chunk_rules)
    <3>1. t.chunk_rules \in Seq(ChunkRule) /\ t.chunk_rules # << >>
      BY <1>1 DEF Begin, TypeOK, SampleTables
    <3> QED
      BY <3>1
  <2>2. rule = 1
    BY <1>1 DEF Begin, RuleInv
  <2> QED
    BY <1>1, <2>1, <2>2 DEF Begin, RuleInv, Rule
<1>2. CASE AdvanceRule
  BY <1>2, EntryTypes
     DEF AdvanceRule, AtChunk, NextRuleApplies, RuleInv, Rule, TypeOK
<1>3. CASE EnterChunk
  <2>1. /\ stage = "chunk" /\ chunk <= Len(t.chunks)
        /\ rule \in 1 .. Len(t.chunk_rules)
        /\ Rule.first <= chunk /\ Rule.description = t.gpmd_description
    BY <1>3, EntryTypes
       DEF EnterChunk, AtChunk, WrongRule, RuleInv, Rule, TypeOK
  <2>2. Governs(rule, chunk)
    <3>1. ASSUME rule < Len(t.chunk_rules)
          PROVE  t.chunk_rules[rule + 1].first > chunk
      <4>1. rule + 1 \in 1 .. Len(t.chunk_rules)
        BY <2>1, <3>1, EntryTypes
      <4>2. t.chunk_rules[rule + 1].first \in Nat /\ chunk \in Nat
        BY <4>1, EntryTypes DEF TypeOK
      <4>3. ~(t.chunk_rules[rule + 1].first <= chunk)
        BY <1>3, <3>1 DEF EnterChunk, NextRuleApplies
      <4> QED
        BY <4>2, <4>3
    <3> QED
      BY <2>1, <3>1 DEF Governs, Rule
  <2> QED
    BY <1>3, <2>1, <2>2, EntryTypes
       DEF EnterChunk, RuleInv, Governs, Rule, TypeOK
<1>4. CASE ListSample
  <2>1. i + 1 <= Rule.count
    BY <1>4, ListTypes DEF TypeOK
  <2> QED
    BY <1>4, <2>1 DEF ListSample, RuleInv, Governs, Rule
<1>5. CASE LeaveChunk
  BY <1>5, EntryTypes DEF LeaveChunk, RuleInv, Governs, Rule, TypeOK
<1>6. CASE BeginTiming
  BY <1>6 DEF BeginTiming, AllListed, RuleInv
<1>7. CASE TimeSample
  BY <1>7, Timed DEF TimeSample, Timing, RuleInv
<1>8. CASE NextTimeRule \/ Finish
  BY <1>8 DEF NextTimeRule, Finish, Timing, RuleInv
<1>9. CASE Reject \/ UNCHANGED vars
  BY <1>9 DEF Reject, RuleInv, Governs, Rule, vars
<1> QED
  BY <1>1, <1>2, <1>3, <1>4, <1>5, <1>6, <1>7, <1>8, <1>9
     DEF Next, Step, RejectIncomplete, RejectRule, RejectSample, TooFewListed,
         TooManyTimed, TooFewTimed, Finished
-----------------------------------------------------------------------------
\* Every sample is where its chunk is, and the next goes right behind it.
LEMMA LocatedStep ==
  TypeOK /\ RuleInv /\ Located /\ NextInv /\ [Next]_vars => Located'
<1> SUFFICES ASSUME TypeOK, RuleInv, Located, NextInv, [Next]_vars
             PROVE  Located'
  OBVIOUS
<1>1. CASE ListSample
  <2> DEFINE n == Len(payloads) + 1
  <2>1. /\ Len(payloads') = n /\ n \in 1 .. Len(t.sizes)
        /\ \A k \in 1 .. Len(payloads) : payloads'[k] = payloads[k]
        /\ payloads'[n].file_offset = offset
        /\ payloads'[n].size_bytes = t.sizes[n]
        /\ payloads'[n].chunk = chunk /\ payloads'[n].number = i
    BY <1>1, Listed, ListTypes DEF Sample
  <2>2. offset + t.sizes[n] <= t.file_size
    BY <1>1, ListTypes DEF Sample
  <2>3. t' = t /\ stage = "samples" /\ Len(payloads) \in Nat /\ i \in Nat
    BY <1>1, EntryTypes DEF ListSample, TypeOK
  <2>4. i = 0 => offset = t.chunks[chunk]
    BY <2>3 DEF NextInv
  <2>5. i > 0 => /\ n > 1 /\ payloads[n - 1].chunk = chunk
                 /\ payloads[n - 1].number = i - 1
                 /\ offset = payloads[n - 1].file_offset
                               + payloads[n - 1].size_bytes
    <3>1. SUFFICES ASSUME i > 0
                   PROVE  /\ n > 1 /\ payloads[n - 1].chunk = chunk
                          /\ payloads[n - 1].number = i - 1
                          /\ offset = payloads[n - 1].file_offset
                                        + payloads[n - 1].size_bytes
      OBVIOUS
    <3>2. payloads # << >> /\ payloads \in Seq(Payload)
      BY <2>3, <3>1 DEF NextInv, TypeOK
    <3>3. n > 1 /\ n - 1 = Len(payloads)
      BY <3>2
    <3> QED
      BY <2>3, <3>1, <3>3 DEF NextInv
  <2>6. ASSUME NEW k \in 1 .. Len(payloads)
        PROVE  /\ payloads'[k] = payloads[k]
               /\ k > 1 => payloads'[k - 1] = payloads[k - 1]
    BY <2>1, <2>3
  <2>7. n > 1 => payloads'[n - 1] = payloads[n - 1]
    BY <2>1, <2>3
  <2> HIDE DEF n
  <2>8. Len(payloads') <= Len(t.sizes)
    BY <2>1
  <2>9. \A k \in 1 .. Len(payloads') :
          k # n => k \in 1 .. Len(payloads)
    BY <2>1, <2>3 DEF n
  <2>10. ASSUME NEW k \in 1 .. Len(payloads')
         PROVE  LET p == payloads'[k]
                IN /\ p.size_bytes = t.sizes[k]
                   /\ p.file_offset + p.size_bytes <= t.file_size
                   /\ p.number = 0 => p.file_offset = t.chunks[p.chunk]
                   /\ p.number > 0 =>
                        /\ k > 1
                        /\ payloads'[k - 1].chunk = p.chunk
                        /\ payloads'[k - 1].number = p.number - 1
                        /\ p.file_offset = payloads'[k - 1].file_offset
                                             + payloads'[k - 1].size_bytes
    <3>1. CASE k = n
      BY <2>1, <2>2, <2>4, <2>5, <2>7, <3>1
    <3>2. CASE k # n
      <4>1. k \in 1 .. Len(payloads)
        BY <2>9, <3>2
      <4> QED
        BY <2>6, <4>1 DEF Located
    <3> QED
      BY <3>1, <3>2
  <2> QED
    BY <2>3, <2>8, <2>10 DEF Located
<1>2. CASE TimeSample
  <2>1. t' = t /\ Len(payloads') = Len(payloads) /\ Len(payloads) \in Nat
    BY <1>2, Timed, Steps, EntryTypes
  <2>2. ASSUME NEW k \in 1 .. Len(payloads)
        PROVE  /\ payloads'[k].file_offset = payloads[k].file_offset
               /\ payloads'[k].size_bytes = payloads[k].size_bytes
               /\ payloads'[k].chunk = payloads[k].chunk
               /\ payloads'[k].number = payloads[k].number
    BY <1>2, Timed
  <2>3. ASSUME NEW k \in 1 .. Len(payloads), k > 1
        PROVE  /\ k - 1 \in 1 .. Len(payloads)
    BY <2>1, <2>3
  <2> QED
    BY <2>1, <2>2, <2>3 DEF Located
<1>3. CASE UNCHANGED payloads
  BY <1>3, Steps DEF Located
<1> QED
  BY <1>1, <1>2, <1>3, Steps

LEMMA NextStep == TypeOK /\ RuleInv /\ NextInv /\ [Next]_vars => NextInv'
<1> SUFFICES ASSUME TypeOK, RuleInv, NextInv, [Next]_vars
             PROVE  NextInv'
  OBVIOUS
<1>1. CASE ListSample
  <2>1. /\ Len(payloads') = Len(payloads) + 1 /\ payloads' # << >>
        /\ LET last == payloads'[Len(payloads')]
           IN /\ last.chunk = chunk /\ last.number = i
              /\ last.file_offset = offset
              /\ last.size_bytes = t.sizes[Sample]
    <3>1. /\ Len(payloads') = Len(payloads) + 1 /\ Len(payloads) \in Nat
          /\ payloads' \in Seq(Payload)
      BY <1>1, Listed, EntryTypes
    <3>2. payloads' # << >>
      BY <3>1
    <3> QED
      BY <1>1, <3>1, <3>2, Listed
  <2>2. /\ i' = i + 1 /\ i \in Nat /\ chunk' = chunk /\ stage' = stage
        /\ offset' = offset + t.sizes[Sample]
    BY <1>1 DEF ListSample, After, TypeOK
  <2>3. i' # 0 /\ i' - 1 = i
    BY <2>2
  <2> QED
    BY <2>1, <2>2, <2>3 DEF NextInv
<1>2. CASE EnterChunk
  BY <1>2 DEF EnterChunk, NextInv
<1>3. CASE UNCHANGED vars
  BY <1>3 DEF NextInv, vars
<1>4. CASE stage' # "samples"
  BY <1>4 DEF NextInv
<1> QED
  BY <1>1, <1>2, <1>3, <1>4
     DEF Next, Step, Reject, RejectIncomplete, Begin, AdvanceRule, RejectRule,
         RejectSample, LeaveChunk, TooFewListed, BeginTiming, TooManyTimed,
         TimeSample, NextTimeRule, TooFewTimed, Finish, Finished,
         AtChunk, Timing
-----------------------------------------------------------------------------
\* A sample that is in a chunk stays there.
LEMMA InChunkKept ==
  ASSUME TypeOK, RuleInv, [Next]_vars, NEW c, NEW n, InChunk(c, n)
  PROVE  InChunk(c, n)'
<1>1. PICK k \in 1 .. Len(payloads) :
        payloads[k].chunk = c /\ payloads[k].number = n
  BY DEF InChunk
<1>2. Len(payloads) \in Nat
  BY EntryTypes
<1>3. CASE ListSample
  <2>1. k \in 1 .. Len(payloads') /\ payloads'[k] = payloads[k]
    BY <1>2, <1>3, Listed
  <2> QED
    BY <1>1, <2>1 DEF InChunk
<1>4. CASE TimeSample
  <2>1. /\ k \in 1 .. Len(payloads')
        /\ payloads'[k].chunk = c /\ payloads'[k].number = n
    BY <1>1, <1>4, Timed
  <2> QED
    BY <2>1 DEF InChunk
<1>5. CASE UNCHANGED payloads
  BY <1>1, <1>5 DEF InChunk
<1> QED
  BY <1>3, <1>4, <1>5, Steps

\* A listed sample is an old one, in the same place, or the new one.
LEMMA OldOrNew ==
  ASSUME TypeOK, RuleInv, [Next]_vars, NEW k \in 1 .. Len(payloads')
  PROVE  \/ /\ k \in 1 .. Len(payloads)
            /\ payloads'[k].chunk = payloads[k].chunk
            /\ payloads'[k].number = payloads[k].number
         \/ /\ ListSample
            /\ payloads'[k].chunk = chunk /\ payloads'[k].number = i
<1>1. CASE ListSample
  <2>1. Len(payloads) \in Nat
    BY EntryTypes
  <2>2. CASE k = Len(payloads) + 1
    BY <1>1, <2>2, Listed
  <2>3. CASE k # Len(payloads) + 1
    <3>1. k \in 1 .. Len(payloads)
      BY <1>1, <2>1, <2>3, Listed
    <3> QED
      BY <1>1, <3>1, Listed
  <2> QED
    BY <2>2, <2>3
<1>2. CASE TimeSample
  BY <1>2, Timed
<1>3. CASE UNCHANGED payloads
  BY <1>3
<1> QED
  BY <1>1, <1>2, <1>3, Steps

\* What is known of a chunk that is left.
LEMMA LeftChunk ==
  ASSUME TypeOK, RuleInv, WholeInv, LeaveChunk
  PROVE  \E r \in 1 .. Len(t.chunk_rules) :
           /\ Governs(r, chunk)
           /\ t.chunk_rules[r].description = t.gpmd_description
           /\ \A n \in 0 .. t.chunk_rules[r].count - 1 : InChunk(chunk, n)
<1>1. stage = "samples" /\ i = Rule.count
  BY DEF LeaveChunk
<1>2. /\ rule \in 1 .. Len(t.chunk_rules) /\ Governs(rule, chunk)
      /\ t.chunk_rules[rule].description = t.gpmd_description
  BY <1>1 DEF RuleInv, Governs, Rule
<1>3. \A n \in 0 .. t.chunk_rules[rule].count - 1 : InChunk(chunk, n)
  BY <1>1 DEF WholeInv, Rule
<1> QED
  BY <1>2, <1>3

LEMMA WholeStep == TypeOK /\ RuleInv /\ WholeInv /\ [Next]_vars => WholeInv'
<1> SUFFICES ASSUME TypeOK, RuleInv, WholeInv, [Next]_vars,
                    stage' \notin {"check", "rejected"}
             PROVE  WholeInv'
  BY DEF WholeInv
<1> DEFINE Whole(c) ==
      \E r \in 1 .. Len(t.chunk_rules) :
        /\ Governs(r, c)
        /\ t.chunk_rules[r].description = t.gpmd_description
        /\ \A n \in 0 .. t.chunk_rules[r].count - 1 : InChunk(c, n)
           Governed(k) ==
      \E r \in 1 .. Len(t.chunk_rules) :
        /\ Governs(r, payloads[k].chunk)
        /\ payloads[k].number < t.chunk_rules[r].count
<1>1. t' = t /\ chunk \in Nat /\ Len(t.chunks) \in Nat
  BY Steps, EntryTypes DEF TypeOK
<1>2. \/ stage \notin {"check", "rejected"}
      \/ Begin
  BY DEF Next, Step, vars, Reject, RejectIncomplete, Begin, AdvanceRule,
       RejectRule,
         EnterChunk, RejectSample, ListSample, LeaveChunk, TooFewListed,
         BeginTiming, TooManyTimed, TimeSample, NextTimeRule, TooFewTimed,
         Finish, Finished, AtChunk, Timing, AllListed
<1>3. ASSUME NEW c \in 1 .. Len(t.chunks), Whole(c)
      PROVE  Whole(c)'
  <2>1. PICK r \in 1 .. Len(t.chunk_rules) :
          /\ Governs(r, c)
          /\ t.chunk_rules[r].description = t.gpmd_description
          /\ \A n \in 0 .. t.chunk_rules[r].count - 1 : InChunk(c, n)
    BY <1>3
  <2>2. \A n \in 0 .. t.chunk_rules[r].count - 1 : InChunk(c, n)'
    BY <2>1, InChunkKept
  <2>3. Governs(r, c)'
    BY <1>1, <2>1 DEF Governs
  <2> QED
    BY <1>1, <2>1, <2>2, <2>3
<1>4. ASSUME NEW c \in 1 .. Len(t.chunks), c < chunk'
      PROVE  Whole(c)'
  <2>1. \/ c < chunk /\ stage \notin {"check", "rejected"}
        \/ LeaveChunk /\ c = chunk
    <3>1. \/ chunk' = chunk
          \/ LeaveChunk /\ chunk' = chunk + 1
      BY DEF Next, Step, vars, Reject, RejectIncomplete, Begin, AdvanceRule,
             RejectRule, EnterChunk, RejectSample, ListSample, LeaveChunk,
             TooFewListed, BeginTiming, TooManyTimed, TimeSample, NextTimeRule,
             TooFewTimed, Finish, Finished
    <3>2. Begin => chunk = 1
      BY DEF Begin, RuleInv
    <3>3. LeaveChunk => stage \notin {"check", "rejected"}
      BY DEF LeaveChunk
    <3> QED
      BY <1>1, <1>2, <1>4, <3>1, <3>2, <3>3
  <2>2. CASE c < chunk /\ stage \notin {"check", "rejected"}
    BY <1>3, <2>2 DEF WholeInv
  <2>3. CASE LeaveChunk /\ c = chunk
    BY <1>3, <2>3, LeftChunk
  <2> QED
    BY <2>1, <2>2, <2>3
<1>5. ASSUME stage' = "samples", NEW n \in 0 .. i' - 1
      PROVE  InChunk(chunk, n)'
  <2>1. \/ EnterChunk
        \/ ListSample
        \/ stage = "samples" /\ UNCHANGED vars
    BY <1>5
       DEF Next, Step, vars, Reject, RejectIncomplete, Begin, AdvanceRule,
           RejectRule, EnterChunk, RejectSample, ListSample, LeaveChunk,
           TooFewListed, BeginTiming, TooManyTimed, TimeSample, NextTimeRule,
           TooFewTimed, Finish, Finished, AtChunk, Timing, Returned, AllListed
  <2>2. CASE EnterChunk
    BY <1>5, <2>2 DEF EnterChunk
  <2>3. CASE ListSample
    <3>1. chunk' = chunk /\ i' = i + 1 /\ i \in Nat /\ stage = "samples"
      BY <2>3 DEF ListSample, TypeOK
    <3>2. CASE n = i
      <4>1. /\ Len(payloads') = Len(payloads) + 1 /\ Len(payloads) \in Nat
            /\ payloads'[Len(payloads) + 1].chunk = chunk
            /\ payloads'[Len(payloads) + 1].number = i
        BY <2>3, Listed, EntryTypes
      <4>2. Len(payloads) + 1 \in 1 .. Len(payloads')
        BY <4>1
      <4> QED
        BY <3>1, <3>2, <4>1, <4>2 DEF InChunk
    <3>3. CASE n # i
      <4>1. n \in 0 .. i - 1
        BY <1>5, <3>1, <3>3
      <4>2. InChunk(chunk, n)
        BY <3>1, <4>1 DEF WholeInv
      <4>3. \A c : InChunk(c, n) => InChunk(c, n)'
        BY InChunkKept
      <4> QED
        BY <3>1, <4>2, <4>3 DEF InChunk
    <3> QED
      BY <3>2, <3>3
  <2>4. CASE stage = "samples" /\ UNCHANGED vars
    BY <1>5, <2>4 DEF vars, WholeInv, InChunk
  <2> QED
    BY <2>1, <2>2, <2>3, <2>4
<1>6. ASSUME NEW k \in 1 .. Len(payloads')
      PROVE  Governed(k)'
  <2>1. CASE /\ k \in 1 .. Len(payloads)
             /\ payloads'[k].chunk = payloads[k].chunk
             /\ payloads'[k].number = payloads[k].number
    <3>1. stage \notin {"check", "rejected"}
      <4>1. payloads # << >>
        BY <2>1, EntryTypes DEF TypeOK
      <4> QED
        BY <1>2, <4>1 DEF Begin, RuleInv
    <3>2. Governed(k)
      BY <2>1, <3>1 DEF WholeInv
    <3> QED
      BY <1>1, <2>1, <3>2 DEF Governs
  <2>2. CASE /\ ListSample
             /\ payloads'[k].chunk = chunk /\ payloads'[k].number = i
    <3>1. /\ rule \in 1 .. Len(t.chunk_rules) /\ Governs(rule, chunk)
          /\ i < t.chunk_rules[rule].count
      BY <2>2, ListTypes DEF ListSample, RuleInv, Rule
    <3> QED
      BY <1>1, <2>2, <3>1 DEF Governs
  <2> QED
    BY <1>6, <2>1, <2>2, OldOrNew
<1> QED
  BY <1>1, <1>4, <1>5, <1>6 DEF WholeInv
-----------------------------------------------------------------------------
\* Each sample is timed to begin when the one before it ends.
LEMMA TimedStep ==
  TypeOK /\ RuleInv /\ TimedInv /\ [Next]_vars => TimedInv'
<1> SUFFICES ASSUME TypeOK, RuleInv, TimedInv, [Next]_vars
             PROVE  TimedInv'
  OBVIOUS
<1> DEFINE Seam(list, k) ==
      list[k].start_time_units =
        IF k = 1 THEN 0
        ELSE list[k - 1].start_time_units + list[k - 1].duration_units
<1>1. CASE ListSample
  <2>1. timed' = 0 /\ start' = 0 /\ timed = 0 /\ stage' = "samples"
    BY <1>1 DEF ListSample, TimedInv
  <2>2. Len(payloads') \in Nat
    BY <1>1, Listed
  <2> QED
    BY <2>1, <2>2 DEF TimedInv
<1>2. CASE TimeSample
  <2>1. /\ timed' = timed + 1 /\ timed \in Nat /\ stage' = "time"
        /\ timed + 1 \in 1 .. Len(payloads)
        /\ Len(payloads') = Len(payloads) /\ Len(payloads) \in Nat
    BY <1>2, Timed, EntryTypes DEF TimeSample, Timing, TypeOK
  <2>2. start' = payloads'[timed'].start_time_units
                   + payloads'[timed'].duration_units
    BY <1>2, <2>1, Timed DEF TimeSample, NextStart
  <2>3. ASSUME NEW k \in 1 .. timed'
        PROVE  Seam(payloads', k)
    <3>1. CASE k = timed + 1
      <4>1. payloads'[k].start_time_units = start
        BY <1>2, <3>1, Timed
      <4>2. CASE timed = 0
        BY <3>1, <4>1, <4>2 DEF TimedInv
      <4>3. CASE timed # 0
        <5>1. timed \in 1 .. Len(payloads) /\ timed # timed + 1
          BY <2>1, <4>3
        <5>2. payloads'[timed] = payloads[timed]
          BY <1>2, <5>1, Timed
        <5>3. start = payloads[timed].start_time_units
                        + payloads[timed].duration_units
          BY <4>3 DEF TimedInv
        <5> QED
          BY <2>1, <3>1, <4>1, <4>3, <5>2, <5>3
      <4> QED
        BY <4>2, <4>3
    <3>2. CASE k # timed + 1
      <4>1. k \in 1 .. timed /\ k \in 1 .. Len(payloads)
        BY <2>1, <2>3, <3>2
      <4>2. payloads'[k] = payloads[k]
        BY <1>2, <3>2, <4>1, Timed
      <4>3. k > 1 => payloads'[k - 1] = payloads[k - 1]
        <5>1. k > 1 => k - 1 \in 1 .. Len(payloads) /\ k - 1 # timed + 1
          BY <2>1, <4>1
        <5> QED
          BY <1>2, <5>1, Timed
      <4>4. Seam(payloads, k)
        BY <4>1 DEF TimedInv
      <4> QED
        BY <4>1, <4>2, <4>3, <4>4
    <3> QED
      BY <3>1, <3>2
  <2>4. timed' # 0 /\ timed' <= Len(payloads')
    BY <2>1
  <2>5. stage' \notin {"check", "chunk", "samples", "indexed"}
    BY <2>1
  <2>6. \A k \in 1 .. timed' : Seam(payloads', k)
    BY <2>3
  <2> QED
    BY <2>2, <2>4, <2>5, <2>6 DEF TimedInv
<1>3. CASE ~ListSample /\ ~TimeSample
  <2>1. /\ UNCHANGED <<payloads, timed, start>>
        /\ stage' \in {"check", "chunk", "samples"} =>
             stage \in {"check", "chunk", "samples"}
        /\ stage' = "indexed" => stage = "indexed" \/ AllTimed
    BY <1>3
       DEF Next, Step, vars, Reject, RejectIncomplete, Begin, AdvanceRule,
           RejectRule, EnterChunk, RejectSample, LeaveChunk,
           TooFewListed, BeginTiming, TooManyTimed, NextTimeRule,
           TooFewTimed, Finish, Finished, AtChunk, Timing, Returned
  <2> QED
    BY <2>1 DEF TimedInv, AllTimed
<1> QED
  BY <1>1, <1>2, <1>3

LEMMA InitInv == Init => IInv
<1> SUFFICES ASSUME Init
             PROVE  IInv
  OBVIOUS
<1>1. Len(payloads) = 0
  BY DEF Init
<1>2. TypeOK
  BY InitTypeOK
<1>3. Len(t.sizes) \in Nat
  BY <1>2, EntryTypes
<1> QED
  BY <1>1, <1>2, <1>3
     DEF Init, IInv, RuleInv, Located, NextInv, WholeInv, TimedInv

\* The inductive invariant holds whatever the tables contain (Build,
\* mp4_gpmf_index.cc:239-282).
THEOREM Invariance == Spec => []IInv
<1>1. IInv /\ [Next]_vars => IInv'
  BY TypeStep, RuleStep, LocatedStep, NextStep, WholeStep, TimedStep DEF IInv
<1> QED
  BY InitInv, <1>1, PTL DEF Spec

\* Every sample that is listed lies inside the file and where its chunk is.
THEOREM SamplesLocated == Spec => []Located
<1>1. IInv => Located
  BY DEF IInv
<1> QED
  BY Invariance, <1>1, PTL

\* An index lists every sample, and every chunk as its rule says.
THEOREM ChunksWhole == Spec => []EveryChunkWhole
<1>1. IInv => EveryChunkWhole
  <2> SUFFICES ASSUME IInv, stage = "indexed"
               PROVE  EveryChunkWhole
    BY DEF EveryChunkWhole
  <2>1. /\ chunk > Len(t.chunks) /\ Len(payloads) = Len(t.sizes)
        /\ Len(t.chunks) \in Nat /\ chunk \in Nat
    BY EntryTypes DEF IInv, RuleInv, TypeOK
  <2>2. \A c \in 1 .. Len(t.chunks) : c < chunk
    BY <2>1
  <2> QED
    BY <2>1, <2>2 DEF IInv, WholeInv, EveryChunkWhole
<1> QED
  BY Invariance, <1>1, PTL

\* The samples of an index follow each other in time without gap or overlap.
THEOREM TimesSeamless == Spec => []Seamless
<1>1. IInv => Seamless
  BY DEF IInv, TimedInv, Seamless
<1> QED
  BY Invariance, <1>1, PTL
-----------------------------------------------------------------------------
(* The decoder (TelemetryDecoder) on top of the index.                     *)

\* What has been timed ends before what is timed later begins.
OrderInv ==
  \A j, k \in 1 .. timed :
    j < k => payloads[j].start_time_units + payloads[j].duration_units
               <= payloads[k].start_time_units

LEMMA OrderStep ==
  TypeOK /\ RuleInv /\ TimedInv /\ OrderInv /\ [Next]_vars => OrderInv'
<1> SUFFICES ASSUME TypeOK, RuleInv, TimedInv, OrderInv, [Next]_vars
             PROVE  OrderInv'
  OBVIOUS
<1>1. CASE ListSample
  BY <1>1 DEF ListSample, TimedInv, OrderInv
<1>2. CASE TimeSample
  <2>1. /\ timed' = timed + 1 /\ timed \in Nat
        /\ timed + 1 \in 1 .. Len(payloads)
        /\ payloads'[timed + 1].start_time_units = start
        /\ start \in Nat
    BY <1>2, Timed DEF TimeSample, TypeOK
  <2>2. \A j \in 1 .. timed :
          /\ payloads'[j] = payloads[j]
          /\ payloads[j].start_time_units \in Nat
          /\ payloads[j].duration_units \in Nat
    <3>1. ASSUME NEW j \in 1 .. timed
          PROVE  j \in 1 .. Len(payloads) /\ j # timed + 1
      BY <2>1, EntryTypes
    <3> QED
      BY <1>2, <3>1, Timed, EntryTypes
  <2>3. ASSUME NEW j \in 1 .. timed
        PROVE  payloads[j].start_time_units + payloads[j].duration_units
                 <= start
    <3>1. timed \in 1 .. timed /\ timed # 0
      BY <2>1, <2>3
    <3>2. start = payloads[timed].start_time_units
                    + payloads[timed].duration_units
      BY <3>1 DEF TimedInv
    <3>3. j < timed =>
            payloads[j].start_time_units + payloads[j].duration_units
              <= payloads[timed].start_time_units
      BY <2>3, <3>1 DEF OrderInv
    <3>4. /\ payloads[j].start_time_units \in Nat
          /\ payloads[j].duration_units \in Nat
          /\ payloads[timed].start_time_units \in Nat
          /\ payloads[timed].duration_units \in Nat
      BY <2>2, <2>3, <3>1
    <3>5. CASE j < timed
      BY <3>2, <3>3, <3>4, <3>5
    <3>6. CASE j = timed
      BY <2>1, <3>2, <3>6
    <3> QED
      BY <2>1, <2>3, <3>5, <3>6
  <2>4. ASSUME NEW j \in 1 .. timed', NEW k \in 1 .. timed', j < k
        PROVE  payloads'[j].start_time_units + payloads'[j].duration_units
                 <= payloads'[k].start_time_units
    <3>1. j \in 1 .. timed
      BY <2>1, <2>4
    <3>2. CASE k = timed + 1
      BY <2>1, <2>2, <2>3, <3>1, <3>2
    <3>3. CASE k \in 1 .. timed
      BY <2>2, <2>4, <3>1, <3>3 DEF OrderInv
    <3> QED
      BY <2>1, <3>2, <3>3
  <2> QED
    BY <2>4 DEF OrderInv
<1>3. CASE ~ListSample /\ ~TimeSample
  <2>1. UNCHANGED <<payloads, timed>>
    BY <1>3
       DEF Next, Step, vars, Reject, RejectIncomplete, Begin, AdvanceRule,
           RejectRule, EnterChunk, RejectSample, LeaveChunk,
           TooFewListed, BeginTiming, TooManyTimed, NextTimeRule,
           TooFewTimed, Finish, Finished
  <2> QED
    BY <2>1 DEF OrderInv
<1> QED
  BY <1>1, <1>2, <1>3

\* The index is finished before the first payload is read: whatever the decoder
\* does, the list stays.
LEMMA StepIsBeforeReturn == Step => stage \notin Returned
BY DEF Step, RejectIncomplete, Begin, AdvanceRule, RejectRule, EnterChunk,
       RejectSample, ListSample, LeaveChunk, TooFewListed, BeginTiming,
       TooManyTimed, TimeSample, NextTimeRule, TooFewTimed, Finish, AtChunk,
       Timing, AllListed, Returned

LEMMA DecoderIndexes == [DecoderNext]_<<vars, decoderVars>> => [Next]_vars
BY DEF DecoderNext, BuildIndex, NoIndex, StartDecoding, ReadFails, ReadPayload,
       SkipStream, StreamFails, DecodeStream, NextKind, NextPayload,
       FinishDecoding, DecodingFinished, Fail, Next

LEMMA IndexStep ==
  IInv /\ OrderInv /\ [DecoderNext]_<<vars, decoderVars>> => (IInv /\ OrderInv)'
BY DecoderIndexes, TypeStep, RuleStep, LocatedStep, NextStep, WholeStep,
   TimedStep, OrderStep DEF IInv

TimedSample ==
  [time : Nat, payload : Nat \ {0}, stream : Nat \ {0}, number : Nat \ {0}]

DecoderTypeOK ==
  /\ decoder \in {"wait", "read", "decode", "decoded", "failed"}
  /\ payload \in Nat \ {0} /\ kind \in Kinds /\ stream \in Nat \ {0}
  /\ contents \in Seq([Kinds -> Seq(Stream)])
  /\ telemetry \in [Kinds -> Seq(TimedSample)]

\* Samples are decoded from a finished index, payload after payload.
DecoderPhase ==
  /\ decoder = "wait" \/ stage # "indexed" =>
       telemetry = [k \in Kinds |-> << >>]
  /\ decoder # "wait" => stage \in Returned
  /\ decoder \in {"read", "decode", "decoded"} => stage = "indexed"
  /\ decoder = "wait" => payload = 1 /\ contents = << >>
  /\ decoder = "read" => Len(contents) = payload - 1
  /\ decoder = "decode" =>
       Len(contents) = payload /\ payload <= Len(payloads)

\* Where a sample may lie, given its payload.
Lies(time, from, length) ==
  LET begin == from * Resolution
      end == begin + length * Resolution
  IN \/ time \in begin .. end - 1
     \/ time = begin /\ length = 0

Within(sample) ==
  Lies(sample.time, payloads[sample.payload].start_time_units,
       payloads[sample.payload].duration_units)

SamplesInv ==
  \A k \in Kinds : \A j \in 1 .. Len(telemetry[k]) :
    /\ telemetry[k][j].payload \in 1 .. Len(payloads)
    /\ Within(telemetry[k][j])

\* The samples of the payload at hand come last, and with them there is a
\* stream that has been decoded.
HandInv ==
  \A k \in Kinds : \A j \in 1 .. Len(telemetry[k]) :
    /\ telemetry[k][j].payload <= payload
    /\ telemetry[k][j].payload = payload =>
         \/ decoder \in {"decoded", "failed"}
         \/ /\ decoder = "decode" /\ k < kind
         \/ /\ decoder = "decode" /\ k = kind
            /\ \E r \in 1 .. stream - 1 : r \in Nonempty(payload, k)

\* What InOrder says of two samples of one payload, and that payloads are in
\* order.
PairInv ==
  \A k \in Kinds : \A j \in 2 .. Len(telemetry[k]) :
    LET before == telemetry[k][j - 1] sample == telemetry[k][j]
    IN /\ before.payload <= sample.payload
       /\ OneStream(k) /\ before.payload = sample.payload =>
            /\ before.time <= sample.time
            /\ before.time = sample.time =>
                 payloads[before.payload].duration_units = 0

\* Streams that have been passed, in this payload or an earlier one.
Over(p, k, s) ==
  \/ p < payload
  \/ decoder = "decode" /\ p = payload /\ (k < kind \/ (k = kind /\ s < stream))

Present(p, k, s) ==
  \A n \in 1 .. contents[p][k][s].samples :
    \E j \in 1 .. Len(telemetry[k]) : IsFrom(telemetry[k][j], p, s, n)

WholeTelemetry ==
  /\ decoder = "decoded" => Len(contents) = payload - 1
                             /\ payload > Len(payloads)
  /\ decoder \in {"read", "decode", "decoded"} =>
       \A k \in Kinds : \A p \in 1 .. Len(contents) :
         \A s \in 1 .. Len(contents[p][k]) :
           Over(p, k, s) => Present(p, k, s)

\* Every sample is one of a stream that has been decoded, and behind those
\* before it.
OnceInv ==
  \A k \in Kinds : \A j \in 1 .. Len(telemetry[k]) :
    /\ Exists(telemetry[k][j], k)
    /\ decoder \in {"read", "decode"} =>
         Over(telemetry[k][j].payload, k, telemetry[k][j].stream)
    /\ \A h \in 1 .. j - 1 : Precedes(telemetry[k][h], telemetry[k][j])

DecoderInv ==
  /\ IInv /\ OrderInv
  /\ DecoderTypeOK /\ DecoderPhase /\ SamplesInv /\ HandInv /\ PairInv
  /\ WholeTelemetry /\ OnceInv

\* A product of natural numbers does not decrease with a factor.
LEMMA Product ==
  ASSUME NEW a \in Nat, NEW b \in Nat, NEW c \in Nat, a <= b
  PROVE  a * c \in Nat /\ b * c \in Nat /\ a * c <= b * c
<1>1. PICK d \in Nat : b = a + d
  <2>1. b - a \in Nat /\ b = a + (b - a)
    OBVIOUS
  <2> QED
    BY <2>1
<1>2. b * c = a * c + d * c /\ a * c \in Nat /\ d * c \in Nat
  BY <1>1
<1> QED
  BY <1>2

\* The samples of a payload divide it evenly.
LEMMA Evenly ==
  ASSUME NEW d \in Nat, NEW s \in 1 .. MaximumSamples, NEW n \in 1 .. s,
         NEW q, q = (d * Resolution) \div s
  PROVE  /\ q \in Nat /\ (n - 1) * q \in Nat
         /\ d = 0 => q = 0 /\ (n - 1) * q = 0
         /\ d > 0 => q > 0 /\ (n - 1) * q < d * Resolution
<1>1. /\ MaximumSamples \in Nat /\ Resolution \in Nat \ {0}
      /\ Resolution % s = 0 /\ s \in Nat \ {0} /\ n \in Nat \ {0} /\ n <= s
  <2>1. MaximumSamples \in Nat /\ Resolution \in Nat \ {0}
    BY ContentsAssumption
  <2>2. Resolution % s = 0
    BY ContentsAssumption
  <2> QED
    BY <2>1, <2>2
<1>2. d * Resolution \in Nat
  BY <1>1
<1>3. q \in Nat /\ s * q <= d * Resolution
  BY <1>1, <1>2
<1>4. (n - 1) * q \in Nat /\ (n - 1) * q <= (s - 1) * q /\ (s - 1) * q \in Nat
  BY <1>1, <1>3, Product, n - 1 \in Nat, s - 1 \in Nat, n - 1 <= s - 1
<1>5. (s - 1) * q + q = s * q
  <2>1. PICK m \in Nat : m = s - 1
    BY <1>1
  <2>2. (m + 1) * q = m * q + q /\ s = m + 1
    BY <1>1, <1>3, <2>1
  <2> QED
    BY <2>1, <2>2
<1>6. ASSUME d = 0
      PROVE  q = 0 /\ (n - 1) * q = 0
  <2>1. d * Resolution = 0
    BY <1>1, <1>6
  <2>2. q = 0
    BY <1>1, <2>1
  <2> QED
    BY <1>1, <2>2
<1>7. ASSUME d > 0
      PROVE  q > 0
  <2>1. Resolution \div s \in Nat /\ Resolution = s * (Resolution \div s)
    BY <1>1
  <2>2. Resolution \div s # 0
    BY <1>1, <2>1
  <2>3. s <= s * (Resolution \div s)
    BY <1>1, <2>1, <2>2
  <2>4. 1 * Resolution <= d * Resolution
    BY <1>1, <1>7, Product
  <2>5. s <= d * Resolution
    BY <1>1, <1>2, <2>1, <2>3, <2>4
  <2> QED
    BY <1>1, <1>2, <2>5
<1> QED
  BY <1>1, <1>2, <1>3, <1>4, <1>5, <1>6, <1>7

\* What a stream that is decoded adds.
LEMMA DecodedBlock ==
  ASSUME TypeOK, DecoderTypeOK, DecoderPhase, DecodeStream
  PROVE  /\ decoder = "decode" /\ payload \in 1 .. Len(payloads)
         /\ Samples \in Nat \ {0} /\ stream \in Nonempty(payload, kind)
         /\ Decoded \in Seq(TimedSample) /\ Len(Decoded) = Samples
         /\ \A n \in 1 .. Samples :
              /\ IsFrom(Decoded[n], payload, stream, n)
              /\ Decoded[n].payload = payload /\ Within(Decoded[n])
         /\ \A n \in 2 .. Samples :
              /\ Decoded[n - 1].time <= Decoded[n].time
              /\ Decoded[n - 1].time = Decoded[n].time =>
                   payloads[payload].duration_units = 0
<1>1. /\ decoder = "decode" /\ payload \in 1 .. Len(payloads)
      /\ stream \in 1 .. Len(Streams)
      /\ Samples \in 1 .. MaximumSamples
  BY DEF DecodeStream, Found, DecoderPhase, DecoderTypeOK
<1>2. Samples \in Nat \ {0}
  BY <1>1, ContentsAssumption
<1>3. stream \in Nonempty(payload, kind)
  <2>1. stream \in 1 .. Len(contents[payload][kind])
    BY <1>1 DEF Streams
  <2>2. contents[payload][kind][stream].samples > 0
    BY <1>2 DEF Samples, Streams
  <2> QED
    BY <2>1, <2>2 DEF Nonempty
<1> DEFINE S == payloads[payload].start_time_units
           d == payloads[payload].duration_units
           q == (d * Resolution) \div Samples
<1>4. S \in Nat /\ d \in Nat /\ Resolution \in Nat \ {0}
  BY <1>1, EntryTypes, ContentsAssumption
<1>5. S * Resolution \in Nat /\ d * Resolution \in Nat
  BY <1>4
<1>6. \A n \in 1 .. Samples :
        /\ Decoded[n].time = TimeOf(n) /\ Decoded[n].payload = payload
        /\ IsFrom(Decoded[n], payload, stream, n)
        /\ TimeOf(n) = S * Resolution + (n - 1) * q
  BY <1>4 DEF Decoded, TimeOf, IsFrom
<1> HIDE DEF S, d
<1>7. ASSUME NEW n \in 1 .. Samples
      PROVE  /\ q \in Nat /\ (n - 1) * q \in Nat
             /\ d = 0 => q = 0 /\ (n - 1) * q = 0
             /\ d > 0 => q > 0 /\ (n - 1) * q < d * Resolution
  BY <1>1, <1>4, Evenly
<1> HIDE DEF q
<1>8. ASSUME NEW n \in 1 .. Samples
      PROVE  Within(Decoded[n])
  <2>1. Decoded[n].time = S * Resolution + (n - 1) * q
    BY <1>6
  <2>2. Lies(Decoded[n].time, S, d)
    <3>1. d = 0 => Decoded[n].time = S * Resolution
      BY <1>5, <1>7, <2>1
    <3>2. d > 0 =>
            Decoded[n].time
              \in S * Resolution .. S * Resolution + d * Resolution - 1
      BY <1>5, <1>7, <2>1
    <3> QED
      BY <1>4, <3>1, <3>2 DEF Lies
  <2>3. Decoded[n].payload = payload
    BY <1>6
  <2> QED
    BY <2>2, <2>3 DEF Within, S, d
<1>9. \A n \in 1 .. Samples : Decoded[n] \in TimedSample
  <2> SUFFICES ASSUME NEW n \in 1 .. Samples
               PROVE  Decoded[n] \in TimedSample
    OBVIOUS
  <2>1. TimeOf(n) \in Nat /\ n \in Nat \ {0}
    BY <1>5, <1>6, <1>7
  <2> QED
    BY <2>1 DEF Decoded, TimedSample, DecoderTypeOK
<1>10. Decoded \in Seq(TimedSample) /\ Len(Decoded) = Samples
  <2>1. Decoded \in [1 .. Samples -> TimedSample]
    BY <1>9 DEF Decoded
  <2> QED
    BY <1>2, <2>1
<1>11. ASSUME NEW n \in 2 .. Samples
       PROVE  /\ Decoded[n - 1].time <= Decoded[n].time
              /\ Decoded[n - 1].time = Decoded[n].time =>
                   payloads[payload].duration_units = 0
  <2>1. n \in 1 .. Samples /\ n - 1 \in 1 .. Samples /\ n \in Nat
    BY <1>2
  <2>2. /\ Decoded[n].time = S * Resolution + (n - 1) * q
        /\ Decoded[n - 1].time = S * Resolution + (n - 1 - 1) * q
    BY <1>6, <2>1
  <2>3. (n - 1) * q = (n - 1 - 1) * q + q
    <3>1. PICK m \in Nat : m = n - 1 - 1
      BY <2>1, n - 1 - 1 \in Nat
    <3>2. n - 1 = m + 1 /\ (m + 1) * q = m * q + q
      BY <1>7, <2>1, <3>1
    <3> QED
      BY <3>1, <3>2
  <2>4. q = 0 => d = 0
    BY <1>4, <1>7, <2>1
  <2> QED
    BY <1>5, <1>7, <2>1, <2>2, <2>3, <2>4 DEF d
<1> QED
  BY <1>1, <1>2, <1>3, <1>6, <1>8, <1>10, <1>11

\* Decoding a stream leaves the other kinds alone and appends to its own.
LEMMA Appended ==
  ASSUME DecoderTypeOK, DecodeStream, Samples \in Nat \ {0},
         Decoded \in Seq(TimedSample), Len(Decoded) = Samples
  PROVE  /\ telemetry' \in [Kinds -> Seq(TimedSample)]
         /\ \A k \in Kinds : k # kind => telemetry'[k] = telemetry[k]
         /\ Len(telemetry[kind]) \in Nat
         /\ Len(telemetry'[kind]) = Len(telemetry[kind]) + Samples
         /\ \A j \in 1 .. Len(telemetry[kind]) :
              telemetry'[kind][j] = telemetry[kind][j]
         /\ \A n \in 1 .. Samples :
              telemetry'[kind][Len(telemetry[kind]) + n] = Decoded[n]
<1> DEFINE old == telemetry[kind]
           new == Decoded
<1>1. old \in Seq(TimedSample) /\ kind \in Kinds
  BY DEF DecoderTypeOK
<1>2. telemetry' = [telemetry EXCEPT ![kind] = old \o new]
  BY DEF DecodeStream
<1> HIDE DEF old, new
<1>3. new \in Seq(TimedSample) /\ Len(new) = Samples
  BY DEF new
<1>4. /\ old \o new \in Seq(TimedSample)
      /\ Len(old \o new) = Len(old) + Samples /\ Len(old) \in Nat
      /\ \A j \in 1 .. Len(old) : (old \o new)[j] = old[j]
      /\ \A n \in 1 .. Samples : (old \o new)[Len(old) + n] = new[n]
  BY <1>1, <1>3
<1>5. /\ telemetry' \in [Kinds -> Seq(TimedSample)]
      /\ telemetry'[kind] = old \o new
      /\ \A k \in Kinds : k # kind => telemetry'[k] = telemetry[k]
  BY <1>1, <1>2, <1>4 DEF DecoderTypeOK
<1> QED
  BY <1>4, <1>5 DEF old, new

\* The list of payloads does not change any more once decoding has begun, and
\* only a stream that is decoded adds samples.
LEMMA DecoderSteps ==
  ASSUME DecoderPhase, [DecoderNext]_<<vars, decoderVars>>
  PROVE  /\ DecodeStream \/ UNCHANGED telemetry
         /\ decoder # "wait" => UNCHANGED vars
         /\ ReadPayload \/ UNCHANGED contents
<1>1. decoder # "wait" => ~Step
  BY StepIsBeforeReturn DEF DecoderPhase
<1> QED
  BY <1>1
     DEF DecoderNext, BuildIndex, NoIndex, StartDecoding, ReadFails,
         ReadPayload, SkipStream, StreamFails, DecodeStream, NextKind,
         NextPayload, FinishDecoding, DecodingFinished, Fail, decoderVars

LEMMA DecoderTypeStep ==
  /\ IInv /\ DecoderTypeOK /\ DecoderPhase
  /\ [DecoderNext]_<<vars, decoderVars>>
  => DecoderTypeOK' /\ DecoderPhase'
<1> SUFFICES ASSUME IInv, DecoderTypeOK, DecoderPhase,
                    [DecoderNext]_<<vars, decoderVars>>
             PROVE  DecoderTypeOK' /\ DecoderPhase'
  OBVIOUS
<1>1. CASE BuildIndex
  <2>1. decoder = "wait" /\ UNCHANGED decoderVars
    BY <1>1, StepIsBeforeReturn DEF BuildIndex, DecoderPhase
  <2> QED
    BY <2>1 DEF decoderVars, DecoderTypeOK, DecoderPhase
<1>2. CASE NoIndex \/ StartDecoding
  BY <1>2
     DEF NoIndex, StartDecoding, vars, DecoderTypeOK, DecoderPhase, Returned
<1>3. CASE ReadFails \/ StreamFails
  BY <1>3
     DEF ReadFails, StreamFails, Fail, Found, vars, DecoderTypeOK,
         DecoderPhase, Returned
<1>4. CASE ReadPayload
  <2>1. PICK c \in Contents : contents' = Append(contents, c)
    BY <1>4 DEF ReadPayload
  <2>2. c \in [Kinds -> Seq(Stream)]
    BY ContentsAssumption
  <2>3. /\ contents' \in Seq([Kinds -> Seq(Stream)])
        /\ Len(contents') = Len(contents) + 1
    BY <2>1, <2>2 DEF DecoderTypeOK
  <2>4. Len(contents) = payload - 1 /\ payload \in Nat /\ 1 \in Kinds
    BY <1>4 DEF ReadPayload, DecoderPhase, DecoderTypeOK, Kinds
  <2> QED
    BY <1>4, <2>3, <2>4
       DEF ReadPayload, vars, DecoderTypeOK, DecoderPhase, Returned
<1>5. CASE SkipStream
  BY <1>5 DEF SkipStream, Found, vars, DecoderTypeOK, DecoderPhase, Returned
<1>6. CASE DecodeStream
  <2>1. telemetry' \in [Kinds -> Seq(TimedSample)]
    BY <1>6, DecodedBlock, Appended DEF IInv
  <2> QED
    BY <1>6, <2>1
       DEF DecodeStream, Found, vars, DecoderTypeOK, DecoderPhase, Returned
<1>7. CASE NextKind
  <2>1. kind + 1 \in Kinds
    BY <1>7 DEF NextKind, DecoderTypeOK, Kinds
  <2> QED
    BY <1>7, <2>1 DEF NextKind, vars, DecoderTypeOK, DecoderPhase, Returned
<1>8. CASE NextPayload \/ FinishDecoding
  BY <1>8
     DEF NextPayload, FinishDecoding, vars, DecoderTypeOK, DecoderPhase,
         Returned
<1>9. CASE DecodingFinished \/ UNCHANGED <<vars, decoderVars>>
  BY <1>9
     DEF DecodingFinished, vars, decoderVars, DecoderTypeOK, DecoderPhase,
         Returned
<1> QED
  BY <1>1, <1>2, <1>3, <1>4, <1>5, <1>6, <1>7, <1>8, <1>9 DEF DecoderNext

\* A sample of a kind is an old one in its old place or one of the stream that
\* is decoded.
LEMMA OldOrDecoded ==
  ASSUME IInv, DecoderTypeOK, DecoderPhase,
         [DecoderNext]_<<vars, decoderVars>>,
         NEW k \in Kinds, NEW j \in 1 .. Len(telemetry'[k])
  PROVE  \/ j \in 1 .. Len(telemetry[k]) /\ telemetry'[k][j] = telemetry[k][j]
         \/ /\ DecodeStream /\ k = kind /\ Len(telemetry[k]) \in Nat
            /\ \E n \in 1 .. Samples :
                 /\ j = Len(telemetry[k]) + n
                 /\ telemetry'[k][j] = Decoded[n]
<1>1. CASE telemetry'[k] = telemetry[k]
  BY <1>1
<1>2. CASE DecodeStream /\ k = kind
  <2>1. /\ Len(telemetry[k]) \in Nat /\ Samples \in Nat
        /\ Len(telemetry'[k]) = Len(telemetry[k]) + Samples
    BY <1>2, DecodedBlock, Appended DEF IInv
  <2>2. CASE j \in 1 .. Len(telemetry[k])
    BY <1>2, <2>2, DecodedBlock, Appended DEF IInv
  <2>3. CASE j \notin 1 .. Len(telemetry[k])
    <3>1. j \in Nat /\ j - Len(telemetry[k]) \in 1 .. Samples
      BY <2>1, <2>3
    <3>2. j = Len(telemetry[k]) + (j - Len(telemetry[k]))
      BY <2>1, <3>1
    <3>3. telemetry'[k][Len(telemetry[k]) + (j - Len(telemetry[k]))]
            = Decoded[j - Len(telemetry[k])]
      BY <1>2, <3>1, DecodedBlock, Appended DEF IInv
    <3> QED
      BY <1>2, <2>1, <3>1, <3>2, <3>3
  <2> QED
    BY <2>2, <2>3
<1> QED
  BY <1>1, <1>2, DecoderSteps, DecodedBlock, Appended DEF IInv

\* Samples that are there stay where they are, and a stream's lie in the
\* payload at hand.
LEMMA SamplesStep ==
  /\ IInv /\ DecoderTypeOK /\ DecoderPhase /\ SamplesInv
  /\ [DecoderNext]_<<vars, decoderVars>>
  => SamplesInv'
<1> SUFFICES ASSUME IInv, DecoderTypeOK, DecoderPhase, SamplesInv,
                    [DecoderNext]_<<vars, decoderVars>>,
                    NEW k \in Kinds, NEW j \in 1 .. Len(telemetry'[k])
             PROVE  /\ telemetry'[k][j].payload \in 1 .. Len(payloads')
                    /\ Within(telemetry[k][j])'
  BY DEF SamplesInv
<1>1. CASE decoder = "wait"
  <2>1. telemetry' = telemetry
    BY <1>1, DecoderSteps DEF DecodeStream, Found
  <2>2. telemetry'[k] = << >>
    BY <1>1, <2>1 DEF DecoderPhase
  <2> QED
    BY <2>2
<1>2. CASE decoder # "wait"
  <2>1. payloads' = payloads
    BY <1>2, DecoderSteps DEF vars
  <2>2. ASSUME telemetry'[k][j].payload \in 1 .. Len(payloads),
               Within(telemetry'[k][j])
        PROVE  /\ telemetry'[k][j].payload \in 1 .. Len(payloads')
               /\ Within(telemetry[k][j])'
    BY <2>1, <2>2 DEF Within
  <2>3. CASE /\ j \in 1 .. Len(telemetry[k])
             /\ telemetry'[k][j] = telemetry[k][j]
    BY <2>2, <2>3 DEF SamplesInv
  <2>4. ASSUME DecodeStream, NEW n \in 1 .. Samples,
               telemetry'[k][j] = Decoded[n]
        PROVE  /\ telemetry'[k][j].payload \in 1 .. Len(payloads')
               /\ Within(telemetry[k][j])'
    <3>1. Decoded[n].payload \in 1 .. Len(payloads) /\ Within(Decoded[n])
      BY <2>4, DecodedBlock DEF IInv
    <3> QED
      BY <2>2, <2>4, <3>1
  <2> QED
    BY <2>3, <2>4, OldOrDecoded
<1> QED
  BY <1>1, <1>2

\* The payload at hand is the last that has samples, and the stream at hand
\* goes behind another one of its payload only if that one was not empty.
LEMMA HandStep ==
  /\ IInv /\ DecoderTypeOK /\ DecoderPhase /\ HandInv
  /\ [DecoderNext]_<<vars, decoderVars>>
  => HandInv'
<1> DEFINE Old(c) ==
      \/ decoder \in {"decoded", "failed"}
      \/ decoder = "decode" /\ c < kind
      \/ /\ decoder = "decode" /\ c = kind
         /\ \E r \in 1 .. stream - 1 : r \in Nonempty(payload, c)
<1> SUFFICES ASSUME IInv, DecoderTypeOK, DecoderPhase, HandInv,
                    [DecoderNext]_<<vars, decoderVars>>,
                    NEW k \in Kinds, NEW j \in 1 .. Len(telemetry'[k])
             PROVE  /\ telemetry'[k][j].payload <= payload'
                    /\ telemetry'[k][j].payload = payload' => Old(k)'
  BY DEF HandInv
<1> USE DEF Kinds
<1>1. /\ payload \in Nat \ {0} /\ stream \in Nat \ {0}
      /\ k \in Nat /\ kind \in Nat
  BY DEF DecoderTypeOK
<1>2. ASSUME j \in 1 .. Len(telemetry[k]), telemetry'[k][j] = telemetry[k][j]
      PROVE  /\ telemetry'[k][j].payload <= payload'
             /\ telemetry'[k][j].payload = payload' => Old(k)'
  <2> DEFINE p == telemetry[k][j].payload
  <2>1. p \in Nat
    <3>1. telemetry[k] \in Seq(TimedSample)
      BY DEF DecoderTypeOK
    <3>2. telemetry[k][j] \in TimedSample
      BY <1>2, <3>1
    <3> QED
      BY <3>2 DEF TimedSample
  <2>2. p <= payload /\ (p = payload => Old(k))
    BY <1>2 DEF HandInv
  <2>3. telemetry'[k][j].payload = p
    BY <1>2
  <2>4. decoder # "wait"
    BY <1>2 DEF DecoderPhase
  <2> HIDE DEF p
  <2>5. CASE SkipStream \/ DecodeStream
    <3>1. /\ payload' = payload /\ decoder' = "decode" /\ decoder = "decode"
          /\ kind' = kind /\ contents' = contents /\ stream' = stream + 1
      BY <2>5 DEF SkipStream, DecodeStream, Found
    <3>2. \A r \in 1 .. stream - 1 : r \in 1 .. stream' - 1
      BY <1>1, <3>1
    <3>3. Nonempty(payload, k)' = Nonempty(payload, k)
      BY <3>1 DEF Nonempty
    <3> QED
      BY <2>2, <2>3, <3>1, <3>2, <3>3
  <2>6. CASE NextKind
    <3>1. /\ payload' = payload /\ decoder' = "decode" /\ decoder = "decode"
          /\ kind' = kind + 1
      BY <2>6 DEF NextKind
    <3> QED
      BY <1>1, <2>2, <2>3, <3>1
  <2>7. CASE NextPayload
    BY <1>1, <2>1, <2>2, <2>3, <2>7 DEF NextPayload
  <2>8. CASE ReadPayload
    BY <2>2, <2>3, <2>8 DEF ReadPayload
  <2>9. CASE ReadFails \/ StreamFails \/ FinishDecoding
    BY <2>2, <2>3, <2>9 DEF ReadFails, StreamFails, FinishDecoding, Fail
  <2>10. CASE UNCHANGED decoderVars
    <3>1. Nonempty(payload, k)' = Nonempty(payload, k)
      BY <2>10 DEF Nonempty, decoderVars
    <3> QED
      BY <2>2, <2>3, <2>10, <3>1 DEF decoderVars
  <2> QED
    BY <2>4, <2>5, <2>6, <2>7, <2>8, <2>9, <2>10
       DEF DecoderNext, BuildIndex, NoIndex, StartDecoding, DecodingFinished
<1>3. ASSUME DecodeStream, k = kind, NEW n \in 1 .. Samples,
             telemetry'[k][j] = Decoded[n]
      PROVE  /\ telemetry'[k][j].payload <= payload'
             /\ telemetry'[k][j].payload = payload' => Old(k)'
  <2>1. telemetry'[k][j].payload = payload /\ stream \in Nonempty(payload, k)
    BY <1>3, DecodedBlock DEF IInv
  <2>2. /\ payload' = payload /\ decoder' = "decode" /\ kind' = kind
        /\ stream' = stream + 1 /\ contents' = contents
    BY <1>3 DEF DecodeStream, Found
  <2>3. stream \in 1 .. stream' - 1
    BY <1>1, <2>2
  <2>4. stream \in Nonempty(payload, k)'
    BY <2>1, <2>2 DEF Nonempty
  <2> QED
    BY <1>1, <1>3, <2>1, <2>2, <2>3, <2>4
<1> QED
  BY <1>2, <1>3, OldOrDecoded

\* Samples are added behind those there are: payloads in their order, and one
\* payload's in theirs.
LEMMA PairStep ==
  /\ IInv /\ DecoderTypeOK /\ DecoderPhase /\ SamplesInv /\ HandInv /\ PairInv
  /\ [DecoderNext]_<<vars, decoderVars>>
  => PairInv'
<1> DEFINE Pair(before, sample, one) ==
      /\ before.payload <= sample.payload
      /\ one /\ before.payload = sample.payload =>
           /\ before.time <= sample.time
           /\ before.time = sample.time =>
                payloads[before.payload].duration_units = 0
<1> SUFFICES ASSUME IInv, DecoderTypeOK, DecoderPhase, SamplesInv, HandInv,
                    PairInv, [DecoderNext]_<<vars, decoderVars>>,
                    NEW k \in Kinds, NEW j \in 2 .. Len(telemetry'[k])
             PROVE  Pair(telemetry[k][j - 1], telemetry[k][j], OneStream(k))'
  BY DEF PairInv
<1>1. \/ decoder = "wait" /\ telemetry[k] = << >>
      \/ decoder # "wait" /\ payloads' = payloads
  BY DecoderSteps DEF DecoderPhase, vars
<1>2. OneStream(k)' => OneStream(k)
  <2>1. CASE ReadPayload
    <3>1. PICK c \in Contents : contents' = Append(contents, c)
      BY <2>1 DEF ReadPayload
    <3>2. /\ contents \in Seq([Kinds -> Seq(Stream)])
          /\ c \in [Kinds -> Seq(Stream)]
      BY ContentsAssumption DEF DecoderTypeOK
    <3>3. \A p \in 1 .. Len(contents) :
            p \in 1 .. Len(contents') /\ contents'[p] = contents[p]
      BY <3>1, <3>2
    <3> QED
      BY <3>3 DEF OneStream, Nonempty
  <2>2. CASE UNCHANGED contents
    BY <2>2 DEF OneStream, Nonempty
  <2> QED
    BY <2>1, <2>2, DecoderSteps
<1>3. /\ j \in 1 .. Len(telemetry'[k]) /\ j - 1 \in 1 .. Len(telemetry'[k])
      /\ j \in Nat
  OBVIOUS
<1>4. CASE j \in 1 .. Len(telemetry[k])
  <2>1. j \in 2 .. Len(telemetry[k]) /\ j - 1 \in 1 .. Len(telemetry[k])
    BY <1>3, <1>4
  <2>2. /\ telemetry'[k][j] = telemetry[k][j]
        /\ telemetry'[k][j - 1] = telemetry[k][j - 1]
    <3>1. ASSUME NEW m \in 1 .. Len(telemetry[k]),
                 m \in 1 .. Len(telemetry'[k])
          PROVE  telemetry'[k][m] = telemetry[k][m]
      BY <3>1, OldOrDecoded
    <3> QED
      BY <1>3, <1>4, <2>1, <3>1
  <2>3. decoder # "wait"
    BY <1>1, <1>4
  <2>4. Pair(telemetry[k][j - 1], telemetry[k][j], OneStream(k))
    BY <2>1 DEF PairInv
  <2> QED
    BY <1>1, <1>2, <2>2, <2>3, <2>4
<1>5. CASE j \notin 1 .. Len(telemetry[k])
  <2>1. /\ DecodeStream /\ k = kind /\ Len(telemetry[k]) \in Nat
        /\ \E n \in 1 .. Samples :
             j = Len(telemetry[k]) + n /\ telemetry'[k][j] = Decoded[n]
    BY <1>3, <1>5, OldOrDecoded
  <2>2. PICK n \in 1 .. Samples :
          j = Len(telemetry[k]) + n /\ telemetry'[k][j] = Decoded[n]
    BY <2>1
  <2>3. /\ decoder = "decode" /\ payload \in Nat
        /\ Samples \in Nat \ {0} /\ stream \in Nonempty(payload, k)
        /\ Decoded[n].payload = payload /\ payloads' = payloads
    BY <1>1, <2>1, <2>2, DecodedBlock DEF IInv
  <2>4. CASE n = 1
    <3>1. j - 1 = Len(telemetry[k]) /\ j - 1 \in 1 .. Len(telemetry[k])
      BY <1>3, <2>1, <2>2, <2>4
    <3>2. telemetry'[k][j - 1] = telemetry[k][j - 1]
      BY <1>3, <3>1, OldOrDecoded
    <3>3. /\ telemetry[k][j - 1].payload <= payload
          /\ telemetry[k][j - 1].payload = payload =>
               \E r \in 1 .. stream - 1 : r \in Nonempty(payload, k)
      BY <2>1, <2>3, <3>1 DEF HandInv, Kinds
    <3>4. OneStream(k) => telemetry[k][j - 1].payload # payload
      <4>1. payload \in 1 .. Len(contents)
        BY <2>3 DEF DecoderPhase, DecoderTypeOK
      <4>2. stream \notin 1 .. stream - 1
        BY DEF DecoderTypeOK
      <4> QED
        BY <2>3, <3>3, <4>1, <4>2 DEF OneStream
    <3> QED
      BY <1>2, <2>2, <2>3, <3>2, <3>3, <3>4
  <2>5. CASE n # 1
    <3>1. n \in 2 .. Samples /\ n - 1 \in 1 .. Samples
      BY <2>3, <2>5
    <3>2. telemetry'[k][j - 1] = Decoded[n - 1]
      <4>1. j - 1 = Len(telemetry[k]) + (n - 1)
        BY <2>1, <2>2, <3>1
      <4>2. telemetry'[k][Len(telemetry[k]) + (n - 1)] = Decoded[n - 1]
        BY <2>1, <3>1, DecodedBlock, Appended DEF IInv
      <4> QED
        BY <4>1, <4>2
    <3>3. /\ Decoded[n - 1].payload = payload
          /\ Decoded[n - 1].time <= Decoded[n].time
          /\ Decoded[n - 1].time = Decoded[n].time =>
               payloads[payload].duration_units = 0
      BY <2>1, <3>1, DecodedBlock DEF IInv
    <3> QED
      BY <2>2, <2>3, <3>2, <3>3
  <2> QED
    BY <2>4, <2>5
<1> QED
  BY <1>4, <1>5

\* Contents that have been read stay.
LEMMA ContentsStay ==
  ASSUME DecoderTypeOK, DecoderPhase, [DecoderNext]_<<vars, decoderVars>>
  PROVE  /\ Len(contents) \in Nat
         /\ \A p \in 1 .. Len(contents) :
              p \in 1 .. Len(contents') /\ contents'[p] = contents[p]
         /\ ReadPayload => Len(contents') = Len(contents) + 1
<1>1. contents \in Seq([Kinds -> Seq(Stream)])
  BY DEF DecoderTypeOK
<1>2. CASE ReadPayload
  <2>1. PICK c \in Contents : contents' = Append(contents, c)
    BY <1>2 DEF ReadPayload
  <2>2. c \in [Kinds -> Seq(Stream)]
    BY ContentsAssumption
  <2> QED
    BY <1>1, <2>1, <2>2
<1>3. CASE ~ReadPayload
  BY <1>1, <1>3, DecoderSteps
<1> QED
  BY <1>2, <1>3

\* A sample that is there stays.
LEMMA PresentStays ==
  ASSUME IInv, DecoderTypeOK, DecoderPhase,
         [DecoderNext]_<<vars, decoderVars>>,
         NEW k \in Kinds, NEW p \in 1 .. Len(contents), NEW s,
         Present(p, k, s)
  PROVE  Present(p, k, s)'
<1>1. contents'[p] = contents[p]
  BY ContentsStay
<1> SUFFICES ASSUME NEW n \in 1 .. contents[p][k][s].samples
             PROVE  \E j \in 1 .. Len(telemetry'[k]) :
                      IsFrom(telemetry'[k][j], p, s, n)
  BY <1>1 DEF Present, IsFrom
<1>2. PICK j \in 1 .. Len(telemetry[k]) : IsFrom(telemetry[k][j], p, s, n)
  BY DEF Present
<1>3. CASE telemetry'[k] = telemetry[k]
  BY <1>2, <1>3
<1>4. CASE DecodeStream /\ k = kind
  <2>1. /\ Len(telemetry[k]) \in Nat /\ Samples \in Nat
        /\ Len(telemetry'[k]) = Len(telemetry[k]) + Samples
        /\ telemetry'[k][j] = telemetry[k][j]
    BY <1>2, <1>4, DecodedBlock, Appended DEF IInv
  <2> QED
    BY <1>2, <2>1
<1> QED
  BY <1>3, <1>4, DecoderSteps, DecodedBlock, Appended DEF IInv

LEMMA WholeTelemetryStep ==
  /\ IInv /\ DecoderTypeOK /\ DecoderPhase /\ WholeTelemetry
  /\ [DecoderNext]_<<vars, decoderVars>>
  => WholeTelemetry'
<1> SUFFICES ASSUME IInv, DecoderTypeOK, DecoderPhase, WholeTelemetry,
                    [DecoderNext]_<<vars, decoderVars>>
             PROVE  WholeTelemetry'
  OBVIOUS
<1>1. decoder' = "decoded" =>
        Len(contents') = payload' - 1 /\ payload' > Len(payloads')
  BY StepIsBeforeReturn
     DEF WholeTelemetry, DecoderPhase, DecoderNext, BuildIndex, NoIndex,
         StartDecoding, ReadFails, ReadPayload, SkipStream, StreamFails,
         DecodeStream, NextKind, NextPayload, FinishDecoding,
         DecodingFinished, Fail, vars, decoderVars, Found
<1> SUFFICES ASSUME decoder' \in {"read", "decode", "decoded"},
                    NEW k \in Kinds, NEW p \in 1 .. Len(contents'),
                    NEW s \in 1 .. Len(contents'[p][k]), Over(p, k, s)'
             PROVE  Present(p, k, s)'
  BY <1>1 DEF WholeTelemetry
<1>2. /\ payload \in Nat \ {0} /\ stream \in Nat \ {0}
      /\ k \in Nat /\ kind \in Nat /\ k <= 3 /\ p \in Nat /\ s \in Nat
      /\ Len(contents) \in Nat
  BY ContentsStay DEF DecoderTypeOK, Kinds
<1>3. ASSUME p \in 1 .. Len(contents), Over(p, k, s),
             decoder \in {"read", "decode", "decoded"}
      PROVE  Present(p, k, s)'
  <2>1. s \in 1 .. Len(contents[p][k])
    BY <1>3, ContentsStay
  <2>2. Present(p, k, s)
    BY <1>3, <2>1 DEF WholeTelemetry
  <2> QED
    BY <1>3, <2>2, PresentStays
<1>4. CASE StartDecoding \/ NoIndex \/ BuildIndex
  <2>1. contents' = << >>
    BY <1>4, StepIsBeforeReturn
       DEF StartDecoding, NoIndex, BuildIndex, DecoderPhase, decoderVars
  <2> QED
    BY <2>1
<1>5. CASE ReadPayload
  <2>1. /\ decoder = "read" /\ Len(contents) = payload - 1
        /\ payload' = payload /\ kind' = 1 /\ stream' = 1
    BY <1>5 DEF ReadPayload, DecoderPhase
  <2>2. p < payload
    BY <1>2, <2>1 DEF Over, Kinds
  <2> QED
    BY <1>2, <1>3, <2>1, <2>2 DEF Over
<1>6. CASE SkipStream \/ DecodeStream
  <2>1. /\ decoder = "decode" /\ stream' = stream + 1
        /\ UNCHANGED <<payload, kind, contents, decoder>>
        /\ stream <= Len(contents[payload][kind])
    BY <1>6 DEF SkipStream, DecodeStream, Found, Streams
  <2>2. CASE Over(p, k, s)
    BY <1>3, <2>1, <2>2
  <2>3. CASE ~Over(p, k, s)
    <3>1. p = payload /\ k = kind /\ s = stream
      BY <1>2, <2>1, <2>3 DEF Over
    <3>2. CASE SkipStream
      <4>1. contents'[p][k][s].samples = 0
        BY <2>1, <3>1, <3>2 DEF SkipStream, Samples, Streams
      <4> QED
        BY <4>1 DEF Present
    <3>3. CASE DecodeStream
      <4> SUFFICES ASSUME NEW n \in 1 .. Samples
                   PROVE  \E j \in 1 .. Len(telemetry'[k]) :
                            IsFrom(telemetry'[k][j], p, s, n)
        BY <2>1, <3>1 DEF Present, Samples, Streams, IsFrom
      <4>1. /\ Samples \in Nat /\ Len(telemetry[kind]) \in Nat
            /\ Len(telemetry'[kind]) = Len(telemetry[kind]) + Samples
            /\ telemetry'[kind][Len(telemetry[kind]) + n] = Decoded[n]
            /\ IsFrom(Decoded[n], payload, stream, n)
        BY <3>3, DecodedBlock, Appended DEF IInv
      <4>2. Len(telemetry[kind]) + n \in 1 .. Len(telemetry'[kind])
        BY <4>1
      <4> QED
        BY <3>1, <4>1, <4>2
    <3> QED
      BY <1>6, <3>2, <3>3
  <2> QED
    BY <2>2, <2>3
<1>7. CASE NextKind
  <2>1. /\ decoder = "decode" /\ kind' = kind + 1 /\ stream' = 1
        /\ UNCHANGED <<payload, contents, decoder>>
        /\ ~(stream <= Len(contents[payload][kind]))
    BY <1>2, <1>7 DEF NextKind, NoMoreStreams, Streams, DecoderTypeOK
  <2>2. Over(p, k, s)
    BY <1>2, <2>1 DEF Over
  <2> QED
    BY <1>3, <2>1, <2>2
<1>8. CASE NextPayload
  <2>1. /\ decoder = "decode" /\ payload' = payload + 1 /\ kind = 3
        /\ UNCHANGED contents /\ decoder' = "read"
        /\ ~(stream <= Len(contents[payload][kind]))
    BY <1>2, <1>8 DEF NextPayload, NoMoreStreams, Streams, DecoderTypeOK
  <2>2. Over(p, k, s)
    BY <1>2, <2>1 DEF Over
  <2> QED
    BY <1>3, <2>1, <2>2
<1>9. CASE FinishDecoding
  <2>1. /\ decoder = "read" /\ decoder' = "decoded"
        /\ UNCHANGED <<payload, contents>>
    BY <1>9 DEF FinishDecoding
  <2>2. Over(p, k, s)
    BY <2>1 DEF Over
  <2> QED
    BY <1>3, <2>1, <2>2
<1>10. CASE UNCHANGED decoderVars
  <2>1. Over(p, k, s)
    BY <1>10 DEF Over, decoderVars
  <2> QED
    BY <1>3, <1>10, <2>1 DEF decoderVars
<1> QED
  BY <1>4, <1>5, <1>6, <1>7, <1>8, <1>9, <1>10
     DEF DecoderNext, ReadFails, StreamFails, Fail, DecodingFinished

LEMMA OnceStep ==
  /\ IInv /\ DecoderTypeOK /\ DecoderPhase /\ OnceInv
  /\ [DecoderNext]_<<vars, decoderVars>>
  => OnceInv'
<1> SUFFICES ASSUME IInv, DecoderTypeOK, DecoderPhase, OnceInv,
                    [DecoderNext]_<<vars, decoderVars>>,
                    NEW k \in Kinds, NEW j \in 1 .. Len(telemetry'[k])
             PROVE  /\ Exists(telemetry[k][j], k)'
                    /\ decoder' \in {"read", "decode"} =>
                         Over(telemetry[k][j].payload, k,
                              telemetry[k][j].stream)'
                    /\ \A h \in 1 .. j - 1 :
                         Precedes(telemetry[k][h], telemetry[k][j])'
  BY DEF OnceInv
<1>1. /\ payload \in Nat \ {0} /\ stream \in Nat \ {0}
      /\ k \in Nat /\ kind \in Nat /\ k <= 3 /\ Len(contents) \in Nat
      /\ telemetry[k] \in Seq(TimedSample)
  BY ContentsStay DEF DecoderTypeOK, Kinds
<1>2. ASSUME NEW e \in TimedSample, Exists(e, k)
      PROVE  Exists(e, k)'
  BY <1>2, ContentsStay DEF Exists
<1>3. ASSUME NEW e \in TimedSample, Exists(e, k),
             Over(e.payload, k, e.stream), decoder \in {"read", "decode"},
             decoder' \in {"read", "decode"}
      PROVE  Over(e.payload, k, e.stream)'
  <2>1. /\ e.payload \in Nat /\ e.stream \in Nat
        /\ e.payload \in 1 .. Len(contents)
    BY <1>3 DEF TimedSample, Exists
  <2>2. CASE UNCHANGED decoderVars
    BY <1>3, <2>2 DEF decoderVars, Over
  <2>3. CASE ReadPayload
    BY <1>3, <2>1, <2>3 DEF ReadPayload, Over
  <2>4. CASE SkipStream \/ DecodeStream
    BY <1>1, <1>3, <2>1, <2>4 DEF SkipStream, DecodeStream, Found, Over
  <2>5. CASE NextKind
    BY <1>1, <1>3, <2>1, <2>5 DEF NextKind, Over
  <2>6. CASE NextPayload
    BY <1>1, <1>3, <2>1, <2>6 DEF NextPayload, Over
  <2> QED
    BY <1>3, <2>2, <2>3, <2>4, <2>5, <2>6
       DEF DecoderNext, BuildIndex, NoIndex, StartDecoding, ReadFails,
           StreamFails, Fail, FinishDecoding, DecodingFinished
<1>4. \A h \in 1 .. Len(telemetry[k]) : telemetry[k][h] \in TimedSample
  BY <1>1
<1>5. ASSUME NEW h \in 1 .. Len(telemetry'[k]), h \in 1 .. Len(telemetry[k])
      PROVE  telemetry'[k][h] = telemetry[k][h]
  BY <1>1, <1>5, OldOrDecoded
<1>6. CASE j \in 1 .. Len(telemetry[k])
  <2>1. telemetry'[k][j] = telemetry[k][j]
    BY <1>5, <1>6
  <2>2. \A h \in 1 .. j - 1 :
          /\ h \in 1 .. Len(telemetry[k]) /\ h \in 1 .. Len(telemetry'[k])
    BY <1>1, <1>6
  <2>3. \A h \in 1 .. j - 1 : telemetry'[k][h] = telemetry[k][h]
    BY <1>5, <2>2
  <2>4. /\ telemetry[k][j] \in TimedSample /\ Exists(telemetry[k][j], k)
        /\ decoder \in {"read", "decode"} =>
             Over(telemetry[k][j].payload, k, telemetry[k][j].stream)
        /\ \A h \in 1 .. j - 1 : Precedes(telemetry[k][h], telemetry[k][j])
    BY <1>4, <1>6 DEF OnceInv
  <2>5. Exists(telemetry[k][j], k)'
    <3> DEFINE e == telemetry[k][j]
    <3>2. e \in TimedSample /\ Exists(e, k)
      BY <2>4
    <3> HIDE DEF e
    <3>3. /\ e.payload \in 1 .. Len(contents')
          /\ e.stream \in 1 .. Len(contents'[e.payload][k])
          /\ e.number \in 1 .. contents'[e.payload][k][e.stream].samples
      BY <3>2, ContentsStay DEF Exists
    <3> QED
      BY <2>1, <3>3 DEF Exists, e
  <2>6. decoder' \in {"read", "decode"} =>
          /\ decoder \in {"read", "decode"}
          /\ Over(telemetry[k][j].payload, k, telemetry[k][j].stream)'
    <3> SUFFICES ASSUME decoder' \in {"read", "decode"}
                 PROVE  /\ decoder \in {"read", "decode"}
                        /\ Over(telemetry[k][j].payload, k,
                                telemetry[k][j].stream)'
      OBVIOUS
    <3>1. decoder # "wait"
      BY <1>6 DEF DecoderPhase
    <3>2. decoder \in {"read", "decode"}
      BY <3>1
         DEF DecoderTypeOK, DecoderNext, BuildIndex, NoIndex, StartDecoding,
             ReadFails, ReadPayload, SkipStream, StreamFails, DecodeStream,
             NextKind, NextPayload, FinishDecoding, DecodingFinished, Fail,
             Found, decoderVars
    <3> DEFINE e == telemetry[k][j]
    <3>3. e \in TimedSample /\ Exists(e, k) /\ Over(e.payload, k, e.stream)
      BY <2>4, <3>2
    <3> HIDE DEF e
    <3>4. \/ e.payload < payload'
          \/ /\ decoder' = "decode" /\ e.payload = payload'
             /\ k < kind' \/ (k = kind' /\ e.stream < stream')
      BY <1>3, <3>2, <3>3 DEF Over
    <3> QED
      BY <2>1, <3>2, <3>4 DEF Over, e
  <2> QED
    BY <2>1, <2>3, <2>4, <2>5, <2>6 DEF Precedes
<1>7. CASE j \notin 1 .. Len(telemetry[k])
  <2>1. /\ DecodeStream /\ k = kind /\ Len(telemetry[k]) \in Nat
        /\ \E n \in 1 .. Samples :
             j = Len(telemetry[k]) + n /\ telemetry'[k][j] = Decoded[n]
    BY <1>7, OldOrDecoded
  <2>2. PICK n \in 1 .. Samples :
          j = Len(telemetry[k]) + n /\ telemetry'[k][j] = Decoded[n]
    BY <2>1
  <2>3. /\ decoder = "decode" /\ payload \in 1 .. Len(contents)
        /\ stream \in 1 .. Len(contents[payload][k])
        /\ Samples = contents[payload][k][stream].samples
        /\ Samples \in Nat
        /\ UNCHANGED <<decoder, payload, kind, contents>>
        /\ stream' = stream + 1
    BY <1>1, <2>1, DecodedBlock
       DEF IInv, DecodeStream, Found, Streams, Samples, DecoderPhase, Nonempty
  <2>4. IsFrom(Decoded[n], payload, stream, n)
    BY <2>1, DecodedBlock DEF IInv
  <2>5. /\ telemetry'[k][j].payload = payload
        /\ telemetry'[k][j].stream = stream
        /\ telemetry'[k][j].number = n
    BY <2>2, <2>4 DEF IsFrom
  <2>6. Exists(telemetry[k][j], k)'
    BY <2>3, <2>5 DEF Exists
  <2>7. Over(telemetry[k][j].payload, k, telemetry[k][j].stream)'
    BY <1>1, <2>1, <2>3, <2>5 DEF Over
  <2>8. ASSUME NEW h \in 1 .. j - 1
        PROVE  Precedes(telemetry'[k][h], telemetry'[k][j])
    <3>1. h \in 1 .. Len(telemetry'[k]) /\ h \in Nat /\ n \in Nat
      BY <2>1, <2>2, <2>3
    <3>2. CASE h \in 1 .. Len(telemetry[k])
      <4>1. /\ telemetry'[k][h] = telemetry[k][h]
            /\ Over(telemetry[k][h].payload, k, telemetry[k][h].stream)
            /\ telemetry[k][h] \in TimedSample
        BY <1>4, <1>5, <2>3, <3>1, <3>2 DEF OnceInv
      <4>2. ~(k < kind)
        BY <1>1, <2>1
      <4>3. \/ telemetry'[k][h].payload < payload
            \/ /\ telemetry'[k][h].payload = payload
               /\ telemetry'[k][h].stream < stream
        BY <4>1, <4>2 DEF Over
      <4> QED
        BY <2>5, <4>3 DEF Precedes
    <3>3. CASE h \notin 1 .. Len(telemetry[k])
      <4>1. /\ h - Len(telemetry[k]) \in 1 .. Samples
            /\ h - Len(telemetry[k]) < n
            /\ h = Len(telemetry[k]) + (h - Len(telemetry[k]))
        <5>1. h <= Len(telemetry[k]) + n - 1
          BY <2>1, <2>2
        <5>2. Len(telemetry[k]) \in Nat /\ h > Len(telemetry[k])
          BY <2>1, <3>1, <3>3
        <5>3. n <= Samples /\ Samples \in Nat
          BY <2>3
        <5> QED
          BY <3>1, <5>1, <5>2, <5>3
      <4> DEFINE m == h - Len(telemetry[k])
      <4>2. telemetry'[k][Len(telemetry[k]) + m] = Decoded[m]
            /\ IsFrom(Decoded[m], payload, stream, m)
        BY <2>1, <4>1, DecodedBlock, Appended DEF IInv
      <4>3. /\ telemetry'[k][h].payload = payload
            /\ telemetry'[k][h].stream = stream
            /\ telemetry'[k][h].number = m /\ m < n
        BY <4>1, <4>2 DEF IsFrom
      <4> QED
        BY <2>5, <4>3 DEF Precedes
    <3> QED
      BY <3>2, <3>3
  <2> QED
    BY <2>6, <2>7, <2>8 DEF Precedes
<1> QED
  BY <1>6, <1>7

LEMMA DecoderInitInv == DecoderInit => DecoderInv
<1> SUFFICES ASSUME DecoderInit
             PROVE  DecoderInv
  OBVIOUS
<1>1. IInv /\ timed = 0
  BY InitInv DEF DecoderInit, Init
<1>2. OrderInv
  BY <1>1 DEF OrderInv
<1>3. /\ decoder = "wait" /\ payload = 1 /\ kind = 1 /\ stream = 1
      /\ contents = << >> /\ telemetry = [k \in Kinds |-> << >>]
  BY DEF DecoderInit
<1>4. \A k \in Kinds : telemetry[k] = << >> /\ Len(telemetry[k]) = 0
  BY <1>3
<1>5. DecoderTypeOK /\ DecoderPhase
  BY <1>3 DEF DecoderTypeOK, DecoderPhase, Kinds
<1>6. SamplesInv /\ HandInv /\ PairInv
  BY <1>4 DEF SamplesInv, HandInv, PairInv
<1>7. WholeTelemetry /\ OnceInv
  BY <1>3, <1>4 DEF WholeTelemetry, OnceInv
<1> QED
  BY <1>1, <1>2, <1>5, <1>6, <1>7 DEF DecoderInv

\* The inductive invariant of indexing and decoding holds for any tables and
\* any payloads (DecodeTelemetry, telemetry_decoder.cc:166-222).
THEOREM DecoderInvariance == DecoderSpec => []DecoderInv
<1>1. DecoderInv /\ [DecoderNext]_<<vars, decoderVars>> => DecoderInv'
  BY IndexStep, DecoderTypeStep, SamplesStep, HandStep, PairStep,
     WholeTelemetryStep, OnceStep DEF DecoderInv
<1> QED
  BY DecoderInitInv, <1>1, PTL DEF DecoderSpec

\* Every sample lies in the time of its payload (telemetry_decoder.cc:79-87,
\* 115-123).
THEOREM SamplesInTheirPayload == DecoderSpec => []InItsPayload
<1>1. DecoderInv => InItsPayload
  BY DEF DecoderInv, SamplesInv, Within, Lies, InItsPayload
<1> QED
  BY DecoderInvariance, <1>1, PTL

\* The samples of a kind are in order if no payload has two streams of it, and
\* strictly so where payloads take time: what joining chapters asks of each
\* chapter (run.cc:102-107).
THEOREM SamplesInOrder == DecoderSpec => []InOrder
<1>1. ASSUME DecoderInv, NEW k \in Kinds, OneStream(k),
             NEW j \in 2 .. Len(telemetry[k])
      PROVE  /\ telemetry[k][j - 1].time <= telemetry[k][j].time
             /\ telemetry[k][j - 1].time = telemetry[k][j].time =>
                  payloads[telemetry[k][j - 1].payload].duration_units = 0
  <2> DEFINE before == telemetry[k][j - 1]
             sample == telemetry[k][j]
             from(p) == payloads[p].start_time_units
             length(p) == payloads[p].duration_units
  <2>1. telemetry[k] \in Seq(TimedSample)
    BY <1>1 DEF DecoderInv, DecoderTypeOK
  <2>2. j \in 1 .. Len(telemetry[k]) /\ j - 1 \in 1 .. Len(telemetry[k])
    BY <2>1
  <2>3. /\ before.payload \in 1 .. Len(payloads) /\ Within(before)
        /\ sample.payload \in 1 .. Len(payloads) /\ Within(sample)
    BY <1>1, <2>2 DEF DecoderInv, SamplesInv
  <2>4. /\ before.payload <= sample.payload
        /\ before.payload = sample.payload =>
             /\ before.time <= sample.time
             /\ before.time = sample.time => length(before.payload) = 0
    BY <1>1 DEF DecoderInv, PairInv
  <2>5. before \in TimedSample /\ sample \in TimedSample
    BY <2>1, <2>2
  <2>6. before.time \in Nat /\ sample.time \in Nat
    BY <2>5 DEF TimedSample
  <2> HIDE DEF before, sample
  <2>7. CASE before.payload < sample.payload
    <3>1. stage = "indexed"
      <4>1. telemetry[k] # << >>
        BY <2>2
      <4> QED
        BY <1>1, <4>1 DEF DecoderInv, DecoderPhase
    <3>2. timed = Len(payloads)
      BY <1>1, <3>1 DEF DecoderInv, IInv, TimedInv
    <3>3. /\ from(before.payload) \in Nat /\ length(before.payload) \in Nat
          /\ from(sample.payload) \in Nat /\ length(sample.payload) \in Nat
      BY <1>1, <2>3, EntryTypes DEF DecoderInv, IInv
    <3>4. from(before.payload) + length(before.payload) <= from(sample.payload)
      BY <1>1, <2>3, <2>7, <3>2 DEF DecoderInv, OrderInv
    <3>5. /\ Lies(before.time, from(before.payload), length(before.payload))
          /\ Lies(sample.time, from(sample.payload), length(sample.payload))
      BY <2>3 DEF Within
    <3> DEFINE b == from(before.payload)
               d == length(before.payload)
               e == from(sample.payload)
               f == length(sample.payload)
    <3>6. b \in Nat /\ d \in Nat /\ e \in Nat /\ f \in Nat /\ b + d <= e
      BY <3>3, <3>4
    <3>7. Lies(before.time, b, d) /\ Lies(sample.time, e, f)
      BY <3>5
    <3> HIDE DEF b, d, e, f
    <3>8. Resolution \in Nat \ {0}
      BY ContentsAssumption
    <3>9. /\ b * Resolution \in Nat /\ d * Resolution \in Nat
          /\ e * Resolution \in Nat /\ f * Resolution \in Nat
      BY <3>6, <3>8
    <3>10. b * Resolution + d * Resolution <= e * Resolution
      <4>1. (b + d) * Resolution <= e * Resolution
        BY <3>6, <3>8, Product, b + d \in Nat
      <4>2. (b + d) * Resolution = b * Resolution + d * Resolution
        BY <3>6, <3>8
      <4> QED
        BY <4>1, <4>2
    <3>11. e * Resolution <= sample.time
      BY <2>6, <3>7, <3>9 DEF Lies
    <3>12. \/ before.time < b * Resolution + d * Resolution
           \/ before.time = b * Resolution /\ d = 0
      BY <2>6, <3>7, <3>9 DEF Lies
    <3>13. /\ before.time <= sample.time
           /\ before.time = sample.time => d = 0
      BY <2>6, <3>9, <3>10, <3>11, <3>12
    <3> QED
      BY <3>13 DEF before, sample, d
  <2>8. CASE before.payload = sample.payload
    BY <2>4, <2>8 DEF before, sample
  <2> QED
    BY <2>3, <2>4, <2>7, <2>8
<1>2. DecoderInv => InOrder
  BY <1>1 DEF InOrder
<1> QED
  BY <1>2, DecoderInvariance, PTL

\* What is returned has each sample of each stream of each payload once, in
\* the order of the file, and nothing else (telemetry_decoder.cc:174-221).
THEOREM DecodesAll == DecoderSpec => []AllDecoded
<1>1. ASSUME DecoderInv, NEW k \in Kinds, decoder = "decoded",
             NEW p \in 1 .. Len(payloads),
             NEW s \in 1 .. Len(contents[p][k])
      PROVE  Present(p, k, s)
  <2>1. /\ Len(contents) = payload - 1 /\ payload > Len(payloads)
        /\ payload \in Nat /\ Len(payloads) \in Nat
    BY <1>1 DEF DecoderInv, WholeTelemetry, DecoderTypeOK, IInv, TypeOK
  <2>2. p \in 1 .. Len(contents) /\ p < payload
    BY <2>1
  <2> QED
    BY <1>1, <2>2 DEF DecoderInv, WholeTelemetry, Over
<1>2. DecoderInv => AllDecoded
  BY <1>1 DEF DecoderInv, OnceInv, AllDecoded, Present
<1> QED
  BY <1>2, DecoderInvariance, PTL
-----------------------------------------------------------------------------
(* The format.                                                             *)

\* Numbers have a least one.
LEMMA NatLeast ==
  ASSUME NEW S \in SUBSET Nat, S # {}
  PROVE  \E n \in S : \A m \in S : n <= m
<1>1. IsWellFoundedOn(OpToRel(<, Nat), Nat)
  BY NatLessThanWellFounded
<1>2. PICK n \in S : \A m \in S : ~ (<<m, n>> \in OpToRel(<, Nat))
  BY <1>1, WFMin
<1>3. \A m \in S : ~(m < n)
  BY <1>2 DEF OpToRel
<1> QED
  BY <1>3

Sums(f, n) ==
  {s \in [0 .. n -> Nat] : s[0] = 0 /\ \A m \in 1 .. n : s[m] = s[m - 1] + f[m]}

\* The recursion that sums are made of has a solution.
LEMMA SumsExist ==
  ASSUME NEW len \in Nat, NEW f, \A m \in 1 .. len : f[m] \in Nat
  PROVE  Sums(f, len) # {}
<1> DEFINE Without == {n \in 0 .. len : Sums(f, n) = {}}
<1>1. SUFFICES ASSUME Without # {} PROVE FALSE
  OBVIOUS
<1>2. PICK n \in Without : \A m \in Without : n <= m
  <2>1. Without \in SUBSET Nat
    OBVIOUS
  <2> HIDE DEF Without
  <2> QED
    BY <1>1, <2>1, NatLeast
<1>3. n # 0
  <2>1. [m \in 0 .. 0 |-> 0] \in Sums(f, 0)
    BY DEF Sums
  <2> QED
    BY <2>1
<1>4. n - 1 \in 0 .. len /\ n - 1 \notin Without /\ n \in 1 .. len
  BY <1>2, <1>3
<1>5. PICK s : s \in Sums(f, n - 1)
  BY <1>4
<1>6. f[n] \in Nat /\ n \in Nat \ {0}
  BY <1>4
<1>7. /\ s \in [0 .. n - 1 -> Nat] /\ s[0] = 0
      /\ \A m \in 1 .. n - 1 : s[m] = s[m - 1] + f[m]
  BY <1>5 DEF Sums
<1> DEFINE r == [m \in 0 .. n |-> IF m = n THEN s[n - 1] + f[n] ELSE s[m]]
<1> HIDE DEF Without
<1>8. r \in [0 .. n -> Nat] /\ r[0] = 0
  BY <1>6, <1>7
<1>9. ASSUME NEW m \in 1 .. n
      PROVE  r[m] = r[m - 1] + f[m]
  BY <1>6, <1>7
<1>10. r \in Sums(f, n)
  <2> HIDE DEF r
  <2> QED
    BY <1>8, <1>9 DEF Sums
<1> QED
  BY <1>2, <1>10 DEF Without

\* A sum is that of one element less, and the element.
LEMMA SumIs ==
  ASSUME NEW len \in Nat, NEW f, DOMAIN f = 1 .. len,
         \A m \in 1 .. len : f[m] \in Nat
  PROVE  /\ Sum(f, 0) = 0
         /\ \A n \in 0 .. len : Sum(f, n) \in Nat
         /\ \A n \in 1 .. len : Sum(f, n) = Sum(f, n - 1) + f[n]
<1>1. PICK b : b \in Sums(f, len)
  BY SumsExist
<1>2. /\ b \in [0 .. len -> Nat] /\ b[0] = 0
      /\ \A m \in 1 .. len : b[m] = b[m - 1] + f[m]
  BY <1>1 DEF Sums
<1> DEFINE Solves(s) ==
      s = [m \in {0} \cup DOMAIN f |-> IF m = 0 THEN 0 ELSE s[m - 1] + f[m]]
           s == CHOOSE g : Solves(g)
<1>3. {0} \cup DOMAIN f = 0 .. len
  OBVIOUS
<1>4. Solves(b)
  BY <1>2, <1>3
<1>5. Solves(s)
  <2> HIDE DEF Solves
  <2> QED
    BY <1>4
<1>6. \A n : Sum(f, n) = s[n]
  BY DEF Sum
<1> HIDE DEF s
<1>7. s[0] = 0 /\ \A m \in 1 .. len : s[m] = s[m - 1] + f[m]
  <2>1. \A g : Solves(g) =>
          g[0] = 0 /\ \A m \in 1 .. len : g[m] = g[m - 1] + f[m]
    <3>1. /\ 0 \in {0} \cup DOMAIN f
          /\ \A m \in 1 .. len : m \in {0} \cup DOMAIN f /\ m # 0
      OBVIOUS
    <3> QED
      BY <3>1
  <2> HIDE DEF Solves
  <2> QED
    BY <1>5, <2>1
<1>8. \A m \in 0 .. len : s[m] = b[m]
  <2> DEFINE Other == {m \in 0 .. len : s[m] # b[m]}
  <2> SUFFICES ASSUME Other # {} PROVE FALSE
    OBVIOUS
  <2>1. PICK m \in Other : \A e \in Other : m <= e
    <3>1. Other \in SUBSET Nat
      OBVIOUS
    <3> HIDE DEF Other
    <3> QED
      BY <3>1, NatLeast
  <2>2. m # 0
    BY <1>2, <1>7
  <2>3. m \in 1 .. len /\ m - 1 \in 0 .. len /\ m - 1 \notin Other
    BY <2>1, <2>2
  <2> QED
    BY <1>2, <1>7, <2>1, <2>3
<1> HIDE DEF Solves
<1>9. Sum(f, 0) = 0
  BY <1>6, <1>7
<1>10. ASSUME NEW n \in 0 .. len
       PROVE  Sum(f, n) \in Nat
  <2>1. b[n] \in Nat
    BY <1>2
  <2> QED
    BY <1>6, <1>8, <2>1
<1>11. ASSUME NEW n \in 1 .. len
       PROVE  Sum(f, n) = Sum(f, n - 1) + f[n]
  BY <1>6, <1>7
<1> QED
  BY <1>9, <1>10, <1>11

\* Sums do not fall.
LEMMA SumsRise ==
  ASSUME NEW len \in Nat, NEW f, DOMAIN f = 1 .. len,
         \A m \in 1 .. len : f[m] \in Nat
  PROVE  \A m, n \in 0 .. len : m <= n => Sum(f, m) <= Sum(f, n)
<1> SUFFICES ASSUME NEW m \in 0 .. len
             PROVE  \A n \in 0 .. len : m <= n => Sum(f, m) <= Sum(f, n)
  OBVIOUS
<1> DEFINE Falls == {n \in 0 .. len : m <= n /\ ~(Sum(f, m) <= Sum(f, n))}
<1> SUFFICES ASSUME Falls # {} PROVE FALSE
  OBVIOUS
<1>0. /\ \A n \in 0 .. len : Sum(f, n) \in Nat
      /\ \A n \in 1 .. len : Sum(f, n) = Sum(f, n - 1) + f[n]
  BY SumIs
<1>1. PICK n \in Falls : \A e \in Falls : n <= e
  <2>1. Falls \in SUBSET Nat
    OBVIOUS
  <2> HIDE DEF Falls
  <2> QED
    BY <2>1, NatLeast
<1>2. n \in 0 .. len /\ m <= n /\ ~(Sum(f, m) <= Sum(f, n))
  BY <1>1
<1>3. n # m
  BY <1>0, <1>2
<1>4. n \in 1 .. len /\ n - 1 \in 0 .. len /\ m <= n - 1 /\ ~(n <= n - 1)
  BY <1>2, <1>3
<1>5. n - 1 \notin Falls
  <2> HIDE DEF Falls
  <2> QED
    BY <1>1, <1>4
<1>6. Sum(f, m) <= Sum(f, n - 1)
  BY <1>4, <1>5
<1>7. Sum(f, n) = Sum(f, n - 1) + f[n] /\ f[n] \in Nat
      /\ Sum(f, n - 1) \in Nat /\ Sum(f, m) \in Nat
  BY <1>0, <1>4
<1> QED
  BY <1>2, <1>6, <1>7
-----------------------------------------------------------------------------
\* The sums of the tables of sizes and of times.
LEMMA SizesAddUp ==
  ASSUME TypeOK
  PROVE  /\ Sum(t.sizes, 0) = 0
         /\ \A k \in 0 .. Len(t.sizes) : Sum(t.sizes, k) \in Nat
         /\ \A k \in 1 .. Len(t.sizes) :
              Sum(t.sizes, k) = Sum(t.sizes, k - 1) + t.sizes[k]
<1>1. Len(t.sizes) \in Nat /\ \A k \in 1 .. Len(t.sizes) : t.sizes[k] \in Nat
  BY EntryTypes
<1>2. DOMAIN t.sizes = 1 .. Len(t.sizes)
  BY DEF TypeOK, SampleTables
<1> QED
  BY <1>1, <1>2, SumIs

LEMMA TimesAddUp ==
  ASSUME TypeOK
  PROVE  /\ Len(t.time_rules) \in Nat
         /\ Until(0) = 0 /\ Lasting(0) = 0
         /\ \A r \in 0 .. Len(t.time_rules) :
              Until(r) \in Nat /\ Lasting(r) \in Nat
         /\ \A r \in TimeRules :
              /\ Until(r) = Until(r - 1) + t.time_rules[r].count
              /\ Lasting(r) = Lasting(r - 1) +
                   t.time_rules[r].count * t.time_rules[r].duration
         /\ \A q, r \in 0 .. Len(t.time_rules) :
              q <= r => Until(q) <= Until(r)
<1> DEFINE n == Len(t.time_rules)
           counts == [q \in TimeRules |-> t.time_rules[q].count]
           spans == [q \in TimeRules |->
                       t.time_rules[q].count * t.time_rules[q].duration]
<1>1. n \in Nat /\ TimeRules = 1 .. n
  BY EntryTypes DEF TimeRules
<1>2. \A r \in 1 .. n :
        t.time_rules[r].count \in Nat /\ t.time_rules[r].duration \in Nat
  BY EntryTypes
<1>3. /\ DOMAIN counts = 1 .. n /\ DOMAIN spans = 1 .. n
      /\ \A r \in 1 .. n :
           /\ counts[r] = t.time_rules[r].count /\ counts[r] \in Nat
           /\ spans[r] = t.time_rules[r].count * t.time_rules[r].duration
           /\ spans[r] \in Nat
  BY <1>1, <1>2
<1>4. \A r : Until(r) = Sum(counts, r) /\ Lasting(r) = Sum(spans, r)
  BY DEF Until, Lasting
<1> HIDE DEF n, counts, spans
<1>5. /\ Sum(counts, 0) = 0
      /\ \A r \in 0 .. n : Sum(counts, r) \in Nat
      /\ \A r \in 1 .. n : Sum(counts, r) = Sum(counts, r - 1) + counts[r]
      /\ \A q, r \in 0 .. n : q <= r => Sum(counts, q) <= Sum(counts, r)
  BY <1>1, <1>3, SumIs, SumsRise
<1>6. /\ Sum(spans, 0) = 0
      /\ \A r \in 0 .. n : Sum(spans, r) \in Nat
      /\ \A r \in 1 .. n : Sum(spans, r) = Sum(spans, r - 1) + spans[r]
  BY <1>1, <1>3, SumIs
<1>7. \A r \in TimeRules :
        /\ Until(r) = Until(r - 1) + t.time_rules[r].count
        /\ Lasting(r) = Lasting(r - 1) +
             t.time_rules[r].count * t.time_rules[r].duration
  BY <1>1, <1>3, <1>4, <1>5, <1>6
<1> QED
  BY <1>1, <1>4, <1>5, <1>6, <1>7 DEF n

\* Later rules begin later,
LEMMA RulesRise ==
  ASSUME TypeOK, Ascending
  PROVE  \A q, r \in 1 .. Len(t.chunk_rules) :
           q < r => t.chunk_rules[q].first < t.chunk_rules[r].first
<1> DEFINE n == Len(t.chunk_rules)
           First(r) == t.chunk_rules[r].first
<1>1. /\ n \in Nat /\ \A r \in 1 .. n : First(r) \in Nat
      /\ \A r \in 2 .. n : First(r) > First(r - 1)
  BY EntryTypes DEF Ascending
<1> HIDE DEF n, First
<1>2. \A q, r \in 1 .. n : q < r => First(q) < First(r)
  <2> SUFFICES ASSUME NEW q \in 1 .. n
               PROVE  \A r \in 1 .. n : q < r => First(q) < First(r)
    OBVIOUS
  <2> DEFINE Falls == {r \in 1 .. n : q < r /\ ~(First(q) < First(r))}
  <2> SUFFICES ASSUME Falls # {} PROVE FALSE
    OBVIOUS
  <2>1. PICK r \in Falls : \A e \in Falls : r <= e
    <3>1. Falls \in SUBSET Nat
      BY <1>1
    <3> HIDE DEF Falls
    <3> QED
      BY <3>1, NatLeast
  <2>2. r \in 1 .. n /\ q < r /\ ~(First(q) < First(r))
    BY <2>1
  <2>3. r \in 2 .. n /\ r - 1 \in 1 .. n /\ ~(r <= r - 1)
    BY <1>1, <2>2
  <2>4. r - 1 \notin Falls
    <3> HIDE DEF Falls
    <3> QED
      BY <2>1, <2>3
  <2>5. q = r - 1 \/ First(q) < First(r - 1)
    BY <1>1, <2>2, <2>3, <2>4
  <2>6. /\ First(r - 1) < First(r)
        /\ First(q) \in Nat /\ First(r) \in Nat /\ First(r - 1) \in Nat
    BY <1>1, <2>3
  <2> QED
    BY <2>2, <2>5, <2>6
<1> QED
  BY <1>2 DEF n, First

\* so that there is one rule for every chunk.
LEMMA OneGoverns ==
  ASSUME TypeOK, Ascending, NEW c \in Chunks,
         NEW q \in 1 .. Len(t.chunk_rules), Governs(q, c),
         NEW r \in 1 .. Len(t.chunk_rules), Governs(r, c)
  PROVE  q = r
<1> DEFINE n == Len(t.chunk_rules)
           First(p) == t.chunk_rules[p].first
<1>1. /\ n \in Nat /\ \A p \in 1 .. n : First(p) \in Nat
      /\ c \in Nat
      /\ q \in 1 .. n /\ r \in 1 .. n
  BY EntryTypes DEF Chunks
<1>2. /\ First(q) <= c /\ (q < n => First(q + 1) > c)
      /\ First(r) <= c /\ (r < n => First(r + 1) > c)
  BY DEF Governs
<1>3. \A p, s \in 1 .. n : p < s => First(p) < First(s)
  BY RulesRise
<1> HIDE DEF n, First
<1>4. ASSUME NEW p \in 1 .. n, NEW s \in 1 .. n, p < s, First(s) <= c
      PROVE  p < n /\ First(p + 1) <= c
  <2>1. p < n /\ p + 1 \in 1 .. n
    BY <1>1, <1>4
  <2>2. p + 1 = s \/ First(p + 1) < First(s)
    BY <1>1, <1>3, <1>4, <2>1
  <2> QED
    BY <1>1, <1>4, <2>1, <2>2
<1>5. ~(q < r)
  <2> SUFFICES ASSUME q < r PROVE FALSE
    OBVIOUS
  <2>1. q < n /\ First(q + 1) <= c
    BY <1>1, <1>2, <1>4
  <2>2. q + 1 \in 1 .. n
    BY <1>1, <2>1
  <2> QED
    BY <1>1, <1>2, <2>1, <2>2
<1>6. ~(r < q)
  <2> SUFFICES ASSUME r < q PROVE FALSE
    OBVIOUS
  <2>1. r < n /\ First(r + 1) <= c
    BY <1>1, <1>2, <1>4
  <2>2. r + 1 \in 1 .. n
    BY <1>1, <2>1
  <2> QED
    BY <1>1, <1>2, <2>1, <2>2
<1> QED
  BY <1>1, <1>5, <1>6

LEMMA SomeGoverns ==
  ASSUME TypeOK, Numbered, NEW c \in Chunks
  PROVE  \E r \in 1 .. Len(t.chunk_rules) : Governs(r, c)
<1> DEFINE n == Len(t.chunk_rules)
           First(p) == t.chunk_rules[p].first
           \* how far from the last rule one is that has begun
           Begun == {m \in 0 .. n - 1 : First(n - m) <= c}
<1>1. /\ n \in Nat /\ n >= 1 /\ \A p \in 1 .. n : First(p) \in Nat
      /\ First(1) = 1 /\ c \in Nat /\ c >= 1
  BY EntryTypes DEF Chunks, Numbered
<1> HIDE DEF n, First
<1>2. n - 1 \in Begun
  BY <1>1
<1>3. PICK m \in Begun : \A e \in Begun : m <= e
  <2>1. Begun \in SUBSET Nat
    OBVIOUS
  <2> HIDE DEF Begun
  <2> QED
    BY <1>2, <2>1, NatLeast
<1>4. n - m \in 1 .. n /\ First(n - m) <= c /\ m \in 0 .. n - 1
  BY <1>1, <1>3
<1>5. ASSUME n - m < n
      PROVE  First((n - m) + 1) > c
  <2>1. m - 1 \in 0 .. n - 1 /\ ~(m <= m - 1) /\ n - (m - 1) = (n - m) + 1
        /\ n - (m - 1) \in 1 .. n
    BY <1>1, <1>4, <1>5
  <2>2. m - 1 \notin Begun
    <3> HIDE DEF Begun
    <3> QED
      BY <1>3, <2>1
  <2>3. ~(First(n - (m - 1)) <= c)
    BY <2>1, <2>2
  <2> QED
    BY <1>1, <2>1, <2>3
<1>6. Governs(n - m, c)
  BY <1>4, <1>5 DEF n, First, Governs
<1> QED
  BY <1>4, <1>6 DEF n

LEMMA GoverningIs ==
  ASSUME TypeOK, Numbered, NEW c \in Chunks
  PROVE  /\ Governing(c) \in 1 .. Len(t.chunk_rules)
         /\ Governs(Governing(c), c)
         /\ \A r \in 1 .. Len(t.chunk_rules) :
              Governs(r, c) => r = Governing(c)
<1>1. PICK r \in 1 .. Len(t.chunk_rules) : Governs(r, c)
  BY SomeGoverns
<1>2. Governing(c) \in 1 .. Len(t.chunk_rules) /\ Governs(Governing(c), c)
  BY <1>1 DEF Governing
<1> QED
  BY <1>2, OneGoverns DEF Numbered

\* The sums of the table of chunks.
LEMMA ChunksAddUp ==
  ASSUME TypeOK, Numbered
  PROVE  /\ Len(t.chunks) \in Nat
         /\ Before(1) = 0
         /\ \A c \in 1 .. Len(t.chunks) + 1 : Before(c) \in Nat
         /\ \A c \in Chunks :
              /\ t.chunk_rules[Governing(c)].count \in Nat
              /\ Before(c + 1) =
                   Before(c) + t.chunk_rules[Governing(c)].count
         /\ \A b, c \in 1 .. Len(t.chunks) + 1 :
              b <= c => Before(b) <= Before(c)
<1> DEFINE n == Len(t.chunks)
<1>1. n \in Nat /\ Chunks = 1 .. n
  BY EntryTypes DEF Chunks
<1>2. \A c \in 1 .. n : t.chunk_rules[Governing(c)].count \in Nat
  BY <1>1, GoverningIs, EntryTypes
<1>3. /\ DOMAIN InChunks = 1 .. n
      /\ \A c \in 1 .. n :
           /\ InChunks[c] = t.chunk_rules[Governing(c)].count
           /\ InChunks[c] \in Nat
  BY <1>1, <1>2 DEF InChunks
<1> HIDE DEF n
<1>4. /\ Sum(InChunks, 0) = 0
      /\ \A c \in 0 .. n : Sum(InChunks, c) \in Nat
      /\ \A c \in 1 .. n :
           Sum(InChunks, c) = Sum(InChunks, c - 1) + InChunks[c]
      /\ \A b, c \in 0 .. n : b <= c => Sum(InChunks, b) <= Sum(InChunks, c)
  BY <1>1, <1>3, SumIs, SumsRise
<1>5. \A c \in 1 .. n + 1 : c - 1 \in 0 .. n
  BY <1>1
<1>6. Before(1) = 0 /\ \A c \in 1 .. n + 1 : Before(c) \in Nat
  BY <1>4, <1>5 DEF Before
<1>7. ASSUME NEW c \in 1 .. n
      PROVE  Before(c + 1) = Before(c) + t.chunk_rules[Governing(c)].count
  <2>1. (c + 1) - 1 = c
    BY <1>1
  <2> QED
    BY <1>3, <1>4, <2>1 DEF Before
<1>8. \A b, c \in 1 .. n + 1 : b <= c => Before(b) <= Before(c)
  BY <1>1, <1>4, <1>5 DEF Before
<1> QED
  BY <1>1, <1>2, <1>6, <1>7, <1>8 DEF n
-----------------------------------------------------------------------------
\* The tables never change, nor does what they mean.
LEMMA FormatStays ==
  ASSUME t' = t
  PROVE  /\ Numbered' <=> Numbered
         /\ Chunks' = Chunks /\ TimeRules' = TimeRules
         /\ \A c : Before(c)' = Before(c)
         /\ \A k, c : Inside(k, c)' <=> Inside(k, c)
         /\ \A k, c : Distance(k, c)' = Distance(k, c)
         /\ \A r : Until(r)' = Until(r)
         /\ \A k, r : About(k, r)' <=> About(k, r)
         /\ \A r : Lasting(r)' = Lasting(r)
         /\ WellFormed' <=> WellFormed
<1>1. /\ Numbered' <=> Numbered
      /\ Chunks' = Chunks /\ TimeRules' = TimeRules
  BY DEF Numbered, Ascending, Chunks, TimeRules
<1>2. \A c : Governing(c)' = Governing(c)
  BY DEF Governing, Governs
<1>3. InChunks' = InChunks
  BY <1>1, <1>2 DEF InChunks
<1>4. \A c : Before(c)' = Before(c)
  BY <1>3 DEF Before
<1>5. \A k, c : Distance(k, c)' = Distance(k, c)
  BY <1>4 DEF Distance
<1>6. \A r : Until(r)' = Until(r)
  BY <1>1 DEF Until
<1>7. \A r : Lasting(r)' = Lasting(r)
  BY <1>1 DEF Lasting
<1>8. \A k, c : Inside(k, c)' <=> Inside(k, c)
  BY <1>4 DEF Inside
<1>9. \A k, r : About(k, r)' <=> About(k, r)
  BY <1>6 DEF About
<1>10. WellFormed' <=> WellFormed
  <2>1. (~Incomplete)' <=> ~Incomplete
    BY DEF Incomplete
  <2>2. Ascending' <=> Ascending
    BY DEF Ascending
  <2> QED
    BY <1>1, <1>2, <1>4, <1>5, <1>6, <1>8, <2>1, <2>2 DEF WellFormed
<1> QED
  BY <1>1, <1>4, <1>5, <1>6, <1>7, <1>8, <1>9, <1>10
-----------------------------------------------------------------------------
\* The rule in force is the one that governs the chunk that is entered.
LEMMA InForce ==
  ASSUME TypeOK, RuleInv, Numbered, stage = "samples"
  PROVE  /\ chunk \in Chunks /\ chunk + 1 \in 1 .. Len(t.chunks) + 1
         /\ chunk \in 1 .. Len(t.chunks) + 1
         /\ rule = Governing(chunk) /\ Rule.count \in Nat /\ i <= Rule.count
         /\ Before(chunk) \in Nat /\ Before(chunk + 1) \in Nat
         /\ Before(chunk + 1) = Before(chunk) + Rule.count
<1>1. /\ chunk \in Chunks /\ Governs(rule, chunk) /\ i <= Rule.count
      /\ rule \in 1 .. Len(t.chunk_rules) /\ Len(t.chunks) \in Nat
  BY EntryTypes DEF RuleInv, TypeOK, Chunks, Governs
<1>2. rule = Governing(chunk)
  BY <1>1, GoverningIs
<1>3. chunk + 1 \in 1 .. Len(t.chunks) + 1 /\ chunk \in 1 .. Len(t.chunks) + 1
  BY <1>1 DEF Chunks
<1> QED
  BY <1>1, <1>2, <1>3, ChunksAddUp DEF Rule

LEMMA PlacesKept ==
  ASSUME t' = t, ListedInv, Len(payloads') = Len(payloads),
         \A k \in 1 .. Len(payloads) :
           payloads'[k].file_offset = payloads[k].file_offset
  PROVE  \A k \in 1 .. Len(payloads') : \E c \in Chunks' :
           /\ Inside(k, c)'
           /\ payloads'[k].file_offset = t'.chunks[c] + Distance(k, c)'
BY FormatStays DEF ListedInv

LEMMA ListedStep ==
  ASSUME TypeOK, RuleInv, Located, Numbered, ListedInv, [Next]_vars
  PROVE  ListedInv'
<1>1. t' = t
  BY Steps
<1>2. /\ Chunks' = Chunks
      /\ \A c : Before(c)' = Before(c)
      /\ \A k, c : Inside(k, c)' <=> Inside(k, c)
      /\ \A k, c : Distance(k, c)' = Distance(k, c)
  BY <1>1, FormatStays
<1>3. /\ Len(payloads) \in Nat /\ chunk \in Nat \ {0} /\ i \in Nat
      /\ offset \in Nat
      /\ Len(t.chunks) \in Nat /\ Len(t.sizes) \in Nat
  BY EntryTypes DEF TypeOK
<1>places. ASSUME UNCHANGED payloads
           PROVE  \A k \in 1 .. Len(payloads') : \E c \in Chunks' :
                    /\ Inside(k, c)'
                    /\ payloads'[k].file_offset =
                         t'.chunks[c] + Distance(k, c)'
  BY <1>1, <1>places, PlacesKept
<1>4. CASE ListSample
  <2>1. /\ stage = "samples" /\ i < Rule.count /\ offset' = After
        /\ i' = i + 1 /\ UNCHANGED <<stage, chunk>>
    BY <1>4 DEF ListSample
  <2>2. /\ Len(payloads') = Len(payloads) + 1
        /\ \A k \in 1 .. Len(payloads) : payloads'[k] = payloads[k]
        /\ payloads'[Len(payloads) + 1].file_offset = offset
    BY <1>4, Listed
  <2>3. /\ Len(payloads) = Before(chunk) + i
        /\ offset = t.chunks[chunk] + Distance(Len(payloads) + 1, chunk)
    BY <2>1 DEF ListedInv
  <2>4. /\ Len(payloads) + 1 \in 1 .. Len(t.sizes)
        /\ t.sizes[Len(payloads) + 1] \in Nat
    BY <1>4, ListTypes DEF Sample
  <2>5. /\ Sum(t.sizes, Len(payloads) + 1) =
             Sum(t.sizes, Len(payloads)) + t.sizes[Len(payloads) + 1]
        /\ Sum(t.sizes, Len(payloads)) \in Nat
    <3>1. (Len(payloads) + 1) - 1 = Len(payloads)
          /\ Len(payloads) \in 0 .. Len(t.sizes)
      BY <1>3, <2>4
    <3> QED
      BY <2>4, <3>1, SizesAddUp
  <2>6. /\ chunk \in Chunks /\ Before(chunk) \in Nat /\ Rule.count \in Nat
        /\ Before(chunk + 1) = Before(chunk) + Rule.count
        /\ t.chunks[chunk] \in Nat
    BY <2>1, InForce, EntryTypes DEF Chunks
  <2>7. Sum(t.sizes, Before(chunk)) \in Nat
    <3>1. Before(chunk) \in 0 .. Len(t.sizes)
      BY <1>3, <2>3, <2>4, <2>6
    <3> QED
      BY <3>1, SizesAddUp
  <2>8. Len(payloads') = Before(chunk) + i'
    BY <1>3, <2>1, <2>2, <2>3, <2>6
  <2>9. offset' = t.chunks[chunk] + Distance(Len(payloads') + 1, chunk)
    <3>1. /\ (Len(payloads) + 1) - 1 = Len(payloads)
          /\ (Len(payloads') + 1) - 1 = Len(payloads) + 1
      BY <1>3, <2>2
    <3>2. offset' = offset + t.sizes[Len(payloads) + 1]
      BY <2>1 DEF After, Sample
    <3>3. /\ Distance(Len(payloads) + 1, chunk) =
               Sum(t.sizes, Len(payloads)) - Sum(t.sizes, Before(chunk))
          /\ Distance(Len(payloads') + 1, chunk) =
               Sum(t.sizes, Len(payloads) + 1) - Sum(t.sizes, Before(chunk))
      BY <3>1 DEF Distance
    <3> DEFINE a == t.chunks[chunk]
               b == Sum(t.sizes, Len(payloads))
               c == Sum(t.sizes, Before(chunk))
               s == t.sizes[Len(payloads) + 1]
               q == Sum(t.sizes, Len(payloads) + 1)
    <3>4. /\ a \in Nat /\ b \in Nat /\ c \in Nat /\ s \in Nat /\ q = b + s
          /\ offset' = (a + (b - c)) + s
          /\ Distance(Len(payloads') + 1, chunk) = q - c
      BY <2>3, <2>4, <2>5, <2>6, <2>7, <3>2, <3>3
    <3> HIDE DEF b, c, s, q
    <3> QED
      BY <3>4
  <2>10. Inside(Len(payloads) + 1, chunk)
    BY <1>3, <2>1, <2>3, <2>6 DEF Inside
  <2>11. ASSUME NEW k \in 1 .. Len(payloads')
         PROVE  \E c \in Chunks : /\ Inside(k, c)
                                  /\ payloads'[k].file_offset =
                                       t.chunks[c] + Distance(k, c)
    <3>1. CASE k = Len(payloads) + 1
      BY <2>2, <2>3, <2>6, <2>10, <3>1
    <3>2. CASE k \in 1 .. Len(payloads)
      BY <2>2, <3>2 DEF ListedInv
    <3> QED
      BY <1>3, <2>2, <3>1, <3>2
  <2> QED
    BY <1>1, <1>2, <2>1, <2>8, <2>9, <2>11 DEF ListedInv
<1>5. CASE TimeSample
  <2>1. stage = "time" /\ stage' = stage
    BY <1>5 DEF TimeSample, Timing
  <2>2. /\ Len(payloads') = Len(payloads)
        /\ \A k \in 1 .. Len(payloads) :
             payloads'[k].file_offset = payloads[k].file_offset
    BY <1>5, Timed
  <2>3. Len(payloads') = Before(Len(t.chunks) + 1)
    BY <2>1, <2>2 DEF ListedInv
  <2> QED
    BY <1>1, <1>2, <2>1, <2>2, <2>3, PlacesKept DEF ListedInv
<1>6. CASE EnterChunk
  <2>1. /\ stage = "chunk" /\ chunk <= Len(t.chunks) /\ stage' = "samples"
        /\ i' = 0 /\ offset' = t.chunks[chunk]
        /\ UNCHANGED <<chunk, payloads>>
    BY <1>6 DEF EnterChunk, AtChunk
  <2>2. Len(payloads) = Before(chunk) /\ t.chunks[chunk] \in Nat
    BY <1>3, <2>1, EntryTypes DEF ListedInv
  <2>3. Distance(Len(payloads) + 1, chunk) = 0
    <3>1. (Len(payloads) + 1) - 1 = Before(chunk)
      BY <1>3, <2>2
    <3>2. Before(chunk) \in 0 .. Len(t.sizes)
      BY <1>3, <2>2 DEF Located
    <3>3. Sum(t.sizes, Before(chunk)) \in Nat
      BY <3>2, SizesAddUp
    <3> QED
      BY <3>1, <3>3 DEF Distance
  <2> QED
    BY <1>1, <1>2, <1>3, <1>places, <2>1, <2>2, <2>3 DEF ListedInv
<1>7. CASE LeaveChunk
  <2>1. /\ stage = "samples" /\ i = Rule.count /\ stage' = "chunk"
        /\ chunk' = chunk + 1 /\ UNCHANGED payloads
    BY <1>7 DEF LeaveChunk
  <2>2. Len(payloads) = Before(chunk + 1) /\ chunk + 1 <= Len(t.chunks) + 1
    BY <1>3, <2>1, InForce DEF ListedInv
  <2> QED
    BY <1>1, <1>2, <1>places, <2>1, <2>2 DEF ListedInv
<1>8. CASE Begin
  <2>1. /\ stage = "check" /\ stage' = "chunk" /\ UNCHANGED <<chunk, payloads>>
        /\ chunk = 1 /\ payloads = << >>
    BY <1>8 DEF Begin, RuleInv
  <2>2. Len(payloads) = Before(1)
    BY <2>1, ChunksAddUp
  <2> QED
    BY <1>1, <1>2, <1>3, <1>places, <2>1, <2>2 DEF ListedInv
<1>9. CASE BeginTiming
  <2>1. /\ stage = "chunk" /\ chunk > Len(t.chunks)
        /\ stage' = "time" /\ UNCHANGED payloads
    BY <1>9 DEF BeginTiming, AllListed
  <2>2. chunk = Len(t.chunks) + 1
    BY <1>3, <2>1 DEF ListedInv
  <2> QED
    BY <1>1, <1>2, <1>places, <2>1, <2>2 DEF ListedInv
<1>10. CASE AdvanceRule \/ NextTimeRule \/ Finish \/ UNCHANGED vars
  <2>1. /\ UNCHANGED <<chunk, payloads>>
        /\ \/ stage' = stage /\ stage # "samples"
           \/ stage = "time" /\ stage' = "indexed"
           \/ UNCHANGED <<stage, i, offset>>
    BY <1>10 DEF AdvanceRule, NextTimeRule, Finish, vars, Timing, AtChunk
  <2> QED
    BY <1>1, <1>2, <1>places, <2>1 DEF ListedInv
<1>11. CASE Reject
  BY <1>1, <1>places, <1>11 DEF Reject, ListedInv
<1> QED
  BY <1>4, <1>5, <1>6, <1>7, <1>8, <1>9, <1>10, <1>11
     DEF Next, Step, RejectIncomplete, RejectRule, RejectSample, TooFewListed,
         TooManyTimed, TooFewTimed, Finished
-----------------------------------------------------------------------------
LEMMA TimesKept ==
  ASSUME TypeOK, t' = t, ClockInv, timed' = timed, timed <= Len(payloads),
         \A k \in 1 .. timed : payloads'[k] = payloads[k]
  PROVE  \A k \in 1 .. timed' : \E r \in TimeRules' :
           /\ About(k, r)'
           /\ payloads'[k].duration_units = t'.time_rules[r].duration
           /\ payloads'[k].start_time_units =
                Lasting(r - 1)' +
                  (k - 1 - Until(r - 1)') * t'.time_rules[r].duration
BY FormatStays DEF ClockInv

LEMMA ClockStep ==
  ASSUME TypeOK, TimedInv, ClockInv, [Next]_vars
  PROVE  ClockInv'
<1>1. t' = t
  BY Steps
<1>2. /\ TimeRules' = TimeRules
      /\ \A r : Until(r)' = Until(r) /\ Lasting(r)' = Lasting(r)
      /\ \A k, r : About(k, r)' <=> About(k, r)
  BY <1>1, FormatStays
<1>3. /\ rule \in Nat \ {0} /\ i \in Nat /\ start \in Nat /\ timed \in Nat
      /\ Len(t.time_rules) \in Nat /\ timed <= Len(payloads)
  BY EntryTypes DEF TypeOK, TimedInv
<1>times. ASSUME UNCHANGED <<timed, payloads>>
          PROVE  \A k \in 1 .. timed' : \E r \in TimeRules' :
                   /\ About(k, r)'
                   /\ payloads'[k].duration_units = t'.time_rules[r].duration
                   /\ payloads'[k].start_time_units =
                        Lasting(r - 1)' +
                          (k - 1 - Until(r - 1)') * t'.time_rules[r].duration
  BY <1>1, <1>3, <1>times, TimesKept
<1>4. CASE ListSample
  <2>1. /\ stage = "samples" /\ stage' = stage /\ timed' = timed
        /\ timed = 0
    BY <1>4 DEF ListSample, TimedInv
  <2> QED
    BY <2>1 DEF ClockInv
<1>5. CASE TimeSample
  <2> DEFINE d == t.time_rules[rule].duration
             n == t.time_rules[rule].count
  <2>1. /\ stage = "time" /\ stage' = stage /\ rule <= Len(t.time_rules)
        /\ i < n /\ i' = i + 1 /\ timed' = timed + 1 /\ start' = start + d
        /\ rule' = rule
    BY <1>5 DEF TimeSample, Timing, NextStart
  <2>2. /\ timed + 1 \in 1 .. Len(payloads) /\ d \in Nat
        /\ Len(payloads') = Len(payloads)
        /\ \A k \in 1 .. Len(payloads) :
             k # timed + 1 => payloads'[k] = payloads[k]
        /\ payloads'[timed + 1].start_time_units = start
        /\ payloads'[timed + 1].duration_units = d
    BY <1>5, Timed
  <2>3. /\ timed = Until(rule - 1) + i
        /\ start = Lasting(rule - 1) + i * d
    BY <1>3, <2>1 DEF ClockInv
  <2>4. /\ rule \in TimeRules /\ rule - 1 \in 0 .. Len(t.time_rules)
        /\ n \in Nat
    BY <1>3, <2>1, EntryTypes DEF TimeRules
  <2>5. /\ Until(rule - 1) \in Nat /\ Lasting(rule - 1) \in Nat
        /\ Until(rule) = Until(rule - 1) + n
    BY <2>4, TimesAddUp
  <2> HIDE DEF d, n
  <2>6. (i + 1) * d = i * d + d /\ i * d \in Nat
    BY <1>3, <2>2
  <2>7. /\ timed' = Until(rule - 1) + i'
        /\ start' = Lasting(rule - 1) + i' * d
        /\ i' <= n
    <3>1. timed' = Until(rule - 1) + i' /\ i' <= n
      BY <1>3, <2>1, <2>3, <2>4, <2>5
    <3>2. start' = Lasting(rule - 1) + (i * d + d)
      <4> DEFINE l == Lasting(rule - 1)
                 p == i * d
      <4>1. /\ l \in Nat /\ p \in Nat /\ d \in Nat
            /\ start = l + p /\ start' = start + d
        BY <2>1, <2>2, <2>3, <2>5, <2>6
      <4> HIDE DEF l, p
      <4>2. start' = l + (p + d)
        BY <4>1
      <4> QED
        BY <4>2 DEF l, p
    <3>3. i' * d = i * d + d
      BY <2>1, <2>6
    <3> QED
      BY <3>1, <3>2, <3>3
  <2>8. About(timed + 1, rule)
    BY <1>3, <2>1, <2>3, <2>4, <2>5 DEF About
  <2>9. (timed + 1) - 1 - Until(rule - 1) = i
    BY <1>3, <2>3, <2>5
  <2>10. ASSUME NEW k \in 1 .. timed + 1
         PROVE  \E r \in TimeRules :
                  /\ About(k, r)
                  /\ payloads'[k].duration_units = t.time_rules[r].duration
                  /\ payloads'[k].start_time_units =
                       Lasting(r - 1) +
                         (k - 1 - Until(r - 1)) * t.time_rules[r].duration
    <3>1. CASE k = timed + 1
      BY <2>2, <2>3, <2>4, <2>8, <2>9, <3>1 DEF d
    <3>2. CASE k \in 1 .. timed
      <4>1. k \in 1 .. Len(payloads) /\ k # timed + 1
        BY <1>3, <2>2, <3>2
      <4>2. payloads'[k] = payloads[k]
        BY <2>2, <4>1
      <4> QED
        BY <3>2, <4>2 DEF ClockInv
    <3> QED
      BY <1>3, <3>1, <3>2
  <2> QED
    BY <1>1, <1>2, <1>3, <2>1, <2>7, <2>10 DEF ClockInv, d, n
<1>6. CASE NextTimeRule
  <2> DEFINE d == t.time_rules[rule].duration
             n == t.time_rules[rule].count
  <2>1. /\ stage = "time" /\ stage' = stage /\ rule <= Len(t.time_rules)
        /\ i = n /\ i' = 0 /\ rule' = rule + 1
        /\ UNCHANGED <<timed, start, payloads>>
    BY <1>6 DEF NextTimeRule, Timing
  <2>2. /\ timed = Until(rule - 1) + n
        /\ start = Lasting(rule - 1) + n * d
    BY <1>3, <2>1 DEF ClockInv
  <2>3. rule \in TimeRules /\ rule + 1 <= Len(t.time_rules) + 1
        /\ (rule + 1) - 1 = rule /\ rule \in 0 .. Len(t.time_rules)
    BY <1>3, <2>1 DEF TimeRules
  <2>4. /\ timed = Until(rule) /\ start = Lasting(rule)
        /\ Until(rule) \in Nat /\ Lasting(rule) \in Nat
    BY <2>2, <2>3, TimesAddUp
  <2>5. ASSUME rule + 1 <= Len(t.time_rules)
        PROVE  /\ 0 * t.time_rules[rule + 1].duration = 0
               /\ 0 <= t.time_rules[rule + 1].count
    <3>1. rule + 1 \in 1 .. Len(t.time_rules)
      BY <1>3, <2>5
    <3>2. /\ t.time_rules[rule + 1].duration \in Nat
          /\ t.time_rules[rule + 1].count \in Nat
      BY <3>1, EntryTypes
    <3> QED
      BY <3>2
  <2>6. timed' = Until(rule' - 1) + i' /\ start' = Lasting(rule' - 1)
    BY <1>3, <2>1, <2>3, <2>4
  <2>7. CASE rule' > Len(t.time_rules)
    BY <1>1, <1>2, <1>times, <2>1, <2>3, <2>6, <2>7 DEF ClockInv
  <2>8. CASE ~(rule' > Len(t.time_rules))
    <3>1. rule + 1 <= Len(t.time_rules)
      BY <1>3, <2>1, <2>8
    <3>2. /\ i' <= t.time_rules[rule'].count
          /\ i' * t.time_rules[rule'].duration = 0
      BY <2>1, <2>5, <3>1
    <3>3. start' = Lasting(rule' - 1) + i' * t.time_rules[rule'].duration
      BY <1>3, <2>1, <2>6, <3>2
    <3> QED
      BY <1>1, <1>2, <1>times, <2>1, <2>3, <2>6, <2>8, <3>2, <3>3 DEF ClockInv
  <2> QED
    BY <2>7, <2>8
<1>7. CASE BeginTiming
  <2>1. /\ stage = "chunk" /\ stage' = "time" /\ rule' = 1 /\ i' = 0
        /\ UNCHANGED <<timed, start, payloads>>
        /\ timed = 0 /\ start = 0
    BY <1>7 DEF BeginTiming, AllListed, TimedInv
  <2>2. Until(0) = 0 /\ Lasting(0) = 0 /\ rule' - 1 = 0
    BY <2>1, TimesAddUp
  <2>3. CASE 1 > Len(t.time_rules)
    BY <1>1, <1>2, <1>3, <1>times, <2>1, <2>2, <2>3 DEF ClockInv
  <2>4. CASE ~(1 > Len(t.time_rules))
    <3>1. 1 \in 1 .. Len(t.time_rules)
      BY <1>3, <2>4
    <3>2. /\ t.time_rules[1].duration \in Nat /\ t.time_rules[1].count \in Nat
      BY <3>1, EntryTypes
    <3>3. /\ i' <= t.time_rules[1].count
          /\ i' * t.time_rules[1].duration = 0
      BY <2>1, <3>2
    <3> QED
      BY <1>1, <1>2, <1>3, <1>times, <2>1, <2>2, <2>4, <3>3 DEF ClockInv
  <2> QED
    BY <2>3, <2>4
<1>8. CASE Finish
  <2>1. /\ stage = "time" /\ rule > Len(t.time_rules) /\ stage' = "indexed"
        /\ UNCHANGED <<timed, payloads>>
    BY <1>8 DEF Finish
  <2>2. rule - 1 = Len(t.time_rules) /\ i = 0 /\ timed = Until(rule - 1) + i
    BY <1>3, <2>1 DEF ClockInv
  <2>3. Until(Len(t.time_rules)) \in Nat
    <3>1. Len(t.time_rules) \in 0 .. Len(t.time_rules)
      BY <1>3
    <3> QED
      BY <3>1, TimesAddUp
  <2>4. timed = Until(Len(t.time_rules))
    BY <2>2, <2>3
  <2> QED
    BY <1>1, <1>2, <1>times, <2>1, <2>4 DEF ClockInv
<1>9. CASE EnterChunk \/ LeaveChunk \/ Begin \/ AdvanceRule \/ Reject
  <2>1. /\ stage' \notin {"time", "indexed"} /\ UNCHANGED <<timed, payloads>>
    BY <1>9 DEF EnterChunk, LeaveChunk, Begin, AdvanceRule, AtChunk, Reject
  <2> QED
    BY <1>times, <2>1 DEF ClockInv
<1>10. CASE UNCHANGED vars
  BY <1>1, <1>2, <1>times, <1>10 DEF ClockInv, vars
<1> QED
  BY <1>4, <1>5, <1>6, <1>7, <1>8, <1>9, <1>10
     DEF Next, Step, RejectIncomplete, RejectRule, RejectSample, TooFewListed,
         TooManyTimed, TooFewTimed, Finished
-----------------------------------------------------------------------------
LEMMA WellFormedNumbered ==
  ASSUME TypeOK, WellFormed
  PROVE  /\ Numbered /\ ~Incomplete /\ Len(t.chunks) + 1 \in Nat
         /\ Before(Len(t.chunks) + 1) = Len(t.sizes)
         /\ Until(Len(t.time_rules)) = Len(t.sizes)
<1>1. ~Incomplete /\ Ascending /\ t.chunk_rules[1].first = 1
  BY DEF WellFormed
<1>2. Len(t.chunk_rules) >= 1
  <2>1. t.chunk_rules # << >> /\ t.chunk_rules \in Seq(ChunkRule)
    BY <1>1 DEF Incomplete, TypeOK, SampleTables
  <2> QED
    BY <2>1
<1> QED
  BY <1>1, <1>2, EntryTypes DEF WellFormed, Numbered

\* None of the reasons for which tables are rejected is one that well-formed
\* tables give.
LEMMA RulesAccepted ==
  ASSUME TypeOK, RuleInv, WellFormed
  PROVE  ~RejectRule
<1> SUFFICES ASSUME RejectRule PROVE FALSE
  OBVIOUS
<1>1. /\ stage = "chunk" /\ chunk <= Len(t.chunks) /\ ~NextRuleApplies
      /\ WrongRule
  BY DEF RejectRule, AtChunk
<1>2. /\ rule \in 1 .. Len(t.chunk_rules) /\ chunk \in Chunks
      /\ rule > 1 => Rule.first <= chunk
  BY <1>1, EntryTypes DEF RuleInv, TypeOK, Chunks
<1>3. Numbered
  BY WellFormedNumbered
<1>4. Rule.first <= chunk
  <2>1. CASE rule = 1
    <3>1. Rule.first = 1 /\ 1 <= chunk
      BY <1>2, <1>3, <2>1 DEF Numbered, Rule, Chunks
    <3> QED
      BY <3>1
  <2>2. CASE rule # 1
    BY <1>2, <2>2
  <2> QED
    BY <2>1, <2>2
<1>5. Governs(rule, chunk)
  <2>1. ASSUME rule < Len(t.chunk_rules)
        PROVE  t.chunk_rules[rule + 1].first > chunk
    <3>1. rule + 1 \in 1 .. Len(t.chunk_rules)
      BY <1>2, <2>1, EntryTypes
    <3>2. t.chunk_rules[rule + 1].first \in Nat /\ chunk \in Nat
      BY <1>2, <3>1, EntryTypes DEF TypeOK
    <3>3. ~(t.chunk_rules[rule + 1].first <= chunk)
      BY <1>1, <2>1 DEF NextRuleApplies
    <3> QED
      BY <3>2, <3>3
  <2> QED
    BY <1>2, <1>4, <2>1 DEF Governs, Rule
<1>6. rule = Governing(chunk)
  BY <1>2, <1>3, <1>5, GoverningIs
<1>7. Rule.description = t.gpmd_description
  BY <1>2, <1>6 DEF WellFormed, Rule
<1>8. Rule.first \in Nat /\ chunk \in Nat
  BY <1>2, EntryTypes DEF Rule, TypeOK
<1> QED
  BY <1>1, <1>4, <1>7, <1>8 DEF WrongRule

LEMMA SamplesAccepted ==
  ASSUME TypeOK, RuleInv, ListedInv, Located, WellFormed
  PROVE  ~RejectSample
<1> SUFFICES ASSUME RejectSample PROVE FALSE
  OBVIOUS
<1>1. stage = "samples" /\ i < Rule.count /\ ~InFile
  BY DEF RejectSample
<1>2. /\ Numbered /\ Len(t.chunks) \in Nat
      /\ Before(Len(t.chunks) + 1) = Len(t.sizes)
  BY WellFormedNumbered, EntryTypes
<1>3. /\ chunk \in Chunks /\ chunk + 1 \in 1 .. Len(t.chunks) + 1
      /\ Rule.count \in Nat /\ i \in Nat
      /\ Before(chunk) \in Nat /\ Before(chunk + 1) \in Nat
      /\ Before(chunk + 1) = Before(chunk) + Rule.count
  BY <1>1, <1>2, InForce DEF TypeOK
<1>4. /\ Len(payloads) = Before(chunk) + i /\ Len(payloads) \in Nat
      /\ offset = t.chunks[chunk] + Distance(Len(payloads) + 1, chunk)
  BY <1>1, EntryTypes DEF ListedInv
<1>5. Inside(Len(payloads) + 1, chunk)
  BY <1>1, <1>3, <1>4 DEF Inside
<1>6. Before(chunk + 1) <= Len(t.sizes)
  <2>1. Len(t.chunks) + 1 \in 1 .. Len(t.chunks) + 1
        /\ chunk + 1 <= Len(t.chunks) + 1
    BY <1>2, <1>3
  <2>2. Before(chunk + 1) <= Before(Len(t.chunks) + 1)
    BY <1>2, <1>3, <2>1, ChunksAddUp
  <2> QED
    BY <1>2, <2>2
<1>7. Sample \in 1 .. Len(t.sizes)
  <2>1. Len(t.sizes) \in Nat
    BY EntryTypes
  <2>2. i + 1 <= Rule.count
    BY <1>1, <1>3
  <2>3. Before(chunk) + i + 1 <= Before(chunk + 1)
    BY <1>3, <2>2
  <2>4. Len(payloads) + 1 <= Len(t.sizes)
    BY <1>3, <1>4, <1>6, <2>1, <2>3
  <2> QED
    BY <1>4, <2>1, <2>4 DEF Sample
<1>8. offset + t.sizes[Sample] <= t.file_size
  BY <1>3, <1>4, <1>5, <1>7 DEF WellFormed, Sample
<1>9. /\ offset \in Nat /\ t.sizes[Sample] \in Nat /\ t.file_size \in Nat
      /\ Sample <= Len(t.sizes)
  BY <1>7, EntryTypes DEF TypeOK
<1> QED
  BY <1>1, <1>8, <1>9 DEF InFile

LEMMA ListAccepted ==
  ASSUME TypeOK, ListedInv, WellFormed
  PROVE  ~TooFewListed
<1> SUFFICES ASSUME TooFewListed PROVE FALSE
  OBVIOUS
<1>1. /\ stage = "chunk" /\ chunk > Len(t.chunks)
      /\ Len(payloads) # Len(t.sizes)
  BY DEF TooFewListed, AllListed
<1>2. chunk = Len(t.chunks) + 1 /\ Len(payloads) = Before(chunk)
  BY <1>1, EntryTypes DEF ListedInv, TypeOK
<1> QED
  BY <1>1, <1>2, WellFormedNumbered

LEMMA TimesAccepted ==
  ASSUME TypeOK, RuleInv, ClockInv, WellFormed
  PROVE  ~TooManyTimed /\ ~TooFewTimed
<1>1. /\ rule \in Nat \ {0} /\ i \in Nat /\ timed \in Nat
      /\ Len(t.time_rules) \in Nat /\ Len(t.sizes) \in Nat
      /\ Until(Len(t.time_rules)) = Len(t.sizes)
  BY WellFormedNumbered, EntryTypes DEF TypeOK
<1>2. ASSUME TooManyTimed PROVE FALSE
  <2>1. /\ stage = "time" /\ rule <= Len(t.time_rules)
        /\ i < t.time_rules[rule].count /\ timed >= Len(payloads)
    BY <1>2 DEF TooManyTimed, Timing
  <2>2. timed = Until(rule - 1) + i /\ Len(payloads) = Len(t.sizes)
    BY <2>1 DEF ClockInv, RuleInv
  <2>3. /\ rule \in TimeRules /\ rule - 1 \in 0 .. Len(t.time_rules)
        /\ rule \in 0 .. Len(t.time_rules)
        /\ Len(t.time_rules) \in 0 .. Len(t.time_rules)
    BY <1>1, <2>1 DEF TimeRules
  <2>4. /\ Until(rule - 1) \in Nat /\ t.time_rules[rule].count \in Nat
        /\ Until(rule) = Until(rule - 1) + t.time_rules[rule].count
        /\ Until(rule) <= Until(Len(t.time_rules))
    BY <2>1, <2>3, TimesAddUp, EntryTypes DEF TimeRules
  <2> QED
    BY <1>1, <2>1, <2>2, <2>4
<1>3. ASSUME TooFewTimed PROVE FALSE
  <2>1. /\ stage = "time" /\ rule > Len(t.time_rules)
        /\ timed # Len(payloads)
    BY <1>3 DEF TooFewTimed, AllTimed
  <2>2. /\ timed = Until(rule - 1) + i /\ Len(payloads) = Len(t.sizes)
        /\ rule <= Len(t.time_rules) + 1 /\ i = 0
    BY <2>1 DEF ClockInv, RuleInv
  <2>3. rule - 1 = Len(t.time_rules)
    BY <1>1, <2>1, <2>2
  <2> QED
    BY <1>1, <2>1, <2>2, <2>3
<1> QED
  BY <1>2, <1>3

LEMMA RejectStep ==
  ASSUME IInv, FormatInv, [Next]_vars, stage' = "rejected"
  PROVE  ~WellFormed'
<1> SUFFICES ASSUME WellFormed PROVE FALSE
  BY Steps, FormatStays
<1>1. TypeOK /\ RuleInv /\ Located /\ ClockInv /\ ListedInv
  BY WellFormedNumbered DEF IInv, FormatInv
<1>2. stage # "rejected"
  BY DEF FormatInv
<1>3. ~RejectIncomplete
  BY <1>1, WellFormedNumbered DEF RejectIncomplete
<1>4. ~RejectRule /\ ~RejectSample /\ ~TooFewListed /\ ~TooManyTimed
      /\ ~TooFewTimed
  BY <1>1, RulesAccepted, SamplesAccepted, ListAccepted, TimesAccepted
<1>5. ~(Begin \/ AdvanceRule \/ EnterChunk \/ ListSample \/ LeaveChunk)
  BY <1>2 DEF Begin, AdvanceRule, EnterChunk, ListSample, LeaveChunk
<1>6. ~(BeginTiming \/ TimeSample \/ NextTimeRule \/ Finish)
  BY <1>2 DEF BeginTiming, TimeSample, NextTimeRule, Finish
<1>7. ~(Finished \/ UNCHANGED vars)
  BY <1>2 DEF Finished, vars
<1> QED
  BY <1>3, <1>4, <1>5, <1>6, <1>7 DEF Next, Step

LEMMA InitFormat == Init => FormatInv
BY DEF Init, FormatInv, ListedInv, ClockInv

LEMMA FormatStep ==
  ASSUME IInv, FormatInv, [Next]_vars
  PROVE  FormatInv'
<1>1. TypeOK /\ RuleInv /\ Located /\ TimedInv /\ ClockInv
  BY DEF IInv, FormatInv
<1>2. Numbered' => Numbered
  BY Steps, FormatStays
<1>3. Numbered' => ListedInv'
  BY <1>1, <1>2, ListedStep DEF FormatInv
<1>4. ClockInv'
  BY <1>1, ClockStep
<1> QED
  BY <1>3, <1>4, RejectStep DEF FormatInv

\* The samples of two chunks are not the same ones.
LEMMA InOneChunk ==
  ASSUME TypeOK, Numbered, NEW k \in Nat, NEW b \in Chunks, NEW c \in Chunks,
         Inside(k, b), Inside(k, c)
  PROVE  b = c
<1>1. /\ Len(t.chunks) \in Nat
      /\ \A d \in 1 .. Len(t.chunks) + 1 : Before(d) \in Nat
      /\ \A d, e \in 1 .. Len(t.chunks) + 1 :
           d <= e => Before(d) <= Before(e)
  BY ChunksAddUp
<1>2. ASSUME NEW d \in Chunks, NEW e \in Chunks, d < e,
             Inside(k, d), Inside(k, e)
      PROVE  FALSE
  <2>1. /\ d + 1 \in 1 .. Len(t.chunks) + 1 /\ e \in 1 .. Len(t.chunks) + 1
        /\ d + 1 <= e /\ d \in 1 .. Len(t.chunks) + 1
        /\ e + 1 \in 1 .. Len(t.chunks) + 1
    BY <1>1, <1>2 DEF Chunks
  <2>2. /\ Before(d + 1) <= Before(e) /\ Before(d + 1) \in Nat
        /\ Before(e) \in Nat /\ Before(d) \in Nat /\ Before(e + 1) \in Nat
    BY <1>1, <2>1
  <2> QED
    BY <1>2, <2>2 DEF Inside
<1>3. b \in Nat /\ c \in Nat
  BY <1>1 DEF Chunks
<1>4. ~(b < c) /\ ~(c < b)
  BY <1>2
<1> QED
  BY <1>3, <1>4

LEMMA IndexMatches ==
  ASSUME IInv, FormatInv, stage = "indexed", Ascending
  PROVE  /\ WellFormed
         /\ \A k \in 1 .. Len(t.sizes) : Matches(k)
<1>1. /\ TypeOK /\ RuleInv /\ Located /\ WholeInv /\ TimedInv /\ ClockInv
      /\ ~Incomplete /\ chunk > Len(t.chunks)
      /\ Len(payloads) = Len(t.sizes) /\ timed = Len(payloads)
      /\ Len(t.chunks) \in Nat /\ Len(t.sizes) \in Nat /\ chunk \in Nat
      /\ Len(t.chunk_rules) \in Nat
  BY EntryTypes DEF IInv, FormatInv, RuleInv, TimedInv, TypeOK
<1>2. \A c \in Chunks : \E r \in 1 .. Len(t.chunk_rules) :
        /\ Governs(r, c)
        /\ t.chunk_rules[r].description = t.gpmd_description
  <2> SUFFICES ASSUME NEW c \in Chunks
               PROVE  \E r \in 1 .. Len(t.chunk_rules) :
                        /\ Governs(r, c)
                        /\ t.chunk_rules[r].description = t.gpmd_description
    OBVIOUS
  <2>1. c \in 1 .. Len(t.chunks) /\ c < chunk
    BY <1>1 DEF Chunks
  <2> QED
    BY <1>1, <2>1 DEF WholeInv
<1>3. Numbered
  <2>1. t.chunks # << >> /\ t.chunks \in Seq(Nat)
    BY <1>1 DEF Incomplete, TypeOK, SampleTables
  <2>2. 1 \in Chunks
    BY <2>1 DEF Chunks
  <2>3. PICK r \in 1 .. Len(t.chunk_rules) : Governs(r, 1)
    BY <1>2, <2>2
  <2>4. t.chunk_rules[r].first <= 1
    BY <2>3 DEF Governs
  <2>5. 1 \in 1 .. Len(t.chunk_rules) /\ t.chunk_rules[1].first > 0
    BY <1>1, <2>3 DEF Ascending
  <2>6. /\ t.chunk_rules[r].first \in Nat /\ t.chunk_rules[1].first \in Nat
    BY <1>1, <2>5, EntryTypes
  <2>7. CASE r = 1
    BY <1>1, <2>4, <2>5, <2>6, <2>7 DEF Numbered
  <2>8. CASE r # 1
    <3>1. 1 < r
      BY <2>8
    <3>2. t.chunk_rules[1].first < t.chunk_rules[r].first
      BY <1>1, <2>5, <3>1, RulesRise
    <3> QED
      BY <2>4, <2>5, <2>6, <3>2
  <2> QED
    BY <2>7, <2>8
<1>4. ListedInv
  BY <1>3 DEF FormatInv
<1>5. /\ Before(Len(t.chunks) + 1) = Len(t.sizes)
      /\ Until(Len(t.time_rules)) = Len(t.sizes)
  BY <1>1, <1>4 DEF ListedInv, ClockInv
<1>6. ASSUME NEW c \in Chunks
      PROVE  t.chunk_rules[Governing(c)].description = t.gpmd_description
  BY <1>1, <1>2, <1>3, GoverningIs
<1>7. ASSUME NEW k \in 1 .. Len(t.sizes), NEW c \in Chunks, Inside(k, c)
      PROVE  t.chunks[c] + Distance(k, c) + t.sizes[k] <= t.file_size
  <2>1. PICK d \in Chunks :
          /\ Inside(k, d)
          /\ payloads[k].file_offset = t.chunks[d] + Distance(k, d)
    BY <1>1, <1>4 DEF ListedInv
  <2>2. d = c
    BY <1>1, <1>3, <1>7, <2>1, InOneChunk
  <2>3. payloads[k].file_offset + t.sizes[k] <= t.file_size
    BY <1>1 DEF Located
  <2> QED
    BY <2>1, <2>2, <2>3
<1>8. WellFormed
  BY <1>1, <1>3, <1>5, <1>6, <1>7 DEF WellFormed, Numbered
<1>9. ASSUME NEW k \in 1 .. Len(t.sizes)
      PROVE  Matches(k)
  <2>1. payloads[k].size_bytes = t.sizes[k]
    BY <1>1 DEF Located
  <2>2. \E c \in Chunks :
          /\ Inside(k, c)
          /\ payloads[k].file_offset = t.chunks[c] + Distance(k, c)
    BY <1>1, <1>4 DEF ListedInv
  <2>3. \E r \in TimeRules :
          /\ About(k, r)
          /\ payloads[k].duration_units = t.time_rules[r].duration
          /\ payloads[k].start_time_units =
               Lasting(r - 1) +
                 (k - 1 - Until(r - 1)) * t.time_rules[r].duration
    BY <1>1 DEF ClockInv
  <2> QED
    BY <2>1, <2>2, <2>3 DEF Matches
<1> QED
  BY <1>8, <1>9

\* Whatever the tables, an index of those with ascending rules is the one that
\* the file format defines, sample by sample, and no tables are rejected that
\* are well formed (mp4_gpmf_index.cc:241-282).
THEOREM FormatImplemented == Spec => []ImplementsFormat
<1>1. IInv /\ FormatInv /\ [Next]_vars => FormatInv'
  BY FormatStep
<1>2. IInv /\ FormatInv => ImplementsFormat
  BY IndexMatches DEF FormatInv, ImplementsFormat
<1> QED
  BY <1>1, <1>2, InitFormat, Invariance, PTL DEF Spec
=============================================================================
