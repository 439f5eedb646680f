--------------------------- MODULE MCGpmfSamples ---------------------------
(* Small tables: all tables of chunks with one table of times, and all     *)
(* tables of times with one table of chunks.  Payloads with GPS streams of *)
(* many kinds.                                                             *)
EXTENDS TelemetryDecoder, SampleFormat

CONSTANT FileSize

UpTo(S, n) == UNION {[1 .. k -> S] : k \in 0 .. n}

Sizes == {SubSeq(s, 1, n) : s \in {<<1, 2, 1>>, <<2, 1, 2>>}, n \in 0 .. 3}
Rules == [first : 0 .. 3, count : 0 .. 2, description : {1}]
           \cup [first : {1}, count : {1}, description : {2}]
Times == [count : 0 .. 2, duration : {0, 2}]

Durations(n) == <<[count |-> n, duration |-> 1]>>
OneChunk(n) == <<[first |-> 1, count |-> n, description |-> 1]>>

Full(sizes, chunks, rules, times) ==
  [file_size |-> FileSize, gpmd_description |-> 1, timescale |-> 1,
   sizes |-> sizes, chunks |-> chunks,
   chunk_rules |-> rules, time_rules |-> times]

MCTables ==
  {Full(sizes, chunks, rules, Durations(Len(sizes))) :
     sizes \in Sizes, chunks \in UpTo({0, 3}, 3),
     rules \in UpTo(Rules, 2)}
  \cup
  {Full(sizes, <<0>>, OneChunk(Len(sizes)), times) :
     sizes \in UpTo({1}, 3), times \in UpTo(Times, 2)}

Good(n) == [samples |-> n, good |-> TRUE]
Bad(n) == [samples |-> n, good |-> FALSE]

\* One stream, too long a one, an empty one and two, a damaged one, none.
Gps == {<<Good(3)>>, <<Good(4)>>, <<Good(0), Good(2), Good(1)>>, <<Bad(1)>>,
        << >>}

MCContents == {<<g, <<Good(2)>>, <<Good(3)>> >> : g \in Gps}
=============================================================================
