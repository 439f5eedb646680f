------------------------- MODULE TelemetryDecoder --------------------------
(***************************************************************************)
(* Decoding the samples of a GPMF track and giving them times:             *)
(* DecodeTelemetry (src/src/parser/telemetry_decoder.cc:166-222), behind   *)
(* SampleIndex, which lists the payloads it reads (src/src/common/run.cc:  *)
(* 142-145).  The result is what ChapterTimeline joins.                    *)
(*                                                                         *)
(* GoPro's parser is external: it finds the streams of a kind in a payload *)
(* in their order, and may refuse a payload or fail to scale a stream.     *)
(* What a payload contains is chosen when it is read.  Samples divide a    *)
(* payload evenly; Resolution is so chosen that all times are integers.    *)
(***************************************************************************)
EXTENDS SampleIndex

CONSTANTS
  Contents,         \* what a payload may contain
  MaximumSamples,   \* kMaximumSamplesPerPayload
  Resolution        \* ticks in a unit of the track's time

Kinds == 1 .. 3  \* GPS5, ACCL, GYRO

Stream == [samples : Nat, good : BOOLEAN]

ASSUME ContentsAssumption ==
  /\ Contents \subseteq [Kinds -> Seq(Stream)]
  /\ MaximumSamples \in Nat /\ Resolution \in Nat \ {0}
  /\ \A n \in 1 .. MaximumSamples : Resolution % n = 0

VARIABLES
  decoder,    \* waiting for the index, reading a payload, decoding it, returned
  payload,    \* the payload
  contents,   \* what the payloads that have been read contain
  kind,       \* what is looked for in the payload
  stream,     \* the stream of that kind that is found next
  telemetry   \* the samples so far; with each, where it is from

decoderVars == <<decoder, payload, contents, kind, stream, telemetry>>

DecoderInit ==
  /\ Init
  /\ decoder = "wait" /\ payload = 1 /\ contents = << >>
  /\ kind = 1 /\ stream = 1
  /\ telemetry = [k \in Kinds |-> << >>]
-----------------------------------------------------------------------------
BuildIndex == Step /\ UNCHANGED decoderVars

\* There is no telemetry without an index.
NoIndex ==
  /\ decoder = "wait" /\ stage = "rejected"
  /\ decoder' = "failed"
  /\ UNCHANGED <<vars, payload, contents, kind, stream, telemetry>>

StartDecoding ==
  /\ decoder = "wait" /\ stage = "indexed"
  /\ decoder' = "read"
  /\ UNCHANGED <<vars, payload, contents, kind, stream, telemetry>>

Fail ==
  /\ decoder' = "failed"
  /\ UNCHANGED <<vars, payload, contents, kind, stream, telemetry>>

\* An empty or too large payload, one that cannot be read, or no GPMF in it.
ReadFails == decoder = "read" /\ payload <= Len(payloads) /\ Fail

ReadPayload ==
  /\ decoder = "read" /\ payload <= Len(payloads)
  /\ payloads[payload].size_bytes > 0
  /\ \E c \in Contents : contents' = Append(contents, c)
  /\ decoder' = "decode" /\ kind' = 1 /\ stream' = 1
  /\ UNCHANGED <<vars, payload, telemetry>>

Streams == contents[payload][kind]
Found == decoder = "decode" /\ stream <= Len(Streams)
Samples == Streams[stream].samples

\* An empty stream is passed over, whatever else is wrong with it.
SkipStream ==
  /\ Found /\ Samples = 0
  /\ stream' = stream + 1
  /\ UNCHANGED <<vars, decoder, payload, contents, kind, telemetry>>

\* Too many samples, not the number of elements there should be, or values
\* that cannot be scaled.
StreamFails ==
  /\ Found /\ Samples > 0
  /\ Samples > MaximumSamples \/ ~Streams[stream].good
  /\ Fail

\* Mutant: the last sample lies at the end of the payload.
UntilEnd(n) ==
  Resolution * payloads[payload].start_time_units
    + (n - 1) * ((payloads[payload].duration_units * Resolution)
                    \div (IF Samples = 1 THEN 1 ELSE Samples - 1))

\* Mutant: the streams of all payloads begin at the beginning.
FromZero(n) ==
  (n - 1) * ((payloads[payload].duration_units * Resolution) \div Samples)

TimeOf(n) ==
  Resolution * payloads[payload].start_time_units
    + (n - 1) * ((payloads[payload].duration_units * Resolution) \div Samples)

Decoded ==
  [n \in 1 .. Samples |->
     [time |-> TimeOf(n), payload |-> payload, stream |-> stream, number |-> n]]

DecodeStream ==
  /\ Found /\ Samples \in 1 .. MaximumSamples /\ Streams[stream].good
  /\ telemetry' = [telemetry EXCEPT ![kind] = @ \o Decoded]
  /\ stream' = stream + 1
  /\ UNCHANGED <<vars, decoder, payload, contents, kind>>

\* Mutant: only the first stream of a kind is decoded.
OneIsEnough == stream > Len(Streams) \/ stream > 1

NoMoreStreams == stream > Len(Streams)

\* GPMF_ResetState: the next kind is looked for from the beginning.
NextKind ==
  /\ decoder = "decode" /\ NoMoreStreams /\ kind < 3
  /\ kind' = kind + 1 /\ stream' = 1
  /\ UNCHANGED <<vars, decoder, payload, contents, telemetry>>

NextPayload ==
  /\ decoder = "decode" /\ NoMoreStreams /\ kind = 3
  /\ decoder' = "read" /\ payload' = payload + 1
  /\ UNCHANGED <<vars, contents, kind, stream, telemetry>>

FinishDecoding ==
  /\ decoder = "read" /\ payload > Len(payloads)
  /\ decoder' = "decoded"
  /\ UNCHANGED <<vars, payload, contents, kind, stream, telemetry>>

DecodingFinished ==
  decoder \in {"decoded", "failed"} /\ UNCHANGED <<vars, decoderVars>>

DecoderNext ==
  \/ BuildIndex \/ NoIndex \/ StartDecoding
  \/ ReadFails \/ ReadPayload
  \/ SkipStream \/ StreamFails \/ DecodeStream
  \/ NextKind \/ NextPayload \/ FinishDecoding
  \/ DecodingFinished

DecoderSpec == DecoderInit /\ [][DecoderNext]_<<vars, decoderVars>>
-----------------------------------------------------------------------------
(* Properties.                                                             *)

\* A sample lies in the time of its payload: at its beginning or behind it, and
\* before the next payload begins (telemetry_decoder.cc:79-87, 115-123).
InItsPayload ==
  \A k \in Kinds : \A j \in 1 .. Len(telemetry[k]) :
    LET sample == telemetry[k][j]
        p == payloads[sample.payload]
        begin == p.start_time_units * Resolution
        end == begin + p.duration_units * Resolution
    IN \/ sample.time \in begin .. end - 1
       \/ sample.time = begin /\ p.duration_units = 0

\* With at most one stream of a kind in each payload, as cameras write them,
\* the samples of the kind are in order, and are so strictly where payloads
\* take time: what joining the chapters asks of each of them (run.cc:102-107).
Nonempty(p, k) ==
  {s \in 1 .. Len(contents[p][k]) : contents[p][k][s].samples > 0}

OneStream(k) ==
  \A p \in 1 .. Len(contents) : \A r, s \in Nonempty(p, k) : r = s

InOrder ==
  \A k \in Kinds :
    OneStream(k) =>
      \A j \in 2 .. Len(telemetry[k]) :
        LET before == telemetry[k][j - 1] sample == telemetry[k][j]
        IN /\ before.time <= sample.time
           /\ before.time = sample.time =>
                payloads[before.payload].duration_units = 0

\* What is returned has each sample of each stream of each payload once, in the
\* order of the file, and nothing else (telemetry_decoder.cc:174-221).
IsFrom(entry, p, s, n) ==
  entry.payload = p /\ entry.stream = s /\ entry.number = n

Exists(entry, k) ==
  /\ entry.payload \in 1 .. Len(contents)
  /\ entry.stream \in 1 .. Len(contents[entry.payload][k])
  /\ entry.number \in 1 .. contents[entry.payload][k][entry.stream].samples

Precedes(a, b) ==
  \/ a.payload < b.payload
  \/ a.payload = b.payload /\ a.stream < b.stream
  \/ a.payload = b.payload /\ a.stream = b.stream /\ a.number < b.number

AllDecoded ==
  \A k \in Kinds :
    /\ decoder = "decoded" =>
         \A p \in 1 .. Len(payloads) : \A s \in 1 .. Len(contents[p][k]) :
           \A n \in 1 .. contents[p][k][s].samples :
             \E j \in 1 .. Len(telemetry[k]) : IsFrom(telemetry[k][j], p, s, n)
    /\ \A j \in 1 .. Len(telemetry[k]) :
         /\ Exists(telemetry[k][j], k)
         /\ \A h \in 1 .. j - 1 : Precedes(telemetry[k][h], telemetry[k][j])
=============================================================================
