\* Up to three samples in up to three chunks of a file of four bytes, with two
\* rules that may be out of order, and up to two rules of times; payloads of
\* streams of up to four GPS samples, where three are the limit.
SPECIFICATION DecoderSpec
CONSTANTS
  FileSize = 4
  Tables <- MCTables
  Contents <- MCContents
  MaximumSamples = 3
  Resolution = 6
INVARIANTS
  Located
  ImplementsFormat
  InItsPayload
  InOrder
  AllDecoded
