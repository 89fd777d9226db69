\* The streaming parsers on small texts.  Batches of 2 where the code has 16
\* characters, 4 tokens and 8 events, a buffer of 3 for its 100.
CONSTANTS
  LongBuffer = 3
  BatchSize = 2
  TokenBatch = 2
  TargetSize = 2
  MaxNesting = 1
  Sizes = {0, 1, 2, 3}
  ChunkCases <- SmallChunkCases
  LineCases <- SmallLineCases
  BatchCases <- SmallBatchCases
  Files <- SmallFiles
SPECIFICATION Spec
INVARIANTS TypeOK SpansInOrder NothingLost Framed AnchorsStay DepthCounts CompleteAtEnd ReadsFile NeverSplits
PROPERTIES ReadingEnds
