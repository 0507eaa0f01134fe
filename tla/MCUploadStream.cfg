\* A buffer that is no multiple of a partition, and longer than two: partitions
\* begin and end at every place of the ring and lie across its end; a chunk may
\* fill the ring twice.  A stored file is the end.
CONSTANTS
  BufferLimit = 7
  SimpleLimit = 4
  PartLimit = 3
  FileLimit = 45
  MaxChunk = 13
SPECIFICATION FairSpec
INVARIANTS
  StoredInOrder
  ResolvedIsWhole
  ChecksumsHold
PROPERTY UploadEnds
CHECK_DEADLOCK FALSE
