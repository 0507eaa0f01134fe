SPECIFICATION StoragesSpec
CONSTANTS
  StoredFile = {f1}
  CountLimit = 2
  MaxFailures = 2
  SizeLimit = 96
  ChunkLengths = {12, 16, 40}
  MaxParts = 3
INVARIANTS ContentIsKept
CHECK_DEADLOCK FALSE
