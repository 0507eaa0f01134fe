SPECIFICATION StoragesSpec
CONSTANTS
  StoredFile = {f1, f2, f3}
  CountLimit = 2
  MaxFailures = 3
  SizeLimit = 96
  ChunkLengths = {12, 16, 40}
  MaxParts = 3
INVARIANTS FilesAreKept NothingLeftOver
SYMMETRY Symmetry
CHECK_DEADLOCK FALSE
