CONSTANTS
  N = 4
  IsZip <- HugeFirstIsZip
  Size <- HugeFirstSize
  Chunks <- HugeFirstChunks
  Threads = 2
  CacheMem = 2
  DoZips = TRUE

SPECIFICATION Spec

CHECK_DEADLOCK FALSE

PROPERTIES
  EveryCandidateSettled
