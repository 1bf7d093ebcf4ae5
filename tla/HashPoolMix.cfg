CONSTANTS
  N = 6
  IsZip <- MixIsZip
  Size <- MixSize
  Chunks <- MixChunks
  Threads = 3
  CacheMem = 6
  DoZips = TRUE

SPECIFICATION Spec

INVARIANTS
  TypeOK
  OneDiskReader
  MemoryBounded
  BuffersOwned
  NothingLeftBehind
  SleeperIsWoken

PROPERTIES
  HashFilesReturns
