CONSTANTS
  None = None
  x = x
  y = y
  s = s
  Hash <- MCHash
  Places <- MCPlaces
  SystemList <- MCSystemList
  Unused <- MCUnused
  ChunkRoots <- MCChunkRoots
  Fixed <- MCFixed
  Pool <- MCPool
  AllChunks <- MCAllChunks
  OtherRoots <- MCOtherRoots
  Backrefs <- MCBackrefs
  FsItems <- MCFsItems
  Directories <- MCDirectories
  Given <- MCGiven
  MaxGeneration = 4
  MaxDamage = 1
SPECIFICATION Spec
INVARIANTS
  OpenedExact
  BestEffort
  SurvivesPowerLoss
  PathRoundTrip
PROPERTIES
  OpenReturns
