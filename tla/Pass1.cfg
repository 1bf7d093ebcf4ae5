CONSTANTS
  Names <- MCNames
  Dirs <- MCDirs
  Files <- MCFiles
  Links <- MCLinks
  DirPos <- MCDirPos
  FilePos <- MCFilePos
  Ino <- MCIno
  ExtentSum <- MCExtentSum
  Changing <- MCChanging
  RootLists <- MCRootLists
  Caches <- MCCaches
  BatchSize = 2
  Limit = 3
  CapMax = 3
  Mounted = TRUE
  MaxErrors = 1
  None = None

SPECIFICATION Spec

INVARIANTS
  TypeOK
  ListedOncePerRoot
  OneEntryPerPath
  Bounded

PROPERTY WalkEnds
