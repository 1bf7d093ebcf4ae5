CONSTANTS
  arc = arc
  doc = doc
  pic = pic
  m1 = m1
  m2 = m2
  p1 = p1
  p2 = p2
  z1 = z1
  z2 = z2
  None = None
  Files <- TwoFiles
  Archives <- OneArchive
  HugeThres = 3
  Members <- TwoMembers
  Contents <- FourContents
  Possible <- OnlyArchives
  SizeOf <- Lengths
  Holds <- ArchiveHolds
  ScanMin = 0
  ScanMax = 2
  MaxTime = 1
  MaxRuns = 3

SPECIFICATION Spec
CHECK_DEADLOCK FALSE

INVARIANTS
  NoPhantomMembers
