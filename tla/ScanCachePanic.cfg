CONSTANTS
  arc = arc
  doc = doc
  pic = pic
  m1 = m1
  m2 = m2
  p1 = p1
  p2 = p2
  z1 = z1
  z2 = z2
  None = None
  Files <- ThreeFiles
  Archives <- OneArchive
  HugeThres = 0
  Members <- TwoMembers
  Contents <- FourContents
  Possible <- OnlyArchives
  SizeOf <- OtherLengths
  Holds <- ArchiveHolds
  ScanMin = 0
  ScanMax = 2
  MaxTime = 1
  MaxRuns = 1

SPECIFICATION Spec
CHECK_DEADLOCK FALSE

INVARIANTS
  NoPanic
