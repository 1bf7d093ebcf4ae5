CONSTANTS
  arc = arc
  doc = doc
  pic = pic
  m1 = m1
  m2 = m2
  p1 = p1
  p2 = p2
  z1 = z1
  z2 = z2
  None = None
  Files <- TwoFiles
  Archives <- OneArchive
  HugeThres = 2
  Members <- TwoMembers
  Contents <- FourContents
  Possible <- PossibleContents
  SizeOf <- Lengths
  Holds <- ArchiveHolds
  ScanMin = 1
  ScanMax = 2
  MaxTime = 1
  MaxRuns = 2

SPECIFICATION Spec
CHECK_DEADLOCK FALSE

INVARIANTS
  TypeOK
  HashFresh
  CandidatesHashed
  GroupsByContent

PROPERTIES
  HashKept
