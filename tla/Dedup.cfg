CONSTANTS
  Ids <- SomeIds
  Workloads <- TwoWorkloads
  MaxDups = 4

SPECIFICATION Spec

INVARIANTS
  EachDupOnce
  BatchBounded
  AllAccounted
  LinkedMarked

PROPERTIES
  MarksExact
  DedupReturns
