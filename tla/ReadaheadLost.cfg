CONSTANTS
  N = 4
  Length <- ShortLength
  MaxOpen = 8
  BatchFiles = 2
  Block = 2
  Budgets <- OneBudget
  MaxRead = 2
  Grow = 1

SPECIFICATION Spec

INVARIANTS
  NoFileLost
