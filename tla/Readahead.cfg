CONSTANTS
  N = 9
  Length <- MixLength
  MaxOpen = 4
  BatchFiles = 2
  Block = 2
  Budgets <- TwoBudgets
  MaxRead = 2
  Grow = 1

SPECIFICATION Spec

INVARIANTS
  Bounded
  ReaderStaysValid

PROPERTIES
  IsQueue
  CallReturns
