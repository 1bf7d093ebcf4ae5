CONSTANTS
  N = 4
  Places <- ThreePlaces
  Extents <- TwoNumbers
  Ctimes <- TwoNumbers
  Aggressive = FALSE

SPECIFICATION Spec

INVARIANTS
  OccurrencesCounted
  OnePlaceAfterwards
  SenpaiAtCommonPlace
