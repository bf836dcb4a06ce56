SPECIFICATION Spec
CONSTANTS
  Programs <- NestedPrograms
  MaxDepth = 4
CHECK_DEADLOCK FALSE
INVARIANTS
  OnlyOuterLoopsFail
  SlotsApart
  CodeUnderItsLabel
  LoadsReachTheirVariable
  ArraysCarryTheirDims
