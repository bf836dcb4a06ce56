SPECIFICATION Spec
CONSTANTS
  None = None
  Programs <- ThreeDim
INVARIANT ElementsApart
CHECK_DEADLOCK FALSE
