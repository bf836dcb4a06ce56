SPECIFICATION Spec
CONSTANTS
  None = None
  Programs <- MCPrograms
INVARIANTS ElementsApart ElementsInPlace EvaluatedInOrder OnlyDeepLiterals
CHECK_DEADLOCK FALSE
