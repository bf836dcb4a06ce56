SPECIFICATION Spec
CONSTANTS
  Ints = {0, 1, 2}
  Floats = {0, 1}
  MaxLoads = 5
INVARIANTS LoadsFindTheirConst OneLineEach
CHECK_DEADLOCK FALSE
