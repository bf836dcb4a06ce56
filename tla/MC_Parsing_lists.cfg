SPECIFICATION Spec
CONSTANTS
  Roots <- AllRoots
  MaxNodes = 7
CHECK_DEADLOCK FALSE
INVARIANTS
  NoElementLost
  ListsInOrder
  StepsOfTheirLoop
