SPECIFICATION Spec
CONSTANT Builds <- MCBuilds
CHECK_DEADLOCK FALSE
INVARIANTS
  NumbersHitTheirLine
  ImportsFindTheirVariable
  CallsMatchSignatures
