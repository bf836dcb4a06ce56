SPECIFICATION Spec
CONSTANT Programs <- MCReturnPrograms
CHECK_DEADLOCK FALSE
INVARIANT EveryReturnChecked
