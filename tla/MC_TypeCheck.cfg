SPECIFICATION Spec
CONSTANT Programs <- MCPrograms
CHECK_DEADLOCK FALSE
INVARIANTS
  AcceptsOnlyWellTyped
  RejectsOnlyErrors
  AnnotationsRight
  NamesHaveTheirTypes
