SPECIFICATION Spec
CONSTANTS
  a = a
  b = b
  F = F
  L = L
  Names = {a, b}
  Funs = {F, L}
  Top = Top
  None = None
  Programs <- MCPrograms
INVARIANTS BindsLexically RejectsOnlyErrors RekeyingHidesNothing 
CHECK_DEADLOCK FALSE
