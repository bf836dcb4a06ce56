SPECIFICATION UFFairSpec
CONSTANTS
  v1 = v1
  v2 = v2
  int = int
  bool = bool
  f1 = f1
  f2 = f2
  f0 = f0
  TypeVars = {v1, v2}
  BaseTypes = {int, bool}
  Funs = {f1, f2, f0}
  TBool = bool
  None = None
  Params <- MCParams
  Ret <- MCRet
INVARIANTS TypeOK Acyclic RigidStaysRigid AnswerIsRight Congruent
PROPERTIES RefinesPartition CallsReturn
