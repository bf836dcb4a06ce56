SPECIFICATION FairSpec
CONSTANTS
  None = None
  Programs <- MCPrograms
  Envs <- MCEnvs
INVARIANTS CallsAsSource EndsAsSource OperandsReady OnlyNestedNodesFail
PROPERTIES Halts
CHECK_DEADLOCK FALSE
