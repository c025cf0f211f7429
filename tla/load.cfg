SPECIFICATION Spec
CONSTANTS
  Rules <- MCRules
  Traces <- LoadTraces
  Batch = 2
  Stray <- LeftBehind
  MaxRuns = 3
INVARIANTS
  TypeOK
  WholeBatches
  NamesResolve
  SyscallsApart
CHECK_DEADLOCK FALSE
