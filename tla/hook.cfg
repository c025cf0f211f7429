SPECIFICATION Spec
CONSTANTS
  Rules <- MCRules
  Traces <- OneSyscall
  Batch = 2
  Stray = {}
  MaxRuns = 1
INVARIANT SyscallsAreHooked
CHECK_DEADLOCK FALSE
