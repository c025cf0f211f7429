SPECIFICATION Spec
CONSTANTS
  Vars <- MCVars
  N = 4
  Rules <- EmptyingTrace
  Proc = {p1}
  Levels <- NoneOrAll
  Spans <- Window
  Targets <- Window
  BufferSize = 2
  Batch = 4
INVARIANT QueriesAnswered
