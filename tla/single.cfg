SPECIFICATION Spec
CONSTANTS
  Vars <- MCVars
  N = 5
  Rules <- GappedTrace
  Proc = {p1}
  Levels <- NoneOrAll
  Spans <- Window
  Targets <- Window
  BufferSize = 2
  Batch = 3
INVARIANTS
  TypeOK
  FramesOverlapTarget
  DepthLogarithmic
  QueryReadOnly
  IInv
