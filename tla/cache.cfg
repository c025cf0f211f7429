SPECIFICATION Spec
CONSTANTS
  Vars <- MCVars
  N = 5
  Rules <- DenseTrace
  Proc = {p1, p2}
  Levels <- TwoLevels
  Spans <- TwoTreesOf5
  Targets <- InsideOf5
  BufferSize = 2
  Batch = 5
SYMMETRY Processes
INVARIANTS
  CacheSound
  AnswerSound
  BufferedOnce
  CacheClosed
  BuiltIsCached
