SPECIFICATION FairSpec
CONSTANTS
  Vars <- MCVars
  N = 4
  Rules <- ShortTrace
  Proc = {p1, p2}
  Levels <- StoreAll
  Spans <- TwoTreesOf4
  Targets <- InsideOf4
  BufferSize = 2
  Batch = 4
PROPERTIES
  ImplementsService
  CallsReturn
