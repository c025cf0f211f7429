SPECIFICATION Spec
CONSTANTS
  Path = {"a.db", "b.db"}
  Name = {"sample1", "sample2", "typo"}
  Loaded <- TwoFiles
  Sizes = {0, 1, 2}
  Levels = {1}
  Limits = {0, 17}
INVARIANTS
  TypeOK
  OneTrace
  DbFollowsPath
  SpanInTrace
  PreparedIsBuilt
