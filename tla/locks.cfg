SPECIFICATION FairSpec
CONSTANTS
  Cli = {c1}
  Worker = {w1}
  BufferSize = 2
  MaxReads = 1
  MaxStores = 3
INVARIANTS
  TypeOK
  LossIsBounded
PROPERTIES
  RefusedByOthers
  CommandsEnd
