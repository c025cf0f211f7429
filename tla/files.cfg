SPECIFICATION Spec
CONSTANTS
  BUFFER_SIZE = 2
  MaxFrames <- SomeFrames
INVARIANTS
  TypeOK
  ReadsPrefix
  WholeWhenClosed
PROPERTY ReadingEnds
