SPECIFICATION Spec
CONSTANTS
  Block = {b1, b2, b3, b4, b5, b6, b7, b8, b9, b10, b11, b12}
  Products = 3
  BufferSize = 2
VIEW View
INVARIANTS
  TypeOK
  NoRace
  NoLeak
