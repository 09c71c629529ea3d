\* Three slots and write calls of up to four bytes.
CONSTANTS
  Capacity = 3
  MaxChunk = 4
  Byte <- MCBytes
  Chunks <- MCChunks
SPECIFICATION Spec
INVARIANT TypeOK
PROPERTY ImplementsWindow
