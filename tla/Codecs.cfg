CONSTANTS
  x = x
  y = y
  Zero = Zero
  Byte <- MCByte
  Contents <- MCContents
  WordLen = 2
  BlockLen = 2
  PieceLen = 3
  ChunkLen = 2
  FirstLen = 2
  Factor = 2
  Width = 16
  Wild = 99
SPECIFICATION Spec
INVARIANTS
  TypeOK
  NothingForeign
  PartOnlyIfLenient
  RefusedForCause
PROPERTY DecodeEnds
