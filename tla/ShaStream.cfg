CONSTANTS
  Byte <- MCByte
  Data <- MCData
  Block = 5
  LenField = 2
  MaxLen = 11
  StoreBE <- MCStoreBE
SPECIFICATION FairSpec
INVARIANTS
  TypeOK
  NoByteLost
  HashesPaddedMessage
PROPERTY CallsReturn
