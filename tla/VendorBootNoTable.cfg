CONSTANTS
  x = x
  y = y
  Zero = Zero
  Null = Null
  Byte <- MCByte
  Type <- MCType
  Known <- MCKnown
  HeaderLen <- MCHeaderLen
  EntryLen = 2
  DefaultPage = 2
  Files <- NoTableFile
  Data <- MCData
  Page <- MCPage
  MaxFrags = 2
  MaxLen = 2
SPECIFICATION Spec
INVARIANT ByteForByte
