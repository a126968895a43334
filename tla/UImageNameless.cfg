CONSTANTS
  x = x
  y = y
  Zero = Zero
  Blank = Blank
  Break = Break
  Mark = Mark
  Fill = Fill
  Null = Null
  Unset = Unset
  Malformed = Malformed
  Invalid = Invalid
  Unknown = Unknown
  NoCrc = NoCrc
  NoWrap = NoWrap
  Byte <- MCByte
  BootHeaderLen <- MCHeaderLen
  FixedPage = 3
  DefaultPage = 2
  NameLen = 2
  ArgsLen = 2
  ExtraLen = 2
  FieldBase = 4
  MonthBase = 4
  BaseYear = 20
  TableLen = 2
  RowLen = 2
  FdtLen = 2
  UImageLen = 2
  UImageNameLen = 2
  DhtbLen = 2
  Files <- Ppc
  Reference <- Ppc
  Data <- MCData
  Text <- MCText
  Os <- MCOs
  Page <- MCPage
  Attr <- MCAttr
  Tree <- MCTree
  Wraps <- MCWraps
  MaxEdits = 0
SPECIFICATION Spec
INVARIANT AttrsKept
