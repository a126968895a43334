CONSTANTS
  a = a
  b = b
  Cut = Cut
  Null = Null
  Content <- MCContent
  Codec <- MCCodec
  Lenient <- MCLenient
  CodecText <- MCCodecText
  Beginnings <- MCBeginnings
  MtkName <- MCMtkName
  NumComp = 2
  Coded = {1}
  Images <- ThreeImages
  UserActs = {"content", "compression", "mtk_name", "drop", "delete", "rm_raw"}
  Faults = {"kill", "abort"}
SPECIFICATION Spec
INVARIANTS
  EditsReachOutput
  SuccessMeansUnpacked
PROPERTY ImplementsSession
