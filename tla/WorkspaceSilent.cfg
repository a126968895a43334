CONSTANTS
  a = a
  b = b
  Cut = Cut
  Null = Null
  Content <- MCContent
  Codec <- MCCodec
  Lenient <- MCLenient
  CodecText <- MCCodecText
  Beginnings <- MCBeginnings
  MtkName <- MCMtkName
  NumComp = 2
  Coded = {1}
  Images <- TwoImages
  UserActs = {}
  Faults = {"silent"}
SPECIFICATION Spec
INVARIANT SuccessMeansUnpacked
