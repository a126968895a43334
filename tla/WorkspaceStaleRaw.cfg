CONSTANTS
  a = a
  b = b
  Cut = Cut
  Null = Null
  Content <- MCContent
  Codec <- MCCodec
  Lenient <- MCLenient
  CodecText <- MCCodecText
  Beginnings <- MCBeginnings
  MtkName <- MCMtkName
  NumComp = 2
  Coded = {1, 2}
  Images <- FailImages
  UserActs = {"content"}
  Faults = {}
SPECIFICATION Spec
INVARIANT ReplayMatchesFile
