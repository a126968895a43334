CONSTANTS
  a = a
  b = b
  Cut = Cut
  Null = Null
  Content <- MCContent
  Codec <- MCCodec
  Lenient <- MCLenient
  CodecText <- MCCodecText
  Beginnings <- MCBeginnings
  MtkName <- MCMtkName
  NumComp = 2
  Coded = {1}
  Images <- AllImages
  UserActs = {"content", "mtk_name", "drop"}
  Faults = {"kill", "abort", "silent"}
SPECIFICATION Spec
INVARIANTS
  TypeOK
  UntouchedVerbatim
  RoundTrip
  EditsReachOutput
  OutputFollowsManifest
  ManifestNamesExistingFiles
