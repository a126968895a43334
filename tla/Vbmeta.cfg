CONSTANTS
  Alg <- MCAlg
  SigLen <- MCSigLen
  Signer <- MCSigner
  KeyLen <- MCKeyLen
  Vendor = "vendor"
  Minor <- MCMinor
  Body = {"b1", "b2"}
  Host <- MCHost
  MaxHost = 3
  Images <- AllImages
  WithOpenSSL = TRUE
  Null = Null
SPECIFICATION Spec
INVARIANTS
  TypeOK
  NoStaleSignature
  UntouchedVerbatim
  RefusalJustified
  FooterInBounds
