CONSTANTS
  Alg <- MCAlg
  SigLen <- MCSigLen
  Signer <- MCSigner
  KeyLen <- MCKeyLen
  Vendor = "vendor"
  Minor <- MCMinor
  Body = {"b1", "b2"}
  Host <- MCHost
  MaxHost = 2
  Images <- TailImage
  WithOpenSSL = TRUE
  Null = Null
SPECIFICATION Spec
INVARIANT
  PassthroughWorks
