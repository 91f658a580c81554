SPECIFICATION Spec
CONSTANTS
  Hosts = {h1, h2}
  white = white
  whiteTop = whiteTop
  black = black
  dWhite = dWhite
  dBlack = dBlack
  Images <- MCImages
  Digests <- MCDigests
  Hash <- HashOfFirstPixel
  MaxCrashes = 1
  NoHost = NoHost
  NoImage = NoImage
  Empty = Empty
  NoDigest = NoDigest
  NoSignature = NoSignature
INVARIANT SuccessMeansSigned
CHECK_DEADLOCK FALSE
