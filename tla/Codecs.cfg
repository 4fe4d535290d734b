SPECIFICATION Spec
CONSTANTS
  DeflateBits = {8, 9, 15}
  Inflated = {0, 20, 70, 310}
  Deflated = {1, 14, 60, 70}
  BufMax = 400
  CompMax = 140
  ShakeBits = {15}
  MaxUses = 2
  Aligns = {8, 16}
  Addrs = {0, 1, 2, 3, 4, 5, 6, 7, 8, 9, 10, 11, 12, 13, 14, 15}
  MaxLen = 37
  MaxCalls = 2
  Bytes = {65, 127, 128, 143, 144, 159, 160, 191, 193, 194, 224, 237, 239, 240, 244, 245, 248}
  MaxString = 4
  IntBits = 16
  Chars = {"h", "8", ":", "/", "?", "#", "[", "]", "@"}
  MaxUrl = 5
  Ports = {0, 1, 65535, 65536}
  Buffers = {x, y}
  Blocks = {b1, b2, b3}
  Values = {v, w}
  MaxSize = 3
  MaxSizes = {1, 3}
  BLOCK_BYTES = 4
  LengthBytes = 2
  HashValues = {1, 2}
  MaxMessage = 9
  MaxPiece = 9
  MaxMessages = 2
SYMMETRY Symmetry
INVARIANTS
  StreamsFit InflatedWhole AcceptedIsOurs ProperIsAcceptedAtFirst
  MaskingIsRight VerdictIsRight UrlIsSplit BufferIsSound DigestIsStandard
CHECK_DEADLOCK FALSE
