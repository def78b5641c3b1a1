\* A ring of 48 bytes with frames of three lengths.
CONSTANTS
  RXSTOP_INIT = 47
  Lengths = {4, 7, 12}
  Frames = {1, 2, 3, 4, 5}
  NOBLOCK = NOBLOCK
  Bytes = {0, 1, 127, 255}
  MaxPayload = 5
  Words <- MCWords
SPECIFICATION Spec
INVARIANTS
  FramesIntact
  Reclaimed
  OffByOneAtMost
  SentIsAccepted
  EchoVerifies
