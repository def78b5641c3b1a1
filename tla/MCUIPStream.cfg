\* The whole life of a connection; SeqSize makes sequence numbers wrap.
CONSTANTS
  UIP_CONNS = 1
  UIP_SOCKET_NUMPACKETS = 2
  UIP_TCP_MSS = 2
  UIP_MAXRTX = 1
  UIP_MAXSYNRTX = 1
  Inbound = {i1}
  Outbound = {o1}
  ISS = 6
  PeerISS = 5
  SeqSize = 8
  Unit = Unit
  Memory = {TRUE}
  Sent = {TRUE}
  KeepNet = TRUE
  NULL = NULL
  PeerLen = 5
  SketchLen = 4
  WriteSizes = {1, 3}
  ReadSizes = {1, 3}
  Windows = {2}
  PeerCloses = TRUE
SPECIFICATION FairSpec
INVARIANTS
  ReadsPeerStream
  AckedIsStored
  StoppedForReason
PROPERTIES
  StoppedRestarts
  WriteReturns
CHECK_DEADLOCK FALSE
