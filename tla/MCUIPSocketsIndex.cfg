\* Two connections; the sketch reads all it gets and neither flushes nor writes.
CONSTANTS
  UIP_CONNS = 2
  UIP_SOCKET_NUMPACKETS = 2
  UIP_TCP_MSS = 1
  UIP_MAXRTX = 1
  UIP_MAXSYNRTX = 0
  Inbound = {i1}
  Outbound = {o1}
  ISS = 0
  SeqSize = 1
  Unit = b
  Memory = {TRUE}
  Sent = {TRUE}
  KeepNet = FALSE
  NULL = NULL
  FlagSets = {{"SYN"}, {"ACK"}, {"SYN", "ACK"}, {"FIN", "ACK"}}
  Calls = {"connect", "accept", "stop", "read"}
SPECIFICATION Spec
INVARIANTS
  StoppedForReason
CHECK_DEADLOCK FALSE
