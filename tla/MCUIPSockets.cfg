\* Two connections and any allocation may fail; remotes close and time out but never reset.
CONSTANTS
  UIP_CONNS = 2
  UIP_SOCKET_NUMPACKETS = 1
  UIP_TCP_MSS = 2
  UIP_MAXRTX = 1
  UIP_MAXSYNRTX = 0
  Inbound = {i1}
  Outbound = {o1}
  ISS = 0
  SeqSize = 1
  Unit = b
  Memory = {TRUE, FALSE}
  Sent = {TRUE}
  KeepNet = FALSE
  NULL = NULL
  FlagSets = {{"SYN"}, {"ACK"}, {"SYN", "ACK"}, {"FIN", "ACK"}}
  Calls = {"connect", "accept", "stop", "read", "flush", "write"}
SPECIFICATION Spec
INVARIANTS
  TypeOK
  Association
  NoLeak
  DataFromPeer
  RemotesDistinct
  InFlightMatches
CHECK_DEADLOCK FALSE
