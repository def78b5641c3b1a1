\* A socket that answers whoever sends to its port, and one that sends to one peer.
CONSTANTS
  server = server
  client = client
  x = x
  y = y
  Socks <- MCSocks
  UIP_UDP_CONNS = 2
  Handles = {1, 2, 3}
  NOBLOCK = NOBLOCK
  Free = Free
  Peers <- MCPeers
  ANY = ANY
  BROADCAST = BROADCAST
  Ports = {53}
  Ephemeral = {4096, 4097}
  MaxData = 2
  Padding = 1
  MaxWritten = 1
  Targets <- MCTargets
  Memory = {TRUE}
  Sent = {TRUE, FALSE}
  NULL = NULL
SPECIFICATION FairSpec
INVARIANTS
  TypeOK
  OneOwner
  SenderOfCurrent
PROPERTIES
  SentAsWritten
  SentEventually
  ResizedInside
