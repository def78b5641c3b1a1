\* A table smaller than the number of hosts, so that entries are evicted.
CONSTANTS
  UIP_ARPTAB_SIZE = 2
  UIP_ARP_MAXAGE = 2
  TimeSize = 3
  ZERO = ZERO
  ALLONES = ALLONES
  me = me
  r = r
  a = a
  b = b
  IPAddr <- MCIPAddr
  Hosts <- MCHosts
  Targets <- MCTargets
  ZeroHalf = {ZERO}
  MacAddr = {m1, m2}
  NoMac = NoMac
  BroadcastMac = BroadcastMac
  Configs <- MCConfigs
  NULL = NULL
SYMMETRY Renaming
SPECIFICATION Spec
INVARIANTS
  OneEntry
  HitIsLatest
PROPERTIES
  LocalReplyDirect
  Implements
