\* Two servers and what they may send, with leases of 10 s to be renewed after 5 s,
\* and a clock of half seconds that overflows every 11 s.
CONSTANTS
  s1 = s1
  s2 = s2
  Servers <- MCServers
  LeaseTimes = {10}
  T1Options = {0}
  T2Options = {6}
  Xids = {1}
  Sockets = {TRUE, FALSE}
  SECOND = 2
  WRAP = 22
  Timeout = 1
  ResponseTimeout = 0
  MaxGap = 3
  RefusalBound = 1
  DEFAULT_LEASE = 6
  BROADCAST = BROADCAST
  NULL = NULL
SPECIFICATION Spec
INVARIANTS
  TypeOK
  LeaseIsGranted
  RenewalAsksGranter
  RenewalBeforeExpiry
  CallBounded
SYMMETRY Renaming
