--------------------------- MODULE ArpTableProofs ---------------------------
(***************************************************************************)
(* The invariants of ArpTable for every table size, set of addresses and   *)
(* setting of the network.                                                 *)
(***************************************************************************)
EXTENDS ArpTable, FiniteSetTheorems, TLAPS

\* What the table looks like after a binding was entered.
LEMMA UpdateInvariant ==
  ASSUME TypeOK, OneEntry, HitIsLatest,
         NEW ip \in IPAddr, NEW mac \in MacAddr, uip_arp_update(ip, mac)
  PROVE  /\ arp_table' \in [Entries -> [ip : IPAddr, mac : MacAddr \cup {NoMac}, time : 0 .. TimeSize - 1]]
         /\ heard' \in [IPAddr \ ZeroHalf -> MacAddr \cup {NoMac}]
         /\ OneEntry' /\ HitIsLatest'
<1> USE ArpAssumption
<1>1. PICK i \in Entries : IsSlot(i, ip) /\ arp_table' = Filled(i, ip, mac)
  BY DEF uip_arp_update
<1>2. heard' = [heard EXCEPT ![ip] = mac]
  BY DEF uip_arp_update
<1>3. arp_table' \in [Entries -> [ip : IPAddr, mac : MacAddr \cup {NoMac}, time : 0 .. TimeSize - 1]]
  BY <1>1 DEF TypeOK, Filled, Empty
<1>4. heard' \in [IPAddr \ ZeroHalf -> MacAddr \cup {NoMac}]
  BY <1>2 DEF TypeOK
<1>5. /\ arp_table'[i].ip = ip
      /\ ip \notin ZeroHalf => arp_table'[i].mac = mac
      /\ \A j \in Entries \ {i} : arp_table'[j] = arp_table[j]
  BY <1>1 DEF TypeOK, Filled, Empty
<1>6. ip \notin ZeroHalf => \A j \in Entries \ {i} : arp_table[j].ip # ip
  <2> SUFFICES ASSUME ip \notin ZeroHalf, NEW j \in Entries, arp_table[j].ip = ip
               PROVE  j = i
    OBVIOUS
  <2>1. j \in Known(ip)
    BY DEF Known, Matching
  <2>2. i \in Known(ip)
    BY <1>1, <2>1 DEF IsSlot, IsFirst
  <2> QED BY <2>1, <2>2 DEF Known, Matching, OneEntry
<1>7. OneEntry'
  BY <1>5, <1>6 DEF OneEntry
<1>8. HitIsLatest'
  <2> SUFFICES ASSUME NEW j \in Entries, arp_table'[j].ip \notin ZeroHalf
               PROVE  arp_table'[j].mac = heard'[arp_table'[j].ip]
    BY DEF HitIsLatest
  <2>1. CASE j = i
    BY <1>2, <1>5, <2>1 DEF TypeOK
  <2>2. CASE j # i
    <3>1. arp_table'[j] = arp_table[j] /\ arp_table[j].ip \in IPAddr \ ZeroHalf
      BY <1>5, <2>2 DEF TypeOK
    <3>2. arp_table[j].ip # ip
      BY <1>6, <2>2, <3>1
    <3>3. heard'[arp_table[j].ip] = heard[arp_table[j].ip]
      BY <1>2, <3>1, <3>2 DEF TypeOK
    <3> QED BY <3>1, <3>3 DEF HitIsLatest
  <2> QED BY <2>1, <2>2
<1> QED BY <1>3, <1>4, <1>7, <1>8

\* Entries that are emptied leave the others as they are.
LEMMA FlushInvariant ==
  ASSUME TypeOK, OneEntry, HitIsLatest,
         DOMAIN arp_table' = Entries, arp_table' = [i \in Entries |-> arp_table'[i]],
         \A i \in Entries : arp_table'[i] \in {arp_table[i], Empty},
         UNCHANGED heard
  PROVE  /\ arp_table' \in [Entries -> [ip : IPAddr, mac : MacAddr \cup {NoMac}, time : 0 .. TimeSize - 1]]
         /\ OneEntry' /\ HitIsLatest'
<1> USE ArpAssumption
<1>1. arp_table' \in [Entries -> [ip : IPAddr, mac : MacAddr \cup {NoMac}, time : 0 .. TimeSize - 1]]
  BY DEF TypeOK, Empty
<1>2. \A i \in Entries : arp_table'[i].ip \notin ZeroHalf => arp_table'[i] = arp_table[i]
  BY DEF Empty
<1>3. OneEntry'
  BY <1>2 DEF OneEntry
<1>4. HitIsLatest'
  BY <1>2 DEF HitIsLatest
<1> QED BY <1>1, <1>3, <1>4

IInv == TypeOK /\ OneEntry /\ HitIsLatest

\* Initially nothing is in use.
LEMMA InitInvariant == Init => IInv
BY ArpAssumption DEF Init, IInv, TypeOK, OneEntry, HitIsLatest, Empty, Unconfigured

\* No step of the program breaks the invariant.
LEMMA StepInvariant == IInv /\ [Next]_vars => IInv'
<1> SUFFICES ASSUME IInv, [Next]_vars PROVE IInv'
  OBVIOUS
<1> USE ArpAssumption DEF IInv
<1>1. ASSUME NEW f \in ArpFrames, uip_arp_arpin(f) PROVE IInv'
  <2>1. f.sip \in IPAddr /\ f.smac \in MacAddr
    BY <1>1 DEF ArpFrames
  <2>2. CASE uip_arp_update(f.sip, f.smac)
    BY <1>1, <2>1, <2>2, UpdateInvariant DEF uip_arp_arpin, TypeOK
  <2>3. CASE UNCHANGED <<arp_table, heard>>
    BY <1>1, <2>3 DEF uip_arp_arpin, TypeOK, OneEntry, HitIsLatest
  <2> QED BY <1>1, <2>2, <2>3 DEF uip_arp_arpin
<1>2. ASSUME NEW f \in IpFrames, uip_input(f) PROVE IInv'
  <2>1. f.src \in IPAddr /\ f.smac \in MacAddr
    BY <1>2 DEF IpFrames
  <2>2. CASE uip_arp_update(f.src, f.smac)
    BY <1>2, <2>1, <2>2, UpdateInvariant DEF uip_input, TypeOK
  <2>3. CASE UNCHANGED <<arp_table, heard>>
    BY <1>2, <2>3 DEF uip_input, TypeOK, OneEntry, HitIsLatest
  <2> QED BY <1>2, <2>2, <2>3 DEF uip_input, uip_arp_ipin
<1>3. ASSUME NEW dst \in (Hosts \cup {ALLONES}) \ {ZERO}, Send(dst) PROVE IInv'
  BY <1>3 DEF Send, TypeOK, OneEntry, HitIsLatest
<1>4. ASSUME NEW c \in Configs, configure(c) PROVE IInv'
  BY <1>4 DEF configure, TypeOK, OneEntry, HitIsLatest
<1>5. CASE uip_arp_init
  <2>1. \A i \in Entries : arp_table'[i] \in {arp_table[i], Empty}
    BY <1>5 DEF uip_arp_init
  <2> QED BY <1>5, <2>1, FlushInvariant DEF uip_arp_init, TypeOK
<1>6. CASE uip_arp_timer
  <2>1. \A i \in Entries : arp_table'[i] \in {arp_table[i], Empty}
    BY <1>6 DEF uip_arp_timer
  <2>2. arptime' \in 0 .. TimeSize - 1
    BY <1>6 DEF uip_arp_timer, TypeOK
  <2>3. UNCHANGED <<config, heard>> /\ arp_table' = [i \in Entries |-> arp_table'[i]]
    BY <1>6 DEF uip_arp_timer
  <2> QED BY <2>1, <2>2, <2>3, FlushInvariant DEF TypeOK
<1>7. CASE UNCHANGED vars
  BY <1>7 DEF vars, TypeOK, OneEntry, HitIsLatest
<1> QED BY <1>1, <1>2, <1>3, <1>4, <1>5, <1>6, <1>7 DEF Next

\* The three parts of the invariant need each other: an update finds the entry
\* of an address only because there is just one.
THEOREM Invariance == Spec => []IInv
<1>1. Init => IInv
  BY InitInvariant
<1>2. IInv /\ [Next]_vars => IInv'
  BY StepInvariant
<1> QED BY <1>1, <1>2, PTL DEF Spec

\* No address ever has two entries.
THEOREM Unique == Spec => []OneEntry
<1>1. IInv => OneEntry
  BY DEF IInv
<1> QED BY <1>1, Invariance, PTL

\* A lookup finds the binding heard last, or none.
THEOREM Latest == Spec => []HitIsLatest
<1>1. IInv => HitIsLatest
  BY DEF IInv
<1> QED BY <1>1, Invariance, PTL

\* A ping of a local host is answered to where it came from: its address has
\* been entered, and no other entry can be found in its place.
LEMMA EchoDirect ==
  ASSUME IInv, NEW s \in (Hosts \cap config.local) \ ZeroHalf, NEW m \in MacAddr,
         uip_input(EchoRequest(s, m))
  PROVE  out' = IpOut(m)
<1> USE ArpAssumption DEF IInv
<1>1. /\ EchoRequest(s, m).src = s /\ EchoRequest(s, m).smac = m
      /\ EchoRequest(s, m).dst = config.host /\ EchoRequest(s, m).proto = "echo"
      /\ EchoRequest(s, m).defect = "none"
  BY DEF EchoRequest
<1>2. uip_arp_update(s, m)
  BY <1>1 DEF uip_input, uip_arp_ipin
<1>3. Accepted(EchoRequest(s, m))
  BY <1>1 DEF Accepted
<1>4. uip_arp_out(arp_table', s)
  BY <1>1, <1>3 DEF uip_input, IsEcho
<1>5. PICK i \in Entries : arp_table'[i].ip = s /\ arp_table'[i].mac = m
  <2>1. PICK i \in Entries : IsSlot(i, s) /\ arp_table' = Filled(i, s, m)
    BY <1>2 DEF uip_arp_update
  <2>2. s # ZERO
    OBVIOUS
  <2> QED BY <2>1, <2>2 DEF Filled, TypeOK
<1>6. OneEntry'
  BY <1>2, UpdateInvariant
<1>7. Matching(arp_table', s) = {i}
  BY <1>5, <1>6 DEF Matching, OneEntry
<1>8. NextHop(s) = s /\ s # ALLONES
  BY DEF NextHop
<1> QED BY <1>4, <1>5, <1>7, <1>8 DEF uip_arp_out, IsFirst

\* The same for every step of the program.
THEOREM RepliesDirect == Spec => LocalReplyDirect
<1>1. IInv /\ [Next]_vars
        => [out' # NULL => \A s \in (Hosts \cap config.local) \ ZeroHalf, m \in MacAddr :
              uip_input(EchoRequest(s, m)) => out' = IpOut(m)]_vars
  BY EchoDirect
<1> QED BY <1>1, Invariance, PTL DEF Spec, LocalReplyDirect

-----------------------------------------------------------------------------
(* The refinement: the table is a cache. *)

\* No host but the one without an address (0.0.0.0) has a half of 0.  An entry
\* of such a host would take room though no lookup ever finds it, and a binding
\* would be evicted from a cache that is not full.
WholeHosts == Hosts \cap ZeroHalf \subseteq {ZERO}

\* An entry that is not free is one a lookup may find, and has an Ethernet address.
UsedIsBound ==
  \A i \in Entries : arp_table[i].ip # ZERO =>
    arp_table[i].ip \notin ZeroHalf /\ arp_table[i].mac \in MacAddr

CInv == IInv /\ UsedIsBound

\* The types of a table and the uniqueness of its entries, for any table.
Tables == [Entries -> [ip : IPAddr, mac : MacAddr \cup {NoMac}, time : 0 .. TimeSize - 1]]
OneEntryIn(table) ==
  \A i, j \in Entries : table[i].ip = table[j].ip /\ table[i].ip \notin ZeroHalf => i = j

\* What the cache of a table holds: the Ethernet address of the one entry there is.
LEMMA CacheAt ==
  ASSUME NEW table \in Tables, OneEntryIn(table)
  PROVE  /\ CacheOf(table) \in [IPAddr -> MacAddr \cup {NoMac}]
         /\ \A a \in ZeroHalf : CacheOf(table)[a] = NoMac
         /\ \A a \in IPAddr : (\A i \in Entries : table[i].ip # a) => CacheOf(table)[a] = NoMac
         /\ \A i \in Entries : table[i].ip \notin ZeroHalf =>
              CacheOf(table)[table[i].ip] = table[i].mac
<1> USE ArpAssumption
<1>1. ASSUME NEW i \in Entries, table[i].ip \notin ZeroHalf
      PROVE  CacheOf(table)[table[i].ip] = table[i].mac
  <2>1. Matching(table, table[i].ip) = {i}
    BY <1>1 DEF Matching, OneEntryIn
  <2>2. IsFirst(i, {i}) /\ \A j \in Entries : IsFirst(j, {i}) => j = i
    BY DEF IsFirst, Entries
  <2>3. (CHOOSE j \in Entries : IsFirst(j, {i})) = i
    BY <2>2
  <2>4. table[i].ip \in IPAddr
    BY DEF Tables
  <2> QED BY <1>1, <2>1, <2>3, <2>4 DEF CacheOf
<1>2. ASSUME NEW a \in IPAddr, \A i \in Entries : table[i].ip # a
      PROVE  CacheOf(table)[a] = NoMac
  BY <1>2 DEF CacheOf, Matching
<1>3. ASSUME NEW a \in ZeroHalf PROVE CacheOf(table)[a] = NoMac
  BY DEF CacheOf
<1>4. ASSUME NEW a \in IPAddr PROVE CacheOf(table)[a] \in MacAddr \cup {NoMac}
  <2>1. CASE a \in ZeroHalf
    BY <2>1, <1>3
  <2>2. CASE \A i \in Entries : table[i].ip # a
    BY <2>2, <1>2
  <2>3. CASE a \notin ZeroHalf /\ \E i \in Entries : table[i].ip = a
    BY <2>3, <1>1 DEF Tables
  <2> QED BY <2>1, <2>2, <2>3
<1>5. CacheOf(table) \in [IPAddr -> MacAddr \cup {NoMac}]
  <2>1. CacheOf(table) = [a \in IPAddr |-> CacheOf(table)[a]]
    BY DEF CacheOf
  <2> HIDE DEF CacheOf
  <2> QED BY <2>1, <1>4
<1> QED BY <1>1, <1>2, <1>3, <1>5

\* The strengthening holds at the start, and every step keeps it.
LEMMA CacheInvariant ==
  ASSUME WholeHosts
  PROVE  /\ Init => CInv
         /\ CInv /\ [Next]_vars => CInv'
<1> USE ArpAssumption
<1>1. Init => UsedIsBound
  BY DEF Init, UsedIsBound, Empty
<1>2. ASSUME CInv, [Next]_vars PROVE UsedIsBound'
  <2> USE DEF CInv, IInv
  <2>1. ASSUME NEW ip \in Hosts, NEW mac \in MacAddr, uip_arp_update(ip, mac) PROVE UsedIsBound'
    <3>1. PICK i \in Entries : arp_table' = Filled(i, ip, mac)
      BY <2>1 DEF uip_arp_update
    <3>2. ip \in ZeroHalf => ip = ZERO
      BY DEF WholeHosts
    <3> QED BY <1>2, <3>1, <3>2 DEF Filled, Empty, UsedIsBound, TypeOK
  <2>2. CASE UNCHANGED arp_table
    BY <1>2, <2>2 DEF UsedIsBound
  <2>3. CASE \A i \in Entries : arp_table'[i] \in {arp_table[i], Empty}
    BY <1>2, <2>3 DEF UsedIsBound, Empty
  <2>4. ASSUME NEW f \in ArpFrames, uip_arp_arpin(f) PROVE UsedIsBound'
    BY <2>1, <2>2, <2>4 DEF uip_arp_arpin, ArpFrames
  <2>5. ASSUME NEW f \in IpFrames, uip_input(f) PROVE UsedIsBound'
    BY <2>1, <2>2, <2>5 DEF uip_input, uip_arp_ipin, IpFrames
  <2>6. CASE uip_arp_init
    BY <2>3, <2>6 DEF uip_arp_init
  <2>7. CASE uip_arp_timer
    BY <2>3, <2>7 DEF uip_arp_timer
  <2> QED BY <1>2, <2>2, <2>4, <2>5, <2>6, <2>7 DEF Next, Send, configure, vars
<1> QED BY <1>1, <1>2, InitInvariant, StepInvariant DEF CInv
\* A table whose entries are all in use binds as many addresses as it has entries.
LEMMA FullTable ==
  ASSUME NEW table \in Tables, OneEntryIn(table),
         \A i \in Entries : table[i].ip \notin ZeroHalf /\ table[i].mac \in MacAddr
  PROVE  Cardinality({a \in IPAddr : CacheOf(table)[a] # NoMac}) = UIP_ARPTAB_SIZE
<1> USE ArpAssumption
<1> DEFINE B == {a \in IPAddr : CacheOf(table)[a] # NoMac}
           f == [i \in Entries |-> table[i].ip]
<1>1. B = {table[i].ip : i \in Entries}
  <2>1. ASSUME NEW a \in B PROVE a \in {table[i].ip : i \in Entries}
    BY CacheAt
  <2>2. ASSUME NEW i \in Entries PROVE table[i].ip \in B
    <3>1. CacheOf(table)[table[i].ip] = table[i].mac
      BY CacheAt
    <3> QED BY <3>1 DEF Tables
  <2> QED BY <2>1, <2>2
<1>2. f \in Bijection(Entries, B)
  <2>1. f \in Injection(Entries, B)
    BY <1>1 DEF OneEntryIn, Injection, IsInjective
  <2>2. f \in Surjection(Entries, B)
    BY <1>1 DEF Surjection
  <2> QED BY <2>1, <2>2 DEF Bijection
<1>3. IsFiniteSet(Entries) /\ Cardinality(Entries) = UIP_ARPTAB_SIZE
  BY FS_Interval, 0 \in Int, UIP_ARPTAB_SIZE - 1 \in Int DEF Entries
<1>4. ExistsBijection(Entries, B)
  BY <1>2 DEF ExistsBijection
<1>5. Cardinality(B) = Cardinality(Entries)
  <2> HIDE DEF B
  <2> QED BY <1>3, <1>4, FS_Bijection
<1> QED BY <1>3, <1>5

\* Entering a binding is a step of the cache: it learns the binding and loses
\* another one only if there is no free entry.
LEMMA UpdateIsLearning ==
  ASSUME WholeHosts, CInv, NEW ip \in Hosts, NEW mac \in MacAddr, uip_arp_update(ip, mac)
  PROVE  Cache!CacheNext
<1> USE ArpAssumption DEF CInv, IInv
<1>1. PICK i \in Entries : IsSlot(i, ip) /\ arp_table' = Filled(i, ip, mac)
  BY DEF uip_arp_update
<1>2. ip \in IPAddr /\ (ip \in ZeroHalf => ip = ZERO)
  BY DEF WholeHosts
<1>3. arp_table \in Tables /\ OneEntryIn(arp_table)
  BY DEF TypeOK, Tables, OneEntry, OneEntryIn
<1>4. arp_table' \in Tables /\ OneEntryIn(arp_table')
  BY <1>2, UpdateInvariant DEF Tables, OneEntry, OneEntryIn
<1> DEFINE new == CacheOf(arp_table')
           old == CacheOf(arp_table)
<1>5. /\ arp_table'[i] = IF ip = ZERO THEN Empty ELSE [ip |-> ip, mac |-> mac, time |-> arptime]
      /\ \A j \in Entries \ {i} : arp_table'[j] = arp_table[j]
  BY <1>1 DEF TypeOK, Filled
<1>6. new \in [IPAddr -> MacAddr \cup {NoMac}]
  BY <1>4, CacheAt
\* Addresses but those of the entry before and after keep their binding.
<1>7. ASSUME NEW a \in IPAddr, a # ip, a # arp_table[i].ip PROVE new[a] = old[a]
  <2>1. CASE a \in ZeroHalf
    <3>1. new[a] = NoMac
      BY <1>4, <2>1, CacheAt
    <3>2. old[a] = NoMac
      BY <1>3, <2>1, CacheAt
    <3> QED BY <3>1, <3>2
  <2>2. CASE \A j \in Entries : arp_table[j].ip # a
    <3>1. \A j \in Entries : arp_table'[j].ip # a
      BY <1>5, <1>7, <2>2 DEF Empty
    <3>2. new[a] = NoMac
      BY <1>4, <3>1, CacheAt
    <3>3. old[a] = NoMac
      BY <1>3, <2>2, CacheAt
    <3> QED BY <3>2, <3>3
  <2>3. ASSUME a \notin ZeroHalf, NEW j \in Entries, arp_table[j].ip = a PROVE new[a] = old[a]
    <3>1. arp_table'[j] = arp_table[j]
      BY <1>5, <1>7, <2>3
    <3>2. new[a] = arp_table[j].mac
      BY <1>4, <2>3, <3>1, CacheAt
    <3>3. old[a] = arp_table[j].mac
      BY <1>3, <2>3, CacheAt
    <3> QED BY <3>2, <3>3
  <2> QED BY <2>1, <2>2, <2>3
\* The evicted address is bound no longer.
<1>8. ASSUME arp_table[i].ip # ip PROVE new[arp_table[i].ip] = NoMac
  <2>1. arp_table[i].ip \in IPAddr
    BY <1>3 DEF Tables
  <2>2. CASE arp_table[i].ip \in ZeroHalf
    BY <1>4, <2>2, CacheAt
  <2>3. CASE arp_table[i].ip \notin ZeroHalf
    <3>1. \A j \in Entries : arp_table'[j].ip # arp_table[i].ip
      BY <1>3, <1>5, <1>8, <2>3 DEF OneEntryIn, Empty
    <3> HIDE DEF new
    <3>2. CacheOf(arp_table')[arp_table[i].ip] = NoMac
      BY <1>4, <2>1, <3>1, CacheAt
    <3> QED BY <3>2 DEF new
  <2> QED BY <2>2, <2>3
<1>9. CASE ip = ZERO
  <2>1. \A a \in IPAddr : new[a] \in {old[a], NoMac}
    <3> SUFFICES ASSUME NEW a \in IPAddr PROVE new[a] \in {old[a], NoMac}
      OBVIOUS
    <3>1. CASE a = ip
      BY <1>4, <1>9, <3>1, CacheAt
    <3>2. CASE a # ip /\ a = arp_table[i].ip
      BY <1>8, <3>2
    <3>3. CASE a # ip /\ a # arp_table[i].ip
      BY <1>7, <3>3
    <3> QED BY <3>1, <3>2, <3>3
  <2> HIDE DEF new, old
  <2>2. Cache!Forget
    BY <1>6, <2>1 DEF Cache!Forget, Cache!Caches, new, old
  <2> QED BY <2>2 DEF Cache!CacheNext
<1>10. CASE ip # ZERO
  <2> DEFINE lost == {b \in IPAddr \ {ip} : new[b] # old[b]}
  <2>1. arp_table'[i].ip = ip /\ arp_table'[i].mac = mac /\ ip \notin ZeroHalf
    BY <1>2, <1>5, <1>10
  <2>2. new[ip] # NoMac
    BY <1>4, <2>1, CacheAt
  <2>3. lost \subseteq {arp_table[i].ip} /\ \A b \in lost : new[b] = NoMac
    BY <1>7, <1>8
  <2>4. lost = {} \/ (lost = {arp_table[i].ip} /\ Known(ip) = {} /\ Unused = {})
    <3>1. CASE IsFirst(i, Known(ip))
      BY <2>3, <3>1 DEF IsFirst, Known, Matching
    <3>2. CASE IsFirst(i, Unused)
      <4>1. arp_table[i].ip = ZERO
        BY <3>2 DEF IsFirst, Unused
      <4>2. old[ZERO] = NoMac
        BY <1>3, CacheAt
      <4>3. new[ZERO] = NoMac
        BY <1>4, CacheAt
      <4> QED BY <2>3, <4>1, <4>2, <4>3
    <3>3. CASE Known(ip) = {} /\ Unused = {}
      BY <2>3, <3>3
    <3> QED BY <1>1, <3>1, <3>2, <3>3 DEF IsSlot
  <2>5. lost # {} => /\ old[ip] = NoMac
                     /\ Cardinality({a \in IPAddr : old[a] # NoMac}) = UIP_ARPTAB_SIZE
                     /\ Cardinality(lost) = 1
    <3> SUFFICES ASSUME lost = {arp_table[i].ip}, Known(ip) = {}, Unused = {}
                 PROVE  /\ old[ip] = NoMac
                        /\ Cardinality({a \in IPAddr : old[a] # NoMac}) = UIP_ARPTAB_SIZE
                        /\ Cardinality(lost) = 1
      BY <2>4
    <3>1. \A j \in Entries : arp_table[j].ip # ip
      BY <2>1 DEF Known, Matching
    <3>2. old[ip] = NoMac
      BY <1>2, <1>3, <3>1, CacheAt
    <3>3. \A j \in Entries : arp_table[j].ip \notin ZeroHalf /\ arp_table[j].mac \in MacAddr
      BY DEF Unused, UsedIsBound
    <3>4. Cardinality({a \in IPAddr : old[a] # NoMac}) = UIP_ARPTAB_SIZE
      BY <1>3, <3>3, FullTable
    <3>5. Cardinality(lost) = 1
      <4> HIDE DEF lost
      <4> QED BY FS_Singleton
    <3> QED BY <3>2, <3>4, <3>5
  <2>6. Cache!Learn(ip)
    <3> HIDE DEF new, old
    <3>1. lost = {} \/ ( /\ ip \notin Cache!Bound
                         /\ Cardinality(Cache!Bound) = UIP_ARPTAB_SIZE /\ Cardinality(lost) = 1)
      BY <2>5 DEF Cache!Bound, old
    <3>2. \A b \in lost : new[b] = NoMac
      BY <2>3
    <3>3. \A S : Cache!Cardinality(S) = Cardinality(S)
      BY DEF Cache!Cardinality, Cardinality, Cache!IsFiniteSet, IsFiniteSet
    <3> QED BY <1>6, <2>2, <3>1, <3>2, <3>3 DEF Cache!Learn, Cache!Caches, new, old
  <2> QED BY <1>2, <2>6 DEF Cache!CacheNext
<1> QED BY <1>9, <1>10
\* Entries that are emptied are bindings forgotten.
LEMMA FlushIsForgetting ==
  ASSUME CInv, CInv', \A i \in Entries : arp_table'[i] \in {arp_table[i], Empty}
  PROVE  Cache!CacheNext
<1> USE ArpAssumption DEF CInv, IInv
<1>1. arp_table \in Tables /\ OneEntryIn(arp_table)
  BY DEF TypeOK, Tables, OneEntry, OneEntryIn
<1>2. arp_table' \in Tables /\ OneEntryIn(arp_table')
  BY DEF TypeOK, Tables, OneEntry, OneEntryIn
<1> DEFINE new == CacheOf(arp_table')
           old == CacheOf(arp_table)
<1>3. ASSUME NEW a \in IPAddr PROVE new[a] \in {old[a], NoMac}
  <2>1. CASE a \in ZeroHalf
    BY <1>2, <2>1, CacheAt
  <2>2. CASE \A i \in Entries : arp_table'[i].ip # a
    BY <1>2, <2>2, CacheAt
  <2>3. ASSUME a \notin ZeroHalf, NEW i \in Entries, arp_table'[i].ip = a
        PROVE  new[a] \in {old[a], NoMac}
    <3>1. arp_table'[i] = arp_table[i]
      BY <2>3 DEF Empty
    <3>2. new[a] = arp_table[i].mac
      BY <1>2, <2>3, <3>1, CacheAt
    <3>3. old[a] = arp_table[i].mac
      BY <1>1, <2>3, <3>1, CacheAt
    <3> QED BY <3>2, <3>3
  <2> QED BY <2>1, <2>2, <2>3
<1>4. new \in [IPAddr -> MacAddr \cup {NoMac}]
  BY <1>2, CacheAt
<1>5. Cache!Forget
  <2> HIDE DEF new, old
  <2> QED BY <1>3, <1>4 DEF Cache!Forget, Cache!Caches, new, old
<1> QED BY <1>5 DEF Cache!CacheNext

\* Every step of the program is a step of the cache, or changes nothing in it.
LEMMA StepIsCached ==
  ASSUME WholeHosts, CInv, CInv', [Next]_vars
  PROVE  [Cache!CacheNext]_(CacheOf(arp_table))
<1>1. CASE UNCHANGED arp_table
  BY <1>1 DEF CacheOf, Matching
<1>2. ASSUME NEW f \in ArpFrames, uip_arp_arpin(f)
      PROVE  Cache!CacheNext \/ UNCHANGED arp_table
  <2>1. f.sip \in Hosts /\ f.smac \in MacAddr
    BY DEF ArpFrames
  <2> QED BY <1>2, <2>1, UpdateIsLearning DEF uip_arp_arpin
<1>3. ASSUME NEW f \in IpFrames, uip_input(f)
      PROVE  Cache!CacheNext \/ UNCHANGED arp_table
  <2>1. f.src \in Hosts /\ f.smac \in MacAddr
    BY DEF IpFrames
  <2> QED BY <1>3, <2>1, UpdateIsLearning DEF uip_input, uip_arp_ipin
<1>4. CASE uip_arp_init
  BY <1>4, FlushIsForgetting DEF uip_arp_init
<1>5. CASE uip_arp_timer
  <2>1. \A i \in Entries : arp_table'[i] \in {arp_table[i], Empty}
    BY <1>5 DEF uip_arp_timer
  <2> QED BY <2>1, FlushIsForgetting
<1> QED BY <1>1, <1>2, <1>3, <1>4, <1>5 DEF Next, Send, configure, vars

\* The table is a cache of the latest bindings of at most UIP_ARPTAB_SIZE
\* addresses: learning a binding costs another one only when it is full.
THEOREM TableImplementsCache == ASSUME WholeHosts PROVE Spec => Implements
<1>1. Init => CInv
  BY CacheInvariant
<1>2. CInv /\ [Next]_vars => CInv'
  BY CacheInvariant
<1>3. Init => Cache!CacheInit
  BY ArpAssumption DEF Init, Cache!CacheInit, CacheOf, Matching, Empty
<1>4. CInv /\ CInv' /\ [Next]_vars => [Cache!CacheNext]_(CacheOf(arp_table))
  BY StepIsCached
<1> QED BY <1>1, <1>2, <1>3, <1>4, PTL DEF Spec, Implements, Cache!CacheSpec
=============================================================================
