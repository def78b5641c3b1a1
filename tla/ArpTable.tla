------------------------------ MODULE ArpTable ------------------------------
(***************************************************************************)
(* The way of a frame between the Ethernet and IP: the ARP table of        *)
(* utility/uip_arp.c, the part of UIPEthernetClass::tick() that hands a    *)
(* received frame to ARP or IP, the validation of IP headers and the echo  *)
(* of ICMP in uip_process(), and uip_arp_out() for whatever is sent.       *)
(*                                                                         *)
(* What TCP and UDP send, and when, is arbitrary here.                     *)
(***************************************************************************)
EXTENDS Integers, FiniteSets

CONSTANTS
  UIP_ARPTAB_SIZE, UIP_ARP_MAXAGE,
  TimeSize,       \* arptime counts modulo this (256 in the code)
  IPAddr,
  ZERO, ALLONES,  \* 0.0.0.0 and 255.255.255.255
  ZeroHalf,       \* addresses one or both of whose 16-bit halves are 0
  Hosts, Targets, \* addresses frames come from, and are meant for
  MacAddr, NoMac, BroadcastMac,
  Configs,        \* settings: [host, router, local], local: what the netmask covers
  NULL

ASSUME ArpAssumption ==
  /\ UIP_ARPTAB_SIZE \in Nat \ {0}
  /\ TimeSize \in Nat \ {0}
  /\ UIP_ARP_MAXAGE \in Nat \ {0}
  /\ ZERO \in ZeroHalf /\ ZeroHalf \subseteq IPAddr /\ Hosts \cup Targets \subseteq IPAddr
  /\ ALLONES \in IPAddr /\ ALLONES \notin Hosts
  /\ NoMac \notin MacAddr
  /\ Configs \subseteq [host : IPAddr, router : IPAddr, local : SUBSET IPAddr]

Entries == 0 .. UIP_ARPTAB_SIZE - 1

VARIABLES
  arp_table,  \* entry -> [ip, mac, time]
  arptime,
  config,     \* uip_hostaddr, uip_draddr and uip_netmask
  out,        \* the frame network_send got from the last step, or NULL
  heard       \* history: the binding the last frame told of each address

vars == <<arp_table, arptime, config, out, heard>>

\* Static memory is 0: no address, no router, and a netmask every address is in.
Unconfigured == [host |-> ZERO, router |-> ZERO, local |-> IPAddr]

\* An unused entry is one with address 0.  Its time is never read; its Ethernet
\* address, whatever it was, is read only for a frame to 0.0.0.0.
Empty == [ip |-> ZERO, mac |-> NoMac, time |-> 0]

Init ==
  /\ arp_table = [i \in Entries |-> Empty]
  /\ arptime = 0
  /\ config = Unconfigured
  /\ out = NULL
  /\ heard = [a \in IPAddr \ ZeroHalf |-> NoMac]

-----------------------------------------------------------------------------
(* The table *)

IsFirst(i, S) == i \in S /\ \A j \in S : i <= j

Matching(table, ip) == {i \in Entries : table[i].ip = ip}

\* Bug: an entry in use is not looked for, only a free one.
NeverKnown(ip) == {}

\* The entries with that address among those the code takes to be in use: an
\* entry with a half of 0 is none of them.
Known(ip) == IF ip \in ZeroHalf THEN {} ELSE Matching(arp_table, ip)

\* Bug: the search for an unused entry stops one short.
UnusedButLast == {i \in Entries : i # UIP_ARPTAB_SIZE - 1 /\ arp_table[i].ip = ZERO}

Unused == {i \in Entries : arp_table[i].ip = ZERO}

\* Computed in int from two bytes, so negative when arptime has wrapped.
Age(i) == arptime - arp_table[i].time

\* The entry to evict: the first of the largest age, or the first one of the
\* table if none is older than now.
IsOldest(i) ==
  \/ Age(i) > 0 /\ \A j \in Entries : Age(j) < Age(i) \/ (Age(j) = Age(i) /\ i <= j)
  \/ i = 0 /\ \A j \in Entries : Age(j) <= 0

\* The entry uip_arp_update() fills.
IsSlot(i, ip) ==
  \/ IsFirst(i, Known(ip))
  \/ Known(ip) = {} /\ IsFirst(i, Unused)
  \/ Known(ip) = {} /\ Unused = {} /\ IsOldest(i)

\* Bug: a known entry is refreshed, but keeps its Ethernet address.
FilledTimeOnly(i, ip, mac) ==
  [arp_table EXCEPT ![i] =
     IF ip = ZERO THEN Empty
     ELSE [ip |-> ip, mac |-> IF i \in Known(ip) THEN @.mac ELSE mac, time |-> arptime]]

Filled(i, ip, mac) ==
  [arp_table EXCEPT ![i] =
     IF ip = ZERO THEN Empty ELSE [ip |-> ip, mac |-> mac, time |-> arptime]]

uip_arp_update(ip, mac) ==
  /\ \E i \in Entries : IsSlot(i, ip) /\ arp_table' = Filled(i, ip, mac)
  /\ heard' = [heard EXCEPT ![ip] = mac]

\* Flushes what has reached the maximum age.  Nothing calls it, so that time
\* stands still in the program; here it may be called at any time or never.
uip_arp_timer ==
  /\ arptime' = (arptime + 1) % TimeSize
  /\ arp_table' = [i \in Entries |->
       IF arp_table[i].ip # ZERO /\ arptime' - arp_table[i].time >= UIP_ARP_MAXAGE
         THEN Empty
         ELSE arp_table[i]]
  /\ out' = NULL
  /\ UNCHANGED <<config, heard>>

-----------------------------------------------------------------------------
(* Frames that leave *)

IpOut(mac) == [type |-> "ip", mac |-> mac]
ArpRequest(target) == [type |-> "arp_request", mac |-> BroadcastMac, ip |-> target]
ArpReply(mac) == [type |-> "arp_reply", mac |-> mac]

\* Bug: the router is asked for local addresses too.
NextHopRouter(dst) == config.router

NextHop(dst) == IF dst \in config.local THEN dst ELSE config.router

\* A frame for dst: addressed by the table, or replaced by a request.
uip_arp_out(table, dst) ==
  \/ dst = ALLONES /\ out' = IpOut(BroadcastMac)
  \/ /\ dst # ALLONES
     /\ \E i \in Entries :
          IsFirst(i, Matching(table, NextHop(dst))) /\ out' = IpOut(table[i].mac)
  \/ /\ dst # ALLONES
     /\ Matching(table, NextHop(dst)) = {}
     /\ out' = ArpRequest(NextHop(dst))

-----------------------------------------------------------------------------
(* Frames that arrive *)

ArpFrames == [op : {"request", "reply"}, sip : Hosts, smac : MacAddr, dip : Targets \ {ALLONES}]

\* defect: what is wrong with the header, if anything.  A frame with a bad
\* header or checksum, or of another protocol, is dropped whatever its protocol
\* is, except that a UDP broadcast escapes the checksum.
IpFrames ==
  {f \in [src : Hosts, smac : MacAddr, dst : Targets \ {ZERO}, proto : {"tcp", "udp", "echo"},
          defect : {"none", "header", "chksum"}] :
     /\ f.defect = "chksum" => f.proto = "udp"
     /\ f.defect = "header" => f.proto = "tcp"}

\* tick() with an ARP frame.  Before there is an address, ours is 0.0.0.0.
uip_arp_arpin(f) ==
  /\ \/ /\ f.dip = config.host
        /\ uip_arp_update(f.sip, f.smac)
        /\ out' = IF f.op = "request" THEN ArpReply(f.smac) ELSE NULL
     \/ /\ f.dip # config.host
        /\ out' = NULL
        /\ UNCHANGED <<arp_table, heard>>
  /\ UNCHANGED <<arptime, config>>

\* Only senders of the local network are entered, valid or not, for us or not.
uip_arp_ipin(f) ==
  \/ f.src \in config.local /\ uip_arp_update(f.src, f.smac)
  \/ f.src \notin config.local /\ UNCHANGED <<arp_table, heard>>

\* The header checks of uip_process(): version, length and fragments first,
\* then the destination, then the checksum, which a broadcast escapes.
Accepted(f) ==
  /\ f.defect # "header"
  /\ \/ config.host # ZERO /\ f.proto = "udp" /\ f.dst = ALLONES
     \/ config.host \in {ZERO, f.dst} /\ f.defect = "none"

\* The ICMP part of uip_process(): an echo is sent back to where it came from.
IsEcho(f) == Accepted(f) /\ f.proto = "echo"

\* tick() with an IP frame: TCP may answer, an echo is answered, UDP is not.
uip_input(f) ==
  /\ uip_arp_ipin(f)
  /\ \/ /\ IsEcho(f) \/ (Accepted(f) /\ f.proto = "tcp")
        /\ uip_arp_out(arp_table', f.src)
     \/ ~IsEcho(f) /\ out' = NULL
  /\ UNCHANGED <<arptime, config>>

-----------------------------------------------------------------------------
(* The rest of the program *)

\* A frame of TCP's timers or of UDP.
Send(dst) ==
  /\ uip_arp_out(arp_table, dst)
  /\ UNCHANGED <<arp_table, arptime, config, heard>>

\* configure(), by begin() or by maintain() after a renewal.
configure(c) ==
  /\ config' = c
  /\ out' = NULL
  /\ UNCHANGED <<arp_table, arptime, heard>>

\* init() of another begin().
uip_arp_init ==
  /\ arp_table' = [i \in Entries |-> Empty]
  /\ out' = NULL
  /\ UNCHANGED <<arptime, config, heard>>

Next ==
  \/ \E f \in ArpFrames : uip_arp_arpin(f)
  \/ \E f \in IpFrames : uip_input(f)
  \/ \E dst \in (Hosts \cup {ALLONES}) \ {ZERO} : Send(dst)
  \/ \E c \in Configs : configure(c)
  \/ uip_arp_init
  \/ uip_arp_timer

Spec == Init /\ [][Next]_vars
-----------------------------------------------------------------------------
(* Properties *)

\* Every variable has its type; time is a byte, and what is sent has a destination.
TypeOK ==
  /\ arp_table \in [Entries -> [ip : IPAddr, mac : MacAddr \cup {NoMac}, time : 0 .. TimeSize - 1]]
  /\ arptime \in 0 .. TimeSize - 1
  /\ config \in [host : IPAddr, router : IPAddr, local : SUBSET IPAddr]
  /\ heard \in [IPAddr \ ZeroHalf -> MacAddr \cup {NoMac}]

\* No address has two entries, whatever was learned, evicted, flushed and
\* learned again (the loops of uip_arp_update, uip_arp.c:164-195).
OneEntry ==
  \A i, j \in Entries :
    arp_table[i].ip = arp_table[j].ip /\ arp_table[i].ip \notin ZeroHalf => i = j

\* An entry in use holds what the last frame told of its address: a lookup
\* finds this or nothing (uip_arp.c:380-385).
HitIsLatest ==
  \A i \in Entries :
    arp_table[i].ip \notin ZeroHalf => arp_table[i].mac = heard[arp_table[i].ip]

\* A ping from a host to us.
EchoRequest(s, m) ==
  [src |-> s, smac |-> m, dst |-> config.host, proto |-> "echo", defect |-> "none"]

\* The answer to a host of the local network goes straight back to where its
\* frame came from; it is never replaced by a request (UIPEthernet.cpp:191-196).
LocalReplyDirect ==
  [][out' # NULL => \A s \in (Hosts \cap config.local) \ ZeroHalf, m \in MacAddr :
       uip_input(EchoRequest(s, m)) => out' = IpOut(m)]_vars

-----------------------------------------------------------------------------
(* The cache this table implements *)

CacheOf(table) ==
  [a \in IPAddr |->
     IF a \in ZeroHalf \/ Matching(table, a) = {} THEN NoMac
     ELSE table[CHOOSE i \in Entries : IsFirst(i, Matching(table, a))].mac]

Cache == INSTANCE ArpCache WITH cache <- CacheOf(arp_table), Capacity <- UIP_ARPTAB_SIZE

\* The table is a cache of the latest bindings that forgets only by age, by a
\* restart, or one entry for another when it is full (uip_arp.c:188-211).
Implements == Cache!CacheSpec
=============================================================================
