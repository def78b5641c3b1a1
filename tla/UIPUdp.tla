------------------------------- MODULE UIPUdp -------------------------------
(***************************************************************************)
(* The UDP sockets of UIPUdp.cpp over the UDP connections of uip.c.        *)
(*                                                                         *)
(* A socket owns up to three blocks of the memory pool: the datagram the   *)
(* sketch reads, the one that waits behind it, and the one it writes.      *)
(* A connection has one address only: that of the last sender and that of  *)
(* the next receiver are the same field.                                   *)
(*                                                                         *)
(* Each call of the sketch begins with a tick; it is an action of its own, *)
(* or none, as a tick that finds nothing to do changes nothing.            *)
(***************************************************************************)
EXTENDS Integers, Sequences, FiniteSets

CONSTANTS
  Socks,            \* the UIPUDP objects of the sketch
  UIP_UDP_CONNS,
  Handles, NOBLOCK, \* the block descriptors, and none of them
  Free,             \* what a descriptor not in use holds
  Peers,            \* remote addresses with their ports
  ANY, BROADCAST,   \* 0.0.0.0 with port 0; 255.255.255.255 with the peers' port
  Ports, Ephemeral, \* ports a sketch binds, ports uip_udp_new chooses from
  MaxData, Padding, \* UIP_UDP_MAXDATALEN and UIP_SENDBUFFER_PADDING
  MaxWritten,       \* what a sketch writes into one datagram at most
  Targets,          \* socket -> where the sketch sends, besides answering
  Memory, Sent,     \* possible outcomes of allocBlock and of sendPacket
  NULL

ASSUME UdpAssumption ==
  /\ UIP_UDP_CONNS \in Nat
  /\ Handles \subseteq Nat /\ NOBLOCK \notin Handles
  /\ Memory \subseteq BOOLEAN /\ Sent \subseteq BOOLEAN
  /\ ANY \notin Peers /\ BROADCAST \notin Peers /\ ANY # BROADCAST
  /\ Ports \cup Ephemeral \subseteq Nat \ {0} /\ Ports \cap Ephemeral = {}
  /\ MaxData \in Nat /\ Padding \in Nat /\ MaxWritten \in 0 .. MaxData
  /\ Targets \in [Socks -> SUBSET (Peers \cup {BROADCAST})]
  /\ NULL \notin Int /\ NULL \notin Socks
  /\ Free \notin [peer : Peers \cup {NULL}, data : Seq(Peers \cup Socks), size : Nat]

Conns == 0 .. UIP_UDP_CONNS - 1
Slots == Socks \X {"in", "next", "out"}

VARIABLES
  udp_conns,  \* uip_udp_conns: connection -> [lport, remote, app]
  conn,       \* _uip_udp_conn: socket -> connection or NULL
  packet,     \* the handles packet_in, packet_next and packet_out of each socket
  send,       \* the flag send of each socket
  pool,       \* handle -> what the block holds, [peer, data, size], or Free
  arp,        \* the peers whose next hop is in the ARP table
  written,    \* history: what a sketch wrote since beginPacket, [to, data, ended], or NULL
  sent        \* history: the datagram the last step sent, or NULL

netVars == <<udp_conns, conn, arp>>
vars == <<udp_conns, conn, packet, send, pool, arp, written, sent>>

Init ==
  /\ udp_conns = [c \in Conns |-> [lport |-> 0, remote |-> ANY, app |-> NULL]]
  /\ conn = [u \in Socks |-> NULL]
  /\ packet = [x \in Slots |-> NOBLOCK]
  /\ send = [u \in Socks |-> FALSE]
  /\ pool = [h \in Handles |-> Free]
  /\ arp = {}
  /\ written = [u \in Socks |-> NULL]
  /\ sent = NULL

-----------------------------------------------------------------------------
(* Connections *)

Remote(u) == udp_conns[conn[u]].remote

FreshPort(p) == p \in Ephemeral /\ \A c \in Conns : udp_conns[c].lport # p

\* uip_udp_new: the first connection not in use.  The port it chooses for begin()
\* is replaced at once by the one of the sketch.
uip_udp_new(u, remote, lport) ==
  \E c \in Conns :
    /\ udp_conns[c].lport = 0
    /\ \A d \in 0 .. c - 1 : udp_conns[d].lport # 0
    /\ udp_conns' = [udp_conns EXCEPT ![c] = [lport |-> lport, remote |-> remote, app |-> u]]
    /\ conn' = [conn EXCEPT ![u] = c]

NoConnection == \A c \in Conns : udp_conns[c].lport # 0

\* allocBlock takes the first free descriptor.
FirstFree(h) == pool[h] = Free /\ \A g \in Handles : g < h => pool[g] # Free

\* freeBlock of several handles; those that are NOBLOCK are ignored.
Freed(S) == [h \in Handles |-> IF h \in S THEN Free ELSE pool[h]]

-----------------------------------------------------------------------------
(* Sending *)

\* network_send with the block of a socket: the block gets its header and is
\* freed if the transmission works; _send makes the socket forget it.
Transmitted(u) ==
  /\ pool' = Freed({packet[<<u, "out">>]})
  /\ packet' = [packet EXCEPT ![<<u, "out">>] = NOBLOCK]
  /\ send' = [send EXCEPT ![u] = FALSE]
  /\ sent' = [sock |-> u, to |-> Remote(u), data |-> pool[packet[<<u, "out">>]].data]
  /\ written' = [written EXCEPT ![u] = NULL]

\* Bug: the flag is cleared although nothing was sent.
FailedClears(u, blocks) ==
  /\ pool' = blocks
  /\ sent' = NULL
  /\ send' = [send EXCEPT ![u] = FALSE]
  /\ written' = [written EXCEPT ![u].ended = TRUE]
  /\ UNCHANGED packet

\* The datagram stays and is tried again with the next poll: its transmission
\* failed, or uip_arp_out put an ARP request into uip_buf, which network_send
\* sent from a block of its own.
Waits(u, blocks) ==
  /\ pool' = blocks
  /\ sent' = NULL
  /\ send' = [send EXCEPT ![u] = TRUE]
  /\ written' = [written EXCEPT ![u].ended = TRUE]
  /\ UNCHANGED packet

\* The poll of a socket with something to send: callback, uip_process, _send.
PollSend(u, blocks) ==
  \/ Remote(u) \in arp \cup {BROADCAST} /\ TRUE \in Sent /\ Transmitted(u)
  \/ Remote(u) \in arp \cup {BROADCAST} /\ FALSE \in Sent /\ Waits(u, blocks)
  \/ Remote(u) \notin arp \cup {BROADCAST} /\ Waits(u, blocks)

\* The periodic poll of tick.
Poll(u) ==
  /\ conn[u] # NULL
  /\ send[u]
  /\ PollSend(u, pool)
  /\ UNCHANGED netVars

-----------------------------------------------------------------------------
(* Receiving *)

\* Bug: a connection bound to a peer receives from others too.
MatchesPort(c, from, port) ==
  /\ udp_conns[c].lport = port

Matches(c, from, port) ==
  /\ udp_conns[c].lport = port
  /\ udp_conns[c].remote \in {ANY, BROADCAST, from}

\* The callback puts the datagram behind the current one.
Stored(u, h, from, data) ==
  /\ FirstFree(h)
  /\ pool' = [pool EXCEPT ![h] = [peer |-> from, data |-> data, size |-> Len(data)]]
  /\ packet' = [packet EXCEPT ![<<u, "next">>] = h]

\* A datagram for the first connection that matches.  If there is room behind
\* the current one, the sender becomes the connection's remote, even if then
\* there is no memory.  Otherwise the datagram is dropped.
Receive(from, port, data) ==
  \E c \in Conns :
    /\ Matches(c, from, port)
    /\ \A d \in 0 .. c - 1 : ~Matches(d, from, port)
    /\ LET u == udp_conns[c].app IN
       /\ packet[<<u, "next">>] = NOBLOCK
       /\ udp_conns' = [udp_conns EXCEPT ![c].remote = from]
       /\ \/ TRUE \in Memory /\ \E h \in Handles : Stored(u, h, from, data)
          \/ /\ FALSE \in Memory \/ \A h \in Handles : pool[h] # Free
             /\ UNCHANGED <<pool, packet>>
    /\ sent' = NULL
    /\ UNCHANGED <<conn, send, arp, written>>

\* A binding is learned, or forgotten by eviction: ArpTable shows how.
ArpChange(p) ==
  /\ \/ p \notin arp /\ arp' = arp \cup {p}
     \/ p \in arp /\ arp' = arp \ {p}
  /\ sent' = NULL
  /\ UNCHANGED <<udp_conns, conn, packet, send, pool, written>>

-----------------------------------------------------------------------------
(* The calls of the sketch *)

Begin(u, port) ==
  /\ \/ conn[u] = NULL /\ uip_udp_new(u, ANY, port)
     \/ /\ conn[u] # NULL
        /\ udp_conns' = [udp_conns EXCEPT ![conn[u]].lport = port]
        /\ UNCHANGED conn
     \/ conn[u] = NULL /\ NoConnection /\ UNCHANGED <<udp_conns, conn>>
  /\ sent' = NULL
  /\ UNCHANGED <<packet, send, pool, arp, written>>

\* Bug: the datagram that waits is not freed.
HeldInOut(u) == {packet[<<u, "in">>], packet[<<u, "out">>]}

HeldBy(u) == {packet[<<u, "in">>], packet[<<u, "next">>], packet[<<u, "out">>]}

Stop(u) ==
  /\ conn[u] # NULL
  /\ udp_conns' = [udp_conns EXCEPT ![conn[u]].lport = 0, ![conn[u]].app = NULL]
  /\ conn' = [conn EXCEPT ![u] = NULL]
  /\ pool' = Freed(HeldBy(u))
  /\ packet' = [x \in Slots |-> IF x[1] = u THEN NOBLOCK ELSE packet[x]]
  /\ send' = [send EXCEPT ![u] = FALSE]
  /\ written' = [written EXCEPT ![u] = NULL]
  /\ sent' = NULL
  /\ UNCHANGED arp

\* The part of beginPacket that takes the block of the new datagram.
NewPacket(u, to) ==
  \/ /\ packet[<<u, "out">>] = NOBLOCK
     /\ TRUE \in Memory
     /\ \E h \in Handles :
          /\ FirstFree(h)
          /\ pool' = [pool EXCEPT ![h] = [peer |-> NULL, data |-> <<>>, size |-> MaxData + Padding]]
          /\ packet' = [packet EXCEPT ![<<u, "out">>] = h]
     /\ written' = [written EXCEPT ![u] = [to |-> to, data |-> <<>>, ended |-> FALSE]]
  \/ /\ packet[<<u, "out">>] # NOBLOCK \/ FALSE \in Memory \/ \A h \in Handles : pool[h] # Free
     /\ UNCHANGED <<pool, packet, written>>

\* beginPacket changes the remote before it knows whether it can succeed.
BeginPacket(u, to) ==
  /\ \/ /\ conn[u] # NULL
        /\ udp_conns' = [udp_conns EXCEPT ![conn[u]].remote = to]
        /\ UNCHANGED conn
        /\ NewPacket(u, to)
     \/ /\ conn[u] = NULL
        /\ \E p \in Ephemeral : FreshPort(p) /\ uip_udp_new(u, to, p)
        /\ NewPacket(u, to)
     \/ /\ conn[u] = NULL /\ NoConnection
        /\ UNCHANGED <<udp_conns, conn, pool, packet, written>>
  /\ sent' = NULL
  /\ UNCHANGED <<send, arp>>

Unit(u) == u

Write(u) ==
  /\ packet[<<u, "out">>] # NOBLOCK
  /\ LET h == packet[<<u, "out">>] IN
     /\ Len(pool[h].data) < pool[h].size
     /\ pool' = [pool EXCEPT ![h].data = Append(@, Unit(u))]
  /\ written' = [written EXCEPT ![u].data = Append(@, Unit(u))]
  /\ sent' = NULL
  /\ UNCHANGED <<netVars, packet, send>>

\* Bug: the padding is added to the size the block had, not to what was written.
EndedBeyond(h) == [pool EXCEPT ![h].size = @ + Padding]

Ended(h) == [pool EXCEPT ![h].size = Len(pool[h].data) + Padding]

\* endPacket sets the flag, shrinks the block and polls the connection itself.
EndPacket(u) ==
  /\ conn[u] # NULL
  /\ packet[<<u, "out">>] # NOBLOCK
  /\ PollSend(u, Ended(packet[<<u, "out">>]))
  /\ UNCHANGED netVars

\* Bug: the datagram read so far is not freed.
FreedBefore(u) == {}

FreedByParse(u) == {packet[<<u, "in">>]}

ParsePacket(u) ==
  /\ pool' = Freed(FreedByParse(u))
  /\ packet' = [packet EXCEPT ![<<u, "in">>] = packet[<<u, "next">>], ![<<u, "next">>] = NOBLOCK]
  /\ sent' = NULL
  /\ UNCHANGED <<netVars, send, written>>

\* read(): at most n units; the block goes with the last of them.
Read(u, n) ==
  /\ packet[<<u, "in">>] # NOBLOCK
  /\ LET h == packet[<<u, "in">>] IN
     \/ /\ n >= Len(pool[h].data)
        /\ pool' = Freed({h})
        /\ packet' = [packet EXCEPT ![<<u, "in">>] = NOBLOCK]
     \/ /\ n < Len(pool[h].data)
        /\ pool' = [pool EXCEPT ![h].data = SubSeq(@, n + 1, Len(@)), ![h].size = @ - n]
        /\ UNCHANGED packet
  /\ sent' = NULL
  /\ UNCHANGED <<netVars, send, written>>

Flush(u) ==
  /\ pool' = Freed({packet[<<u, "in">>]})
  /\ packet' = [packet EXCEPT ![<<u, "in">>] = NOBLOCK]
  /\ sent' = NULL
  /\ UNCHANGED <<netVars, send, written>>

-----------------------------------------------------------------------------
(* The sketch and the network *)

\* A datagram is being written.
Building(u) == written[u] # NULL /\ ~written[u].ended

\* The sketch heeds what beginPacket returned, writes something, at most
\* MaxWritten, and ends what it began.  It sends to its targets; a sketch with no
\* target answers the address remoteIP() and remotePort() give.
Sketch(u) ==
  \/ \E port \in Ports : Begin(u, port)
  \/ Stop(u)
  \/ \E to \in Targets[u] : ~Building(u) /\ BeginPacket(u, to)
  \/ /\ Targets[u] = {} /\ ~Building(u) /\ conn[u] # NULL /\ Remote(u) \in Peers
     /\ BeginPacket(u, Remote(u))
  \/ Building(u) /\ Len(written[u].data) < MaxWritten /\ Write(u)
  \/ Building(u) /\ written[u].data # <<>> /\ EndPacket(u)
  \/ ParsePacket(u)
  \/ Read(u, 1)
  \/ Flush(u)

\* Datagrams of up to MaxData units, never empty.
Payloads(from) == {[i \in 1 .. n |-> from] : n \in 1 .. MaxData}

Network ==
  \/ \E from \in Peers, port \in Ports \cup Ephemeral :
       \E data \in Payloads(from) : Receive(from, port, data)
  \/ \E p \in Peers : ArpChange(p)

Next == Network \/ \E u \in Socks : Sketch(u) \/ Poll(u)

Spec == Init /\ [][Next]_vars

\* Polls never cease, since every call runs tick.  An ARP request is answered now
\* and then, and the transmitter works now and then.
FairSpec ==
  /\ Spec
  /\ \A p \in Peers : WF_vars(p \notin arp /\ ArpChange(p))
  /\ \A u \in Socks : SF_vars(Poll(u) /\ sent' # NULL)
-----------------------------------------------------------------------------
(* Properties *)

Block == [peer : Peers \cup {NULL}, size : 0 .. MaxData + Padding,
          data : UNION {[1 .. n -> Peers \cup Socks] : n \in 0 .. MaxData + Padding}]

\* Every variable has its type.
TypeOK ==
  /\ udp_conns \in [Conns -> [lport : {0} \cup Ports \cup Ephemeral,
                              remote : Peers \cup {ANY, BROADCAST}, app : Socks \cup {NULL}]]
  /\ conn \in [Socks -> Conns \cup {NULL}]
  /\ packet \in [Slots -> Handles \cup {NOBLOCK}]
  /\ send \in [Socks -> BOOLEAN]
  /\ pool \in [Handles -> Block \cup {Free}]
  /\ arp \subseteq Peers

\* Each block in use belongs to one place of one socket, and what a socket holds
\* is in use: nothing is lost, shared or used after it was freed, through every
\* order of arrivals, polls, failures and stop() (UIPUdp.cpp:63-76, 204-300, 360-384).
OneOwner ==
  /\ \A x \in Slots : packet[x] # NOBLOCK => pool[packet[x]] # Free
  /\ \A x, y \in Slots : packet[x] # NOBLOCK /\ packet[x] = packet[y] => x = y
  /\ \A h \in Handles : pool[h] # Free => \E x \in Slots : packet[x] = h

\* What goes out is what the sketch wrote, whole, to where it wanted it, and once,
\* however long it waited for ARP or the transmitter (UIPUdp.cpp:165-180, 343-385).
SentAsWritten ==
  [][sent' # NULL => /\ written[sent'.sock].to = sent'.to
                     /\ written[sent'.sock].data = sent'.data]_vars

\* "Return the IP address of the host who sent the current incoming packet"
\* (UIPUdp.cpp:302-307), for a sketch that only answers.
SenderOfCurrent ==
  \A u \in Socks : Targets[u] = {} /\ packet[<<u, "in">>] # NOBLOCK =>
    pool[packet[<<u, "in">>]].peer = Remote(u)

\* A block is resized within itself, which MemoryPool takes for granted
\* (UIPUdp.cpp:171, 273; mempool.cpp:148-162).
ResizedInside ==
  [][\A h \in Handles : pool[h] # Free /\ pool'[h] # Free => pool'[h].size <= pool[h].size]_vars

\* A datagram that was ended leaves, or its socket is stopped.
SentEventually ==
  \A u \in Socks : (written[u] # NULL /\ ~Building(u)) ~> written[u] = NULL
=============================================================================
