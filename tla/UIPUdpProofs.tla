---------------------------- MODULE UIPUdpProofs ----------------------------
(***************************************************************************)
(* The invariants of UIPUdp for any number of sockets, connections, blocks *)
(* and peers.                                                              *)
(***************************************************************************)
EXTENDS UIPUdp, SequenceTheorems, TLAPS

Units == Seq(Peers \cup Socks)
Blocks == [peer : Peers \cup {NULL}, data : Units, size : Nat]
Addresses == Peers \cup {ANY, BROADCAST}

\* The types, with sequences of any length; Sizes bounds them.
Types ==
  /\ udp_conns \in [Conns -> [lport : {0} \cup Ports \cup Ephemeral,
                              remote : Addresses, app : Socks \cup {NULL}]]
  /\ conn \in [Socks -> Conns \cup {NULL}]
  /\ packet \in [Slots -> Handles \cup {NOBLOCK}]
  /\ send \in [Socks -> BOOLEAN]
  /\ pool \in [Handles -> Blocks \cup {Free}]
  /\ arp \subseteq Peers
  /\ DOMAIN written = Socks

\* What a block holds fits in it.
Sizes ==
  \A h \in Handles : pool[h] # Free =>
    Len(pool[h].data) <= pool[h].size /\ pool[h].size <= MaxData + Padding

\* A socket and its connection point to each other; without one it holds nothing.
Connected ==
  /\ \A u \in Socks, c \in Conns : conn[u] = c <=> udp_conns[c].app = u
  /\ \A c \in Conns : udp_conns[c].lport # 0 <=> udp_conns[c].app # NULL
  /\ \A u \in Socks, p \in {"in", "next", "out"} : conn[u] = NULL => packet[<<u, p>>] = NOBLOCK

\* The sketch sends to one peer only, or answers.
OneTarget ==
  \A u \in Socks : BROADCAST \notin Targets[u] /\ \A a, b \in Targets[u] : a = b

\* The datagram u writes, or one that waits to be sent.
OutgoingOf(u) ==
  LET h == packet[<<u, "out">>]
  IN IF h = NOBLOCK THEN written[u] = NULL /\ ~send[u]
     ELSE /\ written[u] \in [to : Addresses, data : Units, ended : BOOLEAN]
          /\ pool[h].data = written[u].data
          /\ Len(pool[h].data) <= MaxWritten
          /\ pool[h].size = (IF send[u] THEN Len(pool[h].data) ELSE MaxData) + Padding
          /\ send[u] = written[u].ended
          /\ OneTarget =>
               /\ written[u].to = Remote(u) /\ written[u].to \in Peers
               /\ Targets[u] # {} => written[u].to \in Targets[u]

OutgoingKept == \A u \in Socks : OutgoingOf(u)

\* All a server has received and not read came from the peer it is bound to.
SenderKept ==
  \A u \in Socks, p \in {"in", "next"} : Targets[u] = {} /\ packet[<<u, p>>] # NOBLOCK =>
    pool[packet[<<u, p>>]].peer = Remote(u) /\ Remote(u) \in Peers

IInv == Types /\ Sizes /\ Connected /\ OneOwner /\ OutgoingKept /\ SenderKept

-----------------------------------------------------------------------------

\* Initially no socket holds anything.
LEMMA InitInvariant == Init => IInv
<1> SUFFICES ASSUME Init PROVE IInv
  OBVIOUS
<1> USE UdpAssumption DEF Init
<1>1. Types
  BY DEF Types, Addresses, Slots
<1>2. Sizes /\ OneOwner
  BY DEF Sizes, OneOwner
<1>3. Connected
  BY DEF Connected, Slots, Conns
<1>4. OutgoingKept
  BY DEF OutgoingKept, OutgoingOf, Slots
<1>5. SenderKept
  BY DEF SenderKept, Slots
<1> QED BY <1>1, <1>2, <1>3, <1>4, <1>5 DEF IInv

\* What a socket holds is a block in use.
LEMMA HeldBlock ==
  ASSUME IInv, NEW u \in Socks, NEW p \in {"in", "next", "out"}, packet[<<u, p>>] # NOBLOCK
  PROVE  /\ <<u, p>> \in Slots
         /\ packet[<<u, p>>] \in Handles
         /\ pool[packet[<<u, p>>]] \in Blocks
         /\ conn[u] \in Conns /\ conn[u] # NULL
         /\ udp_conns[conn[u]].app = u
<1>1. <<u, p>> \in Slots
  BY DEF Slots
<1>2. packet[<<u, p>>] \in Handles
  BY <1>1 DEF IInv, Types
<1>3. pool[packet[<<u, p>>]] \in Blocks
  BY <1>1, <1>2 DEF IInv, Types, OneOwner
<1>4. conn[u] # NULL
  BY DEF IInv, Connected
<1>5. conn[u] \in Conns
  BY <1>4 DEF IInv, Types
<1> QED BY <1>1, <1>2, <1>3, <1>4, <1>5 DEF IInv, Connected

\* A datagram that was sent is freed and forgotten.
LEMMA TransmittedInvariant ==
  ASSUME IInv, NEW u \in Socks, packet[<<u, "out">>] # NOBLOCK,
         Transmitted(u), UNCHANGED netVars
  PROVE  IInv'
<1> DEFINE h == packet[<<u, "out">>]
<1>1. /\ pool' = Freed({h})
      /\ packet' = [packet EXCEPT ![<<u, "out">>] = NOBLOCK]
      /\ send' = [send EXCEPT ![u] = FALSE]
      /\ written' = [written EXCEPT ![u] = NULL]
      /\ UNCHANGED <<udp_conns, conn, arp>>
  BY DEF Transmitted, netVars
<1>2. h \in Handles /\ <<u, "out">> \in Slots
  BY HeldBlock
<1>3. \A x \in Slots : packet'[x] = IF x = <<u, "out">> THEN NOBLOCK ELSE packet[x]
  BY <1>1 DEF IInv, Types
<1>4. \A g \in Handles : pool'[g] = IF g = h THEN Free ELSE pool[g]
  BY <1>1 DEF Freed
<1>5. Types'
  BY <1>1, <1>2 DEF IInv, Types, Freed
<1>6. Sizes'
  BY <1>4 DEF IInv, Sizes
<1>7. Connected'
  BY <1>1, <1>3 DEF IInv, Connected, Slots
<1>8. OneOwner'
  BY <1>2, <1>3, <1>4, UdpAssumption DEF IInv, OneOwner, Types
<1>9. ASSUME NEW v \in Socks, NEW p \in {"in", "next", "out"}, packet'[<<v, p>>] # NOBLOCK
      PROVE  packet'[<<v, p>>] = packet[<<v, p>>] /\ pool'[packet'[<<v, p>>]] = pool[packet[<<v, p>>]]
  <2>1. <<v, p>> \in Slots /\ <<v, p>> # <<u, "out">> /\ packet'[<<v, p>>] = packet[<<v, p>>]
    BY <1>3, <1>9 DEF Slots
  <2>2. packet[<<v, p>>] \in Handles /\ packet[<<v, p>>] # h
    BY <1>2, <1>9, <2>1, HeldBlock DEF IInv, OneOwner
  <2> QED BY <1>4, <2>1, <2>2
<1>10. OutgoingKept'
  <2> SUFFICES ASSUME NEW v \in Socks PROVE OutgoingOf(v)'
    BY DEF OutgoingKept
  <2>1. CASE v = u
    BY <1>1, <1>2, <1>3, <2>1 DEF OutgoingOf, IInv, Types
  <2>2. CASE v # u
    <3>1. packet'[<<v, "out">>] = packet[<<v, "out">>] /\ written'[v] = written[v] /\ send'[v] = send[v]
      BY <1>1, <1>3, <2>2 DEF Slots, IInv, Types
    <3>2. OutgoingOf(v) /\ Remote(v)' = Remote(v)
      BY <1>1 DEF IInv, OutgoingKept, Remote
    <3> QED BY <1>9, <3>1, <3>2 DEF OutgoingOf
  <2> QED BY <2>1, <2>2
<1>11. SenderKept'
  <2> SUFFICES ASSUME NEW v \in Socks, NEW p \in {"in", "next"},
                      Targets[v] = {}, packet'[<<v, p>>] # NOBLOCK
               PROVE  pool'[packet'[<<v, p>>]].peer = Remote(v)' /\ Remote(v)' \in Peers
    BY DEF SenderKept
  <2>1. packet'[<<v, p>>] = packet[<<v, p>>] /\ pool'[packet'[<<v, p>>]] = pool[packet[<<v, p>>]]
    BY <1>9
  <2> QED BY <1>1, <2>1 DEF IInv, SenderKept, Remote
<1> QED BY <1>5, <1>6, <1>7, <1>8, <1>10, <1>11 DEF IInv

\* What does not touch a socket's datagram leaves it as it is.
LEMMA OutgoingUnchanged ==
  ASSUME NEW v \in Socks, OutgoingOf(v),
         packet'[<<v, "out">>] = packet[<<v, "out">>],
         packet[<<v, "out">>] # NOBLOCK => pool'[packet[<<v, "out">>]] = pool[packet[<<v, "out">>]],
         written'[v] = written[v], send'[v] = send[v], Remote(v)' = Remote(v)
  PROVE  OutgoingOf(v)'
BY DEF OutgoingOf

\* Two places of sockets hold different blocks.
LEMMA HeldApart ==
  ASSUME IInv, NEW u \in Socks, NEW p \in {"in", "next", "out"},
         NEW v \in Socks, NEW q \in {"in", "next", "out"},
         packet[<<u, p>>] # NOBLOCK, <<u, p>> # <<v, q>>
  PROVE  packet[<<u, p>>] # packet[<<v, q>>]
<1>1. <<u, p>> \in Slots /\ <<v, q>> \in Slots
  BY DEF Slots
<1> QED BY <1>1 DEF IInv, OneOwner

\* A datagram that waits keeps its place; endPacket cuts its block to what is written.
LEMMA WaitsInvariant ==
  ASSUME IInv, NEW u \in Socks, packet[<<u, "out">>] # NOBLOCK,
         NEW blocks, blocks = Ended(packet[<<u, "out">>]) \/ (send[u] /\ blocks = pool),
         Waits(u, blocks), UNCHANGED netVars
  PROVE  IInv'
<1> DEFINE h == packet[<<u, "out">>]
<1>1. /\ pool' = blocks
      /\ send' = [send EXCEPT ![u] = TRUE]
      /\ written' = [written EXCEPT ![u].ended = TRUE]
      /\ UNCHANGED <<udp_conns, conn, arp, packet>>
  BY DEF Waits, netVars
<1>2. h \in Handles /\ <<u, "out">> \in Slots /\ pool[h] \in Blocks /\ pool[h] # Free
  BY HeldBlock DEF IInv, OneOwner
<1>3. OutgoingOf(u) /\ written[u] \in [to : Addresses, data : Units, ended : BOOLEAN]
  BY DEF IInv, OutgoingKept, OutgoingOf
<1>4. /\ pool' \in [Handles -> Blocks \cup {Free}]
      /\ \A g \in Handles \ {h} : pool'[g] = pool[g]
      /\ pool'[h].data = pool[h].data /\ pool'[h].peer = pool[h].peer
      /\ pool'[h].size = Len(pool[h].data) + Padding
      /\ pool'[h] \in Blocks
  <2>1. Len(pool[h].data) \in Nat /\ Len(pool[h].data) + Padding \in Nat
    BY <1>2, UdpAssumption DEF Blocks, Units
  <2>2. CASE blocks = Ended(h)
    BY <1>1, <1>2, <2>1, <2>2 DEF Ended, Blocks, IInv, Types
  <2>3. CASE send[u] /\ blocks = pool
    BY <1>1, <1>2, <1>3, <2>3 DEF OutgoingOf, IInv, Types
  <2> QED BY <2>2, <2>3
<1>5. Types'
  BY <1>1, <1>4 DEF IInv, Types
<1>6. Sizes'
  <2>1. Len(pool'[h].data) <= pool'[h].size /\ pool'[h].size <= MaxData + Padding
    BY <1>2, <1>3, <1>4, UdpAssumption DEF OutgoingOf, Blocks, Units
  <2> QED BY <1>4, <2>1 DEF IInv, Sizes
<1>7. Connected'
  BY <1>1 DEF IInv, Connected
<1>8. OneOwner'
  <2>1. \A g \in Handles : pool'[g] = Free <=> pool[g] = Free
    BY <1>2, <1>4, UdpAssumption DEF Blocks, Units
  <2> QED BY <1>1, <2>1 DEF IInv, OneOwner, Types
<1>9. ASSUME NEW v \in Socks, NEW p \in {"in", "next", "out"},
             packet[<<v, p>>] # NOBLOCK, <<v, p>> # <<u, "out">>
      PROVE  pool'[packet[<<v, p>>]] = pool[packet[<<v, p>>]]
  <2>1. packet[<<v, p>>] \in Handles
    BY <1>9, HeldBlock
  <2>2. packet[<<v, p>>] # h
    BY <1>9, HeldApart
  <2> QED BY <1>4, <2>1, <2>2
<1>10. OutgoingKept'
  <2> SUFFICES ASSUME NEW v \in Socks PROVE OutgoingOf(v)'
    BY DEF OutgoingKept
  <2>1. CASE v = u
    <3>1. /\ written'[u] = [written[u] EXCEPT !.ended = TRUE]
          /\ send'[u] = TRUE /\ Remote(u)' = Remote(u)
      BY <1>1 DEF IInv, Types, Remote
    <3>2. /\ written'[u].to = written[u].to /\ written'[u].data = written[u].data
          /\ written'[u].ended = TRUE
          /\ written'[u] \in [to : Addresses, data : Units, ended : BOOLEAN]
      BY <1>3, <3>1
    <3>3. /\ packet'[<<u, "out">>] = h /\ h # NOBLOCK
          /\ pool'[h].data = written'[u].data /\ Len(pool'[h].data) <= MaxWritten
          /\ pool'[h].size = Len(pool'[h].data) + Padding
      BY <1>1, <1>3, <1>4, <3>2 DEF OutgoingOf
    <3>4. OneTarget => /\ written'[u].to = Remote(u)' /\ written'[u].to \in Peers
                       /\ Targets[u] # {} => written'[u].to \in Targets[u]
      BY <1>3, <3>1, <3>2 DEF OutgoingOf
    <3> QED BY <2>1, <3>1, <3>2, <3>3, <3>4 DEF OutgoingOf
  <2>2. CASE v # u
    <3>1. written'[v] = written[v] /\ send'[v] = send[v] /\ Remote(v)' = Remote(v)
      BY <1>1, <2>2 DEF IInv, Types, Remote
    <3> QED BY <1>1, <1>9, <2>2, <3>1, OutgoingUnchanged DEF IInv, OutgoingKept
  <2> QED BY <2>1, <2>2
<1>11. SenderKept'
  <2> SUFFICES ASSUME NEW v \in Socks, NEW p \in {"in", "next"},
                      Targets[v] = {}, packet'[<<v, p>>] # NOBLOCK
               PROVE  pool'[packet'[<<v, p>>]].peer = Remote(v)' /\ Remote(v)' \in Peers
    BY DEF SenderKept
  <2>1. packet'[<<v, p>>] = packet[<<v, p>>] /\ pool'[packet[<<v, p>>]] = pool[packet[<<v, p>>]]
    BY <1>1, <1>9
  <2> QED BY <1>1, <2>1 DEF IInv, SenderKept, Remote
<1> QED BY <1>5, <1>6, <1>7, <1>8, <1>10, <1>11 DEF IInv

\* A block is freed, and all that held it holds nothing; or nothing was held.
LEMMA FreedInvariant ==
  ASSUME IInv, NEW u \in Socks,
         pool' = Freed({packet[<<u, "in">>]}),
         packet' = [packet EXCEPT ![<<u, "in">>] = packet'[<<u, "in">>], ![<<u, "next">>] = packet'[<<u, "next">>]],
         \/ packet'[<<u, "in">>] = NOBLOCK /\ packet'[<<u, "next">>] = packet[<<u, "next">>]
         \/ packet'[<<u, "in">>] = packet[<<u, "next">>] /\ packet'[<<u, "next">>] = NOBLOCK,
         UNCHANGED <<netVars, send, written>>
  PROVE  IInv'
<1> DEFINE h == packet[<<u, "in">>]
<1>1. <<u, "in">> \in Slots /\ <<u, "next">> \in Slots
  BY DEF Slots
<1>2. \A x \in Slots : x # <<u, "in">> /\ x # <<u, "next">> => packet'[x] = packet[x]
  BY DEF IInv, Types
<1>3. \A g \in Handles : pool'[g] = IF g = h THEN Free ELSE pool[g]
  BY DEF Freed
<1>4. Types'
  BY <1>1 DEF IInv, Types, Freed, netVars
<1>5. Sizes'
  BY <1>3 DEF IInv, Sizes
<1>6. Connected'
  <2> SUFFICES ASSUME NEW v \in Socks, NEW p \in {"in", "next", "out"}, conn'[v] = NULL
               PROVE  packet'[<<v, p>>] = NOBLOCK
    BY DEF IInv, Connected, netVars
  <2>1. \A q \in {"in", "next", "out"} : packet[<<v, q>>] = NOBLOCK
    BY DEF IInv, Connected, netVars
  <2>2. <<v, p>> \in Slots
    BY DEF Slots
  <2> QED BY <1>2, <2>1, <2>2
<1>7. \A x \in Slots : packet'[x] # NOBLOCK =>
        \E y \in Slots : /\ packet'[x] = packet[y] /\ packet[y] # h
                         /\ y = x \/ (x = <<u, "in">> /\ y = <<u, "next">>)
  <2> SUFFICES ASSUME NEW x \in Slots, packet'[x] # NOBLOCK
               PROVE  \E y \in Slots : /\ packet'[x] = packet[y] /\ packet[y] # h
                                       /\ y = x \/ (x = <<u, "in">> /\ y = <<u, "next">>)
    OBVIOUS
  <2>1. <<u, "in">> # <<u, "next">>
    OBVIOUS
  <2>2. CASE x = <<u, "in">>
    BY <1>1, <2>1, <2>2 DEF IInv, OneOwner
  <2>3. CASE x = <<u, "next">>
    BY <1>1, <2>1, <2>3 DEF IInv, OneOwner
  <2>4. CASE x # <<u, "in">> /\ x # <<u, "next">>
    BY <1>1, <1>2, <2>4 DEF IInv, OneOwner
  <2> QED BY <2>2, <2>3, <2>4
<1>8. OneOwner'
  <2>1. ASSUME NEW x \in Slots, packet'[x] # NOBLOCK
        PROVE  pool'[packet'[x]] # Free
    <3>1. PICK y \in Slots : packet'[x] = packet[y] /\ packet[y] # h
      BY <1>7, <2>1
    <3>2. packet[y] \in Handles /\ pool[packet[y]] # Free
      BY <2>1, <3>1 DEF IInv, OneOwner, Types
    <3> QED BY <1>3, <3>1, <3>2
  <2>2. ASSUME NEW x \in Slots, NEW y \in Slots, packet'[x] # NOBLOCK, packet'[x] = packet'[y]
        PROVE  x = y
    <3>1. PICK a \in Slots :
           packet'[x] = packet[a] /\ (a = x \/ (x = <<u, "in">> /\ a = <<u, "next">>))
      BY <1>7, <2>2
    <3>2. PICK b \in Slots :
           packet'[y] = packet[b] /\ (b = y \/ (y = <<u, "in">> /\ b = <<u, "next">>))
      BY <1>7, <2>2
    <3>3. a = b
      <4>1. packet[a] # NOBLOCK /\ packet[a] = packet[b]
        BY <2>2, <3>1, <3>2
      <4> QED BY <4>1 DEF IInv, OneOwner
    <3> QED BY <1>1, <2>2, <3>1, <3>2, <3>3
  <2>3. ASSUME NEW g \in Handles, pool'[g] # Free
        PROVE  \E x \in Slots : packet'[x] = g
    <3>1. PICK x \in Slots : packet[x] = g
      BY <1>3, <2>3 DEF IInv, OneOwner
    <3>2. x # <<u, "in">>
      BY <1>3, <2>3, <3>1
    <3>3. CASE x = <<u, "next">>
      BY <1>1, <3>1, <3>3
    <3>4. CASE x # <<u, "next">>
      BY <1>2, <3>1, <3>2, <3>4
    <3> QED BY <3>3, <3>4
  <2> QED BY <2>1, <2>2, <2>3 DEF OneOwner
<1>9. OutgoingKept'
  <2> SUFFICES ASSUME NEW v \in Socks PROVE OutgoingOf(v)'
    BY DEF OutgoingKept
  <2>1. <<v, "out">> \in Slots /\ packet'[<<v, "out">>] = packet[<<v, "out">>]
    BY <1>2 DEF Slots
  <2>2. packet[<<v, "out">>] # NOBLOCK => pool'[packet[<<v, "out">>]] = pool[packet[<<v, "out">>]]
    BY <1>3, HeldBlock, HeldApart
  <2> QED BY <2>1, <2>2, OutgoingUnchanged DEF IInv, OutgoingKept, Remote, netVars
<1>10. SenderKept'
  <2> SUFFICES ASSUME NEW v \in Socks, NEW p \in {"in", "next"},
                      Targets[v] = {}, packet'[<<v, p>>] # NOBLOCK
               PROVE  pool'[packet'[<<v, p>>]].peer = Remote(v)' /\ Remote(v)' \in Peers
    BY DEF SenderKept
  <2>1. PICK q \in {"in", "next"} : packet'[<<v, p>>] = packet[<<v, q>>] /\ packet[<<v, q>>] # h
    BY <1>2, <1>7 DEF Slots
  <2>2. packet[<<v, q>>] \in Handles
    BY <2>1, HeldBlock
  <2>3. pool'[packet'[<<v, p>>]] = pool[packet[<<v, q>>]]
    BY <1>3, <2>1, <2>2
  <2>4. pool[packet[<<v, q>>]].peer = Remote(v) /\ Remote(v) \in Peers
    BY <2>1 DEF IInv, SenderKept
  <2> QED BY <2>3, <2>4 DEF Remote, netVars
<1> QED BY <1>4, <1>5, <1>6, <1>8, <1>9, <1>10 DEF IInv

\* The place of a new block is the only one that holds it.
LEMMA TakenOwner ==
  ASSUME IInv, NEW x \in Slots, packet[x] = NOBLOCK, NEW h \in Handles, FirstFree(h),
         NEW b \in Blocks, pool' = [pool EXCEPT ![h] = b], packet' = [packet EXCEPT ![x] = h]
  PROVE  /\ OneOwner'
         /\ pool' \in [Handles -> Blocks \cup {Free}]
         /\ packet' \in [Slots -> Handles \cup {NOBLOCK}]
         /\ \A y \in Slots : y # x => /\ packet'[y] = packet[y]
                                      /\ packet[y] # NOBLOCK => pool'[packet[y]] = pool[packet[y]]
<1>1. pool[h] = Free /\ b # Free
  BY UdpAssumption DEF FirstFree, Blocks, Units
<1>2. pool'[h] = b /\ \A g \in Handles \ {h} : pool'[g] = pool[g]
  BY DEF IInv, Types
<1>3. packet'[x] = h /\ \A y \in Slots \ {x} : packet'[y] = packet[y]
  BY DEF IInv, Types
<1>4. \A y \in Slots : packet[y] # h
  BY <1>1, UdpAssumption DEF IInv, OneOwner
<1>5. OneOwner'
  BY <1>1, <1>2, <1>3, <1>4, UdpAssumption DEF IInv, OneOwner, Types
<1>6. \A y \in Slots : packet[y] # NOBLOCK => packet[y] \in Handles
  BY DEF IInv, Types
<1> QED BY <1>2, <1>3, <1>4, <1>5, <1>6 DEF IInv, Types

\* A datagram goes to a socket that has room for it, and binds it to its sender.
LEMMA ReceiveInvariant ==
  ASSUME IInv, NEW from \in Peers, NEW port \in Ports \cup Ephemeral,
         NEW data \in Payloads(from), Receive(from, port, data)
  PROVE  IInv'
<1>1. PICK c \in Conns :
        /\ Matches(c, from, port)
        /\ LET u == udp_conns[c].app IN
           /\ packet[<<u, "next">>] = NOBLOCK
           /\ udp_conns' = [udp_conns EXCEPT ![c].remote = from]
           /\ \/ TRUE \in Memory /\ \E h \in Handles : Stored(u, h, from, data)
              \/ UNCHANGED <<pool, packet>>
        /\ UNCHANGED <<conn, send, arp, written>>
  BY DEF Receive
<1> DEFINE u == udp_conns[c].app
           b == [peer |-> from, data |-> data, size |-> Len(data)]
<1>2. /\ u \in Socks /\ conn[u] = c /\ udp_conns[c].lport = port
      /\ udp_conns[c].remote \in {ANY, BROADCAST, from}
  BY <1>1, UdpAssumption DEF Matches, IInv, Types, Connected
<1>3. <<u, "in">> \in Slots /\ <<u, "next">> \in Slots /\ <<u, "out">> \in Slots
  BY <1>2 DEF Slots
<1>4. data \in Units /\ Len(data) \in 0 .. MaxData
  <2>1. PICK n \in 1 .. MaxData : data = [i \in 1 .. n |-> from]
    BY DEF Payloads
  <2>2. n \in Nat /\ Len(data) = n
    BY <2>1, UdpAssumption
  <2> QED BY <2>1, <2>2, UdpAssumption DEF Units
<1>5. b \in Blocks
  BY <1>4 DEF Blocks
<1>6. /\ udp_conns'[c] = [udp_conns[c] EXCEPT !.remote = from]
      /\ \A d \in Conns \ {c} : udp_conns'[d] = udp_conns[d]
      /\ udp_conns' \in [Conns -> [lport : {0} \cup Ports \cup Ephemeral,
                                   remote : Addresses, app : Socks \cup {NULL}]]
  BY <1>1 DEF IInv, Types, Addresses
<1>7. \A d \in Conns : udp_conns'[d].lport = udp_conns[d].lport /\ udp_conns'[d].app = udp_conns[d].app
  BY <1>6 DEF IInv, Types
<1>8. \A v \in Socks : conn[v] # NULL => Remote(v)' = IF v = u THEN from ELSE Remote(v)
  <2>1. ASSUME NEW v \in Socks, conn[v] # NULL
        PROVE  Remote(v)' = IF v = u THEN from ELSE Remote(v)
    <3>1. conn[v] \in Conns /\ conn'[v] = conn[v] /\ (conn[v] = c => v = u)
      BY <1>1, <2>1 DEF IInv, Types, Connected
    <3> QED BY <1>2, <1>6, <3>1 DEF Remote, IInv, Types
  <2> QED BY <2>1
<1>9. /\ OneOwner'
      /\ pool' \in [Handles -> Blocks \cup {Free}]
      /\ packet' \in [Slots -> Handles \cup {NOBLOCK}]
      /\ Sizes'
      /\ \A y \in Slots : y # <<u, "next">> =>
           /\ packet'[y] = packet[y]
           /\ packet[y] # NOBLOCK => pool'[packet[y]] = pool[packet[y]]
      /\ packet'[<<u, "next">>] # NOBLOCK => pool'[packet'[<<u, "next">>]].peer = from
  <2>1. CASE UNCHANGED <<pool, packet>>
    BY <1>1, <2>1 DEF IInv, OneOwner, Types, Sizes
  <2>2. ASSUME NEW h \in Handles, Stored(u, h, from, data)
        PROVE  <1>9
    <3>1. /\ FirstFree(h) /\ pool' = [pool EXCEPT ![h] = b]
          /\ packet' = [packet EXCEPT ![<<u, "next">>] = h]
      BY <2>2 DEF Stored
    <3>2. /\ OneOwner'
          /\ pool' \in [Handles -> Blocks \cup {Free}]
          /\ packet' \in [Slots -> Handles \cup {NOBLOCK}]
          /\ \A y \in Slots : y # <<u, "next">> =>
               /\ packet'[y] = packet[y]
               /\ packet[y] # NOBLOCK => pool'[packet[y]] = pool[packet[y]]
      BY <1>1, <1>3, <1>5, <3>1, TakenOwner
    <3>3. /\ pool'[h] = b /\ packet'[<<u, "next">>] = h
          /\ \A g \in Handles \ {h} : pool'[g] = pool[g]
      BY <1>3, <3>1 DEF IInv, Types
    <3>4. Sizes'
      BY <1>4, <3>3, UdpAssumption DEF IInv, Sizes
    <3> QED BY <3>2, <3>3, <3>4
  <2> QED BY <1>1, <2>1, <2>2
<1>10. Types'
  BY <1>1, <1>6, <1>9 DEF IInv, Types
<1>11. Connected'
  <2>1. \A v \in Socks, p \in {"in", "next", "out"} : conn'[v] = NULL => packet'[<<v, p>>] = NOBLOCK
    <3> SUFFICES ASSUME NEW v \in Socks, NEW p \in {"in", "next", "out"}, conn'[v] = NULL
                 PROVE  packet'[<<v, p>>] = NOBLOCK
      OBVIOUS
    <3>0. conn[v] = NULL /\ c # NULL
      BY <1>1, UdpAssumption DEF Conns
    <3>1. v # u /\ packet[<<v, p>>] = NOBLOCK
      BY <1>2, <3>0 DEF IInv, Connected
    <3>2. <<v, p>> \in Slots /\ <<v, p>> # <<u, "next">>
      BY <3>1 DEF Slots
    <3> QED BY <1>9, <3>1, <3>2
  <2> QED BY <1>1, <1>7, <2>1 DEF IInv, Connected
<1>12. OutgoingKept'
  <2> SUFFICES ASSUME NEW v \in Socks PROVE OutgoingOf(v)'
    BY DEF OutgoingKept
  <2>1. <<v, "out">> \in Slots /\ <<v, "out">> # <<u, "next">> /\ OutgoingOf(v)
    BY DEF Slots, IInv, OutgoingKept
  <2>2. /\ packet'[<<v, "out">>] = packet[<<v, "out">>]
        /\ packet[<<v, "out">>] # NOBLOCK => pool'[packet[<<v, "out">>]] = pool[packet[<<v, "out">>]]
        /\ written'[v] = written[v] /\ send'[v] = send[v]
    BY <1>1, <1>9, <2>1
  <2>3. CASE packet[<<v, "out">>] = NOBLOCK
    BY <2>1, <2>2, <2>3 DEF OutgoingOf
  <2>4. CASE packet[<<v, "out">>] # NOBLOCK
    <3>1. conn[v] # NULL
      BY <2>4, HeldBlock
    <3>2. OneTarget => Remote(v)' = Remote(v)
      BY <1>2, <1>8, <2>1, <2>4, <3>1, UdpAssumption DEF OutgoingOf, Remote
    <3>3. /\ written[v] \in [to : Addresses, data : Units, ended : BOOLEAN]
          /\ pool[packet[<<v, "out">>]].data = written[v].data
          /\ Len(pool[packet[<<v, "out">>]].data) <= MaxWritten
          /\ pool[packet[<<v, "out">>]].size =
               (IF send[v] THEN Len(pool[packet[<<v, "out">>]].data) ELSE MaxData) + Padding
          /\ send[v] = written[v].ended
          /\ OneTarget => /\ written[v].to = Remote(v)' /\ written[v].to \in Peers
                          /\ Targets[v] # {} => written[v].to \in Targets[v]
      BY <2>1, <2>4, <3>2 DEF OutgoingOf
    <3> QED BY <2>2, <2>4, <3>3 DEF OutgoingOf
  <2> QED BY <2>3, <2>4
<1>13. SenderKept'
  <2> SUFFICES ASSUME NEW v \in Socks, NEW p \in {"in", "next"},
                      Targets[v] = {}, packet'[<<v, p>>] # NOBLOCK
               PROVE  pool'[packet'[<<v, p>>]].peer = Remote(v)' /\ Remote(v)' \in Peers
    BY DEF SenderKept
  <2>1. CASE v = u /\ p = "next"
    BY <1>2, <1>8, <1>9, <2>1, UdpAssumption DEF Conns
  <2>2. CASE v # u \/ p = "in"
    <3>1. <<v, p>> \in Slots /\ <<v, p>> # <<u, "next">>
      BY <2>2 DEF Slots
    <3>2. packet'[<<v, p>>] = packet[<<v, p>>] /\ pool'[packet[<<v, p>>]] = pool[packet[<<v, p>>]]
      BY <1>9, <3>1
    <3>3. pool[packet[<<v, p>>]].peer = Remote(v) /\ Remote(v) \in Peers /\ conn[v] # NULL
      BY <3>2, HeldBlock DEF IInv, SenderKept
    <3>4. Remote(v)' = Remote(v)
      BY <1>2, <1>8, <3>3, UdpAssumption DEF Remote
    <3> QED BY <3>2, <3>3, <3>4
  <2> QED BY <2>1, <2>2
<1> QED BY <1>9, <1>10, <1>11, <1>12, <1>13 DEF IInv

\* A connection is bound to a socket that has none; nothing it could hold is touched.
LEMMA NewConnection ==
  ASSUME IInv, NEW u \in Socks, conn[u] = NULL, NEW remote \in Addresses,
         NEW lport \in Ports \cup Ephemeral, uip_udp_new(u, remote, lport)
  PROVE  /\ udp_conns' \in [Conns -> [lport : {0} \cup Ports \cup Ephemeral,
                                      remote : Addresses, app : Socks \cup {NULL}]]
         /\ conn' \in [Socks -> Conns \cup {NULL}]
         /\ \A v \in Socks, c \in Conns : conn'[v] = c <=> udp_conns'[c].app = v
         /\ \A c \in Conns : udp_conns'[c].lport # 0 <=> udp_conns'[c].app # NULL
         /\ \A v \in Socks \ {u} : conn'[v] = conn[v]
         /\ \A v \in Socks \ {u} : conn[v] # NULL => Remote(v)' = Remote(v)
         /\ Remote(u)' = remote /\ conn'[u] # NULL
<1>1. PICK c \in Conns :
        /\ udp_conns[c].lport = 0
        /\ udp_conns' = [udp_conns EXCEPT ![c] = [lport |-> lport, remote |-> remote, app |-> u]]
        /\ conn' = [conn EXCEPT ![u] = c]
  BY DEF uip_udp_new
<1>2. c # NULL /\ lport # 0 /\ u # NULL
  BY UdpAssumption DEF Conns
<1>3. udp_conns[c].app = NULL
  BY <1>1 DEF IInv, Connected
<1>4. /\ udp_conns'[c] = [lport |-> lport, remote |-> remote, app |-> u]
      /\ \A d \in Conns \ {c} : udp_conns'[d] = udp_conns[d]
      /\ conn'[u] = c /\ \A v \in Socks \ {u} : conn'[v] = conn[v]
  BY <1>1 DEF IInv, Types
<1>5. \A v \in Socks : conn[v] # c
  BY <1>3, UdpAssumption DEF IInv, Connected
<1>6. udp_conns' \in [Conns -> [lport : {0} \cup Ports \cup Ephemeral,
                                remote : Addresses, app : Socks \cup {NULL}]]
  BY <1>1 DEF IInv, Types
<1>7. conn' \in [Socks -> Conns \cup {NULL}]
  BY <1>1 DEF IInv, Types
<1>8. \A d \in Conns : udp_conns[d].app # u
  BY <1>2, UdpAssumption DEF IInv, Connected, Conns
<1>9. ASSUME NEW v \in Socks, NEW d \in Conns
      PROVE  conn'[v] = d <=> udp_conns'[d].app = v
  BY <1>4, <1>5, <1>8 DEF IInv, Connected
<1>10. \A d \in Conns : udp_conns'[d].lport # 0 <=> udp_conns'[d].app # NULL
  BY <1>2, <1>4 DEF IInv, Connected
<1>11. \A v \in Socks \ {u} : conn[v] # NULL => Remote(v)' = Remote(v)
  BY <1>4, <1>5 DEF IInv, Types, Remote
<1>12. Remote(u)' = remote
  BY <1>4 DEF Remote
<1> QED BY <1>2, <1>4, <1>6, <1>7, <1>9, <1>10, <1>11, <1>12

\* A step that leaves blocks and remotes alone leaves the datagrams alone.
LEMMA RemotesUnchanged ==
  ASSUME IInv, UNCHANGED <<packet, send, pool, written>>,
         \A v \in Socks : conn[v] # NULL => Remote(v)' = Remote(v)
  PROVE  OutgoingKept' /\ SenderKept'
<1>1. OutgoingKept'
  <2> SUFFICES ASSUME NEW v \in Socks PROVE OutgoingOf(v)'
    BY DEF OutgoingKept
  <2>1. CASE packet[<<v, "out">>] = NOBLOCK
    BY <2>1 DEF IInv, OutgoingKept, OutgoingOf
  <2>2. CASE packet[<<v, "out">>] # NOBLOCK
    <3>1. Remote(v)' = Remote(v)
      BY <2>2, HeldBlock
    <3> QED BY <3>1, OutgoingUnchanged DEF IInv, OutgoingKept
  <2> QED BY <2>1, <2>2
<1>2. SenderKept'
  <2> SUFFICES ASSUME NEW v \in Socks, NEW p \in {"in", "next"},
                      Targets[v] = {}, packet[<<v, p>>] # NOBLOCK
               PROVE  pool[packet[<<v, p>>]].peer = Remote(v)' /\ Remote(v)' \in Peers
    BY DEF SenderKept
  <2>1. conn[v] # NULL
    BY HeldBlock
  <2> QED BY <2>1 DEF IInv, SenderKept
<1> QED BY <1>1, <1>2

\* begin() changes a port, or binds a connection.
LEMMA BeginInvariant ==
  ASSUME IInv, NEW u \in Socks, NEW port \in Ports, Begin(u, port)
  PROVE  IInv'
<1>1. UNCHANGED <<packet, send, pool, arp, written>>
  BY DEF Begin
<1>2. Sizes' /\ OneOwner'
  BY <1>1 DEF IInv, Sizes, OneOwner
<1>3. CASE UNCHANGED <<udp_conns, conn>>
  <2>1. Types' /\ Connected'
    BY <1>1, <1>3 DEF IInv, Types, Connected
  <2> QED BY <1>1, <1>2, <1>3, <2>1, RemotesUnchanged DEF IInv, Remote
<1>4. CASE conn[u] = NULL /\ uip_udp_new(u, ANY, port)
  <2>1. /\ udp_conns' \in [Conns -> [lport : {0} \cup Ports \cup Ephemeral,
                                     remote : Addresses, app : Socks \cup {NULL}]]
        /\ conn' \in [Socks -> Conns \cup {NULL}]
        /\ \A v \in Socks, c \in Conns : conn'[v] = c <=> udp_conns'[c].app = v
        /\ \A c \in Conns : udp_conns'[c].lport # 0 <=> udp_conns'[c].app # NULL
        /\ \A v \in Socks \ {u} : conn'[v] = conn[v]
        /\ \A v \in Socks \ {u} : conn[v] # NULL => Remote(v)' = Remote(v)
        /\ conn'[u] # NULL
    BY <1>4, NewConnection DEF Addresses
  <2>2. Types' /\ Connected'
    BY <1>1, <2>1 DEF IInv, Types, Connected
  <2>3. \A v \in Socks : conn[v] # NULL => Remote(v)' = Remote(v)
    BY <1>4, <2>1
  <2> QED BY <1>1, <1>2, <2>2, <2>3, RemotesUnchanged DEF IInv
<1>5. CASE /\ conn[u] # NULL
           /\ udp_conns' = [udp_conns EXCEPT ![conn[u]].lport = port]
           /\ UNCHANGED conn
  <2>1. conn[u] \in Conns /\ port # 0 /\ udp_conns[conn[u]].app = u /\ u # NULL
    BY <1>5, UdpAssumption DEF IInv, Types, Connected
  <2>2. /\ udp_conns' \in [Conns -> [lport : {0} \cup Ports \cup Ephemeral,
                                     remote : Addresses, app : Socks \cup {NULL}]]
        /\ \A c \in Conns : /\ udp_conns'[c].remote = udp_conns[c].remote
                            /\ udp_conns'[c].app = udp_conns[c].app
                            /\ udp_conns'[c].lport = IF c = conn[u] THEN port ELSE udp_conns[c].lport
    BY <1>5, <2>1 DEF IInv, Types
  <2>3. Types' /\ Connected'
    BY <1>1, <1>5, <2>1, <2>2 DEF IInv, Types, Connected
  <2>4. \A v \in Socks : conn[v] # NULL => Remote(v)' = Remote(v)
    BY <1>5, <2>2 DEF IInv, Types, Remote
  <2> QED BY <1>1, <1>2, <2>3, <2>4, RemotesUnchanged DEF IInv
<1> QED BY <1>3, <1>4, <1>5 DEF Begin

\* stop() gives back all a socket holds.
LEMMA StopInvariant ==
  ASSUME IInv, NEW u \in Socks, Stop(u)
  PROVE  IInv'
<1>1. /\ conn[u] # NULL
      /\ udp_conns' = [udp_conns EXCEPT ![conn[u]].lport = 0, ![conn[u]].app = NULL]
      /\ conn' = [conn EXCEPT ![u] = NULL]
      /\ pool' = Freed(HeldBy(u))
      /\ packet' = [x \in Slots |-> IF x[1] = u THEN NOBLOCK ELSE packet[x]]
      /\ send' = [send EXCEPT ![u] = FALSE]
      /\ written' = [written EXCEPT ![u] = NULL]
      /\ UNCHANGED arp
  BY DEF Stop
<1> DEFINE c == conn[u]
<1>2. c \in Conns /\ udp_conns[c].app = u /\ u # NULL
  BY <1>1, UdpAssumption DEF IInv, Types, Connected
<1>3. \A v \in Socks, p \in {"in", "next", "out"} :
        /\ <<v, p>> \in Slots
        /\ packet'[<<v, p>>] = IF v = u THEN NOBLOCK ELSE packet[<<v, p>>]
  BY <1>1 DEF Slots
<1>4. \A g \in Handles : pool'[g] = IF g \in HeldBy(u) THEN Free ELSE pool[g]
  BY <1>1 DEF Freed
<1>5. /\ udp_conns' \in [Conns -> [lport : {0} \cup Ports \cup Ephemeral,
                                   remote : Addresses, app : Socks \cup {NULL}]]
      /\ \A d \in Conns \ {c} : udp_conns'[d] = udp_conns[d]
      /\ udp_conns'[c].lport = 0 /\ udp_conns'[c].app = NULL
  BY <1>1, <1>2 DEF IInv, Types
<1>6. conn'[u] = NULL /\ \A v \in Socks \ {u} : conn'[v] = conn[v]
  BY <1>1 DEF IInv, Types
<1>7. \A v \in Socks \ {u} : conn[v] # c
  BY <1>2 DEF IInv, Connected
<1>8. \A v \in Socks \ {u} : conn[v] # NULL => Remote(v)' = Remote(v)
  BY <1>5, <1>6, <1>7 DEF IInv, Types, Remote
<1>9. Types'
  BY <1>1, <1>5 DEF IInv, Types, Freed
<1>10. Sizes'
  BY <1>4 DEF IInv, Sizes
<1>11. Connected'
  <2>1. ASSUME NEW v \in Socks, NEW d \in Conns
        PROVE  conn'[v] = d <=> udp_conns'[d].app = v
    <3>1. d # NULL /\ v # NULL
      BY UdpAssumption DEF Conns
    <3> QED BY <1>2, <1>5, <1>6, <1>7, <3>1 DEF IInv, Connected
  <2>2. \A d \in Conns : udp_conns'[d].lport # 0 <=> udp_conns'[d].app # NULL
    BY <1>5 DEF IInv, Connected
  <2>3. ASSUME NEW v \in Socks, NEW p \in {"in", "next", "out"}, conn'[v] = NULL
        PROVE  packet'[<<v, p>>] = NOBLOCK
    BY <1>3, <1>6, <2>3 DEF IInv, Connected
  <2> QED BY <2>1, <2>2, <2>3 DEF Connected
<1>12. ASSUME NEW v \in Socks \ {u}, NEW p \in {"in", "next", "out"}, packet[<<v, p>>] # NOBLOCK
       PROVE  /\ packet[<<v, p>>] \notin HeldBy(u)
              /\ pool'[packet[<<v, p>>]] = pool[packet[<<v, p>>]]
  <2>1. packet[<<v, p>>] \in Handles
    BY <1>12, HeldBlock
  <2>2. \A q \in {"in", "next", "out"} : packet[<<v, p>>] # packet[<<u, q>>]
    BY <1>12, HeldApart
  <2> QED BY <1>4, <2>1, <2>2 DEF HeldBy
<1>13. OneOwner'
  <2>1. ASSUME NEW x \in Slots, packet'[x] # NOBLOCK
        PROVE  packet'[x] = packet[x] /\ pool'[packet'[x]] # Free
    <3>1. PICK v \in Socks, p \in {"in", "next", "out"} : x = <<v, p>>
      BY DEF Slots
    <3>2. v # u /\ packet'[x] = packet[x]
      BY <1>3, <2>1, <3>1
    <3>3. pool'[packet[x]] = pool[packet[x]]
      BY <1>12, <2>1, <3>1, <3>2
    <3> QED BY <2>1, <3>2, <3>3 DEF IInv, OneOwner
  <2>2. \A x, y \in Slots : packet'[x] # NOBLOCK /\ packet'[x] = packet'[y] => x = y
    BY <2>1 DEF IInv, OneOwner
  <2>3. ASSUME NEW g \in Handles, pool'[g] # Free
        PROVE  \E x \in Slots : packet'[x] = g
    <3>1. g \notin HeldBy(u) /\ pool[g] # Free
      BY <1>4, <2>3
    <3>2. PICK x \in Slots : packet[x] = g
      BY <3>1 DEF IInv, OneOwner
    <3>3. PICK v \in Socks, p \in {"in", "next", "out"} : x = <<v, p>>
      BY DEF Slots
    <3>4. v # u
      BY <3>1, <3>2, <3>3 DEF HeldBy
    <3> QED BY <1>3, <3>2, <3>3, <3>4
  <2> QED BY <2>1, <2>2, <2>3 DEF OneOwner
<1>14. OutgoingKept'
  <2> SUFFICES ASSUME NEW v \in Socks PROVE OutgoingOf(v)'
    BY DEF OutgoingKept
  <2>1. CASE v = u
    <3>1. packet'[<<u, "out">>] = NOBLOCK
      BY <1>3
    <3>2. written'[u] = NULL /\ ~send'[u]
      BY <1>1 DEF IInv, Types
    <3> QED BY <2>1, <3>1, <3>2 DEF OutgoingOf
  <2>2. CASE v # u
    <3>1. packet'[<<v, "out">>] = packet[<<v, "out">>] /\ written'[v] = written[v] /\ send'[v] = send[v]
      BY <1>1, <1>3, <2>2 DEF IInv, Types
    <3>2. CASE packet[<<v, "out">>] = NOBLOCK
      BY <3>1, <3>2 DEF IInv, OutgoingKept, OutgoingOf
    <3>3. CASE packet[<<v, "out">>] # NOBLOCK
      <4>1. Remote(v)' = Remote(v)
        BY <1>8, <2>2, <3>3, HeldBlock
      <4>2. pool'[packet[<<v, "out">>]] = pool[packet[<<v, "out">>]]
        BY <1>12, <2>2, <3>3
      <4> QED BY <3>1, <4>1, <4>2, OutgoingUnchanged DEF IInv, OutgoingKept
    <3> QED BY <3>2, <3>3
  <2> QED BY <2>1, <2>2
<1>15. SenderKept'
  <2> SUFFICES ASSUME NEW v \in Socks, NEW p \in {"in", "next"},
                      Targets[v] = {}, packet'[<<v, p>>] # NOBLOCK
               PROVE  pool'[packet'[<<v, p>>]].peer = Remote(v)' /\ Remote(v)' \in Peers
    BY DEF SenderKept
  <2>1. v # u /\ packet'[<<v, p>>] = packet[<<v, p>>]
    BY <1>3
  <2>2. pool'[packet[<<v, p>>]] = pool[packet[<<v, p>>]]
    BY <1>12, <2>1
  <2>3. Remote(v)' = Remote(v)
    BY <1>8, <2>1, HeldBlock
  <2> QED BY <2>1, <2>2, <2>3 DEF IInv, SenderKept
<1> QED BY <1>9, <1>10, <1>11, <1>13, <1>14, <1>15 DEF IInv

\* write() appends to the datagram being built, which has room for it.
LEMMA WriteInvariant ==
  ASSUME IInv, NEW u \in Socks, Building(u), Len(written[u].data) < MaxWritten, Write(u)
  PROVE  IInv'
<1> DEFINE h == packet[<<u, "out">>]
<1>1. /\ h # NOBLOCK
      /\ pool' = [pool EXCEPT ![h].data = Append(@, Unit(u))]
      /\ written' = [written EXCEPT ![u].data = Append(@, Unit(u))]
      /\ UNCHANGED <<udp_conns, conn, arp, packet, send>>
  BY DEF Write, netVars
<1>2. h \in Handles /\ pool[h] \in Blocks /\ pool[h] # Free
  BY <1>1, HeldBlock DEF IInv, OneOwner, Slots
<1>3. OutgoingOf(u) /\ ~send[u] /\ written[u] \in [to : Addresses, data : Units, ended : BOOLEAN]
  BY <1>1 DEF IInv, OutgoingKept, OutgoingOf, Building
<1>4. /\ Append(pool[h].data, Unit(u)) \in Units
      /\ Len(Append(pool[h].data, Unit(u))) = Len(pool[h].data) + 1
      /\ Len(pool[h].data) \in Nat
  BY <1>2 DEF Blocks, Units, Unit
<1>5. /\ pool'[h] = [pool[h] EXCEPT !.data = Append(pool[h].data, Unit(u))]
      /\ \A g \in Handles \ {h} : pool'[g] = pool[g]
      /\ written'[u] = [written[u] EXCEPT !.data = Append(written[u].data, Unit(u))]
      /\ \A v \in Socks \ {u} : written'[v] = written[v]
  BY <1>1, <1>2 DEF IInv, Types
<1>6. /\ pool'[h] \in Blocks
      /\ pool'[h].data = Append(pool[h].data, Unit(u)) /\ pool'[h].size = pool[h].size
  BY <1>2, <1>4, <1>5 DEF Blocks
<1>7. Types'
  BY <1>1, <1>2, <1>5, <1>6 DEF IInv, Types
<1>8. Len(pool'[h].data) <= MaxWritten /\ pool'[h].size = MaxData + Padding
  BY <1>1, <1>3, <1>4, <1>6, UdpAssumption DEF OutgoingOf
<1>9. Sizes'
  <2>1. Len(pool'[h].data) <= pool'[h].size /\ pool'[h].size <= MaxData + Padding
    <3>1. Len(pool'[h].data) \in Nat
      BY <1>4, <1>6
    <3> QED BY <1>8, <3>1, UdpAssumption
  <2> QED BY <1>5, <2>1 DEF IInv, Sizes
<1>10. Connected'
  BY <1>1 DEF IInv, Connected
<1>11. OneOwner'
  <2>1. pool'[h] # Free
    BY <1>6, UdpAssumption DEF Blocks, Units
  <2>2. \A g \in Handles : pool'[g] = Free <=> pool[g] = Free
    BY <1>2, <1>5, <2>1
  <2> QED BY <1>1, <2>2 DEF IInv, OneOwner, Types
<1>12. ASSUME NEW v \in Socks, NEW p \in {"in", "next", "out"},
              packet[<<v, p>>] # NOBLOCK, <<v, p>> # <<u, "out">>
       PROVE  pool'[packet[<<v, p>>]] = pool[packet[<<v, p>>]]
  <2>1. packet[<<v, p>>] \in Handles
    BY <1>12, HeldBlock
  <2>2. packet[<<v, p>>] # h
    BY <1>12, HeldApart
  <2> QED BY <1>5, <2>1, <2>2
<1>13. OutgoingKept'
  <2> SUFFICES ASSUME NEW v \in Socks PROVE OutgoingOf(v)'
    BY DEF OutgoingKept
  <2>1. CASE v = u
    <3>1. /\ written'[u] \in [to : Addresses, data : Units, ended : BOOLEAN]
          /\ written'[u].to = written[u].to /\ written'[u].ended = written[u].ended
          /\ written'[u].data = Append(written[u].data, Unit(u))
      <4>1. written[u].data \in Units /\ Append(written[u].data, Unit(u)) \in Units
        BY <1>1, <1>3, <1>4 DEF OutgoingOf
      <4> QED BY <1>3, <1>5, <4>1
    <3>2. pool'[h].data = written'[u].data
      BY <1>1, <1>3, <1>6, <3>1 DEF OutgoingOf
    <3>3. OneTarget => /\ written'[u].to = Remote(u)' /\ written'[u].to \in Peers
                       /\ Targets[u] # {} => written'[u].to \in Targets[u]
      BY <1>1, <1>3, <3>1 DEF OutgoingOf, Remote
    <3>4. ~send'[u] /\ send'[u] = written'[u].ended /\ packet'[<<u, "out">>] = h
      BY <1>1, <1>3, <3>1 DEF OutgoingOf
    <3> QED BY <1>1, <1>8, <2>1, <3>1, <3>2, <3>3, <3>4 DEF OutgoingOf
  <2>2. CASE v # u
    <3>1. written'[v] = written[v] /\ send'[v] = send[v] /\ Remote(v)' = Remote(v)
      BY <1>1, <1>5, <2>2 DEF Remote
    <3> QED BY <1>1, <1>12, <2>2, <3>1, OutgoingUnchanged DEF IInv, OutgoingKept
  <2> QED BY <2>1, <2>2
<1>14. SenderKept'
  <2> SUFFICES ASSUME NEW v \in Socks, NEW p \in {"in", "next"},
                      Targets[v] = {}, packet'[<<v, p>>] # NOBLOCK
               PROVE  pool'[packet'[<<v, p>>]].peer = Remote(v)' /\ Remote(v)' \in Peers
    BY DEF SenderKept
  <2>1. packet'[<<v, p>>] = packet[<<v, p>>] /\ pool'[packet[<<v, p>>]] = pool[packet[<<v, p>>]]
    BY <1>1, <1>12
  <2> QED BY <1>1, <2>1 DEF IInv, SenderKept, Remote
<1> QED BY <1>7, <1>9, <1>10, <1>11, <1>13, <1>14 DEF IInv

\* read() of part of a datagram.
LEMMA ReadPartInvariant ==
  ASSUME IInv, NEW u \in Socks, NEW n \in Nat, packet[<<u, "in">>] # NOBLOCK,
         n < Len(pool[packet[<<u, "in">>]].data),
         pool' = [pool EXCEPT ![packet[<<u, "in">>]].data = SubSeq(@, n + 1, Len(@)),
                              ![packet[<<u, "in">>]].size = @ - n],
         UNCHANGED <<netVars, packet, send, written>>
  PROVE  IInv'
<1> DEFINE h == packet[<<u, "in">>]
<1>1. UNCHANGED <<udp_conns, conn, arp, packet, send, written>>
  BY DEF netVars
<1>2. h \in Handles /\ pool[h] \in Blocks /\ pool[h] # Free
  BY HeldBlock DEF IInv, OneOwner, Slots
<1>3. pool[h].data \in Units /\ Len(pool[h].data) \in Nat /\ pool[h].size \in Nat
  BY <1>2 DEF Blocks, Units
<1>4. /\ SubSeq(pool[h].data, n + 1, Len(pool[h].data)) \in Units
      /\ Len(SubSeq(pool[h].data, n + 1, Len(pool[h].data))) = Len(pool[h].data) - n
  <2>1. \A i \in n + 1 .. Len(pool[h].data) : pool[h].data[i] \in Peers \cup Socks
    BY <1>3 DEF Units
  <2>2. n + 1 \in Int /\ Len(pool[h].data) \in Int /\ n + 1 <= Len(pool[h].data)
    BY <1>3
  <2> HIDE DEF h
  <2> QED BY <1>3, <2>1, <2>2, SubSeqProperties DEF Units
<1>5. Len(pool[h].data) <= pool[h].size /\ pool[h].size <= MaxData + Padding
  BY <1>2 DEF IInv, Sizes
<1>6. /\ pool'[h] = [pool[h] EXCEPT !.data = SubSeq(pool[h].data, n + 1, Len(pool[h].data)),
                                    !.size = pool[h].size - n]
      /\ \A g \in Handles \ {h} : pool'[g] = pool[g]
      /\ DOMAIN pool' = Handles /\ pool' = [g \in Handles |-> pool'[g]]
  BY <1>2 DEF IInv, Types
<1>7. /\ pool'[h] \in Blocks /\ pool'[h].peer = pool[h].peer
      /\ Len(pool'[h].data) <= pool'[h].size /\ pool'[h].size <= MaxData + Padding
  <2> DEFINE rest == SubSeq(pool[h].data, n + 1, Len(pool[h].data))
         len == Len(pool[h].data)
         size == pool[h].size
  <2>1. /\ len \in Nat /\ size \in Nat /\ n < len /\ len <= size /\ size <= MaxData + Padding
        /\ Len(rest) = len - n /\ MaxData + Padding \in Nat
    BY <1>3, <1>4, <1>5, UdpAssumption
  <2>2. size - n \in Nat /\ Len(rest) <= size - n /\ size - n <= MaxData + Padding
    <3> HIDE DEF len, size, rest
    <3> QED BY <2>1
  <2>3. /\ pool'[h] \in Blocks /\ pool'[h].peer = pool[h].peer
        /\ pool'[h].data = rest /\ pool'[h].size = pool[h].size - n
    BY <1>2, <1>4, <1>6, <2>2 DEF Blocks
  <2> QED BY <2>2, <2>3
<1>8. Types'
  BY <1>1, <1>2, <1>6, <1>7 DEF IInv, Types
<1>9. Sizes'
  BY <1>6, <1>7 DEF IInv, Sizes
<1>10. Connected'
  BY <1>1 DEF IInv, Connected
<1>11. OneOwner'
  <2>1. pool'[h] # Free
    BY <1>7, UdpAssumption DEF Blocks, Units
  <2>2. \A g \in Handles : pool'[g] = Free <=> pool[g] = Free
    BY <1>2, <1>6, <2>1
  <2>3. OneOwner /\ \A x \in Slots : packet[x] \in Handles \cup {NOBLOCK}
    BY DEF IInv, Types
  <2>4. packet' = packet
    BY <1>1
  <2>5. \A x \in Slots : packet'[x] # NOBLOCK => pool'[packet'[x]] # Free
    BY <2>2, <2>3, <2>4 DEF OneOwner
  <2>6. \A g \in Handles : pool'[g] # Free => \E x \in Slots : packet'[x] = g
    BY <2>2, <2>3, <2>4 DEF OneOwner
  <2> QED BY <2>3, <2>4, <2>5, <2>6 DEF OneOwner
<1>12. ASSUME NEW v \in Socks, NEW p \in {"in", "next", "out"},
              packet[<<v, p>>] # NOBLOCK, <<v, p>> # <<u, "in">>
       PROVE  pool'[packet[<<v, p>>]] = pool[packet[<<v, p>>]]
  <2>1. packet[<<v, p>>] \in Handles
    BY <1>12, HeldBlock
  <2>2. packet[<<v, p>>] # h
    BY <1>12, HeldApart
  <2> QED BY <1>6, <2>1, <2>2
<1>13. OutgoingKept'
  <2> SUFFICES ASSUME NEW v \in Socks PROVE OutgoingOf(v)'
    BY DEF OutgoingKept
  <2>1. Remote(v)' = Remote(v) /\ <<v, "out">> # <<u, "in">>
    BY <1>1 DEF Remote
  <2> QED BY <1>1, <1>12, <2>1, OutgoingUnchanged DEF IInv, OutgoingKept
<1>14. SenderKept'
  <2> SUFFICES ASSUME NEW v \in Socks, NEW p \in {"in", "next"},
                      Targets[v] = {}, packet'[<<v, p>>] # NOBLOCK
               PROVE  pool'[packet'[<<v, p>>]].peer = Remote(v)' /\ Remote(v)' \in Peers
    BY DEF SenderKept
  <2>1. pool'[packet[<<v, p>>]].peer = pool[packet[<<v, p>>]].peer
    <3>1. CASE <<v, p>> = <<u, "in">>
      BY <1>7, <3>1
    <3>2. CASE <<v, p>> # <<u, "in">>
      BY <1>1, <1>12, <3>2
    <3> QED BY <3>1, <3>2
  <2> QED BY <1>1, <2>1 DEF IInv, SenderKept, Remote
<1> QED BY <1>8, <1>9, <1>10, <1>11, <1>13, <1>14 DEF IInv
\* beginPacket has set the remote, and takes a block for the datagram if there is
\* none; a datagram that still waits must be for the same address.
LEMMA NewPacketInvariant ==
  ASSUME IInv, NEW u \in Socks, NEW to \in Addresses, NewPacket(u, to),
         UNCHANGED <<send, arp>>,
         udp_conns' \in [Conns -> [lport : {0} \cup Ports \cup Ephemeral,
                                   remote : Addresses, app : Socks \cup {NULL}]],
         conn' \in [Socks -> Conns \cup {NULL}],
         \A v \in Socks, c \in Conns : conn'[v] = c <=> udp_conns'[c].app = v,
         \A c \in Conns : udp_conns'[c].lport # 0 <=> udp_conns'[c].app # NULL,
         \A v \in Socks \ {u} : conn'[v] = conn[v],
         \A v \in Socks \ {u} : conn[v] # NULL => Remote(v)' = Remote(v),
         Remote(u)' = to, conn'[u] # NULL,
         OneTarget => to \in Peers /\ (Targets[u] # {} => to \in Targets[u]),
         OneTarget /\ packet[<<u, "out">>] # NOBLOCK => written[u].to = to,
         Targets[u] = {} /\ conn[u] # NULL => to = Remote(u)
  PROVE  IInv'
<1> DEFINE b == [peer |-> NULL, data |-> <<>>, size |-> MaxData + Padding]
           w == [to |-> to, data |-> <<>>, ended |-> FALSE]
<1>1. <<u, "out">> \in Slots
  BY DEF Slots
<1>2. /\ b \in Blocks /\ w \in [to : Addresses, data : Units, ended : BOOLEAN]
      /\ Len(b.data) = 0 /\ MaxData + Padding \in Nat /\ 0 <= MaxWritten
  BY UdpAssumption DEF Blocks, Units
<1>3. /\ OneOwner'
      /\ pool' \in [Handles -> Blocks \cup {Free}]
      /\ packet' \in [Slots -> Handles \cup {NOBLOCK}]
      /\ Sizes'
      /\ \A y \in Slots : y # <<u, "out">> =>
           /\ packet'[y] = packet[y]
           /\ packet[y] # NOBLOCK => pool'[packet[y]] = pool[packet[y]]
      /\ \A v \in Socks \ {u} : written'[v] = written[v]
      /\ DOMAIN written' = Socks
      /\ \/ UNCHANGED <<pool, packet, written>>
         \/ /\ packet[<<u, "out">>] = NOBLOCK /\ packet'[<<u, "out">>] # NOBLOCK
            /\ pool'[packet'[<<u, "out">>]] = b /\ written'[u] = w
  <2>1. CASE UNCHANGED <<pool, packet, written>>
    BY <2>1 DEF IInv, OneOwner, Types, Sizes
  <2>2. ASSUME packet[<<u, "out">>] = NOBLOCK, NEW h \in Handles, FirstFree(h),
               pool' = [pool EXCEPT ![h] = b],
               packet' = [packet EXCEPT ![<<u, "out">>] = h],
               written' = [written EXCEPT ![u] = w]
        PROVE  <1>3
    <3>1. /\ OneOwner'
          /\ pool' \in [Handles -> Blocks \cup {Free}]
          /\ packet' \in [Slots -> Handles \cup {NOBLOCK}]
          /\ \A y \in Slots : y # <<u, "out">> =>
               /\ packet'[y] = packet[y]
               /\ packet[y] # NOBLOCK => pool'[packet[y]] = pool[packet[y]]
      BY <1>1, <1>2, <2>2, TakenOwner
    <3>2. /\ pool'[h] = b /\ packet'[<<u, "out">>] = h /\ h # NOBLOCK
          /\ \A g \in Handles \ {h} : pool'[g] = pool[g]
          /\ written'[u] = w /\ DOMAIN written' = Socks
          /\ \A v \in Socks \ {u} : written'[v] = written[v]
      BY <1>1, <2>2, UdpAssumption DEF IInv, Types
    <3>3. Len(b.data) <= b.size /\ b.size <= MaxData + Padding
      BY <1>2
    <3>4. Sizes'
      BY <3>2, <3>3 DEF IInv, Sizes
    <3> QED BY <2>2, <3>1, <3>2, <3>4
  <2> QED BY <2>1, <2>2 DEF NewPacket
<1>4. Types'
  BY <1>3 DEF IInv, Types
<1>5. Connected'
  <2> SUFFICES ASSUME NEW v \in Socks, NEW p \in {"in", "next", "out"}, conn'[v] = NULL
               PROVE  packet'[<<v, p>>] = NOBLOCK
    BY DEF Connected
  <2>1. v # u /\ packet[<<v, p>>] = NOBLOCK
    BY DEF IInv, Connected
  <2>2. <<v, p>> \in Slots /\ <<v, p>> # <<u, "out">>
    BY <2>1 DEF Slots
  <2> QED BY <1>3, <2>1, <2>2
<1>6. OutgoingKept'
  <2> SUFFICES ASSUME NEW v \in Socks PROVE OutgoingOf(v)'
    BY DEF OutgoingKept
  <2>1. OutgoingOf(v)
    BY DEF IInv, OutgoingKept
  <2>2. CASE v # u
    <3>1. <<v, "out">> \in Slots /\ <<v, "out">> # <<u, "out">>
      BY <2>2 DEF Slots
    <3>2. /\ packet'[<<v, "out">>] = packet[<<v, "out">>]
          /\ packet[<<v, "out">>] # NOBLOCK => pool'[packet[<<v, "out">>]] = pool[packet[<<v, "out">>]]
          /\ written'[v] = written[v] /\ send'[v] = send[v]
      BY <1>3, <2>2, <3>1
    <3>3. CASE packet[<<v, "out">>] = NOBLOCK
      BY <2>1, <3>2, <3>3 DEF OutgoingOf
    <3>4. CASE packet[<<v, "out">>] # NOBLOCK
      <4>1. Remote(v)' = Remote(v)
        BY <2>2, <3>4, HeldBlock
      <4> QED BY <2>1, <3>2, <4>1, OutgoingUnchanged
    <3> QED BY <3>3, <3>4
  <2>3. CASE v = u /\ packet[<<u, "out">>] = NOBLOCK
    <3>1. written[u] = NULL /\ ~send[u] /\ send'[u] = FALSE
      BY <2>1, <2>3 DEF OutgoingOf, IInv, Types
    <3>2. CASE packet'[<<u, "out">>] = NOBLOCK
      BY <1>3, <2>3, <3>1, <3>2 DEF OutgoingOf
    <3>3. CASE packet'[<<u, "out">>] # NOBLOCK
      <4>1. pool'[packet'[<<u, "out">>]] = b /\ written'[u] = w
        BY <1>3, <2>3, <3>3
      <4>2. /\ written'[u] \in [to : Addresses, data : Units, ended : BOOLEAN]
            /\ pool'[packet'[<<u, "out">>]].data = written'[u].data
            /\ Len(pool'[packet'[<<u, "out">>]].data) <= MaxWritten
            /\ pool'[packet'[<<u, "out">>]].size = MaxData + Padding
            /\ send'[u] = written'[u].ended
        <5>1. /\ written'[u].data = <<>> /\ written'[u].ended = FALSE
              /\ pool'[packet'[<<u, "out">>]].data = <<>>
              /\ pool'[packet'[<<u, "out">>]].size = MaxData + Padding
          BY <4>1
        <5>2. written'[u] \in [to : Addresses, data : Units, ended : BOOLEAN]
          BY <1>2, <4>1
        <5>3. Len(<<>>) <= MaxWritten
          BY <1>2
        <5> QED BY <3>1, <5>1, <5>2, <5>3
      <4>3. OneTarget => /\ written'[u].to = Remote(u)' /\ written'[u].to \in Peers
                         /\ Targets[u] # {} => written'[u].to \in Targets[u]
        BY <4>1
      <4> QED BY <2>3, <3>1, <3>3, <4>2, <4>3 DEF OutgoingOf
    <3> QED BY <3>2, <3>3
  <2>4. CASE v = u /\ packet[<<u, "out">>] # NOBLOCK
    <3>1. UNCHANGED <<pool, packet, written, send>>
      BY <1>3, <2>4
    <3>2. OneTarget => /\ written[u].to = Remote(u)' /\ written[u].to \in Peers
                       /\ Targets[u] # {} => written[u].to \in Targets[u]
      BY <2>4
    <3>3. LET h == packet[<<u, "out">>]
          IN  /\ written[u] \in [to : Addresses, data : Units, ended : BOOLEAN]
              /\ pool[h].data = written[u].data
              /\ Len(pool[h].data) <= MaxWritten
              /\ pool[h].size = (IF send[u] THEN Len(pool[h].data) ELSE MaxData) + Padding
              /\ send[u] = written[u].ended
      BY <2>1, <2>4 DEF OutgoingOf
    <3> QED BY <2>4, <3>1, <3>2, <3>3 DEF OutgoingOf
  <2> QED BY <2>2, <2>3, <2>4
<1>7. SenderKept'
  <2> SUFFICES ASSUME NEW v \in Socks, NEW p \in {"in", "next"},
                      Targets[v] = {}, packet'[<<v, p>>] # NOBLOCK
               PROVE  pool'[packet'[<<v, p>>]].peer = Remote(v)' /\ Remote(v)' \in Peers
    BY DEF SenderKept
  <2>1. <<v, p>> \in Slots /\ <<v, p>> # <<u, "out">>
    BY DEF Slots
  <2>2. packet'[<<v, p>>] = packet[<<v, p>>] /\ pool'[packet[<<v, p>>]] = pool[packet[<<v, p>>]]
    BY <1>3, <2>1
  <2>3. conn[v] # NULL
    BY <2>2, HeldBlock
  <2>4. Remote(v)' = Remote(v)
    BY <2>3
  <2>5. pool[packet[<<v, p>>]].peer = Remote(v) /\ Remote(v) \in Peers
    BY <2>2 DEF IInv, SenderKept
  <2> QED BY <2>2, <2>4, <2>5
<1> QED BY <1>3, <1>4, <1>5, <1>6, <1>7 DEF IInv
\* beginPacket sets the remote, of a new connection if there was none.
LEMMA BeginPacketInvariant ==
  ASSUME IInv, NEW u \in Socks, NEW to, ~Building(u), BeginPacket(u, to),
         \/ to \in Targets[u]
         \/ Targets[u] = {} /\ conn[u] # NULL /\ to = Remote(u) /\ to \in Peers
  PROVE  IInv'
<1>1. to \in Addresses /\ Targets[u] \subseteq Peers \cup {BROADCAST}
  BY UdpAssumption DEF Addresses
<1>2. UNCHANGED <<send, arp>>
  BY DEF BeginPacket
<1>3. OneTarget => to \in Peers /\ (Targets[u] # {} => to \in Targets[u])
  BY <1>1 DEF OneTarget
<1>4. OneTarget /\ packet[<<u, "out">>] # NOBLOCK => written[u].to = to
  <2>1. OutgoingOf(u)
    BY DEF IInv, OutgoingKept
  <2> QED BY <2>1 DEF OutgoingOf, OneTarget
<1>5. Targets[u] = {} => to = Remote(u) /\ conn[u] # NULL
  OBVIOUS
<1>6. CASE conn[u] = NULL /\ \E p \in Ephemeral : FreshPort(p) /\ uip_udp_new(u, to, p) /\ NewPacket(u, to)
  <2>1. PICK p \in Ephemeral : uip_udp_new(u, to, p) /\ NewPacket(u, to)
    BY <1>6
  <2>2. /\ udp_conns' \in [Conns -> [lport : {0} \cup Ports \cup Ephemeral,
                                     remote : Addresses, app : Socks \cup {NULL}]]
        /\ conn' \in [Socks -> Conns \cup {NULL}]
        /\ \A v \in Socks, c \in Conns : conn'[v] = c <=> udp_conns'[c].app = v
        /\ \A c \in Conns : udp_conns'[c].lport # 0 <=> udp_conns'[c].app # NULL
        /\ \A v \in Socks \ {u} : conn'[v] = conn[v]
        /\ \A v \in Socks \ {u} : conn[v] # NULL => Remote(v)' = Remote(v)
        /\ Remote(u)' = to /\ conn'[u] # NULL
    BY <1>1, <1>6, <2>1, NewConnection
  <2> QED BY <1>1, <1>2, <1>3, <1>4, <1>5, <2>1, <2>2, NewPacketInvariant
<1>7. CASE /\ conn[u] # NULL
           /\ udp_conns' = [udp_conns EXCEPT ![conn[u]].remote = to]
           /\ UNCHANGED conn
           /\ NewPacket(u, to)
  <2>1. conn[u] \in Conns
    BY <1>7 DEF IInv, Types
  <2>2. /\ udp_conns' \in [Conns -> [lport : {0} \cup Ports \cup Ephemeral,
                                     remote : Addresses, app : Socks \cup {NULL}]]
        /\ udp_conns'[conn[u]].remote = to
        /\ \A c \in Conns : /\ udp_conns'[c].app = udp_conns[c].app
                            /\ udp_conns'[c].lport = udp_conns[c].lport
                            /\ c # conn[u] => udp_conns'[c] = udp_conns[c]
    BY <1>1, <1>7, <2>1 DEF IInv, Types
  <2>3. /\ conn' \in [Socks -> Conns \cup {NULL}]
        /\ \A v \in Socks, c \in Conns : conn'[v] = c <=> udp_conns'[c].app = v
        /\ \A c \in Conns : udp_conns'[c].lport # 0 <=> udp_conns'[c].app # NULL
    BY <1>7, <2>2 DEF IInv, Types, Connected
  <2>4. \A v \in Socks \ {u} : conn[v] # NULL => conn[v] \in Conns /\ conn[v] # conn[u]
    BY <2>1 DEF IInv, Types, Connected
  <2>5. /\ \A v \in Socks \ {u} : conn'[v] = conn[v]
        /\ \A v \in Socks \ {u} : conn[v] # NULL => Remote(v)' = Remote(v)
        /\ Remote(u)' = to /\ conn'[u] # NULL
    BY <1>7, <2>2, <2>4 DEF Remote
  <2> QED BY <1>1, <1>2, <1>3, <1>4, <1>5, <1>7, <2>2, <2>3, <2>5, NewPacketInvariant
<1>8. CASE UNCHANGED <<udp_conns, conn, pool, packet, written>>
  <2>1. Types' /\ Sizes' /\ Connected' /\ OneOwner'
    BY <1>2, <1>8 DEF IInv, Types, Sizes, Connected, OneOwner
  <2> QED BY <1>2, <1>8, <2>1, RemotesUnchanged DEF IInv, Remote
<1> QED BY <1>6, <1>7, <1>8 DEF BeginPacket

\* A poll, and the one endPacket makes, send the datagram or leave it waiting.
LEMMA PollSendInvariant ==
  ASSUME IInv, NEW u \in Socks, packet[<<u, "out">>] # NOBLOCK,
         NEW blocks, blocks = Ended(packet[<<u, "out">>]) \/ (send[u] /\ blocks = pool),
         PollSend(u, blocks), UNCHANGED netVars
  PROVE  IInv'
BY TransmittedInvariant, WaitsInvariant DEF PollSend

\* The calls of the sketch.
LEMMA SketchInvariant ==
  ASSUME IInv, NEW u \in Socks, Sketch(u)
  PROVE  IInv'
<1>1. ASSUME NEW port \in Ports, Begin(u, port) PROVE IInv'
  BY <1>1, BeginInvariant
<1>2. CASE Stop(u)
  BY <1>2, StopInvariant
<1>3. ASSUME NEW to \in Targets[u], ~Building(u), BeginPacket(u, to) PROVE IInv'
  BY <1>3, BeginPacketInvariant
<1>4. CASE /\ Targets[u] = {} /\ ~Building(u) /\ conn[u] # NULL /\ Remote(u) \in Peers
           /\ BeginPacket(u, Remote(u))
  BY <1>4, BeginPacketInvariant
<1>5. CASE Building(u) /\ Len(written[u].data) < MaxWritten /\ Write(u)
  BY <1>5, WriteInvariant
<1>6. CASE EndPacket(u)
  BY <1>6, PollSendInvariant DEF EndPacket
<1>7. CASE ParsePacket(u)
  <2>1. <<u, "in">> \in Slots /\ <<u, "next">> \in Slots /\ <<u, "in">> # <<u, "next">>
    BY DEF Slots
  <2>2. packet'[<<u, "in">>] = packet[<<u, "next">>] /\ packet'[<<u, "next">>] = NOBLOCK
    BY <1>7, <2>1 DEF ParsePacket, IInv, Types
  <2> QED BY <1>7, <2>2, FreedInvariant DEF ParsePacket, FreedByParse
<1>8. ASSUME /\ pool' = Freed({packet[<<u, "in">>]})
             /\ packet' = [packet EXCEPT ![<<u, "in">>] = NOBLOCK]
             /\ UNCHANGED <<netVars, send, written>>
      PROVE  IInv'
  <2>1. <<u, "in">> \in Slots /\ <<u, "next">> \in Slots /\ <<u, "in">> # <<u, "next">>
    BY DEF Slots
  <2>2. packet'[<<u, "in">>] = NOBLOCK /\ packet'[<<u, "next">>] = packet[<<u, "next">>]
    BY <1>8, <2>1 DEF IInv, Types
  <2>3. packet' = [packet EXCEPT ![<<u, "in">>] = packet'[<<u, "in">>], ![<<u, "next">>] = packet'[<<u, "next">>]]
    BY <1>8, <2>1, <2>2 DEF IInv, Types
  <2> QED BY <1>8, <2>2, <2>3, FreedInvariant
<1>9. CASE Read(u, 1)
  <2>1. CASE 1 >= Len(pool[packet[<<u, "in">>]].data)
    BY <1>8, <1>9, <2>1, HeldBlock DEF Read, Blocks, Units
  <2>2. CASE 1 < Len(pool[packet[<<u, "in">>]].data)
    <3>1. /\ packet[<<u, "in">>] # NOBLOCK /\ 1 \in Nat
          /\ ~(1 >= Len(pool[packet[<<u, "in">>]].data))
      BY <1>9, <2>2, HeldBlock DEF Read, Blocks, Units
    <3>2. /\ pool' = [pool EXCEPT ![packet[<<u, "in">>]].data = SubSeq(@, 1 + 1, Len(@)),
                                  ![packet[<<u, "in">>]].size = @ - 1]
          /\ UNCHANGED <<netVars, packet, send, written>>
      BY <1>9, <3>1 DEF Read
    <3> QED BY <2>2, <3>1, <3>2, ReadPartInvariant
  <2> QED BY <1>9, <2>1, <2>2, HeldBlock DEF Read, Blocks, Units
<1>10. CASE Flush(u)
  BY <1>8, <1>10 DEF Flush
<1> QED BY <1>1, <1>2, <1>3, <1>4, <1>5, <1>6, <1>7, <1>9, <1>10 DEF Sketch

\* Every step keeps the invariant.
LEMMA StepInvariant ==
  ASSUME IInv, [Next]_vars
  PROVE  IInv'
<1>1. CASE UNCHANGED vars
  BY <1>1 DEF vars, IInv, Types, Sizes, Connected, OneOwner, OutgoingKept, OutgoingOf, SenderKept, Remote
<1>2. ASSUME NEW from \in Peers, NEW port \in Ports \cup Ephemeral,
             NEW data \in Payloads(from), Receive(from, port, data)
      PROVE  IInv'
  BY <1>2, ReceiveInvariant
<1>3. ASSUME NEW p \in Peers, ArpChange(p)
      PROVE  IInv'
  <2>1. UNCHANGED <<udp_conns, conn, packet, send, pool, written>> /\ arp' \subseteq Peers
    BY <1>3 DEF ArpChange, IInv, Types
  <2>2. Types' /\ Sizes' /\ Connected' /\ OneOwner'
    BY <2>1 DEF IInv, Types, Sizes, Connected, OneOwner
  <2> QED BY <2>1, <2>2, RemotesUnchanged DEF IInv, Remote
<1>4. ASSUME NEW u \in Socks, Sketch(u)
      PROVE  IInv'
  BY <1>4, SketchInvariant
<1>5. ASSUME NEW u \in Socks, Poll(u)
      PROVE  IInv'
  <2>1. packet[<<u, "out">>] # NOBLOCK
    BY <1>5 DEF Poll, IInv, OutgoingKept, OutgoingOf
  <2> QED BY <1>5, <2>1, PollSendInvariant DEF Poll
<1> QED BY <1>1, <1>2, <1>3, <1>4, <1>5 DEF Next, Network

-----------------------------------------------------------------------------

\* The inductive invariant holds in every state.
THEOREM Invariance == Spec => []IInv
<1>1. Init => IInv
  BY InitInvariant
<1>2. IInv /\ [Next]_vars => IInv'
  BY StepInvariant
<1> QED BY <1>1, <1>2, PTL DEF Spec

\* Each block in use has one place in one socket (UIPUdp.cpp:63-76, 204-300, 360-384).
THEOREM BlocksHaveOneOwner == Spec => []OneOwner
<1>1. IInv => OneOwner
  BY DEF IInv
<1> QED BY <1>1, Invariance, PTL

\* A server answers who sent what it reads: remoteIP() is the sender of the
\* current datagram (UIPUdp.cpp:302-307).
THEOREM SenderIsCurrent == Spec => []SenderOfCurrent
<1>1. IInv => SenderOfCurrent
  BY DEF IInv, SenderKept, SenderOfCurrent
<1> QED BY <1>1, Invariance, PTL

\* Every variable has its type, and no block outgrows the size it was taken with
\* (UIPUdp.cpp:165-180, 204-300).
THEOREM TypeCorrect == Spec => []TypeOK
<1>1. ASSUME IInv, NEW h \in Handles, pool[h] # Free
      PROVE  pool[h] \in Block
  <2> DEFINE n == Len(pool[h].data)
  <2>1. pool[h] \in Blocks
    BY <1>1 DEF IInv, Types
  <2>2. n \in Nat /\ pool[h].size \in Nat /\ MaxData + Padding \in Nat
    BY <2>1, UdpAssumption DEF Blocks, Units
  <2>3. n <= pool[h].size /\ pool[h].size <= MaxData + Padding
    BY <1>1 DEF IInv, Sizes
  <2>4. pool[h].data \in [1 .. n -> Peers \cup Socks]
    BY <2>1 DEF Blocks, Units
  <2>5. n \in 0 .. MaxData + Padding /\ pool[h].size \in 0 .. MaxData + Padding
    BY <2>2, <2>3
  <2>6. pool[h].data \in UNION {[1 .. m -> Peers \cup Socks] : m \in 0 .. MaxData + Padding}
    BY <2>4, <2>5
  <2> QED BY <2>1, <2>5, <2>6 DEF Block, Blocks
<1>2. IInv => TypeOK
  BY <1>1 DEF IInv, Types, TypeOK, Addresses
<1> QED BY <1>2, Invariance, PTL

\* Only a transmission sends, and only the datagram of the socket that is polled.
LEMMA SendingStep ==
  ASSUME IInv, Next, sent' # NULL
  PROVE  \E u \in Socks : packet[<<u, "out">>] # NOBLOCK /\ Transmitted(u)
<1>1. ASSUME NEW u \in Socks, Poll(u)
      PROVE  packet[<<u, "out">>] # NOBLOCK /\ Transmitted(u)
  BY <1>1 DEF Poll, PollSend, Waits, IInv, OutgoingKept, OutgoingOf
<1>2. ASSUME NEW u \in Socks, Sketch(u)
      PROVE  packet[<<u, "out">>] # NOBLOCK /\ Transmitted(u)
  BY <1>2 DEF Sketch, Begin, Stop, BeginPacket, Write, EndPacket, PollSend, Waits,
              ParsePacket, Read, Flush
<1> QED BY <1>1, <1>2 DEF Next, Network, Receive, ArpChange

\* What leaves is what was written, to where the sketch meant it, if each sketch
\* sends to one peer or answers (UIPUdp.cpp:165-180, 343-385).  Without that
\* restriction it does not hold: beginPacket to another peer redirects a datagram
\* that waits.
THEOREM SentIsWritten == ASSUME OneTarget PROVE Spec => SentAsWritten
<1>1. ASSUME IInv, [Next]_vars
      PROVE  [sent' # NULL => /\ written[sent'.sock].to = sent'.to
                              /\ written[sent'.sock].data = sent'.data]_vars
  <2> SUFFICES ASSUME Next, sent' # NULL
               PROVE  written[sent'.sock].to = sent'.to /\ written[sent'.sock].data = sent'.data
    BY <1>1
  <2>1. PICK u \in Socks : packet[<<u, "out">>] # NOBLOCK /\ Transmitted(u)
    BY <1>1, SendingStep
  <2>2. sent' = [sock |-> u, to |-> Remote(u), data |-> pool[packet[<<u, "out">>]].data]
    BY <2>1 DEF Transmitted
  <2>3. written[u].to = Remote(u) /\ written[u].data = pool[packet[<<u, "out">>]].data
    BY <1>1, <2>1 DEF IInv, OutgoingKept, OutgoingOf
  <2> QED BY <2>2, <2>3
<1> QED BY <1>1, Invariance, PTL DEF Spec, SentAsWritten

\* No block is resized beyond its end, as MemoryPool takes for granted
\* (UIPUdp.cpp:171, 273; mempool.cpp:148-162).
THEOREM ResizesAreInside == Spec => ResizedInside
<1>1. ASSUME IInv, Next, NEW h \in Handles, pool[h] # Free, pool'[h] # Free
      PROVE  pool'[h].size <= pool[h].size
  <2>1. /\ pool \in [Handles -> Blocks \cup {Free}] /\ pool[h] \in Blocks
        /\ pool[h].size \in Nat /\ Len(pool[h].data) \in Nat
    BY <1>1 DEF IInv, Types, Blocks, Units
  <2>2. ASSUME pool'[h] = pool[h] PROVE pool'[h].size <= pool[h].size
    BY <2>1, <2>2
  <2>3. ASSUME NEW S, pool' = Freed(S) PROVE pool'[h].size <= pool[h].size
    BY <1>1, <2>2, <2>3 DEF Freed
  <2>4. ASSUME NEW g \in Handles, FirstFree(g), NEW b, pool' = [pool EXCEPT ![g] = b]
        PROVE  pool'[h].size <= pool[h].size
    BY <1>1, <2>1, <2>2, <2>4 DEF FirstFree
  <2>5. ASSUME NEW from \in Peers, NEW port, NEW data, Receive(from, port, data)
        PROVE  pool'[h].size <= pool[h].size
    BY <2>2, <2>4, <2>5 DEF Receive, Stored
  <2>6. ASSUME NEW u \in Socks, Poll(u) PROVE pool'[h].size <= pool[h].size
    BY <2>2, <2>3, <2>6 DEF Poll, PollSend, Transmitted, Waits
  <2>7. ASSUME NEW u \in Socks, Sketch(u) PROVE pool'[h].size <= pool[h].size
    <3>1. ASSUME NEW to, BeginPacket(u, to) PROVE pool'[h].size <= pool[h].size
      BY <2>2, <2>4, <3>1 DEF BeginPacket, NewPacket
    <3>2. CASE Stop(u) \/ ParsePacket(u) \/ Flush(u)
      BY <2>3, <3>2 DEF Stop, ParsePacket, Flush
    <3>3. ASSUME NEW port, Begin(u, port) PROVE pool'[h].size <= pool[h].size
      BY <2>2, <3>3 DEF Begin
    <3>4. CASE Write(u)
      BY <2>1, <2>2, <3>4 DEF Write
    <3>5. CASE Building(u) /\ EndPacket(u)
      <4> DEFINE o == packet[<<u, "out">>]
      <4>1. o \in Handles /\ o # NOBLOCK /\ pool[o] \in Blocks
        BY <1>1, <3>5, HeldBlock DEF EndPacket
      <4>2. Len(pool[o].data) <= MaxWritten /\ pool[o].size = MaxData + Padding
        BY <1>1, <3>5, <4>1 DEF Building, IInv, OutgoingKept, OutgoingOf
      <4>3. Len(pool[o].data) \in Nat /\ Len(pool[o].data) + Padding <= pool[o].size
        BY <4>1, <4>2, UdpAssumption DEF Blocks, Units
      <4>4. pool' = Freed({o}) \/ pool' = Ended(o)
        BY <3>5 DEF EndPacket, PollSend, Transmitted, Waits
      <4>5. CASE pool' = Ended(o)
        <5>1. CASE h = o
          BY <2>1, <4>3, <4>5, <5>1 DEF Ended
        <5>2. CASE h # o
          BY <2>1, <2>2, <4>5, <5>2 DEF Ended
        <5> QED BY <5>1, <5>2
      <4> QED BY <2>3, <4>4, <4>5
    <3>6. CASE Read(u, 1)
      <4> DEFINE i == packet[<<u, "in">>]
      <4>1. pool' = Freed({i}) \/ pool' = [pool EXCEPT ![i].data = SubSeq(@, 2, Len(@)), ![i].size = @ - 1]
        BY <3>6 DEF Read
      <4>2. CASE pool' = [pool EXCEPT ![i].data = SubSeq(@, 2, Len(@)), ![i].size = @ - 1]
        <5>1. CASE h = i
          BY <2>1, <4>2, <5>1
        <5>2. CASE h # i
          BY <2>1, <2>2, <4>2, <5>2
        <5> QED BY <5>1, <5>2
      <4> QED BY <2>3, <4>1, <4>2
    <3> QED BY <2>7, <3>1, <3>2, <3>3, <3>4, <3>5, <3>6 DEF Sketch
  <2> QED BY <1>1, <2>2, <2>5, <2>6, <2>7 DEF Next, Network, ArpChange
<1>2. ASSUME IInv, [Next]_vars
      PROVE  [\A h \in Handles :
                pool[h] # Free /\ pool'[h] # Free => pool'[h].size <= pool[h].size]_vars
  BY <1>1, <1>2
<1> QED BY <1>2, Invariance, PTL DEF Spec, ResizedInside
=============================================================================
