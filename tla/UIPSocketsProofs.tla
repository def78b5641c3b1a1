-------------------------- MODULE UIPSocketsProofs --------------------------
(***************************************************************************)
(* The invariants of UIPSockets for every number of connections, blocks    *)
(* and retransmissions, every set of remotes and every order of frames,    *)
(* timers, failures and calls.                                             *)
(*                                                                         *)
(* The first half is about a run of uip_process().  The run works on a     *)
(* context, a record of its own; each function of UIPTcp is shown to keep  *)
(* what is true of it.  The second half takes these lemmas to the state    *)
(* between two runs.                                                       *)
(***************************************************************************)
EXTENDS UIPSockets, Sums, SequenceTheorems

-----------------------------------------------------------------------------
(* Types *)

Payloads == {<<>>} \cup {<<r>> : r \in Remotes}

ConnSet ==
  [state : TcpStates, stopped : BOOLEAN, remote : Remotes \cup {NULL},
   rcv_nxt : 0 .. SeqSize - 1, snd_nxt : 0 .. SeqSize - 1, len : 0 .. UIP_TCP_MSS,
   nrtx : 0 .. UIP_MAXRTX, mss : 0 .. UIP_TCP_MSS, initialmss : 0 .. UIP_TCP_MSS,
   app : Socks \cup {NULL}]

OutBlock == {b \in [data : Seq({Unit}), cap : 0 .. UIP_TCP_MSS] : Len(b.data) <= b.cap}
InQueue == {q \in Seq({<<r>> : r \in Remotes}) : Len(q) <= UIP_SOCKET_NUMPACKETS}
OutQueue == {q \in Seq(OutBlock) : Len(q) <= UIP_SOCKET_NUMPACKETS}
SockSet == [state : SUBSET SockFlags, in : InQueue, out : OutQueue, lport : BOOLEAN]

Flags == {"CONNECTED", "NEWDATA", "ACKDATA", "CLOSE", "ABORT", "TIMEDOUT", "POLL", "REXMIT"}
SegFlags == {"SYN", "ACK", "FIN", "RST"}
Sends ==
  {NULL} \cup [remote : Remotes \cup {NULL}, flags : SUBSET SegFlags, seq : Int, data : Seq({Unit})]

Contexts ==
  [conn : ConnSet, socks : [Socks -> SockSet], used : Int, flags : SUBSET Flags,
   slen : 0 .. UIP_TCP_MSS, data : Payloads, packet : BOOLEAN, keep : BOOLEAN,
   sends : Sends, memory : BOOLEAN]

-----------------------------------------------------------------------------
(* What is true of a socket, and of a socket and its connection *)

Held(k) == Len(k.in) + Len(k.out)

\* Belongs to a connection.
Live(k) == k.state # {} /\ "REMOTECLOSED" \notin k.state

\* A socket in use was connected once, a free or closing one holds no data to
\* read, one the remote has closed holds none to send, and every outgoing block
\* but the last is full.
SockSound(k) ==
  /\ k.state # {} => "CONNECTED" \in k.state
  /\ k.state = {} \/ "CLOSE" \in k.state => k.in = <<>>
  /\ "REMOTECLOSED" \in k.state => k.out = <<>>
  /\ \A i \in DOMAIN k.out : i < Len(k.out) => Len(k.out[i].data) = k.out[i].cap

\* The data that wait are the remote's.
FromRemote(k, remote) == \A i \in DOMAIN k.in : k.in[i] = <<remote>>

\* The first outgoing block is closed for writing and n units long.
FirstIs(k, n) == k.out # <<>> /\ Len(k.out[1].data) = n /\ k.out[1].cap = n

\* The callback's part of a connection; the rest of it stays.
SameConn(a, b) ==
  /\ b.state = a.state /\ b.remote = a.remote /\ b.rcv_nxt = a.rcv_nxt /\ b.snd_nxt = a.snd_nxt
  /\ b.len = a.len /\ b.nrtx = a.nrtx /\ b.mss = a.mss /\ b.initialmss = a.initialmss

\* From x to y the callback has worked on socket s and on nothing else, and
\* what it took from the pool or gave back is what the socket gained or lost.
Serves(x, y, s) ==
  /\ y \in Contexts
  /\ SameConn(x.conn, y.conn)
  /\ y.data = x.data /\ y.sends = x.sends
  /\ \A t \in Socks \ {s} : y.socks[t] = x.socks[t]
  /\ y.used - Held(y.socks[s]) = x.used - Held(x.socks[s])

\* The connection has socket s.
Attached(x, s) == x.conn.app = s /\ Live(x.socks[s]) /\ SockSound(x.socks[s])

\* The connection has given socket s back, or left it to the sketch.
Detached(x, s) ==
  x.conn.app = NULL /\ ~Live(x.socks[s]) /\ SockSound(x.socks[s]) /\ x.socks[s].out = <<>>

\* What the callback relies on and keeps: the data are the remote's, and what is
\* in flight is the first block.
Matched(x, s) ==
  /\ FromRemote(x.socks[s], x.conn.remote)
  /\ x.conn.len > 0 => FirstIs(x.socks[s], x.conn.len)

-----------------------------------------------------------------------------
(* The least element of a set of numbers *)

\* Connections and sockets are finitely many.
LEMMA ConnsFinite == IsFiniteSet(Conns)
<1>1. UIP_CONNS - 1 \in Int /\ 0 \in Int
  BY TcpAssumption
<1> QED BY <1>1, FS_Interval DEF Conns

\* A choice of the first connection or socket is one of them.
LEMMA LeastIn ==
  ASSUME NEW S \in SUBSET Conns, S # {}
  PROVE  Least(S) \in S
<1> DEFINE below(n) == {m \in S : m <= n}
           T == {below(n) : n \in S}
<1>1. S \in SUBSET Int
  BY TcpAssumption DEF Conns
<1>2. T \in SUBSET SUBSET Conns /\ T # {}
  OBVIOUS
<1>3. PICK x \in T : \A y \in T : y \subseteq x => y = x
  <2> HIDE DEF T
  <2> QED BY <1>2, ConnsFinite, MinimalSubset
<1>4. PICK n \in S : x = below(n)
  OBVIOUS
<1>5. ASSUME NEW m \in S PROVE n <= m
  <2> SUFFICES ASSUME m < n PROVE FALSE
    BY <1>1
  <2>1. below(m) \in T
    OBVIOUS
  <2>2. below(m) \subseteq below(n)
    <3> SUFFICES ASSUME NEW k \in S, k <= m PROVE k <= n
      OBVIOUS
    <3> QED BY <1>1
  <2>3. n \in below(n) /\ n \notin below(m)
    BY <1>1
  <2> QED BY <1>3, <1>4, <2>1, <2>2, <2>3
<1> QED BY <1>5 DEF Least

-----------------------------------------------------------------------------
(* The callback, function by function *)

\* A context of which the callback has changed its part: what a function of
\* UIPTcp returns is shown to be one of these.
Updated(x, c, s, k, u, f, n, p, e) ==
  [x EXCEPT !.conn = c, !.socks = [x.socks EXCEPT ![s] = k], !.used = u, !.flags = f,
            !.slen = n, !.packet = p, !.keep = e]

\* The number of blocks a socket holds.
LEMMA HeldIs ==
  ASSUME NEW k, NEW p, NEW q, k.in = p, k.out = q, Len(p) \in Nat, Len(q) \in Nat
  PROVE  Held(k) = Len(p) + Len(q) /\ Held(k) \in Nat
<1>1. Held(k) = Len(p) + Len(q)
  BY DEF Held
<1> QED BY <1>1

\* The parts of a socket.
LEMMA SocketParts ==
  ASSUME NEW k \in SockSet
  PROVE  /\ k.state \in SUBSET SockFlags /\ k.in \in InQueue /\ k.out \in OutQueue
         /\ Len(k.in) \in Nat /\ Len(k.out) \in Nat /\ Held(k) \in Nat
<1>1. k.state \in SUBSET SockFlags /\ k.in \in InQueue /\ k.out \in OutQueue
  BY DEF SockSet
<1>2. k.in \in Seq({<<r>> : r \in Remotes}) /\ k.out \in Seq(OutBlock)
  BY <1>1 DEF InQueue, OutQueue
<1>3. Len(k.in) \in Nat /\ Len(k.out) \in Nat
  BY <1>2
<1>4. Held(k) \in Nat
  BY <1>3, HeldIs
<1> QED BY <1>1, <1>3, <1>4

\* The parts of a context.
LEMMA ContextParts ==
  ASSUME NEW x \in Contexts, NEW s \in Socks
  PROVE  /\ x.conn \in ConnSet /\ x.socks \in [Socks -> SockSet] /\ x.socks[s] \in SockSet
         /\ x.used \in Int /\ x.flags \in SUBSET Flags /\ x.slen \in 0 .. UIP_TCP_MSS
         /\ x.data \in Payloads /\ x.packet \in BOOLEAN /\ x.keep \in BOOLEAN /\ x.sends \in Sends
         /\ Held(x.socks[s]) \in Nat
         /\ x.socks[s].state \in SUBSET SockFlags
         /\ x.socks[s].in \in InQueue /\ x.socks[s].out \in OutQueue
<1>1. x.socks \in [Socks -> SockSet]
  BY DEF Contexts
<1>2. x.socks[s] \in SockSet
  BY <1>1
<1>3. Held(x.socks[s]) \in Nat
  BY <1>2, SocketParts
<1> QED BY <1>1, <1>2, <1>3 DEF Contexts, SockSet

\* A function that changes its part of a context as the callback may.
LEMMA ServesBy ==
  ASSUME NEW x \in Contexts, NEW s \in Socks, NEW c \in ConnSet, NEW m \in SockSet,
         NEW f \in SUBSET Flags, NEW n \in 0 .. UIP_TCP_MSS, NEW p \in BOOLEAN, NEW e \in BOOLEAN,
         NEW u \in Int, u = x.used + (Held(m) - Held(x.socks[s])), SameConn(x.conn, c),
         NEW y, y = Updated(x, c, s, m, u, f, n, p, e)
  PROVE  Serves(x, y, s) /\ y.conn = c /\ y.socks[s] = m /\ y.flags = f /\ y.slen = n
<1>1. x.used \in Int /\ Held(x.socks[s]) \in Nat /\ Held(m) \in Nat
  BY ContextParts, SocketParts
<1>2. /\ y \in Contexts /\ y.conn = c /\ y.socks[s] = m /\ y.used = u /\ y.flags = f /\ y.slen = n
      /\ \A t \in Socks \ {s} : y.socks[t] = x.socks[t]
      /\ y.data = x.data /\ y.sends = x.sends
  <2> DEFINE K == [x.socks EXCEPT ![s] = m]
  <2>1. K \in [Socks -> SockSet] /\ K[s] = m /\ \A t \in Socks \ {s} : K[t] = x.socks[t]
    BY DEF Contexts
  <2> HIDE DEF K
  <2>2. y = [x EXCEPT !.conn = c, !.socks = K, !.used = u, !.flags = f, !.slen = n,
                      !.packet = p, !.keep = e]
    BY DEF K, Updated
  <2> QED BY <2>1, <2>2 DEF Contexts
<1>3. y.used - Held(y.socks[s]) = x.used - Held(x.socks[s])
  BY <1>1, <1>2
<1> QED BY <1>2, <1>3 DEF Serves

\* UIP_NEWDATA: the data go to a block of their own, or the frame is kept.
LEMMA NewDataServes ==
  ASSUME NEW x \in Contexts, NEW s \in Socks, Attached(x, s), NEW y, y = NewData(x)
  PROVE  /\ Serves(x, y, s) /\ Attached(y, s)
         /\ y.slen = x.slen /\ y.flags = x.flags
         /\ y.socks[s].out = x.socks[s].out
         /\ FromRemote(x.socks[s], x.conn.remote) /\ x.data \in {<<>>, <<x.conn.remote>>}
              => FromRemote(y.socks[s], x.conn.remote)
<1> USE TcpAssumption
<1> DEFINE k == x.socks[s]
<1>1. /\ x.conn \in ConnSet /\ k \in SockSet /\ k.in \in InQueue /\ x.used \in Int
      /\ x.data \in Payloads /\ Held(k) \in Nat
  BY ContextParts
<1>2. x.conn.app = s /\ Live(k) /\ SockSound(k)
  BY DEF Attached
<1>3. CASE y = x
  BY <1>3, <1>1 DEF Serves, SameConn
<1>4. CASE y = [x EXCEPT !.keep = TRUE, !.conn.stopped = TRUE]
  <2> DEFINE c == [x.conn EXCEPT !.stopped = TRUE]
  <2>1. c \in ConnSet /\ SameConn(x.conn, c) /\ c.app = s
    BY <1>1, <1>2 DEF ConnSet, SameConn
  <2>2. y \in Contexts /\ y.conn = c /\ y.socks = x.socks /\ y.used = x.used /\ y.data = x.data
          /\ y.flags = x.flags /\ y.slen = x.slen /\ y.sends = x.sends
    <3>1. y = [x EXCEPT !.keep = TRUE, !.conn = c]
      BY <1>4 DEF Contexts
    <3> HIDE DEF c
    <3> QED BY <2>1, <3>1 DEF Contexts
  <2> HIDE DEF c
  <2> QED BY <1>1, <1>2, <2>1, <2>2 DEF Serves, Attached
<1>5. CASE /\ x.data # <<>> /\ Len(k.in) < UIP_SOCKET_NUMPACKETS
           /\ k.state \cap {"CLOSE", "REMOTECLOSED"} = {}
           /\ y = [x EXCEPT !.socks[s].in = Append(@, x.data), !.used = @ + 1,
                      !.conn.stopped = @ \/ Len(k.in) = UIP_SOCKET_NUMPACKETS - 1]
  <2> DEFINE c == [x.conn EXCEPT !.stopped = @ \/ Len(k.in) = UIP_SOCKET_NUMPACKETS - 1]
             q == Append(k.in, x.data)
             m == [k EXCEPT !.in = q]
  <2>1. c \in ConnSet /\ SameConn(x.conn, c) /\ c.app = s
    BY <1>1, <1>2 DEF ConnSet, SameConn
  <2>2. q \in InQueue /\ Len(q) = Len(k.in) + 1
    BY <1>1, <1>5 DEF InQueue, Payloads
  <2>3. m \in SockSet /\ m.in = q /\ m.out = k.out /\ m.state = k.state
    BY <1>1, <2>2 DEF SockSet
  <2>4. y = Updated(x, c, s, m, x.used + 1, x.flags, x.slen, x.packet, x.keep)
    BY <1>5 DEF Updated, Contexts
  <2>5. Held(m) = Held(k) + 1
    <3> DEFINE i == k.in
               o == k.out
    <3>1. Len(i) \in Nat /\ Len(o) \in Nat /\ Len(q) = Len(i) + 1
      BY <1>1, <2>2, SocketParts
    <3> HIDE DEF i, o, m, q
    <3>2. Held(k) = Len(i) + Len(o)
      BY <3>1, HeldIs DEF i, o
    <3>3. m.in = q /\ m.out = o
      BY <2>3 DEF o
    <3>4. Held(m) = Len(q) + Len(o)
      BY <3>1, <3>3, HeldIs
    <3> QED BY <3>1, <3>2, <3>4
  <2>6. Live(m) /\ SockSound(m)
    BY <1>2, <1>5, <2>3 DEF Live, SockSound
  <2>7. FromRemote(k, x.conn.remote) /\ x.data \in {<<>>, <<x.conn.remote>>}
          => FromRemote(m, x.conn.remote)
    <3> SUFFICES ASSUME FromRemote(k, x.conn.remote), x.data = <<x.conn.remote>>
                 PROVE  \A i \in DOMAIN q : q[i] = <<x.conn.remote>>
      BY <1>5, <2>3 DEF FromRemote
    <3>1. k.in \in Seq({<<r>> : r \in Remotes})
      BY <1>1 DEF InQueue
    <3> QED BY <3>1, AppendProperties DEF FromRemote
  <2> HIDE DEF c, q, m
  <2>8. /\ x.flags \in SUBSET Flags /\ x.slen \in 0 .. UIP_TCP_MSS
        /\ x.packet \in BOOLEAN /\ x.keep \in BOOLEAN
    BY ContextParts
  <2>9. x.used + 1 \in Int /\ x.used + 1 = x.used + (Held(m) - Held(k))
    BY <1>1, <2>5
  <2>10. Serves(x, y, s) /\ y.conn = c /\ y.socks[s] = m /\ y.flags = x.flags /\ y.slen = x.slen
    BY <2>1, <2>3, <2>4, <2>8, <2>9, ServesBy
  <2> QED BY <1>1, <2>1, <2>3, <2>6, <2>7, <2>10 DEF Attached
<1> QED BY <1>2, <1>3, <1>4, <1>5 DEF NewData, Sock

\* What one function keeps after another, both keep.
LEMMA ServesTransitive ==
  ASSUME NEW x, NEW y, NEW z, NEW s \in Socks, Serves(x, y, s), Serves(y, z, s)
  PROVE  Serves(x, z, s)
BY DEF Serves, SameConn

\* A function that changes nothing keeps everything.
LEMMA ServesItself ==
  ASSUME NEW x \in Contexts, NEW s \in Socks
  PROVE  Serves(x, x, s)
BY DEF Serves, SameConn

\* A restart opens the window again and tells the remote so.
LEMMA RestartServes ==
  ASSUME NEW x \in Contexts, NEW s \in Socks, Attached(x, s), NEW y, y = Restart(x)
  PROVE  /\ Serves(x, y, s) /\ Attached(y, s)
         /\ y.slen = x.slen /\ y.flags \in {x.flags, x.flags \cup {"NEWDATA"}}
         /\ y.socks[s].in = x.socks[s].in /\ y.socks[s].out = x.socks[s].out
<1> DEFINE k == x.socks[s]
<1>1. /\ x.conn \in ConnSet /\ k \in SockSet /\ x.used \in Int /\ Held(k) \in Nat
      /\ x.flags \in SUBSET Flags /\ x.slen \in 0 .. UIP_TCP_MSS
      /\ x.packet \in BOOLEAN /\ x.keep \in BOOLEAN
  BY ContextParts
<1>2. x.conn.app = s /\ Live(k) /\ SockSound(k)
  BY DEF Attached
<1>3. CASE y = x
  BY <1>3, ServesItself
<1>4. CASE y = [x EXCEPT !.socks[s].state = @ \ {"RESTART"},
                         !.flags = @ \cup {"NEWDATA"}, !.conn.stopped = FALSE]
  <2> DEFINE c == [x.conn EXCEPT !.stopped = FALSE]
             m == [k EXCEPT !.state = @ \ {"RESTART"}]
             f == x.flags \cup {"NEWDATA"}
  <2>1. c \in ConnSet /\ SameConn(x.conn, c) /\ c.app = s
    BY <1>1, <1>2 DEF ConnSet, SameConn
  <2>2. m \in SockSet /\ m.in = k.in /\ m.out = k.out /\ m.state = k.state \ {"RESTART"}
    BY <1>1 DEF SockSet
  <2>3. y = Updated(x, c, s, m, x.used, f, x.slen, x.packet, x.keep)
    BY <1>4 DEF Updated, Contexts
  <2>4. Live(m) /\ SockSound(m)
    BY <1>2, <2>2 DEF Live, SockSound
  <2>5. f \in SUBSET Flags
    BY <1>1 DEF Flags
  <2>6. Held(m) = Held(k)
    BY <2>2 DEF Held
  <2>7. x.used = x.used + (Held(m) - Held(k))
    BY <1>1, <2>6
  <2> HIDE DEF c, m, f
  <2>8. Serves(x, y, s) /\ y.conn = c /\ y.socks[s] = m /\ y.flags = f /\ y.slen = x.slen
    BY <1>1, <2>1, <2>2, <2>3, <2>5, <2>7, ServesBy
  <2> QED BY <2>1, <2>2, <2>4, <2>8 DEF Attached, f
<1> QED BY <1>2, <1>3, <1>4 DEF Restart, Sock

\* The remote has closed: the blocks that wait to be sent are freed, and the
\* socket is free, or the sketch's as long as it holds data.
LEMMA DisconnectServes ==
  ASSUME NEW x \in Contexts, NEW s \in Socks, Attached(x, s), NEW y, y = Disconnect(x)
  PROVE  Serves(x, y, s) /\ Detached(y, s) /\ y.slen = x.slen /\ y.flags = x.flags
<1> DEFINE k == x.socks[s]
           i == k.in
           o == k.out
           left == [k EXCEPT !.out = <<>>]
           m == IF left.in = <<>>
                  THEN [left EXCEPT !.state = {}]
                  ELSE [left EXCEPT !.state = @ \cup {"REMOTECLOSED"},
                                    !.lport = x.conn.remote \in Inbound]
           c == [x.conn EXCEPT !.app = NULL]
           u == x.used - Len(o)
<1>1. /\ x.conn \in ConnSet /\ k \in SockSet /\ x.used \in Int /\ Held(k) \in Nat
      /\ x.flags \in SUBSET Flags /\ x.slen \in 0 .. UIP_TCP_MSS
      /\ x.packet \in BOOLEAN /\ x.keep \in BOOLEAN
  BY ContextParts
<1>2. x.conn.app = s /\ Live(k) /\ SockSound(k)
  BY DEF Attached
<1>3. c \in ConnSet /\ SameConn(x.conn, c) /\ c.app = NULL
  BY <1>1 DEF ConnSet, SameConn
<1>4. left \in SockSet /\ left.in = i /\ left.out = <<>> /\ left.state = k.state
  <2>1. <<>> \in OutQueue
    BY TcpAssumption DEF OutQueue
  <2> QED BY <1>1, <2>1 DEF SockSet
<1>5. /\ m \in SockSet /\ m.in = i /\ m.out = <<>>
      /\ m.state = IF i = <<>> THEN {} ELSE k.state \cup {"REMOTECLOSED"}
  <2>1. k.state \cup {"REMOTECLOSED"} \in SUBSET SockFlags /\ {} \in SUBSET SockFlags
    BY <1>1, SocketParts DEF SockFlags
  <2> HIDE DEF left, i
  <2>2. CASE i = <<>>
    <3>1. m = [left EXCEPT !.state = {}]
      BY <1>4, <2>2
    <3> HIDE DEF m
    <3> QED BY <1>4, <2>1, <2>2, <3>1 DEF SockSet
  <2>3. CASE i # <<>>
    <3>1. m = [left EXCEPT !.state = @ \cup {"REMOTECLOSED"}, !.lport = x.conn.remote \in Inbound]
      BY <1>4, <2>3
    <3> HIDE DEF m
    <3> DEFINE r == k.state \cup {"REMOTECLOSED"}
               l == x.conn.remote \in Inbound
    <3>2. m = [left EXCEPT !.state = r, !.lport = l]
      BY <1>4, <3>1 DEF SockSet
    <3>3. l \in BOOLEAN /\ r \in SUBSET SockFlags
      BY <2>1
    <3> HIDE DEF r, l
    <3>4. m \in SockSet /\ m.in = i /\ m.out = <<>> /\ m.state = r
      BY <1>4, <3>2, <3>3 DEF SockSet
    <3> QED BY <2>3, <3>4 DEF r
  <2> QED BY <2>2, <2>3
<1>6. y = Updated(x, c, s, m, u, x.flags, x.slen, x.packet, x.keep)
  <2>1. y = [x EXCEPT !.used = @ - Len(o), !.conn.app = NULL, !.socks[s] = m]
    BY <1>2 DEF Disconnect, Sock
  <2> HIDE DEF m
  <2> QED BY <2>1 DEF Updated, Contexts
<1>7. ~Live(m) /\ SockSound(m)
  BY <1>2, <1>5 DEF Live, SockSound
<1>8. u \in Int /\ u = x.used + (Held(m) - Held(k))
  <2>1. Len(i) \in Nat /\ Len(o) \in Nat
    BY <1>1, SocketParts
  <2> HIDE DEF i, o, m
  <2>2. Held(k) = Len(i) + Len(o)
    BY <2>1, HeldIs DEF i, o
  <2>3. Held(m) = Len(i) + 0
    BY <1>5, <2>1, HeldIs
  <2> QED BY <1>1, <2>1, <2>2, <2>3
<1>9. m \in SockSet
  BY <1>5
<1> HIDE DEF c, m, u
<1>10. Serves(x, y, s) /\ y.conn = c /\ y.socks[s] = m /\ y.flags = x.flags /\ y.slen = x.slen
  <2> HIDE DEF i, o, left
  <2> QED BY <1>1, <1>3, <1>6, <1>8, <1>9, ServesBy
<1> QED BY <1>3, <1>5, <1>7, <1>10 DEF Detached

\* UIP_ACKDATA: the first outgoing block has arrived and is freed.
LEMMA AckedServes ==
  ASSUME NEW x \in Contexts, NEW s \in Socks, Attached(x, s), NEW y, y = Acked(x)
  PROVE  /\ Serves(x, y, s) /\ Attached(y, s)
         /\ y.slen = x.slen /\ y.flags = x.flags
         /\ Matched(x, s) /\ ("ACKDATA" \in x.flags => x.conn.len = 0) => Matched(y, s)
<1> DEFINE k == x.socks[s]
           i == k.in
           o == k.out
<1>1. /\ x.conn \in ConnSet /\ k \in SockSet /\ x.used \in Int /\ Held(k) \in Nat
      /\ x.flags \in SUBSET Flags /\ x.slen \in 0 .. UIP_TCP_MSS
      /\ x.packet \in BOOLEAN /\ x.keep \in BOOLEAN
  BY ContextParts
<1>2. x.conn.app = s /\ Live(k) /\ SockSound(k)
  BY DEF Attached
<1>3. CASE y = x
  BY <1>3, ServesItself
<1>4. CASE /\ "ACKDATA" \in x.flags /\ o # <<>>
           /\ y = [x EXCEPT !.socks[s].out = Tail(@), !.used = @ - 1]
  <2> DEFINE q == Tail(o)
             m == [k EXCEPT !.out = q]
             u == x.used - 1
  <2>1. /\ o \in Seq(OutBlock) /\ Len(o) <= UIP_SOCKET_NUMPACKETS /\ Len(o) \in Nat
    BY <1>1, SocketParts DEF OutQueue
  <2>2. /\ q \in Seq(OutBlock) /\ Len(q) = Len(o) - 1 /\ DOMAIN q = 1 .. Len(q) /\ Len(q) \in Nat
        /\ \A j \in 1 .. Len(q) : q[j] = o[j + 1]
    <3> HIDE DEF o
    <3> QED BY <1>4, <2>1, HeadTailProperties
  <2>3. q \in OutQueue
    <3> HIDE DEF o, q
    <3> QED BY <2>1, <2>2, TcpAssumption DEF OutQueue
  <2>4. m \in SockSet /\ m.in = i /\ m.out = q /\ m.state = k.state
    <3> HIDE DEF q
    <3> QED BY <1>1, <2>3 DEF SockSet
  <2>5. y = Updated(x, x.conn, s, m, u, x.flags, x.slen, x.packet, x.keep)
    BY <1>4 DEF Updated, Contexts
  <2>6. \A j \in DOMAIN q : j < Len(q) => Len(q[j].data) = q[j].cap
    <3> SUFFICES ASSUME NEW j \in DOMAIN q, j < Len(q) PROVE Len(q[j].data) = q[j].cap
      OBVIOUS
    <3>1. j + 1 \in 1 .. Len(o) /\ j + 1 < Len(o) /\ q[j] = o[j + 1] /\ DOMAIN o = 1 .. Len(o)
      <4> HIDE DEF o, q
      <4> QED BY <2>1, <2>2
    <3> QED BY <1>2, <3>1 DEF SockSound
  <2>7. Live(m) /\ SockSound(m)
    <3> HIDE DEF q, m
    <3> QED BY <1>2, <2>4, <2>6 DEF Live, SockSound
  <2>8. u \in Int /\ u = x.used + (Held(m) - Held(k))
    <3>1. Len(i) \in Nat
      BY <1>1, SocketParts
    <3> HIDE DEF i, o, q, m
    <3>2. Held(k) = Len(i) + Len(o)
      BY <2>1, <3>1, HeldIs DEF i, o
    <3>3. Held(m) = Len(i) + Len(q)
      BY <2>2, <2>4, <3>1, HeldIs
    <3> QED BY <1>1, <2>1, <2>2, <3>1, <3>2, <3>3
  <2>9. m \in SockSet /\ SameConn(x.conn, x.conn)
    BY <2>4 DEF SameConn
  <2> HIDE DEF m, u, q, i, o
  <2>10. Serves(x, y, s) /\ y.conn = x.conn /\ y.socks[s] = m /\ y.flags = x.flags /\ y.slen = x.slen
    BY <1>1, <2>5, <2>8, <2>9, ServesBy
  <2>11. Matched(x, s) /\ x.conn.len = 0 => Matched(y, s)
    BY <2>4, <2>10 DEF Matched, FromRemote, i
  <2> QED BY <1>2, <1>4, <2>7, <2>10, <2>11 DEF Attached
<1> QED BY <1>2, <1>3, <1>4 DEF Acked, Sock

\* The first outgoing block is sent: its last one is closed for writing.
LEMMA PrepareServes ==
  ASSUME NEW x \in Contexts, NEW s \in Socks, Attached(x, s), x.socks[s].out # <<>>,
         NEW y, y = Prepare(x)
  PROVE  /\ Serves(x, y, s) /\ Attached(y, s) /\ y.flags = x.flags
         /\ y.slen > 0 => FirstIs(y.socks[s], y.slen)
         /\ Matched(x, s) => Matched(y, s)
<1> DEFINE k == x.socks[s]
           i == k.in
           o == k.out
           b == o[1]
           n == IF Len(o) = 1 THEN Len(b.data) ELSE b.cap
           d == IF Len(o) = 1 /\ n > 0 THEN n ELSE b.cap
           e == [b EXCEPT !.cap = d]
           q == [o EXCEPT ![1] = e]
           m == [k EXCEPT !.out = q]
           p == n > 0 /\ x.memory
<1>1. /\ x.conn \in ConnSet /\ k \in SockSet /\ x.used \in Int /\ Held(k) \in Nat
      /\ x.flags \in SUBSET Flags /\ x.packet \in BOOLEAN /\ x.keep \in BOOLEAN
      /\ x.memory \in BOOLEAN
  BY ContextParts DEF Contexts
<1>2. x.conn.app = s /\ Live(k) /\ SockSound(k)
  BY DEF Attached
<1>3. /\ o \in Seq(OutBlock) /\ Len(o) <= UIP_SOCKET_NUMPACKETS /\ Len(o) \in Nat
      /\ DOMAIN o = 1 .. Len(o) /\ 1 \in DOMAIN o
  <2>1. o \in Seq(OutBlock) /\ Len(o) <= UIP_SOCKET_NUMPACKETS /\ Len(o) \in Nat
    BY <1>1, SocketParts DEF OutQueue
  <2> HIDE DEF o
  <2>2. o # <<>>
    BY DEF o
  <2> QED BY <2>1, <2>2, EmptySeq
<1>4. /\ b \in OutBlock /\ b.data \in Seq({Unit}) /\ Len(b.data) \in Nat
      /\ b.cap \in 0 .. UIP_TCP_MSS /\ Len(b.data) <= b.cap
  <2>1. b \in OutBlock
    <3> HIDE DEF o
    <3> QED BY <1>3
  <2>2. b.data \in Seq({Unit}) /\ b.cap \in 0 .. UIP_TCP_MSS /\ Len(b.data) <= b.cap
    <3> HIDE DEF b
    <3> QED BY <2>1 DEF OutBlock
  <2> HIDE DEF b
  <2> QED BY <2>1, <2>2
<1>5. n \in 0 .. UIP_TCP_MSS /\ d \in 0 .. UIP_TCP_MSS /\ Len(b.data) <= d
  <2> HIDE DEF b, o
  <2> QED BY <1>4, TcpAssumption
<1>6. e \in OutBlock /\ e.data = b.data /\ e.cap = d
  <2> HIDE DEF b, d
  <2> QED BY <1>4, <1>5 DEF OutBlock
<1>7. /\ q \in Seq(OutBlock) /\ Len(q) = Len(o) /\ q[1] = e /\ DOMAIN q = DOMAIN o
      /\ \A j \in DOMAIN o : j # 1 => q[j] = o[j]
  <2> HIDE DEF o, e
  <2> QED BY <1>3, <1>6, ExceptSeq
<1>8. m \in SockSet /\ m.in = i /\ m.out = q /\ m.state = k.state
  <2>1. q \in OutQueue
    <3> HIDE DEF o, q
    <3> QED BY <1>3, <1>7 DEF OutQueue
  <2> HIDE DEF q
  <2> QED BY <1>1, <2>1 DEF SockSet
<1>9. y = Updated(x, x.conn, s, m, x.used, x.flags, n, p, x.keep)
  <2>1. y = [x EXCEPT !.socks[s].out[1].cap = IF Len(o) = 1 /\ n > 0 THEN n ELSE @,
                      !.slen = n, !.packet = p]
    BY <1>2 DEF Prepare, Sock
  <2>2. y = [x EXCEPT !.socks[s].out[1].cap = d, !.slen = n, !.packet = p]
    <3> HIDE DEF n, p
    <3> QED BY <1>2, <2>1 DEF Contexts
  <2> HIDE DEF n, p, d
  <2> QED BY <2>2 DEF Updated, Contexts
<1>10. Live(m) /\ SockSound(m)
  <2>1. \A j \in DOMAIN q : j < Len(q) => Len(q[j].data) = q[j].cap
    <3> SUFFICES ASSUME NEW j \in DOMAIN o, j < Len(o) PROVE Len(q[j].data) = q[j].cap
      <4> HIDE DEF q, o
      <4> QED BY <1>7
    <3>1. Len(o[j].data) = o[j].cap
      BY <1>2 DEF SockSound
    <3>2. CASE j = 1
      <4>1. Len(o) # 1
        <5> HIDE DEF o
        <5> QED BY <3>2
      <4>2. d = b.cap
        BY <4>1
      <4> HIDE DEF d, b, e, q
      <4> QED BY <1>6, <1>7, <3>1, <3>2, <4>2 DEF b
    <3>3. CASE j # 1
      <4> HIDE DEF o, q
      <4> QED BY <1>7, <3>1, <3>3
    <3> QED BY <3>2, <3>3
  <2> HIDE DEF q, m
  <2> QED BY <1>2, <1>8, <2>1 DEF Live, SockSound
<1>11. x.used \in Int /\ x.used = x.used + (Held(m) - Held(k))
  <2>1. Len(i) \in Nat
    BY <1>1, SocketParts
  <2> HIDE DEF i, o, q, m
  <2>2. Held(k) = Len(i) + Len(o)
    BY <1>3, <2>1, HeldIs DEF i, o
  <2>3. m.in = i /\ m.out = q /\ Len(q) \in Nat /\ Len(q) = Len(o)
    BY <1>3, <1>7, <1>8
  <2>4. Held(m) = Len(i) + Len(q)
    BY <2>1, <2>3, HeldIs
  <2> QED BY <1>1, <2>1, <2>2, <2>3, <2>4
<1>12. m \in SockSet /\ SameConn(x.conn, x.conn) /\ p \in BOOLEAN
  BY <1>8 DEF SameConn
<1>13. n > 0 => FirstIs(m, n)
  <2>1. n > 0 => Len(e.data) = n /\ e.cap = n
    <3>1. CASE Len(o) = 1
      <4> HIDE DEF o, b, e
      <4> QED BY <1>6, <3>1
    <3>2. CASE Len(o) # 1
      <4>1. 1 < Len(o)
        <5> HIDE DEF o
        <5> QED BY <1>3, <3>2
      <4>2. Len(b.data) = b.cap
        BY <1>2, <1>3, <4>1 DEF SockSound
      <4> HIDE DEF o, b, e
      <4> QED BY <1>6, <3>2, <4>2
    <3> QED BY <3>1, <3>2
  <2>2. q # <<>>
    <3> HIDE DEF q, o
    <3> QED BY <1>3, <1>7
  <2> HIDE DEF m, q, e, n
  <2> QED BY <1>7, <1>8, <2>1, <2>2 DEF FirstIs
<1>14. ASSUME NEW l \in Nat, l > 0, FirstIs(k, l) PROVE n = l
  <2>1. Len(b.data) = l /\ b.cap = l
    BY <1>14 DEF FirstIs
  <2> HIDE DEF b
  <2> QED BY <2>1
<1> HIDE DEF m, n, p
<1>15. Serves(x, y, s) /\ y.conn = x.conn /\ y.socks[s] = m /\ y.flags = x.flags /\ y.slen = n
  <2> HIDE DEF i, o, b, d, e, q
  <2> QED BY <1>1, <1>5, <1>9, <1>11, <1>12, ServesBy
<1>16. Matched(x, s) => Matched(y, s)
  <2> SUFFICES ASSUME Matched(x, s) PROVE Matched(y, s)
    OBVIOUS
  <2>1. FromRemote(m, x.conn.remote)
    BY <1>8 DEF Matched, FromRemote
  <2>2. x.conn.len > 0 => FirstIs(m, x.conn.len)
    <3>1. x.conn.len \in Nat
      BY <1>1 DEF ConnSet
    <3> QED BY <1>13, <1>14, <3>1 DEF Matched
  <2> QED BY <1>15, <2>1, <2>2 DEF Matched
<1> QED BY <1>2, <1>10, <1>13, <1>15, <1>16 DEF Attached

\* A socket to be closed is given back when everything is sent.
LEMMA CloseServes ==
  ASSUME NEW x \in Contexts, NEW s \in Socks, Attached(x, s), NEW y, y = CloseOrStop(x)
  PROVE  /\ Serves(x, y, s) /\ y.slen = x.slen
         /\ \/ Attached(y, s) /\ y.flags = x.flags /\ y.socks[s] = x.socks[s]
            \/ Detached(y, s) /\ y.flags = {"CLOSE"} /\ x.socks[s].out = <<>>
<1> DEFINE k == x.socks[s]
           i == k.in
           o == k.out
<1>1. /\ x.conn \in ConnSet /\ k \in SockSet /\ x.used \in Int /\ Held(k) \in Nat
      /\ x.flags \in SUBSET Flags /\ x.slen \in 0 .. UIP_TCP_MSS
      /\ x.packet \in BOOLEAN /\ x.keep \in BOOLEAN
  BY ContextParts
<1>2. x.conn.app = s /\ Live(k) /\ SockSound(k)
  BY DEF Attached
<1>3. CASE y = x
  BY <1>3, ServesItself
<1>4. CASE /\ "CLOSE" \in k.state /\ o = <<>>
           /\ y = [x EXCEPT !.socks[s].state = {}, !.conn.app = NULL, !.flags = {"CLOSE"}]
  <2> DEFINE c == [x.conn EXCEPT !.app = NULL]
             m == [k EXCEPT !.state = {}]
             f == {"CLOSE"}
  <2>1. c \in ConnSet /\ SameConn(x.conn, c) /\ c.app = NULL
    BY <1>1 DEF ConnSet, SameConn
  <2>2. m \in SockSet /\ m.in = k.in /\ m.out = k.out /\ m.state = {}
    BY <1>1 DEF SockSet
  <2>3. y = Updated(x, c, s, m, x.used, f, x.slen, x.packet, x.keep)
    BY <1>4 DEF Updated, Contexts
  <2>4. ~Live(m) /\ SockSound(m)
    BY <1>2, <1>4, <2>2 DEF Live, SockSound
  <2>5. f \in SUBSET Flags
    BY DEF Flags
  <2>6. Held(m) = Held(k)
    BY <2>2 DEF Held
  <2>7. x.used = x.used + (Held(m) - Held(k))
    BY <1>1, <2>6
  <2> HIDE DEF c, m, f
  <2>8. Serves(x, y, s) /\ y.conn = c /\ y.socks[s] = m /\ y.flags = f /\ y.slen = x.slen
    BY <1>1, <2>1, <2>2, <2>3, <2>5, <2>7, ServesBy
  <2> QED BY <1>4, <2>1, <2>2, <2>4, <2>8 DEF Detached, f
<1>5. CASE y = [x EXCEPT !.conn.stopped = TRUE]
  <2> DEFINE c == [x.conn EXCEPT !.stopped = TRUE]
  <2>1. c \in ConnSet /\ SameConn(x.conn, c) /\ c.app = s
    BY <1>1, <1>2 DEF ConnSet, SameConn
  <2>2. y = Updated(x, c, s, k, x.used, x.flags, x.slen, x.packet, x.keep)
    BY <1>5 DEF Updated, Contexts
  <2>3. x.used = x.used + (Held(k) - Held(k))
    BY <1>1
  <2> HIDE DEF c
  <2>4. Serves(x, y, s) /\ y.conn = c /\ y.socks[s] = k /\ y.flags = x.flags /\ y.slen = x.slen
    BY <1>1, <2>1, <2>2, <2>3, ServesBy
  <2> QED BY <1>2, <2>1, <2>4 DEF Attached
<1> QED BY <1>2, <1>3, <1>4, <1>5 DEF CloseOrStop, Sock

\* UIP_CONNECTED: the connection is given a free socket, if there is one.
LEMMA ConnectedServes ==
  ASSUME NEW x \in Contexts, NEW y, y = Connected(x)
  PROVE  \/ y = x
         \/ /\ x.conn.app = NULL
            /\ \E s \in Socks :
                 /\ y \in Contexts /\ SameConn(x.conn, y.conn) /\ Attached(y, s)
                 /\ x.socks[s].state = {} /\ y.socks[s].in = <<>> /\ y.socks[s].out = <<>>
                 /\ \A t \in Socks \ {s} : y.socks[t] = x.socks[t]
                 /\ y.used = x.used /\ y.data = x.data /\ y.slen = x.slen
                 /\ y.flags = x.flags /\ y.sends = x.sends
<1> DEFINE free == {t \in Socks : x.socks[t].state = {}}
           s == Least(free)
           m == [NewSock EXCEPT !.state = {"CONNECTED"}]
           c == [x.conn EXCEPT !.app = s]
<1> SUFFICES ASSUME x.conn.app = NULL, free # {},
                    y = [x EXCEPT !.conn.app = s, !.socks[s] = m]
             PROVE  /\ s \in Socks
                    /\ y \in Contexts /\ SameConn(x.conn, y.conn) /\ Attached(y, s)
                    /\ x.socks[s].state = {} /\ y.socks[s].in = <<>> /\ y.socks[s].out = <<>>
                    /\ \A t \in Socks \ {s} : y.socks[t] = x.socks[t]
                    /\ y.used = x.used /\ y.data = x.data /\ y.slen = x.slen
                    /\ y.flags = x.flags /\ y.sends = x.sends
  BY DEF Connected
<1>1. s \in free
  <2>1. free \in SUBSET Conns
    BY DEF Socks, Conns
  <2> HIDE DEF free
  <2> QED BY <2>1, LeastIn
<1>2. s \in Socks /\ x.socks[s].state = {}
  BY <1>1
<1> HIDE DEF s
<1>3. x.conn \in ConnSet
  BY DEF Contexts
<1>4. c \in ConnSet /\ SameConn(x.conn, c) /\ c.app = s
  BY <1>2, <1>3 DEF ConnSet, SameConn
<1>5. m \in SockSet /\ m.state = {"CONNECTED"} /\ m.in = <<>> /\ m.out = <<>>
  <2>1. <<>> \in InQueue /\ <<>> \in OutQueue
    BY TcpAssumption DEF InQueue, OutQueue
  <2> QED BY <2>1 DEF SockSet, NewSock, SockFlags
<1>6. Live(m) /\ SockSound(m)
  BY <1>5 DEF Live, SockSound
<1> DEFINE K == [x.socks EXCEPT ![s] = m]
<1> HIDE DEF c, m
<1>7. K \in [Socks -> SockSet] /\ K[s] = m /\ \A t \in Socks \ {s} : K[t] = x.socks[t]
  BY <1>2, <1>5 DEF Contexts
<1>8. y = [x EXCEPT !.conn = c, !.socks = K]
  BY DEF c, Contexts
<1> HIDE DEF K
<1>9. /\ y \in Contexts /\ y.conn = c /\ y.socks = K
      /\ y.used = x.used /\ y.data = x.data /\ y.slen = x.slen
      /\ y.flags = x.flags /\ y.sends = x.sends
  BY <1>4, <1>7, <1>8 DEF Contexts
<1> QED BY <1>2, <1>4, <1>5, <1>6, <1>7, <1>9 DEF Attached

\* The callback once the connection has a socket.
Callback(x) ==
  LET told == Restart(NewData(x))
      acked == Acked(told)
  IN IF told.flags \cap {"CLOSE", "TIMEDOUT"} # {} THEN Disconnect(told)
     ELSE IF acked.flags \cap {"POLL", "REXMIT"} # {} /\ Sock(acked).out # <<>>
       THEN Prepare(acked)
     ELSE CloseOrStop(acked)

\* It keeps what it relies on, and ends with the socket or without it.
LEMMA CallbackServes ==
  ASSUME NEW x \in Contexts, NEW s \in Socks, Attached(x, s), x.slen = 0,
         NEW y, y = Callback(x)
  PROVE  /\ Serves(x, y, s)
         /\ Attached(y, s) \/ Detached(y, s)
         /\ y.flags \cap {"CLOSE"} # {} \/ x.flags \cap {"CLOSE", "TIMEDOUT"} # {} => Detached(y, s)
         /\ y.slen > 0 => Attached(y, s) /\ FirstIs(y.socks[s], y.slen)
         /\ Matched(x, s) /\ x.data \in {<<>>, <<x.conn.remote>>}
              /\ ("ACKDATA" \in x.flags => x.conn.len = 0) /\ Attached(y, s) => Matched(y, s)
<1> DEFINE new == NewData(x)
           told == Restart(new)
           acked == Acked(told)
           ready == /\ Matched(x, s) /\ x.data \in {<<>>, <<x.conn.remote>>}
                    /\ "ACKDATA" \in x.flags => x.conn.len = 0
<1>1. /\ Serves(x, new, s) /\ Attached(new, s) /\ new.slen = 0 /\ new.flags = x.flags
      /\ ready => Matched(new, s)
  <2> HIDE DEF new
  <2>1. /\ Serves(x, new, s) /\ Attached(new, s) /\ new.slen = x.slen /\ new.flags = x.flags
        /\ new.socks[s].out = x.socks[s].out
        /\ FromRemote(x.socks[s], x.conn.remote) /\ x.data \in {<<>>, <<x.conn.remote>>}
              => FromRemote(new.socks[s], x.conn.remote)
    BY NewDataServes DEF new
  <2>2. SameConn(x.conn, new.conn)
    BY <2>1 DEF Serves
  <2> QED BY <2>1, <2>2 DEF Matched, FirstIs, SameConn
<1>2. new \in Contexts
  BY <1>1 DEF Serves
<1>3. /\ Serves(new, told, s) /\ Attached(told, s) /\ told.slen = 0
      /\ told.flags \in {x.flags, x.flags \cup {"NEWDATA"}}
      /\ ready => Matched(told, s)
  <2> HIDE DEF new, told
  <2>1. /\ Serves(new, told, s) /\ Attached(told, s) /\ told.slen = new.slen
        /\ told.flags \in {new.flags, new.flags \cup {"NEWDATA"}}
        /\ told.socks[s].in = new.socks[s].in /\ told.socks[s].out = new.socks[s].out
    BY <1>1, <1>2, RestartServes DEF told
  <2>2. SameConn(new.conn, told.conn)
    BY <2>1 DEF Serves
  <2> QED BY <1>1, <2>1, <2>2 DEF Matched, FirstIs, FromRemote, SameConn
<1>4. told \in Contexts
  BY <1>3 DEF Serves
<1>5. /\ Serves(told, acked, s) /\ Attached(acked, s) /\ acked.slen = 0
      /\ acked.flags = told.flags
      /\ ready => Matched(acked, s)
  <2> HIDE DEF new, told, acked
  <2>1. /\ Serves(told, acked, s) /\ Attached(acked, s)
        /\ acked.slen = told.slen /\ acked.flags = told.flags
        /\ Matched(told, s) /\ ("ACKDATA" \in told.flags => told.conn.len = 0) => Matched(acked, s)
    BY <1>3, <1>4, AckedServes DEF acked
  <2>2. told.conn.len = x.conn.len
    BY <1>1, <1>3 DEF Serves, SameConn
  <2> QED BY <1>3, <2>1, <2>2
<1>6. acked \in Contexts
  BY <1>5 DEF Serves
<1>7. Serves(x, told, s) /\ Serves(x, acked, s)
  <2> HIDE DEF new, told, acked
  <2>1. Serves(x, told, s)
    BY <1>1, <1>3, ServesTransitive
  <2> QED BY <1>5, <2>1, ServesTransitive
<1>8. acked.conn.app = s /\ ~(Attached(y, s) /\ Detached(y, s))
  BY <1>5, TcpAssumption DEF Attached, Detached, Socks
<1> HIDE DEF new, told, acked, ready
<1>9. CASE told.flags \cap {"CLOSE", "TIMEDOUT"} # {}
  <2>1. y = Disconnect(told)
    BY <1>9 DEF Callback, new, told
  <2>2. Serves(told, y, s) /\ Detached(y, s) /\ y.slen = 0
    BY <1>3, <1>4, <2>1, DisconnectServes
  <2>3. Serves(x, y, s)
    BY <1>7, <2>2, ServesTransitive
  <2> QED BY <1>8, <2>2, <2>3
<1>10. CASE told.flags \cap {"CLOSE", "TIMEDOUT"} = {}
  <2>1. "CLOSE" \notin acked.flags /\ x.flags \cap {"CLOSE", "TIMEDOUT"} = {}
    BY <1>3, <1>5, <1>10
  <2>2. CASE y = Prepare(acked) /\ acked.socks[s].out # <<>>
    <3>1. /\ Serves(acked, y, s) /\ Attached(y, s) /\ y.flags = acked.flags
          /\ y.slen > 0 => FirstIs(y.socks[s], y.slen)
          /\ Matched(acked, s) => Matched(y, s)
      BY <1>5, <1>6, <2>2, PrepareServes
    <3>2. Serves(x, y, s)
      BY <1>7, <3>1, ServesTransitive
    <3> QED BY <1>5, <2>1, <3>1, <3>2 DEF ready
  <2>3. CASE y = CloseOrStop(acked)
    <3>1. /\ Serves(acked, y, s) /\ y.slen = 0
          /\ \/ Attached(y, s) /\ y.flags = acked.flags /\ y.socks[s] = acked.socks[s]
             \/ Detached(y, s)
      BY <1>5, <1>6, <2>3, CloseServes
    <3>2. Serves(x, y, s)
      BY <1>7, <3>1, ServesTransitive
    <3>3. Attached(y, s) /\ Matched(acked, s) => Matched(y, s)
      BY <1>8, <3>1 DEF Matched, Serves, SameConn
    <3> QED BY <1>5, <1>8, <2>1, <3>1, <3>2, <3>3 DEF ready
  <2> QED BY <1>8, <1>10, <2>2, <2>3 DEF Callback, Sock, new, told, acked
<1> QED BY <1>9, <1>10
-----------------------------------------------------------------------------
(* A run of uip_process and all sockets.  O are the sockets of the other   *)
(* connections.                                                            *)

SocksSound(K) == \A t \in Socks : SockSound(K[t])

\* A free socket has nothing to send.
FreeEmpty(K) == \A t \in Socks : K[t].state = {} => K[t].out = <<>>

\* The sockets that belong to a connection are app and those of the others.
Owned(K, app, O) == app \notin O /\ \A t \in Socks : Live(K[t]) <=> t \in O \/ t = app

\* From sockets K and a count u of blocks to L and v: one socket has changed, and
\* it has not more blocks than were counted; it has as many unless it was a free
\* one that held blocks.
Balanced(K, u, L, v) ==
  \E s \in Socks :
    /\ \A t \in Socks \ {s} : L[t] = K[t]
    /\ v - Held(L[s]) >= u - Held(K[s])
    /\ FreeEmpty(K) /\ SocksSound(K) => FreeEmpty(L) /\ v - Held(L[s]) = u - Held(K[s])

Good(x, O) == x \in Contexts /\ SocksSound(x.socks) /\ Owned(x.socks, x.conn.app, O)

\* The run has got from x to y.
Runs(x, y, O) ==
  /\ Good(y, O)
  /\ y.conn.remote = x.conn.remote
  /\ \A t \in O : y.socks[t] = x.socks[t]
  /\ Balanced(x.socks, x.used, y.socks, y.used)

Settled(x) == x.conn.app # NULL => Matched(x, x.conn.app)

\* Nothing was counted wrong if nothing changed.
LEMMA BalancedItself ==
  ASSUME NEW K \in [Socks -> SockSet], NEW u \in Int
  PROVE  Balanced(K, u, K, u)
<1>1. 0 \in Socks
  BY TcpAssumption DEF Socks
<1>2. Held(K[0]) \in Nat
  BY <1>1, SocketParts
<1> QED BY <1>1, <1>2 DEF Balanced

\* Data to hand over are the remote's, and nothing is in flight when that is
\* said to have arrived.
Honest(x) ==
  /\ x.data \in {<<>>, <<x.conn.remote>>}
  /\ x.flags \cap {"ACKDATA", "CONNECTED"} # {} => x.conn.len = 0

\* What the callback has done to x: the connection has no socket if it is to be
\* closed, and what is to be sent is the first block.
Told(x, y, O) ==
  /\ Runs(x, y, O)
  /\ SameConn(x.conn, y.conn) /\ y.data = x.data /\ y.sends = x.sends
  /\ "CLOSE" \in y.flags \/ x.flags \cap {"CLOSE", "TIMEDOUT"} # {} => y.conn.app = NULL
  /\ y.slen > 0 => y.conn.app \in Socks /\ FirstIs(y.socks[y.conn.app], y.slen)
  /\ x.conn.app = NULL /\ "CONNECTED" \notin x.flags => y = x
  /\ Settled(x) /\ Honest(x) => Settled(y)

\* uipclient_appcall, for a connection with or without a socket.
LEMMA AppCallRuns ==
  ASSUME NEW O \in SUBSET Socks, NEW x, Good(x, O), x.slen = 0, NEW y, y = AppCall(x)
  PROVE  Told(x, y, O)
<1> DEFINE x1 == Connected(x)
           ready(z) == Settled(z) /\ Honest(z)
           begun(s) ==
             /\ x1 \in Contexts /\ SameConn(x.conn, x1.conn) /\ Attached(x1, s) /\ s \notin O
             /\ x.conn.app \in {s, NULL}
             /\ \A t \in Socks \ {s} : x1.socks[t] = x.socks[t]
             /\ x1.used - Held(x1.socks[s]) >= x.used - Held(x.socks[s])
             /\ FreeEmpty(x.socks) => x1.used - Held(x1.socks[s]) = x.used - Held(x.socks[s])
             /\ x1.data = x.data /\ x1.slen = x.slen /\ x1.flags = x.flags /\ x1.sends = x.sends
             /\ ready(x) => Matched(x1, s)
<1>1. /\ x \in Contexts /\ SocksSound(x.socks) /\ Owned(x.socks, x.conn.app, O)
      /\ x.socks \in [Socks -> SockSet] /\ x.used \in Int
      /\ x.conn.app \in Socks \cup {NULL} /\ NULL \notin Socks
  BY TcpAssumption DEF Good, Contexts, ConnSet, Socks
<1>2. CASE x1.conn.app = NULL
  <2>1. y = x1
    BY <1>2 DEF AppCall
  <2>2. x1 = x
    BY <1>1, <1>2, ConnectedServes DEF Attached
  <2>3. Balanced(x.socks, x.used, x.socks, x.used)
    BY <1>1, BalancedItself
  <2> QED BY <1>2, <2>1, <2>2, <2>3 DEF Told, Runs, Good, SameConn
<1>3. ASSUME x1 = x, x1.conn.app # NULL
      PROVE  \E s \in Socks : begun(s)
  <2> DEFINE s == x.conn.app
  <2>1. s \in Socks
    BY <1>1, <1>3
  <2>2. Attached(x, s) /\ s \notin O
    BY <1>1, <2>1 DEF Attached, Owned, SocksSound
  <2>3. Held(x.socks[s]) \in Nat
    BY <1>1, <2>1, SocketParts
  <2>4. Settled(x) => Matched(x, s)
    BY <1>1, <2>1 DEF Settled
  <2> HIDE DEF s
  <2> QED BY <1>1, <1>3, <2>1, <2>2, <2>3, <2>4 DEF SameConn, s
<1>4. ASSUME x1 # x
      PROVE  \E s \in Socks : begun(s)
  <2>1. PICK s \in Socks :
               /\ x1 \in Contexts /\ SameConn(x.conn, x1.conn) /\ Attached(x1, s)
               /\ x.socks[s].state = {} /\ x1.socks[s].in = <<>> /\ x1.socks[s].out = <<>>
               /\ \A t \in Socks \ {s} : x1.socks[t] = x.socks[t]
               /\ x1.used = x.used /\ x1.data = x.data /\ x1.slen = x.slen
               /\ x1.flags = x.flags /\ x1.sends = x.sends
    BY <1>1, <1>4, ConnectedServes
  <2>2. x.conn.app = NULL /\ "CONNECTED" \in x.flags
    BY <1>4 DEF Connected
  <2> HIDE DEF x1
  <2>3. s \notin O
    BY <1>1, <2>1 DEF Owned, Live
  <2>4. Held(x1.socks[s]) = 0
    <3>1. Len(<<>>) = 0 /\ Len(<<>>) \in Nat
      OBVIOUS
    <3> QED BY <2>1, <3>1, HeldIs
  <2>5. Held(x.socks[s]) \in Nat
    BY <1>1, <2>1, SocketParts
  <2>6. FreeEmpty(x.socks) => Held(x.socks[s]) = 0
    <3> SUFFICES ASSUME FreeEmpty(x.socks) PROVE Held(x.socks[s]) = 0
      OBVIOUS
    <3>1. x.socks[s].in = <<>> /\ x.socks[s].out = <<>>
      BY <1>1, <2>1 DEF FreeEmpty, SocksSound, SockSound
    <3>2. Len(<<>>) = 0 /\ Len(<<>>) \in Nat
      OBVIOUS
    <3> QED BY <3>1, <3>2, HeldIs
  <2>7. ready(x) => Matched(x1, s)
    <3> SUFFICES ASSUME x.conn.len = 0 PROVE Matched(x1, s)
      BY <2>2 DEF Honest
    <3>1. x1.conn.len = 0
      BY <2>1 DEF SameConn
    <3> QED BY <2>1, <3>1 DEF Matched, FromRemote
  <2>8. x1.used - Held(x1.socks[s]) >= x.used - Held(x.socks[s])
    BY <1>1, <2>1, <2>4, <2>5
  <2>9. FreeEmpty(x.socks) => x1.used - Held(x1.socks[s]) = x.used - Held(x.socks[s])
    BY <1>1, <2>1, <2>4, <2>6
  <2> HIDE DEF ready
  <2> QED BY <2>1, <2>2, <2>3, <2>7, <2>8, <2>9
<1>5. CASE x1.conn.app # NULL
  <2>1. PICK s \in Socks : begun(s)
    <3> HIDE DEF begun
    <3> QED BY <1>3, <1>4, <1>5
  <2>2. y = Callback(x1)
    BY <1>5 DEF AppCall, Callback
  <2> HIDE DEF x1
  <2>3. x1.slen = 0
    BY <2>1
  <2>4. /\ Serves(x1, y, s)
        /\ Attached(y, s) \/ Detached(y, s)
        /\ y.flags \cap {"CLOSE"} # {} \/ x1.flags \cap {"CLOSE", "TIMEDOUT"} # {} => Detached(y, s)
        /\ y.slen > 0 => Attached(y, s) /\ FirstIs(y.socks[s], y.slen)
        /\ Matched(x1, s) /\ x1.data \in {<<>>, <<x1.conn.remote>>}
             /\ ("ACKDATA" \in x1.flags => x1.conn.len = 0) /\ Attached(y, s) => Matched(y, s)
    BY <2>1, <2>2, <2>3, CallbackServes
  <2>5. SameConn(x.conn, y.conn) /\ y.data = x.data /\ y.sends = x.sends /\ y \in Contexts
    BY <2>1, <2>4 DEF Serves, SameConn
  <2>6. \A t \in Socks \ {s} : y.socks[t] = x.socks[t]
    BY <2>1, <2>4 DEF Serves
  <2>7. (Attached(y, s) => y.conn.app = s) /\ (Detached(y, s) => y.conn.app = NULL)
    BY DEF Attached, Detached
  <2>8. SockSound(y.socks[s]) /\ (Live(y.socks[s]) <=> y.conn.app = s) /\ y.conn.app \in {s, NULL}
    BY <1>1, <2>4 DEF Attached, Detached
  <2>9. SocksSound(y.socks)
    BY <1>1, <2>6, <2>8 DEF SocksSound
  <2>10. Owned(y.socks, y.conn.app, O)
    <3>1. y.conn.app \notin O
      BY <1>1, <2>1, <2>8
    <3>2. ASSUME NEW t \in Socks PROVE Live(y.socks[t]) <=> t \in O \/ t = y.conn.app
      <4>1. CASE t = s
        BY <1>1, <2>1, <2>8, <4>1
      <4>2. CASE t # s
        <5>1. y.socks[t] = x.socks[t] /\ t # x.conn.app /\ t # y.conn.app
          BY <1>1, <2>1, <2>6, <2>8, <4>2
        <5>2. Live(x.socks[t]) <=> t \in O
          BY <1>1, <5>1 DEF Owned
        <5> QED BY <5>1, <5>2
      <4> QED BY <4>1, <4>2
    <3> QED BY <3>1, <3>2 DEF Owned
  <2>11. Balanced(x.socks, x.used, y.socks, y.used)
    <3>1. y.used - Held(y.socks[s]) = x1.used - Held(x1.socks[s])
      BY <2>4 DEF Serves
    <3>2. ASSUME FreeEmpty(x.socks) PROVE FreeEmpty(y.socks)
      <4>1. y.socks[s].state = {} => y.socks[s].out = <<>>
        BY <2>4 DEF Attached, Detached, Live
      <4> QED BY <2>6, <3>2, <4>1 DEF FreeEmpty
    <3> QED BY <2>1, <2>6, <3>1, <3>2 DEF Balanced
  <2>12. \A t \in O : y.socks[t] = x.socks[t]
    BY <2>1, <2>6
  <2>13. Runs(x, y, O)
    BY <2>5, <2>9, <2>10, <2>11, <2>12 DEF Runs, Good, SameConn
  <2>14. "CLOSE" \in y.flags \/ x.flags \cap {"CLOSE", "TIMEDOUT"} # {} => y.conn.app = NULL
    BY <2>1, <2>4, <2>7
  <2>15. y.slen > 0 => y.conn.app \in Socks /\ FirstIs(y.socks[y.conn.app], y.slen)
    BY <2>4, <2>7
  <2>16. ~(x.conn.app = NULL /\ "CONNECTED" \notin x.flags)
    BY <1>5 DEF Connected, x1
  <2>17. ready(x) => Settled(y)
    <3> SUFFICES ASSUME ready(x), y.conn.app # NULL PROVE Matched(y, y.conn.app)
      BY DEF Settled
    <3>1. Attached(y, s) /\ y.conn.app = s
      BY <2>4, <2>7
    <3>2. x1.data \in {<<>>, <<x1.conn.remote>>} /\ ("ACKDATA" \in x1.flags => x1.conn.len = 0)
      BY <2>1 DEF SameConn, Honest
    <3> QED BY <2>1, <2>4, <3>1, <3>2
  <2> QED BY <2>5, <2>13, <2>14, <2>15, <2>16, <2>17 DEF Told
<1> QED BY <1>2, <1>5
-----------------------------------------------------------------------------
(* The rest of uip_process *)

\* From x to y only the connection's own part has changed, not its socket.
Aside(x, y) ==
  /\ y \in Contexts
  /\ y.socks = x.socks /\ y.used = x.used /\ y.slen = x.slen
  /\ y.conn.app = x.conn.app /\ y.conn.remote = x.conn.remote

\* A context of which uip_process has written the connection, the flags, the
\* data and the segment to send.
Stepped(x, c, f, d, z) == [x EXCEPT !.conn = c, !.flags = f, !.data = d, !.sends = z]

\* What a step of uip_process returns that writes the connection, the flags, the
\* data or the segment to send.
LEMMA AsideBy ==
  ASSUME NEW x \in Contexts, NEW c \in ConnSet, c.app = x.conn.app, c.remote = x.conn.remote,
         NEW f \in SUBSET Flags, NEW d \in Payloads, NEW z \in Sends,
         NEW y, y = Stepped(x, c, f, d, z)
  PROVE  Aside(x, y) /\ y.conn = c /\ y.flags = f /\ y.data = d /\ y.sends = z
BY DEF Aside, Contexts, Stepped

\* A run may begin or end with such steps.
LEMMA AsideRuns ==
  ASSUME NEW O \in SUBSET Socks, NEW x, NEW y
  PROVE  /\ Good(x, O) /\ Aside(x, y) => Good(y, O)
         /\ Good(x, O) => Runs(x, x, O)
         /\ \A z : Aside(x, y) /\ Runs(y, z, O) => Runs(x, z, O)
         /\ \A z : Runs(x, y, O) /\ Aside(y, z) => Runs(x, z, O)
<1>1. Good(x, O) /\ Aside(x, y) => Good(y, O)
  BY DEF Good, Aside
<1>2. Good(x, O) => Runs(x, x, O)
  <2>1. x \in Contexts => x.socks \in [Socks -> SockSet] /\ x.used \in Int
    BY DEF Contexts
  <2> QED BY <2>1, BalancedItself DEF Runs, Good
<1>3. ASSUME NEW z, Aside(x, y), Runs(y, z, O) PROVE Runs(x, z, O)
  BY <1>3 DEF Aside, Runs
<1>4. ASSUME NEW z, Runs(x, y, O), Aside(y, z) PROVE Runs(x, z, O)
  BY <1>4 DEF Aside, Runs, Good
<1> QED BY <1>1, <1>2, <1>3, <1>4

\* Send: the segment is of a type that can be sent.
LEMMA SendAside ==
  ASSUME NEW x \in Contexts, NEW flags \in SUBSET SegFlags, NEW y, y = Send(x, flags)
  PROVE  Aside(x, y) /\ y.conn = x.conn /\ y.flags = x.flags /\ y.data = x.data
<1> DEFINE z == Segment(x.conn, flags, <<>>)
<1>1. x.conn \in ConnSet /\ x.flags \in SUBSET Flags /\ x.data \in Payloads
  BY DEF Contexts
<1>2. z \in Sends
  <2>1. x.conn.remote \in Remotes \cup {NULL} /\ x.conn.snd_nxt \in Int /\ <<>> \in Seq({Unit})
    BY <1>1, TcpAssumption DEF ConnSet
  <2> QED BY <2>1 DEF Segment, Sends
<1>3. y = Stepped(x, x.conn, x.flags, x.data, z)
  BY DEF Send, Contexts, Stepped
<1> HIDE DEF z
<1> QED BY <1>1, <1>2, <1>3, AsideBy
\* The values a connection's counters are set to are in their ranges.
LEMMA SmallRanges ==
  /\ 0 \in 0 .. UIP_MAXRTX /\ 0 \in 0 .. UIP_TCP_MSS /\ 1 \in 0 .. UIP_TCP_MSS
  /\ UIP_TCP_MSS \in 0 .. UIP_TCP_MSS /\ 0 \in 0 .. SeqSize - 1
BY TcpAssumption

\* What the callback leaves behind: a connection to be closed has no socket, and
\* what is to be sent is the first block.
Called(x) ==
  /\ "CLOSE" \in x.flags => x.conn.app = NULL
  /\ x.slen > 0 => x.conn.app \in Socks /\ FirstIs(x.socks[x.conn.app], x.slen)

\* apprexmit: a segment is built from the first block, or none is sent.
LEMMA AppRexmitAside ==
  ASSUME NEW x \in Contexts, Called(x), NEW y, y = AppRexmit(x)
  PROVE  Aside(x, y) /\ y.conn = x.conn
<1>1. /\ x.conn \in ConnSet /\ x.flags \in SUBSET Flags /\ x.data \in Payloads
      /\ x.slen \in 0 .. UIP_TCP_MSS /\ x.conn.len \in 0 .. UIP_TCP_MSS
  BY DEF Contexts, ConnSet
<1>2. CASE y = x
  BY <1>2 DEF Aside
<1>3. CASE y = Send(x, {"ACK"})
  BY <1>3, SendAside DEF SegFlags
<1>4. CASE /\ x.slen > 0 /\ x.conn.len > 0
           /\ y = [x EXCEPT !.sends = Segment(x.conn, {"ACK"},
                     SubSeq(Sock(x).out[1].data, 1, Lesser(x.conn.len, x.slen)))]
  <2> DEFINE t == Sock(x).out[1].data
             n == Lesser(x.conn.len, x.slen)
             z == Segment(x.conn, {"ACK"}, SubSeq(t, 1, n))
  <2>1. x.conn.app \in Socks /\ FirstIs(Sock(x), x.slen)
    BY <1>4 DEF Called, Sock
  <2>2. t \in Seq({Unit}) /\ Len(t) = x.slen
    <3> DEFINE o == Sock(x).out
    <3>1. o \in OutQueue
      BY <2>1, ContextParts DEF Sock
    <3>2. o # <<>> /\ Len(o[1].data) = x.slen
      BY <2>1 DEF FirstIs
    <3> HIDE DEF o
    <3>3. o \in Seq(OutBlock) /\ 1 \in DOMAIN o
      BY <3>1, <3>2, EmptySeq DEF OutQueue
    <3>4. o[1] \in OutBlock
      BY <3>3
    <3> QED BY <3>2, <3>4 DEF OutBlock, o
  <2>3. n \in 0 .. x.slen
    BY <1>1, TcpAssumption DEF Lesser
  <2> HIDE DEF t, n
  <2>4. SubSeq(t, 1, n) \in Seq({Unit})
    BY <1>1, <2>2, <2>3
  <2>5. z \in Sends
    <3>1. x.conn.remote \in Remotes \cup {NULL} /\ x.conn.snd_nxt \in Int
      BY <1>1, TcpAssumption DEF ConnSet
    <3> QED BY <2>4, <3>1 DEF Segment, Sends, SegFlags
  <2>6. y = Stepped(x, x.conn, x.flags, x.data, z)
    BY <1>4 DEF Contexts, Stepped, t, n
  <2> HIDE DEF z
  <2> QED BY <1>1, <2>5, <2>6, AsideBy
<1> QED BY <1>2, <1>3, <1>4 DEF AppRexmit

\* appsend: FIN, or the first block becomes the data in flight.
LEMMA AppSendAside ==
  ASSUME NEW x \in Contexts, Called(x), NEW y, y = AppSend(x)
  PROVE  /\ Aside(x, y)
         /\ y.conn.mss = x.conn.mss /\ y.conn.initialmss = x.conn.initialmss
         /\ y.conn.state \in {x.conn.state, "FIN_WAIT_1"}
         /\ x.conn.app # NULL => y.conn.state = x.conn.state
         /\ Settled(x) /\ x.conn.mss = UIP_TCP_MSS => Settled(y)
<1>1. /\ x.conn \in ConnSet /\ x.flags \in SUBSET Flags /\ x.data \in Payloads /\ x.sends \in Sends
      /\ x.slen \in 0 .. UIP_TCP_MSS /\ x.conn.len \in 0 .. UIP_TCP_MSS
      /\ x.conn.mss \in 0 .. UIP_TCP_MSS
  BY DEF Contexts, ConnSet
<1>2. CASE "CLOSE" \in x.flags
  <2> DEFINE c == [x.conn EXCEPT !.state = "FIN_WAIT_1", !.stopped = FALSE, !.len = 1, !.nrtx = 0]
             z == Stepped(x, c, x.flags, x.data, x.sends)
  <2>1. /\ c \in ConnSet /\ c.app = x.conn.app /\ c.remote = x.conn.remote
        /\ c.mss = x.conn.mss /\ c.initialmss = x.conn.initialmss /\ c.state = "FIN_WAIT_1"
    BY <1>1, SmallRanges DEF ConnSet, TcpStates
  <2>2. y = Send(z, {"FIN", "ACK"})
    <3>1. [SetState(x, "FIN_WAIT_1") EXCEPT !.conn.len = 1, !.conn.nrtx = 0] = z
      BY <1>1 DEF Stepped, SetState, Contexts, ConnSet
    <3> QED BY <1>2, <3>1 DEF AppSend
  <2> HIDE DEF c
  <2>3. Aside(x, z) /\ z.conn = c
    BY <1>1, <2>1, AsideBy
  <2> HIDE DEF z
  <2>4. Aside(z, y) /\ y.conn = c
    <3>1. z \in Contexts
      BY <2>3 DEF Aside
    <3> QED BY <2>2, <2>3, <3>1, SendAside DEF SegFlags
  <2>5. x.conn.app = NULL
    BY <1>2 DEF Called
  <2> QED BY <2>1, <2>3, <2>4, <2>5 DEF Aside, Settled
<1>3. CASE "CLOSE" \notin x.flags
  <2> DEFINE l == IF x.slen > 0 /\ x.conn.len = 0 THEN Lesser(x.slen, x.conn.mss) ELSE x.conn.len
             c == [x.conn EXCEPT !.nrtx = 0, !.len = l]
             z == Stepped(x, c, x.flags, x.data, x.sends)
  <2>1. l \in 0 .. UIP_TCP_MSS
    BY <1>1, TcpAssumption DEF Lesser
  <2>2. y = AppRexmit(z)
    <3>1. y = AppRexmit([x EXCEPT !.conn.nrtx = 0,
                           !.conn.len = IF x.slen > 0 /\ @ = 0
                                          THEN Lesser(x.slen, x.conn.mss) ELSE @])
      BY <1>3 DEF AppSend
    <3>2. [x EXCEPT !.conn.nrtx = 0,
                    !.conn.len = IF x.slen > 0 /\ @ = 0 THEN Lesser(x.slen, x.conn.mss) ELSE @] = z
      BY <1>1 DEF Stepped, Contexts, ConnSet
    <3> QED BY <3>1, <3>2
  <2>3. x.conn.mss = UIP_TCP_MSS => l = IF x.slen > 0 /\ x.conn.len = 0 THEN x.slen ELSE x.conn.len
    BY <1>1, TcpAssumption DEF Lesser
  <2> HIDE DEF l
  <2>4. /\ c \in ConnSet /\ c.app = x.conn.app /\ c.remote = x.conn.remote /\ c.len = l
        /\ c.mss = x.conn.mss /\ c.initialmss = x.conn.initialmss /\ c.state = x.conn.state
    BY <1>1, <2>1, SmallRanges DEF ConnSet
  <2> HIDE DEF c
  <2>5. Aside(x, z) /\ z.conn = c /\ z.flags = x.flags
    BY <1>1, <2>4, AsideBy
  <2> HIDE DEF z
  <2>6. Called(z) /\ z \in Contexts
    BY <2>5 DEF Called, Aside
  <2>7. Aside(z, y) /\ y.conn = c
    BY <2>2, <2>5, <2>6, AppRexmitAside
  <2>8. Settled(x) /\ x.conn.mss = UIP_TCP_MSS => Settled(y)
    <3> SUFFICES ASSUME Settled(x), x.conn.mss = UIP_TCP_MSS, y.conn.app # NULL
                 PROVE  Matched(y, y.conn.app)
      BY DEF Settled
    <3>1. y.conn.app = x.conn.app /\ y.socks = x.socks /\ y.conn.remote = x.conn.remote
      BY <2>5, <2>7 DEF Aside
    <3>2. Matched(x, x.conn.app)
      BY <3>1 DEF Settled
    <3>3. x.slen > 0 => FirstIs(x.socks[x.conn.app], x.slen)
      BY DEF Called
    <3>4. y.conn.len = IF x.slen > 0 /\ x.conn.len = 0 THEN x.slen ELSE x.conn.len
      BY <2>3, <2>4, <2>7
    <3> QED BY <3>1, <3>2, <3>3, <3>4 DEF Matched
  <2>9. Aside(x, y)
    BY <2>5, <2>7 DEF Aside
  <2> QED BY <2>4, <2>7, <2>8, <2>9
<1> QED BY <1>2, <1>3
\* A sequence number stays below SeqSize.
LEMMA SequenceNumber ==
  ASSUME NEW n \in Int
  PROVE  n % SeqSize \in 0 .. SeqSize - 1
BY TcpAssumption

\* A connection in use has negotiated the full segment size.
Full(c) == c.state # "CLOSED" => c.mss = UIP_TCP_MSS /\ c.initialmss = UIP_TCP_MSS

\* A connection with a socket is established, and they fit each other.
Bound(x) == x.conn.app # NULL => x.conn.state = "ESTABLISHED" /\ Matched(x, x.conn.app)

\* A run got from x to y and y is one to end with.
Ends(x, y, O) == Runs(x, y, O) /\ Full(y.conn) /\ (Bound(x) => Bound(y))

\* The callback of an established connection, and what it wants to send.
LEMMA TellAndSend ==
  ASSUME NEW O \in SUBSET Socks, NEW x, Good(x, O), x.slen = 0, Full(x.conn),
         x.conn.state = "ESTABLISHED",
         NEW y, y \in {AppSend(AppCall(x)), AppRexmit(AppCall(x))}
  PROVE  Runs(x, y, O) /\ Full(y.conn) /\ (Settled(x) /\ Honest(x) => Bound(y))
<1> DEFINE t == AppCall(x)
<1>1. Told(x, t, O)
  BY AppCallRuns
<1> HIDE DEF t
<1>2. t \in Contexts /\ Called(t)
  BY <1>1 DEF Told, Called, Runs, Good
<1>3. t.conn.state = "ESTABLISHED" /\ t.conn.mss = UIP_TCP_MSS /\ t.conn.initialmss = UIP_TCP_MSS
  BY <1>1 DEF Told, SameConn, Full
<1>4. /\ Aside(t, y)
      /\ y.conn.mss = t.conn.mss /\ y.conn.initialmss = t.conn.initialmss
      /\ t.conn.app # NULL => y.conn.state = t.conn.state
      /\ Settled(t) => Settled(y)
  <2>1. CASE y = AppSend(t)
    BY <1>2, <1>3, <2>1, AppSendAside
  <2>2. CASE y = AppRexmit(t)
    <3>1. Aside(t, y) /\ y.conn = t.conn
      BY <1>2, <2>2, AppRexmitAside
    <3> QED BY <3>1 DEF Settled, Matched, Aside
  <2> QED BY <2>1, <2>2 DEF t
<1>5. Runs(x, y, O)
  BY <1>1, <1>4, AsideRuns DEF Told
<1>6. y.conn.app = t.conn.app
  BY <1>4 DEF Aside
<1> QED BY <1>1, <1>3, <1>4, <1>5, <1>6 DEF Told, Full, Bound, Settled

\* The callback of a connection that ends leaves it without a socket.
LEMMA TellEnd ==
  ASSUME NEW O \in SUBSET Socks, NEW x, Good(x, O), x.slen = 0,
         x.flags \cap {"CLOSE", "TIMEDOUT"} # {}, NEW y, y = AppCall(x)
  PROVE  Runs(x, y, O) /\ y.conn.app = NULL /\ SameConn(x.conn, y.conn) /\ y \in Contexts
<1>1. Told(x, y, O)
  BY AppCallRuns
<1> QED BY <1>1 DEF Told, Runs, Good

\* SetState and what is set with it.
LEMMA ConnParts ==
  ASSUME NEW c \in ConnSet
  PROVE  /\ c.state \in TcpStates /\ c.rcv_nxt \in Int /\ c.snd_nxt \in Int
         /\ c.len \in 0 .. UIP_TCP_MSS /\ c.app \in Socks \cup {NULL}
         /\ c.rcv_nxt \in 0 .. SeqSize - 1 /\ c.snd_nxt \in 0 .. SeqSize - 1
         /\ c.remote \in Remotes \cup {NULL}
         /\ c.mss \in 0 .. UIP_TCP_MSS /\ c.initialmss \in 0 .. UIP_TCP_MSS
         /\ c.nrtx \in 0 .. UIP_MAXRTX /\ c.stopped \in BOOLEAN
BY TcpAssumption DEF ConnSet

\* The arguments of the functions that handle a segment.
Ready(x, seg, O) ==
  /\ Good(x, O) /\ x.slen = 0 /\ Full(x.conn) /\ x.flags \subseteq {"ACKDATA"}
  /\ x.data = seg.data /\ Honest(x)
  /\ seg \in Segments

\* The parts of a segment.
LEMMA SegmentParts ==
  ASSUME NEW seg \in Segments
  PROVE  /\ seg.remote \in Remotes /\ seg.seq \in Int /\ seg.ack \in Int
         /\ seg.data \in Payloads /\ seg.data \in {<<>>, <<seg.remote>>} /\ Len(seg.data) \in Nat
         /\ seg.mss = UIP_TCP_MSS /\ seg.wnd = UIP_TCP_MSS
<1>1. /\ seg.remote \in Remotes /\ seg.seq \in {0, 1} /\ seg.ack \in {0, 1}
      /\ seg.data \in Payloads /\ seg.mss = UIP_TCP_MSS /\ seg.wnd = UIP_TCP_MSS
      /\ seg.data # <<>> => seg.data[1] = seg.remote
  BY DEF Segments, Payloads
<1>2. seg.data \in {<<>>, <<seg.remote>>} /\ Len(seg.data) \in Nat
  <2>1. CASE seg.data = <<>>
    BY <2>1
  <2>2. ASSUME NEW r \in Remotes, seg.data = <<r>>
        PROVE  seg.data = <<seg.remote>> /\ Len(seg.data) \in Nat
    <3>1. <<r>>[1] = r /\ <<r>> # <<>>
      OBVIOUS
    <3>2. seg.remote = r
      BY <1>1, <2>2, <3>1
    <3> QED BY <2>2, <3>2
  <2> QED BY <1>1, <2>1, <2>2 DEF Payloads
<1> QED BY <1>1, <1>2
\* A handler that only writes the connection's own part, which has no socket if
\* the state changes.
LEMMA EndsAside ==
  ASSUME NEW O \in SUBSET Socks, NEW x, Good(x, O), Full(x.conn), NEW y, Aside(x, y),
         y.conn.mss = x.conn.mss, y.conn.initialmss = x.conn.initialmss,
         x.conn.state = "CLOSED" => y.conn.state = "CLOSED",
         Bound(x) /\ x.conn.app # NULL => y.conn.state = x.conn.state /\ y.conn.len \in {0, x.conn.len}
  PROVE  Ends(x, y, O)
<1>1. Runs(x, y, O)
  BY AsideRuns
<1>2. Full(y.conn)
  BY DEF Full
<1>3. Bound(x) => Bound(y)
  <2> SUFFICES ASSUME Bound(x), y.conn.app # NULL
               PROVE  y.conn.state = "ESTABLISHED" /\ Matched(y, y.conn.app)
    BY DEF Bound
  <2>1. y.conn.app = x.conn.app /\ y.socks = x.socks /\ y.conn.remote = x.conn.remote
    BY DEF Aside
  <2>2. x.conn.state = "ESTABLISHED" /\ Matched(x, x.conn.app)
    BY <2>1 DEF Bound
  <2>3. y.conn.state = "ESTABLISHED" /\ y.conn.len \in {0, x.conn.len}
    BY <2>1, <2>2
  <2>4. ~(0 > 0)
    OBVIOUS
  <2> QED BY <2>1, <2>2, <2>3, <2>4 DEF Matched
<1> QED BY <1>1, <1>2, <1>3 DEF Ends

\* The ACK that completes a passive open (uip.c:1468-1485).
LEMMA SynRcvdEnds ==
  ASSUME NEW O \in SUBSET Socks, NEW x, NEW seg, Ready(x, seg, O), x.conn.state = "SYN_RCVD",
         NEW y, y = SynRcvd(x, seg)
  PROVE  Ends(x, y, O)
<1>1. /\ Good(x, O) /\ x \in Contexts /\ Full(x.conn) /\ x.conn \in ConnSet
      /\ x.data \in Payloads /\ x.sends \in Sends /\ seg \in Segments /\ x.data = seg.data
      /\ x.slen = 0 /\ Honest(x)
  BY DEF Ready, Good, Contexts
<1>2. CASE y = x
  BY <1>1, <1>2, AsideRuns DEF Ends
<1>3. CASE IsAcked(x) /\ y # x
  <2> DEFINE n == (x.conn.rcv_nxt + Len(seg.data)) % SeqSize
             c == [x.conn EXCEPT !.state = "ESTABLISHED", !.stopped = FALSE, !.rcv_nxt = n]
             f == {"CONNECTED"} \cup DataFlag(seg)
             z == Stepped(x, c, f, x.data, x.sends)
  <2>1. n \in 0 .. SeqSize - 1
    <3>1. Len(seg.data) \in Nat /\ x.conn.rcv_nxt \in Int
      BY <1>1, SegmentParts, ConnParts
    <3>2. x.conn.rcv_nxt + Len(seg.data) \in Int
      BY <3>1
    <3> QED BY <3>2, SequenceNumber
  <2>2. y = AppSend(AppCall(z))
    <3>1. [Received(SetState(x, "ESTABLISHED"), Len(seg.data)) EXCEPT !.flags = f] = z
      BY <1>1 DEF Stepped, Received, SetState, Contexts, ConnSet
    <3> QED BY <1>3, <3>1 DEF SynRcvd
  <2> HIDE DEF n
  <2>3. /\ c \in ConnSet /\ c.app = x.conn.app /\ c.remote = x.conn.remote /\ c.len = x.conn.len
        /\ c.state = "ESTABLISHED" /\ c.mss = x.conn.mss /\ c.initialmss = x.conn.initialmss
    BY <1>1, <2>1 DEF ConnSet, TcpStates
  <2>4. f \in SUBSET Flags
    BY DEF Flags, DataFlag
  <2> HIDE DEF c, f
  <2>5. Aside(x, z) /\ z.conn = c /\ z.flags = f /\ z.data = x.data
    BY <1>1, <2>3, <2>4, AsideBy
  <2> HIDE DEF z
  <2>6. Good(z, O) /\ z.slen = 0 /\ Full(z.conn) /\ z.conn.state = "ESTABLISHED"
    <3>1. Good(z, O)
      BY <1>1, <2>5, AsideRuns
    <3> QED BY <1>1, <2>3, <2>5, <3>1 DEF Full, Aside
  <2>7. Runs(z, y, O) /\ Full(y.conn) /\ (Settled(z) /\ Honest(z) => Bound(y))
    BY <2>2, <2>6, TellAndSend
  <2>8. Honest(z)
    BY <1>1, <1>3, <2>3, <2>5 DEF Honest, IsAcked
  <2>9. Bound(x) => Settled(z)
    BY <2>3, <2>5 DEF Bound, Settled
  <2>10. Runs(x, y, O)
    BY <2>5, <2>7, AsideRuns
  <2> QED BY <2>7, <2>8, <2>9, <2>10 DEF Ends
<1> QED BY <1>2, <1>3 DEF SynRcvd

\* The answer to our SYN (uip.c:1487-1546).
LEMMA SynSentEnds ==
  ASSUME NEW O \in SUBSET Socks, NEW x, NEW seg, Ready(x, seg, O), x.conn.state = "SYN_SENT",
         NEW y, y = SynSent(x, seg)
  PROVE  Ends(x, y, O)
<1>1. /\ Good(x, O) /\ x \in Contexts /\ Full(x.conn) /\ x.conn \in ConnSet
      /\ x.data \in Payloads /\ x.sends \in Sends /\ seg \in Segments /\ x.data = seg.data
      /\ x.slen = 0 /\ Honest(x)
  BY DEF Ready, Good, Contexts
<1>2. CASE IsAcked(x) /\ seg.flags = {"SYN", "ACK"}
  <2> DEFINE n == (seg.seq + 1) % SeqSize
             mss == Lesser(seg.mss, UIP_TCP_MSS)
             c == [x.conn EXCEPT !.state = "ESTABLISHED", !.stopped = FALSE, !.rcv_nxt = n,
                                 !.mss = mss, !.initialmss = mss]
             f == {"CONNECTED", "NEWDATA"}
             z == Stepped(x, c, f, <<>>, x.sends)
  <2>1. n \in 0 .. SeqSize - 1 /\ mss = UIP_TCP_MSS
    <3>1. seg.seq \in Int /\ seg.mss = UIP_TCP_MSS
      BY <1>1, SegmentParts
    <3>2. seg.seq + 1 \in Int
      BY <3>1
    <3> QED BY <3>1, <3>2, SequenceNumber, TcpAssumption DEF Lesser
  <2>2. y = AppSend(AppCall(z))
    <3>1. [SetState(x, "ESTABLISHED")
              EXCEPT !.conn.rcv_nxt = n, !.conn.mss = mss, !.conn.initialmss = mss,
                     !.flags = f, !.data = <<>>] = z
      BY <1>1 DEF Stepped, SetState, Contexts, ConnSet
    <3> QED BY <1>2, <3>1 DEF SynSent
  <2> HIDE DEF n, mss
  <2>3. /\ c \in ConnSet /\ c.app = x.conn.app /\ c.remote = x.conn.remote /\ c.len = x.conn.len
        /\ c.state = "ESTABLISHED" /\ c.mss = UIP_TCP_MSS /\ c.initialmss = UIP_TCP_MSS
    BY <1>1, <2>1, SmallRanges DEF ConnSet, TcpStates
  <2>4. f \in SUBSET Flags /\ <<>> \in Payloads
    BY DEF Flags, Payloads
  <2> HIDE DEF c, f
  <2>5. Aside(x, z) /\ z.conn = c /\ z.flags = f /\ z.data = <<>>
    BY <1>1, <2>3, <2>4, AsideBy
  <2> HIDE DEF z
  <2>6. Good(z, O) /\ z.slen = 0 /\ Full(z.conn) /\ z.conn.state = "ESTABLISHED"
    <3>1. Good(z, O)
      BY <1>1, <2>5, AsideRuns
    <3> QED BY <1>1, <2>3, <2>5, <3>1 DEF Full, Aside
  <2>7. Runs(z, y, O) /\ Full(y.conn) /\ (Settled(z) /\ Honest(z) => Bound(y))
    BY <2>2, <2>6, TellAndSend
  <2>8. Honest(z)
    BY <1>1, <1>2, <2>3, <2>5 DEF Honest, IsAcked
  <2>9. Bound(x) => Settled(z)
    BY <2>3, <2>5 DEF Bound, Settled
  <2>10. Runs(x, y, O)
    BY <2>5, <2>7, AsideRuns
  <2> QED BY <2>7, <2>8, <2>9, <2>10 DEF Ends
<1>3. CASE ~(IsAcked(x) /\ seg.flags = {"SYN", "ACK"})
  <2> DEFINE w == Stepped(x, x.conn, {"ABORT"}, x.data, x.sends)
             t == AppCall(w)
             c == [t.conn EXCEPT !.state = "CLOSED", !.stopped = FALSE]
             r == ResetSegment(seg)
  <2>1. Aside(x, w) /\ w.conn = x.conn /\ w.flags = {"ABORT"}
    <3>1. {"ABORT"} \in SUBSET Flags
      BY DEF Flags
    <3> QED BY <1>1, <3>1, AsideBy
  <2>2. y = [SetState(t, "CLOSED") EXCEPT !.sends = r]
    <3>1. [x EXCEPT !.flags = {"ABORT"}] = w
      BY <1>1 DEF Stepped, Contexts
    <3> QED BY <1>3, <3>1 DEF SynSent
  <2> HIDE DEF w
  <2>3. Good(w, O) /\ w.slen = 0
    BY <1>1, <2>1, AsideRuns DEF Aside
  <2>4. Told(w, t, O)
    BY <2>3, AppCallRuns
  <2>5. t \in Contexts /\ t.conn \in ConnSet
    BY <2>4 DEF Told, Runs, Good, Contexts
  <2>6. Bound(x) => t.conn.app = NULL
    <3> SUFFICES ASSUME x.conn.app = NULL PROVE t.conn.app = NULL
      BY DEF Bound
    <3>1. w.conn.app = NULL /\ "CONNECTED" \notin w.flags
      BY <2>1
    <3>2. t = w
      BY <2>4, <3>1 DEF Told
    <3> QED BY <3>1, <3>2
  <2>7. r \in Sends
    BY <1>1, SegmentParts DEF Sends, ResetSegment, SegFlags
  <2>8. y = Stepped(t, c, t.flags, t.data, r)
    <3> HIDE DEF t, r
    <3> QED BY <2>2, <2>5 DEF Stepped, SetState, Contexts, ConnSet
  <2> HIDE DEF t, r
  <2>9. c \in ConnSet /\ c.app = t.conn.app /\ c.remote = t.conn.remote /\ c.state = "CLOSED"
    BY <2>5 DEF ConnSet, TcpStates
  <2>10. t.flags \in SUBSET Flags /\ t.data \in Payloads
    BY <2>5 DEF Contexts
  <2> HIDE DEF c
  <2>11. Aside(t, y) /\ y.conn = c
    BY <2>5, <2>7, <2>8, <2>9, <2>10, AsideBy
  <2>12. Runs(x, y, O)
    <3>1. Runs(w, t, O)
      BY <2>4 DEF Told
    <3>2. Runs(x, t, O)
      BY <2>1, <3>1, AsideRuns
    <3> QED BY <2>11, <3>2, AsideRuns
  <2> QED BY <2>6, <2>9, <2>11, <2>12 DEF Ends, Full, Bound
<1> QED BY <1>2, <1>3
\* A handler whose last steps come after the callback of a connection that ends.
LEMMA EndsWithout ==
  ASSUME NEW O \in SUBSET Socks, NEW x, NEW z, NEW t, NEW y,
         Aside(x, z), Good(x, O), x.slen = 0, Full(x.conn), x.conn.state # "CLOSED",
         z.conn.mss = x.conn.mss, z.conn.initialmss = x.conn.initialmss,
         z.flags \cap {"CLOSE", "TIMEDOUT"} # {}, t = AppCall(z),
         Aside(t, y), y.conn.mss = t.conn.mss, y.conn.initialmss = t.conn.initialmss
  PROVE  Ends(x, y, O)
<1>1. Good(z, O) /\ z.slen = 0
  BY AsideRuns DEF Aside
<1>2. Runs(z, t, O) /\ t.conn.app = NULL /\ SameConn(z.conn, t.conn)
  BY <1>1, TellEnd
<1>3. Runs(x, t, O)
  BY <1>2, AsideRuns
<1>4. Runs(x, y, O)
  BY <1>3, AsideRuns
<1>5. Full(y.conn)
  BY <1>2 DEF Full, SameConn
<1>6. Bound(y)
  BY <1>2 DEF Bound, Aside
<1> QED BY <1>4, <1>5, <1>6 DEF Ends

\* Established: FIN, or data and acknowledgements and what the sketch has to send.
LEMMA EstablishedEnds ==
  ASSUME NEW O \in SUBSET Socks, NEW x, NEW seg, Ready(x, seg, O), x.conn.state = "ESTABLISHED",
         NEW y, y = Established(x, seg)
  PROVE  Ends(x, y, O)
<1>1. /\ Good(x, O) /\ x \in Contexts /\ Full(x.conn) /\ x.conn \in ConnSet
      /\ x.data \in Payloads /\ x.sends \in Sends /\ seg \in Segments /\ x.data = seg.data
      /\ x.slen = 0 /\ Honest(x) /\ x.flags \subseteq {"ACKDATA"} /\ x.flags \in SUBSET Flags
      /\ x.conn.mss = UIP_TCP_MSS /\ x.conn.initialmss = UIP_TCP_MSS
  BY DEF Ready, Good, Contexts, Full
<1>2. CASE y = x
  BY <1>1, <1>2, AsideRuns DEF Ends
<1>3. /\ \A k \in Nat : (x.conn.rcv_nxt + k) % SeqSize \in 0 .. SeqSize - 1
      /\ Len(seg.data) \in Nat /\ 1 + Len(seg.data) \in Nat
  <2>1. x.conn.rcv_nxt \in Int /\ Len(seg.data) \in Nat
    BY <1>1, SegmentParts, ConnParts
  <2>2. ASSUME NEW k \in Nat PROVE (x.conn.rcv_nxt + k) % SeqSize \in 0 .. SeqSize - 1
    <3>1. x.conn.rcv_nxt + k \in Int
      BY <2>1
    <3> QED BY <3>1, SequenceNumber
  <2>3. 1 + Len(seg.data) \in Nat
    BY <2>1
  <2> QED BY <2>1, <2>2, <2>3
<1>4. CASE "FIN" \in seg.flags /\ ~x.conn.stopped /\ y # x
  <2> DEFINE n == (x.conn.rcv_nxt + (1 + Len(seg.data))) % SeqSize
             c == [x.conn EXCEPT !.rcv_nxt = n]
             f == x.flags \cup {"CLOSE"} \cup DataFlag(seg)
             z == Stepped(x, c, f, x.data, x.sends)
             t == AppCall(z)
             d == [t.conn EXCEPT !.state = "LAST_ACK", !.stopped = FALSE, !.len = 1, !.nrtx = 0]
             w == Stepped(t, d, t.flags, t.data, t.sends)
  <2>1. n \in 0 .. SeqSize - 1
    BY <1>3
  <2>2. y = Send([SetState(t, "LAST_ACK") EXCEPT !.conn.len = 1, !.conn.nrtx = 0], {"FIN", "ACK"})
    <3>1. [Received(x, 1 + Len(seg.data)) EXCEPT !.flags = @ \cup {"CLOSE"} \cup DataFlag(seg)] = z
      BY <1>1 DEF Stepped, Received, Contexts, ConnSet
    <3> QED BY <1>4, <3>1 DEF Established
  <2> HIDE DEF n
  <2>3. /\ c \in ConnSet /\ c.app = x.conn.app /\ c.remote = x.conn.remote
        /\ c.mss = x.conn.mss /\ c.initialmss = x.conn.initialmss
    BY <1>1, <2>1 DEF ConnSet
  <2>4. f \in SUBSET Flags
    BY <1>1 DEF Flags, DataFlag
  <2>5. "CLOSE" \in f
    OBVIOUS
  <2> HIDE DEF c, f
  <2>6. Aside(x, z) /\ z.conn = c /\ z.flags = f
    BY <1>1, <2>3, <2>4, AsideBy
  <2> HIDE DEF z
  <2>7. t \in Contexts
    <3>1. Good(z, O) /\ z.slen = 0
      BY <1>1, <2>6, AsideRuns DEF Aside
    <3> QED BY <2>5, <2>6, <3>1, TellEnd
  <2> HIDE DEF t
  <2>8. t.conn \in ConnSet /\ t.flags \in SUBSET Flags /\ t.data \in Payloads /\ t.sends \in Sends
    BY <2>7 DEF Contexts
  <2>9. y = Send(w, {"FIN", "ACK"})
    <3>1. [SetState(t, "LAST_ACK") EXCEPT !.conn.len = 1, !.conn.nrtx = 0] = w
      BY <2>7, <2>8 DEF Stepped, SetState, Contexts, ConnSet
    <3> QED BY <2>2, <3>1
  <2>10. /\ d \in ConnSet /\ d.app = t.conn.app /\ d.remote = t.conn.remote
         /\ d.mss = t.conn.mss /\ d.initialmss = t.conn.initialmss
    BY <2>8, SmallRanges DEF ConnSet, TcpStates
  <2> HIDE DEF d
  <2>11. Aside(t, w) /\ w.conn = d
    BY <2>7, <2>8, <2>10, AsideBy
  <2> HIDE DEF w
  <2>12. Aside(w, y) /\ y.conn = d
    <3>1. w \in Contexts
      BY <2>11 DEF Aside
    <3> QED BY <2>9, <2>11, <3>1, SendAside DEF SegFlags
  <2>13. Aside(t, y)
    BY <2>11, <2>12 DEF Aside
  <2> QED BY <1>1, <2>3, <2>5, <2>6, <2>10, <2>12, <2>13, EndsWithout DEF t
<1>5. CASE ~("FIN" \in seg.flags /\ ~x.conn.stopped)
  <2> DEFINE n == (x.conn.rcv_nxt + Len(seg.data)) % SeqSize
             new == IF x.conn.stopped THEN x
                    ELSE [Received(x, Len(seg.data)) EXCEPT !.flags = @ \cup DataFlag(seg)]
             m == IF seg.wnd = 0 THEN x.conn.initialmss ELSE Lesser(seg.wnd, x.conn.initialmss)
             z == [new EXCEPT !.conn.mss = m]
             c == [x.conn EXCEPT !.rcv_nxt = IF x.conn.stopped THEN @ ELSE n, !.mss = m]
             f == IF x.conn.stopped THEN x.flags ELSE x.flags \cup DataFlag(seg)
  <2>1. y = IF z.flags # {} THEN AppSend(AppCall(z)) ELSE z
    BY <1>5 DEF Established
  <2>2. m = UIP_TCP_MSS
    <3>1. seg.wnd = UIP_TCP_MSS
      BY <1>1, SegmentParts
    <3> QED BY <1>1, <3>1, TcpAssumption DEF Lesser
  <2>3. n \in 0 .. SeqSize - 1
    BY <1>3
  <2> HIDE DEF m
  <2>4. z = Stepped(x, c, f, x.data, x.sends)
    BY <1>1 DEF Stepped, Received, Contexts, ConnSet
  <2> HIDE DEF n, z
  <2>5. /\ c \in ConnSet /\ c.app = x.conn.app /\ c.remote = x.conn.remote /\ c.len = x.conn.len
        /\ c.state = "ESTABLISHED" /\ c.mss = UIP_TCP_MSS /\ c.initialmss = UIP_TCP_MSS
    BY <1>1, <2>2, <2>3, SmallRanges DEF ConnSet
  <2>6. f \in SUBSET Flags /\ f \subseteq {"ACKDATA", "NEWDATA"} /\ (f \cap {"ACKDATA"} # {} => IsAcked(x))
    BY <1>1 DEF Flags, DataFlag, IsAcked
  <2> HIDE DEF c, f
  <2>7. Aside(x, z) /\ z.conn = c /\ z.flags = f /\ z.data = x.data
    BY <1>1, <2>4, <2>5, <2>6, AsideBy
  <2>8. Good(z, O) /\ z.slen = 0 /\ Full(z.conn) /\ z.conn.state = "ESTABLISHED"
    <3>1. Good(z, O)
      BY <1>1, <2>7, AsideRuns
    <3> QED BY <1>1, <2>5, <2>7, <3>1 DEF Full, Aside
  <2>9. Honest(z)
    BY <1>1, <2>5, <2>6, <2>7 DEF Honest, IsAcked
  <2>10. Bound(x) => Settled(z)
    BY <2>5, <2>7 DEF Bound, Settled, Matched, Aside
  <2>11. CASE y = AppSend(AppCall(z))
    <3>1. Runs(z, y, O) /\ Full(y.conn) /\ (Settled(z) /\ Honest(z) => Bound(y))
      BY <2>8, <2>11, TellAndSend
    <3>2. Runs(x, y, O)
      BY <2>7, <3>1, AsideRuns
    <3> QED BY <2>9, <2>10, <3>1, <3>2 DEF Ends
  <2>12. CASE y = z
    <3>1. Runs(x, y, O)
      BY <1>1, <2>7, <2>12, AsideRuns
    <3> QED BY <2>8, <2>10, <2>12, <3>1 DEF Ends, Bound, Settled
  <2> QED BY <2>1, <2>11, <2>12
<1> QED BY <1>2, <1>4, <1>5
\* LastAck: the FIN has arrived.
LEMMA LastAckEnds ==
  ASSUME NEW O \in SUBSET Socks, NEW x, NEW seg, Ready(x, seg, O), x.conn.state = "LAST_ACK",
         NEW y, y = LastAck(x)
  PROVE  Ends(x, y, O)
<1>1. /\ Good(x, O) /\ x \in Contexts /\ Full(x.conn) /\ x.conn \in ConnSet
      /\ x.data \in Payloads /\ x.sends \in Sends /\ x.slen = 0
  BY DEF Ready, Good, Contexts
<1>2. CASE y = x
  BY <1>1, <1>2, AsideRuns DEF Ends
<1>3. CASE IsAcked(x)
  <2> DEFINE c == [x.conn EXCEPT !.state = "CLOSED", !.stopped = FALSE]
             z == Stepped(x, c, {"CLOSE"}, x.data, x.sends)
  <2>1. y = AppCall(z)
    <3>1. [SetState(x, "CLOSED") EXCEPT !.flags = {"CLOSE"}] = z
      BY <1>1 DEF Stepped, SetState, Contexts, ConnSet
    <3> QED BY <1>3, <3>1 DEF LastAck
  <2>2. /\ c \in ConnSet /\ c.app = x.conn.app /\ c.remote = x.conn.remote
        /\ c.mss = x.conn.mss /\ c.initialmss = x.conn.initialmss
    BY <1>1 DEF ConnSet, TcpStates
  <2>3. {"CLOSE"} \in SUBSET Flags
    BY DEF Flags
  <2> HIDE DEF c
  <2>4. Aside(x, z) /\ z.conn = c /\ z.flags = {"CLOSE"}
    BY <1>1, <2>2, <2>3, AsideBy
  <2> HIDE DEF z
  <2>5. y \in Contexts
    <3>1. Good(z, O) /\ z.slen = 0
      BY <1>1, <2>4, AsideRuns DEF Aside
    <3> QED BY <2>1, <2>4, <3>1, TellEnd
  <2>6. Aside(y, y)
    BY <2>5 DEF Aside
  <2> QED BY <1>1, <2>1, <2>2, <2>4, <2>6, EndsWithout
<1> QED BY <1>2, <1>3 DEF LastAck

\* Data in FIN_WAIT_1 or FIN_WAIT_2 are counted and dropped.
LEMMA ReceivedAside ==
  ASSUME NEW x \in Contexts, NEW seg \in Segments, NEW y, y = Received(x, Len(seg.data))
  PROVE  /\ Aside(x, y) /\ y.flags = x.flags
         /\ y.conn.mss = x.conn.mss /\ y.conn.initialmss = x.conn.initialmss
         /\ y.conn.state = x.conn.state /\ y.conn.len = x.conn.len
<1> DEFINE n == (x.conn.rcv_nxt + Len(seg.data)) % SeqSize
           c == [x.conn EXCEPT !.rcv_nxt = n]
<1>1. /\ x.conn \in ConnSet /\ x.flags \in SUBSET Flags /\ x.data \in Payloads /\ x.sends \in Sends
  BY DEF Contexts
<1>2. n \in 0 .. SeqSize - 1
  <2>1. x.conn.rcv_nxt \in Int /\ Len(seg.data) \in Nat
    BY <1>1, SegmentParts, ConnParts
  <2>2. x.conn.rcv_nxt + Len(seg.data) \in Int
    BY <2>1
  <2> QED BY <2>2, SequenceNumber
<1>3. y = Stepped(x, c, x.flags, x.data, x.sends)
  BY <1>1 DEF Stepped, Received, Contexts, ConnSet
<1> HIDE DEF n
<1>4. /\ c \in ConnSet /\ c.app = x.conn.app /\ c.remote = x.conn.remote
      /\ c.mss = x.conn.mss /\ c.initialmss = x.conn.initialmss
      /\ c.state = x.conn.state /\ c.len = x.conn.len
  BY <1>1, <1>2 DEF ConnSet
<1> HIDE DEF c
<1>5. Aside(x, y) /\ y.conn = c /\ y.flags = x.flags
  BY <1>1, <1>3, <1>4, AsideBy
<1> QED BY <1>4, <1>5

\* An assignment to tcpstateflags.
LEMMA SetStateAside ==
  ASSUME NEW x \in Contexts, NEW state \in TcpStates, NEW y, y = SetState(x, state)
  PROVE  /\ Aside(x, y) /\ y.flags = x.flags
         /\ y.conn.mss = x.conn.mss /\ y.conn.initialmss = x.conn.initialmss
         /\ y.conn.state = state /\ y.conn.len = x.conn.len
<1> DEFINE c == [x.conn EXCEPT !.state = state, !.stopped = FALSE]
<1>1. /\ x.conn \in ConnSet /\ x.flags \in SUBSET Flags /\ x.data \in Payloads /\ x.sends \in Sends
  BY DEF Contexts
<1>2. y = Stepped(x, c, x.flags, x.data, x.sends)
  BY <1>1 DEF Stepped, SetState, Contexts, ConnSet
<1>3. /\ c \in ConnSet /\ c.app = x.conn.app /\ c.remote = x.conn.remote
      /\ c.mss = x.conn.mss /\ c.initialmss = x.conn.initialmss
      /\ c.state = state /\ c.len = x.conn.len
  BY <1>1 DEF ConnSet
<1> HIDE DEF c
<1>4. Aside(x, y) /\ y.conn = c /\ y.flags = x.flags
  BY <1>1, <1>2, <1>3, AsideBy
<1> QED BY <1>3, <1>4

\* The remote's FIN in FIN_WAIT_1 or FIN_WAIT_2.
LEMMA FinEnds ==
  ASSUME NEW O \in SUBSET Socks, NEW x, NEW seg, Ready(x, seg, O), x.conn.state # "CLOSED",
         NEW w, Aside(x, w), w.conn.mss = x.conn.mss, w.conn.initialmss = x.conn.initialmss,
         NEW next \in TcpStates,
         NEW y, y = Send(AppCall([Received(SetState(w, next), 1) EXCEPT !.flags = {"CLOSE"}]), {"ACK"})
  PROVE  Ends(x, y, O)
<1> DEFINE n == (w.conn.rcv_nxt + 1) % SeqSize
           c == [w.conn EXCEPT !.state = next, !.stopped = FALSE, !.rcv_nxt = n]
           z == Stepped(w, c, {"CLOSE"}, w.data, w.sends)
           t == AppCall(z)
<1>1. /\ w \in Contexts /\ w.conn \in ConnSet /\ w.data \in Payloads /\ w.sends \in Sends
      /\ Good(x, O) /\ x.slen = 0 /\ Full(x.conn)
  BY DEF Aside, Contexts, Ready
<1>2. n \in 0 .. SeqSize - 1
  <2>1. w.conn.rcv_nxt \in Int
    BY <1>1, ConnParts
  <2>2. w.conn.rcv_nxt + 1 \in Int
    BY <2>1
  <2> QED BY <2>2, SequenceNumber
<1>3. y = Send(t, {"ACK"})
  <2>1. [Received(SetState(w, next), 1) EXCEPT !.flags = {"CLOSE"}] = z
    BY <1>1 DEF Stepped, Received, SetState, Contexts, ConnSet
  <2> QED BY <2>1
<1> HIDE DEF n
<1>4. /\ c \in ConnSet /\ c.app = w.conn.app /\ c.remote = w.conn.remote
      /\ c.mss = w.conn.mss /\ c.initialmss = w.conn.initialmss
  BY <1>1, <1>2 DEF ConnSet
<1>5. {"CLOSE"} \in SUBSET Flags
  BY DEF Flags
<1> HIDE DEF c
<1>6. Aside(w, z) /\ z.conn = c /\ z.flags = {"CLOSE"}
  BY <1>1, <1>4, <1>5, AsideBy
<1> HIDE DEF z
<1>7. Aside(x, z)
  BY <1>6 DEF Aside
<1>8. t \in Contexts
  <2>1. Good(z, O) /\ z.slen = 0
    BY <1>1, <1>7, AsideRuns DEF Aside
  <2> QED BY <1>6, <2>1, TellEnd
<1>9. Aside(t, y) /\ y.conn = t.conn
  <2> HIDE DEF t
  <2> QED BY <1>3, <1>8, SendAside DEF SegFlags
<1> QED BY <1>1, <1>4, <1>6, <1>7, <1>9, EndsWithout

\* FinWait1 and FinWait2: the socket has been given back already.
LEMMA FinWaitEnds ==
  ASSUME NEW O \in SUBSET Socks, NEW x, NEW seg, Ready(x, seg, O),
         x.conn.state \in {"FIN_WAIT_1", "FIN_WAIT_2"},
         NEW y, y \in {FinWait1(x, seg), FinWait2(x, seg)}
  PROVE  Ends(x, y, O)
<1> DEFINE new == Received(x, Len(seg.data))
<1>1. Good(x, O) /\ x \in Contexts /\ Full(x.conn) /\ seg \in Segments
  BY DEF Ready, Good
<1>2. /\ Aside(x, new) /\ new.conn.mss = x.conn.mss /\ new.conn.initialmss = x.conn.initialmss
      /\ new.conn.state = x.conn.state /\ new.conn.len = x.conn.len
  BY <1>1, ReceivedAside
<1>3. new \in Contexts
  BY <1>2 DEF Aside
<1>4. Bound(x) => x.conn.app = NULL
  BY DEF Bound
<1>5. ASSUME NEW next \in TcpStates,
             y = Send(AppCall([Received(SetState(new, next), 1) EXCEPT !.flags = {"CLOSE"}]), {"ACK"})
      PROVE  Ends(x, y, O)
  <2> HIDE DEF new
  <2> QED BY <1>2, <1>5, FinEnds
<1>6. CASE y = SetState(new, "FIN_WAIT_2")
  <2> HIDE DEF new
  <2>1. "FIN_WAIT_2" \in TcpStates
    BY DEF TcpStates
  <2>2. Aside(new, y) /\ y.conn.mss = new.conn.mss /\ y.conn.initialmss = new.conn.initialmss
    BY <1>3, <1>6, <2>1, SetStateAside
  <2>3. Aside(x, y)
    BY <1>2, <2>2 DEF Aside
  <2> QED BY <1>1, <1>2, <1>4, <2>2, <2>3, EndsAside
<1>7. CASE y = Send(new, {"ACK"})
  <2> HIDE DEF new
  <2>1. Aside(new, y) /\ y.conn = new.conn
    BY <1>3, <1>7, SendAside DEF SegFlags
  <2>2. Aside(x, y)
    BY <1>2, <2>1 DEF Aside
  <2> QED BY <1>1, <1>2, <1>4, <2>1, <2>2, EndsAside
<1>8. CASE y = new
  <2> HIDE DEF new
  <2> QED BY <1>1, <1>2, <1>4, <1>8, EndsAside
<1>9. {"TIME_WAIT", "CLOSING"} \subseteq TcpStates
  BY DEF TcpStates
<1>10. CASE y = FinWait1(x, seg)
  <2> DEFINE next == IF IsAcked(x) THEN "TIME_WAIT" ELSE "CLOSING"
  <2>1. next \in TcpStates
    BY <1>9
  <2>2. y \in {Send(AppCall([Received(SetState(new, next), 1) EXCEPT !.flags = {"CLOSE"}]), {"ACK"}),
               SetState(new, "FIN_WAIT_2"), Send(new, {"ACK"}), new}
    BY <1>10 DEF FinWait1
  <2> HIDE DEF new, next
  <2> QED BY <1>5, <1>6, <1>7, <1>8, <2>1, <2>2
<1>11. CASE y = FinWait2(x, seg)
  <2>1. y \in {Send(AppCall([Received(SetState(new, "TIME_WAIT"), 1) EXCEPT !.flags = {"CLOSE"}]), {"ACK"}),
               Send(new, {"ACK"}), new}
    BY <1>11 DEF FinWait2
  <2>2. "TIME_WAIT" \in TcpStates
    BY <1>9
  <2> HIDE DEF new
  <2> QED BY <1>5, <1>7, <1>8, <2>1, <2>2
<1> QED BY <1>10, <1>11
\* CheckAck: what is acknowledged is no longer in flight.
LEMMA CheckAckReady ==
  ASSUME NEW O \in SUBSET Socks, NEW x, Good(x, O), x.slen = 0, x.flags = {}, Full(x.conn),
         NEW seg \in Segments, x.data = seg.data, x.conn.remote = seg.remote,
         NEW y, y = CheckAck(x, seg)
  PROVE  /\ Ready(y, seg, O) /\ Aside(x, y) /\ (Bound(x) => Bound(y))
<1>1. /\ x \in Contexts /\ x.conn \in ConnSet /\ x.data \in Payloads /\ x.sends \in Sends
      /\ x.flags \in SUBSET Flags
      /\ x.data \in {<<>>, <<x.conn.remote>>}
  BY SegmentParts DEF Good, Contexts
<1>2. CASE y = x
  <2>1. Aside(x, x)
    BY <1>1 DEF Aside
  <2> QED BY <1>1, <1>2, <2>1 DEF Ready, Honest
<1>3. CASE y # x
  <2> DEFINE c == [x.conn EXCEPT !.snd_nxt = seg.ack, !.len = 0]
             f == {"ACKDATA"}
  <2>1. /\ seg.ack = (x.conn.snd_nxt + x.conn.len) % SeqSize
        /\ y = [x EXCEPT !.conn.snd_nxt = seg.ack, !.conn.len = 0, !.flags = f]
    BY <1>3 DEF CheckAck
  <2>2. seg.ack \in 0 .. SeqSize - 1
    <3>1. x.conn.snd_nxt \in Int /\ x.conn.len \in Int
      BY <1>1, ConnParts, TcpAssumption
    <3>2. x.conn.snd_nxt + x.conn.len \in Int
      BY <3>1
    <3> QED BY <2>1, <3>2, SequenceNumber
  <2>3. y = Stepped(x, c, f, x.data, x.sends)
    BY <1>1, <2>1 DEF Stepped, Contexts, ConnSet
  <2>4. /\ c \in ConnSet /\ c.app = x.conn.app /\ c.remote = x.conn.remote /\ c.len = 0
        /\ c.mss = x.conn.mss /\ c.initialmss = x.conn.initialmss /\ c.state = x.conn.state
    BY <1>1, <2>2, SmallRanges DEF ConnSet
  <2>5. f \in SUBSET Flags
    BY DEF Flags
  <2> HIDE DEF c
  <2>6. Aside(x, y) /\ y.conn = c /\ y.flags = f /\ y.data = x.data
    BY <1>1, <2>3, <2>4, <2>5, AsideBy
  <2>7. Good(y, O) /\ y.slen = 0 /\ Full(y.conn) /\ Honest(y)
    <3>1. Good(y, O)
      BY <2>6, AsideRuns
    <3> QED BY <1>1, <2>4, <2>6, <3>1 DEF Full, Honest, Aside
  <2>8. Bound(x) => Bound(y)
    <3>1. ~(0 > 0)
      OBVIOUS
    <3> QED BY <2>4, <2>6, <3>1 DEF Bound, Matched, Aside
  <2> QED BY <2>6, <2>7, <2>8 DEF Ready
<1> QED BY <1>2, <1>3

\* The label "found": without a reset, a connection with a socket stays established
\* and its data the remote's.
LEMMA FoundEnds ==
  ASSUME NEW O \in SUBSET Socks, NEW x, Good(x, O), x.slen = 0, x.flags = {}, Full(x.conn),
         NEW seg \in Segments, x.data = seg.data, x.conn.remote = seg.remote,
         NEW y, y = Found(x, seg)
  PROVE  Runs(x, y, O) /\ Full(y.conn) /\ ("RST" \notin seg.flags /\ Bound(x) => Bound(y))
<1>1. /\ x \in Contexts /\ x.conn \in ConnSet /\ x.data \in Payloads /\ x.sends \in Sends
  BY DEF Good, Contexts
<1>2. CASE "RST" \in seg.flags
  <2> DEFINE c == [x.conn EXCEPT !.state = "CLOSED", !.stopped = FALSE]
             z == Stepped(x, c, {"ABORT"}, x.data, x.sends)
  <2>1. y = AppCall(z)
    <3>1. [SetState(x, "CLOSED") EXCEPT !.flags = {"ABORT"}] = z
      BY <1>1 DEF Stepped, SetState, Contexts, ConnSet
    <3> QED BY <1>2, <3>1 DEF Found
  <2>2. c \in ConnSet /\ c.app = x.conn.app /\ c.remote = x.conn.remote /\ c.state = "CLOSED"
    BY <1>1 DEF ConnSet, TcpStates
  <2>3. {"ABORT"} \in SUBSET Flags
    BY DEF Flags
  <2> HIDE DEF c
  <2>4. Aside(x, z) /\ z.conn = c
    BY <1>1, <2>2, <2>3, AsideBy
  <2> HIDE DEF z
  <2>5. Good(z, O) /\ z.slen = 0
    BY <2>4, AsideRuns DEF Aside
  <2>6. Told(z, y, O)
    BY <2>1, <2>5, AppCallRuns
  <2>7. Runs(x, y, O)
    <3>1. Runs(z, y, O)
      BY <2>6 DEF Told
    <3> QED BY <2>4, <3>1, AsideRuns
  <2> QED BY <1>2, <2>2, <2>4, <2>6, <2>7 DEF Told, SameConn, Full
<1>3. CASE "RST" \notin seg.flags /\ OutOfOrder(x.conn, seg)
  <2>1. y = Send(x, {"ACK"})
    BY <1>3 DEF Found
  <2>2. Aside(x, y) /\ y.conn = x.conn
    BY <1>1, <2>1, SendAside DEF SegFlags
  <2>3. Ends(x, y, O)
    BY <2>2, EndsAside
  <2> QED BY <2>3 DEF Ends
<1>4. CASE "RST" \notin seg.flags /\ ~OutOfOrder(x.conn, seg)
  <2> DEFINE z == CheckAck(x, seg)
  <2>1. Ready(z, seg, O) /\ Aside(x, z) /\ (Bound(x) => Bound(z))
    BY CheckAckReady
  <2>2. y = CASE z.conn.state = "SYN_RCVD" -> SynRcvd(z, seg)
              [] z.conn.state = "SYN_SENT" -> SynSent(z, seg)
              [] z.conn.state = "ESTABLISHED" -> Established(z, seg)
              [] z.conn.state = "LAST_ACK" -> LastAck(z)
              [] z.conn.state = "FIN_WAIT_1" -> FinWait1(z, seg)
              [] z.conn.state = "FIN_WAIT_2" -> FinWait2(z, seg)
              [] z.conn.state = "TIME_WAIT" -> Send(z, {"ACK"})
              [] z.conn.state = "CLOSING" -> IF IsAcked(z) THEN SetState(z, "TIME_WAIT") ELSE z
              [] z.conn.state = "CLOSED" -> z
    BY <1>4 DEF Found
  <2> HIDE DEF z
  <2>3. z \in Contexts /\ Good(z, O) /\ Full(z.conn) /\ z.conn.state \in TcpStates
    BY <2>1 DEF Ready, Good, Contexts, ConnSet
  <2>4. Ends(z, y, O)
    <3>1. CASE z.conn.state = "SYN_RCVD"
      <4>1. y = SynRcvd(z, seg)
        BY <2>2, <3>1
      <4> QED BY <2>1, <3>1, <4>1, SynRcvdEnds
    <3>2. CASE z.conn.state = "SYN_SENT"
      <4>1. y = SynSent(z, seg)
        BY <2>2, <3>2
      <4> QED BY <2>1, <3>2, <4>1, SynSentEnds
    <3>3. CASE z.conn.state = "ESTABLISHED"
      <4>1. y = Established(z, seg)
        BY <2>2, <3>3
      <4> QED BY <2>1, <3>3, <4>1, EstablishedEnds
    <3>4. CASE z.conn.state = "LAST_ACK"
      <4>1. y = LastAck(z)
        BY <2>2, <3>4
      <4> QED BY <2>1, <3>4, <4>1, LastAckEnds
    <3>5. CASE z.conn.state \in {"FIN_WAIT_1", "FIN_WAIT_2"}
      <4>1. y \in {FinWait1(z, seg), FinWait2(z, seg)}
        BY <2>2, <3>5
      <4> QED BY <2>1, <3>5, <4>1, FinWaitEnds
    <3>6. CASE z.conn.state = "TIME_WAIT"
      <4>1. y = Send(z, {"ACK"})
        BY <2>2, <3>6
      <4>2. Aside(z, y) /\ y.conn = z.conn
        BY <2>3, <4>1, SendAside DEF SegFlags
      <4> QED BY <2>3, <4>2, EndsAside
    <3>7. CASE z.conn.state = "CLOSING"
      <4>1. CASE y = SetState(z, "TIME_WAIT")
        <5>1. "TIME_WAIT" \in TcpStates
          BY DEF TcpStates
        <5>2. Aside(z, y) /\ y.conn.mss = z.conn.mss /\ y.conn.initialmss = z.conn.initialmss
          BY <2>3, <4>1, <5>1, SetStateAside
        <5>3. Bound(z) => z.conn.app = NULL
          BY <3>7 DEF Bound
        <5> QED BY <2>3, <3>7, <5>2, <5>3, EndsAside
      <4>2. CASE y = z
        BY <2>3, <4>2, AsideRuns DEF Ends
      <4> QED BY <2>2, <3>7, <4>1, <4>2
    <3>8. CASE z.conn.state = "CLOSED"
      <4>1. y = z
        BY <2>2, <3>8
      <4> QED BY <2>3, <4>1, AsideRuns DEF Ends
    <3> QED BY <2>3, <3>1, <3>2, <3>3, <3>4, <3>5, <3>6, <3>7, <3>8 DEF TcpStates
  <2>5. Runs(x, y, O)
    <3>1. Runs(z, y, O)
      BY <2>4 DEF Ends
    <3> QED BY <2>1, <3>1, AsideRuns
  <2> QED BY <2>1, <2>4, <2>5 DEF Ends
<1> QED BY <1>2, <1>3, <1>4

\* UIP_TIMER: the callback hears of a timeout, and may be asked to send again.
LEMMA ExpiredEnds ==
  ASSUME NEW O \in SUBSET Socks, NEW x, Good(x, O), x.slen = 0, x.flags = {}, Full(x.conn),
         x.data = <<>>, NEW y, y = Expired(x)
  PROVE  Ends(x, y, O)
<1>1. /\ x \in Contexts /\ x.conn \in ConnSet /\ x.data \in Payloads /\ x.sends \in Sends
      /\ x.flags \in SUBSET Flags
  BY DEF Good, Contexts
<1> DEFINE last == \/ x.conn.nrtx = UIP_MAXRTX
                   \/ x.conn.state \in {"SYN_SENT", "SYN_RCVD"} /\ x.conn.nrtx = UIP_MAXSYNRTX
<1>2. CASE last
  <2> DEFINE c == [x.conn EXCEPT !.state = "CLOSED", !.stopped = FALSE]
             z == Stepped(x, c, {"TIMEDOUT"}, x.data, x.sends)
             t == AppCall(z)
  <2>1. y = Send(t, {"RST", "ACK"})
    <3>1. [SetState(x, "CLOSED") EXCEPT !.flags = {"TIMEDOUT"}] = z
      BY <1>1 DEF Stepped, SetState, Contexts, ConnSet
    <3> QED BY <1>2, <3>1 DEF Expired
  <2>2. /\ c \in ConnSet /\ c.app = x.conn.app /\ c.remote = x.conn.remote /\ c.state = "CLOSED"
        /\ c.mss = x.conn.mss /\ c.initialmss = x.conn.initialmss
    BY <1>1 DEF ConnSet, TcpStates
  <2>3. {"TIMEDOUT"} \in SUBSET Flags
    BY DEF Flags
  <2> HIDE DEF c
  <2>4. Aside(x, z) /\ z.conn = c /\ z.flags = {"TIMEDOUT"}
    BY <1>1, <2>2, <2>3, AsideBy
  <2> HIDE DEF z
  <2>5. Runs(z, t, O) /\ t.conn.app = NULL /\ SameConn(z.conn, t.conn) /\ t \in Contexts
    <3>1. Good(z, O) /\ z.slen = 0
      BY <2>4, AsideRuns DEF Aside
    <3> QED BY <2>4, <3>1, TellEnd
  <2> HIDE DEF t
  <2>6. Aside(t, y) /\ y.conn = t.conn
    BY <2>1, <2>5, SendAside DEF SegFlags
  <2>7. Runs(x, y, O)
    <3>1. Runs(x, t, O)
      BY <2>4, <2>5, AsideRuns
    <3> QED BY <2>6, <3>1, AsideRuns
  <2> QED BY <2>2, <2>4, <2>5, <2>6, <2>7 DEF Ends, Full, Bound, SameConn
<1>3. CASE ~last
  <2> DEFINE c == [x.conn EXCEPT !.nrtx = @ + 1]
             z == Stepped(x, c, x.flags, x.data, x.sends)
             w == Stepped(x, c, {"REXMIT"}, x.data, x.sends)
  <2>1. [x EXCEPT !.conn.nrtx = @ + 1] = z /\ [z EXCEPT !.flags = {"REXMIT"}] = w
    BY <1>1 DEF Stepped, Contexts, ConnSet
  <2>2. y = CASE z.conn.state = "SYN_RCVD" -> Send(z, {"SYN", "ACK"})
              [] z.conn.state = "SYN_SENT" -> Send(z, {"SYN"})
              [] z.conn.state = "ESTABLISHED" -> AppRexmit(AppCall(w))
              [] z.conn.state \in {"FIN_WAIT_1", "CLOSING", "LAST_ACK"} -> Send(z, {"FIN", "ACK"})
              [] OTHER -> z
    BY <1>3, <2>1 DEF Expired
  <2>3. x.conn.nrtx + 1 \in 0 .. UIP_MAXRTX
    <3>1. x.conn.nrtx \in 0 .. UIP_MAXRTX /\ x.conn.nrtx # UIP_MAXRTX
      BY <1>1, <1>3, ConnParts
    <3> QED BY <3>1, TcpAssumption
  <2>4. /\ c \in ConnSet /\ c.app = x.conn.app /\ c.remote = x.conn.remote /\ c.state = x.conn.state
        /\ c.mss = x.conn.mss /\ c.initialmss = x.conn.initialmss /\ c.len = x.conn.len
    BY <1>1, <2>3 DEF ConnSet
  <2> HIDE DEF c
  <2>5. Aside(x, z) /\ z.conn = c
    BY <1>1, <2>4, AsideBy
  <2>6. Aside(x, w) /\ w.conn = c /\ w.flags = {"REXMIT"} /\ w.data = x.data
    <3>1. {"REXMIT"} \in SUBSET Flags
      BY DEF Flags
    <3> QED BY <1>1, <2>4, <3>1, AsideBy
  <2> HIDE DEF z, w
  <2>7. ASSUME NEW f \in SUBSET SegFlags, y = Send(z, f)
        PROVE  Ends(x, y, O)
    <3>1. z \in Contexts
      BY <2>5 DEF Aside
    <3>2. Aside(z, y) /\ y.conn = z.conn
      BY <2>7, <3>1, SendAside
    <3>3. Aside(x, y)
      BY <2>5, <3>2 DEF Aside
    <3> QED BY <2>4, <2>5, <3>2, <3>3, EndsAside
  <2>8. CASE y = z
    BY <2>4, <2>5, <2>8, EndsAside
  <2>9. CASE z.conn.state = "ESTABLISHED"
    <3>1. y = AppRexmit(AppCall(w))
      BY <2>2, <2>9
    <3>2. Good(w, O) /\ w.slen = 0 /\ Full(w.conn) /\ w.conn.state = "ESTABLISHED"
      <4>1. Good(w, O)
        BY <2>6, AsideRuns
      <4> QED BY <2>4, <2>5, <2>6, <2>9, <4>1 DEF Full, Aside
    <3>3. Runs(w, y, O) /\ Full(y.conn) /\ (Settled(w) /\ Honest(w) => Bound(y))
      BY <3>1, <3>2, TellAndSend
    <3>4. Honest(w)
      BY <2>6 DEF Honest
    <3>5. Bound(x) => Settled(w)
      BY <2>4, <2>6 DEF Bound, Settled, Matched, Aside
    <3>6. Runs(x, y, O)
      BY <2>6, <3>3, AsideRuns
    <3> QED BY <3>3, <3>4, <3>5, <3>6 DEF Ends
  <2>10. CASE z.conn.state # "ESTABLISHED"
    <3>1. y \in {Send(z, {"SYN", "ACK"}), Send(z, {"SYN"}), Send(z, {"FIN", "ACK"}), z}
      BY <2>2, <2>10
    <3>2. {"SYN", "ACK"} \in SUBSET SegFlags /\ {"SYN"} \in SUBSET SegFlags /\ {"FIN", "ACK"} \in SUBSET SegFlags
      BY DEF SegFlags
    <3> QED BY <2>7, <2>8, <3>1, <3>2
  <2> QED BY <2>9, <2>10
<1> QED BY <1>2, <1>3

-----------------------------------------------------------------------------
(* The state between two runs *)

\* The sockets of the connections other than c.
Others(c) == {conns[d].app : d \in Conns \ {c}} \ {NULL}

Calling ==
  [op : {"idle"}] \cup [op : {"connect"}, conn : Conns]
    \cup [op : {"write"}, sock : Socks, data : Seq({Unit})]

Shape ==
  /\ conns \in [Conns -> ConnSet] /\ socks \in [Socks -> SockSet]
  /\ SocksSound(socks)
  /\ \A c \in Conns : Full(conns[c])

Rest ==
  /\ used \in Int /\ in_packet \in Segments \cup {NULL}
  /\ client \in Socks \cup {NULL} /\ call \in Calling

\* A socket belongs to one connection at most, and to one while it is live.
Ownership ==
  /\ \A c, d \in Conns : c # d /\ conns[c].app # NULL => conns[c].app # conns[d].app
  /\ \A t \in Socks : Live(socks[t]) <=> \E c \in Conns : conns[c].app = t

IInv == Shape /\ Rest /\ Ownership /\ RemotesDistinct

\* A connection with a socket is established, and they fit each other.
Fits ==
  \A c \in Conns : conns[c].app # NULL =>
    /\ conns[c].state = "ESTABLISHED"
    /\ FromRemote(socks[conns[c].app], conns[c].remote)
    /\ conns[c].len > 0 => FirstIs(socks[conns[c].app], conns[c].len)

\* One connection and its socket have changed as a run of uip_process may
\* change them.  If the connection was free, its remote is new.
ConnStep(c, y) ==
  /\ conns' = [conns EXCEPT ![c] = y.conn] /\ socks' = y.socks
  /\ Good(y, Others(c)) /\ Full(y.conn)
  /\ \A t \in Others(c) : y.socks[t] = socks[t]
  /\ \/ ~Closed(c) /\ y.conn.remote = conns[c].remote
     \/ \A d \in Conns : ~Closed(d) => conns[d].remote # y.conn.remote

\* The sketch has changed socket s to m.
SockStep(s, m) ==
  /\ conns' = conns /\ socks' = [socks EXCEPT ![s] = m]
  /\ m \in SockSet /\ SockSound(m) /\ (Live(m) <=> Live(socks[s]))
  /\ \A i \in DOMAIN m.in : \E j \in DOMAIN socks[s].in : m.in[i] = socks[s].in[j]
  /\ \A n \in Nat : n > 0 /\ FirstIs(socks[s], n) => FirstIs(m, n)

\* At most one socket has changed, and no more blocks are held than are counted.
\* As many are if no segment is lost with its block, no write() goes on after its
\* connection has ended, and none has done so before.
Accounted ==
  \E s \in Socks :
    /\ \A t \in Socks \ {s} : socks'[t] = socks[t]
    /\ used' - Held(socks'[s]) >= used - Held(socks[s])
    /\ FALSE \notin Sent /\ "latewrite" \notin Calls /\ FreeEmpty(socks)
         => FreeEmpty(socks') /\ used' - Held(socks'[s]) = used - Held(socks[s])

\* x is what a run of uip_process for connection c starts with.
Begins(x, c, data) ==
  /\ Good(x, Others(c)) /\ Full(x.conn) /\ (Fits => Bound(x))
  /\ x.conn = conns[c] /\ x.socks = socks /\ x.used = used /\ x.data = data
  /\ x.slen = 0 /\ x.flags = {} /\ x.keep = FALSE /\ x.packet = FALSE

\* The context is one.
LEMMA ContextGood ==
  ASSUME Shape, Rest, Ownership, NEW c \in Conns, NEW data \in Payloads, NEW memory \in BOOLEAN,
         NEW x, x = Context(c, data, memory)
  PROVE  Others(c) \in SUBSET Socks /\ Begins(x, c, data)
<1> USE TcpAssumption
<1>1. /\ conns[c] \in ConnSet /\ socks \in [Socks -> SockSet] /\ used \in Int /\ SocksSound(socks)
      /\ Full(conns[c])
  BY DEF Shape, Rest
<1>2. Others(c) \in SUBSET Socks
  <2>1. \A d \in Conns : conns[d].app \in Socks \cup {NULL}
    BY DEF Shape, ConnSet
  <2> QED BY <2>1 DEF Others
<1>3. x \in Contexts
  <2>1. 0 \in 0 .. UIP_TCP_MSS
    OBVIOUS
  <2> QED BY <1>1, <2>1 DEF Contexts, Context, Sends, Flags
<1>4. /\ x.conn = conns[c] /\ x.socks = socks /\ x.used = used /\ x.data = data
      /\ x.slen = 0 /\ x.flags = {} /\ x.keep = FALSE /\ x.packet = FALSE
  BY DEF Context
<1>5. Owned(socks, conns[c].app, Others(c))
  <2>1. conns[c].app \notin Others(c)
    BY DEF Others, Ownership
  <2>2. ASSUME NEW t \in Socks PROVE Live(socks[t]) <=> t \in Others(c) \/ t = conns[c].app
    <3>1. t # NULL
      BY DEF Socks
    <3> QED BY <3>1 DEF Others, Ownership
  <2> QED BY <2>1, <2>2 DEF Owned
<1>6. Fits => Bound(x)
  BY <1>4 DEF Fits, Bound, Matched
<1> QED BY <1>1, <1>2, <1>3, <1>4, <1>5, <1>6 DEF Begins, Good

\* Such a change of a connection keeps the invariant's parts.
LEMMA ConnStepKeeps ==
  ASSUME Shape, Ownership, RemotesDistinct, NEW c \in Conns, NEW y, ConnStep(c, y)
  PROVE  /\ Shape' /\ Ownership' /\ RemotesDistinct'
         /\ Fits /\ Bound(y) => Fits'
<1> USE TcpAssumption
<1>1. /\ conns \in [Conns -> ConnSet] /\ y \in Contexts /\ y.conn \in ConnSet
      /\ conns' = [conns EXCEPT ![c] = y.conn] /\ socks' = y.socks /\ NULL \notin Socks
  BY DEF Shape, ConnStep, Good, Contexts, Socks
<1>2. conns'[c] = y.conn /\ \A d \in Conns \ {c} : conns'[d] = conns[d]
  BY <1>1
<1>3. \A d \in Conns \ {c} : conns[d].app # NULL =>
        conns[d].app \in Others(c) /\ socks'[conns[d].app] = socks[conns[d].app]
  BY <1>1 DEF Others, ConnStep
<1>4. Shape'
  <2>1. conns' \in [Conns -> ConnSet] /\ socks' \in [Socks -> SockSet]
    BY <1>1 DEF Contexts
  <2>2. SocksSound(socks')
    BY <1>1 DEF ConnStep, Good
  <2>3. \A d \in Conns : Full(conns'[d])
    BY <1>2 DEF ConnStep, Shape
  <2> QED BY <2>1, <2>2, <2>3 DEF Shape
<1>5. Ownership'
  <2>1. y.conn.app \notin Others(c) /\ \A t \in Socks : Live(socks'[t]) <=> t \in Others(c) \/ t = y.conn.app
    BY <1>1 DEF ConnStep, Good, Owned
  <2>2. ASSUME NEW a \in Conns, NEW b \in Conns, a # b, conns'[a].app # NULL
        PROVE  conns'[a].app # conns'[b].app
    <3>1. CASE a = c
      <4>1. conns'[a].app = y.conn.app /\ conns'[b].app = conns[b].app
        BY <1>2, <2>2, <3>1
      <4> QED BY <1>3, <2>1, <2>2, <3>1, <4>1
    <3>2. CASE b = c
      <4>1. conns'[b].app = y.conn.app /\ conns'[a].app = conns[a].app
        BY <1>2, <2>2, <3>2
      <4> QED BY <1>3, <2>1, <2>2, <3>2, <4>1
    <3>3. CASE a # c /\ b # c
      <4>1. conns'[b].app = conns[b].app /\ conns'[a].app = conns[a].app
        BY <1>2, <3>3
      <4> QED BY <2>2, <4>1 DEF Ownership
    <3> QED BY <3>1, <3>2, <3>3
  <2>3. ASSUME NEW t \in Socks PROVE Live(socks'[t]) <=> \E d \in Conns : conns'[d].app = t
    <3>1. t \in Others(c) <=> \E d \in Conns \ {c} : conns[d].app = t
      BY <1>1 DEF Others
    <3> QED BY <1>2, <2>1, <3>1
  <2> QED BY <2>2, <2>3 DEF Ownership
<1>6. RemotesDistinct'
  <2> SUFFICES ASSUME NEW a \in Conns, NEW b \in Conns, a # b, ~Closed(a)', ~Closed(b)',
                      conns'[a].remote = conns'[b].remote
               PROVE  FALSE
    BY DEF RemotesDistinct
  <2>1. \A d \in Conns \ {c} : Closed(d)' <=> Closed(d)
    BY <1>2 DEF Closed
  <2>2. CASE a # c /\ b # c
    BY <1>2, <2>1, <2>2 DEF RemotesDistinct
  <2>3. ASSUME NEW d \in Conns \ {c}, ~Closed(d), conns[d].remote = y.conn.remote
        PROVE  FALSE
    BY <2>3 DEF ConnStep, RemotesDistinct
  <2> QED BY <1>2, <2>1, <2>2, <2>3
<1>7. ASSUME Fits, Bound(y) PROVE Fits'
  <2>1. ASSUME NEW d \in Conns, conns'[d].app # NULL
        PROVE  /\ conns'[d].state = "ESTABLISHED"
               /\ FromRemote(socks'[conns'[d].app], conns'[d].remote)
               /\ conns'[d].len > 0 => FirstIs(socks'[conns'[d].app], conns'[d].len)
    <3>1. CASE d = c
      BY <1>1, <1>2, <1>7, <2>1, <3>1 DEF Bound, Matched
    <3>2. CASE d # c
      <4>1. conns'[d] = conns[d] /\ socks'[conns[d].app] = socks[conns[d].app]
        BY <1>2, <1>3, <2>1, <3>2
      <4> QED BY <1>7, <2>1, <4>1 DEF Fits
    <3> QED BY <3>1, <3>2
  <2> QED BY <2>1 DEF Fits
<1> QED BY <1>4, <1>5, <1>6, <1>7

\* What the sketch does to a socket does so too.
LEMMA SockStepKeeps ==
  ASSUME Shape, Ownership, RemotesDistinct, NEW s \in Socks, NEW m, SockStep(s, m)
  PROVE  Shape' /\ Ownership' /\ RemotesDistinct' /\ (Fits => Fits')
<1> USE TcpAssumption
<1>1. /\ socks \in [Socks -> SockSet] /\ conns' = conns /\ socks' = [socks EXCEPT ![s] = m]
      /\ m \in SockSet /\ NULL \notin Socks
  BY DEF Shape, SockStep, Socks
<1>2. socks'[s] = m /\ \A t \in Socks \ {s} : socks'[t] = socks[t]
  BY <1>1
<1>3. Shape'
  BY <1>1, <1>2 DEF Shape, SockStep, SocksSound
<1>4. Ownership'
  <2>1. \A t \in Socks : Live(socks'[t]) <=> Live(socks[t])
    BY <1>2 DEF SockStep
  <2> QED BY <1>1, <2>1 DEF Ownership
<1>5. RemotesDistinct'
  BY <1>1 DEF RemotesDistinct, Closed
<1>6. ASSUME Fits PROVE Fits'
  <2>1. ASSUME NEW d \in Conns, conns[d].app # NULL
        PROVE  /\ conns[d].state = "ESTABLISHED"
               /\ FromRemote(socks'[conns[d].app], conns[d].remote)
               /\ conns[d].len > 0 => FirstIs(socks'[conns[d].app], conns[d].len)
    <3>1. /\ conns[d].state = "ESTABLISHED"
          /\ FromRemote(socks[conns[d].app], conns[d].remote)
          /\ conns[d].len > 0 => FirstIs(socks[conns[d].app], conns[d].len)
      BY <1>6, <2>1 DEF Fits
    <3>2. conns[d].app \in Socks /\ conns[d].len \in Nat
      BY <2>1 DEF Shape, ConnSet
    <3>3. CASE conns[d].app = s
      <4>1. FromRemote(m, conns[d].remote)
        BY <3>1, <3>3 DEF FromRemote, SockStep
      <4>2. conns[d].len > 0 => FirstIs(m, conns[d].len)
        BY <3>1, <3>2, <3>3 DEF SockStep
      <4> QED BY <1>2, <3>1, <3>3, <4>1, <4>2
    <3>4. CASE conns[d].app # s
      BY <1>2, <3>1, <3>2, <3>4
    <3> QED BY <3>3, <3>4
  <2> QED BY <1>1, <2>1 DEF Fits
<1> QED BY <1>3, <1>4, <1>5, <1>6
\* Remotes close and time out, but they do not reset.
NoResets == \A F \in FlagSets : "RST" \notin F

Kept == IInv' /\ Accounted /\ (NoResets /\ Fits => Fits')

\* The end of a run that began with w.
LEMMA FinishKeeps ==
  ASSUME IInv, NEW c \in Conns, NEW w, w.socks = socks, w.used = used, Good(w, Others(c)),
         NEW y, Runs(w, y, Others(c)), Full(y.conn), NoResets /\ Fits => Bound(y),
         \/ ~Closed(c) /\ w.conn.remote = conns[c].remote
         \/ \A d \in Conns : ~Closed(d) => conns[d].remote # w.conn.remote,
         NEW seg \in Segments \cup {NULL}, Finish(c, y, seg)
  PROVE  Kept
<1>1. Shape /\ Rest /\ Ownership /\ RemotesDistinct /\ used \in Int /\ socks \in [Socks -> SockSet]
  BY DEF IInv, Rest, Shape
<1>2. /\ Good(y, Others(c)) /\ y.conn.remote = w.conn.remote
      /\ \A t \in Others(c) : y.socks[t] = socks[t]
      /\ Balanced(socks, used, y.socks, y.used)
      /\ y.used \in Int
  BY DEF Runs, Good, Contexts
<1>3. /\ conns' = [conns EXCEPT ![c] = y.conn] /\ socks' = y.socks
      /\ in_packet' \in {seg, NULL} /\ UNCHANGED <<client, call>>
      /\ used' \in {y.used, y.used + 1} /\ (FALSE \notin Sent => used' = y.used)
  <2>1. PICK ok \in Sent :
               /\ conns' = [conns EXCEPT ![c] = y.conn] /\ socks' = y.socks
               /\ used' = y.used + (IF y.packet /\ ~ok THEN 1 ELSE 0)
               /\ in_packet' = IF y.keep THEN seg ELSE NULL
               /\ UNCHANGED <<client, call>>
    BY DEF Finish
  <2>2. ok \in BOOLEAN /\ (FALSE \notin Sent => ok)
    BY TcpAssumption
  <2>3. y.used + 0 = y.used
    BY <1>2
  <2> QED BY <2>1, <2>2, <2>3
<1>4. ConnStep(c, y)
  BY <1>2, <1>3 DEF ConnStep
<1>5. Shape' /\ Ownership' /\ RemotesDistinct' /\ (Fits /\ Bound(y) => Fits')
  BY <1>1, <1>4, ConnStepKeeps
<1>6. Rest'
  BY <1>1, <1>2, <1>3 DEF Rest
<1>7. Accounted
  <2>1. PICK s \in Socks :
               /\ \A t \in Socks \ {s} : y.socks[t] = socks[t]
               /\ y.used - Held(y.socks[s]) >= used - Held(socks[s])
               /\ FreeEmpty(socks) /\ SocksSound(socks)
                    => FreeEmpty(y.socks) /\ y.used - Held(y.socks[s]) = used - Held(socks[s])
    BY <1>2 DEF Balanced
  <2>2. Held(y.socks[s]) \in Nat /\ Held(socks[s]) \in Nat
    <3>1. y.socks \in [Socks -> SockSet]
      BY <1>2 DEF Good, Contexts
    <3> QED BY <1>1, <3>1, SocketParts
  <2>3. used' - Held(y.socks[s]) >= used - Held(socks[s])
    BY <1>1, <1>2, <1>3, <2>1, <2>2
  <2>4. SocksSound(socks)
    BY <1>1 DEF Shape
  <2> QED BY <1>3, <2>1, <2>3, <2>4 DEF Accounted
<1> QED BY <1>5, <1>6, <1>7 DEF Kept, IInv

\* A step that only changes what a connection is, not its socket.
LEMMA OnlyConnKeeps ==
  ASSUME IInv, NEW c \in Conns, NEW d \in ConnSet, d.app = conns[c].app, Full(d),
         Fits => d.app = NULL,
         \/ ~Closed(c) /\ d.remote = conns[c].remote
         \/ \A e \in Conns : ~Closed(e) => conns[e].remote # d.remote,
         conns' = [conns EXCEPT ![c] = d], UNCHANGED <<socks, used>>, Rest'
  PROVE  Kept
<1> DEFINE x == Context(c, <<>>, TRUE)
           y == Stepped(x, d, x.flags, x.data, x.sends)
<1>1. Shape /\ Rest /\ Ownership /\ RemotesDistinct /\ used \in Int /\ socks \in [Socks -> SockSet]
  BY DEF IInv, Rest, Shape
<1>2. <<>> \in Payloads
  BY DEF Payloads
<1>3. /\ Good(x, Others(c)) /\ x.socks = socks /\ x.conn = conns[c] /\ Others(c) \in SUBSET Socks
  <2> HIDE DEF x
  <2>1. Others(c) \in SUBSET Socks /\ Begins(x, c, <<>>)
    BY <1>1, <1>2, ContextGood DEF x
  <2> QED BY <2>1 DEF Begins
<1> HIDE DEF x
<1>4. y.conn = d /\ y.socks = socks /\ y \in Contexts
  BY <1>3 DEF Stepped, Good, Contexts
<1>5. Good(y, Others(c))
  BY <1>3, <1>4 DEF Good
<1> HIDE DEF y
<1>6. ConnStep(c, y)
  BY <1>4, <1>5 DEF ConnStep
<1>7. Shape' /\ Ownership' /\ RemotesDistinct' /\ (Fits /\ Bound(y) => Fits')
  BY <1>1, <1>6, ConnStepKeeps
<1>8. Fits => Bound(y)
  BY <1>4 DEF Bound
<1>9. Accounted
  <2>1. 0 \in Socks
    BY TcpAssumption DEF Socks
  <2>2. Held(socks[0]) \in Nat
    BY <1>1, <2>1, SocketParts
  <2>3. used - Held(socks[0]) >= used - Held(socks[0])
    BY <1>1, <2>2
  <2> QED BY <2>1, <2>3 DEF Accounted
<1> QED BY <1>7, <1>8, <1>9 DEF Kept, IInv

\* Nothing but the frame and the calls has changed.
LEMMA NothingKeeps ==
  ASSUME IInv, UNCHANGED <<conns, socks, used>>, Rest'
  PROVE  Kept
<1>1. Shape' /\ Ownership' /\ RemotesDistinct' /\ (Fits => Fits')
  BY DEF IInv, Shape, Ownership, RemotesDistinct, Closed, Fits
<1>2. Accounted
  <2>1. 0 \in Socks
    BY TcpAssumption DEF Socks
  <2>2. Held(socks[0]) \in Nat /\ used \in Int
    BY <2>1, SocketParts DEF IInv, Shape, Rest
  <2>3. used - Held(socks[0]) >= used - Held(socks[0])
    BY <2>2
  <2> QED BY <2>1, <2>3 DEF Accounted
<1> QED BY <1>1, <1>2 DEF Kept, IInv

\* The first closed connection or one in TIME_WAIT: no socket belongs to it.
LEMMA SlotFree ==
  ASSUME NEW c \in Conns, Slot(c)
  PROVE  Fits => conns[c].app = NULL
<1> DEFINE closed == {d \in Conns : Closed(d)}
<1>1. closed # {} => Least(closed) \in closed
  <2>1. closed \in SUBSET Conns
    OBVIOUS
  <2> HIDE DEF closed
  <2> QED BY <2>1, LeastIn
<1>2. c \in closed \/ conns[c].state = "TIME_WAIT"
  <2> HIDE DEF closed
  <2> QED BY <1>1 DEF Slot, closed
<1> QED BY <1>2 DEF Closed, Fits

\* tcp_input: for a connection, for a new one, or for none.
LEMMA InputKeeps ==
  ASSUME IInv, NEW seg \in Segments, Input(seg)
  PROVE  Kept
<1> DEFINE found == {c \in Conns : ~Closed(c) /\ conns[c].remote = seg.remote}
           opens == seg.flags = {"SYN"} /\ seg.remote \in Inbound
<1>1. /\ Shape /\ Rest /\ Ownership /\ RemotesDistinct /\ used \in Int /\ socks \in [Socks -> SockSet]
      /\ conns \in [Conns -> ConnSet]
  BY DEF IInv, Rest, Shape
<1>2. "RST" \in seg.flags => ~NoResets
  <2>1. seg.flags \in FlagSets
    BY DEF Segments
  <2> QED BY <2>1 DEF NoResets
<1>3. ASSUME found # {}, NEW memory \in Memory, NEW c, c = Least(found),
             Finish(c, Found(Context(c, seg.data, memory), seg), seg)
      PROVE  Kept
  <2> DEFINE x == Context(c, seg.data, memory)
             y == Found(x, seg)
  <2>1. c \in Conns /\ ~Closed(c) /\ conns[c].remote = seg.remote
    <3>1. c \in found
      <4>1. found \in SUBSET Conns
        OBVIOUS
      <4> HIDE DEF found
      <4> QED BY <1>3, <4>1, LeastIn
    <3> QED BY <3>1
  <2>2. seg.data \in Payloads /\ memory \in BOOLEAN
    BY SegmentParts, TcpAssumption
  <2>3. /\ Others(c) \in SUBSET Socks
        /\ Good(x, Others(c)) /\ Full(x.conn) /\ (Fits => Bound(x))
        /\ x.conn = conns[c] /\ x.socks = socks /\ x.used = used /\ x.data = seg.data
        /\ x.slen = 0 /\ x.flags = {}
    <3> HIDE DEF x
    <3>1. Others(c) \in SUBSET Socks /\ Begins(x, c, seg.data)
      BY <1>1, <2>1, <2>2, ContextGood DEF x
    <3> QED BY <3>1 DEF Begins
  <2> HIDE DEF x
  <2>4. /\ Runs(x, y, Others(c)) /\ Full(y.conn)
        /\ "RST" \notin seg.flags /\ Bound(x) => Bound(y)
    BY <2>1, <2>3, FoundEnds
  <2>5. Finish(c, y, seg)
    BY <1>3 DEF x
  <2>6. NoResets /\ Fits => Bound(y)
    BY <1>2, <2>3, <2>4
  <2> HIDE DEF y
  <2> QED BY <2>1, <2>3, <2>4, <2>5, <2>6, FinishKeeps
<1>4. ASSUME found = {}, NEW c \in Conns, Slot(c), Finish(c, FoundListen(c, seg), seg)
      PROVE  Kept
  <2> DEFINE mss == Lesser(seg.mss, UIP_TCP_MSS)
             n == (seg.seq + 1) % SeqSize
             d == [conns[c] EXCEPT !.state = "SYN_RCVD", !.stopped = FALSE,
                     !.remote = seg.remote, !.snd_nxt = ISS, !.rcv_nxt = n,
                     !.len = 1, !.nrtx = 0, !.mss = mss, !.initialmss = mss]
             x == Context(c, <<>>, TRUE)
             z == Segment(d, {"SYN", "ACK"}, <<>>)
             y == FoundListen(c, seg)
  <2>1. mss = UIP_TCP_MSS /\ n \in 0 .. SeqSize - 1 /\ seg.remote \in Remotes
    <3>1. seg.seq \in Int /\ seg.mss = UIP_TCP_MSS /\ seg.remote \in Remotes
      BY SegmentParts
    <3>2. seg.seq + 1 \in Int
      BY <3>1
    <3> QED BY <3>1, <3>2, SequenceNumber, TcpAssumption DEF Lesser
  <2>2. y = [x EXCEPT !.conn = d, !.sends = z]
    BY DEF FoundListen
  <2> HIDE DEF mss, n
  <2>3. /\ d \in ConnSet /\ d.app = conns[c].app /\ d.remote = seg.remote /\ d.snd_nxt = ISS
        /\ d.mss = UIP_TCP_MSS /\ d.initialmss = UIP_TCP_MSS
    <3>1. conns[c] \in ConnSet /\ ISS \in 0 .. SeqSize - 1
      BY <1>1, TcpAssumption
    <3> QED BY <2>1, <3>1, SmallRanges DEF ConnSet, TcpStates
  <2> HIDE DEF d
  <2>4. z \in Sends
    <3>1. d.snd_nxt \in Int /\ <<>> \in Seq({Unit})
      BY <2>3, TcpAssumption
    <3> QED BY <2>1, <2>3, <3>1 DEF z, Segment, Sends, SegFlags
  <2> HIDE DEF z
  <2>5. /\ Good(x, Others(c)) /\ x.socks = socks /\ x.conn = conns[c] /\ x.used = used
        /\ Others(c) \in SUBSET Socks
    <3>1. <<>> \in Payloads
      BY DEF Payloads
    <3> HIDE DEF x
    <3>2. Others(c) \in SUBSET Socks /\ Begins(x, c, <<>>)
      BY <1>1, <3>1, ContextGood DEF x
    <3> QED BY <3>2 DEF Begins
  <2> HIDE DEF x, y
  <2>6. y.conn = d /\ y.socks = socks /\ y.used = used /\ y \in Contexts
    BY <2>2, <2>3, <2>4, <2>5 DEF Good, Contexts
  <2>7. Good(y, Others(c))
    BY <2>3, <2>5, <2>6 DEF Good
  <2>8. Runs(y, y, Others(c))
    BY <2>5, <2>7, AsideRuns
  <2>9. Fits => d.app = NULL
    BY <1>4, <2>3, SlotFree
  <2>10. Full(y.conn) /\ (NoResets /\ Fits => Bound(y))
    BY <2>3, <2>6, <2>9 DEF Full, Bound
  <2>11. \A e \in Conns : ~Closed(e) => conns[e].remote # y.conn.remote
    BY <1>4, <2>3, <2>6
  <2>12. Finish(c, y, seg)
    BY <1>4 DEF y
  <2> HIDE DEF found
  <2> QED BY <2>6, <2>7, <2>8, <2>10, <2>11, <2>12, FinishKeeps
<1>5. ASSUME in_packet' = NULL, UNCHANGED <<conns, socks, used, client, call>>
      PROVE  Kept
  <2>1. Rest'
    BY <1>1, <1>5 DEF Rest
  <2> QED BY <1>5, <2>1, NothingKeeps
<1>6. CASE found # {} /\ \E memory \in Memory :
             Finish(Least(found), Found(Context(Least(found), seg.data, memory), seg), seg)
  <2> HIDE DEF found
  <2> QED BY <1>3, <1>6
<1>7. CASE found = {} /\ \E c \in Conns : Slot(c) /\ Finish(c, FoundListen(c, seg), seg)
  <2> HIDE DEF found
  <2> QED BY <1>4, <1>7
<1>8. CASE in_packet' = NULL /\ UNCHANGED <<conns, socks, used, net, client, call>>
  BY <1>5, <1>8
<1>9. CASE Reset(seg)
  BY <1>5, <1>9 DEF Reset
<1> QED BY <1>6, <1>7, <1>8, <1>9 DEF Input
\* A timer's run, whose frame stays as it is.
LEMMA TimerKeeps ==
  ASSUME IInv, NEW c \in Conns, ~Closed(c), NEW memory \in BOOLEAN,
         NEW x, x = Context(c, <<>>, memory),
         NEW y, Runs(x, y, Others(c)), Full(y.conn), Fits => Bound(y), FinishTimer(c, y)
  PROVE  Kept
<1> DEFINE z == [y EXCEPT !.keep = in_packet # NULL]
<1>1. Shape /\ Rest /\ Ownership /\ in_packet \in Segments \cup {NULL} /\ <<>> \in Payloads
  BY DEF IInv, Rest, Payloads
<1>2. Others(c) \in SUBSET Socks /\ Begins(x, c, <<>>)
  BY <1>1, ContextGood
<1>3. y \in Contexts
  BY DEF Runs, Good
<1>4. Aside(y, z) /\ z.conn = y.conn
  <2>1. (in_packet # NULL) \in BOOLEAN
    OBVIOUS
  <2> QED BY <1>3, <2>1 DEF Aside, Contexts
<1>5. Finish(c, z, in_packet)
  BY DEF FinishTimer
<1> HIDE DEF z
<1>6. Runs(x, z, Others(c))
  BY <1>2, <1>4, AsideRuns
<1>7. Full(z.conn) /\ (NoResets /\ Fits => Bound(z))
  BY <1>4 DEF Bound, Matched, Aside
<1>8. x.socks = socks /\ x.used = used /\ Good(x, Others(c)) /\ x.conn.remote = conns[c].remote
  BY <1>2 DEF Begins
<1> QED BY <1>1, <1>5, <1>6, <1>7, <1>8, FinishKeeps

\* The steps inside a tick.
LEMMA TickKeeps ==
  ASSUME IInv, Tick
  PROVE  Kept
<1>1. /\ Shape /\ Rest /\ Ownership /\ in_packet \in Segments \cup {NULL} /\ <<>> \in Payloads
      /\ conns \in [Conns -> ConnSet] /\ Memory \subseteq BOOLEAN
  BY TcpAssumption DEF IInv, Rest, Shape, Payloads
<1>2. ASSUME NEW seg \in Segments, Receive(seg) PROVE Kept
  BY <1>2, InputKeeps DEF Receive
<1>3. CASE Reprocess
  <2>1. in_packet \in Segments /\ Input(in_packet)
    BY <1>1, <1>3 DEF Reprocess
  <2> QED BY <2>1, InputKeeps
<1>4. ASSUME NEW c \in Conns, TimeWaitEnds(c) PROVE Kept
  <2> DEFINE d == [conns[c] EXCEPT !.state = "CLOSED"]
  <2>1. /\ d \in ConnSet /\ d.app = conns[c].app /\ d.remote = conns[c].remote
        /\ d.state = "CLOSED"
    BY <1>1 DEF ConnSet, TcpStates
  <2>2. /\ conns[c].state \in {"TIME_WAIT", "FIN_WAIT_2"}
        /\ conns' = [conns EXCEPT ![c] = d] /\ UNCHANGED <<socks, used, in_packet, client, call>>
    BY <1>1, <1>4 DEF TimeWaitEnds, WaitDue
  <2>3. ~Closed(c) /\ (Fits => d.app = NULL) /\ Full(d)
    BY <2>1, <2>2 DEF Closed, Fits, Full
  <2>4. Rest'
    BY <1>1, <2>2 DEF Rest
  <2> HIDE DEF d
  <2> QED BY <2>1, <2>2, <2>3, <2>4, OnlyConnKeeps
<1>5. ASSUME NEW c \in Conns, RexmitTimer(c) PROVE Kept
  <2>1. PICK memory \in Memory : FinishTimer(c, Expired(Context(c, <<>>, memory)))
    BY <1>5 DEF RexmitTimer
  <2> DEFINE x == Context(c, <<>>, memory)
             y == Expired(x)
  <2>2. Others(c) \in SUBSET Socks /\ Begins(x, c, <<>>)
    <3> HIDE DEF x
    <3> QED BY <1>1, ContextGood DEF x
  <2> HIDE DEF x
  <2>3. Ends(x, y, Others(c)) /\ (Fits => Bound(x))
    BY <2>2, ExpiredEnds DEF Begins
  <2>4. ~Closed(c) /\ FinishTimer(c, y)
    BY <1>5, <2>1 DEF RexmitTimer, RexmitDue, x
  <2> HIDE DEF y
  <2> QED BY <1>1, <2>3, <2>4, TimerKeeps DEF Ends, x
<1>6. ASSUME NEW c \in Conns, Poll(c) PROVE Kept
  <2>1. PICK memory \in Memory :
               FinishTimer(c, AppSend(AppCall([Context(c, <<>>, memory) EXCEPT !.flags = {"POLL"}])))
    BY <1>6 DEF Poll
  <2> DEFINE x == Context(c, <<>>, memory)
             w == [x EXCEPT !.flags = {"POLL"}]
             y == AppSend(AppCall(w))
  <2>2. Others(c) \in SUBSET Socks /\ Begins(x, c, <<>>)
    <3> HIDE DEF x
    <3> QED BY <1>1, ContextGood DEF x
  <2>3. conns[c].state = "ESTABLISHED" /\ FinishTimer(c, y)
    BY <1>6, <2>1 DEF Poll, PollDue
  <2> HIDE DEF x
  <2>4. Aside(x, w) /\ w.conn = x.conn /\ w.data = x.data /\ w.flags = {"POLL"}
    <3>1. x \in Contexts /\ {"POLL"} \in SUBSET Flags
      BY <2>2 DEF Begins, Good, Flags
    <3> QED BY <3>1 DEF Aside, Contexts
  <2> HIDE DEF w
  <2>5. /\ Good(w, Others(c)) /\ w.slen = 0 /\ Full(w.conn) /\ w.conn.state = "ESTABLISHED"
        /\ w.data = <<>>
    <3>1. Good(w, Others(c))
      BY <2>2, <2>4, AsideRuns DEF Begins
    <3> QED BY <2>2, <2>3, <2>4, <3>1 DEF Begins, Aside
  <2>6. Runs(w, y, Others(c)) /\ Full(y.conn) /\ (Settled(w) /\ Honest(w) => Bound(y))
    BY <2>2, <2>5, TellAndSend
  <2>7. Runs(x, y, Others(c))
    BY <2>2, <2>4, <2>6, AsideRuns
  <2>8. Honest(w) /\ (Fits => Settled(w))
    BY <2>2, <2>4, <2>5 DEF Begins, Honest, Bound, Settled, Matched, Aside
  <2>9. ~Closed(c)
    BY <2>3 DEF Closed
  <2> HIDE DEF y
  <2>10. Full(y.conn) /\ (Fits => Bound(y))
    BY <2>6, <2>8
  <2> QED BY <1>1, <2>3, <2>7, <2>9, <2>10, TimerKeeps DEF x
<1> QED BY <1>2, <1>3, <1>4, <1>5, <1>6 DEF Tick
\* A call that changes a socket, and the count with it.
LEMMA SockKeeps ==
  ASSUME IInv, NEW s \in Socks, NEW m, SockStep(s, m), Rest',
         used' = used + (Held(m) - Held(socks[s])),
         "latewrite" \notin Calls /\ FreeEmpty(socks) /\ m.state = {} => m.out = <<>>
  PROVE  Kept
<1>1. Shape' /\ Ownership' /\ RemotesDistinct' /\ (Fits => Fits')
  BY SockStepKeeps DEF IInv
<1>2. /\ socks \in [Socks -> SockSet] /\ used \in Int /\ m \in SockSet
      /\ socks' = [socks EXCEPT ![s] = m]
  BY DEF IInv, Shape, Rest, SockStep
<1>3. socks'[s] = m /\ \A t \in Socks \ {s} : socks'[t] = socks[t]
  BY <1>2
<1>4. Held(m) \in Nat /\ Held(socks[s]) \in Nat
  BY <1>2, SocketParts
<1>5. used' - Held(m) >= used - Held(socks[s]) /\ used' - Held(m) = used - Held(socks[s])
  BY <1>2, <1>4
<1>6. "latewrite" \notin Calls /\ FreeEmpty(socks) => FreeEmpty(socks')
  BY <1>3 DEF FreeEmpty
<1>7. Accounted
  BY <1>3, <1>5, <1>6 DEF Accounted
<1> QED BY <1>1, <1>7 DEF Kept, IInv

\* connect() takes a connection, which has no socket yet.
LEMMA ConnectKeeps ==
  ASSUME IInv, NEW r \in Outbound, Connect(r)
  PROVE  Kept
<1>1. PICK c \in Conns :
             /\ Slot(c)
             /\ conns' = [conns EXCEPT ![c] =
                  [@ EXCEPT !.state = "SYN_SENT", !.stopped = FALSE, !.remote = r, !.snd_nxt = ISS,
                            !.len = 1, !.nrtx = 0, !.mss = UIP_TCP_MSS, !.initialmss = UIP_TCP_MSS]]
             /\ call' = [op |-> "connect", conn |-> c]
  BY DEF Connect
<1> DEFINE d == [conns[c] EXCEPT !.state = "SYN_SENT", !.stopped = FALSE, !.remote = r, !.snd_nxt = ISS,
                            !.len = 1, !.nrtx = 0, !.mss = UIP_TCP_MSS, !.initialmss = UIP_TCP_MSS]
<1>2. conns \in [Conns -> ConnSet] /\ ISS \in 0 .. SeqSize - 1 /\ r \in Remotes
  BY TcpAssumption DEF IInv, Shape, Remotes
<1>3. conns' = [conns EXCEPT ![c] = d]
  BY <1>1, <1>2
<1>4. /\ d \in ConnSet /\ d.app = conns[c].app /\ d.remote = r /\ d.state = "SYN_SENT"
      /\ d.mss = UIP_TCP_MSS /\ d.initialmss = UIP_TCP_MSS
  <2> DEFINE b == conns[c]
  <2>1. b \in ConnSet
    BY <1>2
  <2> HIDE DEF b
  <2>2. "SYN_SENT" \in TcpStates
    BY DEF TcpStates
  <2>3. d = [b EXCEPT !.state = "SYN_SENT", !.stopped = FALSE, !.remote = r, !.snd_nxt = ISS,
                      !.len = 1, !.nrtx = 0, !.mss = UIP_TCP_MSS, !.initialmss = UIP_TCP_MSS]
    BY DEF b
  <2> HIDE DEF d
  <2>4. /\ d.app = b.app /\ d.remote = r /\ d.state = "SYN_SENT"
        /\ d.mss = UIP_TCP_MSS /\ d.initialmss = UIP_TCP_MSS
    BY <2>1, <2>3 DEF ConnSet
  <2>5. d \in ConnSet
    BY <1>2, <2>1, <2>2, <2>3, SmallRanges DEF ConnSet
  <2> QED BY <2>4, <2>5 DEF b
<1>5. Full(d) /\ (Fits => d.app = NULL)
  BY <1>1, <1>4, SlotFree DEF Full
<1>6. /\ \A e \in Conns : ~Closed(e) => conns[e].remote # d.remote
      /\ UNCHANGED <<socks, used, in_packet, client>>
  BY <1>4 DEF Connect
<1>7. Rest'
  BY <1>1, <1>6 DEF IInv, Rest, Calling
<1> HIDE DEF d
<1> QED BY <1>3, <1>4, <1>5, <1>6, <1>7, OnlyConnKeeps

\* stop(), and what is not read is freed.
LEMMA StopKeeps ==
  ASSUME IInv, Stop
  PROVE  Kept
<1>1. /\ socks \in [Socks -> SockSet] /\ SocksSound(socks) /\ Rest /\ used \in Int
      /\ client \in Socks /\ client' = NULL /\ UNCHANGED <<conns, in_packet, call>>
  BY DEF IInv, Shape, Rest, Stop
<1> DEFINE s == socks[client]
           i == s.in
           o == s.out
           state == IF "REMOTECLOSED" \in s.state THEN {} ELSE s.state \cup {"CLOSE"}
           m == [s EXCEPT !.in = <<>>, !.state = state]
<1>2. CASE s.state = {}
  <2>1. UNCHANGED <<socks, used>>
    BY <1>2 DEF Stop
  <2>2. Rest'
    BY <1>1, <2>1 DEF Rest
  <2> QED BY <1>1, <2>1, <2>2, NothingKeeps
<1>3. CASE s.state # {}
  <2>1. s \in SockSet /\ SockSound(s)
    BY <1>1 DEF SocksSound
  <2>2. socks' = [socks EXCEPT ![client] = m] /\ used' = used - Len(i)
    BY <1>3, <2>1 DEF Stop, SockSet
  <2>3. state \in SUBSET SockFlags
    BY <2>1, SocketParts DEF SockFlags
  <2>4. m \in SockSet /\ m.in = <<>> /\ m.out = o /\ m.state = state
    <3>1. <<>> \in InQueue
      BY TcpAssumption DEF InQueue
    <3> HIDE DEF state
    <3> QED BY <2>1, <2>3, <3>1 DEF SockSet
  <2>5. SockSound(m) /\ (Live(m) <=> Live(s))
    <3> HIDE DEF m, s
    <3> QED BY <1>3, <2>1, <2>4 DEF SockSound, Live
  <2>6. DOMAIN m.in = {}
    BY <2>4
  <2>7. \A n \in Nat : n > 0 /\ FirstIs(s, n) => FirstIs(m, n)
    BY <2>4 DEF FirstIs
  <2>8. Held(m) = 0 + Len(o) /\ Held(s) = Len(i) + Len(o) /\ Len(i) \in Nat /\ Len(o) \in Nat
    <3>1. Len(i) \in Nat /\ Len(o) \in Nat
      BY <2>1, SocketParts
    <3> HIDE DEF i, o, m, s
    <3>2. m.out = o /\ s.in = i /\ s.out = o
      BY <2>4 DEF i, o
    <3>3. Len(<<>>) = 0
      OBVIOUS
    <3> QED BY <2>4, <3>1, <3>2, <3>3, HeldIs
  <2>9. used' = used + (Held(m) - Held(s)) /\ used' \in Int
    <3> HIDE DEF i, o, m, s
    <3> QED BY <1>1, <2>2, <2>8
  <2>10. Rest'
    BY <1>1, <2>9 DEF Rest
  <2>11. m.state = {} => m.out = <<>>
    BY <1>3, <2>1, <2>4 DEF SockSound
  <2> HIDE DEF m
  <2>12. SockStep(client, m)
    BY <1>1, <2>2, <2>4, <2>5, <2>6, <2>7 DEF SockStep
  <2> QED BY <1>1, <2>9, <2>10, <2>11, <2>12, SockKeeps
<1> QED BY <1>2, <1>3

\* flush() frees what is not read.
LEMMA FlushKeeps ==
  ASSUME IInv, Flush
  PROVE  Kept
<1> DEFINE s == socks[client]
           i == s.in
           o == s.out
           m == [s EXCEPT !.in = <<>>]
<1>1. /\ socks \in [Socks -> SockSet] /\ SocksSound(socks) /\ Rest /\ used \in Int
      /\ client \in Socks /\ UNCHANGED <<conns, in_packet, call, client>>
      /\ socks' = [socks EXCEPT ![client] = m] /\ used' = used - Len(i)
  BY DEF IInv, Shape, Rest, Flush, Usable
<1>2. s \in SockSet /\ SockSound(s)
  BY <1>1 DEF SocksSound
<1>3. m \in SockSet /\ m.in = <<>> /\ m.out = o /\ m.state = s.state
  <2>1. <<>> \in InQueue
    BY TcpAssumption DEF InQueue
  <2> QED BY <1>2, <2>1 DEF SockSet
<1>4. SockSound(m) /\ (Live(m) <=> Live(s))
  <2> HIDE DEF m, s
  <2> QED BY <1>2, <1>3 DEF SockSound, Live, o
<1>5. DOMAIN m.in = {}
  BY <1>3
<1>6. \A n \in Nat : n > 0 /\ FirstIs(s, n) => FirstIs(m, n)
  BY <1>3 DEF FirstIs
<1>7. Held(m) = 0 + Len(o) /\ Held(s) = Len(i) + Len(o) /\ Len(i) \in Nat /\ Len(o) \in Nat
  <2>1. Len(i) \in Nat /\ Len(o) \in Nat
    BY <1>2, SocketParts
  <2> HIDE DEF i, o, m, s
  <2>2. m.out = o /\ s.in = i /\ s.out = o
    BY <1>3 DEF i, o
  <2>3. Len(<<>>) = 0
    OBVIOUS
  <2> QED BY <1>3, <2>1, <2>2, <2>3, HeldIs
<1>8. used' = used + (Held(m) - Held(s)) /\ used' \in Int
  <2> HIDE DEF i, o, m, s
  <2> QED BY <1>1, <1>7
<1>9. Rest'
  BY <1>1, <1>8 DEF Rest
<1>10. FreeEmpty(socks) /\ m.state = {} => m.out = <<>>
  BY <1>1, <1>3 DEF FreeEmpty
<1> HIDE DEF m
<1>11. SockStep(client, m)
  BY <1>1, <1>3, <1>4, <1>5, <1>6 DEF SockStep
<1> QED BY <1>1, <1>8, <1>9, <1>10, <1>11, SockKeeps
\* read() of a whole block frees it, and may free the socket.
LEMMA ReadKeeps ==
  ASSUME IInv, Read(1)
  PROVE  Kept
<1> DEFINE s == socks[client]
           i == s.in
           o == s.out
           rest == Tail(i)
           freed == rest = <<>> /\ "REMOTECLOSED" \in s.state
           restart == conns[client].stopped /\ s.state \cap {"CLOSE", "REMOTECLOSED"} = {}
           state == IF freed THEN {} ELSE IF restart THEN s.state \cup {"RESTART"} ELSE s.state
           m == [s EXCEPT !.in = rest, !.state = state]
<1>1. /\ socks \in [Socks -> SockSet] /\ SocksSound(socks) /\ Rest /\ used \in Int
      /\ client \in Socks /\ UNCHANGED <<conns, in_packet, call>>
      /\ i # <<>>
  BY DEF IInv, Shape, Rest, Read, Usable
<1>2. s \in SockSet /\ SockSound(s)
  BY <1>1 DEF SocksSound
<1>3. /\ i \in Seq({<<r>> : r \in Remotes}) /\ Len(i) <= UIP_SOCKET_NUMPACKETS
      /\ Len(i) \in Nat /\ Len(o) \in Nat
  BY <1>2, SocketParts DEF InQueue
<1>4. ~(1 < Len(i[1]))
  <2>1. i[1] \in {<<r>> : r \in Remotes}
    <3> HIDE DEF i
    <3> QED BY <1>1, <1>3
  <2>2. PICK r \in Remotes : i[1] = <<r>>
    BY <2>1
  <2> HIDE DEF i
  <2>3. Len(<<r>>) = 1
    OBVIOUS
  <2>4. Len(i[1]) = 1
    BY <2>2, <2>3
  <2> QED BY <2>4
<1>5. socks' = [socks EXCEPT ![client] = m] /\ used' = used - 1 /\ client' \in {client, NULL}
  <2>1. socks' = [socks EXCEPT ![client] = [s EXCEPT !.in = rest,
                     !.state = IF freed THEN {} ELSE IF restart THEN @ \cup {"RESTART"} ELSE @]]
    BY <1>4 DEF Read
  <2>2. [s EXCEPT !.in = rest,
                  !.state = IF freed THEN {} ELSE IF restart THEN @ \cup {"RESTART"} ELSE @] = m
    <3> HIDE DEF freed, restart, rest
    <3> QED BY <1>2 DEF SockSet
  <2>3. used' = used - 1 /\ client' = IF freed THEN NULL ELSE client
    BY <1>4 DEF Read
  <2> QED BY <2>1, <2>2, <2>3
<1>6. /\ rest \in Seq({<<r>> : r \in Remotes}) /\ Len(rest) = Len(i) - 1 /\ Len(rest) \in Nat
      /\ DOMAIN rest = 1 .. Len(rest)
      /\ \A j \in DOMAIN rest : j + 1 \in DOMAIN i /\ rest[j] = i[j + 1]
  <2> HIDE DEF i
  <2>1. /\ rest \in Seq({<<r>> : r \in Remotes}) /\ Len(rest) = Len(i) - 1 /\ Len(rest) \in Nat
        /\ \A j \in 1 .. Len(rest) : rest[j] = i[j + 1]
    BY <1>1, <1>3, HeadTailProperties
  <2> HIDE DEF rest
  <2>2. DOMAIN rest = 1 .. Len(rest) /\ DOMAIN i = 1 .. Len(i)
    BY <1>3, <2>1
  <2> QED BY <1>3, <2>1, <2>2
<1>7. s.state # {} /\ "CLOSE" \notin s.state
  BY <1>1, <1>2 DEF SockSound
<1>8. state \in SUBSET SockFlags
  <2> HIDE DEF freed, restart
  <2> QED BY <1>2, SocketParts DEF SockFlags
<1>9. m \in SockSet /\ m.in = rest /\ m.out = o /\ m.state = state
  <2>1. rest \in InQueue
    <3> HIDE DEF i, rest
    <3> QED BY <1>3, <1>6, TcpAssumption DEF InQueue
  <2> HIDE DEF rest, state
  <2> QED BY <1>2, <1>8, <2>1 DEF SockSet
<1>10. SockSound(m) /\ (Live(m) <=> Live(s)) /\ (m.state = {} => m.out = <<>>)
  <2> HIDE DEF m, s, rest, restart
  <2> QED BY <1>2, <1>7, <1>9 DEF SockSound, Live, o
<1>11. \A j \in DOMAIN m.in : \E k \in DOMAIN s.in : m.in[j] = s.in[k]
  <2> HIDE DEF m, rest
  <2> QED BY <1>6, <1>9
<1>12. \A n \in Nat : n > 0 /\ FirstIs(s, n) => FirstIs(m, n)
  <2> HIDE DEF m
  <2> QED BY <1>9 DEF FirstIs
<1>13. Held(m) = Len(rest) + Len(o) /\ Held(s) = Len(i) + Len(o)
  <2> HIDE DEF i, o, m, s, rest
  <2>1. m.in = rest /\ m.out = o /\ s.in = i /\ s.out = o
    BY <1>9 DEF i, o
  <2>2. Len(i) \in Nat /\ Len(o) \in Nat /\ Len(rest) \in Nat
    BY <1>3, <1>6
  <2>3. Held(m) = Len(rest) + Len(o)
    BY <2>1, <2>2, HeldIs
  <2>4. Held(s) = Len(i) + Len(o)
    BY <2>1, <2>2, HeldIs
  <2> QED BY <2>3, <2>4
<1>14. used' = used + (Held(m) - Held(s)) /\ used' \in Int
  <2> HIDE DEF i, o, m, s, rest
  <2> QED BY <1>1, <1>3, <1>5, <1>6, <1>13
<1>15. Rest'
  BY <1>1, <1>5, <1>14 DEF Rest
<1> HIDE DEF m, state, rest
<1>16. SockStep(client, m)
  BY <1>1, <1>5, <1>9, <1>10, <1>11, <1>12 DEF SockStep
<1> QED BY <1>1, <1>10, <1>14, <1>15, <1>16, SockKeeps

\* _write: the last block is filled, and a new one taken for what is left.
LEMMA WriteStepKeeps ==
  ASSUME IInv, WriteStep, socks[call.sock].state # {} \/ "latewrite" \in Calls
  PROVE  Kept
<1> DEFINE s == call.sock
           k == socks[s]
           i == k.in
           o == k.out
           d == call.data
           last == Len(o)
           room == IF o = <<>> THEN 0 ELSE o[last].cap - Len(o[last].data)
           n == Lesser(room, Len(d))
           remain == SubSeq(d, n + 1, Len(d))
           b == [o[last] EXCEPT !.data = @ \o SubSeq(d, 1, n)]
           filled == IF o = <<>> THEN o ELSE [o EXCEPT ![last].data = @ \o SubSeq(d, 1, n)]
           l == Lesser(UIP_TCP_MSS, Len(remain))
           rest == SubSeq(remain, l + 1, Len(remain))
           new == [data |-> SubSeq(remain, 1, l), cap |-> UIP_TCP_MSS]
           Continue(x) == IF x = <<>> THEN Idle ELSE [call EXCEPT !.data = x]
<1>1. /\ socks \in [Socks -> SockSet] /\ SocksSound(socks) /\ Rest /\ used \in Int
      /\ UNCHANGED <<conns, in_packet, client>>
  BY DEF IInv, Shape, Rest, WriteStep
<1>2. call \in [op : {"write"}, sock : Socks, data : Seq({Unit})]
  BY DEF IInv, Rest, Calling, WriteStep
<1>3. s \in Socks /\ d \in Seq({Unit}) /\ Len(d) \in Nat
  BY <1>2
<1>4. k \in SockSet /\ SockSound(k)
  BY <1>1, <1>3 DEF SocksSound
<1>5. /\ o \in Seq(OutBlock) /\ Len(o) <= UIP_SOCKET_NUMPACKETS /\ Len(o) \in Nat /\ Len(i) \in Nat
      /\ DOMAIN o = 1 .. Len(o)
  <2>1. o \in Seq(OutBlock) /\ Len(o) <= UIP_SOCKET_NUMPACKETS /\ Len(o) \in Nat /\ Len(i) \in Nat
    BY <1>4, SocketParts DEF OutQueue
  <2> HIDE DEF o
  <2> QED BY <2>1
<1>6. ASSUME o # <<>>
      PROVE  /\ last \in DOMAIN o /\ last >= 1
             /\ o[last] \in OutBlock /\ o[last].data \in Seq({Unit}) /\ Len(o[last].data) \in Nat
             /\ o[last].cap \in 0 .. UIP_TCP_MSS /\ Len(o[last].data) <= o[last].cap
  <2>1. last \in DOMAIN o /\ last >= 1
    <3> HIDE DEF o
    <3> QED BY <1>5, <1>6, EmptySeq
  <2>2. o[last] \in OutBlock
    <3> HIDE DEF o, last
    <3> QED BY <1>5, <2>1
  <2>3. /\ o[last].data \in Seq({Unit}) /\ o[last].cap \in 0 .. UIP_TCP_MSS
        /\ Len(o[last].data) <= o[last].cap
    <3> HIDE DEF o, last
    <3> QED BY <2>2 DEF OutBlock
  <2>4. Len(o[last].data) \in Nat
    <3> HIDE DEF o, last
    <3> QED BY <2>3
  <2> HIDE DEF o, last
  <2> QED BY <2>1, <2>2, <2>3, <2>4
<1>7. room \in Nat
  <2>1. CASE o = <<>>
    BY <2>1
  <2>2. CASE o # <<>>
    <3> DEFINE c == o[last].cap
               a == Len(o[last].data)
    <3>1. c \in Nat /\ a \in Nat /\ a <= c
      BY <1>6, <2>2, TcpAssumption
    <3>2. room = c - a
      BY <2>2
    <3> HIDE DEF c, a
    <3> QED BY <3>1, <3>2
  <2> QED BY <2>1, <2>2
<1>8. n \in 0 .. Len(d) /\ n <= room
  <2> HIDE DEF room, d
  <2> QED BY <1>3, <1>7 DEF Lesser
<1>9. SubSeq(d, 1, n) \in Seq({Unit}) /\ Len(SubSeq(d, 1, n)) = n
      /\ remain \in Seq({Unit}) /\ Len(remain) = Len(d) - n /\ Len(remain) \in Nat
  <2> HIDE DEF d, n
  <2> QED BY <1>3, <1>8
<1>10. /\ l \in 0 .. Len(remain) /\ l <= UIP_TCP_MSS
       /\ SubSeq(remain, 1, l) \in Seq({Unit}) /\ Len(SubSeq(remain, 1, l)) = l
       /\ rest \in Seq({Unit})
  <2> HIDE DEF remain
  <2>1. remain \in Seq({Unit}) /\ Len(remain) \in Nat
    BY <1>9
  <2>2. l \in 0 .. Len(remain) /\ l <= UIP_TCP_MSS
    BY <2>1, TcpAssumption DEF Lesser
  <2> HIDE DEF l
  <2>3. SubSeq(remain, 1, l) \in Seq({Unit}) /\ Len(SubSeq(remain, 1, l)) = l
    BY <2>1, <2>2
  <2>4. rest \in Seq({Unit})
    BY <2>1, <2>2
  <2> QED BY <2>2, <2>3, <2>4
<1>11. new \in OutBlock
  <2> HIDE DEF l, remain
  <2> QED BY <1>10, SmallRanges DEF OutBlock
<1>12. remain # <<>> => n = room
  <2> SUFFICES ASSUME Len(remain) # 0 PROVE n = room
    BY <1>9, EmptySeq
  <2> HIDE DEF room, d, remain
  <2> QED BY <1>3, <1>7, <1>9 DEF Lesser
<1> USE TcpAssumption
<1>13. /\ filled \in Seq(OutBlock) /\ Len(filled) = Len(o) /\ DOMAIN filled = DOMAIN o
       /\ \A j \in DOMAIN o : j # last => filled[j] = o[j]
       /\ \A j \in DOMAIN o : filled[j].cap = o[j].cap
       /\ o # <<>> => /\ Len(filled[last].data) = Len(o[last].data) + n
                      /\ n = room => Len(filled[last].data) = filled[last].cap
  <2>1. CASE o = <<>>
    BY <1>5, <2>1
  <2>2. CASE o # <<>>
    <3> DEFINE a == o[last].data
               e == a \o SubSeq(d, 1, n)
               c == o[last].cap
    <3>1. a \in Seq({Unit}) /\ Len(a) \in Nat /\ c \in 0 .. UIP_TCP_MSS /\ Len(a) <= c
          /\ room = c - Len(a)
      BY <1>6, <2>2
    <3>2. e \in Seq({Unit}) /\ Len(e) = Len(a) + n /\ Len(e) <= c /\ (n = room => Len(e) = c)
      <4> DEFINE f == SubSeq(d, 1, n)
      <4>1. f \in Seq({Unit}) /\ Len(f) = n /\ e = a \o f
        BY <1>9
      <4> HIDE DEF a, f, c, room, n, e
      <4>2. e \in Seq({Unit}) /\ Len(e) = Len(a) + n
        BY <3>1, <4>1, ConcatProperties
      <4> QED BY <1>7, <1>8, <3>1, <4>2
    <3>3. b = [o[last] EXCEPT !.data = e]
      BY <1>6, <2>2 DEF OutBlock
    <3>4. b \in OutBlock /\ b.data = e /\ b.cap = c
      <4>1. o[last] \in OutBlock
        BY <1>6, <2>2
      <4> HIDE DEF b, e, last, n, d
      <4> QED BY <3>1, <3>2, <3>3, <4>1 DEF OutBlock
    <3>5. filled = [o EXCEPT ![last] = b]
      <4>1. filled = [o EXCEPT ![last].data = @ \o SubSeq(d, 1, n)]
        BY <2>2
      <4> HIDE DEF filled, n, d, o, last
      <4> QED BY <4>1 DEF b
    <3>6. last \in DOMAIN o
      BY <1>6, <2>2
    <3> HIDE DEF b, o, filled, last
    <3>7. /\ filled \in Seq(OutBlock) /\ Len(filled) = Len(o) /\ filled[last] = b /\ DOMAIN filled = DOMAIN o
          /\ \A j \in DOMAIN o : j # last => filled[j] = o[j]
      BY <1>5, <3>4, <3>5, <3>6, ExceptSeq
    <3> HIDE DEF e, room, n
    <3> QED BY <3>2, <3>4, <3>7
  <2> QED BY <2>1, <2>2
<1>14. ASSUME NEW q, NEW u, q \in Seq(OutBlock), Len(q) <= UIP_SOCKET_NUMPACKETS,
              \A j \in DOMAIN q : j < Len(q) => Len(q[j].data) = q[j].cap,
              o # <<>> => q # <<>> /\ (last = 1 => Len(q[1].data) = Len(o[1].data) + n /\ q[1].cap = o[1].cap)
                            /\ (last # 1 => q[1] = o[1]),
              u = Len(q) - Len(o), used' = used + u,
              k.state \cap {"CLOSE", "REMOTECLOSED"} = {},
              socks' = [socks EXCEPT ![s].out = q], call' \in Calling
       PROVE  Kept
  <2> DEFINE m == [k EXCEPT !.out = q]
  <2>1. q \in OutQueue
    BY <1>14 DEF OutQueue
  <2>2. m \in SockSet /\ m.in = i /\ m.out = q /\ m.state = k.state
    BY <1>4, <2>1 DEF SockSet
  <2>3. socks' = [socks EXCEPT ![s] = m]
    BY <1>14
  <2>4. SockSound(m) /\ (Live(m) <=> Live(k))
    <3> HIDE DEF m, k
    <3> QED BY <1>4, <1>14, <2>2 DEF SockSound, Live, i
  <2>5. \A j \in DOMAIN m.in : \E e \in DOMAIN k.in : m.in[j] = k.in[e]
    BY <2>2
  <2>6. ASSUME NEW t \in Nat, t > 0, FirstIs(k, t) PROVE FirstIs(m, t)
    <3>1. o # <<>> /\ Len(o[1].data) = t /\ o[1].cap = t
      BY <2>6 DEF FirstIs
    <3>2. CASE last = 1
      <4>1. room = 0
        BY <3>1, <3>2
      <4>2. n = 0
        <5> HIDE DEF room, n
        <5> QED BY <1>8, <4>1
      <4>3. q # <<>> /\ Len(q[1].data) = Len(o[1].data) + n /\ q[1].cap = o[1].cap
        BY <1>14, <3>1, <3>2
      <4>4. Len(q[1].data) = t /\ q[1].cap = t
        <5> HIDE DEF n, o
        <5> QED BY <3>1, <4>2, <4>3
      <4> HIDE DEF m
      <4> QED BY <2>2, <4>3, <4>4 DEF FirstIs
    <3>3. CASE last # 1
      <4>1. q # <<>> /\ q[1] = o[1]
        BY <1>14, <3>1, <3>3
      <4> HIDE DEF m
      <4> QED BY <2>2, <3>1, <4>1 DEF FirstIs
    <3> QED BY <3>2, <3>3
  <2>7. Len(q) \in Nat
    BY <1>14
  <2>8. Held(m) = Len(i) + Len(q) /\ Held(k) = Len(i) + Len(o)
    <3>1. m.in = i /\ m.out = q /\ k.in = i /\ k.out = o
      BY <2>2
    <3> HIDE DEF m, k, i, o
    <3> QED BY <1>5, <2>7, <3>1, HeldIs
  <2>9. used' = used + (Held(m) - Held(k)) /\ used' \in Int
    <3> HIDE DEF m, k, i, o
    <3> QED BY <1>1, <1>5, <1>14, <2>7, <2>8
  <2>10. Rest'
    BY <1>1, <1>14, <2>9 DEF Rest
  <2>11. "latewrite" \notin Calls /\ FreeEmpty(socks) /\ m.state = {} => m.out = <<>>
    BY <2>2
  <2> HIDE DEF m
  <2>12. SockStep(s, m)
    BY <1>1, <2>2, <2>3, <2>4, <2>5, <2>6 DEF SockStep
  <2> HIDE DEF k
  <2> QED BY <1>3, <2>9, <2>10, <2>11, <2>12, SockKeeps DEF k
<1>15. ASSUME NEW x \in Seq({Unit}) PROVE Continue(x) \in Calling
  <2>1. [call EXCEPT !.data = x] \in [op : {"write"}, sock : Socks, data : Seq({Unit})]
    BY <1>2
  <2> QED BY <2>1 DEF Calling, Idle
<1>16. CASE call' = Idle /\ UNCHANGED <<socks, used>>
  <2>1. Rest'
    BY <1>1, <1>16 DEF Rest, Calling, Idle
  <2> QED BY <1>1, <1>16, <2>1, NothingKeeps
<1>17. CASE /\ k.state \cap {"CLOSE", "REMOTECLOSED"} = {}
            /\ o = <<>> \/ remain # <<>>
            /\ last < UIP_SOCKET_NUMPACKETS
            /\ socks' = [socks EXCEPT ![s].out = Append(filled, new)]
            /\ used' = used + 1 /\ call' = Continue(rest)
  <2> DEFINE q == Append(filled, new)
  <2>1. /\ q \in Seq(OutBlock) /\ Len(q) = Len(filled) + 1 /\ DOMAIN q = 1 .. Len(q)
        /\ \A j \in 1 .. Len(filled) : q[j] = filled[j]
    <3> HIDE DEF filled, new
    <3> QED BY <1>11, <1>13, AppendProperties
  <2> HIDE DEF q
  <2>2. Len(q) = Len(o) + 1 /\ Len(q) <= UIP_SOCKET_NUMPACKETS
    <3> HIDE DEF o, filled
    <3> QED BY <1>5, <1>13, <1>17, <2>1
  <2>3. ASSUME NEW j \in DOMAIN q, j < Len(q) PROVE Len(q[j].data) = q[j].cap
    <3>1. j \in DOMAIN o /\ q[j] = filled[j]
      <4> HIDE DEF o, filled
      <4> QED BY <1>5, <1>13, <2>1, <2>2, <2>3
    <3>2. o # <<>>
      <4> HIDE DEF o
      <4> QED BY <3>1
    <3>3. CASE j = last
      <4>1. n = room
        BY <1>12, <1>17, <3>2
      <4> HIDE DEF n, room, filled, last
      <4> QED BY <1>13, <3>1, <3>2, <3>3, <4>1
    <3>4. CASE j # last
      <4>1. j < Len(o)
        <5> HIDE DEF o
        <5> QED BY <1>5, <3>1, <3>4
      <4>2. Len(o[j].data) = o[j].cap
        BY <1>4, <3>1, <4>1 DEF SockSound
      <4> HIDE DEF filled, last, o
      <4> QED BY <1>13, <3>1, <3>4, <4>2
    <3> QED BY <3>3, <3>4
  <2>4. o # <<>> => q # <<>> /\ (last = 1 => Len(q[1].data) = Len(o[1].data) + n /\ q[1].cap = o[1].cap)
                       /\ (last # 1 => q[1] = o[1])
    <3> SUFFICES ASSUME o # <<>>
                 PROVE  q # <<>> /\ (last = 1 => Len(q[1].data) = Len(o[1].data) + n /\ q[1].cap = o[1].cap)
                          /\ (last # 1 => q[1] = o[1])
      OBVIOUS
    <3>1. 1 \in DOMAIN o /\ q[1] = filled[1] /\ q # <<>>
      <4>1. last >= 1
        BY <1>6
      <4> HIDE DEF o, filled
      <4> QED BY <1>5, <1>13, <2>1, <2>2, <4>1
    <3> HIDE DEF o, filled, n, room, last
    <3> QED BY <1>13, <3>1
  <2>5. 1 = Len(q) - Len(o)
    <3> HIDE DEF o
    <3> QED BY <1>5, <2>2
  <2>6. call' \in Calling
    <3> HIDE DEF rest, Continue
    <3> QED BY <1>10, <1>15, <1>17
  <2>7. socks' = [socks EXCEPT ![s].out = q]
    BY <1>17 DEF q
  <2> HIDE DEF k, o, n, last
  <2> QED BY <1>14, <1>17, <2>1, <2>2, <2>3, <2>4, <2>5, <2>6, <2>7
<1>18. CASE /\ k.state \cap {"CLOSE", "REMOTECLOSED"} = {}
            /\ socks' = [socks EXCEPT ![s].out = filled]
            /\ call' = IF o = <<>> THEN call ELSE Continue(remain)
            /\ used' = used
  <2>1. \A j \in DOMAIN filled : j < Len(filled) => Len(filled[j].data) = filled[j].cap
    <3> SUFFICES ASSUME NEW j \in DOMAIN o, j < Len(o) PROVE Len(filled[j].data) = filled[j].cap
      <4> HIDE DEF filled, o
      <4> QED BY <1>13
    <3>1. Len(o[j].data) = o[j].cap
      BY <1>4 DEF SockSound
    <3>2. j # last
      <4> HIDE DEF o
      <4> QED BY <1>5
    <3> HIDE DEF filled, last, o
    <3> QED BY <1>13, <3>1, <3>2
  <2>2. o # <<>> => filled # <<>>
          /\ (last = 1 => Len(filled[1].data) = Len(o[1].data) + n /\ filled[1].cap = o[1].cap)
          /\ (last # 1 => filled[1] = o[1])
    <3> SUFFICES ASSUME o # <<>>
                 PROVE  filled # <<>>
                          /\ (last = 1 => Len(filled[1].data) = Len(o[1].data) + n /\ filled[1].cap = o[1].cap)
                          /\ (last # 1 => filled[1] = o[1])
      OBVIOUS
    <3>1. 1 \in DOMAIN o /\ filled # <<>>
      <4>1. last >= 1
        BY <1>6
      <4> HIDE DEF o, filled
      <4> QED BY <1>5, <1>13, <4>1
    <3> HIDE DEF o, filled, n, room, last
    <3> QED BY <1>13, <3>1
  <2>3. 0 = Len(filled) - Len(o) /\ used' = used + 0 /\ Len(filled) <= UIP_SOCKET_NUMPACKETS
    <3> HIDE DEF o, filled
    <3> QED BY <1>1, <1>5, <1>13, <1>18
  <2>4. call' \in Calling
    <3>1. call \in Calling
      BY <1>2 DEF Calling
    <3> HIDE DEF remain, Continue
    <3> QED BY <1>9, <1>15, <1>18, <3>1
  <2>5. filled \in Seq(OutBlock)
    BY <1>13
  <2> HIDE DEF k, o, n, last, filled
  <2> QED BY <1>14, <1>18, <2>1, <2>2, <2>3, <2>4, <2>5
<1>19. \/ call' = Idle /\ UNCHANGED <<socks, used>>
       \/ /\ k.state \cap {"CLOSE", "REMOTECLOSED"} = {}
          /\ o = <<>> \/ remain # <<>>
          /\ last < UIP_SOCKET_NUMPACKETS
          /\ socks' = [socks EXCEPT ![s].out = Append(filled, new)]
          /\ used' = used + 1 /\ call' = Continue(rest)
       \/ /\ k.state \cap {"CLOSE", "REMOTECLOSED"} = {}
          /\ socks' = [socks EXCEPT ![s].out = filled]
          /\ call' = IF o = <<>> THEN call ELSE Continue(remain)
          /\ used' = used
  BY DEF WriteStep
<1> QED BY <1>16, <1>17, <1>18, <1>19
-----------------------------------------------------------------------------
(* The blocks the sockets hold together *)

\* As NoLeak counts them.
HeldBy(K) == MapThenSumSet(LAMBDA s : Len(K[s].in) + Len(K[s].out), Socks)

\* Sockets are finitely many.
LEMMA SocksFinite == IsFiniteSet(Socks)
BY ConnsFinite DEF Socks, Conns

\* The sum of what each holds.
LEMMA HeldByIs ==
  ASSUME NEW K, NEW weight, weight = [s \in Socks |-> Held(K[s])]
  PROVE  HeldBy(K) = SumOf(weight, Socks)
<1>1. PICK f : SumsOn(f, weight, Socks)
  BY SocksFinite, SumExists
<1>2. SumOf(weight, Socks) = f[Socks]
  BY <1>1, SocksFinite, SumOfIs
<1> DEFINE Is(g) == g = [S \in SUBSET Socks |->
                           IF S = {} THEN 0
                           ELSE LET s == CHOOSE x \in S : TRUE
                                IN  Len(K[s].in) + Len(K[s].out) + g[S \ {s}]]
           g == CHOOSE h : Is(h)
<1>3. HeldBy(K) = g[Socks]
  BY DEF HeldBy, MapThenSumSet, MapThenFoldSet
<1>4. ASSUME NEW h PROVE Is(h) <=> SumsOn(h, weight, Socks)
  <2> DEFINE lhs(S) == IF S = {} THEN 0 ELSE weight[Chosen(S)] + h[S \ {Chosen(S)}]
             rhs(S) == IF S = {} THEN 0
                       ELSE LET s == CHOOSE x \in S : TRUE
                            IN  Len(K[s].in) + Len(K[s].out) + h[S \ {s}]
  <2>1. ASSUME NEW S \in SUBSET Socks PROVE lhs(S) = rhs(S)
    <3>1. CASE S = {}
      BY <3>1
    <3>2. CASE S # {}
      <4>1. Chosen(S) \in Socks
        BY <3>2 DEF Chosen
      <4>2. weight[Chosen(S)] = Len(K[Chosen(S)].in) + Len(K[Chosen(S)].out)
        BY <4>1 DEF Held
      <4>3. lhs(S) = Len(K[Chosen(S)].in) + Len(K[Chosen(S)].out) + h[S \ {Chosen(S)}]
        BY <3>2, <4>2
      <4> QED BY <3>2, <4>3 DEF Chosen
    <3> QED BY <3>1, <3>2
  <2> HIDE DEF lhs, rhs
  <2>2. [S \in SUBSET Socks |-> lhs(S)] = [S \in SUBSET Socks |-> rhs(S)]
    BY <2>1
  <2> QED BY <2>2 DEF SumsOn, lhs, rhs
<1> HIDE DEF Is
<1>5. Is(f)
  BY <1>1, <1>4
<1>6. Is(g)
  BY <1>5
<1> HIDE DEF g
<1>7. SumsOn(g, weight, Socks)
  BY <1>4, <1>6
<1>8. g = f
  BY <1>1, <1>7, SocksFinite, SumUnique
<1> QED BY <1>2, <1>3, <1>8

\* The number of blocks held, whatever the sockets are.
LEMMA HeldByNat ==
  ASSUME NEW K \in [Socks -> SockSet]
  PROVE  HeldBy(K) \in Nat
<1> DEFINE weight == [s \in Socks |-> Held(K[s])]
<1>1. \A s \in Socks : weight[s] \in Nat
  BY SocketParts
<1> HIDE DEF weight
<1>2. HeldBy(K) = SumOf(weight, Socks)
  BY HeldByIs DEF weight
<1> QED BY <1>1, <1>2, SocksFinite, SumOfNat

\* It changes by what one socket gains or loses.
LEMMA HeldByChange ==
  ASSUME NEW K \in [Socks -> SockSet], NEW L \in [Socks -> SockSet], NEW e \in Socks,
         \A t \in Socks \ {e} : L[t] = K[t]
  PROVE  HeldBy(L) = HeldBy(K) + (Held(L[e]) - Held(K[e]))
<1> DEFINE weight == [s \in Socks |-> Held(K[s])]
           w2 == [s \in Socks |-> Held(L[s])]
<1>1. (\A s \in Socks : weight[s] \in Nat) /\ (\A s \in Socks : w2[s] \in Nat)
  BY SocketParts
<1>2. \A t \in Socks \ {e} : w2[t] = weight[t]
  OBVIOUS
<1>3. weight[e] = Held(K[e]) /\ w2[e] = Held(L[e])
  OBVIOUS
<1> HIDE DEF weight, w2
<1>4. HeldBy(K) = SumOf(weight, Socks)
  BY HeldByIs DEF weight
<1>5. HeldBy(L) = SumOf(w2, Socks)
  BY HeldByIs DEF w2
<1>6. SumOf(w2, Socks) = SumOf(weight, Socks) + (w2[e] - weight[e])
  BY <1>1, <1>2, SocksFinite, SumOfChange
<1> QED BY <1>3, <1>4, <1>5, <1>6

\* Empty sockets hold no block.
LEMMA HeldByNone ==
  ASSUME NEW K \in [Socks -> SockSet], \A s \in Socks : Held(K[s]) = 0
  PROVE  HeldBy(K) = 0
<1> DEFINE weight == [s \in Socks |-> Held(K[s])]
<1>1. \A s \in Socks : weight[s] = 0
  OBVIOUS
<1> HIDE DEF weight
<1>2. HeldBy(K) = SumOf(weight, Socks)
  BY HeldByIs DEF weight
<1> QED BY <1>1, <1>2, SocksFinite, SumOfNone

-----------------------------------------------------------------------------
(* Every step, and the theorems *)

\* Every step of the stack and of the sketch keeps the invariants.
LEMMA NextKeeps ==
  ASSUME IInv, Next
  PROVE  Kept
<1> USE TcpAssumption
<1>1. CASE Tick
  BY <1>1, TickKeeps
<1>2. ASSUME NEW r \in Outbound, Connect(r) PROVE Kept
  BY <1>2, ConnectKeeps
<1>3. CASE ConnectReturn
  <2>1. call.op = "connect" /\ UNCHANGED stackVars /\ call' = Idle
        /\ client' = IF conns[call.conn].state = "ESTABLISHED" THEN conns[call.conn].app ELSE NULL
    BY <1>3 DEF ConnectReturn, ConnectDone
  <2>2. call.conn \in Conns
    BY <2>1 DEF IInv, Rest, Calling
  <2>3. conns[call.conn].app \in Socks \cup {NULL}
    BY <2>2 DEF IInv, Shape, ConnSet
  <2>4. UNCHANGED <<conns, socks, used, in_packet>>
    BY <2>1 DEF stackVars
  <2>5. Rest'
    BY <2>1, <2>3, <2>4 DEF IInv, Rest, Calling, Idle
  <2> QED BY <2>4, <2>5, NothingKeeps
<1>4. CASE Accept
  <2>1. UNCHANGED <<conns, socks, used, in_packet>> /\ call' = call /\ client' \in Socks
    BY <1>4 DEF Accept, stackVars
  <2>2. Rest'
    BY <2>1 DEF IInv, Rest
  <2> QED BY <2>1, <2>2, NothingKeeps
<1>5. CASE Stop
  BY <1>5, StopKeeps
<1>6. CASE Read(1)
  BY <1>6, ReadKeeps
<1>7. CASE Flush
  BY <1>7, FlushKeeps
<1>8. CASE Write(<<Unit>>)
  <2>1. UNCHANGED <<conns, socks, used, in_packet>> /\ client' = client /\ client # NULL
        /\ call' = [op |-> "write", sock |-> client, data |-> <<Unit>>]
    BY <1>8 DEF Write, IsConnected, stackVars
  <2>2. <<Unit>> \in Seq({Unit}) /\ client \in Socks
    BY <2>1 DEF IInv, Rest
  <2>3. call' \in Calling
    BY <2>1, <2>2 DEF Calling
  <2>4. Rest'
    BY <2>1, <2>3 DEF IInv, Rest
  <2> QED BY <2>1, <2>4, NothingKeeps
<1>9. CASE WriteStep /\ (socks[call.sock].state # {} \/ "latewrite" \in Calls)
  BY <1>9, WriteStepKeeps
<1> QED BY <1>1, <1>2, <1>3, <1>4, <1>5, <1>6, <1>7, <1>8, <1>9 DEF Next, Sketch

\* So does a step that changes nothing.
LEMMA StepKeeps ==
  ASSUME IInv, [Next]_vars
  PROVE  Kept
<1>1. CASE UNCHANGED vars
  <2>1. UNCHANGED <<conns, socks, used, in_packet, client, call>>
    BY <1>1 DEF vars
  <2>2. Rest'
    BY <2>1 DEF IInv, Rest
  <2> QED BY <2>1, <2>2, NothingKeeps
<1> QED BY <1>1, NextKeeps

\* All of it holds after setup().
LEMMA InitKept == Init => IInv /\ Fits /\ FreeEmpty(socks) /\ used = HeldBy(socks)
<1> SUFFICES ASSUME Init PROVE IInv /\ Fits /\ FreeEmpty(socks) /\ used = HeldBy(socks)
  OBVIOUS
<1> USE TcpAssumption
<1>1. NewConn \in ConnSet
  <2>1. NewConn.state \in TcpStates
    BY DEF NewConn, TcpStates
  <2> QED BY <2>1 DEF NewConn, ConnSet
<1>2. NewSock \in SockSet /\ Held(NewSock) = 0 /\ SockSound(NewSock) /\ ~Live(NewSock)
  <2>1. \A S : <<>> \in Seq(S) /\ Len(<<>>) = 0 /\ DOMAIN <<>> = {}
    OBVIOUS
  <2>2. <<>> \in InQueue /\ <<>> \in OutQueue
    BY <2>1 DEF InQueue, OutQueue
  <2>3. NewSock \in SockSet
    BY <2>2 DEF NewSock, SockSet
  <2> QED BY <2>1, <2>3 DEF NewSock, Held, SockSound, Live
<1>3. Shape
  BY <1>1, <1>2 DEF Init, Shape, SocksSound, Full, NewConn
<1>4. Rest
  BY DEF Init, Rest, Calling, Idle
<1>5. \A c \in Conns : conns[c].app = NULL /\ Closed(c)
  BY DEF Init, NewConn, Closed
<1>6. Ownership
  <2>1. NULL \notin Socks
    BY DEF Socks
  <2> QED BY <1>2, <1>5, <2>1 DEF Init, Ownership
<1>7. RemotesDistinct
  BY <1>5 DEF RemotesDistinct
<1>8. Fits
  BY <1>5 DEF Fits
<1>9. FreeEmpty(socks)
  BY DEF Init, NewSock, FreeEmpty
<1>10. used = HeldBy(socks)
  <2>1. socks \in [Socks -> SockSet] /\ \A s \in Socks : Held(socks[s]) = 0
    BY <1>2 DEF Init
  <2> QED BY <2>1, HeldByNone DEF Init
<1> QED BY <1>3, <1>4, <1>6, <1>7, <1>8, <1>9, <1>10 DEF IInv

\* The inductive invariant: what the state looks like between two runs of
\* uip_process() (UIPEthernet.cpp:209-256), whatever has arrived and been called.
THEOREM Invariance == Spec => []IInv
<1>1. Init => IInv
  BY InitKept
<1>2. IInv /\ [Next]_vars => IInv'
  BY StepKeeps DEF Kept
<1> QED BY <1>1, <1>2, PTL DEF Spec

\* The demultiplexer of uip_process (uip.c:1187-1197) finds the connection it
\* looks for: no two in use have one remote.
THEOREM DemultiplexerIsExact == Spec => []RemotesDistinct
<1>1. IInv => RemotesDistinct
  BY DEF IInv
<1> QED BY <1>1, Invariance, PTL

\* Without a RST from a remote a connection with a socket is established and
\* what waits in the socket is the connection's.
THEOREM Fitting ==
  ASSUME NoResets
  PROVE  Spec => [](IInv /\ Fits)
<1>1. Init => IInv /\ Fits
  BY InitKept
<1>2. IInv /\ Fits /\ [Next]_vars => IInv' /\ Fits'
  BY NoResets, StepKeeps DEF Kept
<1> QED BY <1>1, <1>2, PTL DEF Spec
\* A socket in use and its connection belong to each other until the remote
\* closes, however frames, timers and calls are ordered (UIPClient.cpp:333-345,
\* 389-411). A RST breaks it: see the run sockets_reset.
THEOREM SocketsAreOwned ==
  ASSUME NoResets
  PROVE  Spec => []Association
<1>1. ASSUME IInv, Fits PROVE Association
  <2>1. ASSUME NEW c \in Conns, conns[c].app # NULL
        PROVE  /\ conns[c].state = "ESTABLISHED"
               /\ "CONNECTED" \in socks[conns[c].app].state
               /\ "REMOTECLOSED" \notin socks[conns[c].app].state
    <3>1. conns[c].app \in Socks
      BY <1>1, <2>1 DEF IInv, Shape, ConnSet
    <3>2. Live(socks[conns[c].app]) /\ SockSound(socks[conns[c].app])
      BY <1>1, <3>1 DEF IInv, Shape, SocksSound, Ownership
    <3> QED BY <1>1, <2>1, <3>2 DEF Fits, Live, SockSound
  <2>2. ASSUME NEW s \in Socks, socks[s].state # {}, "REMOTECLOSED" \notin socks[s].state
        PROVE  Cardinality({c \in Conns : conns[c].app = s}) = 1
    <3>1. PICK c \in Conns : conns[c].app = s
      BY <1>1, <2>2 DEF IInv, Ownership, Live
    <3>2. s # NULL
      BY TcpAssumption DEF Socks
    <3>3. {d \in Conns : conns[d].app = s} = {c}
      BY <1>1, <3>1, <3>2 DEF IInv, Ownership
    <3> QED BY <3>3, FS_Singleton
  <2> QED BY <2>1, <2>2 DEF Association
<1> QED BY <1>1, Fitting, PTL

\* The data that wait in a socket came from the remote of its connection
\* (UIPClient.cpp:356-381), although sockets are reused and looked up by number.
THEOREM DataAreThePeers ==
  ASSUME NoResets
  PROVE  Spec => []DataFromPeer
<1>1. IInv /\ Fits => DataFromPeer
  BY DEF Fits, DataFromPeer, FromRemote
<1> QED BY <1>1, Fitting, PTL

\* What is in flight is the first outgoing block, so that a retransmission repeats
\* it and an ACK frees it (UIPClient.cpp:412-440), while write() goes on filling
\* the queue.
THEOREM InFlightIsFirstBlock ==
  ASSUME NoResets
  PROVE  Spec => []InFlightMatches
<1>1. IInv /\ Fits => InFlightMatches
  BY DEF Fits, InFlightMatches, FirstIs
<1> QED BY <1>1, Fitting, PTL

\* The blocks counted and the blocks held go together.
LEMMA HeldKept ==
  ASSUME IInv, IInv', Accounted
  PROVE  /\ used >= HeldBy(socks) => used' >= HeldBy(socks')
         /\ FALSE \notin Sent /\ "latewrite" \notin Calls /\ FreeEmpty(socks) /\ used = HeldBy(socks)
              => FreeEmpty(socks') /\ used' = HeldBy(socks')
<1>1. socks \in [Socks -> SockSet] /\ socks' \in [Socks -> SockSet] /\ used \in Int /\ used' \in Int
  BY DEF IInv, Shape, Rest
<1>2. PICK s \in Socks :
        /\ \A t \in Socks \ {s} : socks'[t] = socks[t]
        /\ used' - Held(socks'[s]) >= used - Held(socks[s])
        /\ FALSE \notin Sent /\ "latewrite" \notin Calls /\ FreeEmpty(socks)
             => FreeEmpty(socks') /\ used' - Held(socks'[s]) = used - Held(socks[s])
  BY DEF Accounted
<1>3. HeldBy(socks') = HeldBy(socks) + (Held(socks'[s]) - Held(socks[s]))
  BY <1>1, <1>2, HeldByChange
<1>4. /\ Held(socks'[s]) \in Nat /\ Held(socks[s]) \in Nat
      /\ HeldBy(socks) \in Nat /\ HeldBy(socks') \in Nat
  BY <1>1, HeldByNat, SocketParts
<1> DEFINE a == HeldBy(socks)
           b == HeldBy(socks')
           h == Held(socks[s])
           k == Held(socks'[s])
<1>5. FALSE \notin Sent /\ "latewrite" \notin Calls /\ FreeEmpty(socks)
        => FreeEmpty(socks') /\ used' - k = used - h
  BY <1>2
<1>6. ASSUME NEW u \in Int, NEW v \in Int, NEW m \in Nat, NEW n \in Nat, NEW p \in Nat, NEW q \in Nat,
             q = p + (n - m), v - n >= u - m
      PROVE  /\ u >= p => v >= q
             /\ v - n = u - m /\ u = p => v = q
  BY <1>6
<1>7. /\ used >= a => used' >= b
      /\ used' - k = used - h /\ used = a => used' = b
  BY <1>1, <1>2, <1>3, <1>4, <1>6
<1> QED BY <1>5, <1>7

\* Each block a socket holds is counted.
Counted == used >= HeldBy(socks)

\* No block of the pool is given back twice: at every time as many are taken as
\* the sockets hold, whatever is lost or reset (UIPClient.cpp:508-547).
THEOREM HeldIsCounted == Spec => [](IInv /\ Counted)
<1>1. Init => IInv /\ Counted
  <2>1. ASSUME Init PROVE IInv /\ Counted
    <3>1. IInv /\ used = HeldBy(socks) /\ used \in Int
      BY <2>1, InitKept DEF IInv, Rest
    <3> QED BY <3>1 DEF Counted
  <2> QED BY <2>1
<1>2. ASSUME IInv, Counted, [Next]_vars PROVE IInv' /\ Counted'
  <2>1. IInv' /\ Accounted
    BY <1>2, StepKeeps DEF Kept
  <2>2. used' >= HeldBy(socks')
    BY <1>2, <2>1, HeldKept DEF Counted
  <2> QED BY <2>1, <2>2 DEF Counted
<1> QED BY <1>1, <1>2, PTL DEF Spec

\* No block is lost either, if each segment is sent and no write() goes on after
\* its connection has ended: a failed sendPacket keeps its block
\* (UIPEthernet.cpp:294-303), and such a write() leaves one in a free socket,
\* whose lists _allocateData overwrites (UIPClient.cpp:480-493).
THEOREM NoBlockIsLost ==
  ASSUME FALSE \notin Sent, "latewrite" \notin Calls
  PROVE  Spec => []NoLeak
<1> DEFINE Exact == FreeEmpty(socks) /\ used = HeldBy(socks)
<1>1. Init => IInv /\ Exact
  BY InitKept
<1>2. ASSUME IInv, Exact, [Next]_vars PROVE IInv' /\ Exact'
  <2>1. IInv' /\ Accounted
    BY <1>2, StepKeeps DEF Kept
  <2>2. FreeEmpty(socks') /\ used' = HeldBy(socks')
    BY FALSE \notin Sent, "latewrite" \notin Calls, <1>2, <2>1, HeldKept
  <2> QED BY <2>1, <2>2
<1>3. Exact => NoLeak
  BY DEF NoLeak, HeldBy, Held
<1> HIDE DEF Exact
<1> QED BY <1>1, <1>2, <1>3, PTL DEF Spec
\* The segments sent are recorded only where a run asks for them.
LEMMA NothingRecorded ==
  ASSUME KeepNet = FALSE, [Next]_vars
  PROVE  net' = net
<1>1. ASSUME NEW seg, NEW ok, Transmit(seg, ok) PROVE net' = net
  BY <1>1 DEF Transmit
<1>2. ASSUME NEW c, NEW y, NEW seg, Finish(c, y, seg) PROVE net' = net
  BY <1>1, <1>2 DEF Finish
<1>3. ASSUME NEW seg, Input(seg) PROVE net' = net
  BY <1>1, <1>2, <1>3 DEF Input, Reset
<1>4. CASE UNCHANGED vars
  BY <1>4 DEF vars
<1>5. CASE Tick
  BY <1>2, <1>3, <1>5 DEF Tick, Receive, Reprocess, TimeWaitEnds, RexmitTimer, Poll, FinishTimer
<1>6. CASE Sketch
  <2>1. ASSUME NEW r, Connect(r) PROVE net' = net
    BY <2>1 DEF Connect
  <2>2. CASE ConnectReturn
    BY <2>2 DEF ConnectReturn, stackVars
  <2>3. CASE Accept
    BY <2>3 DEF Accept, stackVars
  <2>4. CASE Stop
    BY <2>4 DEF Stop
  <2>5. CASE Read(1)
    BY <2>5 DEF Read
  <2>6. CASE Flush
    BY <2>6 DEF Flush
  <2>7. CASE Write(<<Unit>>)
    BY <2>7 DEF Write, stackVars
  <2>8. CASE WriteStep
    BY <2>8 DEF WriteStep
  <2> QED BY <1>6, <2>1, <2>2, <2>3, <2>4, <2>5, <2>6, <2>7, <2>8 DEF Sketch
<1> QED BY <1>4, <1>5, <1>6 DEF Next

\* Outgoing data are a number of units.
LEMMA UnitsOnly ==
  ASSUME NEW b \in OutBlock
  PROVE  b \in Block({[i \in 1 .. n |-> Unit] : n \in 0 .. UIP_TCP_MSS})
<1> USE TcpAssumption
<1>1. b \in [data : Seq({Unit}), cap : 0 .. UIP_TCP_MSS] /\ Len(b.data) <= b.cap
  BY DEF OutBlock
<1> DEFINE d == b.data
<1>2. d \in Seq({Unit}) /\ Len(d) \in 0 .. UIP_TCP_MSS
  BY <1>1
<1>3. d = [i \in 1 .. Len(d) |-> Unit]
  <2> HIDE DEF d
  <2>1. /\ d = [i \in 1 .. Len(d) |-> d[i]] /\ \A i \in 1 .. Len(d) : d[i] = Unit
    BY <1>2
  <2> QED BY <2>1
<1>4. d \in {[i \in 1 .. n |-> Unit] : n \in 0 .. UIP_TCP_MSS}
  <2> HIDE DEF d
  <2> QED BY <1>2, <1>3
<1> QED BY <1>1, <1>4 DEF Block

\* Every variable has its type: no number leaves its range, no queue grows beyond
\* its array and the pool's balance does not fall below 0.
THEOREM TypeCorrect ==
  ASSUME KeepNet = FALSE
  PROVE  Spec => []TypeOK
<1> USE TcpAssumption
<1> DEFINE Quiet == net = {}
<1>1. Init => Quiet
  BY DEF Init
<1>2. ASSUME Quiet, [Next]_vars PROVE Quiet'
  BY KeepNet = FALSE, <1>2, NothingRecorded
<1>3. ASSUME IInv, Counted, Quiet PROVE TypeOK
  <2>1. /\ conns \in [Conns -> ConnSet] /\ socks \in [Socks -> SockSet] /\ used \in Int
        /\ in_packet \in Segments \cup {NULL} /\ client \in Socks \cup {NULL} /\ call \in Calling
    BY <1>3 DEF IInv, Shape, Rest
  <2>2. HeldBy(socks) \in Nat
    BY <2>1, HeldByNat
  <2>3. used \in Nat
    BY <1>3, <2>1, <2>2 DEF Counted
  <2>4. call.op \in {"idle", "connect", "write"}
    BY <2>1 DEF Calling
  <2>5. ASSUME NEW S, NEW q \in Seq(S), Len(q) <= UIP_SOCKET_NUMPACKETS
        PROVE  q \in BoundedSeq(S, UIP_SOCKET_NUMPACKETS)
    <3>1. Len(q) \in 0 .. UIP_SOCKET_NUMPACKETS /\ q \in [1 .. Len(q) -> S]
      BY <2>5
    <3> QED BY <3>1 DEF BoundedSeq, SeqOf
  <2> DEFINE B == Block({[i \in 1 .. n |-> Unit] : n \in 0 .. UIP_TCP_MSS})
  <2>6. ASSUME NEW s \in Socks
        PROVE  socks[s] \in [state : SUBSET SockFlags,
                 in : BoundedSeq({<<r>> : r \in Remotes}, UIP_SOCKET_NUMPACKETS),
                 out : BoundedSeq(B, UIP_SOCKET_NUMPACKETS), lport : BOOLEAN]
    <3>1. socks[s] \in [state : SUBSET SockFlags, in : InQueue, out : OutQueue, lport : BOOLEAN]
      BY <2>1 DEF SockSet
    <3>2. socks[s].in \in BoundedSeq({<<r>> : r \in Remotes}, UIP_SOCKET_NUMPACKETS)
      BY <2>5, <3>1 DEF InQueue
    <3>3. socks[s].out \in Seq(OutBlock) /\ Len(socks[s].out) <= UIP_SOCKET_NUMPACKETS
      BY <3>1 DEF OutQueue
    <3>4. \A b \in OutBlock : b \in B
      BY UnitsOnly
    <3> HIDE DEF B
    <3>5. socks[s].out \in Seq(B)
      BY <3>3, <3>4
    <3>6. socks[s].out \in BoundedSeq(B, UIP_SOCKET_NUMPACKETS)
      BY <2>5, <3>3, <3>5
    <3> QED BY <3>1, <3>2, <3>6
  <2>7. socks \in [Socks ->
          [state : SUBSET SockFlags,
           in : BoundedSeq({<<r>> : r \in Remotes}, UIP_SOCKET_NUMPACKETS),
           out : BoundedSeq(B, UIP_SOCKET_NUMPACKETS), lport : BOOLEAN]]
    BY <2>1, <2>6
  <2> QED BY <1>3, <2>1, <2>3, <2>4, <2>7 DEF TypeOK, ConnSet
<1> HIDE DEF Quiet
<1> QED BY <1>1, <1>2, <1>3, HeldIsCounted, PTL DEF Spec
=============================================================================
