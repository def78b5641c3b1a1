-------------------------- MODULE UIPStreamProofs ---------------------------
(***************************************************************************)
(* The two byte streams of UIPStream, for every length of the streams,     *)
(* every size of blocks, queues and sequence numbers, and every loss,      *)
(* repetition and order of segments: the sketch reads what the remote      *)
(* sent, and the remote receives what the sketch wrote.                    *)
(*                                                                         *)
(* Three invariants build on each other: Base needs no hypothesis,         *)
(* Incoming needs a pool that is large enough, and Outgoing needs windows  *)
(* that take a whole block.                                                *)
(***************************************************************************)
EXTENDS UIPStream, Sums, SequenceTheorems

-----------------------------------------------------------------------------
(* The invariants *)

StreamConn ==
  [state : TcpStates, stopped : BOOLEAN, remote : Remotes \cup {NULL},
   rcv_nxt : 0 .. SeqSize - 1, snd_nxt : 0 .. SeqSize - 1, len : Nat, nrtx : Nat,
   mss : Nat, initialmss : Nat, app : {0, NULL}]
StreamBlock == {b \in [data : Seq(Nat), cap : 0 .. UIP_TCP_MSS] : Len(b.data) <= b.cap}
StreamSock ==
  [state : SUBSET SockFlags, in : Seq(Seq(Nat)), out : Seq(StreamBlock), lport : BOOLEAN]
StreamSocks == {f \in [Socks -> StreamSock] : \A s \in Socks \ {0} : f[s] = NewSock}
StreamCall ==
  {Idle} \cup [op : {"connect"}, conn : {0}]
    \cup [op : {"write"}, sock : {0}, data : Seq(Nat) \ {<<>>}]

\* The data are the units a + 1, a + 2, ...
Follows(d, a) == \A j \in 1 .. Len(d) : d[j] = a + j

\* Every block of a queue but the last is full.
Full(out) == \A i \in DOMAIN out : i < Len(out) => Len(out[i].data) = out[i].cap

\* The states of a connection that we close first.
Closing == {"FIN_WAIT_1", "FIN_WAIT_2", "CLOSING", "TIME_WAIT"}

\* A connection c and its socket k: the socket is there while the connection is
\* established; what is in flight is in the first block, which is closed for writing.
Paired(c, k) ==
  /\ c.state = "ESTABLISHED" <=> c.app = 0
  /\ c.app = 0 => "REMOTECLOSED" \notin k.state
  /\ c.stopped => c.app = 0
  /\ "CLOSE" \in k.state => k.in = <<>>
  /\ Full(k.out)
  /\ c.app = 0 /\ c.len > 0 =>
       /\ k.out # <<>>
       /\ Len(k.out[1].data) = k.out[1].cap /\ c.len <= k.out[1].cap
  /\ c.state # "CLOSED" => c.initialmss = UIP_TCP_MSS /\ c.mss \in 1 .. UIP_TCP_MSS

\* Nothing has been written, read or received yet.
Fresh ==
  /\ sock = NewSock /\ wrote = 0 /\ got = <<>> /\ client = NULL /\ call.op # "write"
  /\ peer.rcvd = <<>> /\ ~peer.fin
  /\ \A seg \in net : "SYN" \in seg.flags

Opening ==
  /\ conn.remote = NULL => conn = NewConn /\ Fresh
  /\ conn.state \in {"SYN_RCVD", "SYN_SENT"} =>
       /\ Fresh /\ conn.snd_nxt = ISS /\ conn.len = 1
       /\ conn.state = "SYN_RCVD" => conn.rcv_nxt = Offset(PeerISS, 1)

\* After stop() nothing is read or written any more.
Stopping ==
  "CLOSE" \in sock.state \/ conn.state \in Closing
    => client = NULL /\ call = Idle /\ sock.in = <<>>

\* What the remote may have sent at some time.
Heard(seg) ==
  /\ seg.remote = peer.remote /\ seg.mss = UIP_TCP_MSS /\ seg.wnd \in Windows \cup {UIP_TCP_MSS}
  /\ seg.flags \in {{"SYN"}, {"SYN", "ACK"}, {"ACK"}, {"FIN", "ACK"}}
  /\ seg.data \in Seq(Nat) /\ seg.seq \in 0 .. SeqSize - 1 /\ seg.ack \in 0 .. SeqSize - 1
  /\ "ACK" \in seg.flags =>
       \E n \in 0 .. Len(peer.rcvd) + (IF peer.fin THEN 1 ELSE 0) : seg.ack = Offset(ISS, 1 + n)
  /\ "SYN" \in seg.flags => seg.seq = PeerISS /\ seg.data = <<>>
  /\ "SYN" \notin seg.flags =>
       \E i \in 0 .. PeerLen :
         /\ seg.seq = Offset(PeerISS, 1 + i) /\ i + Len(seg.data) <= PeerLen
         /\ Follows(seg.data, i)

\* A segment of ours: a SYN, a FIN or data.
Said(seg) ==
  /\ seg.data \in Seq(Nat) /\ seg.seq \in Nat
  /\ \/ "SYN" \in seg.flags /\ "FIN" \notin seg.flags /\ seg.data = <<>> /\ seg.seq = ISS
     \/ "FIN" \in seg.flags /\ "SYN" \notin seg.flags /\ seg.data = <<>>
     \/ seg.flags = {"ACK"} /\ seg.data # <<>>

Base ==
  /\ conns \in [Conns -> StreamConn] /\ \A c \in Conns \ {0} : conns[c] = NewConn
  /\ socks \in StreamSocks
  /\ used \in Int
  /\ client \in {0, NULL} /\ call \in StreamCall
  /\ peer \in [remote : Remotes, rcvd : Seq(Nat), fin : BOOLEAN]
  /\ wrote \in Nat /\ wrote <= SketchLen /\ got \in Seq(Nat)
  /\ conn.remote \in {NULL, peer.remote}
  /\ in_packet # NULL => Heard(in_packet) /\ in_packet.data # <<>>
  /\ \A seg \in net : Said(seg)
  /\ Paired(conn, sock)
  /\ Opening
  /\ Stopping

\* The blocks of a queue, one after the other, are the units a + 1 .. b.
Laid(q, a, b) ==
  \E pos \in [1 .. Len(q) + 1 -> Nat] :
    /\ pos[1] = a /\ pos[Len(q) + 1] = b
    /\ \A i \in 1 .. Len(q) :
         /\ pos[i + 1] = pos[i] + Len(q[i]) /\ pos[i + 1] <= b
         /\ Follows(q[i], pos[i])

\* The pool is large enough for all sockets.
MemoryAssumption == FALSE \notin Memory

\* The connection takes data while there is room for a block, and stops for a reason.
Flow(c, k) ==
  /\ Len(k.in) <= UIP_SOCKET_NUMPACKETS
  /\ c.app = 0 /\ ~c.stopped /\ "CLOSE" \notin k.state => Len(k.in) < UIP_SOCKET_NUMPACKETS
  /\ c.app = 0 /\ "RESTART" \in k.state => c.stopped /\ Len(k.in) < UIP_SOCKET_NUMPACKETS
  /\ c.stopped => k.in # <<>> \/ k.state \cap {"RESTART", "CLOSE"} # {}

\* R units of the remote's stream have been stored, of which a are no longer in the
\* socket, and R have been acknowledged.
Stored(c, k, a, R) ==
  /\ Laid(k.in, a, R)
  /\ c.app = 0 /\ "CLOSE" \notin k.state =>
       R <= PeerLen /\ c.rcv_nxt = Offset(PeerISS, 1 + R)

\* What the sketch has read and what waits for it are the remote's stream.
Incoming ==
  /\ in_packet = NULL
  /\ Flow(conn, sock)
  /\ got = Count(Len(got))
  /\ \E R \in Nat : Stored(conn, sock, Len(got), R)

\* The data of a queue of blocks.
DataOf(out) == [i \in DOMAIN out |-> out[i].data]
-----------------------------------------------------------------------------
(* Queues of consecutive units *)

\* The units a + 1 .. b, in order.
Units(a, b) == [j \in 1 .. b - a |-> a + j]

\* One stretch of units follows another.
LEMMA UnitsJoin ==
  ASSUME NEW a \in Nat, NEW b \in Nat, NEW c \in Nat, a <= b, b <= c,
         NEW d \in Seq(Nat), Len(d) = c - b, Follows(d, b)
  PROVE  Units(a, b) \o d = Units(a, c) /\ Units(a, c) \in Seq(Nat) /\ Len(Units(a, c)) = c - a
<1>1. Units(a, b) \in Seq(Nat) /\ Len(Units(a, b)) = b - a
  BY DEF Units
<1>2. Units(a, c) \in Seq(Nat) /\ Len(Units(a, c)) = c - a
  BY DEF Units
<1> DEFINE u == Units(a, b)
<1> HIDE DEF u
<1>5. u \in Seq(Nat) /\ Len(u) = b - a
  BY <1>1 DEF u
<1>6. /\ u \o d \in Seq(Nat) /\ Len(u \o d) = Len(u) + Len(d)
      /\ \A j \in 1 .. Len(u) + Len(d) : (u \o d)[j] = IF j <= Len(u) THEN u[j] ELSE d[j - Len(u)]
  BY <1>5, ConcatProperties
<1>7. Len(u) + Len(d) = c - a
  BY <1>5
<1>3. /\ u \o d \in Seq(Nat) /\ Len(u \o d) = c - a
      /\ \A j \in 1 .. c - a : (u \o d)[j] = IF j <= b - a THEN u[j] ELSE d[j - (b - a)]
  BY <1>5, <1>6, <1>7
<1>4. ASSUME NEW j \in 1 .. c - a PROVE (u \o d)[j] = Units(a, c)[j]
  BY <1>3 DEF Units, Follows, u
<1>8. u \o d = Units(a, c)
  BY <1>2, <1>3, <1>4, SeqEqual
<1> QED BY <1>2, <1>8 DEF u

\* The recursive function inside FlattenSeq.
Flattens(f, q) ==
  f = [i \in 1 .. Len(q) |-> IF i = 1 THEN q[i] ELSE f[i - 1] \o q[i]]

\* Two such functions are the same.
LEMMA FlattensOnce ==
  ASSUME NEW q \in Seq(Seq(Nat)), NEW f, Flattens(f, q), NEW g, Flattens(g, q)
  PROVE  f = g
<1> DEFINE differ == {i \in 1 .. Len(q) : f[i] # g[i]}
<1>1. differ = {}
  <2> SUFFICES ASSUME differ # {} PROVE FALSE
    OBVIOUS
  <2>1. Len(q) \in Nat
    OBVIOUS
  <2>2. PICK m \in differ : \A k \in differ : m <= k
    <3>1. differ \in SUBSET (1 .. Len(q))
      OBVIOUS
    <3> HIDE DEF differ
    <3> QED BY <2>1, <3>1, LeastOf
  <2>3. m \in 1 .. Len(q) /\ f[m] # g[m]
    OBVIOUS
  <2>4. /\ f[m] = IF m = 1 THEN q[m] ELSE f[m - 1] \o q[m]
        /\ g[m] = IF m = 1 THEN q[m] ELSE g[m - 1] \o q[m]
    BY <2>3 DEF Flattens
  <2>5. m # 1 => f[m - 1] = g[m - 1]
    <3>1. m # 1 => m - 1 \in 1 .. Len(q) /\ ~(m <= m - 1)
      BY <2>1, <2>3
    <3> QED BY <2>2, <3>1
  <2> QED BY <2>3, <2>4, <2>5
<1>2. /\ f = [i \in 1 .. Len(q) |-> f[i]]
      /\ g = [i \in 1 .. Len(q) |-> g[i]]
  BY DEF Flattens
<1>3. \A i \in 1 .. Len(q) : f[i] = g[i]
  BY <1>1
<1> QED BY <1>2, <1>3

\* The queue, flattened, is one stretch of units.
LEMMA LaidFlat ==
  ASSUME NEW q \in Seq(Seq(Nat)), NEW a \in Nat, NEW b \in Nat, Laid(q, a, b)
  PROVE  a <= b /\ Flat(q) = Units(a, b)
<1>1. PICK pos \in [1 .. Len(q) + 1 -> Nat] :
        /\ pos[1] = a /\ pos[Len(q) + 1] = b
        /\ \A i \in 1 .. Len(q) :
             /\ pos[i + 1] = pos[i] + Len(q[i]) /\ pos[i + 1] <= b
             /\ Follows(q[i], pos[i])
  BY DEF Laid
<1>2. Len(q) \in Nat /\ \A i \in 1 .. Len(q) : q[i] \in Seq(Nat) /\ Len(q[i]) \in Nat
  OBVIOUS
<1>5. \A i \in 1 .. Len(q) : i \in 1 .. Len(q) + 1 /\ i + 1 \in 1 .. Len(q) + 1
  BY <1>2
<1>6. \A i \in 1 .. Len(q) : pos[i] \in Nat /\ pos[i + 1] \in Nat
  BY <1>5
<1>3. CASE q = <<>>
  <2>1. a = b /\ Units(a, b) = <<>>
    BY <1>1, <1>3 DEF Units
  <2> QED BY <2>1, <1>3 DEF Flat, FlattenSeq
<1>4. CASE q # <<>>
  <2> DEFINE f == [i \in 1 .. Len(q) |-> Units(a, pos[i + 1])]
             bad == {i \in 1 .. Len(q) : ~(a <= pos[i])}
  <2>1. Len(q) > 0
    BY <1>4
  <2>2. bad = {}
    <3> SUFFICES ASSUME bad # {} PROVE FALSE
      OBVIOUS
    <3>1. PICK m \in bad : \A k \in bad : m <= k
      <4>1. bad \in SUBSET (1 .. Len(q))
        OBVIOUS
      <4> HIDE DEF bad
      <4> QED BY <1>2, <4>1, LeastOf
    <3>2. m \in 1 .. Len(q) /\ ~(a <= pos[m])
      OBVIOUS
    <3>3. m # 1
      BY <1>1, <3>2
    <3>4. m - 1 \in 1 .. Len(q) /\ ~(m <= m - 1) /\ (m - 1) + 1 = m
      BY <3>2, <3>3, <1>2
    <3>5. m - 1 \notin bad
      BY <3>1, <3>4
    <3>6. a <= pos[m - 1]
      BY <3>4, <3>5
    <3>7. pos[m] = pos[m - 1] + Len(q[m - 1])
      BY <1>1, <3>4
    <3>8. pos[m - 1] \in Nat /\ Len(q[m - 1]) \in Nat /\ pos[m] \in Nat
      BY <1>2, <1>6, <3>2, <3>4
    <3> QED BY <3>2, <3>6, <3>7, <3>8, SMTT(40)
  <2>3. ASSUME NEW i \in 1 .. Len(q)
        PROVE  /\ pos[i] \in Nat /\ pos[i + 1] \in Nat /\ a <= pos[i] /\ pos[i] <= pos[i + 1]
               /\ q[i] \in Seq(Nat) /\ Len(q[i]) = pos[i + 1] - pos[i]
               /\ Follows(q[i], pos[i])
    <3>1. pos[i] \in Nat /\ pos[i + 1] \in Nat /\ q[i] \in Seq(Nat) /\ Len(q[i]) \in Nat
      BY <1>2, <1>6
    <3>2. pos[i + 1] = pos[i] + Len(q[i]) /\ Follows(q[i], pos[i])
      BY <1>1
    <3>3. a <= pos[i]
      BY <2>2
    <3> HIDE DEF f, bad
    <3> QED BY <3>1, <3>2, <3>3
  <2>4. ASSUME NEW i \in 1 .. Len(q)
        PROVE  f[i] = IF i = 1 THEN q[i] ELSE f[i - 1] \o q[i]
    <3>1. Units(a, pos[i]) \o q[i] = Units(a, pos[i + 1])
      <4> DEFINE d == q[i]
                 u == pos[i]
                 v == pos[i + 1]
      <4>1. /\ u \in Nat /\ v \in Nat /\ a <= u /\ u <= v /\ d \in Seq(Nat) /\ Len(d) = v - u
            /\ Follows(d, u)
        BY <2>3
      <4> HIDE DEF f, bad, d, u, v
      <4>2. Units(a, u) \o d = Units(a, v)
        BY <4>1, UnitsJoin
      <4> QED BY <4>2 DEF d, u, v
    <3>2. CASE i = 1
      <4>1. Units(a, pos[i]) = <<>>
        BY <1>1, <3>2 DEF Units
      <4>2. <<>> \o q[i] = q[i]
        BY <2>3, ConcatEmptySeq
      <4> QED BY <3>1, <3>2, <4>1, <4>2
    <3>3. CASE i # 1
      <4>1. i - 1 \in 1 .. Len(q) /\ (i - 1) + 1 = i
        BY <3>3, <1>2
      <4>2. f[i - 1] = Units(a, pos[i])
        BY <4>1
      <4> QED BY <3>1, <3>3, <4>2
    <3> QED BY <3>2, <3>3
  <2>5. Flattens(f, q)
    BY <2>4 DEF Flattens
  <2> DEFINE g == CHOOSE h : Flattens(h, q)
  <2>6. g = f
    <3>1. Flattens(g, q)
      BY <2>5
    <3> HIDE DEF f, g
    <3> QED BY <2>5, <3>1, FlattensOnce
  <2>7. Flat(q) = g[Len(q)]
    BY <2>1 DEF Flat, FlattenSeq, Flattens
  <2>8. f[Len(q)] = Units(a, b)
    BY <1>1, <1>2, <2>1
  <2>9. a <= b
    BY <2>3, <1>1, <1>2, <2>1
  <2> QED BY <2>6, <2>7, <2>8, <2>9
<1> QED BY <1>3, <1>4

\* Laid, with the positions given.
At(pos, q, a, b) ==
  /\ pos \in [1 .. Len(q) + 1 -> Nat] /\ pos[1] = a /\ pos[Len(q) + 1] = b
  /\ \A i \in 1 .. Len(q) :
       pos[i + 1] = pos[i] + Len(q[i]) /\ pos[i + 1] <= b /\ Follows(q[i], pos[i])

\* A queue is laid if there are such positions.
LEMMA LaidAt ==
  ASSUME NEW q, NEW a, NEW b
  PROVE  Laid(q, a, b) <=> \E pos : At(pos, q, a, b)
BY DEF Laid, At

\* An empty queue holds no units.
LEMMA LaidEmpty ==
  ASSUME NEW a \in Nat
  PROVE  Laid(<<>>, a, a)
<1> DEFINE pos == [i \in 1 .. 1 |-> a]
<1>1. At(pos, <<>>, a, a)
  BY DEF At
<1> QED BY <1>1, LaidAt

\* A block with the next units may be appended.
LEMMA LaidAppend ==
  ASSUME NEW q \in Seq(Seq(Nat)), NEW a \in Nat, NEW b \in Nat, Laid(q, a, b),
         NEW d \in Seq(Nat), Follows(d, b)
  PROVE  Append(q, d) \in Seq(Seq(Nat)) /\ Laid(Append(q, d), a, b + Len(d))
<1>1. PICK pos : At(pos, q, a, b)
  BY LaidAt
<1> DEFINE n == Len(q)
           r == Append(q, d)
           new == [i \in 1 .. n + 2 |-> IF i <= n + 1 THEN pos[i] ELSE b + Len(d)]
<1>2. n \in Nat /\ Len(d) \in Nat
  OBVIOUS
<1>3. /\ r \in Seq(Seq(Nat)) /\ Len(r) = n + 1 /\ r[n + 1] = d
      /\ \A i \in 1 .. n : r[i] = q[i]
  OBVIOUS
<1>4. /\ pos \in [1 .. n + 1 -> Nat] /\ pos[1] = a /\ pos[n + 1] = b
      /\ \A i \in 1 .. n :
           pos[i + 1] = pos[i] + Len(q[i]) /\ pos[i + 1] <= b /\ Follows(q[i], pos[i])
  BY <1>1 DEF At
<1> HIDE DEF n, r
<1>5. new \in [1 .. n + 2 -> Nat] /\ new[1] = a /\ new[n + 2] = b + Len(d)
  BY <1>2, <1>4
<1>6. ASSUME NEW i \in 1 .. n + 1
      PROVE  new[i + 1] = new[i] + Len(r[i]) /\ new[i + 1] <= b + Len(d) /\ Follows(r[i], new[i])
  <2>1. CASE i = n + 1
    BY <1>2, <1>3, <1>4, <2>1
  <2>2. CASE i # n + 1
    <3>1. i \in 1 .. n /\ i + 1 <= n + 1
      BY <1>2, <2>2
    <3>2. new[i] = pos[i] /\ new[i + 1] = pos[i + 1] /\ r[i] = q[i]
      BY <1>2, <1>3, <3>1
    <3>3. pos[i + 1] = pos[i] + Len(q[i]) /\ pos[i + 1] <= b /\ Follows(q[i], pos[i])
      BY <1>4, <3>1
    <3>4. pos[i + 1] \in Nat
      BY <1>2, <1>4, <3>1
    <3> HIDE DEF new
    <3> QED BY <1>2, <3>2, <3>3, <3>4
  <2> QED BY <2>1, <2>2
<1>7. At(new, r, a, b + Len(d))
  <2>1. (n + 1) + 1 = n + 2
    BY <1>2
  <2> HIDE DEF new
  <2> QED BY <2>1, <1>3, <1>5, <1>6 DEF At
<1> QED BY <1>3, <1>7, LaidAt DEF r

\* Without its first block the queue begins where that block ends.
LEMMA LaidTail ==
  ASSUME NEW q \in Seq(Seq(Nat)), q # <<>>, NEW a \in Nat, NEW b \in Nat, Laid(q, a, b)
  PROVE  /\ Tail(q) \in Seq(Seq(Nat)) /\ Laid(Tail(q), a + Len(q[1]), b)
         /\ q[1] \in Seq(Nat) /\ Follows(q[1], a) /\ a + Len(q[1]) <= b
<1>1. PICK pos : At(pos, q, a, b)
  BY LaidAt
<1> DEFINE n == Len(q)
           r == Tail(q)
           new == [i \in 1 .. n |-> pos[i + 1]]
<1>2. n \in Nat \ {0} /\ q[1] \in Seq(Nat) /\ Len(q[1]) \in Nat
  OBVIOUS
<1>3. r \in Seq(Seq(Nat)) /\ Len(r) = n - 1 /\ \A i \in 1 .. n - 1 : r[i] = q[i + 1]
  BY HeadTailProperties
<1>4. /\ pos \in [1 .. n + 1 -> Nat] /\ pos[1] = a /\ pos[n + 1] = b
      /\ \A i \in 1 .. n :
           pos[i + 1] = pos[i] + Len(q[i]) /\ pos[i + 1] <= b /\ Follows(q[i], pos[i])
  BY <1>1 DEF At
<1> HIDE DEF n, r
<1>5. 1 \in 1 .. n /\ Follows(q[1], a) /\ pos[1 + 1] = a + Len(q[1]) /\ a + Len(q[1]) <= b
  BY <1>2, <1>4
<1>6. new \in [1 .. n -> Nat] /\ new[1] = a + Len(q[1]) /\ new[n] = b
  BY <1>2, <1>4, <1>5
<1>7. ASSUME NEW i \in 1 .. n - 1
      PROVE  new[i + 1] = new[i] + Len(r[i]) /\ new[i + 1] <= b /\ Follows(r[i], new[i])
  <2>1. i + 1 \in 1 .. n /\ i \in 1 .. n
    BY <1>2
  <2>2. new[i] = pos[i + 1] /\ new[i + 1] = pos[(i + 1) + 1] /\ r[i] = q[i + 1]
    BY <1>3, <2>1
  <2> HIDE DEF new
  <2> QED BY <1>4, <2>1, <2>2
<1>8. At(new, r, a + Len(q[1]), b)
  <2>1. (n - 1) + 1 = n
    BY <1>2
  <2> HIDE DEF new
  <2> QED BY <2>1, <1>3, <1>6, <1>7 DEF At
<1> QED BY <1>2, <1>3, <1>5, <1>8, LaidAt DEF r

\* The first m units of the first block may be taken away.
LEMMA LaidCut ==
  ASSUME NEW q \in Seq(Seq(Nat)), q # <<>>, NEW a \in Nat, NEW b \in Nat, Laid(q, a, b),
         NEW m \in Nat, m <= Len(q[1]),
         NEW first \in Seq(Nat), Len(first) = Len(q[1]) - m,
         \A i \in 1 .. Len(q[1]) - m : first[i] = q[1][m + i],
         NEW r \in Seq(Seq(Nat)), Len(r) = Len(q),
         \A i \in 1 .. Len(q) : r[i] = IF i = 1 THEN first ELSE q[i]
  PROVE  Laid(r, a + m, b)
<1>1. PICK pos : At(pos, q, a, b)
  BY LaidAt
<1> DEFINE n == Len(q)
           l == Len(q[1])
           new == [pos EXCEPT ![1] = a + m]
<1>2. n \in Nat \ {0} /\ q[1] \in Seq(Nat) /\ l \in Nat /\ 1 \in 1 .. n
  OBVIOUS
<1>3. Len(first) = l - m /\ \A i \in 1 .. l - m : first[i] = q[1][m + i]
  OBVIOUS
<1>4. /\ pos \in [1 .. n + 1 -> Nat] /\ pos[1] = a /\ pos[n + 1] = b
      /\ \A i \in 1 .. n :
           pos[i + 1] = pos[i] + Len(q[i]) /\ pos[i + 1] <= b /\ Follows(q[i], pos[i])
  BY <1>1 DEF At
<1>5. Len(r) = n /\ \A i \in 1 .. n : r[i] = IF i = 1 THEN first ELSE q[i]
  OBVIOUS
<1>9. m <= l
  OBVIOUS
<1>10. pos[2] = a + l /\ pos[2] <= b /\ Follows(q[1], a)
  BY <1>2, <1>4
<1> HIDE DEF n, l
<1>6. /\ new \in [1 .. n + 1 -> Nat] /\ new[1] = a + m
      /\ \A i \in 1 .. n + 1 : i # 1 => new[i] = pos[i]
  BY <1>2, <1>4, SMTT(40)
<1>7. ASSUME NEW i \in 1 .. n
      PROVE  new[i + 1] = new[i] + Len(r[i]) /\ new[i + 1] <= b /\ Follows(r[i], new[i])
  <2>1. new[i + 1] = pos[i + 1]
    BY <1>2, <1>6
  <2>2. CASE i = 1
    <3>1. r[i] = first /\ new[i] = a + m
      BY <1>5, <1>6, <2>2
    <3>2. Follows(first, a + m)
      BY <1>2, <1>3, <1>10 DEF Follows, l
    <3>3. new[i + 1] = a + l
      BY <1>10, <2>1, <2>2
    <3>4. a + l = (a + m) + (l - m)
      BY <1>2
    <3> HIDE DEF new
    <3>5. new[i + 1] = new[i] + Len(r[i])
      BY <1>3, <3>1, <3>3, <3>4
    <3> QED BY <1>10, <2>1, <2>2, <3>1, <3>2, <3>5
  <2>3. CASE i # 1
    <3>1. i \in 1 .. n + 1
      BY <1>2
    <3>2. new[i] = pos[i] /\ r[i] = q[i]
      BY <1>5, <1>6, <2>3, <3>1
    <3> HIDE DEF new
    <3> QED BY <1>4, <2>1, <3>2
  <2> QED BY <2>2, <2>3
<1>8. At(new, r, a + m, b)
  <2>1. new[n + 1] = b
    BY <1>2, <1>4, <1>6
  <2> HIDE DEF new
  <2> QED BY <2>1, <1>5, <1>6, <1>7 DEF At
<1> QED BY <1>8, LaidAt

\* The last block may grow.
LEMMA LaidGrow ==
  ASSUME NEW q \in Seq(Seq(Nat)), q # <<>>, NEW a \in Nat, NEW b \in Nat, Laid(q, a, b),
         NEW d \in Seq(Nat), Follows(d, b),
         NEW r \in Seq(Seq(Nat)), Len(r) = Len(q),
         \A i \in 1 .. Len(q) : r[i] = IF i = Len(q) THEN q[i] \o d ELSE q[i]
  PROVE  Laid(r, a, b + Len(d))
<1>1. PICK pos : At(pos, q, a, b)
  BY LaidAt
<1> DEFINE n == Len(q)
           old == q[n]
           last == old \o d
           k == Len(d)
           l == Len(old)
           new == [pos EXCEPT ![n + 1] = b + k]
<1>2. n \in Nat \ {0} /\ old \in Seq(Nat) /\ n \in 1 .. n /\ k \in Nat /\ l \in Nat
  OBVIOUS
<1>3. /\ Len(last) = l + k
      /\ \A j \in 1 .. l + k : last[j] = IF j <= l THEN old[j] ELSE d[j - l]
  <2> HIDE DEF old
  <2> QED BY <1>2, ConcatProperties
<1>4. /\ pos \in [1 .. n + 1 -> Nat] /\ pos[1] = a /\ pos[n + 1] = b
      /\ \A i \in 1 .. n :
           pos[i + 1] = pos[i] + Len(q[i]) /\ pos[i + 1] <= b /\ Follows(q[i], pos[i])
  BY <1>1 DEF At
<1>5. /\ Len(r) = n /\ r[n] = last
      /\ \A i \in 1 .. n : i # n => r[i] = q[i]
  BY <1>2
<1>9. b = pos[n] + l /\ Follows(old, pos[n]) /\ pos[n] \in Nat
  BY <1>2, <1>4
<1>10. /\ \A j \in 1 .. l : old[j] = pos[n] + j
       /\ \A j \in 1 .. k : d[j] = b + j
  BY <1>9 DEF Follows
<1> DEFINE p == pos[n]
<1>13. p \in Nat /\ b = p + l /\ \A j \in 1 .. l : old[j] = p + j
  BY <1>9, <1>10
<1> HIDE DEF n, last, old, k, l, p
<1>11. ASSUME NEW j \in 1 .. l + k PROVE last[j] = p + j
  <2>1. CASE j <= l
    <3>1. j \in 1 .. l /\ last[j] = old[j]
      BY <1>2, <1>3, <2>1
    <3> QED BY <1>13, <3>1
  <2>2. CASE ~(j <= l)
    <3>1. j - l \in 1 .. k /\ last[j] = d[j - l]
      BY <1>2, <1>3, <2>2
    <3>2. d[j - l] = b + (j - l)
      BY <1>10, <3>1
    <3> QED BY <1>2, <1>13, <3>1, <3>2
  <2> QED BY <2>1, <2>2
<1>12. Follows(last, p)
  BY <1>3, <1>11 DEF Follows
<1>6. /\ new \in [1 .. n + 1 -> Nat] /\ new[n + 1] = b + k
      /\ \A i \in 1 .. n : new[i] = pos[i]
  <2>1. n + 1 \in 1 .. n + 1 /\ b + k \in Nat /\ pos \in [1 .. n + 1 -> Nat]
    BY <1>2, <1>4
  <2>2. ASSUME NEW i \in 1 .. n PROVE i \in 1 .. n + 1 /\ i # n + 1
    BY <1>2
  <2> QED BY <2>1, <2>2
<1>7. ASSUME NEW i \in 1 .. n
      PROVE  new[i + 1] = new[i] + Len(r[i]) /\ new[i + 1] <= b + k /\ Follows(r[i], new[i])
  <2>1. new[i] = pos[i]
    BY <1>6
  <2>2. CASE i = n
    <3>1. r[i] = last /\ new[i + 1] = b + k /\ new[i] = p
      BY <1>5, <1>6, <2>1, <2>2 DEF p
    <3>2. b + k = p + (l + k)
      BY <1>2, <1>9, SMTT(40) DEF p
    <3>3. b + k <= b + k
      BY <1>2
    <3> HIDE DEF new
    <3> QED BY <1>3, <1>12, <3>1, <3>2, <3>3
  <2>3. CASE i # n
    <3>1. i + 1 \in 1 .. n
      BY <1>2, <2>3
    <3>2. new[i + 1] = pos[i + 1] /\ r[i] = q[i]
      BY <1>5, <1>6, <2>3, <3>1
    <3>3. pos[i + 1] = pos[i] + Len(q[i]) /\ pos[i + 1] <= b /\ Follows(q[i], pos[i])
      BY <1>4
    <3>4. pos[i + 1] \in Nat
      BY <1>2, <1>4
    <3>5. pos[i + 1] <= b + k
      BY <1>2, <3>3, <3>4
    <3> HIDE DEF new
    <3> QED BY <2>1, <3>2, <3>3, <3>5
  <2> QED BY <2>2, <2>3
<1>8. At(new, r, a, b + k)
  <2>1. new[1] = a
    BY <1>2, <1>4, <1>6
  <2> HIDE DEF new
  <2> QED BY <2>1, <1>5, <1>6, <1>7 DEF At
<1> QED BY <1>8, LaidAt DEF k
-----------------------------------------------------------------------------
(* What a run of uip_process() works on *)

EventFlags == {"CONNECTED", "NEWDATA", "ACKDATA", "CLOSE", "ABORT", "TIMEDOUT", "POLL", "REXMIT"}
Segs ==
  {NULL} \cup [remote : Remotes \cup {NULL}, flags : SUBSET {"SYN", "ACK", "FIN", "RST"},
               seq : Nat, data : Seq(Nat)]
StreamContexts ==
  [conn : StreamConn, socks : StreamSocks, used : Int, flags : SUBSET EventFlags,
   slen : Nat, data : Seq(Nat), packet : BOOLEAN, keep : BOOLEAN, sends : Segs,
   memory : BOOLEAN]

\* The socket of the connection.
Mine(x) == x.socks[0]

\* x with the callback's part replaced.
With(x, c, k, u, f, n, p, e) ==
  [x EXCEPT !.conn = c, !.socks = [x.socks EXCEPT ![0] = k], !.used = u, !.flags = f,
            !.slen = n, !.packet = p, !.keep = e]

\* What the callback leaves alone.
SameConn(a, b) ==
  /\ b.state = a.state /\ b.remote = a.remote /\ b.rcv_nxt = a.rcv_nxt /\ b.snd_nxt = a.snd_nxt
  /\ b.len = a.len /\ b.nrtx = a.nrtx /\ b.mss = a.mss /\ b.initialmss = a.initialmss
Callback(x, y) ==
  /\ y \in StreamContexts
  /\ SameConn(x.conn, y.conn)
  /\ y.data = x.data /\ y.sends = x.sends /\ y.memory = x.memory

\* The socket of the connection is replaced.
LEMMA SocksWith ==
  ASSUME NEW f \in StreamSocks, NEW k \in StreamSock
  PROVE  [f EXCEPT ![0] = k] \in StreamSocks /\ [f EXCEPT ![0] = k][0] = k
<1>1. 0 \in Socks
  BY TcpAssumption DEF Socks
<1>2. f \in [Socks -> StreamSock] /\ \A s \in Socks \ {0} : f[s] = NewSock
  BY DEF StreamSocks
<1> DEFINE g == [f EXCEPT ![0] = k]
<1>3. g \in [Socks -> StreamSock] /\ g[0] = k /\ \A s \in Socks \ {0} : g[s] = NewSock
  BY <1>1, <1>2
<1> QED BY <1>3 DEF StreamSocks

\* The parts of a context, of its connection and of its socket.
LEMMA StreamParts ==
  ASSUME NEW x \in StreamContexts
  PROVE  /\ x.conn \in StreamConn /\ x.socks \in StreamSocks /\ Mine(x) \in StreamSock
         /\ x.used \in Int /\ x.flags \in SUBSET EventFlags /\ x.slen \in Nat
         /\ x.data \in Seq(Nat) /\ x.packet \in BOOLEAN /\ x.keep \in BOOLEAN
         /\ x.sends \in Segs /\ x.memory \in BOOLEAN
         /\ Mine(x).state \in SUBSET SockFlags /\ Mine(x).in \in Seq(Seq(Nat))
         /\ Mine(x).out \in Seq(StreamBlock) /\ Mine(x).lport \in BOOLEAN
<1>1. 0 \in Socks
  BY TcpAssumption DEF Socks
<1>2. x.socks \in StreamSocks
  BY DEF StreamContexts
<1>3. Mine(x) \in StreamSock
  BY <1>1, <1>2 DEF Mine, StreamSocks
<1> QED BY <1>2, <1>3 DEF StreamContexts, StreamSock

\* A context with its part replaced.
LEMMA WithIs ==
  ASSUME NEW x \in StreamContexts, NEW c \in StreamConn, NEW k \in StreamSock, NEW u \in Int,
         NEW f \in SUBSET EventFlags, NEW n \in Nat, NEW p \in BOOLEAN, NEW e \in BOOLEAN,
         NEW y, y = With(x, c, k, u, f, n, p, e)
  PROVE  /\ y \in StreamContexts
         /\ y.conn = c /\ Mine(y) = k /\ y.used = u /\ y.flags = f /\ y.slen = n
         /\ y.packet = p /\ y.keep = e
         /\ y.data = x.data /\ y.sends = x.sends /\ y.memory = x.memory
<1> DEFINE K == [x.socks EXCEPT ![0] = k]
<1>1. K \in StreamSocks /\ K[0] = k
  BY SocksWith, StreamParts
<1> HIDE DEF K
<1>2. y = [x EXCEPT !.conn = c, !.socks = K, !.used = u, !.flags = f,
                    !.slen = n, !.packet = p, !.keep = e]
  BY DEF K, With
<1> QED BY <1>1, <1>2 DEF StreamContexts, Mine

-----------------------------------------------------------------------------
(* The callback *)

\* There are data for the socket, and room for them.
Takes(x) ==
  "NEWDATA" \in x.flags /\ x.data # <<>> /\ Mine(x).state \cap {"CLOSE", "REMOTECLOSED"} = {}
Stores(x) == Takes(x) /\ x.memory /\ Len(Mine(x).in) < UIP_SOCKET_NUMPACKETS

\* UIP_NEWDATA.
LEMMA NewDataIs ==
  ASSUME NEW x \in StreamContexts, x.conn.app = 0, NEW y, y = NewData(x)
  PROVE  /\ Callback(x, y) /\ y.conn.app = 0
         /\ y.conn.stopped = (x.conn.stopped \/ (Takes(x) /\ ~Stores(x))
                               \/ (Stores(x) /\ Len(Mine(x).in) = UIP_SOCKET_NUMPACKETS - 1))
         /\ Mine(y).in = (IF Stores(x) THEN Append(Mine(x).in, x.data) ELSE Mine(x).in)
         /\ Mine(y).out = Mine(x).out /\ Mine(y).state = Mine(x).state
         /\ y.flags = x.flags /\ y.slen = x.slen /\ y.packet = x.packet
         /\ y.keep = (x.keep \/ (Takes(x) /\ ~Stores(x)))
<1> USE TcpAssumption
<1> DEFINE k == Mine(x)
<1>1. /\ x.conn \in StreamConn /\ k \in StreamSock /\ x.used \in Int /\ k.in \in Seq(Seq(Nat))
      /\ x.flags \in SUBSET EventFlags /\ x.slen \in Nat /\ x.data \in Seq(Nat)
      /\ x.packet \in BOOLEAN /\ x.keep \in BOOLEAN
  BY StreamParts
<1>2. Sock(x) = k
  BY DEF Sock, Mine
<1>3. CASE ~Takes(x)
  <2>1. y = x
    BY <1>2, <1>3 DEF NewData, Takes
  <2>2. ~Stores(x)
    BY <1>3 DEF Stores
  <2> QED BY <1>1, <1>3, <2>1, <2>2 DEF Callback, SameConn, StreamConn
<1>4. CASE Takes(x) /\ ~Stores(x)
  <2> DEFINE c == [x.conn EXCEPT !.stopped = TRUE]
  <2>1. c \in StreamConn /\ SameConn(x.conn, c) /\ c.app = 0 /\ c.stopped
    BY <1>1 DEF StreamConn, SameConn
  <2>2. y = [x EXCEPT !.keep = TRUE, !.conn.stopped = TRUE]
    BY <1>2, <1>4 DEF NewData, Takes, Stores
  <2>3. y = [x EXCEPT !.keep = TRUE, !.conn = c]
    BY <2>2 DEF StreamContexts
  <2> HIDE DEF c
  <2>4. /\ y \in StreamContexts /\ y.conn = c /\ Mine(y) = Mine(x) /\ y.keep
        /\ y.data = x.data /\ y.sends = x.sends /\ y.memory = x.memory
        /\ y.flags = x.flags /\ y.slen = x.slen /\ y.packet = x.packet
    BY <2>1, <2>3 DEF StreamContexts, Mine
  <2> QED BY <1>4, <2>1, <2>4 DEF Callback
<1>5. CASE Stores(x)
  <2> DEFINE c == [x.conn EXCEPT !.stopped = @ \/ Len(k.in) = UIP_SOCKET_NUMPACKETS - 1]
             q == Append(k.in, x.data)
             m == [k EXCEPT !.in = q]
  <2>1. /\ c \in StreamConn /\ SameConn(x.conn, c) /\ c.app = 0
        /\ c.stopped = (x.conn.stopped \/ Len(k.in) = UIP_SOCKET_NUMPACKETS - 1)
    BY <1>1 DEF StreamConn, SameConn
  <2>2. q \in Seq(Seq(Nat))
    BY <1>1
  <2>3. m \in StreamSock /\ m.in = q /\ m.out = k.out /\ m.state = k.state
    <3> HIDE DEF q
    <3> QED BY <1>1, <2>2 DEF StreamSock
  <2>4. y = [x EXCEPT !.socks[0].in = Append(@, x.data), !.used = @ + 1,
                      !.conn.stopped = @ \/ Len(k.in) = UIP_SOCKET_NUMPACKETS - 1]
    BY <1>2, <1>5 DEF NewData, Takes, Stores
  <2>5. y = With(x, c, m, x.used + 1, x.flags, x.slen, x.packet, x.keep)
    BY <2>4, ZenonT(80) DEF With, StreamContexts, Mine
  <2>6. ~(Takes(x) /\ ~Stores(x)) /\ x.used + 1 \in Int
    BY <1>1, <1>5
  <2> HIDE DEF c, q, m
  <2>7. /\ y \in StreamContexts /\ y.conn = c /\ Mine(y) = m /\ y.flags = x.flags
        /\ y.slen = x.slen /\ y.packet = x.packet /\ y.keep = x.keep
        /\ y.data = x.data /\ y.sends = x.sends /\ y.memory = x.memory
    <3>1. c \in StreamConn /\ m \in StreamSock /\ x.used + 1 \in Int
      BY <2>1, <2>3, <2>6
    <3> DEFINE u == x.used + 1
               f == x.flags
               n == x.slen
               p == x.packet
               e == x.keep
    <3>2. y = With(x, c, m, u, f, n, p, e)
      BY <2>5
    <3>3. u \in Int /\ f \in SUBSET EventFlags /\ n \in Nat /\ p \in BOOLEAN /\ e \in BOOLEAN
      BY <1>1, <3>1
    <3> HIDE DEF k, u, f, n, p, e
    <3>4. /\ y \in StreamContexts /\ y.conn = c /\ Mine(y) = m /\ y.flags = f
          /\ y.slen = n /\ y.packet = p /\ y.keep = e
          /\ y.data = x.data /\ y.sends = x.sends /\ y.memory = x.memory
      BY <3>1, <3>2, <3>3, WithIs
    <3> QED BY <3>4 DEF f, n, p, e
  <2>8. Mine(y).in = (IF Stores(x) THEN Append(Mine(x).in, x.data) ELSE Mine(x).in)
    BY <1>5, <2>3, <2>7 DEF q
  <2> HIDE DEF k
  <2>9. /\ y.conn.stopped = (x.conn.stopped \/ (Takes(x) /\ ~Stores(x))
                               \/ (Stores(x) /\ Len(Mine(x).in) = UIP_SOCKET_NUMPACKETS - 1))
        /\ y.keep = (x.keep \/ (Takes(x) /\ ~Stores(x)))
    BY <1>1, <1>5, <2>1, <2>7 DEF k
  <2> QED BY <2>1, <2>3, <2>7, <2>8, <2>9 DEF Callback, k
<1> QED BY <1>3, <1>4, <1>5

\* A restart.
LEMMA RestartIs ==
  ASSUME NEW x \in StreamContexts, x.conn.app = 0, NEW y, y = Restart(x)
  PROVE  /\ Callback(x, y) /\ y.conn.app = 0
         /\ y.conn.stopped = (x.conn.stopped /\ "RESTART" \notin Mine(x).state)
         /\ Mine(y).in = Mine(x).in /\ Mine(y).out = Mine(x).out
         /\ Mine(y).state = Mine(x).state \ {"RESTART"}
         /\ y.flags \in {x.flags, x.flags \cup {"NEWDATA"}}
         /\ y.slen = x.slen /\ y.packet = x.packet /\ y.keep = x.keep
<1> DEFINE k == Mine(x)
<1>1. /\ x.conn \in StreamConn /\ k \in StreamSock /\ x.used \in Int
      /\ x.flags \in SUBSET EventFlags /\ x.slen \in Nat
      /\ x.packet \in BOOLEAN /\ x.keep \in BOOLEAN
  BY StreamParts
<1>2. Sock(x) = k
  BY DEF Sock, Mine
<1>3. CASE "RESTART" \notin k.state
  <2>1. y = x /\ k.state \ {"RESTART"} = k.state
    BY <1>2, <1>3 DEF Restart
  <2> QED BY <1>1, <1>3, <2>1 DEF Callback, SameConn, StreamConn
<1>4. CASE "RESTART" \in k.state
  <2> DEFINE c == [x.conn EXCEPT !.stopped = FALSE]
             m == [k EXCEPT !.state = @ \ {"RESTART"}]
             f == x.flags \cup {"NEWDATA"}
  <2>1. c \in StreamConn /\ SameConn(x.conn, c) /\ c.app = 0 /\ c.stopped = FALSE
    BY <1>1 DEF StreamConn, SameConn
  <2>2. m \in StreamSock /\ m.in = k.in /\ m.out = k.out /\ m.state = k.state \ {"RESTART"}
    BY <1>1 DEF StreamSock
  <2>3. y = [x EXCEPT !.socks[0].state = @ \ {"RESTART"},
                      !.flags = @ \cup {"NEWDATA"}, !.conn.stopped = FALSE]
    BY <1>2, <1>4 DEF Restart
  <2>4. y = With(x, c, m, x.used, f, x.slen, x.packet, x.keep)
    BY <2>3, ZenonT(80) DEF With, StreamContexts, Mine
  <2>5. f \in SUBSET EventFlags
    BY <1>1 DEF EventFlags
  <2> HIDE DEF c, m, f
  <2>6. /\ y \in StreamContexts /\ y.conn = c /\ Mine(y) = m /\ y.flags = f
        /\ y.slen = x.slen /\ y.packet = x.packet /\ y.keep = x.keep
        /\ y.data = x.data /\ y.sends = x.sends /\ y.memory = x.memory
    BY <1>1, <2>1, <2>2, <2>4, <2>5, WithIs
  <2> QED BY <1>4, <2>1, <2>2, <2>6 DEF Callback, f
<1> QED BY <1>3, <1>4

\* The callback's first part: new data, then a restart.
LEMMA ToldIs ==
  ASSUME NEW x \in StreamContexts, x.conn.app = 0, NEW y, y = Restart(NewData(x))
  PROVE  /\ Callback(x, y) /\ y.conn.app = 0
         /\ y.conn.stopped = ("RESTART" \notin Mine(x).state
              /\ (x.conn.stopped \/ (Takes(x) /\ ~Stores(x))
                   \/ (Stores(x) /\ Len(Mine(x).in) = UIP_SOCKET_NUMPACKETS - 1)))
         /\ Mine(y).in = (IF Stores(x) THEN Append(Mine(x).in, x.data) ELSE Mine(x).in)
         /\ Mine(y).out = Mine(x).out /\ Mine(y).state = Mine(x).state \ {"RESTART"}
         /\ y.flags \in {x.flags, x.flags \cup {"NEWDATA"}}
         /\ y.slen = x.slen /\ y.packet = x.packet
         /\ y.keep = (x.keep \/ (Takes(x) /\ ~Stores(x)))
<1> DEFINE z == NewData(x)
<1>1. /\ Callback(x, z) /\ z.conn.app = 0
      /\ z.conn.stopped = (x.conn.stopped \/ (Takes(x) /\ ~Stores(x))
                            \/ (Stores(x) /\ Len(Mine(x).in) = UIP_SOCKET_NUMPACKETS - 1))
      /\ Mine(z).in = (IF Stores(x) THEN Append(Mine(x).in, x.data) ELSE Mine(x).in)
      /\ Mine(z).out = Mine(x).out /\ Mine(z).state = Mine(x).state
      /\ z.flags = x.flags /\ z.slen = x.slen /\ z.packet = x.packet
      /\ z.keep = (x.keep \/ (Takes(x) /\ ~Stores(x)))
  BY NewDataIs
<1> HIDE DEF z
<1>2. y = Restart(z) /\ z \in StreamContexts
  BY <1>1 DEF z, Callback
<1>3. /\ Callback(z, y) /\ y.conn.app = 0
      /\ y.conn.stopped = (z.conn.stopped /\ "RESTART" \notin Mine(z).state)
      /\ Mine(y).in = Mine(z).in /\ Mine(y).out = Mine(z).out
      /\ Mine(y).state = Mine(z).state \ {"RESTART"}
      /\ y.flags \in {z.flags, z.flags \cup {"NEWDATA"}}
      /\ y.slen = z.slen /\ y.packet = z.packet /\ y.keep = z.keep
  BY <1>1, <1>2, RestartIs
<1>4. Callback(x, y)
  BY <1>1, <1>3 DEF Callback, SameConn
<1> QED BY <1>1, <1>3, <1>4

\* The connection gives its socket back, or leaves it to the sketch.
LEMMA DisconnectIs ==
  ASSUME NEW x \in StreamContexts, x.conn.app = 0, NEW y, y = Disconnect(x)
  PROVE  /\ Callback(x, y) /\ y.conn.app = NULL
         /\ y.conn.stopped = x.conn.stopped
         /\ Mine(y).in = Mine(x).in /\ Mine(y).out = <<>>
         /\ Mine(y).state = (IF Mine(x).in = <<>> THEN {} ELSE Mine(x).state \cup {"REMOTECLOSED"})
         /\ y.flags = x.flags /\ y.slen = x.slen /\ y.packet = x.packet /\ y.keep = x.keep
<1> DEFINE k == Mine(x)
           o == k.out
           left == [k EXCEPT !.out = <<>>]
           m == IF left.in = <<>>
                  THEN [left EXCEPT !.state = {}]
                  ELSE [left EXCEPT !.state = @ \cup {"REMOTECLOSED"},
                                    !.lport = x.conn.remote \in Inbound]
           c == [x.conn EXCEPT !.app = NULL]
           u == x.used - Len(o)
<1>1. /\ x.conn \in StreamConn /\ k \in StreamSock /\ x.used \in Int /\ o \in Seq(StreamBlock)
      /\ x.flags \in SUBSET EventFlags /\ x.slen \in Nat
      /\ x.packet \in BOOLEAN /\ x.keep \in BOOLEAN
  BY StreamParts
<1>2. Sock(x) = k
  BY DEF Sock, Mine
<1>3. c \in StreamConn /\ SameConn(x.conn, c) /\ c.app = NULL /\ c.stopped = x.conn.stopped
  BY <1>1 DEF StreamConn, SameConn
<1>4. /\ m \in StreamSock /\ m.in = k.in /\ m.out = <<>>
      /\ m.state = (IF k.in = <<>> THEN {} ELSE k.state \cup {"REMOTECLOSED"})
  <2>1. /\ k.state \in SUBSET SockFlags /\ k.in \in Seq(Seq(Nat)) /\ k.lport \in BOOLEAN
        /\ <<>> \in Seq(StreamBlock) /\ {} \in SUBSET SockFlags
    BY <1>1 DEF StreamSock
  <2>2. k.state \cup {"REMOTECLOSED"} \in SUBSET SockFlags
    BY <2>1 DEF SockFlags
  <2>3. left \in StreamSock /\ left.in = k.in /\ left.out = <<>> /\ left.state = k.state
    BY <1>1, <2>1 DEF StreamSock
  <2> HIDE DEF left
  <2>4. CASE k.in = <<>>
    <3>1. m = [left EXCEPT !.state = {}]
      BY <2>3, <2>4
    <3> HIDE DEF m
    <3> QED BY <2>1, <2>3, <2>4, <3>1 DEF StreamSock
  <2>5. CASE k.in # <<>>
    <3> DEFINE st == k.state \cup {"REMOTECLOSED"}
               lp == x.conn.remote \in Inbound
    <3>1. m = [left EXCEPT !.state = st, !.lport = lp] /\ st \in SUBSET SockFlags /\ lp \in BOOLEAN
      BY <2>2, <2>3, <2>5
    <3> HIDE DEF m, st, lp
    <3>2. m \in StreamSock /\ m.in = k.in /\ m.out = <<>> /\ m.state = st
      BY <2>3, <3>1 DEF StreamSock
    <3> QED BY <2>5, <3>2 DEF st
  <2> QED BY <2>4, <2>5
<1>5. u \in Int
  <2>1. Len(o) \in Nat
    BY <1>1
  <2> HIDE DEF o
  <2> QED BY <1>1, <2>1
<1>6. y = [x EXCEPT !.used = u, !.conn.app = NULL, !.socks[0] = m]
  BY <1>2 DEF Disconnect
<1> HIDE DEF m, u
<1>7. y = With(x, c, m, u, x.flags, x.slen, x.packet, x.keep)
  BY <1>6 DEF With, StreamContexts
<1> HIDE DEF c
<1>8. /\ y \in StreamContexts /\ y.conn = c /\ Mine(y) = m /\ y.flags = x.flags
      /\ y.slen = x.slen /\ y.packet = x.packet /\ y.keep = x.keep
      /\ y.data = x.data /\ y.sends = x.sends /\ y.memory = x.memory
  BY <1>1, <1>3, <1>4, <1>5, <1>7, WithIs
<1> QED BY <1>3, <1>4, <1>8 DEF Callback

\* What the socket has to send after an acknowledgement.
OutAfter(x) ==
  IF "ACKDATA" \in x.flags /\ Mine(x).out # <<>> THEN Tail(Mine(x).out) ELSE Mine(x).out

\* An acknowledgement frees the first block.
LEMMA AckedIs ==
  ASSUME NEW x \in StreamContexts, x.conn.app = 0, NEW y, y = Acked(x)
  PROVE  /\ Callback(x, y) /\ y.conn = x.conn
         /\ Mine(y).in = Mine(x).in /\ Mine(y).out = OutAfter(x) /\ Mine(y).state = Mine(x).state
         /\ y.flags = x.flags /\ y.slen = x.slen /\ y.packet = x.packet /\ y.keep = x.keep
<1> DEFINE k == Mine(x)
           o == k.out
<1>1. /\ x.conn \in StreamConn /\ k \in StreamSock /\ x.used \in Int /\ o \in Seq(StreamBlock)
      /\ x.flags \in SUBSET EventFlags /\ x.slen \in Nat
      /\ x.packet \in BOOLEAN /\ x.keep \in BOOLEAN
  BY StreamParts
<1>2. Sock(x) = k
  BY DEF Sock, Mine
<1>3. CASE ~("ACKDATA" \in x.flags /\ o # <<>>)
  <2>1. y = x /\ OutAfter(x) = o
    BY <1>2, <1>3 DEF Acked, OutAfter
  <2> QED BY <2>1 DEF Callback, SameConn
<1>4. CASE "ACKDATA" \in x.flags /\ o # <<>>
  <2> DEFINE t == Tail(o)
             m == [k EXCEPT !.out = t]
  <2>1. t \in Seq(StreamBlock) /\ OutAfter(x) = t
    BY <1>1, <1>4, HeadTailProperties DEF OutAfter
  <2>2. y = [x EXCEPT !.socks[0].out = t, !.used = @ - 1]
    BY <1>2, <1>4 DEF Acked, Mine
  <2> HIDE DEF t
  <2>3. m \in StreamSock /\ m.in = k.in /\ m.out = t /\ m.state = k.state
    BY <1>1, <2>1 DEF StreamSock
  <2>4. y = With(x, x.conn, m, x.used - 1, x.flags, x.slen, x.packet, x.keep)
    BY <2>2 DEF With, StreamContexts, Mine
  <2>5. x.used - 1 \in Int
    BY <1>1
  <2> HIDE DEF m
  <2>6. /\ y \in StreamContexts /\ y.conn = x.conn /\ Mine(y) = m /\ y.flags = x.flags
        /\ y.slen = x.slen /\ y.packet = x.packet /\ y.keep = x.keep
        /\ y.data = x.data /\ y.sends = x.sends /\ y.memory = x.memory
    <3> HIDE DEF k, o
    <3> QED BY <1>1, <2>3, <2>4, <2>5, WithIs
  <2> QED BY <2>1, <2>3, <2>6 DEF Callback, SameConn
<1> QED BY <1>3, <1>4

\* The queue r is o with its first block closed for writing, n units of it to send.
Closed1(o, n, r) ==
  /\ r \in Seq(StreamBlock) /\ Len(r) = Len(o)
  /\ \A i \in 1 .. Len(o) : i # 1 => r[i] = o[i]
  /\ n = IF Len(o) = 1 THEN Len(o[1].data) ELSE o[1].cap
  /\ r[1].data = o[1].data
  /\ r[1].cap = IF Len(o) = 1 /\ n > 0 THEN n ELSE o[1].cap

\* The first block is copied to a block to send.
LEMMA PrepareIs ==
  ASSUME NEW x \in StreamContexts, x.conn.app = 0, Mine(x).out # <<>>, NEW y, y = Prepare(x)
  PROVE  /\ Callback(x, y) /\ y.conn = x.conn
         /\ Mine(y).in = Mine(x).in /\ Mine(y).state = Mine(x).state
         /\ Closed1(Mine(x).out, y.slen, Mine(y).out)
         /\ y.flags = x.flags /\ y.packet = (y.slen > 0 /\ x.memory) /\ y.keep = x.keep
<1> DEFINE k == Mine(x)
           o == k.out
           b == o[1]
           n == IF Len(o) = 1 THEN Len(b.data) ELSE b.cap
           w == IF Len(o) = 1 /\ n > 0 THEN n ELSE b.cap
           d == [b EXCEPT !.cap = w]
           r == [o EXCEPT ![1] = d]
           m == [k EXCEPT !.out = r]
           p == n > 0 /\ x.memory
<1>1. /\ x.conn \in StreamConn /\ k \in StreamSock /\ x.used \in Int /\ o \in Seq(StreamBlock)
      /\ x.flags \in SUBSET EventFlags /\ x.slen \in Nat
      /\ x.packet \in BOOLEAN /\ x.keep \in BOOLEAN
  BY StreamParts
<1>2. Sock(x) = k
  BY DEF Sock, Mine
<1>3. Len(o) \in Nat /\ 1 \in 1 .. Len(o) /\ b \in StreamBlock
  <2> HIDE DEF k
  <2> QED BY <1>1 DEF k
<1>4. /\ b \in [data : Seq(Nat), cap : 0 .. UIP_TCP_MSS] /\ Len(b.data) <= b.cap
      /\ Len(b.data) \in Nat /\ b.cap \in 0 .. UIP_TCP_MSS
  BY <1>3 DEF StreamBlock
<1> HIDE DEF b
<1>5. n \in Nat /\ w \in 0 .. UIP_TCP_MSS /\ Len(b.data) <= w
  <2> HIDE DEF o
  <2> QED BY <1>3, <1>4, TcpAssumption
<1>6. d \in StreamBlock /\ d.data = b.data /\ d.cap = w
  <2> HIDE DEF w, n
  <2> QED BY <1>4, <1>5 DEF StreamBlock
<1>7. /\ r \in Seq(StreamBlock) /\ Len(r) = Len(o)
      /\ \A i \in 1 .. Len(o) : r[i] = IF i = 1 THEN d ELSE o[i]
  <2> HIDE DEF d, o
  <2> QED BY <1>1, <1>3, <1>6, ExceptSeq
<1>8. Closed1(o, n, r)
  <2> HIDE DEF d, o, r, n
  <2> QED BY <1>3, <1>6, <1>7 DEF Closed1, w, b, n
<1>9. y = [x EXCEPT !.socks[0].out[1].cap = w, !.slen = n, !.packet = p]
  BY <1>2 DEF Prepare, b, Mine
<1> HIDE DEF n, w, p
<1>10. y = With(x, x.conn, m, x.used, x.flags, n, p, x.keep)
  BY <1>9, ZenonT(80) DEF With, StreamContexts, Mine, b
<1> HIDE DEF r
<1>11. m \in StreamSock /\ m.in = k.in /\ m.out = r /\ m.state = k.state
  BY <1>1, <1>7 DEF StreamSock
<1> HIDE DEF m
<1>12. /\ y \in StreamContexts /\ y.conn = x.conn /\ Mine(y) = m /\ y.flags = x.flags
       /\ y.slen = n /\ y.packet = p /\ y.keep = x.keep
       /\ y.data = x.data /\ y.sends = x.sends /\ y.memory = x.memory
  <2>1. p \in BOOLEAN
    BY DEF p
  <2> HIDE DEF k, o
  <2> QED BY <1>1, <1>5, <1>10, <1>11, <2>1, WithIs
<1> QED BY <1>8, <1>11, <1>12 DEF Callback, SameConn, p

\* The last part: close, or stop until there is nothing to send.
LEMMA CloseIs ==
  ASSUME NEW x \in StreamContexts, x.conn.app = 0, NEW y, y = CloseOrStop(x)
  PROVE  /\ Callback(x, y)
         /\ Mine(y).in = Mine(x).in /\ Mine(y).out = Mine(x).out
         /\ y.slen = x.slen /\ y.packet = x.packet /\ y.keep = x.keep
         /\ \/ /\ "CLOSE" \notin Mine(x).state
               /\ y.conn = x.conn /\ Mine(y).state = Mine(x).state /\ y.flags = x.flags
            \/ /\ "CLOSE" \in Mine(x).state /\ Mine(x).out = <<>>
               /\ y.conn.app = NULL /\ y.conn.stopped = x.conn.stopped
               /\ Mine(y).state = {} /\ y.flags = {"CLOSE"}
            \/ /\ "CLOSE" \in Mine(x).state /\ Mine(x).out # <<>>
               /\ y.conn.app = 0 /\ y.conn.stopped
               /\ Mine(y).state = Mine(x).state /\ y.flags = x.flags
<1> DEFINE k == Mine(x)
<1>1. /\ x.conn \in StreamConn /\ k \in StreamSock /\ x.used \in Int
      /\ x.flags \in SUBSET EventFlags /\ x.slen \in Nat
      /\ x.packet \in BOOLEAN /\ x.keep \in BOOLEAN
  BY StreamParts
<1>2. Sock(x) = k
  BY DEF Sock, Mine
<1>3. CASE "CLOSE" \notin k.state
  <2>1. y = x
    BY <1>2, <1>3 DEF CloseOrStop
  <2> QED BY <1>3, <2>1 DEF Callback, SameConn
<1>4. CASE "CLOSE" \in k.state /\ k.out = <<>>
  <2> DEFINE c == [x.conn EXCEPT !.app = NULL]
             m == [k EXCEPT !.state = {}]
  <2>1. c \in StreamConn /\ SameConn(x.conn, c) /\ c.app = NULL /\ c.stopped = x.conn.stopped
    BY <1>1 DEF StreamConn, SameConn
  <2>2. m \in StreamSock /\ m.in = k.in /\ m.out = k.out /\ m.state = {}
    BY <1>1 DEF StreamSock
  <2>3. y = [x EXCEPT !.socks[0].state = {}, !.conn.app = NULL, !.flags = {"CLOSE"}]
    BY <1>2, <1>4 DEF CloseOrStop
  <2>4. y = With(x, c, m, x.used, {"CLOSE"}, x.slen, x.packet, x.keep)
    BY <2>3 DEF With, StreamContexts, Mine
  <2>5. {"CLOSE"} \in SUBSET EventFlags
    BY DEF EventFlags
  <2> HIDE DEF c, m
  <2>6. /\ y \in StreamContexts /\ y.conn = c /\ Mine(y) = m /\ y.flags = {"CLOSE"}
        /\ y.slen = x.slen /\ y.packet = x.packet /\ y.keep = x.keep
        /\ y.data = x.data /\ y.sends = x.sends /\ y.memory = x.memory
    BY <1>1, <2>1, <2>2, <2>4, <2>5, WithIs
  <2> QED BY <1>4, <2>1, <2>2, <2>6 DEF Callback
<1>5. CASE "CLOSE" \in k.state /\ k.out # <<>>
  <2> DEFINE c == [x.conn EXCEPT !.stopped = TRUE]
  <2>1. c \in StreamConn /\ SameConn(x.conn, c) /\ c.app = 0 /\ c.stopped
    BY <1>1 DEF StreamConn, SameConn
  <2>3. y = [x EXCEPT !.conn.stopped = TRUE]
    BY <1>2, <1>5 DEF CloseOrStop
  <2>4. y = [x EXCEPT !.conn = c]
    BY <2>3 DEF StreamContexts
  <2> HIDE DEF c
  <2>6. /\ y \in StreamContexts /\ y.conn = c /\ Mine(y) = Mine(x) /\ y.flags = x.flags
        /\ y.slen = x.slen /\ y.packet = x.packet /\ y.keep = x.keep
        /\ y.data = x.data /\ y.sends = x.sends /\ y.memory = x.memory
    BY <2>1, <2>4 DEF StreamContexts, Mine
  <2> QED BY <1>5, <2>1, <2>6 DEF Callback
<1> QED BY <1>3, <1>4, <1>5

\* The socket after the callback's first part.
InAfter(x) == IF Stores(x) THEN Append(Mine(x).in, x.data) ELSE Mine(x).in
StateAfter(x) == Mine(x).state \ {"RESTART"}
StoppedAfter(x) ==
  /\ "RESTART" \notin Mine(x).state
  /\ \/ x.conn.stopped \/ (Takes(x) /\ ~Stores(x))
     \/ (Stores(x) /\ Len(Mine(x).in) = UIP_SOCKET_NUMPACKETS - 1)

\* The four ends of a call of the callback.
CallEnds(x, y) ==
  /\ x.flags \cap {"CLOSE", "TIMEDOUT"} # {}
  /\ y.conn.app = NULL /\ y.conn.stopped = StoppedAfter(x)
  /\ Mine(y).out = <<>>
  /\ Mine(y).state = IF InAfter(x) = <<>> THEN {} ELSE StateAfter(x) \cup {"REMOTECLOSED"}
  /\ y.slen = x.slen /\ y.packet = x.packet
CallPrepares(x, y) ==
  /\ x.flags \cap {"POLL", "REXMIT"} # {} /\ OutAfter(x) # <<>>
  /\ y.conn.app = 0 /\ y.conn.stopped = StoppedAfter(x)
  /\ Mine(y).state = StateAfter(x)
  /\ Closed1(OutAfter(x), y.slen, Mine(y).out)
  /\ y.flags \in {x.flags, x.flags \cup {"NEWDATA"}}
  /\ y.packet = (y.slen > 0 /\ x.memory)
CallQuits(x, y) ==
  /\ "CLOSE" \in Mine(x).state /\ OutAfter(x) = <<>>
  /\ y.conn.app = NULL /\ y.conn.stopped = StoppedAfter(x)
  /\ Mine(y).out = <<>> /\ Mine(y).state = {}
  /\ y.flags = {"CLOSE"} /\ y.slen = x.slen /\ y.packet = x.packet
CallGoesOn(x, y) ==
  /\ "CLOSE" \in Mine(x).state => OutAfter(x) # <<>>
  /\ y.conn.app = 0
  /\ y.conn.stopped = (StoppedAfter(x) \/ "CLOSE" \in Mine(x).state)
  /\ Mine(y).out = OutAfter(x) /\ Mine(y).state = StateAfter(x)
  /\ y.flags \in {x.flags, x.flags \cup {"NEWDATA"}}
  /\ y.slen = x.slen /\ y.packet = x.packet

\* The callback of a connection with a socket.
LEMMA AppCallIs ==
  ASSUME NEW x \in StreamContexts, x.conn.app = 0, NEW y, y = AppCall(x)
  PROVE  /\ Callback(x, y) /\ Mine(y).in = InAfter(x)
         /\ y.keep = (x.keep \/ (Takes(x) /\ ~Stores(x)))
         /\ IF x.flags \cap {"CLOSE", "TIMEDOUT"} # {} THEN CallEnds(x, y)
            ELSE IF x.flags \cap {"POLL", "REXMIT"} # {} /\ OutAfter(x) # <<>>
              THEN CallPrepares(x, y)
            ELSE CallQuits(x, y) \/ CallGoesOn(x, y)
<1> DEFINE t == Restart(NewData(x))
           a == Acked(t)
<1>1. /\ Callback(x, t) /\ t.conn.app = 0
      /\ t.conn.stopped = StoppedAfter(x)
      /\ Mine(t).in = InAfter(x)
      /\ Mine(t).out = Mine(x).out /\ Mine(t).state = StateAfter(x)
      /\ t.flags \in {x.flags, x.flags \cup {"NEWDATA"}}
      /\ t.slen = x.slen /\ t.packet = x.packet
      /\ t.keep = (x.keep \/ (Takes(x) /\ ~Stores(x)))
  <2> HIDE DEF t
  <2>1. t = Restart(NewData(x))
    BY DEF t
  <2> QED BY <2>1, ToldIs DEF StoppedAfter, InAfter, StateAfter
<1>2. Connected(x) = x
  BY TcpAssumption DEF Connected
<1>3. y = IF t.flags \cap {"CLOSE", "TIMEDOUT"} # {} THEN Disconnect(t)
          ELSE IF a.flags \cap {"POLL", "REXMIT"} # {} /\ Sock(a).out # <<>> THEN Prepare(a)
          ELSE CloseOrStop(a)
  <2> HIDE DEF t, a
  <2>1. x.conn.app # NULL
    BY TcpAssumption
  <2> QED BY <1>2, <2>1 DEF AppCall, t, a
<1> HIDE DEF t, a
<1>4. t \in StreamContexts /\ a = Acked(t)
  BY <1>1 DEF Callback, a
<1>5. t.flags \cap {"CLOSE", "TIMEDOUT"} = x.flags \cap {"CLOSE", "TIMEDOUT"}
  BY <1>1
<1>6. CASE x.flags \cap {"CLOSE", "TIMEDOUT"} # {}
  <2>1. y = Disconnect(t)
    BY <1>3, <1>5, <1>6
  <2>2. /\ Callback(t, y) /\ y.conn.app = NULL
        /\ y.conn.stopped = t.conn.stopped
        /\ Mine(y).in = Mine(t).in /\ Mine(y).out = <<>>
        /\ Mine(y).state = (IF Mine(t).in = <<>> THEN {} ELSE Mine(t).state \cup {"REMOTECLOSED"})
        /\ y.flags = t.flags /\ y.slen = t.slen /\ y.packet = t.packet /\ y.keep = t.keep
    BY <1>1, <1>4, <2>1, DisconnectIs
  <2>3. Callback(x, y)
    BY <1>1, <2>2 DEF Callback, SameConn
  <2>4. CallEnds(x, y)
    BY <1>1, <1>6, <2>2 DEF CallEnds
  <2> QED BY <1>1, <1>6, <2>2, <2>3, <2>4
<1>7. CASE x.flags \cap {"CLOSE", "TIMEDOUT"} = {}
  <2>1. /\ Callback(t, a) /\ a.conn = t.conn
        /\ Mine(a).in = Mine(t).in /\ Mine(a).out = OutAfter(t) /\ Mine(a).state = Mine(t).state
        /\ a.flags = t.flags /\ a.slen = t.slen /\ a.packet = t.packet /\ a.keep = t.keep
    BY <1>1, <1>4, AckedIs
  <2>2. OutAfter(t) = OutAfter(x)
    BY <1>1 DEF OutAfter
  <2>3. /\ Callback(x, a) /\ a.conn.app = 0
        /\ a.conn.stopped = StoppedAfter(x)
        /\ Mine(a).in = InAfter(x)
        /\ Mine(a).out = OutAfter(x) /\ Mine(a).state = StateAfter(x)
        /\ a.flags \in {x.flags, x.flags \cup {"NEWDATA"}}
        /\ a.slen = x.slen /\ a.packet = x.packet
        /\ a.keep = (x.keep \/ (Takes(x) /\ ~Stores(x)))
    <3>1. Callback(x, a)
      BY <1>1, <2>1 DEF Callback, SameConn
    <3> QED BY <1>1, <2>1, <2>2, <3>1
  <2>4. /\ a \in StreamContexts /\ Sock(a) = Mine(a)
        /\ a.flags \cap {"POLL", "REXMIT"} = x.flags \cap {"POLL", "REXMIT"}
        /\ "CLOSE" \in StateAfter(x) <=> "CLOSE" \in Mine(x).state
        /\ a.memory = x.memory
    BY <2>3 DEF Callback, Sock, Mine, StateAfter
  <2>5. CASE x.flags \cap {"POLL", "REXMIT"} # {} /\ OutAfter(x) # <<>>
    <3>1. y = Prepare(a)
      BY <1>3, <1>5, <1>7, <2>3, <2>4, <2>5
    <3>2. /\ Callback(a, y) /\ y.conn = a.conn
          /\ Mine(y).in = Mine(a).in /\ Mine(y).state = Mine(a).state
          /\ Closed1(Mine(a).out, y.slen, Mine(y).out)
          /\ y.flags = a.flags /\ y.packet = (y.slen > 0 /\ a.memory) /\ y.keep = a.keep
      BY <2>3, <2>4, <2>5, <3>1, PrepareIs
    <3>3. Callback(x, y)
      BY <2>3, <3>2 DEF Callback, SameConn
    <3>4. CallPrepares(x, y)
      BY <2>3, <2>4, <2>5, <3>2 DEF CallPrepares
    <3> QED BY <1>7, <2>3, <2>5, <3>2, <3>3, <3>4
  <2>6. CASE ~(x.flags \cap {"POLL", "REXMIT"} # {} /\ OutAfter(x) # <<>>)
    <3>1. y = CloseOrStop(a)
      BY <1>3, <1>5, <1>7, <2>3, <2>4, <2>6
    <3>2. /\ Callback(a, y)
          /\ Mine(y).in = Mine(a).in /\ Mine(y).out = Mine(a).out
          /\ y.slen = a.slen /\ y.packet = a.packet /\ y.keep = a.keep
          /\ \/ /\ "CLOSE" \notin Mine(a).state
                /\ y.conn = a.conn /\ Mine(y).state = Mine(a).state /\ y.flags = a.flags
             \/ /\ "CLOSE" \in Mine(a).state /\ Mine(a).out = <<>>
                /\ y.conn.app = NULL /\ y.conn.stopped = a.conn.stopped
                /\ Mine(y).state = {} /\ y.flags = {"CLOSE"}
             \/ /\ "CLOSE" \in Mine(a).state /\ Mine(a).out # <<>>
                /\ y.conn.app = 0 /\ y.conn.stopped
                /\ Mine(y).state = Mine(a).state /\ y.flags = a.flags
      BY <2>3, <2>4, <3>1, CloseIs
    <3>3. Callback(x, y)
      BY <2>3, <3>2 DEF Callback, SameConn
    <3>4. CASE "CLOSE" \notin Mine(a).state
      <4>1. y.conn = a.conn /\ Mine(y).state = Mine(a).state /\ y.flags = a.flags
        BY <3>2, <3>4
      <4>2. StoppedAfter(x) \in BOOLEAN
        BY DEF StoppedAfter
      <4>3. CallGoesOn(x, y)
        BY <2>3, <2>4, <3>2, <3>4, <4>1, <4>2 DEF CallGoesOn
      <4> QED BY <1>7, <2>3, <2>6, <3>2, <3>3, <4>3
    <3>5. CASE "CLOSE" \in Mine(a).state /\ Mine(a).out = <<>>
      <4>1. CallQuits(x, y)
        BY <2>3, <2>4, <3>2, <3>5 DEF CallQuits
      <4> QED BY <1>7, <2>3, <2>6, <3>2, <3>3, <4>1
    <3>6. CASE "CLOSE" \in Mine(a).state /\ Mine(a).out # <<>>
      <4>1. y.conn.stopped = TRUE
        <5>1. y.conn.stopped \in BOOLEAN
          BY <3>3 DEF Callback, StreamContexts, StreamConn
        <5> QED BY <3>2, <3>6, <5>1
      <4>2. CallGoesOn(x, y)
        BY <2>3, <2>4, <3>2, <3>6, <4>1 DEF CallGoesOn
      <4> QED BY <1>7, <2>3, <2>6, <3>2, <3>3, <4>2
    <3> QED BY <3>4, <3>5, <3>6
  <2> QED BY <2>5, <2>6
<1> QED BY <1>6, <1>7
-----------------------------------------------------------------------------
(* What goes out *)

\* A segment that net does not record, or none.
Bare(s) == s = NULL \/ (s.data = <<>> /\ s.flags \cap {"SYN", "FIN"} = {})

\* What the context holds of the first block, or a bare ACK, or nothing.
Utterance(z) ==
  \/ Bare(z.sends)
  \/ /\ z.slen > 0 /\ z.conn.len > 0
     /\ z.sends = [remote |-> z.conn.remote, flags |-> {"ACK"}, seq |-> z.conn.snd_nxt,
                   data |-> SubSeq(Mine(z).out[1].data, 1, Lesser(z.conn.len, z.slen))]

\* The socket and what belongs to it stay.
SameSock(x, y) ==
  /\ y \in StreamContexts /\ Mine(y) = Mine(x)
  /\ y.data = x.data /\ y.memory = x.memory /\ y.keep = x.keep

\* A context with another segment to send.
LEMMA SendsIs ==
  ASSUME NEW x \in StreamContexts, NEW s \in Segs, NEW y, y = [x EXCEPT !.sends = s]
  PROVE  /\ SameSock(x, y) /\ y.conn = x.conn /\ y.flags = x.flags /\ y.sends = s
         /\ y.slen = x.slen /\ y.packet = x.packet
BY DEF StreamContexts, SameSock, Mine

\* The first block of a queue with its first block closed for writing.
LEMMA Closed1Is ==
  ASSUME NEW o \in Seq(StreamBlock), o # <<>>, Full(o), NEW n, NEW r, Closed1(o, n, r)
  PROVE  /\ n = Len(o[1].data) /\ Full(r) /\ r # <<>> /\ Len(r) = Len(o)
         /\ DataOf(r) = DataOf(o)
         /\ r[1] \in StreamBlock /\ r[1].data = o[1].data /\ (n > 0 => r[1].cap = n)
<1>1. /\ Len(o) \in Nat \ {0} /\ DOMAIN o = 1 .. Len(o)
      /\ r \in Seq(StreamBlock) /\ Len(r) = Len(o) /\ DOMAIN r = 1 .. Len(o)
  BY DEF Closed1
<1>2. Len(o) # 1 => Len(o[1].data) = o[1].cap
  BY <1>1 DEF Full
<1>3. n = Len(o[1].data)
  BY <1>2 DEF Closed1
<1>4. \A i \in 1 .. Len(o) : r[i].data = o[i].data
  BY <1>1 DEF Closed1
<1>5. DataOf(r) = DataOf(o)
  BY <1>1, <1>4 DEF DataOf
<1>6. n > 0 => r[1].cap = n
  BY <1>2, <1>3 DEF Closed1
<1>7. Full(r)
  <2> SUFFICES ASSUME NEW i \in 1 .. Len(o), i < Len(o) PROVE Len(r[i].data) = r[i].cap
    BY <1>1 DEF Full
  <2>1. CASE i # 1
    BY <1>1, <2>1 DEF Closed1, Full
  <2>2. CASE i = 1
    <3>1. r[1].cap = o[1].cap /\ r[1].data = o[1].data
      BY <2>2 DEF Closed1
    <3> QED BY <1>1, <1>2, <2>2, <3>1
  <2> QED BY <2>1, <2>2
<1>8. r[1] \in StreamBlock /\ r # <<>>
  BY <1>1
<1> QED BY <1>1, <1>3, <1>4, <1>5, <1>6, <1>7, <1>8

\* The block to send of a context that Prepare has left, is no longer than the
\* first of the socket's blocks.
Ready(x) ==
  x.slen > 0 => /\ x.conn.app = 0 /\ Mine(x).out # <<>>
                /\ x.slen = Len(Mine(x).out[1].data)

\* AppRexmit sends the first block, a bare ACK or nothing.
LEMMA AppRexmitIs ==
  ASSUME NEW x \in StreamContexts, Bare(x.sends), Ready(x), NEW y, y = AppRexmit(x)
  PROVE  /\ SameSock(x, y) /\ y.conn = x.conn /\ y.flags = x.flags /\ y.slen = x.slen
         /\ Utterance(y) /\ (x.slen = 0 => Bare(y.sends))
<1>1. /\ x.conn \in StreamConn /\ Mine(x) \in StreamSock /\ x.flags \in SUBSET EventFlags
      /\ x.slen \in Nat /\ Mine(x).out \in Seq(StreamBlock)
  BY StreamParts
<1>2. /\ x.conn.remote \in Remotes \cup {NULL} /\ x.conn.snd_nxt \in Nat /\ x.conn.len \in Nat
  BY <1>1 DEF StreamConn
<1>3. CASE y = x
  BY <1>3 DEF SameSock, Utterance
<1>4. CASE y = Send(x, {"ACK"})
  <2> DEFINE s == [remote |-> x.conn.remote, flags |-> {"ACK"}, seq |-> x.conn.snd_nxt,
                   data |-> <<>>]
  <2>1. s \in Segs /\ Bare(s)
    BY <1>2 DEF Segs, Bare
  <2>2. y = [x EXCEPT !.sends = s]
    BY <1>4 DEF Send, Segment
  <2> HIDE DEF s
  <2> QED BY <2>1, <2>2, SendsIs DEF Utterance
<1>5. CASE /\ x.slen > 0 /\ x.conn.len > 0
           /\ y = [x EXCEPT !.sends = Segment(x.conn, {"ACK"},
                     SubSeq(Sock(x).out[1].data, 1, Lesser(x.conn.len, x.slen)))]
  <2> DEFINE b == Mine(x).out[1]
             d == SubSeq(b.data, 1, Lesser(x.conn.len, x.slen))
             s == [remote |-> x.conn.remote, flags |-> {"ACK"}, seq |-> x.conn.snd_nxt,
                   data |-> d]
  <2>1. x.conn.app = 0 /\ Mine(x).out # <<>> /\ x.slen = Len(b.data)
    BY <1>5 DEF Ready
  <2>2. b \in StreamBlock
    BY <1>1, <2>1
  <2>3. d \in Seq(Nat)
    <3>1. b.data \in Seq(Nat) /\ Lesser(x.conn.len, x.slen) \in 0 .. Len(b.data)
      <4> HIDE DEF b
      <4> QED BY <1>1, <1>2, <2>1, <2>2 DEF StreamBlock, Lesser
    <3> HIDE DEF b
    <3> QED BY <3>1
  <2>4. Sock(x).out[1] = b
    BY <2>1 DEF Sock, Mine
  <2> HIDE DEF d, b
  <2>5. s \in Segs
    BY <1>2, <2>3 DEF Segs
  <2>6. y = [x EXCEPT !.sends = s]
    BY <1>5, <2>4 DEF Segment, d
  <2> HIDE DEF s
  <2>7. SameSock(x, y) /\ y.conn = x.conn /\ y.flags = x.flags /\ y.sends = s /\ y.slen = x.slen
    BY <2>5, <2>6, SendsIs
  <2>8. Mine(y) = Mine(x)
    BY <2>7 DEF SameSock
  <2>9. Utterance(y)
    BY <1>5, <2>7, <2>8 DEF Utterance, s, d, b
  <2> QED BY <1>1, <1>5, <2>7, <2>9
<1> QED BY <1>3, <1>4, <1>5 DEF AppRexmit

\* A FIN.
IsFin(s) == s.flags = {"FIN", "ACK"} /\ s.data = <<>>

\* The connection d is c, but for what sending changes.
SameSide(c, d) ==
  /\ d.remote = c.remote /\ d.rcv_nxt = c.rcv_nxt /\ d.snd_nxt = c.snd_nxt
  /\ d.mss = c.mss /\ d.initialmss = c.initialmss

\* A FIN goes out, or another segment without data.
LEMMA SendIs ==
  ASSUME NEW x \in StreamContexts, NEW f \in SUBSET {"SYN", "ACK", "FIN", "RST"},
         NEW y, y = Send(x, f)
  PROVE  /\ SameSock(x, y) /\ y.conn = x.conn /\ y.flags = x.flags /\ y.slen = x.slen
         /\ y.packet = x.packet
         /\ y.sends.flags = f /\ y.sends.data = <<>> /\ y.sends.seq = x.conn.snd_nxt
<1> DEFINE s == [remote |-> x.conn.remote, flags |-> f, seq |-> x.conn.snd_nxt, data |-> <<>>]
<1>1. s \in Segs /\ s.flags = f /\ s.data = <<>> /\ s.seq = x.conn.snd_nxt
  BY StreamParts DEF Segs, StreamConn
<1>2. y = [x EXCEPT !.sends = s]
  BY DEF Send, Segment
<1> HIDE DEF s
<1> QED BY <1>1, <1>2, SendsIs

\* AppSend closes the connection, or leaves it as it is but for what is in flight.
LEMMA AppSendIs ==
  ASSUME NEW x \in StreamContexts, Bare(x.sends), Ready(x), NEW y, y = AppSend(x)
  PROVE  /\ SameSock(x, y) /\ SameSide(x.conn, y.conn) /\ y.conn.app = x.conn.app
         /\ y.slen = x.slen
         /\ IF "CLOSE" \in x.flags
              THEN /\ y.conn.state = "FIN_WAIT_1" /\ y.conn.stopped = FALSE
                   /\ y.conn.len = 1 /\ IsFin(y.sends)
              ELSE /\ y.conn.state = x.conn.state /\ y.conn.stopped = x.conn.stopped
                   /\ y.conn.len = (IF x.slen > 0 /\ x.conn.len = 0
                                      THEN Lesser(x.slen, x.conn.mss) ELSE x.conn.len)
                   /\ Utterance(y) /\ (x.slen = 0 => Bare(y.sends))
<1>1. /\ x.conn \in StreamConn /\ Mine(x) \in StreamSock /\ x.flags \in SUBSET EventFlags
      /\ x.slen \in Nat /\ x.sends \in Segs
  BY StreamParts
<1>2. CASE "CLOSE" \in x.flags
  <2> DEFINE c == [x.conn EXCEPT !.state = "FIN_WAIT_1", !.stopped = FALSE, !.len = 1, !.nrtx = 0]
             z == [x EXCEPT !.conn = c]
  <2>1. /\ c \in StreamConn /\ SameSide(x.conn, c) /\ c.app = x.conn.app
        /\ c.state = "FIN_WAIT_1" /\ c.stopped = FALSE /\ c.len = 1
    BY <1>1 DEF StreamConn, SameSide, TcpStates
  <2>2. y = Send(z, {"FIN", "ACK"})
    BY <1>2 DEF AppSend, SetState, StreamContexts
  <2> HIDE DEF c
  <2>3. SameSock(x, z) /\ z.conn = c /\ z.slen = x.slen
    BY <2>1 DEF StreamContexts, SameSock, Mine
  <2> HIDE DEF z
  <2>4. /\ SameSock(z, y) /\ y.conn = z.conn /\ y.slen = z.slen
        /\ y.sends.flags = {"FIN", "ACK"} /\ y.sends.data = <<>>
    BY <2>2, <2>3, SendIs DEF SameSock
  <2> QED BY <1>2, <2>1, <2>3, <2>4 DEF SameSock, IsFin
<1>3. CASE "CLOSE" \notin x.flags
  <2> DEFINE l == IF x.slen > 0 /\ x.conn.len = 0 THEN Lesser(x.slen, x.conn.mss) ELSE x.conn.len
             c == [x.conn EXCEPT !.nrtx = 0, !.len = l]
             z == [x EXCEPT !.conn = c]
  <2>1. l \in Nat
    BY <1>1 DEF StreamConn, Lesser
  <2>2. y = AppRexmit(z)
    BY <1>3 DEF AppSend, StreamContexts, StreamConn
  <2> HIDE DEF l
  <2>3. /\ c \in StreamConn /\ SameSide(x.conn, c) /\ c.app = x.conn.app
        /\ c.state = x.conn.state /\ c.stopped = x.conn.stopped /\ c.len = l
    BY <1>1, <2>1 DEF StreamConn, SameSide
  <2> HIDE DEF c
  <2>4. SameSock(x, z) /\ z.conn = c /\ z.slen = x.slen /\ z.sends = x.sends
    BY <2>3 DEF StreamContexts, SameSock, Mine
  <2> HIDE DEF z
  <2>5. Ready(z)
    BY <2>3, <2>4 DEF Ready, SameSock
  <2>6. /\ SameSock(z, y) /\ y.conn = z.conn /\ y.slen = z.slen
        /\ Utterance(y) /\ (z.slen = 0 => Bare(y.sends))
    BY <2>2, <2>4, <2>5, AppRexmitIs DEF SameSock
  <2> QED BY <1>3, <2>3, <2>4, <2>6 DEF SameSock, l
<1> QED BY <1>2, <1>3

\* The callback and what it sends: what stays in any case, and the three ends.
Tells(x, z) ==
  /\ z \in StreamContexts /\ z.data = x.data /\ z.memory = x.memory
  /\ SameSide(x.conn, z.conn)
  /\ Mine(z).in = InAfter(x)
  /\ z.keep = (x.keep \/ (Takes(x) /\ ~Stores(x)))
EndsWithFin(x, z) ==
  /\ "CLOSE" \in Mine(x).state /\ OutAfter(x) = <<>>
  /\ z.conn.state = "FIN_WAIT_1" /\ z.conn.stopped = FALSE /\ z.conn.app = NULL /\ z.conn.len = 1
  /\ Mine(z).out = <<>> /\ Mine(z).state = {}
  /\ IsFin(z.sends)
EndsWithBlock(x, z) ==
  /\ z.conn.state = x.conn.state /\ z.conn.app = 0 /\ z.conn.stopped = StoppedAfter(x)
  /\ z.conn.len = IF z.slen > 0 /\ x.conn.len = 0 THEN Lesser(z.slen, x.conn.mss) ELSE x.conn.len
  /\ Mine(z).state = StateAfter(x) /\ Closed1(OutAfter(x), z.slen, Mine(z).out)
  /\ Utterance(z)
EndsAsItWas(x, z) ==
  /\ "CLOSE" \in Mine(x).state => OutAfter(x) # <<>>
  /\ z.conn.state = x.conn.state /\ z.conn.app = 0 /\ z.conn.len = x.conn.len
  /\ z.conn.stopped = (StoppedAfter(x) \/ "CLOSE" \in Mine(x).state)
  /\ Mine(z).out = OutAfter(x) /\ Mine(z).state = StateAfter(x)
  /\ Bare(z.sends)

\* The first block of a queue leaves it, and the others stay full.
LEMMA OutAfterIs ==
  ASSUME NEW x \in StreamContexts, Full(Mine(x).out)
  PROVE  OutAfter(x) \in Seq(StreamBlock) /\ Full(OutAfter(x))
<1> DEFINE o == Mine(x).out
<1>1. o \in Seq(StreamBlock)
  BY StreamParts
<1>2. CASE o # <<>>
  <2> DEFINE t == Tail(o)
  <2>1. /\ t \in Seq(StreamBlock) /\ Len(t) = Len(o) - 1 /\ Len(o) \in Nat
        /\ DOMAIN t = 1 .. Len(t) /\ DOMAIN o = 1 .. Len(o)
        /\ \A i \in 1 .. Len(t) : t[i] = o[i + 1]
    <3> HIDE DEF o
    <3> QED BY <1>1, <1>2, HeadTailProperties
  <2>2. Full(t)
    <3> SUFFICES ASSUME NEW i \in 1 .. Len(t), i < Len(t) PROVE Len(t[i].data) = t[i].cap
      <4> HIDE DEF t
      <4> QED BY <2>1 DEF Full
    <3>1. i + 1 \in 1 .. Len(o) /\ i + 1 < Len(o) /\ t[i] = o[i + 1]
      <4> HIDE DEF t, o
      <4> QED BY <2>1
    <3> HIDE DEF t
    <3> QED BY <2>1, <3>1 DEF Full
  <2> QED BY <1>1, <2>1, <2>2 DEF OutAfter
<1> QED BY <1>1, <1>2 DEF OutAfter

\* The callback of an established connection, and what it sends.
LEMMA TellIs ==
  ASSUME NEW x \in StreamContexts, x.conn.app = 0, Full(Mine(x).out), Bare(x.sends), x.slen = 0,
         x.flags \cap {"CLOSE", "TIMEDOUT"} = {}, NEW z, z = AppSend(AppCall(x))
  PROVE  /\ Tells(x, z)
         /\ IF x.flags \cap {"POLL", "REXMIT"} # {} /\ OutAfter(x) # <<>>
              THEN EndsWithBlock(x, z)
              ELSE EndsWithFin(x, z) \/ EndsAsItWas(x, z)
<1> DEFINE y == AppCall(x)
<1>1. /\ Callback(x, y) /\ Mine(y).in = InAfter(x)
      /\ y.keep = (x.keep \/ (Takes(x) /\ ~Stores(x)))
      /\ IF x.flags \cap {"POLL", "REXMIT"} # {} /\ OutAfter(x) # <<>>
           THEN CallPrepares(x, y)
           ELSE CallQuits(x, y) \/ CallGoesOn(x, y)
  BY AppCallIs
<1> HIDE DEF y
<1>2. y \in StreamContexts /\ SameSide(x.conn, y.conn) /\ Bare(y.sends) /\ z = AppSend(y)
  BY <1>1 DEF Callback, SameConn, SameSide, y
<1>3. /\ y.conn.state = x.conn.state /\ y.conn.len = x.conn.len /\ y.conn.mss = x.conn.mss
      /\ y.data = x.data /\ y.memory = x.memory
  BY <1>1 DEF Callback, SameConn
<1>4. CASE x.flags \cap {"POLL", "REXMIT"} # {} /\ OutAfter(x) # <<>>
  <2>1. CallPrepares(x, y)
    BY <1>1, <1>4
  <2>2. OutAfter(x) \in Seq(StreamBlock) /\ Full(OutAfter(x))
    BY OutAfterIs
  <2>3. y.slen = Len(Mine(y).out[1].data) /\ Mine(y).out # <<>>
    BY <1>4, <2>1, <2>2, Closed1Is DEF CallPrepares
  <2>4. Ready(y) /\ "CLOSE" \notin y.flags /\ y.conn.app = 0
    BY <2>1, <2>3 DEF Ready, CallPrepares
  <2>5. /\ SameSock(y, z) /\ SameSide(y.conn, z.conn) /\ z.conn.app = y.conn.app
        /\ z.slen = y.slen
        /\ z.conn.state = y.conn.state /\ z.conn.stopped = y.conn.stopped
        /\ z.conn.len = (IF y.slen > 0 /\ y.conn.len = 0
                           THEN Lesser(y.slen, y.conn.mss) ELSE y.conn.len)
        /\ Utterance(z)
    BY <1>2, <2>4, AppSendIs
  <2>6. Tells(x, z)
    BY <1>1, <1>2, <1>3, <2>5 DEF Tells, SameSock, SameSide
  <2>7. EndsWithBlock(x, z)
    BY <1>3, <2>1, <2>5 DEF EndsWithBlock, SameSock, CallPrepares
  <2> QED BY <1>4, <2>6, <2>7
<1>5. CASE CallQuits(x, y)
  <2>1. Ready(y) /\ "CLOSE" \in y.flags /\ y.slen = 0
    BY <1>5 DEF Ready, CallQuits
  <2>2. /\ SameSock(y, z) /\ SameSide(y.conn, z.conn) /\ z.conn.app = y.conn.app
        /\ z.conn.state = "FIN_WAIT_1" /\ z.conn.stopped = FALSE
        /\ z.conn.len = 1 /\ IsFin(z.sends)
    BY <1>2, <2>1, AppSendIs
  <2>3. Tells(x, z)
    BY <1>1, <1>2, <1>3, <2>2 DEF Tells, SameSock, SameSide
  <2>4. EndsWithFin(x, z)
    BY <1>5, <2>2 DEF EndsWithFin, SameSock, CallQuits
  <2>5. ~(x.flags \cap {"POLL", "REXMIT"} # {} /\ OutAfter(x) # <<>>)
    BY <1>5 DEF CallQuits
  <2> QED BY <2>3, <2>4, <2>5
<1>6. CASE /\ ~(x.flags \cap {"POLL", "REXMIT"} # {} /\ OutAfter(x) # <<>>)
           /\ CallGoesOn(x, y)
  <2>1. Ready(y) /\ "CLOSE" \notin y.flags /\ y.slen = 0
    BY <1>6 DEF Ready, CallGoesOn
  <2>2. /\ SameSock(y, z) /\ SameSide(y.conn, z.conn) /\ z.conn.app = y.conn.app
        /\ z.conn.state = y.conn.state /\ z.conn.stopped = y.conn.stopped
        /\ z.conn.len = y.conn.len
        /\ Bare(z.sends)
    <3>1. ~(y.slen > 0)
      BY <2>1
    <3> QED BY <1>2, <2>1, <3>1, AppSendIs
  <2>3. Tells(x, z)
    BY <1>1, <1>2, <1>3, <2>2 DEF Tells, SameSock, SameSide
  <2>4. EndsAsItWas(x, z)
    BY <1>3, <1>6, <2>2 DEF EndsAsItWas, SameSock, CallGoesOn
  <2> QED BY <1>6, <2>3, <2>4
<1> QED BY <1>1, <1>4, <1>5, <1>6

\* A retransmission.
LEMMA RexmitIs ==
  ASSUME NEW x \in StreamContexts, x.conn.app = 0, Full(Mine(x).out), Bare(x.sends),
         x.conn.len > 0, x.flags = {"REXMIT"}, Mine(x).out # <<>>,
         NEW z, z = AppRexmit(AppCall(x))
  PROVE  Tells(x, z) /\ EndsWithBlock(x, z)
<1> DEFINE y == AppCall(x)
<1>5. OutAfter(x) = Mine(x).out
  BY DEF OutAfter
<1>1. /\ Callback(x, y) /\ Mine(y).in = InAfter(x)
      /\ y.keep = (x.keep \/ (Takes(x) /\ ~Stores(x)))
      /\ CallPrepares(x, y)
  <2>1. x.flags \cap {"CLOSE", "TIMEDOUT"} = {} /\ x.flags \cap {"POLL", "REXMIT"} # {}
    OBVIOUS
  <2> HIDE DEF y
  <2>2. y = AppCall(x)
    BY DEF y
  <2> QED BY <1>5, <2>1, <2>2, AppCallIs
<1> HIDE DEF y
<1>2. y \in StreamContexts /\ SameSide(x.conn, y.conn) /\ Bare(y.sends) /\ z = AppRexmit(y)
  BY <1>1 DEF Callback, SameConn, SameSide, y
<1>3. /\ y.conn.state = x.conn.state /\ y.conn.len = x.conn.len /\ y.conn.mss = x.conn.mss
      /\ y.data = x.data /\ y.memory = x.memory
  BY <1>1 DEF Callback, SameConn
<1>4. Mine(x).out \in Seq(StreamBlock)
  BY StreamParts
<1>6. y.slen = Len(Mine(y).out[1].data) /\ Mine(y).out # <<>>
  BY <1>1, <1>4, <1>5, Closed1Is DEF CallPrepares
<1>7. Ready(y) /\ y.conn.app = 0
  BY <1>1, <1>6 DEF Ready, CallPrepares
<1>8. SameSock(y, z) /\ z.conn = y.conn /\ z.slen = y.slen /\ Utterance(z)
  BY <1>2, <1>7, AppRexmitIs
<1>9. Tells(x, z)
  BY <1>1, <1>2, <1>3, <1>8 DEF Tells, SameSock, SameSide
<1>10. EndsWithBlock(x, z)
  <2>1. x.conn.len # 0
    BY StreamParts DEF StreamConn
  <2> QED BY <1>1, <1>3, <1>8, <2>1 DEF EndsWithBlock, SameSock, CallPrepares
<1> QED BY <1>9, <1>10
-----------------------------------------------------------------------------
(* Sequence numbers *)

\* A sequence number wraps at most once.
LEMMA Wraps ==
  ASSUME NEW n \in Nat, n < 2 * SeqSize
  PROVE  n % SeqSize = (IF n < SeqSize THEN n ELSE n - SeqSize)
<1>1. SeqSize \in Nat \ {0}
  BY TcpAssumption
<1> QED BY <1>1

\* A remainder is a sequence number.
LEMMA InRange ==
  ASSUME NEW n \in Nat
  PROVE  n % SeqSize \in 0 .. SeqSize - 1
BY TcpAssumption

\* Different numbers of units have different sequence numbers.
LEMMA OffsetOnce ==
  ASSUME NEW base \in 0 .. SeqSize - 1, NEW m \in Nat, NEW n \in Nat, m < SeqSize, n < SeqSize,
         Offset(base, m) = Offset(base, n)
  PROVE  m = n
<1>1. SeqSize \in Nat \ {0}
  BY TcpAssumption
<1> DEFINE s == base + m
           t == base + n
<1>2. s \in Nat /\ s < 2 * SeqSize /\ t \in Nat /\ t < 2 * SeqSize /\ s % SeqSize = t % SeqSize
  BY <1>1 DEF Offset
<1> HIDE DEF s, t
<1>3. s % SeqSize = (IF s < SeqSize THEN s ELSE s - SeqSize)
  BY <1>2, Wraps
<1>4. t % SeqSize = (IF t < SeqSize THEN t ELSE t - SeqSize)
  BY <1>2, Wraps
<1>5. \/ s = t \/ s = t + SeqSize \/ t = s + SeqSize
  BY <1>1, <1>2, <1>3, <1>4
<1> QED BY <1>1, <1>5 DEF s, t

\* Units may be added one after the other.
LEMMA OffsetAdds ==
  ASSUME NEW base \in 0 .. SeqSize - 1, NEW m \in Nat, NEW n \in Nat, m + n < SeqSize
  PROVE  /\ (Offset(base, m) + n) % SeqSize = Offset(base, m + n)
         /\ Offset(base, m) \in 0 .. SeqSize - 1
<1>1. SeqSize \in Nat \ {0}
  BY TcpAssumption
<1> DEFINE s == base + m
           t == base + (m + n)
           o == IF s < SeqSize THEN s ELSE s - SeqSize
           u == o + n
<1>2. /\ s \in Nat /\ s < 2 * SeqSize /\ t \in Nat /\ t < 2 * SeqSize
      /\ u \in Nat /\ u < 2 * SeqSize /\ o \in 0 .. SeqSize - 1
      /\ u = t \/ u = t - SeqSize
  BY <1>1
<1>3. Offset(base, m) = s % SeqSize /\ Offset(base, m + n) = t % SeqSize
  BY DEF Offset
<1> HIDE DEF s, t, u
<1>4. s % SeqSize = o
  BY <1>2, Wraps
<1>5. t % SeqSize = (IF t < SeqSize THEN t ELSE t - SeqSize)
  BY <1>2, Wraps
<1>6. u % SeqSize = (IF u < SeqSize THEN u ELSE u - SeqSize)
  BY <1>2, Wraps
<1>7. u % SeqSize = t % SeqSize
  BY <1>1, <1>2, <1>5, <1>6
<1>8. Offset(base, m) = o
  BY <1>3, <1>4
<1> HIDE DEF o
<1> QED BY <1>2, <1>3, <1>7, <1>8 DEF u

-----------------------------------------------------------------------------
(* A segment for an established connection *)

Starts(x) == x \in StreamContexts /\ x.flags = {} /\ x.slen = 0 /\ ~x.keep /\ x.sends = NULL

Proper(seg) ==
  /\ seg.remote \in Remotes /\ seg.data \in Seq(Nat)
  /\ seg.seq \in 0 .. SeqSize - 1 /\ seg.ack \in 0 .. SeqSize - 1
  /\ seg.mss = UIP_TCP_MSS /\ seg.wnd \in Nat
  /\ seg.flags \in {{"SYN"}, {"SYN", "ACK"}, {"ACK"}, {"FIN", "ACK"}}

\* It acknowledges what is in flight.
Acks(x, seg) ==
  /\ "ACK" \in seg.flags /\ x.conn.len > 0
  /\ seg.ack = (x.conn.snd_nxt + x.conn.len) % SeqSize

\* The connection after the acknowledgement.
AckedConn(x, seg) ==
  IF Acks(x, seg) THEN [x.conn EXCEPT !.snd_nxt = seg.ack, !.len = 0] ELSE x.conn

\* The acknowledgement.
LEMMA CheckAckIs ==
  ASSUME NEW x, Starts(x), NEW seg, Proper(seg), NEW y, y = CheckAck(x, seg)
  PROVE  /\ SameSock(x, y) /\ y.conn = AckedConn(x, seg) /\ AckedConn(x, seg) \in StreamConn
         /\ y.flags = (IF Acks(x, seg) THEN {"ACKDATA"} ELSE {})
         /\ y.slen = 0 /\ y.sends = NULL
<1>1. x \in StreamContexts /\ x.conn \in StreamConn /\ x.flags = {} /\ x.slen = 0 /\ x.sends = NULL
  BY StreamParts DEF Starts
<1>2. CASE ~Acks(x, seg)
  <2>1. y = x
    BY <1>2 DEF CheckAck, Acks
  <2> QED BY <1>1, <1>2, <2>1 DEF SameSock, AckedConn
<1>3. CASE Acks(x, seg)
  <2> DEFINE c == [x.conn EXCEPT !.snd_nxt = seg.ack, !.len = 0]
             f == {"ACKDATA"}
  <2>1. c \in StreamConn /\ c = AckedConn(x, seg) /\ f \in SUBSET EventFlags
    BY <1>1, <1>3 DEF StreamConn, AckedConn, EventFlags, Proper
  <2>2. y = [x EXCEPT !.conn.snd_nxt = seg.ack, !.conn.len = 0, !.flags = f]
    BY <1>3 DEF CheckAck, Acks
  <2>3. y = [x EXCEPT !.conn = c, !.flags = f]
    BY <1>1, <2>2 DEF StreamContexts
  <2> HIDE DEF c, f
  <2>4. SameSock(x, y) /\ y.conn = c /\ y.flags = f /\ y.slen = x.slen /\ y.sends = x.sends
    BY <1>1, <2>1, <2>3 DEF StreamContexts, SameSock, Mine
  <2> QED BY <1>1, <1>3, <2>1, <2>4 DEF f
<1> QED BY <1>2, <1>3

\* What the socket has to send after the acknowledgement, whether it takes the
\* data, whether it stores them, and what it holds then.
AckedOut(x, seg) ==
  IF Acks(x, seg) /\ Mine(x).out # <<>> THEN Tail(Mine(x).out) ELSE Mine(x).out
TakesSeg(x, seg) ==
  /\ ~x.conn.stopped /\ seg.data # <<>>
  /\ Mine(x).state \cap {"CLOSE", "REMOTECLOSED"} = {}
StoresSeg(x, seg) ==
  TakesSeg(x, seg) /\ x.memory /\ Len(Mine(x).in) < UIP_SOCKET_NUMPACKETS
InSeg(x, seg) == IF StoresSeg(x, seg) THEN Append(Mine(x).in, seg.data) ELSE Mine(x).in
MssOf(x, seg) ==
  IF seg.wnd = 0 THEN x.conn.initialmss ELSE Lesser(seg.wnd, x.conn.initialmss)

\* The ends of a run for an established connection that a segment arrives for:
\* nothing happens ...
Idles(x, seg, z) ==
  /\ z \in StreamContexts /\ Mine(z) = Mine(x) /\ ~z.keep /\ Bare(z.sends)
  /\ z.conn.state = x.conn.state /\ z.conn.stopped = x.conn.stopped
  /\ z.conn.app = x.conn.app /\ z.conn.remote = x.conn.remote
  /\ z.conn.rcv_nxt = x.conn.rcv_nxt /\ z.conn.snd_nxt = x.conn.snd_nxt
  /\ z.conn.len = x.conn.len /\ z.conn.initialmss = x.conn.initialmss
  /\ z.conn.mss \in {x.conn.mss, MssOf(x, seg)}

\* ... or the callback is told ...
Told(x, seg, z) ==
  /\ z \in StreamContexts
  /\ z.conn.remote = x.conn.remote /\ z.conn.initialmss = x.conn.initialmss
  /\ z.conn.snd_nxt = AckedConn(x, seg).snd_nxt
  /\ z.conn.mss \in {x.conn.mss, MssOf(x, seg)}
  /\ Mine(z).in = InSeg(x, seg)
  /\ z.keep = (TakesSeg(x, seg) /\ ~StoresSeg(x, seg))

\* ... and the connection stays ...
Hears(x, seg, z) ==
  /\ Told(x, seg, z)
  /\ z.conn.state = "ESTABLISHED" /\ z.conn.app = 0 /\ z.conn.len = AckedConn(x, seg).len
  /\ z.conn.rcv_nxt = IF x.conn.stopped THEN x.conn.rcv_nxt
                      ELSE (x.conn.rcv_nxt + Len(seg.data)) % SeqSize
  /\ z.conn.stopped =
       \/ "CLOSE" \in Mine(x).state
       \/ /\ "RESTART" \notin Mine(x).state
          /\ \/ x.conn.stopped \/ (TakesSeg(x, seg) /\ ~StoresSeg(x, seg))
             \/ StoresSeg(x, seg) /\ Len(Mine(x).in) = UIP_SOCKET_NUMPACKETS - 1
  /\ "CLOSE" \in Mine(x).state => AckedOut(x, seg) # <<>>
  /\ Mine(z).state = Mine(x).state \ {"RESTART"} /\ Mine(z).out = AckedOut(x, seg)
  /\ Bare(z.sends)

\* ... or is closed by us ...
FinsFirst(x, seg, z) ==
  /\ Told(x, seg, z)
  /\ "CLOSE" \in Mine(x).state /\ AckedOut(x, seg) = <<>>
  /\ z.conn.state = "FIN_WAIT_1" /\ ~z.conn.stopped /\ z.conn.app = NULL /\ z.conn.len = 1
  /\ Mine(z).state = {} /\ Mine(z).out = <<>>
  /\ IsFin(z.sends)

\* ... or by the remote.
FinsBack(x, seg, z) ==
  /\ Told(x, seg, z)
  /\ "FIN" \in seg.flags /\ ~x.conn.stopped
  /\ z.conn.state = "LAST_ACK" /\ ~z.conn.stopped /\ z.conn.app = NULL
  /\ Mine(z).out = <<>>
  /\ Mine(z).state = IF InSeg(x, seg) = <<>> THEN {}
                     ELSE (Mine(x).state \ {"RESTART"}) \cup {"REMOTECLOSED"}
  /\ IsFin(z.sends)

\* A context made from another for the callback.
LEMMA SameTaking ==
  ASSUME NEW x \in StreamContexts, NEW seg, x.data = seg.data,
         NEW t \in StreamContexts, Mine(t) = Mine(x), t.data = x.data, t.memory = x.memory,
         "NEWDATA" \in t.flags <=> ~x.conn.stopped /\ seg.data # <<>>,
         "ACKDATA" \in t.flags <=> Acks(x, seg)
  PROVE  /\ Takes(t) <=> TakesSeg(x, seg)
         /\ Stores(t) <=> StoresSeg(x, seg)
         /\ InAfter(t) = InSeg(x, seg) /\ OutAfter(t) = AckedOut(x, seg)
         /\ StateAfter(t) = Mine(x).state \ {"RESTART"}
<1>1. Takes(t) <=> TakesSeg(x, seg)
  BY DEF Takes, TakesSeg
<1>2. Stores(t) <=> StoresSeg(x, seg)
  BY <1>1 DEF Stores, StoresSeg
<1> QED BY <1>1, <1>2 DEF InAfter, InSeg, OutAfter, AckedOut, StateAfter

\* What the window of a segment leaves for a segment of ours.
LEMMA MssIs ==
  ASSUME NEW x \in StreamContexts, NEW seg, Proper(seg)
  PROVE  MssOf(x, seg) \in Nat
BY StreamParts DEF StreamConn, MssOf, Lesser, Proper

\* The FIN of the remote.
LEMMA FinHeard ==
  ASSUME NEW x, Starts(x), x.conn.app = 0, NEW seg, Proper(seg), x.data = seg.data,
         NEW y, y = CheckAck(x, seg), "FIN" \in seg.flags, ~y.conn.stopped,
         NEW z, z = Established(y, seg)
  PROVE  Idles(x, seg, z) \/ FinsBack(x, seg, z)
<1>1. x \in StreamContexts /\ x.conn \in StreamConn /\ ~x.keep /\ Bare(NULL)
  BY StreamParts DEF Starts, Bare
<1>2. /\ SameSock(x, y) /\ y.conn = AckedConn(x, seg) /\ AckedConn(x, seg) \in StreamConn
      /\ y.flags = (IF Acks(x, seg) THEN {"ACKDATA"} ELSE {})
      /\ y.slen = 0 /\ y.sends = NULL
  BY CheckAckIs
<1>3. /\ y.conn.stopped = x.conn.stopped /\ y.conn.app = x.conn.app /\ y.conn.remote = x.conn.remote
      /\ y.conn.mss = x.conn.mss /\ y.conn.initialmss = x.conn.initialmss
      /\ y.conn.state = x.conn.state /\ y.conn.rcv_nxt = x.conn.rcv_nxt
  BY <1>1, <1>2 DEF AckedConn, StreamConn
<1>4. CASE y.conn.len > 0
  <2>1. z = y
    BY <1>4 DEF Established
  <2>2. ~Acks(x, seg)
    BY <1>1, <1>2, <1>4 DEF AckedConn, StreamConn
  <2>3. y.conn = x.conn
    BY <1>2, <2>2 DEF AckedConn
  <2> QED BY <1>1, <1>2, <2>1, <2>3 DEF Idles, SameSock
<1>5. CASE ~(y.conn.len > 0)
  <2> DEFINE c == [y.conn EXCEPT !.rcv_nxt = (@ + (1 + Len(seg.data))) % SeqSize]
             f == y.flags \cup {"CLOSE"} \cup DataFlag(seg)
             t == [y EXCEPT !.conn = c, !.flags = f]
             u == AppCall(t)
             d == [u.conn EXCEPT !.state = "LAST_ACK", !.stopped = FALSE, !.len = 1, !.nrtx = 0]
             v == [u EXCEPT !.conn = d]
  <2>1. c \in StreamConn /\ c.app = 0 /\ SameConn(y.conn, [c EXCEPT !.rcv_nxt = y.conn.rcv_nxt])
    <3>1. (y.conn.rcv_nxt + (1 + Len(seg.data))) % SeqSize \in 0 .. SeqSize - 1
      <4> DEFINE v0 == y.conn.rcv_nxt
                 l == Len(seg.data)
                 n == v0 + (1 + l)
      <4>1. v0 \in 0 .. SeqSize - 1 /\ l \in Nat
        BY <1>2 DEF Proper, StreamConn
      <4>2. n \in Nat
        <5> HIDE DEF v0, l
        <5> QED BY <4>1, TcpAssumption
      <4> HIDE DEF n
      <4>3. n % SeqSize \in 0 .. SeqSize - 1
        BY <4>2, InRange
      <4> QED BY <4>3 DEF n
    <3> QED BY <1>2, <1>3, <3>1 DEF StreamConn, SameConn
  <2>2. f \in SUBSET EventFlags
    BY <1>2 DEF EventFlags, DataFlag
  <2>3. y \in StreamContexts
    BY <1>2 DEF SameSock
  <2>4. t = [Received(y, 1 + Len(seg.data)) EXCEPT !.flags = @ \cup {"CLOSE"} \cup DataFlag(seg)]
    BY <2>3 DEF Received, StreamContexts
  <2>5. z = Send([SetState(u, "LAST_ACK") EXCEPT !.conn.len = 1, !.conn.nrtx = 0], {"FIN", "ACK"})
    <3> HIDE DEF t
    <3> QED BY <1>5, <2>4 DEF Established, u
  <2>6. /\ c.remote = x.conn.remote /\ c.initialmss = x.conn.initialmss /\ c.mss = x.conn.mss
        /\ c.snd_nxt = AckedConn(x, seg).snd_nxt /\ c.stopped = FALSE
    BY <1>1, <1>2, <1>3 DEF StreamConn
  <2> HIDE DEF c
  <2>7. /\ t \in StreamContexts /\ Mine(t) = Mine(x) /\ t.conn = c /\ t.flags = f
        /\ t.data = x.data /\ t.memory = x.memory /\ t.keep = x.keep
    BY <1>2, <2>1, <2>2, <2>3 DEF StreamContexts, SameSock, Mine
  <2>8. /\ "NEWDATA" \in f <=> ~x.conn.stopped /\ seg.data # <<>>
        /\ "ACKDATA" \in f <=> Acks(x, seg)
        /\ f \cap {"CLOSE", "TIMEDOUT"} # {}
    BY <1>2, <1>3 DEF DataFlag
  <2> HIDE DEF f, t, u
  <2>9. /\ Takes(t) <=> TakesSeg(x, seg)
        /\ Stores(t) <=> StoresSeg(x, seg)
        /\ InAfter(t) = InSeg(x, seg) /\ OutAfter(t) = AckedOut(x, seg)
        /\ StateAfter(t) = Mine(x).state \ {"RESTART"}
    BY <1>1, <2>7, <2>8, SameTaking
  <2>10. u = AppCall(t)
    BY DEF u
  <2>11. /\ Callback(t, u) /\ Mine(u).in = InAfter(t)
         /\ u.keep = (t.keep \/ (Takes(t) /\ ~Stores(t)))
         /\ CallEnds(t, u)
    BY <2>1, <2>7, <2>8, <2>10, AppCallIs
  <2>12. u \in StreamContexts /\ u.conn \in StreamConn
    BY <2>11, StreamParts DEF Callback
  <2>13. /\ d \in StreamConn /\ d.state = "LAST_ACK" /\ d.stopped = FALSE /\ d.app = NULL
         /\ d.remote = x.conn.remote /\ d.initialmss = x.conn.initialmss /\ d.mss = x.conn.mss
         /\ d.snd_nxt = AckedConn(x, seg).snd_nxt
    BY <2>6, <2>7, <2>11, <2>12, ZenonT(80) DEF Callback, SameConn, CallEnds, StreamConn, TcpStates
  <2>14. z = Send(v, {"FIN", "ACK"})
    BY <2>5, <2>12 DEF SetState, StreamContexts
  <2> HIDE DEF d
  <2>15. v \in StreamContexts /\ v.conn = d /\ Mine(v) = Mine(u) /\ v.keep = u.keep
    BY <2>12, <2>13 DEF StreamContexts, Mine
  <2> HIDE DEF v
  <2>16. /\ SameSock(v, z) /\ z.conn = v.conn
         /\ z.sends.flags = {"FIN", "ACK"} /\ z.sends.data = <<>>
    BY <2>14, <2>15, SendIs
  <2>17. Told(x, seg, z)
    BY <1>1, <2>7, <2>9, <2>11, <2>13, <2>15, <2>16 DEF Told, SameSock
  <2>18. FinsBack(x, seg, z)
    BY <1>3, <2>9, <2>11, <2>13, <2>15, <2>16, <2>17 DEF FinsBack, SameSock, CallEnds, IsFin
  <2> QED BY <2>18
<1> QED BY <1>4, <1>5

\* A segment without FIN, or one that a stopped connection leaves for later.
LEMMA DataHeard ==
  ASSUME NEW x, Starts(x), x.conn.app = 0, x.conn.state = "ESTABLISHED", Full(Mine(x).out),
         NEW seg, Proper(seg), x.data = seg.data,
         NEW y, y = CheckAck(x, seg), ~("FIN" \in seg.flags /\ ~y.conn.stopped),
         NEW z, z = Established(y, seg)
  PROVE  Idles(x, seg, z) \/ Hears(x, seg, z) \/ FinsFirst(x, seg, z)
<1>1. x \in StreamContexts /\ x.conn \in StreamConn /\ ~x.keep /\ Bare(NULL)
  BY StreamParts DEF Starts, Bare
<1>2. /\ SameSock(x, y) /\ y.conn = AckedConn(x, seg) /\ AckedConn(x, seg) \in StreamConn
      /\ y.flags = (IF Acks(x, seg) THEN {"ACKDATA"} ELSE {})
      /\ y.slen = 0 /\ y.sends = NULL
  BY CheckAckIs
<1>3. /\ y.conn.stopped = x.conn.stopped /\ y.conn.app = x.conn.app /\ y.conn.remote = x.conn.remote
      /\ y.conn.mss = x.conn.mss /\ y.conn.initialmss = x.conn.initialmss
      /\ y.conn.state = x.conn.state /\ y.conn.rcv_nxt = x.conn.rcv_nxt
  BY <1>1, <1>2 DEF AckedConn, StreamConn
<1> DEFINE rcv == IF x.conn.stopped THEN x.conn.rcv_nxt
                  ELSE (x.conn.rcv_nxt + Len(seg.data)) % SeqSize
           c == [y.conn EXCEPT !.rcv_nxt = rcv, !.mss = MssOf(x, seg)]
           f == IF x.conn.stopped THEN y.flags ELSE y.flags \cup DataFlag(seg)
           t == [y EXCEPT !.conn = c, !.flags = f]
<1>4. rcv \in 0 .. SeqSize - 1 /\ MssOf(x, seg) \in Nat
  <2>1. (x.conn.rcv_nxt + Len(seg.data)) % SeqSize \in 0 .. SeqSize - 1
    <3> DEFINE n == x.conn.rcv_nxt + Len(seg.data)
    <3>1. n \in Nat
      BY <1>1, TcpAssumption DEF Proper, StreamConn
    <3> HIDE DEF n
    <3>2. n % SeqSize \in 0 .. SeqSize - 1
      BY <3>1, InRange
    <3> QED BY <3>2 DEF n
  <2> QED BY <1>1, <2>1, MssIs DEF StreamConn
<1>5. f \in SUBSET EventFlags
  BY <1>2 DEF EventFlags, DataFlag
<1>6. y \in StreamContexts
  BY <1>2 DEF SameSock
<1>7. z = IF t.flags # {} THEN AppSend(AppCall(t)) ELSE t
  <2>1. t = [(IF y.conn.stopped THEN y
               ELSE [Received(y, Len(seg.data)) EXCEPT !.flags = @ \cup DataFlag(seg)])
             EXCEPT !.conn.mss = IF seg.wnd = 0 THEN y.conn.initialmss
                                 ELSE Lesser(seg.wnd, y.conn.initialmss)]
    <3>1. MssOf(x, seg) = IF seg.wnd = 0 THEN y.conn.initialmss
                          ELSE Lesser(seg.wnd, y.conn.initialmss)
      BY <1>3 DEF MssOf
    <3>2. CASE x.conn.stopped
      <4>1. rcv = y.conn.rcv_nxt /\ f = y.flags
        BY <1>3, <3>2
      <4> HIDE DEF rcv, f
      <4>2. y.conn \in StreamConn /\ y.conn.stopped
        BY <1>2, <1>3, <3>2
      <4>3. c = [y.conn EXCEPT !.mss = MssOf(x, seg)]
        BY <4>1, <4>2 DEF StreamConn
      <4> HIDE DEF c
      <4>4. t = [y EXCEPT !.conn = c]
        BY <1>6, <4>1 DEF StreamContexts
      <4> HIDE DEF t
      <4>5. t = [y EXCEPT !.conn.mss = MssOf(x, seg)]
        BY <1>6, <4>3, <4>4 DEF StreamContexts
      <4> QED BY <3>1, <4>2, <4>5
    <3>3. CASE ~x.conn.stopped
      <4>1. rcv = (y.conn.rcv_nxt + Len(seg.data)) % SeqSize /\ f = y.flags \cup DataFlag(seg)
        BY <1>3, <3>3
      <4> HIDE DEF rcv, f
      <4> QED BY <1>2, <1>3, <1>6, <3>1, <3>3, <4>1 DEF StreamContexts, StreamConn, Received
    <3> QED BY <3>2, <3>3
  <2> HIDE DEF t
  <2> QED BY <2>1 DEF Established
<1> HIDE DEF rcv, f
<1>8. /\ c \in StreamConn /\ c.app = 0 /\ c.remote = x.conn.remote
      /\ c.initialmss = x.conn.initialmss /\ c.mss = MssOf(x, seg) /\ c.rcv_nxt = rcv
      /\ c.snd_nxt = AckedConn(x, seg).snd_nxt /\ c.len = AckedConn(x, seg).len
      /\ c.stopped = x.conn.stopped /\ c.state = "ESTABLISHED"
  BY <1>2, <1>3, <1>4 DEF StreamConn
<1> HIDE DEF c
<1>9. /\ t \in StreamContexts /\ Mine(t) = Mine(x) /\ t.conn = c /\ t.flags = f
      /\ t.data = x.data /\ t.memory = x.memory /\ t.keep = x.keep /\ t.sends = NULL /\ t.slen = 0
  BY <1>2, <1>5, <1>6, <1>8 DEF StreamContexts, SameSock, Mine
<1> HIDE DEF t
<1>10. /\ "NEWDATA" \in f <=> ~x.conn.stopped /\ seg.data # <<>>
       /\ "ACKDATA" \in f <=> Acks(x, seg)
       /\ f \subseteq {"ACKDATA", "NEWDATA"}
  BY <1>2 DEF DataFlag, f
<1>11. CASE f = {}
  <2>1. z = t /\ ~Acks(x, seg)
    BY <1>7, <1>9, <1>10, <1>11
  <2>2. AckedConn(x, seg) = x.conn
    BY <2>1 DEF AckedConn
  <2>3. rcv = x.conn.rcv_nxt
    <3>1. CASE x.conn.stopped
      BY <3>1 DEF rcv
    <3>2. CASE ~x.conn.stopped
      <4>1. Len(seg.data) = 0
        BY <1>10, <1>11, <3>2
      <4>2. x.conn.rcv_nxt \in Nat /\ x.conn.rcv_nxt < SeqSize /\ x.conn.rcv_nxt + 0 = x.conn.rcv_nxt
        BY <1>1, TcpAssumption DEF StreamConn
      <4>3. x.conn.rcv_nxt % SeqSize = x.conn.rcv_nxt
        <5> DEFINE r == x.conn.rcv_nxt
        <5>1. r \in Nat /\ r < SeqSize /\ r < 2 * SeqSize
          BY <4>2, TcpAssumption
        <5> HIDE DEF r
        <5>2. r % SeqSize = r
          BY <5>1, Wraps
        <5> QED BY <5>2 DEF r
      <4> QED BY <3>2, <4>1, <4>2, <4>3 DEF rcv
    <3> QED BY <3>1, <3>2
  <2> QED BY <1>1, <1>8, <1>9, <2>1, <2>2, <2>3 DEF Idles
<1>12. CASE f # {}
  <2>1. z = AppSend(AppCall(t))
    BY <1>7, <1>9, <1>12
  <2>2. /\ Takes(t) <=> TakesSeg(x, seg)
        /\ Stores(t) <=> StoresSeg(x, seg)
        /\ InAfter(t) = InSeg(x, seg) /\ OutAfter(t) = AckedOut(x, seg)
        /\ StateAfter(t) = Mine(x).state \ {"RESTART"}
    BY <1>1, <1>9, <1>10, SameTaking
  <2>3. /\ t.flags \cap {"CLOSE", "TIMEDOUT"} = {} /\ t.flags \cap {"POLL", "REXMIT"} = {}
        /\ t.conn.app = 0 /\ Bare(t.sends)
    BY <1>1, <1>8, <1>9, <1>10
  <2>4. Tells(t, z) /\ (EndsWithFin(t, z) \/ EndsAsItWas(t, z))
    BY <1>9, <2>1, <2>3, TellIs
  <2>5. Told(x, seg, z)
    BY <1>1, <1>8, <1>9, <2>2, <2>4 DEF Told, Tells, SameSide
  <2>6. CASE EndsWithFin(t, z)
    BY <1>9, <2>2, <2>5, <2>6 DEF FinsFirst, EndsWithFin
  <2>7. CASE EndsAsItWas(t, z)
    <3>1. z.conn.stopped = (StoppedAfter(t) \/ "CLOSE" \in Mine(x).state)
      BY <1>9, <2>7 DEF EndsAsItWas
    <3>2. StoppedAfter(t) <=>
            /\ "RESTART" \notin Mine(x).state
            /\ \/ x.conn.stopped \/ (TakesSeg(x, seg) /\ ~StoresSeg(x, seg))
               \/ StoresSeg(x, seg) /\ Len(Mine(x).in) = UIP_SOCKET_NUMPACKETS - 1
      BY <1>8, <1>9, <2>2 DEF StoppedAfter
    <3>3. z.conn.rcv_nxt = rcv
      BY <1>8, <1>9, <2>4 DEF Tells, SameSide
    <3>4. z.conn.stopped = (
            \/ "CLOSE" \in Mine(x).state
            \/ /\ "RESTART" \notin Mine(x).state
               /\ \/ x.conn.stopped \/ (TakesSeg(x, seg) /\ ~StoresSeg(x, seg))
                  \/ StoresSeg(x, seg) /\ Len(Mine(x).in) = UIP_SOCKET_NUMPACKETS - 1)
      BY <3>1, <3>2
    <3>5. /\ z.conn.state = "ESTABLISHED" /\ z.conn.app = 0 /\ z.conn.len = AckedConn(x, seg).len
          /\ "CLOSE" \in Mine(x).state => AckedOut(x, seg) # <<>>
          /\ Mine(z).state = Mine(x).state \ {"RESTART"} /\ Mine(z).out = AckedOut(x, seg)
          /\ Bare(z.sends)
      BY <1>8, <1>9, <2>2, <2>7 DEF EndsAsItWas
    <3> QED BY <2>5, <3>3, <3>4, <3>5 DEF Hears, rcv
  <2> QED BY <2>4, <2>6, <2>7
<1> QED BY <1>11, <1>12
-----------------------------------------------------------------------------
(* A segment for a connection without a socket *)

\* From x to y nothing of the socket changes, and little of the connection.
Parallel(x, y) ==
  /\ SameSock(x, y) /\ y.conn \in StreamConn
  /\ y.conn.app = x.conn.app /\ y.conn.remote = x.conn.remote
  /\ y.conn.mss = x.conn.mss /\ y.conn.initialmss = x.conn.initialmss

\* One change after another.
LEMMA ParallelOn ==
  ASSUME NEW x, NEW y, NEW z, Parallel(x, y), Parallel(y, z)
  PROVE  Parallel(x, z)
BY DEF Parallel, SameSock

\* Another state of the connection.
LEMMA SetStateIs ==
  ASSUME NEW x \in StreamContexts, NEW s \in TcpStates, NEW y, y = SetState(x, s)
  PROVE  /\ Parallel(x, y) /\ y.flags = x.flags /\ y.sends = x.sends
         /\ y.conn.state = s /\ ~y.conn.stopped
         /\ y.conn.rcv_nxt = x.conn.rcv_nxt /\ y.conn.snd_nxt = x.conn.snd_nxt
         /\ y.conn.len = x.conn.len
<1> DEFINE c == [x.conn EXCEPT !.state = s, !.stopped = FALSE]
<1>1. x.conn \in StreamConn
  BY StreamParts
<1>2. /\ c \in StreamConn /\ c.state = s /\ ~c.stopped
      /\ c.app = x.conn.app /\ c.remote = x.conn.remote
      /\ c.mss = x.conn.mss /\ c.initialmss = x.conn.initialmss
      /\ c.rcv_nxt = x.conn.rcv_nxt /\ c.snd_nxt = x.conn.snd_nxt /\ c.len = x.conn.len
  BY <1>1 DEF StreamConn
<1>3. y = [x EXCEPT !.conn = c]
  BY DEF SetState, StreamContexts
<1> HIDE DEF c
<1>4. SameSock(x, y) /\ y.conn = c /\ y.flags = x.flags /\ y.sends = x.sends
  BY <1>2, <1>3 DEF StreamContexts, SameSock, Mine
<1> QED BY <1>2, <1>4 DEF Parallel

\* More units received.
LEMMA ReceivedIs ==
  ASSUME NEW x \in StreamContexts, NEW n \in Nat, NEW y, y = Received(x, n)
  PROVE  /\ Parallel(x, y) /\ y.flags = x.flags /\ y.sends = x.sends
         /\ y.conn.state = x.conn.state /\ y.conn.stopped = x.conn.stopped
         /\ y.conn.rcv_nxt = (x.conn.rcv_nxt + n) % SeqSize /\ y.conn.snd_nxt = x.conn.snd_nxt
         /\ y.conn.len = x.conn.len
<1> DEFINE m == x.conn.rcv_nxt + n
           r == m % SeqSize
           c == [x.conn EXCEPT !.rcv_nxt = r]
<1>1. x.conn \in StreamConn
  BY StreamParts
<1>2. m \in Nat
  BY <1>1, TcpAssumption DEF StreamConn
<1>3. r \in 0 .. SeqSize - 1
  <2> HIDE DEF m
  <2> QED BY <1>2, InRange
<1>5. y = [x EXCEPT !.conn = c]
  BY DEF Received, StreamContexts
<1>7. r = (x.conn.rcv_nxt + n) % SeqSize
  OBVIOUS
<1> HIDE DEF m, r
<1>4. /\ c \in StreamConn /\ c.state = x.conn.state /\ c.stopped = x.conn.stopped
      /\ c.app = x.conn.app /\ c.remote = x.conn.remote
      /\ c.mss = x.conn.mss /\ c.initialmss = x.conn.initialmss
      /\ c.rcv_nxt = r /\ c.snd_nxt = x.conn.snd_nxt /\ c.len = x.conn.len
  BY <1>1, <1>3 DEF StreamConn
<1> HIDE DEF c
<1>6. SameSock(x, y) /\ y.conn = c /\ y.flags = x.flags /\ y.sends = x.sends
  BY <1>4, <1>5 DEF StreamContexts, SameSock, Mine
<1> QED BY <1>4, <1>6, <1>7 DEF Parallel

\* The callback of a connection without a socket does nothing.
LEMMA AppCallNone ==
  ASSUME NEW x, x.conn.app = NULL, "CONNECTED" \notin x.flags
  PROVE  AppCall(x) = x
BY DEF AppCall, Connected

\* The ends of a run for a connection without a socket: it stays without.
Winds(x, z) ==
  /\ Parallel(x, z) /\ ~z.conn.stopped
  /\ x.conn.state \in Closing => z.conn.state \in Closing \cup {"CLOSED"}
  /\ x.conn.state = "LAST_ACK" => z.conn.state \in {"LAST_ACK", "CLOSED"}
  /\ x.conn.state = "CLOSED" => z.conn.state = "CLOSED"
  /\ x.conn.state \in {"SYN_RCVD", "SYN_SENT"} =>
       \/ z.conn.state = "CLOSED"
       \/ /\ z.conn.state = x.conn.state /\ z.conn.rcv_nxt = x.conn.rcv_nxt
          /\ z.conn.snd_nxt = x.conn.snd_nxt /\ z.conn.len = x.conn.len
  /\ \/ Bare(z.sends)
     \/ x.conn.state \in Closing \cup {"LAST_ACK"} /\ IsFin(z.sends)
     \/ /\ x.conn.state \in {"SYN_RCVD", "SYN_SENT"}
        /\ "SYN" \in z.sends.flags /\ "FIN" \notin z.sends.flags
        /\ z.sends.data = <<>> /\ z.sends.seq = x.conn.snd_nxt

\* FIN_WAIT_1 and FIN_WAIT_2.
LEMMA FinWaitIs ==
  ASSUME NEW y \in StreamContexts, y.conn.app = NULL, ~y.conn.stopped, Bare(y.sends),
         NEW seg, Proper(seg),
         y.conn.state \in {"FIN_WAIT_1", "FIN_WAIT_2"},
         NEW z, \/ z = FinWait1(y, seg) /\ y.conn.state = "FIN_WAIT_1"
                \/ z = FinWait2(y, seg) /\ y.conn.state = "FIN_WAIT_2"
  PROVE  /\ Parallel(y, z) /\ ~z.conn.stopped /\ z.conn.state \in Closing /\ Bare(z.sends)
<1> DEFINE n == Received(y, Len(seg.data))
           next == IF y.conn.state = "FIN_WAIT_1" /\ ~IsAcked(y) THEN "CLOSING" ELSE "TIME_WAIT"
           a == SetState(n, next)
           b == Received(a, 1)
           f == {"CLOSE"}
           c == [b EXCEPT !.flags = f]
<1>1. \/ z = Send(AppCall(c), {"ACK"}) \/ z = SetState(n, "FIN_WAIT_2")
      \/ z = Send(n, {"ACK"}) \/ z = n
  BY DEF FinWait1, FinWait2
<1>9. n = Received(y, Len(seg.data))
  OBVIOUS
<1>2. Len(seg.data) \in Nat /\ f \in SUBSET EventFlags
  BY DEF Proper, EventFlags
<1>3. /\ Parallel(y, n) /\ n.sends = y.sends /\ n.conn.state = y.conn.state
      /\ n.conn.stopped = y.conn.stopped
  BY <1>2, ReceivedIs
<1> HIDE DEF n, a, b, c, f
<1>4. /\ n \in StreamContexts /\ n.conn.app = NULL /\ n.conn.state \in Closing /\ ~n.conn.stopped
      /\ Bare(n.sends)
  BY <1>3 DEF Parallel, SameSock, Closing
<1>5. CASE z = n
  BY <1>3, <1>4, <1>5
<1>6. CASE z = Send(n, {"ACK"})
  <2>1. /\ SameSock(n, z) /\ z.conn = n.conn /\ z.sends.flags = {"ACK"} /\ z.sends.data = <<>>
    BY <1>4, <1>6, SendIs
  <2> QED BY <1>3, <1>4, <2>1 DEF Bare, Parallel, SameSock
<1>7. CASE z = SetState(n, "FIN_WAIT_2")
  <2>1. "FIN_WAIT_2" \in TcpStates
    BY DEF TcpStates
  <2>2. /\ Parallel(n, z) /\ z.sends = n.sends /\ z.conn.state = "FIN_WAIT_2"
        /\ ~z.conn.stopped
    BY <1>4, <1>7, <2>1, SetStateIs
  <2> QED BY <1>3, <1>4, <2>2, ParallelOn DEF Closing
<1>8. CASE z = Send(AppCall(c), {"ACK"})
  <2>1. next \in TcpStates /\ next \in Closing
    BY DEF TcpStates, Closing
  <2> HIDE DEF next
  <2>2. Parallel(n, a) /\ a.sends = n.sends /\ a.conn.state = next /\ ~a.conn.stopped
    <3>1. a = SetState(n, next)
      BY DEF a
    <3> QED BY <1>4, <2>1, <3>1, SetStateIs
  <2>3. a \in StreamContexts
    BY <2>2 DEF Parallel, SameSock
  <2>4. Parallel(a, b) /\ b.conn.state = a.conn.state /\ b.conn.stopped = a.conn.stopped
    <3>1. 1 \in Nat
      OBVIOUS
    <3>2. b = Received(a, 1)
      BY DEF b
    <3> QED BY <2>3, <3>1, <3>2, ReceivedIs
  <2>5. b \in StreamContexts
    BY <2>4 DEF Parallel, SameSock
  <2>6. Parallel(b, c) /\ c.conn = b.conn /\ c.flags = f
    <3>1. c = [b EXCEPT !.flags = f]
      BY DEF c
    <3>2. SameSock(b, c) /\ c.conn = b.conn /\ c.flags = f
      BY <1>2, <2>5, <3>1 DEF StreamContexts, SameSock, Mine
    <3>3. b.conn \in StreamConn
      BY <2>5, StreamParts
    <3> QED BY <3>2, <3>3 DEF Parallel
  <2>7. c \in StreamContexts /\ c.conn.app = NULL
    BY <1>4, <2>2, <2>4, <2>6 DEF Parallel, SameSock
  <2>8. z = Send(c, {"ACK"})
    <3>1. AppCall(c) = c
      BY <2>6, <2>7, AppCallNone DEF f
    <3> QED BY <1>8, <3>1
  <2>9. SameSock(c, z) /\ z.conn = c.conn /\ z.sends.flags = {"ACK"} /\ z.sends.data = <<>>
    BY <2>7, <2>8, SendIs
  <2>10. Parallel(y, c)
    BY <1>3, <2>2, <2>4, <2>6, ParallelOn
  <2>11. Parallel(y, z)
    BY <2>9, <2>10 DEF Parallel, SameSock
  <2> QED BY <2>1, <2>2, <2>4, <2>6, <2>9, <2>11 DEF Bare
<1> QED BY <1>1, <1>5, <1>6, <1>7, <1>8
-----------------------------------------------------------------------------
(* The opening of a connection *)

\* The socket of a new connection.
NewSocket == [NewSock EXCEPT !.state = {"CONNECTED"}]

\* The connection takes the first socket.
LEMMA ConnectedIs ==
  ASSUME NEW x \in StreamContexts, x.conn.app = NULL, "CONNECTED" \in x.flags,
         Mine(x) = NewSock, NEW y, y = Connected(x)
  PROVE  /\ y \in StreamContexts /\ y.conn.app = 0 /\ SameConn(x.conn, y.conn)
         /\ y.conn.stopped = x.conn.stopped
         /\ Mine(y) = NewSocket /\ y.flags = x.flags /\ y.slen = x.slen
         /\ y.data = x.data /\ y.memory = x.memory /\ y.sends = x.sends /\ y.keep = x.keep
         /\ AppCall(x) = AppCall(y)
<1> DEFINE free == {s \in Socks : x.socks[s].state = {}}
           c == [x.conn EXCEPT !.app = 0]
           K == [x.socks EXCEPT ![0] = NewSocket]
<1>1. /\ x.conn \in StreamConn /\ x.socks \in StreamSocks /\ 0 \in Socks
      /\ \A s \in Socks : s \in Nat
  BY StreamParts, TcpAssumption DEF Socks
<1>2. 0 \in free
  BY <1>1 DEF Mine, NewSock
<1>3. Least(free) = 0
  <2>1. \A s \in free : s \in Nat
    BY <1>1
  <2> HIDE DEF free
  <2> QED BY <1>2, <2>1 DEF Least
<1>4. NewSocket \in StreamSock
  <2>1. NewSocket = [state |-> {"CONNECTED"}, in |-> <<>>, out |-> <<>>, lport |-> FALSE]
    <3> DEFINE k == NewSock
               f == {"CONNECTED"}
    <3>1. k = [state |-> k.state, in |-> k.in, out |-> k.out, lport |-> k.lport]
      BY DEF NewSock
    <3>2. k.in = <<>> /\ k.out = <<>> /\ k.lport = FALSE
      BY DEF NewSock
    <3>3. NewSocket = [k EXCEPT !.state = f]
      BY DEF NewSocket
    <3> HIDE DEF k, f
    <3>4. NewSocket = [state |-> f, in |-> k.in, out |-> k.out, lport |-> k.lport]
      BY <3>1, <3>3
    <3> QED BY <3>2, <3>4 DEF f
  <2>2. <<>> \in Seq(Seq(Nat)) /\ <<>> \in Seq(StreamBlock)
    OBVIOUS
  <2>3. {"CONNECTED"} \in SUBSET SockFlags /\ FALSE \in BOOLEAN
    BY DEF SockFlags
  <2> QED BY <2>1, <2>2, <2>3 DEF StreamSock
<1>5. c \in StreamConn /\ c.app = 0 /\ c.stopped = x.conn.stopped /\ SameConn(x.conn, c)
  BY <1>1 DEF StreamConn, SameConn
<1>6. K \in StreamSocks /\ K[0] = NewSocket
  BY <1>1, <1>4, SocksWith
<1>7. y = [x EXCEPT !.conn = c, !.socks = K]
  <2>1. y = [x EXCEPT !.conn.app = 0, !.socks[0] = NewSocket]
    BY <1>2, <1>3 DEF Connected, NewSocket
  <2>2. x = [conn |-> x.conn, socks |-> x.socks, used |-> x.used, flags |-> x.flags,
             slen |-> x.slen, data |-> x.data, packet |-> x.packet, keep |-> x.keep,
             sends |-> x.sends, memory |-> x.memory]
    BY DEF StreamContexts
  <2> HIDE DEF free
  <2> QED BY <2>1, <2>2
<1> HIDE DEF c, K, free
<1>8. /\ y \in StreamContexts /\ y.conn = c /\ y.socks = K
      /\ y.flags = x.flags /\ y.slen = x.slen
      /\ y.data = x.data /\ y.memory = x.memory /\ y.sends = x.sends /\ y.keep = x.keep
  BY <1>5, <1>6, <1>7 DEF StreamContexts
<1>9. AppCall(x) = AppCall(y)
  <2>1. y.conn.app # NULL
    BY <1>5, <1>8, TcpAssumption
  <2>2. Connected(y) = y
    BY <2>1 DEF Connected
  <2>3. Connected(x) = Connected(y)
    BY <2>2
  <2> QED BY <2>3 DEF AppCall
<1> QED BY <1>5, <1>6, <1>8, <1>9 DEF Mine

\* The callback of a connection that has just been opened.
LEMMA OpenedIs ==
  ASSUME NEW x \in StreamContexts, x.conn.app = NULL, "CONNECTED" \in x.flags,
         x.flags \subseteq {"CONNECTED", "NEWDATA"},
         Mine(x) = NewSock, x.slen = 0, Bare(x.sends), ~x.keep, ~x.conn.stopped,
         NEW taken, taken = ("NEWDATA" \in x.flags /\ x.data # <<>>),
         NEW z, z = AppSend(AppCall(x))
  PROVE  /\ z \in StreamContexts /\ SameSide(x.conn, z.conn) /\ z.conn.state = x.conn.state
         /\ z.conn.app = 0 /\ z.conn.len = x.conn.len
         /\ Mine(z).out = <<>> /\ Mine(z).state = {"CONNECTED"}
         /\ Mine(z).in = (IF taken /\ x.memory THEN <<x.data>> ELSE <<>>)
         /\ z.keep = (taken /\ ~x.memory)
         /\ z.conn.stopped = (taken /\ (~x.memory \/ UIP_SOCKET_NUMPACKETS = 1))
         /\ Bare(z.sends)
<1> DEFINE y == Connected(x)
<1>1. /\ y \in StreamContexts /\ y.conn.app = 0 /\ SameConn(x.conn, y.conn)
      /\ y.conn.stopped = x.conn.stopped
      /\ Mine(y) = NewSocket /\ y.flags = x.flags /\ y.slen = x.slen
      /\ y.data = x.data /\ y.memory = x.memory /\ y.sends = x.sends /\ y.keep = x.keep
      /\ AppCall(x) = AppCall(y)
  BY ConnectedIs
<1> HIDE DEF y
<1>2. /\ Mine(y).out = <<>> /\ Mine(y).in = <<>> /\ Mine(y).state = {"CONNECTED"}
  BY <1>1 DEF NewSocket, NewSock
<1>3. Full(Mine(y).out)
  BY <1>2 DEF Full
<1>4. y.flags \cap {"CLOSE", "TIMEDOUT"} = {} /\ y.flags \cap {"POLL", "REXMIT"} = {}
      /\ "ACKDATA" \notin y.flags
  BY <1>1
<1>5. z = AppSend(AppCall(y))
  BY <1>1
<1>6. Tells(y, z) /\ (EndsWithFin(y, z) \/ EndsAsItWas(y, z))
  BY <1>1, <1>3, <1>4, <1>5, TellIs
<1>7. EndsAsItWas(y, z)
  BY <1>2, <1>6 DEF EndsWithFin
<1>8. Takes(y) = taken
  BY <1>1, <1>2 DEF Takes
<1>9. Stores(y) = (taken /\ x.memory)
  BY <1>1, <1>2, <1>8, TcpAssumption DEF Stores
<1>10. OutAfter(y) = <<>> /\ StateAfter(y) = {"CONNECTED"}
  BY <1>2, <1>4 DEF OutAfter, StateAfter
<1>11. InAfter(y) = (IF taken /\ x.memory THEN <<x.data>> ELSE <<>>)
  <2>1. Append(<<>>, x.data) = <<x.data>>
    OBVIOUS
  <2>2. Mine(y).in = <<>> /\ y.data = x.data
    BY <1>1, <1>2
  <2>3. InAfter(y) = IF Stores(y) THEN Append(<<>>, x.data) ELSE <<>>
    BY <2>2 DEF InAfter
  <2> HIDE DEF y
  <2> QED BY <1>9, <2>1, <2>3
<1>12. StoppedAfter(y) = (taken /\ (~x.memory \/ UIP_SOCKET_NUMPACKETS = 1))
  <2>1. Len(Mine(y).in) = 0 /\ "RESTART" \notin Mine(y).state /\ ~y.conn.stopped
    BY <1>1, <1>2
  <2>2. Len(Mine(y).in) = UIP_SOCKET_NUMPACKETS - 1 <=> UIP_SOCKET_NUMPACKETS = 1
    BY <2>1, TcpAssumption
  <2>3. x.memory \in BOOLEAN /\ taken \in BOOLEAN
    BY StreamParts
  <2> QED BY <1>8, <1>9, <2>1, <2>2, <2>3 DEF StoppedAfter
<1>13. z.keep = (taken /\ ~x.memory)
  <2>1. z.keep = (y.keep \/ (Takes(y) /\ ~Stores(y)))
    BY <1>6 DEF Tells
  <2>2. ~y.keep
    BY <1>1
  <2>3. x.memory \in BOOLEAN /\ taken \in BOOLEAN /\ y.keep \in BOOLEAN
    BY <1>1, StreamParts
  <2> QED BY <1>8, <1>9, <2>1, <2>2, <2>3
<1>14. z \in StreamContexts /\ SameSide(x.conn, z.conn) /\ Mine(z).in = InAfter(y)
  BY <1>1, <1>6 DEF Tells, SameSide, SameConn
<1>15. /\ z.conn.state = x.conn.state /\ z.conn.app = 0 /\ z.conn.len = x.conn.len
       /\ Mine(z).out = <<>> /\ Mine(z).state = {"CONNECTED"} /\ Bare(z.sends)
  BY <1>1, <1>7, <1>10 DEF EndsAsItWas, SameConn
<1>16. z.conn.stopped = StoppedAfter(y)
  <2>1. z.conn.stopped = (StoppedAfter(y) \/ "CLOSE" \in Mine(y).state)
    BY <1>7 DEF EndsAsItWas
  <2>2. "CLOSE" \notin Mine(y).state
    BY <1>2
  <2>3. StoppedAfter(y) \in BOOLEAN
    BY <1>12
  <2> QED BY <2>1, <2>2, <2>3
<1> QED BY <1>11, <1>12, <1>13, <1>14, <1>15, <1>16

\* A segment establishes the connection.
Establishes(x, seg, z) ==
  /\ x.conn.state \in {"SYN_RCVD", "SYN_SENT"} /\ Acks(x, seg)
  /\ z \in StreamContexts
  /\ z.conn.state = "ESTABLISHED" /\ z.conn.app = 0 /\ z.conn.remote = x.conn.remote
  /\ z.conn.snd_nxt = seg.ack /\ z.conn.len = 0
  /\ z.conn.mss \in {x.conn.mss, UIP_TCP_MSS}
  /\ z.conn.initialmss \in {x.conn.initialmss, UIP_TCP_MSS}
  /\ Mine(z).out = <<>> /\ Mine(z).state = {"CONNECTED"}
  /\ Bare(z.sends)
  /\ \/ /\ x.conn.state = "SYN_SENT" /\ "SYN" \in seg.flags
        /\ z.conn.rcv_nxt = (seg.seq + 1) % SeqSize
        /\ Mine(z).in = <<>> /\ ~z.keep /\ ~z.conn.stopped
     \/ /\ x.conn.state = "SYN_RCVD"
        /\ z.conn.rcv_nxt = (x.conn.rcv_nxt + Len(seg.data)) % SeqSize
        /\ Mine(z).in = IF seg.data # <<>> /\ x.memory THEN <<seg.data>> ELSE <<>>
        /\ z.keep = (seg.data # <<>> /\ ~x.memory)
        /\ z.conn.stopped = (seg.data # <<>> /\ (~x.memory \/ UIP_SOCKET_NUMPACKETS = 1))

\* A context that only the acknowledgement has touched.
LEMMA AckedParallel ==
  ASSUME NEW x, Starts(x), NEW seg, Proper(seg), NEW y, y = CheckAck(x, seg)
  PROVE  /\ Parallel(x, y) /\ y.conn.state = x.conn.state /\ y.conn.stopped = x.conn.stopped
         /\ y.conn.rcv_nxt = x.conn.rcv_nxt
         /\ IF Acks(x, seg)
              THEN y.conn.snd_nxt = seg.ack /\ y.conn.len = 0 /\ y.flags = {"ACKDATA"}
              ELSE y.conn.snd_nxt = x.conn.snd_nxt /\ y.conn.len = x.conn.len /\ y.flags = {}
         /\ y.slen = 0 /\ y.sends = NULL
<1>1. /\ SameSock(x, y) /\ y.conn = AckedConn(x, seg) /\ AckedConn(x, seg) \in StreamConn
      /\ y.flags = (IF Acks(x, seg) THEN {"ACKDATA"} ELSE {})
      /\ y.slen = 0 /\ y.sends = NULL
  BY CheckAckIs
<1>2. x.conn \in StreamConn
  BY StreamParts DEF Starts
<1>3. /\ AckedConn(x, seg).state = x.conn.state /\ AckedConn(x, seg).stopped = x.conn.stopped
      /\ AckedConn(x, seg).rcv_nxt = x.conn.rcv_nxt /\ AckedConn(x, seg).app = x.conn.app
      /\ AckedConn(x, seg).remote = x.conn.remote
      /\ AckedConn(x, seg).mss = x.conn.mss /\ AckedConn(x, seg).initialmss = x.conn.initialmss
      /\ IF Acks(x, seg)
           THEN AckedConn(x, seg).snd_nxt = seg.ack /\ AckedConn(x, seg).len = 0
           ELSE AckedConn(x, seg).snd_nxt = x.conn.snd_nxt /\ AckedConn(x, seg).len = x.conn.len
  BY <1>2 DEF AckedConn, StreamConn
<1> QED BY <1>1, <1>3 DEF Parallel

\* A connection that we have not opened yet.
LEMMA SynRcvdIs ==
  ASSUME NEW x, Starts(x), x.conn.app = NULL, ~x.conn.stopped, x.conn.state = "SYN_RCVD",
         Mine(x) = NewSock, NEW seg, Proper(seg), x.data = seg.data,
         NEW y, y = CheckAck(x, seg), NEW z, z = SynRcvd(y, seg)
  PROVE  Winds(x, z) \/ Establishes(x, seg, z)
<1>1. /\ Parallel(x, y) /\ y.conn.state = x.conn.state /\ y.conn.stopped = x.conn.stopped
      /\ y.conn.rcv_nxt = x.conn.rcv_nxt
      /\ IF Acks(x, seg)
           THEN y.conn.snd_nxt = seg.ack /\ y.conn.len = 0 /\ y.flags = {"ACKDATA"}
           ELSE y.conn.snd_nxt = x.conn.snd_nxt /\ y.conn.len = x.conn.len /\ y.flags = {}
      /\ y.slen = 0 /\ y.sends = NULL
  BY AckedParallel
<1>2. CASE ~Acks(x, seg)
  <2>1. z = y
    BY <1>1, <1>2 DEF SynRcvd, IsAcked
  <2> QED BY <1>1, <1>2, <2>1 DEF Winds, Bare, Closing
<1>3. CASE Acks(x, seg)
  <2> DEFINE a == SetState(y, "ESTABLISHED")
             b == Received(a, Len(seg.data))
             f == {"CONNECTED"} \cup DataFlag(seg)
             c == [b EXCEPT !.flags = f]
             taken == seg.data # <<>>
  <2>1. z = AppSend(AppCall(c))
    BY <1>1, <1>3 DEF SynRcvd, IsAcked
  <2>2. f \in SUBSET EventFlags /\ f \subseteq {"CONNECTED", "NEWDATA"} /\ "CONNECTED" \in f
        /\ ("NEWDATA" \in f <=> taken) /\ Len(seg.data) \in Nat
    BY DEF DataFlag, EventFlags, Proper
  <2>3. "ESTABLISHED" \in TcpStates /\ y \in StreamContexts
    BY <1>1 DEF TcpStates, Parallel, SameSock
  <2>4. a = SetState(y, "ESTABLISHED") /\ b = Received(a, Len(seg.data)) /\ c = [b EXCEPT !.flags = f]
    OBVIOUS
  <2> HIDE DEF a, b, c, f
  <2>5. /\ Parallel(y, a) /\ a.sends = y.sends
        /\ a.conn.state = "ESTABLISHED" /\ ~a.conn.stopped
        /\ a.conn.rcv_nxt = y.conn.rcv_nxt /\ a.conn.snd_nxt = y.conn.snd_nxt
        /\ a.conn.len = y.conn.len
    BY <2>3, <2>4, SetStateIs
  <2>6. a \in StreamContexts
    BY <2>5 DEF Parallel, SameSock
  <2>7. /\ Parallel(a, b) /\ b.sends = a.sends
        /\ b.conn.state = a.conn.state /\ b.conn.stopped = a.conn.stopped
        /\ b.conn.rcv_nxt = (a.conn.rcv_nxt + Len(seg.data)) % SeqSize
        /\ b.conn.snd_nxt = a.conn.snd_nxt /\ b.conn.len = a.conn.len
    BY <2>2, <2>4, <2>6, ReceivedIs
  <2>8. b \in StreamContexts
    BY <2>7 DEF Parallel, SameSock
  <2>9. /\ SameSock(b, c) /\ c.conn = b.conn /\ c.flags = f /\ c.sends = b.sends /\ c.slen = b.slen
    BY <2>2, <2>4, <2>8 DEF StreamContexts, SameSock, Mine
  <2>10. c.slen = 0
    <3>1. a.slen = y.slen
      BY <2>3, <2>4 DEF SetState, StreamContexts
    <3>2. b.slen = a.slen
      BY <2>4, <2>6 DEF Received, StreamContexts
    <3> QED BY <1>1, <2>9, <3>1, <3>2
  <2>11. Parallel(x, b)
    BY <1>1, <2>5, <2>7, ParallelOn
  <2>12. /\ c \in StreamContexts /\ c.conn.app = NULL /\ Mine(c) = NewSock
         /\ c.data = seg.data /\ c.memory = x.memory /\ ~c.keep /\ ~c.conn.stopped
    BY <2>5, <2>7, <2>9, <2>11 DEF Parallel, SameSock, Starts
  <2>13. Bare(c.sends)
    BY <1>1, <2>5, <2>7, <2>9 DEF Bare
  <2>14. taken = ("NEWDATA" \in c.flags /\ c.data # <<>>)
    BY <2>2, <2>9, <2>12
  <2> HIDE DEF taken
  <2>15. c.flags \subseteq {"CONNECTED", "NEWDATA"} /\ "CONNECTED" \in c.flags
    BY <2>2, <2>9
  <2>16. /\ z \in StreamContexts /\ SameSide(c.conn, z.conn) /\ z.conn.state = c.conn.state
         /\ z.conn.app = 0 /\ z.conn.len = c.conn.len
         /\ Mine(z).out = <<>> /\ Mine(z).state = {"CONNECTED"}
         /\ Mine(z).in = (IF taken /\ c.memory THEN <<c.data>> ELSE <<>>)
         /\ z.keep = (taken /\ ~c.memory)
         /\ z.conn.stopped = (taken /\ (~c.memory \/ UIP_SOCKET_NUMPACKETS = 1))
         /\ Bare(z.sends)
    BY <2>1, <2>10, <2>12, <2>13, <2>14, <2>15, OpenedIs
  <2>17. /\ z.conn.state = "ESTABLISHED" /\ z.conn.remote = x.conn.remote
         /\ z.conn.snd_nxt = seg.ack /\ z.conn.len = 0
         /\ z.conn.rcv_nxt = (x.conn.rcv_nxt + Len(seg.data)) % SeqSize
         /\ z.conn.mss = x.conn.mss /\ z.conn.initialmss = x.conn.initialmss
    BY <1>1, <1>3, <2>5, <2>7, <2>9, <2>11, <2>16 DEF SameSide, Parallel
  <2> QED BY <1>3, <2>12, <2>16, <2>17 DEF Establishes, taken
<1> QED BY <1>2, <1>3

\* A connection that we open.
LEMMA SynSentIs ==
  ASSUME NEW x, Starts(x), x.conn.app = NULL, ~x.conn.stopped, x.conn.state = "SYN_SENT",
         Mine(x) = NewSock, NEW seg, Proper(seg), x.data = seg.data,
         NEW y, y = CheckAck(x, seg), NEW z, z = SynSent(y, seg)
  PROVE  Winds(x, z) \/ Establishes(x, seg, z)
<1>1. /\ Parallel(x, y) /\ y.conn.state = x.conn.state /\ y.conn.stopped = x.conn.stopped
      /\ y.conn.rcv_nxt = x.conn.rcv_nxt
      /\ IF Acks(x, seg)
           THEN y.conn.snd_nxt = seg.ack /\ y.conn.len = 0 /\ y.flags = {"ACKDATA"}
           ELSE y.conn.snd_nxt = x.conn.snd_nxt /\ y.conn.len = x.conn.len /\ y.flags = {}
      /\ y.slen = 0 /\ y.sends = NULL
  BY AckedParallel
<1>0. y \in StreamContexts /\ y.conn \in StreamConn
  BY <1>1, StreamParts DEF Parallel, SameSock
<1>2. CASE ~(Acks(x, seg) /\ seg.flags = {"SYN", "ACK"})
  <2> DEFINE f == {"ABORT"}
             a == [y EXCEPT !.flags = f]
             b == SetState(AppCall(a), "CLOSED")
             s == ResetSegment(seg)
  <2>1. z = [b EXCEPT !.sends = s]
    BY <1>1, <1>2 DEF SynSent, IsAcked
  <2>2. f \in SUBSET EventFlags /\ "CLOSED" \in TcpStates
    BY DEF EventFlags, TcpStates
  <2>3. s \in Segs /\ Bare(s)
    BY DEF ResetSegment, Segs, Proper, Bare
  <2>4. a = [y EXCEPT !.flags = f] /\ b = SetState(AppCall(a), "CLOSED")
    OBVIOUS
  <2>5. "CONNECTED" \notin f
    OBVIOUS
  <2> HIDE DEF a, b, f, s
  <2>6. SameSock(y, a) /\ a.conn = y.conn /\ a.flags = f
    BY <1>0, <2>2, <2>4 DEF StreamContexts, SameSock, Mine
  <2>7. AppCall(a) = a
    <3>1. a.conn.app = NULL /\ "CONNECTED" \notin a.flags
      BY <1>1, <2>5, <2>6 DEF Parallel
    <3> QED BY <3>1, AppCallNone
  <2>8. a \in StreamContexts /\ b = SetState(a, "CLOSED")
    BY <2>4, <2>6, <2>7 DEF SameSock
  <2>9. Parallel(a, b) /\ b.conn.state = "CLOSED" /\ ~b.conn.stopped
    BY <2>2, <2>8, SetStateIs
  <2>10. b \in StreamContexts
    BY <2>9 DEF Parallel, SameSock
  <2>11. SameSock(b, z) /\ z.conn = b.conn /\ z.sends = s
    BY <2>1, <2>3, <2>10, SendsIs
  <2>12. Parallel(x, z)
    <3>1. Parallel(y, a)
      BY <1>0, <2>6 DEF Parallel
    <3>2. Parallel(b, z)
      BY <2>9, <2>11 DEF Parallel
    <3> QED BY <1>1, <2>9, <3>1, <3>2, ParallelOn
  <2> QED BY <2>3, <2>9, <2>11, <2>12 DEF Winds, Closing
<1>3. CASE Acks(x, seg) /\ seg.flags = {"SYN", "ACK"}
  <2> DEFINE mss == Lesser(seg.mss, UIP_TCP_MSS)
             a == SetState(y, "ESTABLISHED")
             f == {"CONNECTED", "NEWDATA"}
             r == (seg.seq + 1) % SeqSize
             d == [a.conn EXCEPT !.rcv_nxt = r, !.mss = mss, !.initialmss = mss]
             c == [a EXCEPT !.conn = d, !.flags = f, !.data = <<>>]
  <2>0. mss = UIP_TCP_MSS /\ mss \in Nat /\ r \in 0 .. SeqSize - 1
    <3>1. mss = UIP_TCP_MSS
      BY TcpAssumption DEF Lesser, Proper
    <3>2. r \in 0 .. SeqSize - 1
      <4> DEFINE m == seg.seq + 1
      <4>1. m \in Nat
        BY TcpAssumption DEF Proper
      <4> HIDE DEF m
      <4>2. m % SeqSize \in 0 .. SeqSize - 1
        BY <4>1, InRange
      <4> QED BY <4>2 DEF m
    <3> QED BY <3>1, <3>2, TcpAssumption
  <2>1. z = AppSend(AppCall([a EXCEPT !.conn.rcv_nxt = r, !.conn.mss = mss, !.conn.initialmss = mss,
                                      !.flags = f, !.data = <<>>]))
    BY <1>1, <1>3 DEF SynSent, IsAcked
  <2>2. f \in SUBSET EventFlags /\ f \subseteq {"CONNECTED", "NEWDATA"} /\ "CONNECTED" \in f
        /\ "ESTABLISHED" \in TcpStates
    BY DEF EventFlags, TcpStates
  <2>4. /\ a = SetState(y, "ESTABLISHED") /\ c = [a EXCEPT !.conn = d, !.flags = f, !.data = <<>>]
        /\ d = [a.conn EXCEPT !.rcv_nxt = r, !.mss = mss, !.initialmss = mss]
    OBVIOUS
  <2> HIDE DEF a, c, d, f, mss, r
  <2>5. /\ Parallel(y, a) /\ a.sends = y.sends
        /\ a.conn.state = "ESTABLISHED" /\ ~a.conn.stopped
        /\ a.conn.snd_nxt = y.conn.snd_nxt /\ a.conn.len = y.conn.len
    BY <1>0, <2>2, <2>4, SetStateIs
  <2>6. a \in StreamContexts /\ a.conn \in StreamConn
    BY <2>5 DEF Parallel, SameSock
  <2>7. a.slen = y.slen
    BY <1>0, <2>4 DEF SetState, StreamContexts
  <2>8. /\ d \in StreamConn /\ d.state = a.conn.state /\ d.stopped = a.conn.stopped
        /\ d.app = a.conn.app /\ d.remote = a.conn.remote
        /\ d.snd_nxt = a.conn.snd_nxt /\ d.len = a.conn.len
        /\ d.rcv_nxt = r /\ d.mss = mss /\ d.initialmss = mss
    BY <2>0, <2>4, <2>6 DEF StreamConn
  <2>9. z = AppSend(AppCall(c))
    <3>1. [a EXCEPT !.conn.rcv_nxt = r, !.conn.mss = mss, !.conn.initialmss = mss,
                    !.flags = f, !.data = <<>>] = c
      <4>1. a.conn = [state |-> a.conn.state, stopped |-> a.conn.stopped, remote |-> a.conn.remote,
                      rcv_nxt |-> a.conn.rcv_nxt, snd_nxt |-> a.conn.snd_nxt, len |-> a.conn.len,
                      nrtx |-> a.conn.nrtx, mss |-> a.conn.mss, initialmss |-> a.conn.initialmss,
                      app |-> a.conn.app]
        BY <2>6 DEF StreamConn
      <4>2. a = [conn |-> a.conn, socks |-> a.socks, used |-> a.used, flags |-> a.flags,
                 slen |-> a.slen, data |-> a.data, packet |-> a.packet, keep |-> a.keep,
                 sends |-> a.sends, memory |-> a.memory]
        BY <2>6 DEF StreamContexts
      <4> QED BY <2>4, <4>1, <4>2
    <3> QED BY <2>1, <3>1
  <2>10. /\ c \in StreamContexts /\ c.conn = d /\ Mine(c) = Mine(a) /\ c.flags = f /\ c.data = <<>>
         /\ c.memory = a.memory /\ c.keep = a.keep /\ c.sends = a.sends /\ c.slen = a.slen
    <3>1. <<>> \in Seq(Nat)
      OBVIOUS
    <3> QED BY <2>2, <2>4, <2>6, <2>8, <3>1, ZenonT(80) DEF StreamContexts, Mine
  <2>11. Parallel(x, a)
    BY <1>1, <2>5, ParallelOn
  <2>12. /\ c.conn.app = NULL /\ Mine(c) = NewSock /\ ~c.keep /\ ~c.conn.stopped
    BY <2>5, <2>8, <2>10, <2>11 DEF Parallel, SameSock, Starts
  <2>13. Bare(c.sends) /\ c.slen = 0
    BY <1>1, <2>5, <2>7, <2>10 DEF Bare
  <2> DEFINE taken == "NEWDATA" \in c.flags /\ c.data # <<>>
  <2>14. ~taken
    BY <2>10
  <2>15. c.flags \subseteq {"CONNECTED", "NEWDATA"} /\ "CONNECTED" \in c.flags
    BY <2>2, <2>10
  <2>18. taken = ("NEWDATA" \in c.flags /\ c.data # <<>>)
    OBVIOUS
  <2> HIDE DEF taken
  <2>16. /\ z \in StreamContexts /\ SameSide(c.conn, z.conn) /\ z.conn.state = c.conn.state
         /\ z.conn.app = 0 /\ z.conn.len = c.conn.len
         /\ Mine(z).out = <<>> /\ Mine(z).state = {"CONNECTED"}
         /\ Mine(z).in = (IF taken /\ c.memory THEN <<c.data>> ELSE <<>>)
         /\ z.keep = (taken /\ ~c.memory)
         /\ z.conn.stopped = (taken /\ (~c.memory \/ UIP_SOCKET_NUMPACKETS = 1))
         /\ Bare(z.sends)
    BY <2>9, <2>10, <2>12, <2>13, <2>15, <2>18, OpenedIs
  <2>17. /\ z.conn.state = "ESTABLISHED" /\ z.conn.remote = x.conn.remote
         /\ z.conn.snd_nxt = seg.ack /\ z.conn.len = 0 /\ z.conn.rcv_nxt = r
         /\ z.conn.mss = UIP_TCP_MSS /\ z.conn.initialmss = UIP_TCP_MSS
    BY <1>1, <1>3, <2>0, <2>5, <2>8, <2>10, <2>11, <2>16 DEF SameSide, Parallel
  <2>19. Mine(z).in = <<>> /\ ~z.keep /\ ~z.conn.stopped
    BY <2>14, <2>16
  <2> QED BY <1>3, <2>16, <2>17, <2>19 DEF Establishes, r
<1> QED BY <1>2, <1>3

\* The states of a connection without a socket that is not being opened.
LEMMA ClosingIs ==
  ASSUME NEW x, Starts(x), x.conn.app = NULL, ~x.conn.stopped,
         NEW seg, Proper(seg), NEW y, y = CheckAck(x, seg),
         NEW z, \/ z = LastAck(y) /\ x.conn.state = "LAST_ACK"
                \/ z = FinWait1(y, seg) /\ x.conn.state = "FIN_WAIT_1"
                \/ z = FinWait2(y, seg) /\ x.conn.state = "FIN_WAIT_2"
                \/ z = Send(y, {"ACK"}) /\ x.conn.state = "TIME_WAIT"
                \/ z = (IF IsAcked(y) THEN SetState(y, "TIME_WAIT") ELSE y)
                     /\ x.conn.state = "CLOSING"
                \/ z = y /\ x.conn.state = "CLOSED"
  PROVE  Winds(x, z)
<1>1. /\ Parallel(x, y) /\ y.conn.state = x.conn.state /\ y.conn.stopped = x.conn.stopped
      /\ y.flags \in {{}, {"ACKDATA"}} /\ y.sends = NULL
  BY AckedParallel
<1>2. y \in StreamContexts /\ y.conn.app = NULL /\ ~y.conn.stopped /\ Bare(y.sends)
  BY <1>1 DEF Parallel, SameSock, Bare
<1>3. CASE z = y /\ x.conn.state \in {"LAST_ACK", "CLOSING", "CLOSED"}
  BY <1>1, <1>2, <1>3 DEF Winds, Closing
<1>4. CASE z = LastAck(y) /\ x.conn.state = "LAST_ACK" /\ z # y
  <2> DEFINE a == SetState(y, "CLOSED")
             f == {"CLOSE"}
             c == [a EXCEPT !.flags = f]
  <2>1. z = AppCall(c)
    BY <1>4 DEF LastAck
  <2>2. f \in SUBSET EventFlags /\ "CONNECTED" \notin f /\ "CLOSED" \in TcpStates
    BY DEF EventFlags, TcpStates
  <2>3. a = SetState(y, "CLOSED") /\ c = [a EXCEPT !.flags = f]
    OBVIOUS
  <2> HIDE DEF a, c, f
  <2>4. Parallel(y, a) /\ a.sends = y.sends /\ a.conn.state = "CLOSED" /\ ~a.conn.stopped
    BY <1>2, <2>2, <2>3, SetStateIs
  <2>5. a \in StreamContexts /\ a.conn \in StreamConn
    BY <2>4 DEF Parallel, SameSock
  <2>6. SameSock(a, c) /\ c.conn = a.conn /\ c.flags = f /\ c.sends = a.sends
    BY <2>2, <2>3, <2>5 DEF StreamContexts, SameSock, Mine
  <2>7. z = c
    <3>1. c.conn.app = NULL /\ "CONNECTED" \notin c.flags
      BY <1>2, <2>2, <2>4, <2>6 DEF Parallel
    <3> QED BY <2>1, <3>1, AppCallNone
  <2>8. Parallel(a, z)
    BY <2>5, <2>6, <2>7 DEF Parallel
  <2>9. Parallel(x, z)
    BY <1>1, <2>4, <2>8, ParallelOn
  <2> QED BY <1>2, <1>4, <2>4, <2>6, <2>7, <2>9 DEF Winds, Closing
<1>5. CASE \/ z = FinWait1(y, seg) /\ x.conn.state = "FIN_WAIT_1"
           \/ z = FinWait2(y, seg) /\ x.conn.state = "FIN_WAIT_2"
  <2>1. /\ Parallel(y, z) /\ ~z.conn.stopped /\ z.conn.state \in Closing /\ Bare(z.sends)
    BY <1>1, <1>2, <1>5, FinWaitIs
  <2>2. Parallel(x, z)
    BY <1>1, <2>1, ParallelOn
  <2> QED BY <1>5, <2>1, <2>2 DEF Winds, Closing
<1>6. CASE z = Send(y, {"ACK"}) /\ x.conn.state = "TIME_WAIT"
  <2>1. /\ SameSock(y, z) /\ z.conn = y.conn /\ z.sends.flags = {"ACK"} /\ z.sends.data = <<>>
    BY <1>2, <1>6, SendIs
  <2>2. Parallel(y, z)
    BY <1>1, <2>1 DEF Parallel
  <2>3. Parallel(x, z)
    BY <1>1, <2>2, ParallelOn
  <2> QED BY <1>1, <1>2, <1>6, <2>1, <2>3 DEF Winds, Closing, Bare
<1>7. CASE z = SetState(y, "TIME_WAIT") /\ x.conn.state = "CLOSING"
  <2>1. "TIME_WAIT" \in TcpStates
    BY DEF TcpStates
  <2>2. Parallel(y, z) /\ z.sends = y.sends /\ z.conn.state = "TIME_WAIT" /\ ~z.conn.stopped
    BY <1>2, <1>7, <2>1, SetStateIs
  <2>3. Parallel(x, z)
    BY <1>1, <2>2, ParallelOn
  <2> QED BY <1>2, <1>7, <2>2, <2>3 DEF Winds, Closing
<1> QED BY <1>3, <1>4, <1>5, <1>6, <1>7

\* A segment that is taken for data, SYN or FIN has the next sequence number.
InOrder(x, seg) ==
  seg.data # <<>> \/ seg.flags \cap {"SYN", "FIN"} # {} => seg.seq = x.conn.rcv_nxt

\* A connection that a segment may find.
Findable(x) ==
  /\ Starts(x)
  /\ x.conn.state = "ESTABLISHED" <=> x.conn.app = 0
  /\ x.conn.stopped => x.conn.app = 0
  /\ Full(Mine(x).out)
  /\ x.conn.state \in {"SYN_RCVD", "SYN_SENT"} => Mine(x) = NewSock

\* A segment that is not in order.
LEMMA UnorderedIs ==
  ASSUME NEW x, Findable(x), NEW seg, Proper(seg), NEW z, z = Send(x, {"ACK"})
  PROVE  IF x.conn.app = 0 THEN Idles(x, seg, z) ELSE Winds(x, z)
<1>1. x \in StreamContexts /\ x.conn \in StreamConn /\ ~x.keep
  BY StreamParts DEF Findable, Starts
<1>2. /\ SameSock(x, z) /\ z.conn = x.conn /\ z.sends.flags = {"ACK"} /\ z.sends.data = <<>>
  BY <1>1, SendIs
<1>3. Bare(z.sends)
  BY <1>2 DEF Bare
<1>4. CASE x.conn.app = 0
  <2>1. /\ z \in StreamContexts /\ Mine(z) = Mine(x) /\ ~z.keep
    BY <1>1, <1>2 DEF SameSock
  <2> QED BY <1>2, <1>3, <1>4, <2>1 DEF Idles
<1>5. CASE x.conn.app # 0
  <2>1. Parallel(x, z) /\ ~z.conn.stopped
    BY <1>1, <1>2, <1>5 DEF Parallel, Findable
  <2>2. x.conn.state \in TcpStates
    BY <1>1 DEF StreamConn
  <2> QED BY <1>2, <1>3, <1>5, <2>1, <2>2 DEF Winds, Closing
<1> QED BY <1>4, <1>5

\* What becomes of a connection that a segment finds.
LEMMA FoundIs ==
  ASSUME NEW x, Findable(x), NEW seg, Proper(seg), x.data = seg.data,
         NEW z, z = Found(x, seg)
  PROVE  IF x.conn.app = 0
           THEN \/ Idles(x, seg, z)
                \/ InOrder(x, seg) /\ (Hears(x, seg, z) \/ FinsFirst(x, seg, z)
                                         \/ FinsBack(x, seg, z))
           ELSE \/ Winds(x, z)
                \/ Establishes(x, seg, z) /\ (x.conn.state = "SYN_RCVD" => InOrder(x, seg))
<1> DEFINE y == CheckAck(x, seg)
<1>0. Starts(x) /\ x \in StreamContexts /\ x.conn \in StreamConn /\ "RST" \notin seg.flags
  BY StreamParts DEF Findable, Starts, Proper
<1>1. CASE OutOfOrder(x.conn, seg)
  <2>1. z = Send(x, {"ACK"})
    BY <1>0, <1>1 DEF Found
  <2> QED BY <2>1, UnorderedIs
<1>2. CASE ~OutOfOrder(x.conn, seg)
  <2>1. z = CASE y.conn.state = "SYN_RCVD" -> SynRcvd(y, seg)
            [] y.conn.state = "SYN_SENT" -> SynSent(y, seg)
            [] y.conn.state = "ESTABLISHED" -> Established(y, seg)
            [] y.conn.state = "LAST_ACK" -> LastAck(y)
            [] y.conn.state = "FIN_WAIT_1" -> FinWait1(y, seg)
            [] y.conn.state = "FIN_WAIT_2" -> FinWait2(y, seg)
            [] y.conn.state = "TIME_WAIT" -> Send(y, {"ACK"})
            [] y.conn.state = "CLOSING" -> IF IsAcked(y) THEN SetState(y, "TIME_WAIT") ELSE y
            [] y.conn.state = "CLOSED" -> y
    BY <1>0, <1>2 DEF Found
  <2>2. y.conn.state = x.conn.state /\ y.conn.stopped = x.conn.stopped
    BY <1>0, AckedParallel
  <2>3. x.conn.state # "SYN_SENT" => InOrder(x, seg)
    BY <1>2 DEF OutOfOrder, InOrder
  <2>4. y = CheckAck(x, seg)
    OBVIOUS
  <2> HIDE DEF y
  <2>5. CASE x.conn.app = 0
    <3>1. x.conn.state = "ESTABLISHED" /\ Full(Mine(x).out)
      BY <2>5 DEF Findable
    <3>2. z = Established(y, seg)
      BY <2>1, <2>2, <3>1
    <3>3. CASE "FIN" \in seg.flags /\ ~y.conn.stopped
      BY <1>0, <2>3, <2>4, <2>5, <3>1, <3>2, <3>3, FinHeard
    <3>4. CASE ~("FIN" \in seg.flags /\ ~y.conn.stopped)
      BY <1>0, <2>3, <2>4, <2>5, <3>1, <3>2, <3>4, DataHeard
    <3> QED BY <3>3, <3>4
  <2>6. CASE x.conn.app # 0
    <3>1. x.conn.app = NULL /\ ~x.conn.stopped /\ x.conn.state # "ESTABLISHED"
      BY <1>0, <2>6 DEF Findable, StreamConn
    <3>2. x.conn.state \in TcpStates
      BY <1>0 DEF StreamConn
    <3>3. CASE x.conn.state = "SYN_RCVD"
      <4>1. z = SynRcvd(y, seg) /\ Mine(x) = NewSock
        BY <2>1, <2>2, <3>3 DEF Findable
      <4> QED BY <1>0, <2>3, <2>4, <2>6, <3>1, <3>3, <4>1, SynRcvdIs
    <3>4. CASE x.conn.state = "SYN_SENT"
      <4>1. z = SynSent(y, seg) /\ Mine(x) = NewSock
        BY <2>1, <2>2, <3>4 DEF Findable
      <4> QED BY <1>0, <2>4, <2>6, <3>1, <3>4, <4>1, SynSentIs
    <3>5. CASE x.conn.state \notin {"SYN_RCVD", "SYN_SENT"}
      <4>1. \/ z = LastAck(y) /\ x.conn.state = "LAST_ACK"
            \/ z = FinWait1(y, seg) /\ x.conn.state = "FIN_WAIT_1"
            \/ z = FinWait2(y, seg) /\ x.conn.state = "FIN_WAIT_2"
            \/ z = Send(y, {"ACK"}) /\ x.conn.state = "TIME_WAIT"
            \/ z = (IF IsAcked(y) THEN SetState(y, "TIME_WAIT") ELSE y)
                 /\ x.conn.state = "CLOSING"
            \/ z = y /\ x.conn.state = "CLOSED"
        BY <2>1, <2>2, <3>1, <3>2, <3>5 DEF TcpStates
      <4>2. Winds(x, z)
        BY <1>0, <2>4, <3>1, <4>1, ClosingIs
      <4> QED BY <2>6, <4>2
    <3> QED BY <3>3, <3>4, <3>5
  <2> QED BY <2>5, <2>6
<1> QED BY <1>1, <1>2
-----------------------------------------------------------------------------
(* The timers *)

\* The first block is sent, once more or for the first time.
Resends(x, z) ==
  /\ z \in StreamContexts /\ SameSide(x.conn, z.conn)
  /\ z.conn.state = "ESTABLISHED" /\ z.conn.app = 0
  /\ z.conn.stopped = (x.conn.stopped /\ "RESTART" \notin Mine(x).state)
  /\ z.conn.len = IF z.slen > 0 /\ x.conn.len = 0 THEN Lesser(z.slen, x.conn.mss) ELSE x.conn.len
  /\ Mine(z).in = Mine(x).in /\ Mine(z).state = Mine(x).state \ {"RESTART"}
  /\ Mine(x).out # <<>> /\ Closed1(Mine(x).out, z.slen, Mine(z).out)
  /\ Utterance(z) /\ ~z.keep

\* The connection times out.
Dies(x, z) ==
  /\ z \in StreamContexts
  /\ z.conn.state = "CLOSED" /\ z.conn.app = NULL /\ ~z.conn.stopped
  /\ z.conn.remote = x.conn.remote
  /\ Mine(z).in = Mine(x).in /\ Mine(z).out = <<>>
  /\ Mine(z).state = IF Mine(x).in = <<>> THEN {}
                     ELSE (Mine(x).state \ {"RESTART"}) \cup {"REMOTECLOSED"}
  /\ Bare(z.sends) /\ ~z.keep

\* Without data nothing is taken.
LEMMA NothingTaken ==
  ASSUME NEW x \in StreamContexts, x.data = <<>>, "ACKDATA" \notin x.flags
  PROVE  /\ ~Takes(x) /\ ~Stores(x) /\ InAfter(x) = Mine(x).in /\ OutAfter(x) = Mine(x).out
         /\ StoppedAfter(x) = (x.conn.stopped /\ "RESTART" \notin Mine(x).state)
<1>1. ~Takes(x) /\ ~Stores(x)
  BY DEF Takes, Stores
<1>2. InAfter(x) = Mine(x).in /\ OutAfter(x) = Mine(x).out
  BY <1>1 DEF InAfter, OutAfter
<1>3. x.conn.stopped \in BOOLEAN
  BY StreamParts DEF StreamConn
<1>4. StoppedAfter(x) = (x.conn.stopped /\ "RESTART" \notin Mine(x).state)
  BY <1>1, <1>3 DEF StoppedAfter
<1> QED BY <1>1, <1>2, <1>4

\* A poll: the callback sends the first block, or it is told of nothing, as by a
\* segment that says nothing new.
LEMMA PollIs ==
  ASSUME NEW x, Starts(x), x.conn.app = 0, x.conn.state = "ESTABLISHED", x.conn.len = 0,
         Full(Mine(x).out), x.data = <<>>, NEW seg, seg.data = <<>>,
         NEW z, z = AppSend(AppCall([x EXCEPT !.flags = {"POLL"}]))
  PROVE  \/ Resends(x, z)
         \/ Hears(x, seg, z) \/ FinsFirst(x, seg, z)
<1> DEFINE f == {"POLL"}
           c == [x EXCEPT !.flags = f]
<1>1. x \in StreamContexts /\ x.conn \in StreamConn /\ x.slen = 0 /\ ~x.keep /\ Bare(x.sends)
  BY StreamParts DEF Starts, Bare
<1>2. f \in SUBSET EventFlags /\ f \cap {"POLL", "REXMIT"} # {} /\ f \cap {"CLOSE", "TIMEDOUT"} = {}
      /\ "ACKDATA" \notin f
  BY DEF EventFlags
<1>3. c = [x EXCEPT !.flags = f] /\ z = AppSend(AppCall(c))
  OBVIOUS
<1> HIDE DEF c, f
<1>4. /\ SameSock(x, c) /\ c.conn = x.conn /\ c.flags = f /\ c.sends = x.sends /\ c.slen = x.slen
  BY <1>1, <1>2, <1>3 DEF StreamContexts, SameSock, Mine
<1>5. /\ c \in StreamContexts /\ c.conn.app = 0 /\ Mine(c) = Mine(x) /\ c.data = <<>>
      /\ Full(Mine(c).out) /\ Bare(c.sends) /\ c.slen = 0 /\ ~c.keep
      /\ c.flags \cap {"CLOSE", "TIMEDOUT"} = {}
  BY <1>1, <1>2, <1>4 DEF SameSock
<1>6. /\ Tells(c, z)
      /\ IF c.flags \cap {"POLL", "REXMIT"} # {} /\ OutAfter(c) # <<>>
           THEN EndsWithBlock(c, z)
           ELSE EndsWithFin(c, z) \/ EndsAsItWas(c, z)
  BY <1>3, <1>5, TellIs
<1>7. /\ ~Takes(c) /\ ~Stores(c) /\ InAfter(c) = Mine(c).in /\ OutAfter(c) = Mine(c).out
      /\ StoppedAfter(c) = (c.conn.stopped /\ "RESTART" \notin Mine(c).state)
  BY <1>2, <1>4, <1>5, NothingTaken
<1>8. StateAfter(c) = Mine(x).state \ {"RESTART"}
  BY <1>5 DEF StateAfter
<1>9. /\ z \in StreamContexts /\ SameSide(x.conn, z.conn) /\ Mine(z).in = Mine(x).in /\ ~z.keep
  BY <1>4, <1>5, <1>6, <1>7 DEF Tells
<1>10. CASE EndsWithBlock(c, z) /\ Mine(x).out # <<>>
  BY <1>4, <1>5, <1>7, <1>8, <1>9, <1>10 DEF EndsWithBlock, Resends
<1>11. /\ ~TakesSeg(x, seg) /\ ~StoresSeg(x, seg) /\ ~Acks(x, seg)
  BY <1>1 DEF TakesSeg, StoresSeg, Acks, StreamConn
<1>12. /\ InSeg(x, seg) = Mine(x).in /\ AckedOut(x, seg) = Mine(x).out
       /\ AckedConn(x, seg) = x.conn
  BY <1>11 DEF InSeg, AckedOut, AckedConn
<1>13. Told(x, seg, z)
  <2>1. z.keep \in BOOLEAN
    BY <1>9, StreamParts
  <2>2. z.keep = (TakesSeg(x, seg) /\ ~StoresSeg(x, seg))
    BY <1>9, <1>11, <2>1
  <2> QED BY <1>9, <1>12, <2>2 DEF Told, SameSide
<1>14. CASE EndsWithFin(c, z)
  BY <1>5, <1>7, <1>12, <1>13, <1>14 DEF EndsWithFin, FinsFirst
<1>15. CASE EndsAsItWas(c, z)
  <2>1. z.conn.rcv_nxt = (x.conn.rcv_nxt + Len(seg.data)) % SeqSize
    <3>1. x.conn.rcv_nxt \in 0 .. SeqSize - 1 /\ Len(seg.data) = 0
      BY <1>1 DEF StreamConn
    <3>2. x.conn.rcv_nxt + Len(seg.data) = x.conn.rcv_nxt
      BY <3>1, TcpAssumption
    <3>3. x.conn.rcv_nxt \in Nat /\ x.conn.rcv_nxt < SeqSize /\ x.conn.rcv_nxt < 2 * SeqSize
      BY <3>1, TcpAssumption
    <3>4. x.conn.rcv_nxt % SeqSize = x.conn.rcv_nxt
      BY <3>3, Wraps
    <3>5. z.conn.rcv_nxt = x.conn.rcv_nxt
      BY <1>9 DEF SameSide
    <3> QED BY <3>2, <3>4, <3>5
  <2>2. z.conn.rcv_nxt = x.conn.rcv_nxt
    BY <1>9 DEF SameSide
  <2>3. /\ "CLOSE" \in Mine(x).state => AckedOut(x, seg) # <<>>
        /\ z.conn.state = "ESTABLISHED" /\ z.conn.app = 0 /\ z.conn.len = AckedConn(x, seg).len
        /\ z.conn.stopped = (StoppedAfter(c) \/ "CLOSE" \in Mine(x).state)
        /\ Mine(z).state = Mine(x).state \ {"RESTART"} /\ Mine(z).out = AckedOut(x, seg)
        /\ Bare(z.sends)
    BY <1>4, <1>5, <1>7, <1>8, <1>12, <1>15 DEF EndsAsItWas
  <2>4. StoppedAfter(c) = (x.conn.stopped /\ "RESTART" \notin Mine(x).state)
    BY <1>4, <1>5, <1>7
  <2>5. x.conn.stopped \in BOOLEAN
    BY <1>1 DEF StreamConn
  <2>6. z.conn.stopped =
         \/ "CLOSE" \in Mine(x).state
         \/ /\ "RESTART" \notin Mine(x).state
            /\ \/ x.conn.stopped \/ (TakesSeg(x, seg) /\ ~StoresSeg(x, seg))
               \/ StoresSeg(x, seg) /\ Len(Mine(x).in) = UIP_SOCKET_NUMPACKETS - 1
    BY <1>11, <2>3, <2>4, <2>5
  <2> QED BY <1>13, <2>1, <2>2, <2>3, <2>6 DEF Hears
<1> QED BY <1>5, <1>6, <1>7, <1>10, <1>14, <1>15

\* The end of a connection's patience.
LEMMA GivesUp ==
  ASSUME NEW x, Findable(x), x.data = <<>>,
         NEW z, z = Send(AppCall([SetState(x, "CLOSED") EXCEPT !.flags = {"TIMEDOUT"}]),
                         {"RST", "ACK"})
  PROVE  IF x.conn.app = 0 THEN Dies(x, z) ELSE Winds(x, z)
<1> DEFINE a == SetState(x, "CLOSED")
           f == {"TIMEDOUT"}
           c == [a EXCEPT !.flags = f]
           d == AppCall(c)
           g == {"RST", "ACK"}
<1>1. x \in StreamContexts /\ x.conn \in StreamConn /\ x.sends = NULL /\ ~x.keep
  BY StreamParts DEF Findable, Starts
<1>2. f \in SUBSET EventFlags /\ f \cap {"CLOSE", "TIMEDOUT"} # {} /\ "CONNECTED" \notin f
      /\ "ACKDATA" \notin f /\ "CLOSED" \in TcpStates
      /\ g \in SUBSET {"SYN", "ACK", "FIN", "RST"} /\ g \cap {"SYN", "FIN"} = {}
  BY DEF EventFlags, TcpStates
<1>3. a = SetState(x, "CLOSED") /\ c = [a EXCEPT !.flags = f] /\ d = AppCall(c)
      /\ z = Send(d, g)
  OBVIOUS
<1> HIDE DEF a, c, d, f, g
<1>4. Parallel(x, a) /\ a.sends = x.sends /\ a.conn.state = "CLOSED" /\ ~a.conn.stopped
  BY <1>1, <1>2, <1>3, SetStateIs
<1>5. a \in StreamContexts /\ a.conn \in StreamConn
  BY <1>4 DEF Parallel, SameSock
<1>6. SameSock(a, c) /\ c.conn = a.conn /\ c.flags = f /\ c.sends = a.sends
  BY <1>2, <1>3, <1>5 DEF StreamContexts, SameSock, Mine
<1>7. Parallel(x, c)
  <2>1. Parallel(a, c)
    BY <1>5, <1>6 DEF Parallel
  <2> QED BY <1>4, <2>1, ParallelOn
<1>8. c \in StreamContexts /\ c.data = <<>> /\ Mine(c) = Mine(x) /\ ~c.keep
  BY <1>1, <1>7 DEF Parallel, SameSock
<1>9. CASE x.conn.app # 0
  <2>1. d = c
    <3>1. c.conn.app = NULL
      BY <1>1, <1>7, <1>9 DEF Parallel, StreamConn
    <3>2. "CONNECTED" \notin c.flags
      BY <1>2, <1>6
    <3> QED BY <1>3, <3>1, <3>2, AppCallNone
  <2>2. /\ SameSock(c, z) /\ z.conn = c.conn /\ z.sends.flags = g
        /\ z.sends.data = <<>>
    <3>1. z = Send(c, g)
      BY <1>3, <2>1
    <3>2. c \in StreamContexts /\ g \in SUBSET {"SYN", "ACK", "FIN", "RST"}
      BY <1>2, <1>8
    <3> QED BY <3>1, <3>2, SendIs
  <2>3. Parallel(c, z)
    BY <1>7, <2>2 DEF Parallel
  <2>4. Parallel(x, z)
    BY <1>7, <2>3, ParallelOn
  <2> QED BY <1>2, <1>4, <1>6, <1>9, <2>2, <2>4 DEF Winds, Bare, Closing
<1>10. CASE x.conn.app = 0
  <2>1. c.conn.app = 0
    BY <1>7, <1>10 DEF Parallel
  <2>2. /\ Callback(c, d) /\ Mine(d).in = InAfter(c)
        /\ CallEnds(c, d) /\ d.keep = (c.keep \/ (Takes(c) /\ ~Stores(c)))
    BY <1>2, <1>3, <1>6, <1>8, <2>1, AppCallIs
  <2>3. /\ InAfter(c) = Mine(c).in /\ ~Takes(c)
        /\ StoppedAfter(c) = (c.conn.stopped /\ "RESTART" \notin Mine(c).state)
    BY <1>2, <1>6, <1>8, NothingTaken
  <2>4. d \in StreamContexts
    BY <2>2 DEF Callback
  <2>5. /\ SameSock(d, z) /\ z.conn = d.conn /\ z.sends.flags = g
        /\ z.sends.data = <<>>
    BY <1>2, <1>3, <2>4, SendIs
  <2>6. ~c.conn.stopped /\ c.conn.state = "CLOSED" /\ c.conn.remote = x.conn.remote
    BY <1>4, <1>6, <1>7 DEF Parallel
  <2>7. d.conn.state = "CLOSED" /\ d.conn.remote = x.conn.remote
    BY <2>2, <2>6 DEF Callback, SameConn
  <2>8. ~d.conn.stopped
    BY <2>2, <2>3, <2>6 DEF CallEnds
  <2>9. /\ d.conn.app = NULL /\ Mine(d).in = Mine(x).in /\ Mine(d).out = <<>>
        /\ Mine(d).state = IF Mine(x).in = <<>> THEN {}
                           ELSE (Mine(x).state \ {"RESTART"}) \cup {"REMOTECLOSED"}
    BY <1>8, <2>2, <2>3 DEF CallEnds, StateAfter
  <2>10. ~d.keep
    BY <1>8, <2>2, <2>3
  <2> QED BY <1>2, <1>10, <2>5, <2>7, <2>8, <2>9, <2>10 DEF Dies, Bare, SameSock
<1> QED BY <1>9, <1>10

\* One more try of a connection without a socket.
LEMMA SendsAgain ==
  ASSUME NEW x, Findable(x), x.conn.app # 0, NEW y, Parallel(x, y),
         y.conn.state = x.conn.state, y.conn.stopped = x.conn.stopped,
         y.conn.rcv_nxt = x.conn.rcv_nxt, y.conn.snd_nxt = x.conn.snd_nxt,
         y.conn.len = x.conn.len, y.sends = x.sends,
         NEW z, \/ z = Send(y, {"SYN", "ACK"}) /\ x.conn.state = "SYN_RCVD"
                \/ z = Send(y, {"SYN"}) /\ x.conn.state = "SYN_SENT"
                \/ z = Send(y, {"FIN", "ACK"}) /\ x.conn.state \in Closing \cup {"LAST_ACK"}
                \/ z = y /\ x.conn.state \notin {"SYN_RCVD", "SYN_SENT"}
  PROVE  Winds(x, z)
<1>1. /\ x \in StreamContexts /\ x.conn \in StreamConn /\ Bare(x.sends) /\ ~x.conn.stopped
      /\ y \in StreamContexts /\ x.conn.state # "ESTABLISHED" /\ x.conn.state \in TcpStates
  BY StreamParts DEF Findable, Starts, Bare, Parallel, SameSock, StreamConn
<1>2. CASE z = y /\ x.conn.state \notin {"SYN_RCVD", "SYN_SENT"}
  BY <1>1, <1>2 DEF Winds, Closing
<1>3. CASE \E f \in SUBSET {"SYN", "ACK", "FIN", "RST"} : z = Send(y, f)
  <2>1. PICK f \in SUBSET {"SYN", "ACK", "FIN", "RST"} : z = Send(y, f)
    BY <1>3
  <2>2. /\ SameSock(y, z) /\ z.conn = y.conn /\ z.sends.flags = f /\ z.sends.data = <<>>
        /\ z.sends.seq = y.conn.snd_nxt
    BY <1>1, <2>1, SendIs
  <2>3. Parallel(y, z) /\ Parallel(x, z)
    <3>1. Parallel(y, z)
      BY <2>2 DEF Parallel
    <3> QED BY <3>1, ParallelOn
  <2>4. ~z.conn.stopped
    BY <1>1, <2>2
  <2>5. CASE z = Send(y, {"SYN", "ACK"}) /\ x.conn.state = "SYN_RCVD"
    <3>1. z.sends.flags = {"SYN", "ACK"}
      BY <1>1, <2>5, SendIs
    <3> QED BY <2>2, <2>3, <2>4, <2>5, <3>1 DEF Winds, Closing
  <2>6. CASE z = Send(y, {"SYN"}) /\ x.conn.state = "SYN_SENT"
    <3>1. z.sends.flags = {"SYN"}
      BY <1>1, <2>6, SendIs
    <3> QED BY <2>2, <2>3, <2>4, <2>6, <3>1 DEF Winds, Closing
  <2>7. CASE z = Send(y, {"FIN", "ACK"}) /\ x.conn.state \in Closing \cup {"LAST_ACK"}
    <3>1. z.sends.flags = {"FIN", "ACK"}
      BY <1>1, <2>7, SendIs
    <3>2. IsFin(z.sends)
      BY <2>2, <3>1 DEF IsFin
    <3> QED BY <2>2, <2>3, <2>4, <2>7, <3>2 DEF Winds, Closing
  <2> QED BY <1>2, <2>5, <2>6, <2>7
<1> QED BY <1>2, <1>3

\* The retransmission timer.
LEMMA ExpiredIs ==
  ASSUME NEW x, Findable(x), x.data = <<>>, x.conn.len > 0,
         x.conn.app = 0 => Mine(x).out # <<>>,
         NEW z, z = Expired(x)
  PROVE  IF x.conn.app = 0 THEN Dies(x, z) \/ Resends(x, z) ELSE Winds(x, z)
<1>1. /\ x \in StreamContexts /\ x.conn \in StreamConn /\ Bare(x.sends) /\ x.sends = NULL
      /\ x.conn.nrtx \in Nat /\ ~x.keep
  BY StreamParts DEF Findable, Starts, Bare, StreamConn
<1>2. CASE z = Send(AppCall([SetState(x, "CLOSED") EXCEPT !.flags = {"TIMEDOUT"}]),
                    {"RST", "ACK"})
  BY <1>2, GivesUp
<1>3. CASE ~(z = Send(AppCall([SetState(x, "CLOSED") EXCEPT !.flags = {"TIMEDOUT"}]),
                      {"RST", "ACK"}))
  <2> DEFINE c == [x.conn EXCEPT !.nrtx = @ + 1]
             y == [x EXCEPT !.conn = c]
             f == {"REXMIT"}
             b == [y EXCEPT !.flags = f]
  <2>1. z = CASE y.conn.state = "SYN_RCVD" -> Send(y, {"SYN", "ACK"})
              [] y.conn.state = "SYN_SENT" -> Send(y, {"SYN"})
              [] y.conn.state = "ESTABLISHED" -> AppRexmit(AppCall(b))
              [] y.conn.state \in {"FIN_WAIT_1", "CLOSING", "LAST_ACK"} -> Send(y, {"FIN", "ACK"})
              [] OTHER -> y
    <3>1. [x EXCEPT !.conn.nrtx = @ + 1] = y
      BY <1>1 DEF StreamContexts
    <3>2. z = LET w == [x EXCEPT !.conn.nrtx = @ + 1]
              IN CASE w.conn.state = "SYN_RCVD" -> Send(w, {"SYN", "ACK"})
                   [] w.conn.state = "SYN_SENT" -> Send(w, {"SYN"})
                   [] w.conn.state = "ESTABLISHED" -> AppRexmit(AppCall([w EXCEPT !.flags = f]))
                   [] w.conn.state \in {"FIN_WAIT_1", "CLOSING", "LAST_ACK"} ->
                        Send(w, {"FIN", "ACK"})
                   [] OTHER -> w
      BY <1>3 DEF Expired
    <3> QED BY <3>1, <3>2
  <2>2. /\ c \in StreamConn /\ c.state = x.conn.state /\ c.stopped = x.conn.stopped
        /\ c.app = x.conn.app /\ c.remote = x.conn.remote
        /\ c.rcv_nxt = x.conn.rcv_nxt /\ c.snd_nxt = x.conn.snd_nxt /\ c.len = x.conn.len
        /\ c.mss = x.conn.mss /\ c.initialmss = x.conn.initialmss
    BY <1>1 DEF StreamConn
  <2>3. y = [x EXCEPT !.conn = c] /\ b = [y EXCEPT !.flags = f]
    OBVIOUS
  <2>4. f \in SUBSET EventFlags /\ f = {"REXMIT"}
    BY DEF EventFlags
  <2> HIDE DEF y, c, b, f
  <2>5. /\ SameSock(x, y) /\ y.conn = c /\ y.sends = x.sends /\ y.slen = x.slen
    BY <1>1, <2>2, <2>3 DEF StreamContexts, SameSock, Mine
  <2>6. Parallel(x, y)
    BY <2>2, <2>5 DEF Parallel
  <2>7. CASE x.conn.app # 0
    <3>1. x.conn.state # "ESTABLISHED"
      BY <2>7 DEF Findable
    <3>2. \/ z = Send(y, {"SYN", "ACK"}) /\ x.conn.state = "SYN_RCVD"
          \/ z = Send(y, {"SYN"}) /\ x.conn.state = "SYN_SENT"
          \/ z = Send(y, {"FIN", "ACK"}) /\ x.conn.state \in Closing \cup {"LAST_ACK"}
          \/ z = y /\ x.conn.state \notin {"SYN_RCVD", "SYN_SENT"}
      <4>1. y.conn.state = x.conn.state
        BY <2>2, <2>5
      <4>2. CASE y.conn.state = "SYN_RCVD"
        BY <2>1, <4>1, <4>2
      <4>3. CASE y.conn.state = "SYN_SENT"
        BY <2>1, <4>1, <4>3
      <4>4. CASE y.conn.state \in {"FIN_WAIT_1", "CLOSING", "LAST_ACK"}
        BY <2>1, <4>1, <4>4 DEF Closing
      <4>5. CASE y.conn.state \notin {"SYN_RCVD", "SYN_SENT", "ESTABLISHED",
                                      "FIN_WAIT_1", "CLOSING", "LAST_ACK"}
        <5>1. /\ ~(y.conn.state = "SYN_RCVD") /\ ~(y.conn.state = "SYN_SENT")
              /\ ~(y.conn.state = "ESTABLISHED")
              /\ ~(y.conn.state \in {"FIN_WAIT_1", "CLOSING", "LAST_ACK"})
          BY <4>5
        <5>2. z = y
          BY <2>1, <5>1
        <5> QED BY <4>1, <5>1, <5>2
      <4> QED BY <3>1, <4>1, <4>2, <4>3, <4>4, <4>5
    <3>3. Winds(x, z)
      BY <2>2, <2>5, <2>6, <2>7, <3>2, SendsAgain
    <3> QED BY <2>7, <3>3
  <2>8. CASE x.conn.app = 0
    <3>1. x.conn.state = "ESTABLISHED" /\ Full(Mine(x).out) /\ Mine(x).out # <<>>
      BY <2>8 DEF Findable
    <3>2. z = AppRexmit(AppCall(b))
      BY <2>1, <2>2, <2>5, <3>1
    <3>3. y \in StreamContexts
      BY <2>5 DEF SameSock
    <3>4. /\ SameSock(y, b) /\ b.conn = y.conn /\ b.flags = f /\ b.sends = y.sends
      BY <2>3, <2>4, <3>3 DEF StreamContexts, SameSock, Mine
    <3>5. /\ b \in StreamContexts /\ b.conn.app = 0 /\ Mine(b) = Mine(x) /\ b.data = <<>>
          /\ Full(Mine(b).out) /\ Mine(b).out # <<>> /\ Bare(b.sends) /\ b.conn.len > 0
          /\ b.flags = {"REXMIT"} /\ ~b.keep
      BY <1>1, <2>2, <2>4, <2>5, <2>8, <3>1, <3>4 DEF SameSock
    <3>6. Tells(b, z) /\ EndsWithBlock(b, z)
      BY <3>2, <3>5, RexmitIs
    <3>7. /\ ~Takes(b) /\ InAfter(b) = Mine(b).in /\ OutAfter(b) = Mine(b).out
          /\ StoppedAfter(b) = (b.conn.stopped /\ "RESTART" \notin Mine(b).state)
      BY <3>5, NothingTaken
    <3>8. StateAfter(b) = Mine(x).state \ {"RESTART"}
      BY <3>5 DEF StateAfter
    <3>9. z \in StreamContexts /\ SameSide(x.conn, z.conn) /\ Mine(z).in = Mine(x).in
      BY <2>2, <2>5, <3>4, <3>5, <3>6, <3>7 DEF Tells, SameSide
    <3>10. b.conn.state = x.conn.state /\ b.conn.stopped = x.conn.stopped /\ b.conn.len = x.conn.len
           /\ b.conn.mss = x.conn.mss
      BY <2>2, <2>5, <3>4
    <3>12. ~z.keep
      BY <3>5, <3>6, <3>7 DEF Tells
    <3>11. Resends(x, z)
      BY <3>1, <3>12, <3>5, <3>6, <3>7, <3>8, <3>9, <3>10 DEF EndsWithBlock, Resends
    <3> QED BY <2>8, <3>11
  <2> QED BY <2>7, <2>8
<1> QED BY <1>2, <1>3
-----------------------------------------------------------------------------
(* The steps of the stack *)

\* A set of natural numbers with 0 in it has 0 as its least.
LEMMA LeastZero ==
  ASSUME NEW S, \A s \in S : s \in Nat, 0 \in S
  PROVE  Least(S) = 0
BY DEF Least

\* The run for the connection works on this.
LEMMA ContextIs ==
  ASSUME Base, NEW data \in Seq(Nat), NEW memory \in BOOLEAN, NEW x, x = Context(0, data, memory)
  PROVE  /\ Findable(x) /\ x \in StreamContexts
         /\ x.conn = conn /\ Mine(x) = sock /\ x.data = data /\ x.memory = memory
<1>1. 0 \in Conns /\ 0 \in Socks
  BY TcpAssumption DEF Conns, Socks
<1>2. conn \in StreamConn /\ socks \in StreamSocks /\ used \in Int
  BY <1>1 DEF Base, conn
<1>3. /\ x.conn = conn /\ Mine(x) = sock /\ x.data = data /\ x.memory = memory
      /\ x.flags = {} /\ x.slen = 0 /\ x.keep = FALSE /\ x.sends = NULL
  BY DEF Context, conn, sock, Mine
<1>4. x \in StreamContexts
  BY <1>2 DEF Context, StreamContexts, EventFlags, Segs, conn
<1>5. Starts(x)
  BY <1>3, <1>4 DEF Starts
<1>6. /\ conn.state = "ESTABLISHED" <=> conn.app = 0
      /\ conn.stopped => conn.app = 0
      /\ Full(sock.out)
  BY DEF Base, Paired
<1>7. conn.state \in {"SYN_RCVD", "SYN_SENT"} => sock = NewSock
  BY DEF Base, Opening, Fresh
<1> QED BY <1>3, <1>4, <1>5, <1>6, <1>7 DEF Findable

\* The end of a run.
LEMMA FinishIs ==
  ASSUME Base, NEW w \in StreamContexts, NEW seg, Finish(0, w, seg)
  PROVE  /\ conns' \in [Conns -> StreamConn] /\ \A c \in Conns \ {0} : conns'[c] = NewConn
         /\ socks' \in StreamSocks /\ used' \in Int
         /\ conn' = w.conn /\ sock' = Mine(w)
         /\ in_packet' = (IF w.keep THEN seg ELSE NULL)
         /\ net' = net \/ (net' = net \cup {w.sends} /\ ~Bare(w.sends))
         /\ UNCHANGED <<client, call>>
<1>1. PICK ok \in Sent :
        /\ conns' = [conns EXCEPT ![0] = w.conn]
        /\ socks' = w.socks
        /\ used' = w.used + (IF w.packet /\ ~ok THEN 1 ELSE 0)
        /\ in_packet' = IF w.keep THEN seg ELSE NULL
        /\ Transmit(w.sends, ok)
        /\ UNCHANGED <<client, call>>
  BY DEF Finish
<1>2. w.conn \in StreamConn /\ w.socks \in StreamSocks /\ w.used \in Int
  BY StreamParts
<1>3. 0 \in Conns /\ conns \in [Conns -> StreamConn] /\ \A c \in Conns \ {0} : conns[c] = NewConn
  BY TcpAssumption DEF Conns, Base
<1>4. /\ conns' \in [Conns -> StreamConn] /\ \A c \in Conns \ {0} : conns'[c] = NewConn
      /\ conns'[0] = w.conn
  BY <1>1, <1>2, <1>3
<1>5. used' \in Int
  BY <1>1, <1>2
<1>6. net' = net \/ (net' = net \cup {w.sends} /\ ~Bare(w.sends))
  BY <1>1 DEF Transmit, Bare
<1> QED BY <1>1, <1>2, <1>4, <1>5, <1>6 DEF conn, sock, Mine

\* The place of a sequence number.
LEMMA PlaceOffset ==
  ASSUME NEW base \in 0 .. SeqSize - 1, NEW n \in Nat, n < SeqSize
  PROVE  Place(base, Offset(base, n)) = n
<1> DEFINE a == base + n
           q == a % SeqSize
           b == q + SeqSize - base
<1>1. a \in Nat /\ a < 2 * SeqSize /\ SeqSize \in Nat
  BY TcpAssumption
<1>2. Offset(base, n) = q
  BY DEF Offset
<1>3. Place(base, q) = b % SeqSize
  BY DEF Place
<1> HIDE DEF a, q, b
<1>4. q = (IF a < SeqSize THEN a ELSE a - SeqSize)
  BY <1>1, Wraps DEF q
<1>5. b \in Nat /\ b < 2 * SeqSize /\ (IF b < SeqSize THEN b ELSE b - SeqSize) = n
  BY <1>1, <1>4 DEF a, b
<1>6. b % SeqSize = (IF b < SeqSize THEN b ELSE b - SeqSize)
  BY <1>5, Wraps
<1> QED BY <1>2, <1>3, <1>5, <1>6

\* What the remote sends is something it may have sent.
LEMMA PeerSegmentsHeard ==
  ASSUME Base, NEW seg \in PeerSegments
  PROVE  Heard(seg)
<1> DEFINE M == Len(peer.rcvd) + (IF peer.fin THEN 1 ELSE 0)
<1>0. /\ peer.remote \in Remotes /\ M \in Nat /\ PeerISS \in 0 .. SeqSize - 1
      /\ ISS \in 0 .. SeqSize - 1 /\ SeqSize \in Nat \ {0} /\ UIP_TCP_MSS \in Nat /\ PeerLen \in Nat
  <2>1. peer.remote \in Remotes /\ Len(peer.rcvd) \in Nat
    BY DEF Base
  <2>2. (IF peer.fin THEN 1 ELSE 0) \in Nat
    OBVIOUS
  <2> DEFINE one == IF peer.fin THEN 1 ELSE 0
  <2> HIDE DEF one
  <2>5. one \in Nat
    BY <2>2 DEF one
  <2>3. Len(peer.rcvd) + one \in Nat
    BY <2>1, <2>5
  <2>4. M \in Nat
    BY <2>3 DEF one
  <2> HIDE DEF M
  <2> QED BY <2>1, <2>4, StreamAssumption, TcpAssumption
<1>11. \A s : Heard(s) <=>
         /\ s.remote = peer.remote /\ s.mss = UIP_TCP_MSS /\ s.wnd \in Windows \cup {UIP_TCP_MSS}
         /\ s.flags \in {{"SYN"}, {"SYN", "ACK"}, {"ACK"}, {"FIN", "ACK"}}
         /\ s.data \in Seq(Nat) /\ s.seq \in 0 .. SeqSize - 1 /\ s.ack \in 0 .. SeqSize - 1
         /\ "ACK" \in s.flags => \E n \in 0 .. M : s.ack = Offset(ISS, 1 + n)
         /\ "SYN" \in s.flags => s.seq = PeerISS /\ s.data = <<>>
         /\ "SYN" \notin s.flags =>
              \E i \in 0 .. PeerLen :
                /\ s.seq = Offset(PeerISS, 1 + i) /\ i + Len(s.data) <= PeerLen
                /\ Follows(s.data, i)
  BY DEF Heard
<1> HIDE DEF M
<1>10. \A n \in Nat : Offset(ISS, 1 + n) \in 0 .. SeqSize - 1 /\ Offset(PeerISS, 1 + n) \in 0 .. SeqSize - 1
  <2> TAKE n \in Nat
  <2> DEFINE a == ISS + (1 + n)
             b == PeerISS + (1 + n)
  <2>1. a \in Nat /\ b \in Nat
    BY <1>0
  <2> HIDE DEF a, b
  <2>2. a % SeqSize \in 0 .. SeqSize - 1 /\ b % SeqSize \in 0 .. SeqSize - 1
    BY <2>1, InRange
  <2> QED BY <2>2 DEF a, b, Offset
<1>1. CASE seg \in PeerOpens
  <2>1. CASE seg = PeerSegment({"SYN"}, PeerISS, 0, <<>>, UIP_TCP_MSS)
    BY <1>0, <2>1 DEF PeerSegment, Heard
  <2>2. CASE seg = PeerSegment({"SYN", "ACK"}, PeerISS, Offset(ISS, 1), <<>>, UIP_TCP_MSS)
    <3> DEFINE a == Offset(ISS, 1)
    <3>1. a = Offset(ISS, 1 + 0) /\ a \in 0 .. SeqSize - 1
      BY <1>10
    <3>2. 0 \in 0 .. M
      BY <1>0
    <3> HIDE DEF a
    <3>3. seg = PeerSegment({"SYN", "ACK"}, PeerISS, a, <<>>, UIP_TCP_MSS)
      BY <2>2 DEF a
    <3>4. /\ seg.remote = peer.remote /\ seg.mss = UIP_TCP_MSS /\ seg.wnd = UIP_TCP_MSS
          /\ seg.flags = {"SYN", "ACK"} /\ seg.data = <<>> /\ seg.seq = PeerISS /\ seg.ack = a
      BY <3>3 DEF PeerSegment
    <3>5. \E n \in 0 .. M : seg.ack = Offset(ISS, 1 + n)
      BY <3>1, <3>2, <3>4
    <3>6. seg.flags \in {{"SYN"}, {"SYN", "ACK"}, {"ACK"}, {"FIN", "ACK"}} /\ "SYN" \in seg.flags
      BY <3>4
    <3>7. seg.data \in Seq(Nat) /\ seg.seq \in 0 .. SeqSize - 1 /\ seg.ack \in 0 .. SeqSize - 1
          /\ seg.wnd \in Windows \cup {UIP_TCP_MSS}
      BY <1>0, <3>1, <3>4
    <3> QED BY <1>11, <3>4, <3>5, <3>6, <3>7
  <2> QED BY <1>1, <2>1, <2>2 DEF PeerOpens
<1>2. CASE seg \in PeerContinues /\ seg \notin PeerOpens
  <2> DEFINE acks == {Offset(ISS, 1 + n) : n \in 0 .. Len(peer.rcvd) + (IF peer.fin THEN 1 ELSE 0)}
             kinds == {{"ACK"}} \cup (IF PeerCloses THEN {{"FIN", "ACK"}} ELSE {})
             e(f, i, n, a, w) ==
               PeerSegment(f, Offset(PeerISS, 1 + i), a, [k \in 1 .. n |-> i + k], w)
             sent == {e(f, i, n, a, w) : f \in kinds, i \in 0 .. PeerLen, n \in 0 .. UIP_TCP_MSS,
                                         a \in acks, w \in Windows}
  <2>16. seg \in sent
    <3>1. PeerContinues = sent
      BY DEF PeerContinues
    <3> HIDE DEF sent
    <3> QED BY <1>2, <3>1
  <2> HIDE DEF acks, kinds, e
  <2>17. PICK flags \in kinds, i \in 0 .. PeerLen, n \in 0 .. UIP_TCP_MSS,
              ack \in acks, wnd \in Windows : seg = e(flags, i, n, ack, wnd)
    BY <2>16
  <2> HIDE DEF sent
  <2>1. seg = PeerSegment(flags, Offset(PeerISS, 1 + i), ack, [k \in 1 .. n |-> i + k], wnd)
    BY <2>17 DEF e
  <2>2. PICK m \in 0 .. M : ack = Offset(ISS, 1 + m)
    BY DEF acks, M
  <2> DEFINE q == Offset(PeerISS, 1 + i)
             d == [k \in 1 .. n |-> i + k]
  <2>3. i \in Nat /\ n \in Nat /\ m \in Nat /\ M \in Nat
    BY <1>0
  <2>4. q \in 0 .. SeqSize - 1 /\ ack \in 0 .. SeqSize - 1
    BY <1>10, <2>2, <2>3
  <2>5. d \in Seq(Nat) /\ Len(d) = n /\ Follows(d, i)
    BY <2>3 DEF Follows
  <2>6. Place(PeerISS, q) + n <= PeerLen + 1
    <3>1. seg \in {s \in PeerContinues : LET end == Place(PeerISS, s.seq) + Len(s.data)
                     IN end <= PeerLen + 1 /\ ("FIN" \in s.flags => end = PeerLen + 1)}
      <4>1. Answered
        BY <1>2 DEF PeerSegments
      <4> QED BY <1>2, <4>1 DEF PeerSegments
    <3>2. Place(PeerISS, seg.seq) + Len(seg.data) <= PeerLen + 1
      BY <3>1
    <3>3. seg.seq = q /\ seg.data = d
      BY <2>1 DEF PeerSegment
    <3> HIDE DEF q, d
    <3> QED BY <2>5, <3>2, <3>3
  <2>7. Place(PeerISS, q) = 1 + i
    <3> DEFINE m1 == 1 + i
    <3>1. m1 \in Nat /\ m1 < SeqSize
      BY <1>0, <2>3, StreamAssumption
    <3> HIDE DEF m1
    <3>2. Place(PeerISS, Offset(PeerISS, m1)) = m1
      BY <1>0, <3>1, PlaceOffset
    <3> QED BY <3>2 DEF m1
  <2>8. i + Len(d) <= PeerLen
    BY <1>0, <2>3, <2>5, <2>6, <2>7
  <2>9. seg.remote = peer.remote /\ seg.flags = flags /\ seg.seq = q /\ seg.ack = ack
        /\ seg.data = d /\ seg.mss = UIP_TCP_MSS /\ seg.wnd = wnd
    BY <2>1 DEF PeerSegment
  <2> HIDE DEF q, d
  <2>10. q = Offset(PeerISS, 1 + i)
    BY DEF q
  <2>15. flags = {"ACK"} \/ flags = {"FIN", "ACK"}
    BY DEF kinds
  <2>11. "SYN" \notin flags
    BY <2>15
  <2>12. \E k \in 0 .. M : ack = Offset(ISS, 1 + k)
    BY <2>2
  <2>13. \E k \in 0 .. PeerLen : seg.seq = Offset(PeerISS, 1 + k) /\ k + Len(seg.data) <= PeerLen
                                   /\ Follows(seg.data, k)
    BY <2>5, <2>8, <2>9, <2>10
  <2>14. flags \in {{"SYN"}, {"SYN", "ACK"}, {"ACK"}, {"FIN", "ACK"}} /\ wnd \in Windows \cup {UIP_TCP_MSS}
    BY <2>15
  <2> QED BY <1>11, <2>4, <2>5, <2>9, <2>11, <2>12, <2>13, <2>14
<1> QED BY <1>1, <1>2 DEF PeerSegments

\* Such a segment is well formed.
LEMMA HeardIsProper ==
  ASSUME Base, NEW seg, Heard(seg)
  PROVE  Proper(seg)
BY TcpAssumption, StreamAssumption DEF Base, Heard, Proper

\* The ends of a run for the connection.
Runs(x, seg, z) ==
  IF x.conn.app = 0
    THEN \/ Idles(x, seg, z)
         \/ InOrder(x, seg) /\ Hears(x, seg, z)
         \/ InOrder(x, seg) /\ FinsFirst(x, seg, z)
         \/ InOrder(x, seg) /\ FinsBack(x, seg, z)
         \/ Resends(x, z)
         \/ Dies(x, z)
    ELSE \/ Winds(x, z)
         \/ Establishes(x, seg, z) /\ (x.conn.state = "SYN_RCVD" => InOrder(x, seg))

\* What a step of the stack leaves alone.
Quiet ==
  /\ conns' \in [Conns -> StreamConn] /\ \A c \in Conns \ {0} : conns'[c] = NewConn
  /\ socks' \in StreamSocks /\ used' \in Int
  /\ UNCHANGED <<client, call, peer, wrote, got>>

\* A step that is a run for the connection.
RunStep(x, seg, z) ==
  /\ Findable(x) /\ x.conn = conn /\ Mine(x) = sock /\ x.data = seg.data
  /\ MemoryAssumption => x.memory
  /\ Heard(seg) /\ Proper(seg)
  /\ Runs(x, seg, z) /\ (conn.remote = NULL => z.conn = conn)
  /\ conn' = z.conn /\ sock' = Mine(z)
  /\ in_packet' \in {IF z.keep THEN seg ELSE NULL, in_packet, NULL}
  /\ net' = net \/ (net' = net \cup {z.sends} /\ ~Bare(z.sends))
  /\ Quiet

\* A step that begins to open a connection.
ListenStep ==
  /\ conn = NewConn /\ Fresh
  /\ conn'.state = "SYN_RCVD" /\ ~conn'.stopped /\ conn'.remote = peer.remote
  /\ conn'.snd_nxt = ISS /\ conn'.rcv_nxt = Offset(PeerISS, 1) /\ conn'.len = 1
  /\ conn'.mss = UIP_TCP_MSS /\ conn'.initialmss = UIP_TCP_MSS /\ conn'.app = NULL
  /\ sock' = sock /\ in_packet' = NULL
  /\ \/ net' = net
     \/ \E s : /\ net' = net \cup {s}
               /\ s.flags = {"SYN", "ACK"} /\ s.data = <<>> /\ s.seq = ISS
  /\ Quiet

\* The remote's first acknowledgement, which says nothing to a connection that has
\* nothing in flight.
FirstAck == PeerSegment({"ACK"}, Offset(PeerISS, 1), Offset(ISS, 1), <<>>, UIP_TCP_MSS)

\* It is something the remote may have sent.
LEMMA FirstAckIs ==
  ASSUME Base
  PROVE  /\ Heard(FirstAck) /\ FirstAck.data = <<>> /\ FirstAck.flags = {"ACK"}
<1> DEFINE a == Offset(ISS, 1)
           b == Offset(PeerISS, 1)
<1>1. a = Offset(ISS, 1 + 0) /\ b = Offset(PeerISS, 1 + 0)
  OBVIOUS
<1>2. 1 \in Nat /\ 1 + 0 < SeqSize /\ ISS \in 0 .. SeqSize - 1 /\ PeerISS \in 0 .. SeqSize - 1
      /\ PeerLen \in Nat
  BY StreamAssumption, TcpAssumption
<1>3. a \in 0 .. SeqSize - 1 /\ b \in 0 .. SeqSize - 1
  <2>1. 0 \in Nat /\ 1 + 0 = 1
    OBVIOUS
  <2> QED BY <1>2, <2>1, OffsetAdds
<1> HIDE DEF a, b
<1>4. /\ FirstAck.remote = peer.remote /\ FirstAck.flags = {"ACK"} /\ FirstAck.seq = b
      /\ FirstAck.ack = a /\ FirstAck.data = <<>> /\ FirstAck.mss = UIP_TCP_MSS
      /\ FirstAck.wnd = UIP_TCP_MSS
  BY DEF FirstAck, PeerSegment, a, b
<1>5. \E n \in 0 .. Len(peer.rcvd) + (IF peer.fin THEN 1 ELSE 0) : FirstAck.ack = Offset(ISS, 1 + n)
  <2> DEFINE M == Len(peer.rcvd) + (IF peer.fin THEN 1 ELSE 0)
             one == IF peer.fin THEN 1 ELSE 0
  <2>1. one \in Nat /\ Len(peer.rcvd) \in Nat
    BY DEF Base
  <2>2. M = Len(peer.rcvd) + one
    OBVIOUS
  <2> HIDE DEF M, one
  <2>3. 0 \in 0 .. M
    BY <2>1, <2>2
  <2>4. \E n \in 0 .. M : FirstAck.ack = Offset(ISS, 1 + n)
    BY <1>1, <1>4, <2>3
  <2> QED BY <2>4 DEF M
<1>6. 0 \in 0 .. PeerLen /\ Follows(<<>>, 0) /\ Len(<<>>) = 0
  BY <1>2 DEF Follows
<1>7. \E i \in 0 .. PeerLen :
        /\ FirstAck.seq = Offset(PeerISS, 1 + i) /\ i + Len(FirstAck.data) <= PeerLen
        /\ Follows(FirstAck.data, i)
  <2>1. 0 + Len(<<>>) <= PeerLen
    BY <1>2
  <2> QED BY <1>1, <1>4, <1>6, <2>1
<1>8. FirstAck.wnd \in Windows \cup {UIP_TCP_MSS} /\ <<>> \in Seq(Nat)
      /\ FirstAck.flags \in {{"SYN"}, {"SYN", "ACK"}, {"ACK"}, {"FIN", "ACK"}}
      /\ "SYN" \notin FirstAck.flags
  BY <1>4
<1> QED BY <1>3, <1>4, <1>5, <1>7, <1>8 DEF Heard

\* A segment, from the remote or from the last tick, that finds the connection.
LEMMA InputFinds ==
  ASSUME Base, NEW seg, Heard(seg), UNCHANGED streamVars,
         ~Closed(0), conn.remote = seg.remote, Input(seg)
  PROVE  \E x, z : RunStep(x, seg, z)
<1> DEFINE found == {c \in Conns : ~Closed(c) /\ conns[c].remote = seg.remote}
<1>1. 0 \in found /\ \A c \in found : c \in Nat
  BY TcpAssumption DEF Conns, conn
<1>2. Least(found) = 0 /\ found # {}
  <2> HIDE DEF found
  <2> QED BY <1>1, LeastZero
<1>3. PICK memory \in Memory : Finish(0, Found(Context(0, seg.data, memory), seg), seg)
  BY <1>2 DEF Input
<1> HIDE DEF found
<1> DEFINE x == Context(0, seg.data, memory)
           z == Found(x, seg)
<1>4. memory \in BOOLEAN /\ Proper(seg) /\ seg.data \in Seq(Nat) /\ (MemoryAssumption => memory)
  BY HeardIsProper, TcpAssumption DEF Proper, MemoryAssumption
<1>5. x = Context(0, seg.data, memory) /\ z = Found(x, seg) /\ Finish(0, z, seg)
  BY <1>3
<1> HIDE DEF x, z
<1>6. /\ Findable(x) /\ x \in StreamContexts
      /\ x.conn = conn /\ Mine(x) = sock /\ x.data = seg.data /\ x.memory = memory
  BY <1>4, <1>5, ContextIs
<1>7. Runs(x, seg, z)
  BY <1>4, <1>5, <1>6, FoundIs DEF Runs
<1>8. z \in StreamContexts
  BY <1>7 DEF Runs, Idles, Hears, FinsFirst, FinsBack, Told, Resends, Dies, Winds, Establishes,
              Parallel, SameSock
<1>9. /\ conns' \in [Conns -> StreamConn] /\ \A c \in Conns \ {0} : conns'[c] = NewConn
      /\ socks' \in StreamSocks /\ used' \in Int
      /\ conn' = z.conn /\ sock' = Mine(z)
      /\ in_packet' = (IF z.keep THEN seg ELSE NULL)
      /\ net' = net \/ (net' = net \cup {z.sends} /\ ~Bare(z.sends))
      /\ UNCHANGED <<client, call>>
  BY <1>5, <1>8, FinishIs
<1>10. Quiet
  BY <1>9 DEF Quiet, streamVars
<1>12. conn.remote # NULL
  BY <1>4, TcpAssumption DEF Proper, Remotes
<1>11. RunStep(x, seg, z)
  BY <1>4, <1>12, <1>6, <1>7, <1>9, <1>10 DEF RunStep
<1> QED BY <1>11

\* A step that changes nothing but the kept frame, and no socket.
LEMMA NothingRuns ==
  ASSUME Base, NEW seg, Heard(seg), UNCHANGED streamVars,
         UNCHANGED <<conns, socks, used, net, client, call>>, in_packet' = NULL, conn.app # 0
  PROVE  \E x, z : RunStep(x, seg, z)
<1> DEFINE x == Context(0, seg.data, TRUE)
<1>1. Proper(seg) /\ seg.data \in Seq(Nat)
  BY HeardIsProper DEF Proper
<1>2. x = Context(0, seg.data, TRUE) /\ TRUE \in BOOLEAN
  OBVIOUS
<1> HIDE DEF x
<1>3. /\ Findable(x) /\ x \in StreamContexts
      /\ x.conn = conn /\ Mine(x) = sock /\ x.data = seg.data /\ x.memory
  BY <1>1, <1>2, ContextIs, ZenonT(80)
<1>4. Parallel(x, x) /\ ~x.conn.stopped /\ Bare(x.sends)
  BY <1>3, StreamParts DEF Parallel, SameSock, Findable, Starts, Bare
<1>5. Winds(x, x)
  BY <1>4 DEF Winds, Closing
<1>6. Runs(x, seg, x)
  BY <1>3, <1>5 DEF Runs
<1>7. Quiet
  BY DEF Quiet, Base, streamVars
<1>8. conn' = conn /\ sock' = sock /\ net' = net
  BY DEF conn, sock
<1>9. in_packet' \in {IF x.keep THEN seg ELSE NULL, in_packet, NULL}
  OBVIOUS
<1> QED BY <1>1, <1>3, <1>6, <1>7, <1>8, <1>9 DEF RunStep

\* A SYN without acknowledgement comes to a new connection, or to one that is open.
LEMMA SynFinds ==
  ASSUME NEW seg \in PeerSegments, seg.flags = {"SYN"}
  PROVE  conn.remote = NULL \/ ~Closed(0)
<1> DEFINE acks == {Offset(ISS, 1 + n) : n \in 0 .. Len(peer.rcvd) + (IF peer.fin THEN 1 ELSE 0)}
           kinds == {{"ACK"}} \cup (IF PeerCloses THEN {{"FIN", "ACK"}} ELSE {})
           e(f, i, n, a, w) ==
             PeerSegment(f, Offset(PeerISS, 1 + i), a, [k \in 1 .. n |-> i + k], w)
           sent == {e(f, i, n, a, w) : f \in kinds, i \in 0 .. PeerLen, n \in 0 .. UIP_TCP_MSS,
                                       a \in acks, w \in Windows}
<1>1. PeerContinues = sent
  BY DEF PeerContinues
<1>2. \A f, i, n, a, w : e(f, i, n, a, w).flags = f
  BY DEF PeerSegment
<1>3. \A f \in kinds : "ACK" \in f
  OBVIOUS
<1> HIDE DEF acks, kinds, e
<1>4. seg \notin sent
  <2> SUFFICES ASSUME seg \in sent PROVE FALSE
    OBVIOUS
  <2>1. PICK f \in kinds, i \in 0 .. PeerLen, n \in 0 .. UIP_TCP_MSS, a \in acks, w \in Windows :
          seg = e(f, i, n, a, w)
    OBVIOUS
  <2>2. seg.flags = f /\ "ACK" \in f
    BY <1>2, <1>3, <2>1
  <2> QED BY <2>2
<1> HIDE DEF sent
<1>5. seg \in PeerOpens
  BY <1>1, <1>4 DEF PeerSegments
<1>6. PeerSegment({"SYN", "ACK"}, PeerISS, Offset(ISS, 1), <<>>, UIP_TCP_MSS).flags = {"SYN", "ACK"}
  BY DEF PeerSegment
<1>7. seg # PeerSegment({"SYN", "ACK"}, PeerISS, Offset(ISS, 1), <<>>, UIP_TCP_MSS)
  BY <1>6
<1> QED BY <1>5, <1>7 DEF PeerOpens

\* The end of the step that begins to open a connection.
LEMMA ListenFinish ==
  ASSUME Base, NEW w \in StreamContexts, NEW seg, Finish(0, w, seg), UNCHANGED streamVars,
         conn = NewConn, Fresh, Mine(w) = sock, w.keep = FALSE,
         w.conn.state = "SYN_RCVD", ~w.conn.stopped, w.conn.remote = peer.remote,
         w.conn.snd_nxt = ISS, w.conn.rcv_nxt = Offset(PeerISS, 1), w.conn.len = 1,
         w.conn.mss = UIP_TCP_MSS, w.conn.initialmss = UIP_TCP_MSS, w.conn.app = NULL,
         w.sends.flags = {"SYN", "ACK"}, w.sends.data = <<>>, w.sends.seq = ISS
  PROVE  ListenStep
<1>1. /\ conns' \in [Conns -> StreamConn] /\ \A c \in Conns \ {0} : conns'[c] = NewConn
      /\ socks' \in StreamSocks /\ used' \in Int
      /\ conn' = w.conn /\ sock' = Mine(w)
      /\ in_packet' = (IF w.keep THEN seg ELSE NULL)
      /\ net' = net \/ (net' = net \cup {w.sends} /\ ~Bare(w.sends))
      /\ UNCHANGED <<client, call>>
  BY FinishIs
<1>2. Quiet
  BY <1>1 DEF Quiet, streamVars
<1>3. in_packet' = NULL /\ sock' = sock
  BY <1>1
<1>4. \/ net' = net
      \/ \E s : net' = net \cup {s} /\ s.flags = {"SYN", "ACK"} /\ s.data = <<>> /\ s.seq = ISS
  BY <1>1
<1> QED BY <1>1, <1>2, <1>3, <1>4 DEF ListenStep

\* A connection begins to open.
LEMMA ListenIs ==
  ASSUME Base, NEW seg, Heard(seg), UNCHANGED streamVars, conn.remote = NULL,
         seg.flags = {"SYN"}, NEW c \in Conns, Slot(c), Finish(c, FoundListen(c, seg), seg)
  PROVE  ListenStep
<1>1. conn = NewConn /\ Fresh /\ 0 \in Conns /\ \A d \in Conns : d \in Nat
  BY TcpAssumption DEF Base, Opening, Conns
<1>2. c = 0
  <2> DEFINE closed == {d \in Conns : Closed(d)}
  <2>1. 0 \in closed /\ \A d \in closed : d \in Nat
    BY <1>1 DEF Closed, NewConn, conn
  <2>2. c = Least(closed)
    BY <2>1 DEF Slot
  <2> HIDE DEF closed
  <2> QED BY <2>1, <2>2, LeastZero
<1> DEFINE mss == Lesser(seg.mss, UIP_TCP_MSS)
           r == (seg.seq + 1) % SeqSize
           d == [conns[0] EXCEPT !.state = "SYN_RCVD", !.stopped = FALSE,
                   !.remote = seg.remote, !.snd_nxt = ISS, !.rcv_nxt = r,
                   !.len = 1, !.nrtx = 0, !.mss = mss, !.initialmss = mss]
           s == Segment(d, {"SYN", "ACK"}, <<>>)
           x == Context(0, <<>>, TRUE)
           w == [x EXCEPT !.conn = d, !.sends = s]
<1>3. Finish(0, w, seg)
  BY <1>2 DEF FoundListen
<1>4. mss = UIP_TCP_MSS /\ UIP_TCP_MSS \in Nat
  BY TcpAssumption DEF Lesser, Heard
<1>5. r = Offset(PeerISS, 1) /\ r \in 0 .. SeqSize - 1
  <2>1. r = Offset(PeerISS, 1)
    BY DEF Heard, Offset
  <2>2. 0 \in Nat /\ 1 \in Nat /\ 1 + 0 < SeqSize /\ PeerISS \in 0 .. SeqSize - 1
    BY StreamAssumption, TcpAssumption
  <2> HIDE DEF r
  <2>3. Offset(PeerISS, 1) \in 0 .. SeqSize - 1
    BY <2>2, OffsetAdds
  <2> QED BY <2>1, <2>3
<1>6. conns[0] = NewConn /\ NewConn \in StreamConn /\ peer.remote \in Remotes
      /\ seg.remote = peer.remote /\ ISS \in 0 .. SeqSize - 1
  BY <1>1, TcpAssumption DEF conn, Base, Heard
<1> HIDE DEF mss, r
<1> DEFINE nc == NewConn
<1>7. d = [nc EXCEPT !.state = "SYN_RCVD", !.stopped = FALSE,
                   !.remote = seg.remote, !.snd_nxt = ISS, !.rcv_nxt = r,
                   !.len = 1, !.nrtx = 0, !.mss = mss, !.initialmss = mss]
  BY <1>6
<1>8. nc \in StreamConn /\ nc.app = NULL
  BY <1>6 DEF NewConn
<1> HIDE DEF d, nc
<1>9. /\ d \in StreamConn /\ d.state = "SYN_RCVD" /\ ~d.stopped /\ d.remote = peer.remote
      /\ d.snd_nxt = ISS /\ d.rcv_nxt = r /\ d.len = 1 /\ d.mss = mss /\ d.initialmss = mss
      /\ d.app = NULL
  BY <1>4, <1>5, <1>6, <1>7, <1>8, ZenonT(80) DEF StreamConn, TcpStates
<1>10. s = [remote |-> d.remote, flags |-> {"SYN", "ACK"}, seq |-> d.snd_nxt, data |-> <<>>]
  BY DEF Segment
<1> HIDE DEF s
<1>11. s \in Segs /\ s.flags = {"SYN", "ACK"} /\ s.data = <<>> /\ s.seq = ISS
  BY <1>6, <1>9, <1>10 DEF Segs
<1>12. x \in StreamContexts /\ Mine(x) = sock /\ x.keep = FALSE
  <2>1. <<>> \in Seq(Nat) /\ TRUE \in BOOLEAN /\ x = Context(0, <<>>, TRUE)
    OBVIOUS
  <2>2. x.keep = FALSE
    BY DEF Context
  <2> HIDE DEF x
  <2>3. x \in StreamContexts /\ Mine(x) = sock
    BY <2>1, ContextIs
  <2> QED BY <2>2, <2>3
<1>13. w = [x EXCEPT !.conn = d, !.sends = s]
  OBVIOUS
<1> HIDE DEF x, w
<1>14. w \in StreamContexts /\ w.conn = d /\ Mine(w) = sock /\ w.keep = FALSE /\ w.sends = s
  BY <1>9, <1>11, <1>12, <1>13 DEF StreamContexts, Mine
<1>15. w.sends.flags = {"SYN", "ACK"} /\ w.sends.data = <<>> /\ w.sends.seq = ISS
  BY <1>11, <1>14
<1>16. /\ w.conn.state = "SYN_RCVD" /\ ~w.conn.stopped /\ w.conn.remote = peer.remote
       /\ w.conn.snd_nxt = ISS /\ w.conn.rcv_nxt = Offset(PeerISS, 1) /\ w.conn.len = 1
       /\ w.conn.mss = UIP_TCP_MSS /\ w.conn.initialmss = UIP_TCP_MSS /\ w.conn.app = NULL
  BY <1>4, <1>5, <1>9, <1>14
<1> QED BY <1>1, <1>3, <1>14, <1>15, <1>16, ListenFinish

\* A segment of the remote.
LEMMA InputIs ==
  ASSUME Base, NEW seg, Heard(seg), UNCHANGED streamVars,
         seg.flags = {"SYN"} => conn.remote = NULL \/ ~Closed(0),
         Input(seg)
  PROVE  ListenStep \/ \E x, z : RunStep(x, seg, z)
<1> DEFINE found == {c \in Conns : ~Closed(c) /\ conns[c].remote = seg.remote}
           opens == seg.flags = {"SYN"} /\ seg.remote \in Inbound
<1>0. /\ conn = conns[0] /\ 0 \in Conns /\ \A c \in Conns \ {0} : Closed(c)
  BY TcpAssumption DEF Base, conn, Closed, NewConn, Conns
<1>1. CASE ~Closed(0) /\ conn.remote = seg.remote
  BY <1>1, InputFinds
<1>2. CASE ~(~Closed(0) /\ conn.remote = seg.remote)
  <2>1. found = {}
    BY <1>0, <1>2
  <2>2. conn.remote \in {NULL, seg.remote} /\ (conn.remote = NULL => Closed(0))
    <3>1. conn.remote \in {NULL, seg.remote}
      BY DEF Base, Heard
    <3>2. conn.remote = NULL => Closed(0)
      BY <1>0 DEF Base, Opening, Closed, NewConn
    <3> QED BY <3>1, <3>2
  <2>3. Closed(0) /\ conn.app # 0
    <3>1. Closed(0)
      BY <1>2, <2>2
    <3>2. conn.state = "CLOSED"
      BY <3>1, <1>0 DEF Closed
    <3> QED BY <3>1, <3>2 DEF Base, Paired
  <2>4. CASE seg.flags = {"SYN"} /\ seg.remote \in Inbound
    <3>1. conn.remote = NULL
      BY <2>3, <2>4
    <3>2. Slot(0)
      <4> DEFINE closed == {d \in Conns : Closed(d)}
      <4>1. 0 \in closed /\ \A d \in closed : d \in Nat
        BY <1>0, <2>3 DEF Conns
      <4>2. closed # {} => (0 = Least(closed) => Slot(0))
        BY DEF Slot
      <4> HIDE DEF closed
      <4> QED BY <4>1, <4>2, LeastZero
    <3>3. \E c \in Conns : Slot(c) /\ Finish(c, FoundListen(c, seg), seg)
      BY <1>0, <2>1, <2>4, <3>2 DEF Input
    <3> QED BY <2>4, <3>1, <3>3, ListenIs
  <2>5. CASE ~(seg.flags = {"SYN"} /\ seg.remote \in Inbound)
    <3>1. Reset(seg)
      BY <2>1, <2>5 DEF Input
    <3>2. net' = net
      <4> DEFINE s == ResetSegment(seg)
      <4>1. s.data = <<>> /\ s.flags \cap {"SYN", "FIN"} = {}
        BY DEF ResetSegment
      <4> HIDE DEF s
      <4>2. \A ok : Transmit(s, ok) => net' = net
        BY <4>1 DEF Transmit
      <4>3. (net' = net) \/ \E ok \in Sent : Transmit(s, ok)
        BY <3>1 DEF Reset, s
      <4> QED BY <4>2, <4>3
    <3>3. UNCHANGED <<conns, socks, used, net, client, call>> /\ in_packet' = NULL
      BY <3>1, <3>2 DEF Reset
    <3> QED BY <2>3, <3>3, NothingRuns
  <2> QED BY <2>4, <2>5
<1> QED BY <1>1, <1>2

\* The end of a timer's run.
LEMMA TimerIs ==
  ASSUME Base, NEW memory \in Memory, NEW x, x = Context(0, <<>>, memory),
         NEW z \in StreamContexts, Runs(x, FirstAck, z), FinishTimer(0, z), UNCHANGED streamVars,
         conn.remote # NULL
  PROVE  RunStep(x, FirstAck, z)
<1> DEFINE e == in_packet # NULL
           w == [z EXCEPT !.keep = e]
<1>1. Finish(0, w, in_packet)
  BY DEF FinishTimer
<1>2. e \in BOOLEAN /\ w = [z EXCEPT !.keep = e]
  OBVIOUS
<1> HIDE DEF w, e
<1>3. w \in StreamContexts /\ w.conn = z.conn /\ Mine(w) = Mine(z) /\ w.sends = z.sends /\ w.keep = e
  BY <1>2 DEF StreamContexts, Mine
<1>4. /\ conns' \in [Conns -> StreamConn] /\ \A c \in Conns \ {0} : conns'[c] = NewConn
      /\ socks' \in StreamSocks /\ used' \in Int
      /\ conn' = w.conn /\ sock' = Mine(w)
      /\ in_packet' = (IF w.keep THEN in_packet ELSE NULL)
      /\ net' = net \/ (net' = net \cup {w.sends} /\ ~Bare(w.sends))
      /\ UNCHANGED <<client, call>>
  BY <1>1, <1>3, FinishIs
<1>5. Quiet
  BY <1>4 DEF Quiet, streamVars
<1>6. memory \in BOOLEAN /\ (MemoryAssumption => memory) /\ <<>> \in Seq(Nat)
  <2>1. memory \in BOOLEAN
    BY TcpAssumption
  <2>2. MemoryAssumption => memory
    BY <2>1 DEF MemoryAssumption
  <2>3. <<>> \in Seq(Nat)
    OBVIOUS
  <2> QED BY <2>1, <2>2, <2>3
<1>7. /\ Findable(x) /\ x \in StreamContexts
      /\ x.conn = conn /\ Mine(x) = sock /\ x.data = <<>> /\ x.memory = memory
  BY <1>6, ContextIs, ZenonT(80)
<1>8. Heard(FirstAck) /\ Proper(FirstAck) /\ FirstAck.data = <<>>
  BY FirstAckIs, HeardIsProper
<1>9. in_packet' \in {IF z.keep THEN FirstAck ELSE NULL, in_packet, NULL}
  BY <1>4
<1>10. conn' = z.conn /\ sock' = Mine(z)
       /\ (net' = net \/ (net' = net \cup {z.sends} /\ ~Bare(z.sends)))
  BY <1>3, <1>4
<1> QED BY <1>5, <1>6, <1>7, <1>8, <1>9, <1>10 DEF RunStep

\* The connection's timers.
LEMMA TimersAre ==
  ASSUME Base, UNCHANGED streamVars, RexmitTimer(0) \/ Poll(0) \/ TimeWaitEnds(0)
  PROVE  \E x, z : RunStep(x, FirstAck, z)
<1>0. FirstAck.data = <<>> /\ FirstAck.flags = {"ACK"} /\ Heard(FirstAck) /\ Proper(FirstAck)
  BY FirstAckIs, HeardIsProper
<1>9. <<>> \in Seq(Nat) /\ TRUE \in BOOLEAN /\ \A memory \in Memory : memory \in BOOLEAN
  BY TcpAssumption
<1>8. conn.remote # NULL
  <2>1. ~Closed(0) \/ conn.state \in {"ESTABLISHED", "TIME_WAIT", "FIN_WAIT_2"}
    BY DEF RexmitTimer, RexmitDue, Poll, PollDue, TimeWaitEnds, WaitDue, conn
  <2>2. conn.state # "CLOSED" \/ conn.stopped
    BY <2>1 DEF Closed, conn
  <2> QED BY <2>2 DEF Base, Opening, NewConn
<1>1. CASE RexmitTimer(0)
  <2>1. PICK memory \in Memory : FinishTimer(0, Expired(Context(0, <<>>, memory)))
    BY <1>1 DEF RexmitTimer
  <2> DEFINE x == Context(0, <<>>, memory)
             z == Expired(x)
  <2>2. x = Context(0, <<>>, memory) /\ z = Expired(x) /\ FinishTimer(0, z)
    BY <2>1
  <2>3. memory \in BOOLEAN
    BY <1>9
  <2> HIDE DEF x, z
  <2>4. /\ Findable(x) /\ x \in StreamContexts
        /\ x.conn = conn /\ Mine(x) = sock /\ x.data = <<>> /\ x.memory = memory
    BY <1>9, <2>2, <2>3, ContextIs
  <2>5. x.conn.len > 0 /\ (x.conn.app = 0 => Mine(x).out # <<>>)
    BY <1>1, <2>4 DEF RexmitTimer, RexmitDue, Base, Paired, conn
  <2>6. IF x.conn.app = 0 THEN Dies(x, z) \/ Resends(x, z) ELSE Winds(x, z)
    BY <2>2, <2>4, <2>5, ExpiredIs
  <2>7. Runs(x, FirstAck, z)
    BY <2>6 DEF Runs
  <2>8. z \in StreamContexts
    BY <2>6 DEF Dies, Resends, Winds, Parallel, SameSock
  <2>9. RunStep(x, FirstAck, z)
    BY <1>8, <2>2, <2>7, <2>8, TimerIs
  <2> QED BY <2>9
<1>2. CASE Poll(0)
  <2>1. PICK memory \in Memory :
          FinishTimer(0, AppSend(AppCall([Context(0, <<>>, memory) EXCEPT !.flags = {"POLL"}])))
    BY <1>2 DEF Poll
  <2> DEFINE x == Context(0, <<>>, memory)
             z == AppSend(AppCall([x EXCEPT !.flags = {"POLL"}]))
  <2>2. x = Context(0, <<>>, memory) /\ z = AppSend(AppCall([x EXCEPT !.flags = {"POLL"}]))
        /\ FinishTimer(0, z)
    BY <2>1
  <2>3. memory \in BOOLEAN
    BY <1>9
  <2> HIDE DEF x, z
  <2>4. /\ Findable(x) /\ x \in StreamContexts
        /\ x.conn = conn /\ Mine(x) = sock /\ x.data = <<>> /\ x.memory = memory
    BY <1>9, <2>2, <2>3, ContextIs
  <2>5. x.conn.app = 0 /\ x.conn.state = "ESTABLISHED" /\ x.conn.len = 0 /\ Full(Mine(x).out)
        /\ Starts(x)
    BY <1>2, <2>4 DEF Poll, PollDue, Findable, conn
  <2>6. Resends(x, z) \/ Hears(x, FirstAck, z) \/ FinsFirst(x, FirstAck, z)
    BY <1>0, <2>2, <2>4, <2>5, PollIs
  <2>7. InOrder(x, FirstAck)
    BY <1>0 DEF InOrder
  <2>8. Runs(x, FirstAck, z)
    BY <2>5, <2>6, <2>7 DEF Runs
  <2>9. z \in StreamContexts
    BY <2>6 DEF Resends, Hears, FinsFirst, Told
  <2>10. RunStep(x, FirstAck, z)
    BY <1>8, <2>2, <2>8, <2>9, TimerIs
  <2> QED BY <2>10
<1>3. CASE TimeWaitEnds(0)
  <2> DEFINE x == Context(0, <<>>, TRUE)
             z == SetState(x, "CLOSED")
  <2>1. x = Context(0, <<>>, TRUE) /\ z = SetState(x, "CLOSED") /\ "CLOSED" \in TcpStates
    BY DEF TcpStates
  <2>2. /\ conns' = [conns EXCEPT ![0].state = "CLOSED"]
        /\ conn.state \in {"TIME_WAIT", "FIN_WAIT_2"} /\ ~conn.stopped
        /\ UNCHANGED <<socks, used, in_packet, net, client, call>>
    BY <1>3 DEF TimeWaitEnds, WaitDue, conn
  <2> HIDE DEF x, z
  <2>4. /\ Findable(x) /\ x \in StreamContexts
        /\ x.conn = conn /\ Mine(x) = sock /\ x.data = <<>> /\ x.memory
    BY <1>9, <2>1, ContextIs
  <2>5. /\ Parallel(x, z) /\ z.sends = x.sends
        /\ z.conn.state = "CLOSED" /\ ~z.conn.stopped
    <3> DEFINE s == "CLOSED"
    <3>1. s \in TcpStates /\ z = SetState(x, s)
      BY <2>1
    <3> HIDE DEF s
    <3>2. Parallel(x, z) /\ z.sends = x.sends /\ z.conn.state = s /\ ~z.conn.stopped
      BY <2>4, <3>1, SetStateIs
    <3> QED BY <3>2 DEF s
  <2>6. Winds(x, z)
    BY <2>2, <2>4, <2>5 DEF Winds, Closing, Bare, Findable, Starts
  <2>7. x.conn.app # 0
    BY <2>2, <2>4 DEF Findable
  <2>8. Runs(x, FirstAck, z)
    BY <2>6, <2>7 DEF Runs
  <2> DEFINE d == [conn EXCEPT !.state = "CLOSED"]
  <2>9. conn \in StreamConn /\ 0 \in Conns /\ conns \in [Conns -> StreamConn]
        /\ \A c \in Conns \ {0} : conns[c] = NewConn
    BY TcpAssumption DEF Base, conn, Conns
  <2>10. conns' = [conns EXCEPT ![0] = d] /\ conn' = d /\ d \in StreamConn
    BY <2>2, <2>9 DEF conn, StreamConn, TcpStates
  <2>11. z.conn = d
    <3>1. z.conn = [conn EXCEPT !.state = "CLOSED", !.stopped = FALSE]
      BY <2>1, <2>4 DEF SetState, StreamContexts
    <3>2. conn.stopped = FALSE
      BY <2>2, <2>9 DEF StreamConn
    <3> QED BY <2>9, <3>1, <3>2 DEF StreamConn
  <2> HIDE DEF d
  <2>12. conns' \in [Conns -> StreamConn] /\ \A c \in Conns \ {0} : conns'[c] = NewConn
    BY <2>9, <2>10
  <2>13. Quiet
    BY <2>2, <2>12 DEF Quiet, Base, streamVars
  <2>14. sock' = Mine(z) /\ net' = net /\ in_packet' = in_packet /\ conn' = z.conn
    BY <2>2, <2>4, <2>5, <2>10, <2>11 DEF sock, Parallel, SameSock
  <2>15. RunStep(x, FirstAck, z)
    BY <1>0, <1>8, <2>4, <2>8, <2>13, <2>14 DEF RunStep
  <2> QED BY <2>15
<1> QED BY <1>1, <1>2, <1>3

\* Every step of the stack is a run for the connection, or begins to open it.
LEMMA TickIs ==
  ASSUME Base, Tick
  PROVE  ListenStep \/ \E x, seg, z : RunStep(x, seg, z)
<1>1. UNCHANGED streamVars
  BY DEF Tick
<1>2. CASE \E seg \in PeerSegments : Receive(seg)
  <2>1. PICK seg \in PeerSegments : Receive(seg)
    BY <1>2
  <2>2. Heard(seg)
    BY PeerSegmentsHeard
  <2>3. Input(seg) /\ (seg.flags = {"SYN"} => conn.remote = NULL \/ ~Closed(0))
    BY <2>1, SynFinds DEF Receive
  <2> QED BY <1>1, <2>2, <2>3, InputIs
<1>3. CASE Reprocess
  <2>1. in_packet # NULL /\ Input(in_packet)
    BY <1>3 DEF Reprocess
  <2>2. Heard(in_packet) /\ in_packet.data # <<>>
    BY <2>1 DEF Base
  <2>3. in_packet.flags # {"SYN"}
    BY <2>2 DEF Heard
  <2> QED BY <1>1, <2>1, <2>2, <2>3, InputIs
<1>4. CASE TimeWaitEnds(0) \/ RexmitTimer(0) \/ Poll(0)
  BY <1>1, <1>4, TimersAre
<1> QED BY <1>2, <1>3, <1>4 DEF Tick
-----------------------------------------------------------------------------
(* Base is invariant *)

\* What the window leaves for a segment is between 1 and a block.
LEMMA MssStays ==
  ASSUME NEW x \in StreamContexts, NEW seg, Proper(seg), x.conn.initialmss = UIP_TCP_MSS
  PROVE  MssOf(x, seg) \in 1 .. UIP_TCP_MSS
BY TcpAssumption DEF MssOf, Lesser, Proper

\* The parts of a run that the lemmas below need.
LEMMA RunParts ==
  ASSUME Base, NEW x, NEW seg, NEW z, RunStep(x, seg, z)
  PROVE  /\ x \in StreamContexts /\ z \in StreamContexts
         /\ x.conn \in StreamConn /\ z.conn \in StreamConn
         /\ Mine(x) \in StreamSock /\ Mine(z) \in StreamSock
         /\ x.conn = conn /\ Mine(x) = sock /\ Paired(x.conn, Mine(x)) /\ Proper(seg)
         /\ Runs(x, seg, z) /\ ~x.keep
         /\ x.conn.state = "ESTABLISHED" <=> x.conn.app = 0
<1>1. x \in StreamContexts /\ x.conn = conn /\ Mine(x) = sock /\ Proper(seg) /\ Runs(x, seg, z)
      /\ ~x.keep
  BY DEF RunStep, Findable, Starts
<1>2. z \in StreamContexts
  BY <1>1 DEF Runs, Idles, Hears, FinsFirst, FinsBack, Told, Resends, Dies, Winds, Establishes,
              Parallel, SameSock
<1>3. Paired(x.conn, Mine(x))
  BY <1>1 DEF Base
<1> QED BY <1>1, <1>2, <1>3, StreamParts DEF Paired

\* The blocks that are left after an acknowledgement stay full.
LEMMA AckedOutIs ==
  ASSUME NEW x \in StreamContexts, Full(Mine(x).out), NEW seg
  PROVE  Full(AckedOut(x, seg)) /\ AckedOut(x, seg) \in Seq(StreamBlock)
<1>1. Mine(x).out \in Seq(StreamBlock)
  BY StreamParts
<1>2. CASE Acks(x, seg) /\ Mine(x).out # <<>>
  <2> DEFINE q == Mine(x).out
             r == Tail(q)
  <2>1. q \in Seq(StreamBlock) /\ q # <<>> /\ Full(q) /\ AckedOut(x, seg) = r
    BY <1>1, <1>2 DEF AckedOut
  <2> HIDE DEF q
  <2>2. r \in Seq(StreamBlock) /\ Len(r) = Len(q) - 1 /\ \A i \in 1 .. Len(r) : r[i] = q[i + 1]
    BY <2>1, HeadTailProperties
  <2>3. Len(q) \in Nat /\ DOMAIN q = 1 .. Len(q) /\ DOMAIN r = 1 .. Len(r)
    BY <2>1, <2>2
  <2> HIDE DEF r
  <2>4. Full(r)
    <3> SUFFICES ASSUME NEW i \in DOMAIN r, i < Len(r) PROVE Len(r[i].data) = r[i].cap
      BY DEF Full
    <3>1. i + 1 \in DOMAIN q /\ i + 1 < Len(q) /\ r[i] = q[i + 1]
      BY <2>2, <2>3
    <3> QED BY <2>1, <3>1 DEF Full
  <2> QED BY <2>1, <2>2, <2>4
<1>3. CASE ~(Acks(x, seg) /\ Mine(x).out # <<>>)
  BY <1>1, <1>3 DEF AckedOut
<1> QED BY <1>2, <1>3

\* A connection and its socket go together after a segment for the socket.
LEMMA PairedSegment ==
  ASSUME NEW x \in StreamContexts, NEW z \in StreamContexts, NEW seg, Proper(seg),
         Paired(x.conn, Mine(x)), x.conn.app = 0,
         Idles(x, seg, z) \/ Hears(x, seg, z) \/ FinsFirst(x, seg, z) \/ FinsBack(x, seg, z)
  PROVE  Paired(z.conn, Mine(z))
<1>1. /\ x.conn.state = "ESTABLISHED" /\ "REMOTECLOSED" \notin Mine(x).state
      /\ "CLOSE" \in Mine(x).state => Mine(x).in = <<>>
      /\ Full(Mine(x).out)
      /\ x.conn.len > 0 =>
           /\ Mine(x).out # <<>>
           /\ Len(Mine(x).out[1].data) = Mine(x).out[1].cap /\ x.conn.len <= Mine(x).out[1].cap
      /\ x.conn.initialmss = UIP_TCP_MSS /\ x.conn.mss \in 1 .. UIP_TCP_MSS
  BY DEF Paired
<1>2. x.conn \in StreamConn /\ z.conn \in StreamConn
  BY StreamParts
<1>3. MssOf(x, seg) \in 1 .. UIP_TCP_MSS
  BY <1>1, MssStays
<1>4. Full(AckedOut(x, seg))
  BY <1>1, AckedOutIs
<1>5. "CLOSE" \in Mine(x).state => InSeg(x, seg) = Mine(x).in
  BY DEF InSeg, StoresSeg, TakesSeg
<1>6. NULL # 0
  BY TcpAssumption
<1>7. CASE Idles(x, seg, z)
  <2>1. z.conn.mss \in 1 .. UIP_TCP_MSS /\ z.conn.initialmss = UIP_TCP_MSS
    BY <1>1, <1>3, <1>7 DEF Idles
  <2>2. Mine(z) = Mine(x) /\ z.conn.state = "ESTABLISHED" /\ z.conn.app = 0 /\ z.conn.len = x.conn.len
    BY <1>1, <1>7 DEF Idles
  <2> QED BY <1>1, <2>1, <2>2 DEF Paired
<1>8. CASE Hears(x, seg, z)
  <2>1. z.conn.mss \in 1 .. UIP_TCP_MSS /\ z.conn.initialmss = UIP_TCP_MSS
    BY <1>1, <1>3, <1>8 DEF Hears, Told
  <2>2. /\ z.conn.state = "ESTABLISHED" /\ z.conn.app = 0 /\ z.conn.len = AckedConn(x, seg).len
        /\ Mine(z).state = Mine(x).state \ {"RESTART"} /\ Mine(z).out = AckedOut(x, seg)
        /\ Mine(z).in = InSeg(x, seg)
    BY <1>8 DEF Hears, Told
  <2>3. z.conn.len > 0 => ~Acks(x, seg) /\ z.conn.len = x.conn.len
    BY <1>2, <2>2 DEF AckedConn, StreamConn
  <2>4. z.conn.len > 0 => Mine(z).out = Mine(x).out
    BY <2>2, <2>3 DEF AckedOut
  <2>5. "CLOSE" \in Mine(z).state => Mine(z).in = <<>>
    BY <1>1, <1>5, <2>2
  <2>6. "REMOTECLOSED" \notin Mine(z).state
    BY <1>1, <2>2
  <2>7. Full(Mine(z).out)
    BY <1>4, <2>2
  <2> QED BY <1>1, <2>1, <2>2, <2>3, <2>4, <2>5, <2>6, <2>7 DEF Paired
<1>9. CASE FinsFirst(x, seg, z)
  <2>1. z.conn.mss \in 1 .. UIP_TCP_MSS /\ z.conn.initialmss = UIP_TCP_MSS
    BY <1>1, <1>3, <1>9 DEF FinsFirst, Told
  <2>2. Full(Mine(z).out)
    BY <1>9 DEF FinsFirst, Full
  <2>3. z.conn.state = "FIN_WAIT_1" /\ ~z.conn.stopped /\ z.conn.app = NULL /\ Mine(z).state = {}
    BY <1>9 DEF FinsFirst
  <2> QED BY <1>6, <2>1, <2>2, <2>3 DEF Paired
<1>10. CASE FinsBack(x, seg, z)
  <2>1. z.conn.mss \in 1 .. UIP_TCP_MSS /\ z.conn.initialmss = UIP_TCP_MSS
    BY <1>1, <1>3, <1>10 DEF FinsBack, Told
  <2>2. Full(Mine(z).out)
    BY <1>10 DEF FinsBack, Full
  <2>3. z.conn.state = "LAST_ACK" /\ ~z.conn.stopped /\ z.conn.app = NULL /\ Mine(z).in = InSeg(x, seg)
        /\ Mine(z).state = IF InSeg(x, seg) = <<>> THEN {}
                           ELSE (Mine(x).state \ {"RESTART"}) \cup {"REMOTECLOSED"}
    BY <1>10 DEF FinsBack, Told
  <2>4. "CLOSE" \in Mine(z).state => Mine(z).in = <<>>
    BY <1>1, <1>5, <2>3
  <2> QED BY <1>6, <2>1, <2>2, <2>3, <2>4 DEF Paired
<1> QED BY <1>7, <1>8, <1>9, <1>10

\* ... after a timer, and after a run for a connection without a socket.
LEMMA PairedOther ==
  ASSUME NEW x \in StreamContexts, NEW z \in StreamContexts, NEW seg, Proper(seg),
         Paired(x.conn, Mine(x)),
         \/ x.conn.app = 0 /\ (Resends(x, z) \/ Dies(x, z))
         \/ x.conn.app # 0 /\ (Winds(x, z) \/ Establishes(x, seg, z))
  PROVE  Paired(z.conn, Mine(z))
<1>2. x.conn \in StreamConn /\ z.conn \in StreamConn /\ Mine(x).out \in Seq(StreamBlock)
      /\ Mine(x).in \in Seq(Seq(Nat)) /\ x.conn.state \in TcpStates /\ x.conn.len \in Nat
  BY StreamParts DEF StreamConn
<1>6. NULL # 0 /\ UIP_TCP_MSS \in 1 .. UIP_TCP_MSS
  BY TcpAssumption
<1>3. CASE x.conn.app = 0 /\ Resends(x, z)
  <2> DEFINE o == Mine(x).out
             r == Mine(z).out
             n == z.slen
  <2>1. /\ x.conn.state = "ESTABLISHED" /\ "REMOTECLOSED" \notin Mine(x).state
        /\ "CLOSE" \in Mine(x).state => Mine(x).in = <<>>
        /\ Full(o)
        /\ x.conn.len > 0 =>
             /\ o # <<>>
             /\ Len(o[1].data) = o[1].cap /\ x.conn.len <= o[1].cap
        /\ x.conn.initialmss = UIP_TCP_MSS /\ x.conn.mss \in 1 .. UIP_TCP_MSS
    BY <1>3 DEF Paired
  <2>2. /\ z.conn.state = "ESTABLISHED" /\ z.conn.app = 0
        /\ z.conn.initialmss = x.conn.initialmss /\ z.conn.mss = x.conn.mss
        /\ z.conn.len = IF n > 0 /\ x.conn.len = 0 THEN Lesser(n, x.conn.mss) ELSE x.conn.len
        /\ Mine(z).in = Mine(x).in /\ Mine(z).state = Mine(x).state \ {"RESTART"}
        /\ o # <<>> /\ Closed1(o, n, r)
    BY <1>3 DEF Resends, SameSide
  <2> HIDE DEF o, r, n
  <2>3. o \in Seq(StreamBlock)
    BY <1>2 DEF o
  <2>4. /\ n = Len(o[1].data) /\ Full(r) /\ r # <<>> /\ Len(r) = Len(o)
        /\ r[1] \in StreamBlock /\ r[1].data = o[1].data /\ (n > 0 => r[1].cap = n)
    BY <2>1, <2>2, <2>3, Closed1Is
  <2>5. n \in Nat /\ o[1].cap \in Nat /\ x.conn.mss \in Nat
    <3>1. o[1] \in StreamBlock
      BY <2>2, <2>3
    <3> QED BY <2>1, <2>4, <3>1, TcpAssumption DEF StreamBlock
  <2>6. z.conn.len > 0 => n > 0 /\ z.conn.len <= n
    <3>1. CASE x.conn.len > 0
      BY <1>2, <2>1, <2>2, <2>4, <2>5, <3>1
    <3>2. CASE x.conn.len = 0
      BY <2>2, <2>5, <3>2 DEF Lesser
    <3> QED BY <1>2, <3>1, <3>2
  <2>7. z.conn.len > 0 => r # <<>> /\ Len(r[1].data) = r[1].cap /\ z.conn.len <= r[1].cap
    BY <2>4, <2>6
  <2>8. "REMOTECLOSED" \notin Mine(z).state /\ ("CLOSE" \in Mine(z).state => Mine(z).in = <<>>)
    BY <2>1, <2>2
  <2> QED BY <2>1, <2>2, <2>4, <2>7, <2>8 DEF Paired, r
<1>4. CASE x.conn.app = 0 /\ Dies(x, z)
  <2>1. Full(Mine(z).out)
    BY <1>4 DEF Dies, Full
  <2>2. "CLOSE" \in Mine(x).state => Mine(x).in = <<>>
    BY DEF Paired
  <2>3. /\ z.conn.state = "CLOSED" /\ z.conn.app = NULL /\ ~z.conn.stopped
        /\ Mine(z).in = Mine(x).in
        /\ Mine(z).state = IF Mine(x).in = <<>> THEN {}
                           ELSE (Mine(x).state \ {"RESTART"}) \cup {"REMOTECLOSED"}
    BY <1>4 DEF Dies
  <2>4. "CLOSE" \in Mine(z).state => Mine(z).in = <<>>
    BY <2>2, <2>3
  <2> QED BY <1>6, <2>1, <2>3, <2>4 DEF Paired
<1>5. CASE x.conn.app # 0 /\ Winds(x, z)
  <2>1. /\ Mine(z) = Mine(x) /\ z.conn.app = x.conn.app /\ ~z.conn.stopped
        /\ z.conn.mss = x.conn.mss /\ z.conn.initialmss = x.conn.initialmss
    BY <1>5 DEF Winds, Parallel, SameSock
  <2>2. x.conn.state # "ESTABLISHED"
    BY <1>5 DEF Paired
  <2>3. z.conn.state # "ESTABLISHED" /\ (x.conn.state = "CLOSED" => z.conn.state = "CLOSED")
    BY <1>2, <1>5, <2>2 DEF Winds, TcpStates, Closing
  <2> QED BY <1>5, <2>1, <2>3 DEF Paired
<1>7. CASE x.conn.app # 0 /\ Establishes(x, seg, z)
  <2>1. /\ z.conn.state = "ESTABLISHED" /\ z.conn.app = 0 /\ z.conn.len = 0
        /\ z.conn.mss \in {x.conn.mss, UIP_TCP_MSS}
        /\ z.conn.initialmss \in {x.conn.initialmss, UIP_TCP_MSS}
        /\ Mine(z).out = <<>> /\ Mine(z).state = {"CONNECTED"}
        /\ x.conn.state # "CLOSED"
    BY <1>7 DEF Establishes
  <2>2. Full(Mine(z).out)
    BY <2>1 DEF Full
  <2>3. z.conn.mss \in 1 .. UIP_TCP_MSS /\ z.conn.initialmss = UIP_TCP_MSS
    BY <1>6, <2>1 DEF Paired
  <2>4. ~(z.conn.len > 0) /\ "CLOSE" \notin Mine(z).state /\ "REMOTECLOSED" \notin Mine(z).state
    BY <2>1
  <2> QED BY <2>1, <2>2, <2>3, <2>4 DEF Paired
<1> QED BY <1>3, <1>4, <1>5, <1>7

\* The states a run leads to: which ends it has.
LEMMA RunEnds ==
  ASSUME Base, NEW x, NEW seg, NEW z, RunStep(x, seg, z)
  PROVE  /\ z.conn.remote = x.conn.remote
         /\ \/ x.conn.app = 0 /\ (\/ Idles(x, seg, z) \/ Hears(x, seg, z) \/ FinsFirst(x, seg, z)
                                  \/ FinsBack(x, seg, z) \/ Resends(x, z) \/ Dies(x, z))
            \/ x.conn.app # 0 /\ (Winds(x, z) \/ Establishes(x, seg, z))
<1>1. Runs(x, seg, z)
  BY RunParts
<1>2. \/ x.conn.app = 0 /\ (\/ Idles(x, seg, z) \/ Hears(x, seg, z) \/ FinsFirst(x, seg, z)
                            \/ FinsBack(x, seg, z) \/ Resends(x, z) \/ Dies(x, z))
      \/ x.conn.app # 0 /\ (Winds(x, z) \/ Establishes(x, seg, z))
  BY <1>1 DEF Runs
<1>3. z.conn.remote = x.conn.remote
  <2>1. CASE Idles(x, seg, z)
    BY <2>1 DEF Idles
  <2>2. CASE Hears(x, seg, z) \/ FinsFirst(x, seg, z) \/ FinsBack(x, seg, z)
    BY <2>2 DEF Hears, FinsFirst, FinsBack, Told
  <2>3. CASE Resends(x, z) \/ Dies(x, z)
    BY <2>3 DEF Resends, Dies, SameSide
  <2>4. CASE Winds(x, z) \/ Establishes(x, seg, z)
    BY <2>4 DEF Winds, Establishes, Parallel
  <2> QED BY <1>2, <2>1, <2>2, <2>3, <2>4
<1> QED BY <1>2, <1>3

\* A SYN state, and a connection that was never used, are kept by runs that change
\* nothing else.
LEMMA SynStays ==
  ASSUME Base, NEW x, NEW seg, NEW z, RunStep(x, seg, z),
         z.conn.state \in {"SYN_RCVD", "SYN_SENT"} \/ x.conn.remote = NULL
  PROVE  /\ x.conn.state = z.conn.state /\ Mine(z) = Mine(x)
         /\ z.conn.rcv_nxt = x.conn.rcv_nxt /\ z.conn.snd_nxt = x.conn.snd_nxt
         /\ z.conn.len = x.conn.len
         /\ Bare(z.sends) \/ ("SYN" \in z.sends.flags /\ z.sends.data = <<>>
                                /\ "FIN" \notin z.sends.flags /\ z.sends.seq = x.conn.snd_nxt)
<1>1. /\ x.conn = conn /\ Mine(x) = sock /\ x.conn.state \in TcpStates
      /\ x.conn.state = "ESTABLISHED" <=> x.conn.app = 0
  BY RunParts DEF StreamConn
<1>2. conn.remote = NULL => conn = NewConn /\ z.conn = conn
  BY DEF RunStep, Base, Opening
<1>3. NewConn.state = "CLOSED" /\ NewConn.app = NULL /\ NULL # 0
  BY TcpAssumption DEF NewConn
<1>4. \/ x.conn.app = 0 /\ (\/ Idles(x, seg, z) \/ Hears(x, seg, z) \/ FinsFirst(x, seg, z)
                            \/ FinsBack(x, seg, z) \/ Resends(x, z) \/ Dies(x, z))
      \/ x.conn.app # 0 /\ (Winds(x, z) \/ Establishes(x, seg, z))
  BY RunEnds
<1>5. x.conn.app # 0
  <2>1. CASE x.conn.remote = NULL
    BY <1>1, <1>2, <1>3, <2>1
  <2>2. CASE x.conn.app = 0 /\ z.conn.state \in {"SYN_RCVD", "SYN_SENT"}
    BY <1>1, <1>4, <2>2 DEF Idles, Hears, FinsFirst, FinsBack, Resends, Dies
  <2> QED BY <2>1, <2>2
<1>6. ~Establishes(x, seg, z)
  BY <1>1, <1>2, <1>3 DEF Establishes
<1>7. Winds(x, z)
  BY <1>4, <1>5, <1>6
<1>8. Mine(z) = Mine(x)
  BY <1>7 DEF Winds, Parallel, SameSock
<1>9. CASE x.conn.remote = NULL
  BY <1>1, <1>2, <1>3, <1>7, <1>8, <1>9 DEF Winds, Closing
<1>10. CASE z.conn.state \in {"SYN_RCVD", "SYN_SENT"}
  BY <1>1, <1>5, <1>7, <1>8, <1>10 DEF Winds, Closing, TcpStates
<1> QED BY <1>9, <1>10

\* What a run sends is a segment of ours.
LEMMA SaysRun ==
  ASSUME Base, NEW x, NEW seg, NEW z, RunStep(x, seg, z), ~Bare(z.sends)
  PROVE  Said(z.sends)
<1>1. /\ x.conn = conn /\ x.conn.state \in TcpStates /\ z.sends \in Segs /\ z \in StreamContexts
      /\ x.conn.state = "ESTABLISHED" <=> x.conn.app = 0
  BY RunParts, StreamParts DEF StreamConn
<1>2. z.sends.data \in Seq(Nat) /\ z.sends.seq \in Nat
  BY <1>1 DEF Segs, Bare
<1>3. \/ x.conn.app = 0 /\ (\/ Idles(x, seg, z) \/ Hears(x, seg, z) \/ FinsFirst(x, seg, z)
                            \/ FinsBack(x, seg, z) \/ Resends(x, z) \/ Dies(x, z))
      \/ x.conn.app # 0 /\ (Winds(x, z) \/ Establishes(x, seg, z))
  BY RunEnds
<1>4. CASE IsFin(z.sends)
  BY <1>2, <1>4 DEF IsFin, Said
<1>5. CASE Idles(x, seg, z) \/ Hears(x, seg, z) \/ FinsFirst(x, seg, z) \/ FinsBack(x, seg, z)
  BY <1>4, <1>5 DEF Idles, Hears, FinsFirst, FinsBack
<1>6. CASE Dies(x, z) \/ Establishes(x, seg, z)
  BY <1>6 DEF Dies, Establishes
<1>7. CASE Resends(x, z)
  <2>1. /\ z.sends.flags = {"ACK"}
        /\ z.sends.data = SubSeq(Mine(z).out[1].data, 1, Lesser(z.conn.len, z.slen))
    BY <1>7 DEF Resends, Utterance
  <2>2. z.sends.data # <<>>
    BY <2>1 DEF Bare
  <2> QED BY <1>2, <2>1, <2>2 DEF Said
<1>8. CASE x.conn.app # 0 /\ Winds(x, z)
  <2>1. CASE x.conn.state \in Closing \cup {"LAST_ACK"} /\ IsFin(z.sends)
    BY <1>4, <2>1
  <2>2. CASE /\ x.conn.state \in {"SYN_RCVD", "SYN_SENT"}
             /\ "SYN" \in z.sends.flags /\ "FIN" \notin z.sends.flags
             /\ z.sends.data = <<>> /\ z.sends.seq = x.conn.snd_nxt
    <3>1. conn.snd_nxt = ISS
      BY <1>1, <2>2 DEF Base, Opening
    <3> QED BY <1>1, <1>2, <2>2, <3>1 DEF Said
  <2> QED BY <1>8, <2>1, <2>2 DEF Winds
<1> QED BY <1>3, <1>5, <1>6, <1>7, <1>8

\* A frame is kept only for its data.
LEMMA KeepsRun ==
  ASSUME Base, NEW x, NEW seg, NEW z, RunStep(x, seg, z), z.keep
  PROVE  seg.data # <<>>
<1>1. ~x.keep
  BY RunParts
<1>3. \/ x.conn.app = 0 /\ (\/ Idles(x, seg, z) \/ Hears(x, seg, z) \/ FinsFirst(x, seg, z)
                            \/ FinsBack(x, seg, z) \/ Resends(x, z) \/ Dies(x, z))
      \/ x.conn.app # 0 /\ (Winds(x, z) \/ Establishes(x, seg, z))
  BY RunEnds
<1>4. ~Idles(x, seg, z) /\ ~Resends(x, z) /\ ~Dies(x, z)
  BY DEF Idles, Resends, Dies
<1>5. ~Winds(x, z)
  BY <1>1 DEF Winds, Parallel, SameSock
<1>6. CASE Hears(x, seg, z) \/ FinsFirst(x, seg, z) \/ FinsBack(x, seg, z)
  BY <1>6 DEF Hears, FinsFirst, FinsBack, Told, TakesSeg
<1>7. CASE Establishes(x, seg, z)
  BY <1>7 DEF Establishes
<1> QED BY <1>3, <1>4, <1>5, <1>6, <1>7

\* A connection that is being stopped or closed was so before, and nothing was
\* stored for it.
LEMMA StoppingRun ==
  ASSUME Base, NEW x, NEW seg, NEW z, RunStep(x, seg, z),
         "CLOSE" \in Mine(z).state \/ z.conn.state \in Closing
  PROVE  ("CLOSE" \in sock.state \/ conn.state \in Closing) /\ Mine(z).in = sock.in
<1>1. /\ x.conn = conn /\ Mine(x) = sock /\ x.conn.state \in TcpStates
      /\ x.conn.state = "ESTABLISHED" <=> x.conn.app = 0
  BY RunParts DEF StreamConn
<1>2. Mine(x).state \in SUBSET SockFlags
  BY StreamParts, RunParts
<1>3. \/ x.conn.app = 0 /\ (\/ Idles(x, seg, z) \/ Hears(x, seg, z) \/ FinsFirst(x, seg, z)
                            \/ FinsBack(x, seg, z) \/ Resends(x, z) \/ Dies(x, z))
      \/ x.conn.app # 0 /\ (Winds(x, z) \/ Establishes(x, seg, z))
  BY RunEnds
<1>4. "CLOSE" \in Mine(x).state => InSeg(x, seg) = Mine(x).in
  BY DEF InSeg, StoresSeg, TakesSeg
<1>5. CASE Idles(x, seg, z)
  BY <1>1, <1>5 DEF Idles
<1>6. CASE Hears(x, seg, z)
  <2>1. z.conn.state \notin Closing /\ Mine(z).state \subseteq Mine(x).state /\ Mine(z).in = InSeg(x, seg)
    BY <1>6 DEF Hears, Told, Closing
  <2> QED BY <1>1, <1>4, <2>1
<1>7. CASE FinsFirst(x, seg, z)
  BY <1>1, <1>4, <1>7 DEF FinsFirst, Told
<1>8. CASE FinsBack(x, seg, z)
  <2>1. /\ z.conn.state \notin Closing /\ Mine(z).in = InSeg(x, seg)
        /\ Mine(z).state \subseteq Mine(x).state \cup {"REMOTECLOSED"}
    BY <1>8 DEF FinsBack, Told, Closing
  <2> QED BY <1>1, <1>4, <2>1
<1>9. CASE Resends(x, z)
  BY <1>1, <1>9 DEF Resends, Closing
<1>10. CASE Dies(x, z)
  <2>1. /\ z.conn.state \notin Closing /\ Mine(z).in = Mine(x).in
        /\ Mine(z).state \subseteq Mine(x).state \cup {"REMOTECLOSED"}
    BY <1>10 DEF Dies, Closing
  <2> QED BY <1>1, <2>1
<1>11. CASE x.conn.app # 0 /\ Winds(x, z)
  <2>1. Mine(z) = Mine(x)
    BY <1>11 DEF Winds, Parallel, SameSock
  <2>2. z.conn.state \in Closing => x.conn.state \in Closing
    BY <1>1, <1>11 DEF Winds, Closing, TcpStates
  <2> QED BY <1>1, <2>1, <2>2
<1>12. CASE Establishes(x, seg, z)
  BY <1>12 DEF Establishes, Closing
<1> QED BY <1>3, <1>5, <1>6, <1>7, <1>8, <1>9, <1>10, <1>11, <1>12

\* A step that leaves the sketch and the remote alone keeps Base, if these hold.
LEMMA BaseQuiet ==
  ASSUME Base, Quiet, conn'.remote \in {NULL, peer.remote},
         in_packet' # NULL => Heard(in_packet') /\ in_packet'.data # <<>>,
         \A seg \in net' : Said(seg),
         Paired(conn', sock'), Opening',
         "CLOSE" \in sock'.state \/ conn'.state \in Closing
           => client = NULL /\ call = Idle /\ sock'.in = <<>>
  PROVE  Base'
<1>1. /\ conns' \in [Conns -> StreamConn] /\ \A c \in Conns \ {0} : conns'[c] = NewConn
      /\ socks' \in StreamSocks /\ used' \in Int
      /\ UNCHANGED <<client, call, peer, wrote, got>>
  BY DEF Quiet
<1>2. Heard(in_packet)' <=> Heard(in_packet')
  BY <1>1 DEF Heard
<1>3. (\A seg \in net : Said(seg))'
  BY DEF Said
<1>4. Paired(conn, sock)'
  BY DEF Paired, Full
<1>5. Stopping'
  BY <1>1 DEF Stopping
<1>6. /\ client' \in {0, NULL} /\ call' \in StreamCall
      /\ peer' \in [remote : Remotes, rcvd : Seq(Nat), fin : BOOLEAN]
      /\ wrote' \in Nat /\ wrote' <= SketchLen /\ got' \in Seq(Nat)
  BY <1>1 DEF Base
<1> QED BY <1>1, <1>2, <1>3, <1>4, <1>5, <1>6 DEF Base

\* The opening of a connection is left as it is by a run.
LEMMA OpeningRun ==
  ASSUME Base, NEW x, NEW seg, NEW z, RunStep(x, seg, z)
  PROVE  Opening'
<1>1. /\ x.conn = conn /\ Mine(x) = sock /\ conn' = z.conn /\ sock' = Mine(z)
      /\ UNCHANGED <<client, call, peer, wrote, got>>
      /\ net' = net \/ (net' = net \cup {z.sends} /\ ~Bare(z.sends))
      /\ conn.remote = NULL => conn' = conn
  BY DEF RunStep, Quiet
<1>2. z.conn.remote = conn.remote
  BY <1>1, RunEnds
<1>3. Opening
  BY DEF Base
<1>4. CASE conn'.state \in {"SYN_RCVD", "SYN_SENT"} \/ conn.remote = NULL
  <2>1. /\ conn'.state = conn.state /\ sock' = sock /\ conn'.rcv_nxt = conn.rcv_nxt
        /\ conn'.snd_nxt = conn.snd_nxt /\ conn'.len = conn.len
        /\ Bare(z.sends) \/ "SYN" \in z.sends.flags
    BY <1>1, <1>4, SynStays
  <2>2. Fresh
    BY <1>3, <1>4, <2>1 DEF Opening
  <2>3. Fresh'
    BY <1>1, <2>1, <2>2 DEF Fresh
  <2> QED BY <1>1, <1>2, <1>3, <2>1, <2>3 DEF Opening
<1>5. CASE conn'.state \notin {"SYN_RCVD", "SYN_SENT"} /\ conn.remote # NULL
  BY <1>1, <1>2, <1>5 DEF Opening
<1> QED BY <1>4, <1>5

\* A run of the stack keeps Base.
LEMMA BaseRun ==
  ASSUME Base, NEW x, NEW seg, NEW z, RunStep(x, seg, z)
  PROVE  Base'
<1>1. /\ x.conn = conn /\ Mine(x) = sock /\ conn' = z.conn /\ sock' = Mine(z)
      /\ net' = net \/ (net' = net \cup {z.sends} /\ ~Bare(z.sends))
      /\ in_packet' \in {IF z.keep THEN seg ELSE NULL, in_packet, NULL}
      /\ Heard(seg) /\ Quiet
  BY DEF RunStep
<1>2. conn'.remote \in {NULL, peer.remote}
  BY <1>1, RunEnds DEF Base
<1>3. in_packet' # NULL => Heard(in_packet') /\ in_packet'.data # <<>>
  <2>1. z.keep => seg.data # <<>>
    BY KeepsRun
  <2> QED BY <1>1, <2>1 DEF Base
<1>4. \A s \in net' : Said(s)
  <2>1. ~Bare(z.sends) => Said(z.sends)
    BY SaysRun
  <2> QED BY <1>1, <2>1 DEF Base
<1>5. Paired(conn', sock')
  <2>1. /\ x \in StreamContexts /\ z \in StreamContexts /\ Proper(seg) /\ Paired(x.conn, Mine(x))
    BY RunParts
  <2> QED BY <1>1, <2>1, RunEnds, PairedSegment, PairedOther
<1>6. Opening'
  BY OpeningRun
<1>7. "CLOSE" \in sock'.state \/ conn'.state \in Closing
        => client = NULL /\ call = Idle /\ sock'.in = <<>>
  BY <1>1, StoppingRun DEF Base, Stopping
<1> QED BY <1>1, <1>2, <1>3, <1>4, <1>5, <1>6, <1>7, BaseQuiet

\* So does the answer to an opening SYN.
LEMMA BaseListen ==
  ASSUME Base, ListenStep
  PROVE  Base'
<1>1. /\ conn = NewConn /\ Fresh
      /\ conn'.state = "SYN_RCVD" /\ ~conn'.stopped /\ conn'.remote = peer.remote
      /\ conn'.snd_nxt = ISS /\ conn'.rcv_nxt = Offset(PeerISS, 1) /\ conn'.len = 1
      /\ conn'.mss = UIP_TCP_MSS /\ conn'.initialmss = UIP_TCP_MSS /\ conn'.app = NULL
      /\ sock' = sock /\ in_packet' = NULL /\ Quiet
  BY DEF ListenStep
<1>2. \/ net' = net
      \/ \E s : /\ net' = net \cup {s}
                /\ s.flags = {"SYN", "ACK"} /\ s.data = <<>> /\ s.seq = ISS
  BY DEF ListenStep
<1>3. NULL # 0 /\ UIP_TCP_MSS \in 1 .. UIP_TCP_MSS /\ ISS \in Nat /\ peer.remote # NULL
  BY TcpAssumption DEF Base, Remotes
<1>4. \A s \in net' : Said(s)
  <2>1. ASSUME NEW s, s.flags = {"SYN", "ACK"}, s.data = <<>>, s.seq = ISS
        PROVE  Said(s)
    <3>1. <<>> \in Seq(Nat)
      OBVIOUS
    <3> QED BY <1>3, <2>1, <3>1 DEF Said
  <2> QED BY <1>2, <2>1 DEF Base
<1>5. sock = NewSock /\ NewSock.state = {} /\ NewSock.in = <<>> /\ NewSock.out = <<>>
  BY <1>1 DEF Fresh, NewSock
<1>6. Paired(conn', sock')
  BY <1>1, <1>3, <1>5 DEF Paired, Full
<1>7. Fresh'
  BY <1>1, <1>2 DEF Fresh, Quiet
<1>8. Opening'
  <2>1. conn'.remote # NULL
    BY <1>1, <1>3
  <2> QED BY <1>1, <1>7, <2>1 DEF Opening, Quiet
<1>9. "CLOSE" \notin sock'.state /\ conn'.state \notin Closing
  BY <1>1, <1>5 DEF Closing
<1> QED BY <1>1, <1>4, <1>6, <1>8, <1>9, BaseQuiet

\* The parts of Base that the sketch's calls depend on.
LEMMA BaseParts ==
  ASSUME Base
  PROVE  /\ 0 \in Conns /\ 0 \in Socks /\ NULL # 0
         /\ socks \in [Socks -> StreamSock] /\ \A s \in Socks \ {0} : socks[s] = NewSock
         /\ conn \in StreamConn /\ sock \in StreamSock
         /\ sock.state \in SUBSET SockFlags /\ sock.in \in Seq(Seq(Nat))
         /\ sock.out \in Seq(StreamBlock) /\ sock.lport \in BOOLEAN
         /\ Paired(conn, sock) /\ Opening /\ Stopping
<1>1. 0 \in Conns /\ 0 \in Socks /\ NULL # 0
  BY TcpAssumption DEF Conns, Socks
<1>2. socks \in [Socks -> StreamSock] /\ \A s \in Socks \ {0} : socks[s] = NewSock
  BY DEF Base, StreamSocks
<1>3. conn \in StreamConn /\ sock \in StreamSock
  BY <1>1, <1>2 DEF Base, conn, sock
<1>4. sock.state \in SUBSET SockFlags /\ sock.in \in Seq(Seq(Nat))
      /\ sock.out \in Seq(StreamBlock) /\ sock.lport \in BOOLEAN
  BY <1>3 DEF StreamSock
<1> QED BY <1>1, <1>2, <1>3, <1>4 DEF Base

\* The remote receives a segment.
LEMMA BasePeer ==
  ASSUME Base, NEW seg \in net, PeerReceive(seg)
  PROVE  Base'
<1>1. /\ peer' = [peer EXCEPT !.rcvd = @ \o seg.data, !.fin = "FIN" \in seg.flags]
      /\ UNCHANGED <<conns, socks, used, in_packet, net, client, call, wrote, got>>
      /\ ~peer.fin
  BY DEF PeerReceive, vars
<1>2. Said(seg) /\ seg.data \in Seq(Nat)
  BY DEF Base, Said
<1>3. peer \in [remote : Remotes, rcvd : Seq(Nat), fin : BOOLEAN]
  BY DEF Base
<1>4. /\ peer'.remote = peer.remote /\ peer'.rcvd = peer.rcvd \o seg.data
      /\ peer'.fin = ("FIN" \in seg.flags)
      /\ peer' \in [remote : Remotes, rcvd : Seq(Nat), fin : BOOLEAN]
  <2>1. peer.rcvd \o seg.data \in Seq(Nat) /\ ("FIN" \in seg.flags) \in BOOLEAN
    BY <1>2, <1>3
  <2> QED BY <1>1, <1>3, <2>1
<1>5. UNCHANGED <<conn, sock>>
  BY <1>1 DEF conn, sock
<1>6. Fresh => Fresh'
  <2> SUFFICES ASSUME Fresh PROVE Fresh'
    OBVIOUS
  <2>1. "SYN" \in seg.flags /\ peer.rcvd = <<>>
    BY DEF Fresh
  <2>2. seg.data = <<>> /\ "FIN" \notin seg.flags
    BY <1>2, <2>1 DEF Said
  <2>3. peer'.rcvd = <<>> /\ ~peer'.fin
    BY <1>4, <2>1, <2>2
  <2> QED BY <1>1, <1>5, <2>3 DEF Fresh
<1>7. Opening'
  BY <1>5, <1>6 DEF Base, Opening
<1>8. in_packet # NULL => Heard(in_packet)'
  <2> SUFFICES ASSUME in_packet # NULL PROVE Heard(in_packet)'
    OBVIOUS
  <2> DEFINE M == Len(peer.rcvd) + (IF peer.fin THEN 1 ELSE 0)
             P == Len(peer'.rcvd) + (IF peer'.fin THEN 1 ELSE 0)
  <2>1. M \in Nat /\ P \in Nat /\ M <= P
    <3>1. Len(peer'.rcvd) = Len(peer.rcvd) + Len(seg.data) /\ Len(seg.data) \in Nat /\ Len(peer.rcvd) \in Nat
      BY <1>2, <1>3, <1>4
    <3> DEFINE a == Len(peer.rcvd)
               b == Len(peer'.rcvd)
               k == IF peer.fin THEN 1 ELSE 0
               e == IF peer'.fin THEN 1 ELSE 0
               l == Len(seg.data)
    <3>2. k = 0 /\ e \in {0, 1} /\ M = a + k /\ P = b + e
      BY <1>1
    <3>3. a \in Nat /\ l \in Nat /\ b = a + l
      BY <3>1
    <3> HIDE DEF a, b, k, e, M, P, l
    <3> QED BY <3>2, <3>3
  <2>2. Heard(in_packet) /\ UNCHANGED in_packet
    BY <1>1 DEF Base
  <2>3. 0 .. M \subseteq 0 .. P
    <3> HIDE DEF M, P
    <3> QED BY <2>1
  <2> DEFINE s == in_packet
             A(N) == "ACK" \in s.flags => \E n \in 0 .. N : s.ack = Offset(ISS, 1 + n)
             H(a) ==
               /\ s.remote = a /\ s.mss = UIP_TCP_MSS /\ s.wnd \in Windows \cup {UIP_TCP_MSS}
               /\ s.flags \in {{"SYN"}, {"SYN", "ACK"}, {"ACK"}, {"FIN", "ACK"}}
               /\ s.data \in Seq(Nat) /\ s.seq \in 0 .. SeqSize - 1 /\ s.ack \in 0 .. SeqSize - 1
               /\ "SYN" \in s.flags => s.seq = PeerISS /\ s.data = <<>>
               /\ "SYN" \notin s.flags =>
                    \E i \in 0 .. PeerLen :
                      /\ s.seq = Offset(PeerISS, 1 + i) /\ i + Len(s.data) <= PeerLen
                      /\ Follows(s.data, i)
  <2>4. A(M) /\ H(peer.remote)
    BY <2>2 DEF Heard
  <2>5. A(P)
    <3> HIDE DEF M, P
    <3> QED BY <2>3, <2>4
  <2>6. A(P) /\ H(peer'.remote) => Heard(in_packet)'
    BY <2>2 DEF Heard
  <2>7. H(peer'.remote)
    BY <1>4, <2>4
  <2> QED BY <2>5, <2>6, <2>7
<1>9. Stopping' /\ Paired(conn, sock)'
  BY <1>1, <1>5 DEF Base, Stopping, Paired, Full
<1>10. (\A s \in net : Said(s))'
  BY <1>1 DEF Base, Said
<1>11. conns' \in [Conns -> StreamConn] /\ (\A c \in Conns \ {0} : conns[c] = NewConn)'
       /\ socks' \in StreamSocks /\ used' \in Int /\ client' \in {0, NULL} /\ call' \in StreamCall
       /\ wrote' \in Nat /\ wrote' <= SketchLen /\ got' \in Seq(Nat) /\ conn'.remote \in {NULL, peer'.remote}
  BY <1>1, <1>4, <1>5 DEF Base
<1>12. in_packet' # NULL => in_packet'.data # <<>>
  BY <1>1 DEF Base
<1> QED BY <1>1, <1>4, <1>7, <1>8, <1>9, <1>10, <1>11, <1>12 DEF Base

\* A call of the sketch that leaves the connection, the remote and the network alone.
LEMMA BaseCall ==
  ASSUME Base, UNCHANGED <<conns, in_packet, net, peer>>,
         socks' \in StreamSocks, used' \in Int, client' \in {0, NULL}, call' \in StreamCall,
         wrote' \in Nat, wrote' <= SketchLen, got' \in Seq(Nat),
         Paired(conn, sock'), ~Fresh \/ Fresh',
         "CLOSE" \in sock'.state \/ conn.state \in Closing
           => client' = NULL /\ call' = Idle /\ sock'.in = <<>>
  PROVE  Base'
<1>1. UNCHANGED conn
  BY DEF conn
<1>2. Opening'
  BY <1>1 DEF Base, Opening
<1>3. Stopping' /\ Paired(conn, sock)'
  BY <1>1 DEF Stopping, Paired, Full
<1>4. in_packet' # NULL => Heard(in_packet)' /\ in_packet'.data # <<>>
  BY DEF Base, Heard
<1>5. (\A s \in net : Said(s))'
  BY DEF Base, Said
<1> QED BY <1>1, <1>2, <1>3, <1>4, <1>5 DEF Base

\* connect() begins.
LEMMA OpensIs ==
  ASSUME Base, Opens
  PROVE  /\ conn = NewConn /\ Fresh
         /\ UNCHANGED <<socks, used, in_packet, net, client, peer, wrote, got>>
         /\ conns' \in [Conns -> StreamConn] /\ (\A d \in Conns \ {0} : conns[d] = NewConn)'
         /\ sock' = sock /\ call = Idle /\ client = NULL
         /\ conn'.state = "SYN_SENT" /\ ~conn'.stopped /\ conn'.remote = peer.remote
         /\ conn'.snd_nxt = ISS /\ conn'.len = 1
         /\ conn'.mss = UIP_TCP_MSS /\ conn'.initialmss = UIP_TCP_MSS /\ conn'.app = NULL
         /\ call' = [op |-> "connect", conn |-> 0]
<1>1. /\ conn.remote = NULL /\ call = Idle /\ client = NULL /\ peer.remote \in Outbound
      /\ UNCHANGED <<socks, used, in_packet, net, client, peer, wrote, got>>
  BY DEF Opens, Connect, streamVars
<1>0. PICK r : r = peer.remote /\ Connect(r)
  BY DEF Opens
<1>2. PICK c \in Conns :
        /\ Slot(c)
        /\ conns' = [conns EXCEPT ![c] =
            [@ EXCEPT !.state = "SYN_SENT", !.stopped = FALSE, !.remote = r, !.snd_nxt = ISS,
                      !.len = 1, !.nrtx = 0, !.mss = UIP_TCP_MSS, !.initialmss = UIP_TCP_MSS]]
        /\ call' = [op |-> "connect", conn |-> c]
  BY <1>0 DEF Connect
<1>3. conn = NewConn /\ Fresh
  BY <1>1 DEF Base, Opening
<1>4. c = 0
  <2> DEFINE closed == {d \in Conns : Closed(d)}
  <2>1. 0 \in closed
    BY <1>3, BaseParts DEF Closed, conn, NewConn
  <2>2. \A s \in closed : s \in Nat
    BY TcpAssumption DEF Conns
  <2>3. c = Least(closed)
    BY <1>2, <2>1 DEF Slot
  <2> HIDE DEF closed
  <2> QED BY <2>1, <2>2, <2>3, LeastZero
<1> DEFINE n == [conn EXCEPT !.state = "SYN_SENT", !.stopped = FALSE, !.remote = r, !.snd_nxt = ISS,
                      !.len = 1, !.nrtx = 0, !.mss = UIP_TCP_MSS, !.initialmss = UIP_TCP_MSS]
<1>5. conns' = [conns EXCEPT ![0] = n]
  BY <1>2, <1>4 DEF conn
<1>6. /\ n \in StreamConn /\ n.state = "SYN_SENT" /\ ~n.stopped /\ n.remote = peer.remote
      /\ n.snd_nxt = ISS /\ n.len = 1 /\ n.mss = UIP_TCP_MSS /\ n.initialmss = UIP_TCP_MSS
      /\ n.app = NULL
  <2>1. conn \in StreamConn /\ conn.app = NULL
    BY <1>3, BaseParts DEF NewConn
  <2>2. "SYN_SENT" \in TcpStates /\ peer.remote \in Remotes /\ ISS \in 0 .. SeqSize - 1 /\ UIP_TCP_MSS \in Nat
    BY TcpAssumption DEF TcpStates, Base
  <2> QED BY <1>0, <2>1, <2>2 DEF StreamConn
<1> HIDE DEF n
<1>7. /\ conns' \in [Conns -> StreamConn] /\ (\A d \in Conns \ {0} : conns[d] = NewConn)'
      /\ conn' = n /\ sock' = sock
  BY <1>1, <1>5, <1>6, BaseParts DEF Base, conn, sock
<1> QED BY <1>1, <1>2, <1>3, <1>4, <1>6, <1>7

\* That keeps Base.
LEMMA BaseOpens ==
  ASSUME Base, Opens
  PROVE  Base'
<1>1. /\ conn = NewConn /\ Fresh
      /\ UNCHANGED <<socks, used, in_packet, net, client, peer, wrote, got>>
      /\ conns' \in [Conns -> StreamConn] /\ (\A d \in Conns \ {0} : conns[d] = NewConn)'
      /\ sock' = sock /\ call = Idle /\ client = NULL
      /\ conn'.state = "SYN_SENT" /\ ~conn'.stopped /\ conn'.remote = peer.remote
      /\ conn'.snd_nxt = ISS /\ conn'.len = 1
      /\ conn'.mss = UIP_TCP_MSS /\ conn'.initialmss = UIP_TCP_MSS /\ conn'.app = NULL
      /\ call' = [op |-> "connect", conn |-> 0]
  BY OpensIs
<1>8. call' \in StreamCall /\ call'.op # "write"
  BY <1>1 DEF StreamCall
<1>9. Fresh'
  BY <1>1, <1>8 DEF Fresh
<1>10. peer.remote # NULL /\ UIP_TCP_MSS \in 1 .. UIP_TCP_MSS
  BY TcpAssumption DEF Base, Remotes
<1>11. Opening'
  BY <1>1, <1>9, <1>10 DEF Opening
<1>12. sock = NewSock /\ NewSock.state = {} /\ NewSock.in = <<>> /\ NewSock.out = <<>>
  BY <1>1 DEF Fresh, NewSock
<1>13. Paired(conn, sock)'
  BY <1>1, <1>10, <1>12, BaseParts DEF Paired, Full
<1>14. Stopping'
  BY <1>1, <1>12 DEF Stopping, Closing
<1>15. in_packet' # NULL => Heard(in_packet)' /\ in_packet'.data # <<>>
  BY <1>1 DEF Base, Heard
<1>16. (\A s \in net : Said(s))'
  BY <1>1 DEF Base, Said
<1> QED BY <1>1, <1>8, <1>11, <1>13, <1>14, <1>15, <1>16 DEF Base

\* accept(): the socket of the connection has data.
LEMMA BaseAccept ==
  ASSUME Base, Accept, UNCHANGED streamVars
  PROVE  Base'
<1>1. /\ call = Idle /\ UNCHANGED <<conns, socks, used, in_packet, net, call, peer, wrote, got>>
  BY DEF Accept, stackVars, streamVars
<1>2. PICK s \in Socks : Available(s) /\ client' = s
  BY DEF Accept
<1>3. s = 0
  <2>1. socks[s].in # <<>>
    BY <1>2 DEF Available
  <2> QED BY <2>1, BaseParts DEF NewSock
<1>4. sock.in # <<>>
  BY <1>2, <1>3 DEF Available, sock
<1>5. "CLOSE" \notin sock.state /\ conn.state \notin Closing
  BY <1>4 DEF Base, Stopping
<1>6. ~Fresh
  BY <1>4 DEF Fresh, NewSock
<1>7. UNCHANGED sock
  BY <1>1 DEF sock
<1>8. /\ socks' \in StreamSocks /\ used' \in Int /\ call' \in StreamCall /\ wrote' \in Nat
      /\ wrote' <= SketchLen /\ got' \in Seq(Nat) /\ Paired(conn, sock')
  BY <1>1, <1>7 DEF Base
<1> QED BY <1>1, <1>2, <1>3, <1>5, <1>6, <1>7, <1>8, BaseCall

\* The sketch has a client: the connection is in use and not being stopped.
LEMMA ClientIs ==
  ASSUME Base, client # NULL
  PROVE  client = 0 /\ ~Fresh /\ "CLOSE" \notin sock.state /\ conn.state \notin Closing
BY DEF Base, Stopping, Fresh

\* What read() leaves.
LEMMA ReadIs ==
  ASSUME Base, NEW n \in ReadSizes, Read(n)
  PROVE  /\ client = 0 /\ call = Idle /\ sock.in # <<>> /\ sock.in[1] \in Seq(Nat)
         /\ socks' = [socks EXCEPT ![0] = sock'] /\ sock' \in StreamSock /\ used' \in Int
         /\ sock'.out = sock.out /\ client' \in {0, NULL}
         /\ UNCHANGED <<conns, in_packet, net, call>>
         /\ IF n < Len(sock.in[1])
              THEN /\ sock'.in = [sock.in EXCEPT ![1] = SubSeq(@, n + 1, Len(@))]
                   /\ sock'.state = sock.state
              ELSE /\ sock'.in = Tail(sock.in)
                   /\ sock'.state =
                        IF Tail(sock.in) = <<>> /\ "REMOTECLOSED" \in sock.state THEN {}
                        ELSE IF conn.stopped /\ sock.state \cap {"CLOSE", "REMOTECLOSED"} = {}
                          THEN sock.state \cup {"RESTART"}
                        ELSE sock.state
<1>1. client = 0
  BY ClientIs DEF Read, Usable
<1> DEFINE rest == Tail(sock.in)
           freed == rest = <<>> /\ "REMOTECLOSED" \in sock.state
           restart == conn.stopped /\ sock.state \cap {"CLOSE", "REMOTECLOSED"} = {}
           first == [sock.in EXCEPT ![1] = SubSeq(@, n + 1, Len(@))]
           flags == IF freed THEN {} ELSE IF restart THEN sock.state \cup {"RESTART"} ELSE sock.state
           cut == [sock EXCEPT !.in = first]
           left == [sock EXCEPT !.in = rest, !.state = flags]
<1>2. /\ call = Idle /\ sock.in # <<>> /\ UNCHANGED <<conns, in_packet, net, call>>
      /\ IF n < Len(sock.in[1])
           THEN socks' = [socks EXCEPT ![0] = cut] /\ UNCHANGED <<used, client>>
           ELSE /\ socks' = [socks EXCEPT ![0] = left] /\ used' = used - 1
                /\ client' = IF freed THEN NULL ELSE client
  <2>1. /\ call = Idle /\ socks[0].in # <<>> /\ UNCHANGED <<conns, in_packet, net, call>>
        /\ IF n < Len(socks[0].in[1])
             THEN /\ socks' = [socks EXCEPT ![0].in[1] = SubSeq(@, n + 1, Len(@))]
                  /\ UNCHANGED <<used, client>>
             ELSE /\ socks' = [socks EXCEPT ![0] = left]
                  /\ used' = used - 1
                  /\ client' = IF freed THEN NULL ELSE client
    BY <1>1 DEF Read, sock, conn
  <2>2. [socks EXCEPT ![0].in[1] = SubSeq(@, n + 1, Len(@))] = [socks EXCEPT ![0] = cut]
    BY DEF sock
  <2> HIDE DEF left, cut, freed
  <2> QED BY <2>1, <2>2 DEF sock
<1>3. sock \in StreamSock /\ 0 \in Socks /\ socks \in [Socks -> StreamSock]
      /\ sock.in \in Seq(Seq(Nat)) /\ sock.state \in SUBSET SockFlags
  BY BaseParts
<1>4. sock.in[1] \in Seq(Nat) /\ rest \in Seq(Seq(Nat))
  <2> DEFINE q == sock.in
  <2>1. q \in Seq(Seq(Nat)) /\ q # <<>>
    BY <1>2, <1>3
  <2> HIDE DEF q
  <2>2. q[1] \in Seq(Nat) /\ Tail(q) \in Seq(Seq(Nat))
    BY <2>1
  <2> QED BY <2>2 DEF q
<1>5. CASE n < Len(sock.in[1])
  <2>1. first \in Seq(Seq(Nat))
    <3> DEFINE q == sock.in
               e == SubSeq(q[1], n + 1, Len(q[1]))
    <3>1. n \in Nat /\ q \in Seq(Seq(Nat)) /\ q # <<>> /\ q[1] \in Seq(Nat)
      BY <1>2, <1>3, <1>4, StreamAssumption
    <3>2. e \in Seq(Nat) /\ first = [q EXCEPT ![1] = e]
      BY <3>1, SMTT(40)
    <3> HIDE DEF e, q, first
    <3> QED BY <3>1, <3>2
  <2> HIDE DEF first
  <2>2. /\ cut \in StreamSock /\ cut.in = first /\ cut.out = sock.out /\ cut.state = sock.state
    BY <1>3, <2>1 DEF StreamSock
  <2> HIDE DEF cut
  <2>3. socks' = [socks EXCEPT ![0] = cut] /\ sock' = cut
    BY <1>2, <1>3, <1>5 DEF sock
  <2>4. used' \in Int /\ client' \in {0, NULL}
    BY <1>1, <1>2, <1>5 DEF Base
  <2> QED BY <1>1, <1>2, <1>4, <1>5, <2>2, <2>3, <2>4 DEF first
<1>6. CASE ~(n < Len(sock.in[1]))
  <2>1. flags \in SUBSET SockFlags
    BY <1>3 DEF SockFlags
  <2>2. flags = IF Tail(sock.in) = <<>> /\ "REMOTECLOSED" \in sock.state THEN {}
                ELSE IF conn.stopped /\ sock.state \cap {"CLOSE", "REMOTECLOSED"} = {}
                  THEN sock.state \cup {"RESTART"}
                ELSE sock.state
    OBVIOUS
  <2> HIDE DEF flags
  <2>3. /\ left \in StreamSock /\ left.in = rest /\ left.out = sock.out /\ left.state = flags
    BY <1>3, <1>4, <2>1 DEF StreamSock
  <2> HIDE DEF left
  <2>4. socks' = [socks EXCEPT ![0] = left] /\ sock' = left
    BY <1>2, <1>3, <1>6 DEF sock
  <2>5. used' \in Int /\ client' \in {0, NULL}
    BY <1>1, <1>2, <1>6 DEF Base
  <2> QED BY <1>1, <1>2, <1>4, <1>6, <2>2, <2>3, <2>4, <2>5
<1> QED BY <1>5, <1>6

\* accept() and read() keep Base.
LEMMA BaseReads ==
  ASSUME Base, Reads
  PROVE  Base'
<1>1. CASE Accept /\ UNCHANGED streamVars
  BY <1>1, BaseAccept
<1>2. CASE \E n \in ReadSizes :
             /\ Read(n)
             /\ got' = got \o SubSeq(sock.in[1], 1, Lesser(n, Len(sock.in[1])))
             /\ UNCHANGED <<peer, wrote>>
  <2>1. PICK n \in ReadSizes :
               /\ Read(n)
               /\ got' = got \o SubSeq(sock.in[1], 1, Lesser(n, Len(sock.in[1])))
               /\ UNCHANGED <<peer, wrote>>
    BY <1>2
  <2> DEFINE d == sock.in[1]
             k == Lesser(n, Len(d))
             e == SubSeq(d, 1, k)
  <2>2. /\ client = 0 /\ call = Idle /\ sock.in # <<>> /\ d \in Seq(Nat)
        /\ socks' = [socks EXCEPT ![0] = sock'] /\ sock' \in StreamSock /\ used' \in Int
        /\ sock'.out = sock.out /\ client' \in {0, NULL}
        /\ UNCHANGED <<conns, in_packet, net, call>>
        /\ sock'.state \subseteq sock.state \cup {"RESTART"}
    BY <2>1, ReadIs
  <2>3. got' \in Seq(Nat)
    <3>1. got \in Seq(Nat) /\ got' = got \o e /\ n \in Nat
      BY <2>1, StreamAssumption DEF Base
    <3>2. e \in Seq(Nat)
      <4>1. d \in Seq(Nat) /\ Len(d) \in Nat
        BY <2>2
      <4>2. k \in Nat /\ k <= Len(d)
        <5> DEFINE m == Len(d)
        <5>1. m \in Nat /\ k = Lesser(n, m)
          BY <4>1
        <5> HIDE DEF m
        <5> QED BY <3>1, <5>1 DEF Lesser
      <4> HIDE DEF k, d
      <4>3. SubSeq(d, 1, k) \in Seq(Nat)
        BY <4>1, <4>2
      <4> QED BY <4>3
    <3> HIDE DEF e
    <3> QED BY <3>1, <3>2
  <2>4. ~Fresh /\ "CLOSE" \notin sock.state /\ conn.state \notin Closing
    BY <2>2, ClientIs, BaseParts
  <2>5. "CLOSE" \notin sock'.state
    BY <2>2, <2>4
  <2>6. Paired(conn, sock')
    <3>1. Paired(conn, sock)
      BY BaseParts
    <3>2. "REMOTECLOSED" \in sock'.state => "REMOTECLOSED" \in sock.state
      BY <2>2
    <3> QED BY <2>2, <2>5, <3>1, <3>2 DEF Paired
  <2>7. socks' \in StreamSocks
    <3>1. socks \in StreamSocks
      BY DEF Base
    <3>2. [socks EXCEPT ![0] = sock'] \in StreamSocks
      BY <2>2, <3>1, SocksWith
    <3> QED BY <2>2, <3>2
  <2>8. call' \in StreamCall /\ wrote' \in Nat /\ wrote' <= SketchLen
    BY <2>1, <2>2 DEF Base
  <2> QED BY <2>1, <2>2, <2>3, <2>4, <2>5, <2>6, <2>7, <2>8, BaseCall
<1> QED BY <1>1, <1>2 DEF Reads

\* So do the calls that begin to write and those that close.
LEMMA BaseWrites ==
  ASSUME Base, Writes
  PROVE  Base'
<1>1. PICK n \in WriteSizes :
        /\ wrote + n <= SketchLen
        /\ Write([k \in 1 .. n |-> wrote + k])
        /\ wrote' = wrote + n
        /\ UNCHANGED <<peer, got>>
  BY DEF Writes
<1> DEFINE d == [k \in 1 .. n |-> wrote + k]
<1>2. /\ call = Idle /\ client = 0 /\ call' = [op |-> "write", sock |-> 0, data |-> d]
      /\ UNCHANGED <<conns, socks, used, in_packet, net, client>>
  BY <1>1, ClientIs DEF Write, IsConnected, stackVars
<1>3. n \in Nat \ {0} /\ wrote \in Nat
  BY <1>1, StreamAssumption DEF Base
<1>4. d \in Seq(Nat) \ {<<>>}
  BY <1>3
<1>5. call' \in StreamCall
  <2> HIDE DEF d
  <2> QED BY <1>2, <1>4 DEF StreamCall
<1>6. ~Fresh /\ "CLOSE" \notin sock.state /\ conn.state \notin Closing
  BY <1>2, ClientIs, BaseParts
<1>7. UNCHANGED sock
  BY <1>2 DEF sock
<1>8. /\ socks' \in StreamSocks /\ used' \in Int /\ client' \in {0, NULL} /\ got' \in Seq(Nat)
      /\ Paired(conn, sock')
  BY <1>1, <1>2, <1>7 DEF Base
<1>9. wrote' \in Nat /\ wrote' <= SketchLen
  BY <1>1, <1>3
<1> QED BY <1>1, <1>2, <1>5, <1>6, <1>7, <1>8, <1>9, BaseCall

\* What stop() leaves.
LEMMA StopIs ==
  ASSUME Base, Stop
  PROVE  /\ client = 0 /\ call = Idle /\ client' = NULL
         /\ socks' = [socks EXCEPT ![0] = sock'] /\ sock' \in StreamSock /\ used' \in Int
         /\ UNCHANGED <<conns, in_packet, net, call>>
         /\ sock'.out = sock.out
         /\ \/ sock.state = {} /\ sock' = sock
            \/ /\ sock'.in = <<>>
               /\ sock'.state = IF "REMOTECLOSED" \in sock.state THEN {} ELSE sock.state \cup {"CLOSE"}
<1>1. client = 0
  BY ClientIs DEF Stop
<1>3. sock \in StreamSock /\ 0 \in Socks /\ socks \in [Socks -> StreamSock]
      /\ sock.in \in Seq(Seq(Nat)) /\ sock.state \in SUBSET SockFlags
  BY BaseParts
<1> DEFINE flags == IF "REMOTECLOSED" \in sock.state THEN {} ELSE sock.state \cup {"CLOSE"}
           left == [sock EXCEPT !.in = <<>>, !.state = flags]
<1>4. call = Idle /\ client' = NULL /\ UNCHANGED <<conns, in_packet, net, call>>
      /\ IF sock.state = {} THEN UNCHANGED <<socks, used>>
         ELSE socks' = [socks EXCEPT ![0] = left] /\ used' = used - Len(sock.in)
  BY <1>1 DEF Stop, sock
<1>5. used' \in Int
  <2>1. used \in Int /\ Len(sock.in) \in Int
    BY <1>3 DEF Base
  <2> QED BY <1>4, <2>1
<1>6. CASE sock.state = {}
  BY <1>1, <1>3, <1>4, <1>5, <1>6 DEF sock
<1>7. CASE sock.state # {}
  <2>1. flags \in SUBSET SockFlags /\ <<>> \in Seq(Seq(Nat))
    BY <1>3 DEF SockFlags
  <2>2. flags = IF "REMOTECLOSED" \in sock.state THEN {} ELSE sock.state \cup {"CLOSE"}
    OBVIOUS
  <2> HIDE DEF flags
  <2>3. left \in StreamSock /\ left.in = <<>> /\ left.out = sock.out /\ left.state = flags
    BY <1>3, <2>1 DEF StreamSock
  <2> HIDE DEF left
  <2>4. socks' = [socks EXCEPT ![0] = left] /\ sock' = left
    BY <1>3, <1>4, <1>7 DEF sock
  <2> QED BY <1>1, <1>4, <1>5, <2>2, <2>3, <2>4
<1> QED BY <1>6, <1>7

\* stop() keeps Base: nothing that was received stays.
LEMMA BaseCloses ==
  ASSUME Base, Closes
  PROVE  Base'
<1>1. /\ client = 0 /\ call = Idle /\ client' = NULL
      /\ socks' = [socks EXCEPT ![0] = sock'] /\ sock' \in StreamSock /\ used' \in Int
      /\ UNCHANGED <<conns, in_packet, net, call, peer, wrote, got>>
      /\ sock'.out = sock.out
      /\ \/ sock.state = {} /\ sock' = sock
         \/ /\ sock'.in = <<>>
            /\ sock'.state = IF "REMOTECLOSED" \in sock.state THEN {} ELSE sock.state \cup {"CLOSE"}
  BY StopIs DEF Closes, streamVars
<1>2. ~Fresh /\ "CLOSE" \notin sock.state /\ conn.state \notin Closing
  BY <1>1, ClientIs, BaseParts
<1>3. Paired(conn, sock)
  BY BaseParts
<1>4. "REMOTECLOSED" \in sock'.state => "REMOTECLOSED" \in sock.state
  BY <1>1
<1>5. "CLOSE" \in sock'.state => sock'.in = <<>>
  BY <1>1
<1>6. Paired(conn, sock')
  BY <1>1, <1>3, <1>4, <1>5 DEF Paired
<1>7. socks' \in StreamSocks
  <2>1. socks \in StreamSocks
    BY DEF Base
  <2>2. [socks EXCEPT ![0] = sock'] \in StreamSocks
    BY <1>1, <2>1, SocksWith
  <2> QED BY <1>1, <2>2
<1>8. call' \in StreamCall /\ wrote' \in Nat /\ wrote' <= SketchLen /\ got' \in Seq(Nat)
  BY <1>1 DEF Base
<1> QED BY <1>1, <1>2, <1>5, <1>6, <1>7, <1>8, BaseCall

\* connect() returns.
LEMMA BaseConnectReturn ==
  ASSUME Base, ConnectReturn, UNCHANGED streamVars
  PROVE  Base'
<1>1. /\ call.op = "connect" /\ conns[call.conn].state \in {"CLOSED", "ESTABLISHED"}
      /\ client' = IF conns[call.conn].state = "ESTABLISHED" THEN conns[call.conn].app ELSE NULL
      /\ call' = Idle
      /\ UNCHANGED <<conns, socks, used, in_packet, net, peer, wrote, got>>
  BY DEF ConnectReturn, ConnectDone, stackVars, streamVars
<1>2. call.conn = 0 /\ call # Idle
  BY <1>1 DEF Base, StreamCall, Idle
<1>3. /\ conn.state \in {"CLOSED", "ESTABLISHED"}
      /\ client' = IF conn.state = "ESTABLISHED" THEN conn.app ELSE NULL
  BY <1>1, <1>2 DEF conn
<1>4. "CLOSE" \notin sock.state /\ conn.state \notin Closing
  BY <1>2 DEF Base, Stopping
<1>5. client' \in {0, NULL}
  BY <1>3, BaseParts DEF Paired
<1>6. UNCHANGED <<conn, sock>>
  BY <1>1 DEF conn, sock
<1>7. Opening'
  <2>1. Opening
    BY BaseParts
  <2>2. conn.remote = NULL => client' = NULL
    BY <1>3, <2>1 DEF Opening, NewConn
  <2>3. conn.remote = NULL => Fresh'
    BY <1>1, <1>6, <2>1, <2>2 DEF Opening, Fresh, Idle
  <2>4. conn.state \notin {"SYN_RCVD", "SYN_SENT"}
    BY <1>3
  <2> QED BY <1>6, <2>1, <2>3, <2>4 DEF Opening
<1>8. /\ socks' \in StreamSocks /\ used' \in Int /\ call' \in StreamCall /\ wrote' \in Nat
      /\ wrote' <= SketchLen /\ got' \in Seq(Nat)
  BY <1>1 DEF Base, StreamCall
<1>9. Stopping' /\ Paired(conn, sock)'
  BY <1>4, <1>6, BaseParts DEF Stopping, Paired, Full
<1>10. in_packet' # NULL => Heard(in_packet)' /\ in_packet'.data # <<>>
  BY <1>1 DEF Base, Heard
<1>11. (\A s \in net : Said(s))'
  BY <1>1 DEF Base, Said
<1> QED BY <1>1, <1>5, <1>6, <1>7, <1>8, <1>9, <1>10, <1>11 DEF Base

\* What is left of data d after n units, and a queue with another last block.
Skip(d, n) == SubSeq(d, n + 1, Len(d))
PutLast(o, w) == [o EXCEPT ![Len(o)] = w]

\* The first n units of d go into the last block of o, which leaves r.
Fills(o, d, n, r) ==
  /\ o # <<>> /\ r \in Seq(StreamBlock) /\ Len(r) = Len(o)
  /\ \A i \in 1 .. Len(o) : i # Len(o) => r[i] = o[i]
  /\ r[Len(o)].cap = o[Len(o)].cap
  /\ r[Len(o)].data = o[Len(o)].data \o SubSeq(d, 1, n)
  /\ n \in 0 .. Len(d) /\ Len(o[Len(o)].data) + n <= o[Len(o)].cap
  /\ n < Len(d) => Len(o[Len(o)].data) + n = o[Len(o)].cap

\* A round of _write: the units n + 1 .. n + m of d go into a new block.
Adds(o, d, n, m, r) ==
  /\ m \in 0 .. Len(d) - n /\ m <= UIP_TCP_MSS /\ (n < Len(d) => m > 0)
  /\ r = Append(o, [data |-> SubSeq(Skip(d, n), 1, m), cap |-> UIP_TCP_MSS])

\* The call goes on with what is left of the data d after k units.
Leaves(d, k) ==
  call' = IF k = Len(d) THEN Idle ELSE [op |-> "write", sock |-> 0, data |-> Skip(d, k)]

\* So much fits into a block that holds h of c units.
LEMMA Fits ==
  ASSUME NEW h \in Nat, NEW c \in Nat, h <= c, NEW s \in Nat, NEW n, n = Lesser(c - h, s)
  PROVE  n \in Nat /\ n <= s /\ n \in 0 .. s /\ h + n <= c /\ (n < s => h + n = c)
BY DEF Lesser

\* Two pieces of data.
LEMMA Joined ==
  ASSUME NEW p \in Seq(Nat), NEW q \in Seq(Nat)
  PROVE  p \o q \in Seq(Nat) /\ Len(p \o q) = Len(p) + Len(q)
OBVIOUS

\* A block with other data.
LEMMA BlockWith ==
  ASSUME NEW b \in StreamBlock, NEW f
  PROVE  [b EXCEPT !.data = f] = [data |-> f, cap |-> b.cap]
BY DEF StreamBlock

\* A sequence with its last block replaced.
LEMMA LastWith ==
  ASSUME NEW o \in Seq(StreamBlock), o # <<>>, NEW w \in StreamBlock
  PROVE  /\ PutLast(o, w) \in Seq(StreamBlock) /\ Len(PutLast(o, w)) = Len(o)
         /\ PutLast(o, w)[Len(o)] = w
         /\ \A i \in 1 .. Len(o) : i # Len(o) => PutLast(o, w)[i] = o[i]
<1> DEFINE l == Len(o)
           r == PutLast(o, w)
<1>1. l \in 1 .. Len(o) /\ l = Len(o)
  BY EmptySeq
<1>2. r = [o EXCEPT ![l] = w]
  BY DEF PutLast
<1> HIDE DEF l, r
<1>3. r \in Seq(StreamBlock) /\ Len(r) = l /\ r[l] = w /\ \A i \in 1 .. l : i # l => r[i] = o[i]
  BY <1>1, <1>2
<1> QED BY <1>1, <1>3 DEF r

\* Data are what their units are.
LEMMA SameUnits ==
  ASSUME NEW u \in Seq(Nat), NEW v \in Seq(Nat), Len(u) = Len(v),
         \A i \in 1 .. Len(v) : u[i] = v[i]
  PROVE  u = v
OBVIOUS

\* The first n units are taken.
LEMMA SkipIs ==
  ASSUME NEW d \in Seq(Nat), NEW n \in Nat, n <= Len(d)
  PROVE  /\ Skip(d, n) \in Seq(Nat) /\ Len(Skip(d, n)) = Len(d) - n
         /\ Skip(d, n) = <<>> <=> n = Len(d)
         /\ \A i \in 1 .. Len(d) - n : Skip(d, n)[i] = d[n + i]
<1> DEFINE t == Skip(d, n)
<1>1. Len(d) \in Nat
  OBVIOUS
<1>2. t \in Seq(Nat) /\ Len(t) = Len(d) - n /\ \A i \in 1 .. Len(d) - n : t[i] = d[n + i]
  BY DEF Skip
<1>3. t = <<>> <=> Len(t) = 0
  BY <1>2, EmptySeq
<1> DEFINE l == Len(d)
           k == Len(t)
<1>4. k = 0 <=> n = l
  <2>1. k = l - n /\ l \in Nat
    BY <1>1, <1>2
  <2> HIDE DEF k, l
  <2> QED BY <2>1
<1> QED BY <1>2, <1>3, <1>4

\* The units that are taken.
LEMMA TakeIs ==
  ASSUME NEW d \in Seq(Nat), NEW n \in Nat, n <= Len(d)
  PROVE  /\ SubSeq(d, 1, n) \in Seq(Nat) /\ Len(SubSeq(d, 1, n)) = n
         /\ \A i \in 1 .. n : SubSeq(d, 1, n)[i] = d[i]
OBVIOUS

\* ... and then m more.
LEMMA SkipsAdd ==
  ASSUME NEW d \in Seq(Nat), NEW n \in Nat, NEW m \in Nat, n + m <= Len(d)
  PROVE  Skip(Skip(d, n), m) = Skip(d, n + m)
<1> DEFINE l == Len(d)
           t == Skip(d, n)
           u == Skip(t, m)
           v == Skip(d, n + m)
<1>1. l \in Nat /\ n <= l /\ m <= l - n /\ n + m \in Nat
  OBVIOUS
<1>2. t \in Seq(Nat) /\ Len(t) = l - n /\ \A i \in 1 .. l - n : t[i] = d[n + i]
  BY <1>1, SkipIs
<1>3. /\ u \in Seq(Nat) /\ Len(u) = Len(t) - m /\ \A i \in 1 .. Len(t) - m : u[i] = t[m + i]
  <2> HIDE DEF t, l
  <2> QED BY <1>1, <1>2, SkipIs
<1>4. /\ v \in Seq(Nat) /\ Len(v) = l - (n + m) /\ \A i \in 1 .. l - (n + m) : v[i] = d[(n + m) + i]
  BY <1>1, SkipIs
<1> HIDE DEF u, v, l, t
<1>5. Len(u) = Len(v)
  BY <1>1, <1>2, <1>3, <1>4
<1>6. \A i \in 1 .. Len(v) : u[i] = v[i]
  <2> SUFFICES ASSUME NEW i \in 1 .. Len(v) PROVE u[i] = v[i]
    OBVIOUS
  <2>1. i \in 1 .. Len(t) - m /\ m + i \in 1 .. l - n /\ n + (m + i) = (n + m) + i
        /\ i \in 1 .. l - (n + m)
    BY <1>1, <1>2, <1>4
  <2>2. u[i] = t[m + i] /\ t[m + i] = d[n + (m + i)]
    BY <1>2, <1>3, <2>1
  <2> QED BY <1>4, <2>1, <2>2
<1>7. u = v
  BY <1>3, <1>4, <1>5, <1>6, SameUnits
<1> QED BY <1>7 DEF u, v, t

\* The last block is filled as far as it goes.
LEMMA FillsIs ==
  ASSUME NEW o \in Seq(StreamBlock), o # <<>>, NEW d \in Seq(Nat),
         NEW n, n = Lesser(o[Len(o)].cap - Len(o[Len(o)].data), Len(d)),
         NEW r, r = [o EXCEPT ![Len(o)].data = @ \o SubSeq(d, 1, n)]
  PROVE  Fills(o, d, n, r)
<1> DEFINE l == Len(o)
           b == o[l]
           c == b.cap
           h == Len(b.data)
           s == Len(d)
           e == SubSeq(d, 1, n)
           f == b.data \o e
           w == [b EXCEPT !.data = f]
<1>1. l \in 1 .. Len(o) /\ b \in StreamBlock
  BY EmptySeq
<1>2. b.data \in Seq(Nat) /\ c \in 0 .. UIP_TCP_MSS /\ h <= c
  BY <1>1 DEF StreamBlock
<1>3. h \in Nat /\ s \in Nat /\ c \in Nat
  <2>1. h \in Nat /\ s \in Nat
    BY <1>2
  <2> HIDE DEF c
  <2> QED BY <1>2, <2>1, TcpAssumption
<1>4. n = Lesser(c - h, s)
  OBVIOUS
<1>5. n \in Nat /\ n <= s /\ n \in 0 .. s /\ h + n <= c /\ (n < s => h + n = c)
  <2> HIDE DEF h, s, c
  <2> QED BY <1>2, <1>3, <1>4, Fits
<1>6. e \in Seq(Nat) /\ Len(e) = n
  <2>1. SubSeq(d, 1, n) \in Seq(Nat) /\ Len(SubSeq(d, 1, n)) = n
    BY <1>5, SMTT(40)
  <2> QED BY <2>1
<1>7. f \in Seq(Nat) /\ Len(f) = h + n
  <2> HIDE DEF e
  <2>1. e \in Seq(Nat) /\ Len(e) = n /\ b.data \in Seq(Nat)
    BY <1>2, <1>6
  <2> HIDE DEF b
  <2> QED BY <2>1, Joined
<1> HIDE DEF e
<1>8. w \in StreamBlock /\ w.cap = c /\ w.data = f
  <2> HIDE DEF f
  <2>2. w = [data |-> f, cap |-> c]
    BY <1>1, BlockWith
  <2>3. c \in 0 .. UIP_TCP_MSS /\ Len(f) <= c
    BY <1>2, <1>5, <1>7
  <2> HIDE DEF w
  <2> QED BY <1>7, <2>2, <2>3 DEF StreamBlock
<1>9. r = PutLast(o, w)
  BY DEF e, PutLast
<1> HIDE DEF w, f
<1>10. /\ r \in Seq(StreamBlock) /\ Len(r) = l /\ r[l] = w
       /\ \A i \in 1 .. l : i # l => r[i] = o[i]
  <2> HIDE DEF b, c
  <2>1. /\ PutLast(o, w) \in Seq(StreamBlock) /\ Len(PutLast(o, w)) = l /\ PutLast(o, w)[l] = w
        /\ \A i \in 1 .. l : i # l => PutLast(o, w)[i] = o[i]
    BY <1>8, LastWith
  <2> HIDE DEF l
  <2> QED BY <1>9, <2>1
<1>11. r[l].data = f /\ r[l].cap = c
  BY <1>8, <1>10, ZenonT(80)
<1> QED BY <1>5, <1>10, <1>11 DEF Fills, e, f

\* What a round of _write does.
LEMMA WriteStepIs ==
  ASSUME Base, WriteStep
  PROVE  /\ call.op = "write" /\ call.sock = 0 /\ call.data \in Seq(Nat) \ {<<>>}
         /\ call = [op |-> "write", sock |-> 0, data |-> call.data]
         /\ UNCHANGED <<conns, in_packet, net, client>> /\ used' \in Int
         /\ \/ sock.state \cap {"CLOSE", "REMOTECLOSED"} # {} /\ call' = Idle /\ UNCHANGED socks
            \/ UNCHANGED <<socks, call>>
            \/ \E mid, r :
                 /\ socks' = [socks EXCEPT ![0] = [sock EXCEPT !.out = r]]
                 /\ \E n \in Nat :
                      /\ (sock.out = <<>> /\ mid = <<>> /\ n = 0) \/ Fills(sock.out, call.data, n, mid)
                      /\ \/ sock.out # <<>> /\ r = mid /\ Leaves(call.data, n)
                         \/ /\ sock.out = <<>> \/ n < Len(call.data)
                            /\ \E m \in Nat :
                                 Adds(mid, call.data, n, m, r) /\ Leaves(call.data, n + m)
<1>1. call.op = "write" /\ call.sock = 0 /\ call.data \in Seq(Nat) \ {<<>>}
      /\ call = [op |-> "write", sock |-> 0, data |-> call.data]
  <2>1. call.op = "write" /\ call \in StreamCall
    BY ZenonT(80) DEF WriteStep, Base
  <2>2. call # Idle /\ call \notin [op : {"connect"}, conn : {0}]
    BY <2>1 DEF Idle
  <2>3. call \in [op : {"write"}, sock : {0}, data : Seq(Nat) \ {<<>>}]
    BY <2>1, <2>2, SMTT(40) DEF StreamCall
  <2> QED BY <2>3, SMTT(40)
<1> DEFINE d == call.data
           out == sock.out
           last == Len(out)
           room == IF out = <<>> THEN 0 ELSE out[last].cap - Len(out[last].data)
           n == Lesser(room, Len(d))
           remain == Skip(d, n)
           filled == IF out = <<>> THEN out
                     ELSE [out EXCEPT ![last].data = @ \o SubSeq(d, 1, n)]
           m == Lesser(UIP_TCP_MSS, Len(remain))
           rest == Skip(remain, m)
           Continue(e) == IF e = <<>> THEN Idle ELSE [call EXCEPT !.data = e]
           block == [data |-> SubSeq(remain, 1, m), cap |-> UIP_TCP_MSS]
           more == Append(filled, block)
           S(q) == [socks EXCEPT ![0] = [sock EXCEPT !.out = q]]
<1>2. /\ UNCHANGED <<conns, in_packet, net, client>>
      /\ \/ /\ sock.state \cap {"CLOSE", "REMOTECLOSED"} # {}
            /\ call' = Idle
            /\ UNCHANGED <<socks, used>>
         \/ /\ out = <<>> \/ remain # <<>>
            /\ socks' = S(more)
            /\ used' = used + 1
            /\ call' = Continue(rest)
         \/ /\ socks' = S(filled)
            /\ call' = IF out = <<>> THEN call ELSE Continue(remain)
            /\ UNCHANGED used
  <2>1. \A q : [socks EXCEPT ![0].out = q] = S(q)
    BY DEF sock
  <2> HIDE DEF S
  <2> QED BY <1>1, <2>1, ZenonT(80) DEF WriteStep, sock, Skip
<1>3. used' \in Int
  <2>1. used \in Int
    BY DEF Base
  <2>2. used' \in {used, used + 1}
    BY <1>2
  <2> QED BY <2>1, <2>2
<1>4. sock \in StreamSock /\ out \in Seq(StreamBlock) /\ 0 \in Socks /\ socks \in [Socks -> StreamSock]
  BY BaseParts
<1>5. S(out) = socks
  BY <1>4 DEF sock, StreamSock
<1>6. d \in Seq(Nat) /\ d # <<>> /\ Len(d) \in Nat /\ Len(d) > 0
  BY <1>1, EmptySeq
<1>7. IF out = <<>> THEN n = 0 /\ filled = <<>> ELSE Fills(out, d, n, filled)
  <2>1. CASE out = <<>>
    BY <1>6, <2>1 DEF Lesser
  <2>2. CASE out # <<>>
    <3>1. n = Lesser(out[Len(out)].cap - Len(out[Len(out)].data), Len(d))
      BY <2>2
    <3>2. filled = [out EXCEPT ![Len(out)].data = @ \o SubSeq(d, 1, n)]
      BY <2>2
    <3> HIDE DEF n, filled, out, d
    <3>3. Fills(out, d, n, filled)
      BY <1>4, <1>6, <2>2, <3>1, <3>2, FillsIs
    <3> QED BY <2>2, <3>3
  <2> QED BY <2>1, <2>2
<1>8. n \in Nat /\ n <= Len(d)
  <2> HIDE DEF n, d, out, filled
  <2>1. n = 0 \/ n \in 0 .. Len(d)
    BY <1>7 DEF Fills
  <2> QED BY <1>6, <2>1
<1>9. remain \in Seq(Nat) /\ Len(remain) = Len(d) - n /\ (remain = <<>> <=> n = Len(d))
  <2> HIDE DEF n, d
  <2> QED BY <1>6, <1>8, SkipIs
<1>10. m \in Nat /\ n + m <= Len(d) /\ m \in 0 .. Len(d) - n /\ m <= UIP_TCP_MSS /\ (n < Len(d) => m > 0)
  <2> DEFINE k == Len(remain)
             t == Len(d)
  <2>1. m = Lesser(UIP_TCP_MSS, k) /\ k = t - n /\ t \in Nat /\ n <= t
    BY <1>6, <1>8, <1>9
  <2> HIDE DEF m, k, n, t
  <2>3. UIP_TCP_MSS \in Nat /\ UIP_TCP_MSS > 0 /\ n \in Nat
    BY <1>8, TcpAssumption
  <2>2. m \in Nat /\ n + m <= t /\ m \in 0 .. t - n /\ m <= UIP_TCP_MSS /\ (n < t => m > 0)
    BY <2>1, <2>3 DEF Lesser
  <2> QED BY <2>2 DEF t
<1>11. rest = Skip(d, n + m) /\ (rest = <<>> <=> n + m = Len(d))
  <2> HIDE DEF n, m, d
  <2>1. rest = Skip(d, n + m) /\ n + m \in Nat
    BY <1>6, <1>8, <1>10, SkipsAdd
  <2> QED BY <1>6, <1>10, <2>1, SkipIs
<1>12. \A e : [call EXCEPT !.data = e] = [op |-> "write", sock |-> 0, data |-> e]
  BY <1>1
<1>13. call' = Continue(rest) => Leaves(d, n + m)
  <2> HIDE DEF rest, n, m
  <2> QED BY <1>11, <1>12 DEF Leaves
<1>14. call' = Continue(remain) => Leaves(d, n)
  <2> HIDE DEF n
  <2> QED BY <1>9, <1>12 DEF Leaves
<1>15. Adds(filled, d, n, m, more)
  <2>1. more = Append(filled, [data |-> SubSeq(Skip(d, n), 1, m), cap |-> UIP_TCP_MSS])
    OBVIOUS
  <2> HIDE DEF more, m, n, filled
  <2> QED BY <1>10, <2>1 DEF Adds
<1>16. n < Len(d) <=> remain # <<>>
  <2> HIDE DEF n, d, remain
  <2> QED BY <1>6, <1>8, <1>9
<1>18. CASE socks' = S(filled) /\ call' = IF out = <<>> THEN call ELSE Continue(remain)
  <2>1. CASE out = <<>>
    <3>1. socks' = S(out)
      BY <1>7, <1>18, <2>1
    <3> QED BY <1>1, <1>2, <1>3, <1>5, <1>18, <2>1, <3>1
  <2>2. CASE out # <<>>
    <3>1. Fills(out, d, n, filled) /\ Leaves(d, n) /\ socks' = S(filled)
      BY <1>7, <1>14, <1>18, <2>2
    <3> HIDE DEF n, filled
    <3> QED BY <1>1, <1>2, <1>3, <1>8, <2>2, <3>1
  <2> QED BY <2>1, <2>2
<1>19. CASE (out = <<>> \/ remain # <<>>) /\ socks' = S(more) /\ call' = Continue(rest)
  <2>1. /\ (out = <<>> /\ filled = <<>> /\ n = 0) \/ Fills(out, d, n, filled)
        /\ out = <<>> \/ n < Len(d)
        /\ Adds(filled, d, n, m, more) /\ Leaves(d, n + m) /\ socks' = S(more)
    BY <1>7, <1>13, <1>15, <1>16, <1>19, ZenonT(80)
  <2> HIDE DEF n, m, filled, more
  <2> QED BY <1>1, <1>2, <1>3, <1>8, <1>10, <2>1, ZenonT(80)
<1> QED BY <1>1, <1>2, <1>3, <1>18, <1>19, ZenonT(80)

\* Full blocks stay full when the last one is filled, and a full first block stays
\* what it is.
LEMMA FilledFull ==
  ASSUME NEW o \in Seq(StreamBlock), Full(o), NEW d \in Seq(Nat), NEW n, NEW r, Fills(o, d, n, r)
  PROVE  /\ r \in Seq(StreamBlock) /\ Full(r) /\ r # <<>> /\ Len(r) = Len(o)
         /\ Len(o[1].data) = o[1].cap => r[1].cap = o[1].cap /\ r[1].data = o[1].data
         /\ n < Len(d) => Len(r[Len(r)].data) = r[Len(r)].cap
<1> DEFINE l == Len(o)
           a == o[l].data
           e == SubSeq(d, 1, n)
<1>1. /\ o # <<>> /\ r \in Seq(StreamBlock) /\ Len(r) = l
      /\ \A i \in 1 .. l : i # l => r[i] = o[i]
      /\ r[l].cap = o[l].cap /\ r[l].data = a \o e
      /\ n \in 0 .. Len(d) /\ Len(a) + n <= o[l].cap
      /\ n < Len(d) => Len(a) + n = o[l].cap
  BY DEF Fills
<1>2. l \in 1 .. l /\ l \in Nat /\ l > 0 /\ l \in 1 .. Len(o)
  BY <1>1, EmptySeq
<1>3. o[l] \in StreamBlock /\ a \in Seq(Nat) /\ o[l].cap \in Nat /\ Len(a) \in Nat
  <2>1. o[l] \in StreamBlock
    BY <1>2
  <2>2. a \in Seq(Nat) /\ o[l].cap \in 0 .. UIP_TCP_MSS
    BY <2>1 DEF StreamBlock
  <2> HIDE DEF a
  <2> QED BY <2>1, <2>2, TcpAssumption
<1>4. e \in Seq(Nat) /\ Len(e) = n /\ n \in Nat
  BY <1>1
<1>5. Len(a \o e) = Len(a) + n
  <2> HIDE DEF a, e
  <2> QED BY <1>3, <1>4, Joined
<1>6. r # <<>>
  <2> HIDE DEF l
  <2> QED BY <1>1, <1>2
<1>7. Full(r)
  <2> SUFFICES ASSUME NEW i \in DOMAIN r, i < Len(r) PROVE Len(r[i].data) = r[i].cap
    BY DEF Full
  <2>1. i \in 1 .. l /\ i # l /\ i < Len(o) /\ i \in DOMAIN o
    BY <1>1
  <2>2. r[i] = o[i]
    BY <1>1, <2>1
  <2> QED BY <2>1, <2>2 DEF Full
<1>8. Len(o[1].data) = o[1].cap => r[1].cap = o[1].cap /\ r[1].data = o[1].data
  <2>1. CASE l = 1
    <3>1. Len(a) = o[l].cap => n = 0
      <4> DEFINE x == Len(a)
                 y == o[l].cap
      <4>1. x \in Nat /\ y \in Nat /\ x + n <= y /\ n \in Nat
        BY <1>1, <1>3, <1>4
      <4> HIDE DEF x, y
      <4>2. x = y => n = 0
        BY <4>1
      <4> QED BY <4>2 DEF x, y
    <3>2. n = 0 => a \o e = a
      <4> HIDE DEF a, e
      <4> SUFFICES ASSUME n = 0 PROVE a \o e = a
        OBVIOUS
      <4>1. e = <<>>
        BY <1>4, EmptySeq
      <4> QED BY <1>3, <4>1
    <3> QED BY <1>1, <2>1, <3>1, <3>2
  <2>2. CASE l # 1
    <3>1. 1 \in 1 .. l
      BY <1>2
    <3> QED BY <1>1, <2>2, <3>1
  <2> QED BY <2>1, <2>2
<1>9. n < Len(d) => Len(r[Len(r)].data) = r[Len(r)].cap
  BY <1>1, <1>5
<1> QED BY <1>1, <1>6, <1>7, <1>8, <1>9

\* So it is with a new block behind them.
LEMMA AddedFull ==
  ASSUME NEW o \in Seq(StreamBlock), Full(o), NEW d \in Seq(Nat), NEW n \in Nat, n <= Len(d),
         NEW m \in Nat, NEW r, Adds(o, d, n, m, r),
         o # <<>> => Len(o[Len(o)].data) = o[Len(o)].cap
  PROVE  /\ r \in Seq(StreamBlock) /\ Full(r) /\ r # <<>> /\ Len(r) = Len(o) + 1
         /\ \A i \in 1 .. Len(o) : r[i] = o[i]
         /\ r[Len(r)].data = SubSeq(Skip(d, n), 1, m)
         /\ SubSeq(Skip(d, n), 1, m) \in Seq(Nat) /\ Len(SubSeq(Skip(d, n), 1, m)) = m
<1> DEFINE t == Skip(d, n)
           e == SubSeq(t, 1, m)
           b == [data |-> e, cap |-> UIP_TCP_MSS]
<1>1. m \in 0 .. Len(d) - n /\ m <= UIP_TCP_MSS /\ r = Append(o, b)
  BY DEF Adds
<1>2. t \in Seq(Nat) /\ Len(t) = Len(d) - n
  BY SkipIs
<1>3. e \in Seq(Nat) /\ Len(e) = m
  <2>1. m <= Len(t)
    <3> DEFINE k == Len(d)
    <3>1. k \in Nat /\ m \in 0 .. k - n /\ Len(t) = k - n
      BY <1>1, <1>2
    <3> HIDE DEF k, t
    <3> QED BY <3>1
  <2> HIDE DEF t
  <2>2. SubSeq(t, 1, m) \in Seq(Nat) /\ Len(SubSeq(t, 1, m)) = m
    BY <1>2, <2>1, TakeIs
  <2> QED BY <2>2
<1> HIDE DEF e
<1>4. b \in StreamBlock /\ b.data = e
  BY <1>1, <1>3, TcpAssumption DEF StreamBlock
<1> HIDE DEF b
<1>5. /\ r \in Seq(StreamBlock) /\ Len(r) = Len(o) + 1 /\ r[Len(o) + 1] = b
      /\ \A i \in 1 .. Len(o) : r[i] = o[i]
  BY <1>1, <1>4, AppendProperties
<1>6. r # <<>>
  BY <1>5, EmptySeq
<1>7. Full(r)
  <2> SUFFICES ASSUME NEW i \in DOMAIN r, i < Len(r) PROVE Len(r[i].data) = r[i].cap
    BY DEF Full
  <2>1. i \in 1 .. Len(o) /\ i \in DOMAIN o
    BY <1>5
  <2>2. r[i] = o[i]
    BY <1>5, <2>1
  <2>3. CASE i = Len(o)
    <3>1. o # <<>>
      BY <2>1, EmptySeq
    <3> QED BY <2>2, <2>3, <3>1
  <2>4. CASE i < Len(o)
    BY <2>1, <2>2, <2>4 DEF Full
  <2> QED BY <2>1, <2>3, <2>4
<1>8. r[Len(r)].data = e
  BY <1>4, <1>5
<1> QED BY <1>3, <1>5, <1>6, <1>7, <1>8 DEF e

\* A round of _write keeps Base.
LEMMA BaseWriteStep ==
  ASSUME Base, WriteStep, UNCHANGED streamVars
  PROVE  Base'
<1>1. /\ call.op = "write" /\ call.data \in Seq(Nat) \ {<<>>}
      /\ UNCHANGED <<conns, in_packet, net, client, peer, wrote, got>> /\ used' \in Int
  BY WriteStepIs DEF streamVars
<1>2. call # Idle /\ ~Fresh
  BY <1>1 DEF Idle, Fresh
<1>3. "CLOSE" \notin sock.state /\ conn.state \notin Closing
  BY <1>2 DEF Base, Stopping
<1>4. Paired(conn, sock) /\ sock \in StreamSock /\ sock.out \in Seq(StreamBlock) /\ Full(sock.out)
      /\ socks \in StreamSocks /\ conn \in StreamConn
  BY BaseParts DEF Base, Paired
<1>5. client' \in {0, NULL} /\ wrote' \in Nat /\ wrote' <= SketchLen /\ got' \in Seq(Nat)
  BY <1>1 DEF Base
<1>6. \/ call' = Idle /\ UNCHANGED socks
      \/ UNCHANGED <<socks, call>>
      \/ \E mid, r :
           /\ socks' = [socks EXCEPT ![0] = [sock EXCEPT !.out = r]]
           /\ \E n \in Nat :
                /\ (sock.out = <<>> /\ mid = <<>> /\ n = 0) \/ Fills(sock.out, call.data, n, mid)
                /\ \/ sock.out # <<>> /\ r = mid /\ Leaves(call.data, n)
                   \/ /\ sock.out = <<>> \/ n < Len(call.data)
                      /\ \E m \in Nat :
                           Adds(mid, call.data, n, m, r) /\ Leaves(call.data, n + m)
  BY WriteStepIs
<1>7. CASE UNCHANGED socks /\ call' \in {Idle, call}
  <2>1. UNCHANGED sock /\ call' \in StreamCall /\ socks' \in StreamSocks
    BY <1>7 DEF sock, Base, StreamCall
  <2> QED BY <1>1, <1>2, <1>3, <1>4, <1>5, <2>1, BaseCall
<1>8. ASSUME NEW mid, NEW r, socks' = [socks EXCEPT ![0] = [sock EXCEPT !.out = r]],
             NEW n \in Nat,
             (sock.out = <<>> /\ mid = <<>> /\ n = 0) \/ Fills(sock.out, call.data, n, mid),
             \/ sock.out # <<>> /\ r = mid /\ Leaves(call.data, n)
             \/ /\ sock.out = <<>> \/ n < Len(call.data)
                /\ \E m \in Nat : Adds(mid, call.data, n, m, r) /\ Leaves(call.data, n + m)
      PROVE  Base'
  <2> DEFINE d == call.data
             o == sock.out
  <2>1. d \in Seq(Nat) /\ Len(d) \in Nat /\ o \in Seq(StreamBlock) /\ Full(o)
    BY <1>1, <1>4
  <2>2. /\ mid \in Seq(StreamBlock) /\ Full(mid) /\ n <= Len(d)
        /\ o # <<>> => mid # <<>>
        /\ o # <<>> /\ Len(o[1].data) = o[1].cap
             => mid # <<>> /\ mid[1].cap = o[1].cap /\ mid[1].data = o[1].data
        /\ mid # <<>> /\ n < Len(d) => Len(mid[Len(mid)].data) = mid[Len(mid)].cap
        /\ o = <<>> => mid = <<>>
    <3>1. CASE o = <<>> /\ mid = <<>> /\ n = 0
      <4>1. mid \in Seq(StreamBlock) /\ Full(mid)
        BY <3>1 DEF Full
      <4> HIDE DEF d, o
      <4> QED BY <2>1, <3>1, <4>1
    <3>2. CASE Fills(o, d, n, mid)
      <4> HIDE DEF d, o
      <4>1. n \in 0 .. Len(d) /\ o # <<>>
        BY <3>2 DEF Fills
      <4> QED BY <2>1, <3>2, <4>1, FilledFull
    <3> QED BY <1>8, <3>1, <3>2
  <2>3. \E k \in Nat : k <= Len(d) /\ Leaves(d, k)
    <3>1. CASE \E m \in Nat : Adds(mid, call.data, n, m, r) /\ Leaves(call.data, n + m)
      <4>1. PICK m \in Nat : Adds(mid, d, n, m, r) /\ Leaves(d, n + m)
        BY <3>1
      <4> HIDE DEF d
      <4>2. m \in 0 .. Len(d) - n
        BY <4>1 DEF Adds
      <4>3. n + m \in Nat /\ n + m <= Len(d)
        BY <2>1, <2>2, <4>2
      <4> QED BY <4>1, <4>3
    <3>2. CASE r = mid /\ Leaves(call.data, n)
      BY <2>2, <3>2
    <3> QED BY <1>8, <3>1, <3>2
  <2>4. call' \in StreamCall
    <3>1. PICK k \in Nat : k <= Len(d) /\ Leaves(d, k)
      BY <2>3
    <3> HIDE DEF d
    <3>2. k # Len(d) => Skip(d, k) \in Seq(Nat) \ {<<>>}
      BY <2>1, <3>1, SkipIs
    <3> QED BY <3>1, <3>2 DEF Leaves, StreamCall
  <2>5. /\ r \in Seq(StreamBlock) /\ Full(r)
        /\ o # <<>> /\ Len(o[1].data) = o[1].cap
             => r # <<>> /\ r[1].cap = o[1].cap /\ r[1].data = o[1].data
    <3>1. CASE r = mid
      BY <2>2, <3>1
    <3>2. CASE (o = <<>> \/ n < Len(d)) /\ \E m \in Nat : Adds(mid, d, n, m, r)
      <4>1. PICK m \in Nat : Adds(mid, d, n, m, r)
        BY <3>2
      <4> HIDE DEF d, o
      <4>2. /\ r \in Seq(StreamBlock) /\ Full(r) /\ r # <<>>
            /\ \A i \in 1 .. Len(mid) : r[i] = mid[i]
        BY <2>1, <2>2, <3>2, <4>1, AddedFull
      <4>3. mid # <<>> => r[1] = mid[1]
        <5>1. mid # <<>> => 1 \in 1 .. Len(mid)
          BY <2>2, EmptySeq
        <5> QED BY <4>2, <5>1
      <4> QED BY <2>2, <4>2, <4>3
    <3> QED BY <1>8, <3>1, <3>2
  <2> HIDE DEF d
  <2>6. socks' = [socks EXCEPT ![0] = sock'] /\ sock' \in StreamSock
        /\ sock'.in = sock.in /\ sock'.state = sock.state /\ sock'.out = r
    <3> DEFINE k == [sock EXCEPT !.out = r]
    <3>1. k \in StreamSock /\ k.in = sock.in /\ k.state = sock.state /\ k.out = r
      BY <1>4, <2>5 DEF StreamSock
    <3> HIDE DEF k
    <3>2. sock' = k /\ socks' = [socks EXCEPT ![0] = k]
      BY <1>4, <1>8, <3>1, SocksWith DEF k, sock
    <3> QED BY <3>1, <3>2
  <2>7. socks' \in StreamSocks
    <3>1. [socks EXCEPT ![0] = sock'] \in StreamSocks
      BY <1>4, <2>6, SocksWith
    <3> QED BY <2>6, <3>1
  <2>8. Paired(conn, sock')
    BY <1>4, <2>5, <2>6 DEF Paired
  <2> QED BY <1>1, <1>2, <1>3, <1>5, <2>4, <2>6, <2>7, <2>8, BaseCall
<1> QED BY <1>6, <1>7, <1>8

\* Base holds at first.
LEMMA BaseInit == StreamInit => Base
<1> SUFFICES ASSUME StreamInit PROVE Base
  OBVIOUS
<1>1. /\ conns = [c \in Conns |-> NewConn] /\ socks = [s \in Socks |-> NewSock] /\ used = 0
      /\ in_packet = NULL /\ net = {} /\ client = NULL /\ call = Idle
      /\ peer \in [remote : Remotes, rcvd : {<<>>}, fin : {FALSE}] /\ wrote = 0 /\ got = <<>>
  BY DEF StreamInit, Init
<1>2. 0 \in Conns /\ 0 \in Socks /\ NULL # 0
  BY TcpAssumption DEF Conns, Socks
<1>3. conn = NewConn /\ sock = NewSock
  BY <1>1, <1>2 DEF conn, sock
<1>4. NewConn \in StreamConn
  <2>1. 0 \in 0 .. SeqSize - 1
    BY TcpAssumption
  <2> QED BY <2>1 DEF NewConn, StreamConn, TcpStates
<1>5. NewSock \in StreamSock
  <2>1. <<>> \in Seq(Seq(Nat)) /\ <<>> \in Seq(StreamBlock)
    OBVIOUS
  <2> QED BY <2>1 DEF NewSock, StreamSock
<1>6. conns \in [Conns -> StreamConn] /\ (\A c \in Conns \ {0} : conns[c] = NewConn)
      /\ socks \in StreamSocks
  BY <1>1, <1>4, <1>5 DEF StreamSocks
<1>7. call \in StreamCall /\ call.op # "write"
  BY <1>1 DEF StreamCall, Idle
<1>8. peer \in [remote : Remotes, rcvd : Seq(Nat), fin : BOOLEAN] /\ peer.rcvd = <<>> /\ ~peer.fin
  <2>1. <<>> \in Seq(Nat) /\ FALSE \in BOOLEAN
    OBVIOUS
  <2>2. peer.remote \in Remotes /\ peer.rcvd = <<>> /\ peer.fin = FALSE
        /\ peer = [remote |-> peer.remote, rcvd |-> peer.rcvd, fin |-> peer.fin]
    BY <1>1
  <2> QED BY <2>1, <2>2
<1>9. wrote \in Nat /\ wrote <= SketchLen /\ got \in Seq(Nat)
  <2>1. <<>> \in Seq(Nat)
    OBVIOUS
  <2> QED BY <1>1, <2>1, StreamAssumption
<1>10. Paired(conn, sock)
  BY <1>2, <1>3 DEF Paired, Full, NewConn, NewSock
<1>11. Opening
  BY <1>1, <1>3, <1>7, <1>8 DEF Opening, Fresh, NewConn
<1>12. Stopping
  BY <1>3 DEF Stopping, NewConn, NewSock, Closing
<1>13. conn.remote = NULL
  BY <1>3 DEF NewConn
<1> QED BY <1>1, <1>6, <1>7, <1>8, <1>9, <1>10, <1>11, <1>12, <1>13 DEF Base

\* Every step keeps it.
LEMMA BaseNext == Base /\ [StreamNext]_allVars => Base'
<1> SUFFICES ASSUME Base, [StreamNext]_allVars PROVE Base'
  OBVIOUS
<1>1. CASE \E seg \in net : PeerReceive(seg)
  BY <1>1, BasePeer
<1>2. CASE Tick
  BY <1>2, TickIs, BaseListen, BaseRun
<1>3. CASE Opens
  BY <1>3, BaseOpens
<1>4. CASE Reads
  BY <1>4, BaseReads
<1>5. CASE Writes
  BY <1>5, BaseWrites
<1>6. CASE Closes
  BY <1>6, BaseCloses
<1>7. CASE Returns
  BY <1>7, BaseConnectReturn, BaseWriteStep DEF Returns
<1>8. CASE UNCHANGED allVars
  <2>1. UNCHANGED <<conns, socks, used, in_packet, net, client, call, peer, wrote, got>>
    BY <1>8 DEF allVars, vars, streamVars
  <2>2. UNCHANGED <<conn, sock>>
    BY <2>1 DEF conn, sock
  <2>3. Opening' /\ Stopping' /\ Paired(conn, sock)' /\ (\A seg \in net : Said(seg))'
        /\ (in_packet' # NULL => Heard(in_packet)' /\ in_packet'.data # <<>>)
    BY <2>1, <2>2, SMTT(40) DEF Base, Opening, Fresh, Stopping, Paired, Full, Said, Heard
  <2> QED BY <2>1, <2>2, <2>3 DEF Base
<1> QED BY <1>1, <1>2, <1>3, <1>4, <1>5, <1>6, <1>7, <1>8 DEF StreamNext
-----------------------------------------------------------------------------
(* The remote's stream *)

\* A segment in order continues what is stored, and is stored if it is taken.
LEMMA StoreIs ==
  ASSUME NEW x \in StreamContexts, NEW seg, Heard(seg), Proper(seg), InOrder(x, seg),
         x.conn.app = 0, Paired(x.conn, Mine(x)), Flow(x.conn, Mine(x)), x.memory,
         NEW a \in Nat, NEW R \in Nat, Stored(x.conn, Mine(x), a, R)
  PROVE  /\ TakesSeg(x, seg) => StoresSeg(x, seg)
         /\ \E S \in Nat :
              /\ Laid(InSeg(x, seg), a, S)
              /\ "CLOSE" \notin Mine(x).state =>
                   /\ S <= PeerLen
                   /\ Offset(PeerISS, 1 + S) = IF x.conn.stopped THEN x.conn.rcv_nxt
                                               ELSE (x.conn.rcv_nxt + Len(seg.data)) % SeqSize
<1>1. /\ Mine(x).state \in SUBSET SockFlags /\ Mine(x).in \in Seq(Seq(Nat)) /\ x.conn \in StreamConn
  BY StreamParts
<1>2. Laid(Mine(x).in, a, R)
  BY DEF Stored
<1>3. TakesSeg(x, seg) => StoresSeg(x, seg)
  BY DEF TakesSeg, StoresSeg, Flow
<1>4. "REMOTECLOSED" \notin Mine(x).state
  BY DEF Paired
<1>5. "CLOSE" \notin Mine(x).state => R <= PeerLen /\ x.conn.rcv_nxt = Offset(PeerISS, 1 + R)
  BY DEF Stored
<1>6. seg.data \in Seq(Nat) /\ Len(seg.data) \in Nat
  BY DEF Proper
<1>7. PeerISS \in 0 .. SeqSize - 1 /\ PeerLen \in Nat /\ PeerLen + 2 < SeqSize /\ SeqSize \in Nat
  BY StreamAssumption, TcpAssumption
<1>8. CASE "CLOSE" \in Mine(x).state
  BY <1>2, <1>3, <1>8 DEF InSeg, StoresSeg, TakesSeg
<1>9. CASE "CLOSE" \notin Mine(x).state /\ x.conn.stopped
  BY <1>2, <1>3, <1>5, <1>9 DEF InSeg, StoresSeg, TakesSeg
<1>10. CASE "CLOSE" \notin Mine(x).state /\ ~x.conn.stopped /\ seg.data = <<>>
  <2>1. InSeg(x, seg) = Mine(x).in
    BY <1>10 DEF InSeg, StoresSeg, TakesSeg
  <2>2. Len(seg.data) = 0
    BY <1>10
  <2>3. 1 + R \in Nat /\ (1 + R) + 0 < SeqSize /\ (1 + R) + 0 = 1 + R
    BY <1>5, <1>7, <1>10
  <2>4. (Offset(PeerISS, 1 + R) + 0) % SeqSize = Offset(PeerISS, 1 + R)
    BY <1>7, <2>3, OffsetAdds
  <2> QED BY <1>2, <1>3, <1>5, <1>10, <2>1, <2>2, <2>4
<1>11. CASE "CLOSE" \notin Mine(x).state /\ ~x.conn.stopped /\ seg.data # <<>>
  <2>1. TakesSeg(x, seg)
    BY <1>1, <1>4, <1>11 DEF TakesSeg, SockFlags
  <2>2. InSeg(x, seg) = Append(Mine(x).in, seg.data)
    BY <1>3, <2>1 DEF InSeg
  <2>3. "SYN" \notin seg.flags /\ seg.seq = x.conn.rcv_nxt
    BY <1>11 DEF Heard, InOrder
  <2>4. PICK i \in 0 .. PeerLen :
          /\ seg.seq = Offset(PeerISS, 1 + i) /\ i + Len(seg.data) <= PeerLen
          /\ Follows(seg.data, i)
    BY <2>3 DEF Heard
  <2>5. 1 + i \in Nat /\ 1 + R \in Nat /\ 1 + i < SeqSize /\ 1 + R < SeqSize
    BY <1>5, <1>7, <1>11
  <2>6. 1 + i = 1 + R
    <3> DEFINE m == 1 + i
               n == 1 + R
    <3>1. Offset(PeerISS, m) = Offset(PeerISS, n) /\ m \in Nat /\ n \in Nat /\ m < SeqSize /\ n < SeqSize
      BY <1>5, <1>11, <2>3, <2>4, <2>5
    <3> HIDE DEF m, n
    <3>2. m = n
      BY <1>7, <3>1, OffsetOnce
    <3> QED BY <3>2 DEF m, n
  <2>7. i = R
    BY <2>6
  <2> DEFINE l == Len(seg.data)
             S == R + l
  <2>8. l \in Nat /\ S \in Nat /\ S <= PeerLen /\ (1 + R) + l < SeqSize /\ (1 + R) + l = 1 + S
    <3>1. l \in Nat /\ R + l <= PeerLen
      BY <1>6, <2>4, <2>7
    <3> HIDE DEF l
    <3> QED BY <1>7, <3>1
  <2>9. Laid(InSeg(x, seg), a, S)
    BY <1>1, <1>2, <1>6, <2>2, <2>4, <2>7, LaidAppend
  <2>10. (x.conn.rcv_nxt + l) % SeqSize = Offset(PeerISS, 1 + S)
    <3> HIDE DEF l, S
    <3>1. (Offset(PeerISS, 1 + R) + l) % SeqSize = Offset(PeerISS, (1 + R) + l)
      BY <1>7, <2>5, <2>8, OffsetAdds
    <3> QED BY <1>5, <1>11, <2>8, <3>1
  <2> QED BY <1>3, <1>11, <2>8, <2>9, <2>10
<1> QED BY <1>8, <1>9, <1>10, <1>11

\* The connection stops for a reason after a segment, too.
LEMMA FlowHears ==
  ASSUME NEW x \in StreamContexts, NEW z \in StreamContexts, NEW seg,
         x.conn.app = 0, Paired(x.conn, Mine(x)), Flow(x.conn, Mine(x)),
         TakesSeg(x, seg) => StoresSeg(x, seg), Hears(x, seg, z)
  PROVE  Flow(z.conn, Mine(z))
<1> DEFINE N == UIP_SOCKET_NUMPACKETS
           in == Mine(x).in
           l == Len(in)
<1>1. in \in Seq(Seq(Nat)) /\ l \in Nat /\ N \in Nat \ {0} /\ x.conn.stopped \in BOOLEAN
      /\ Mine(x).state \in SUBSET SockFlags /\ z.conn.stopped \in BOOLEAN
  BY StreamParts, TcpAssumption, SMTT(40) DEF StreamConn
<1>2. /\ l <= N
      /\ ~x.conn.stopped /\ "CLOSE" \notin Mine(x).state => l < N
      /\ "RESTART" \in Mine(x).state => x.conn.stopped /\ l < N
      /\ x.conn.stopped => in # <<>> \/ Mine(x).state \cap {"RESTART", "CLOSE"} # {}
  BY DEF Flow
<1>3. /\ Mine(z).state = Mine(x).state \ {"RESTART"} /\ Mine(z).in = InSeg(x, seg)
      /\ z.conn.stopped =
           \/ "CLOSE" \in Mine(x).state
           \/ /\ "RESTART" \notin Mine(x).state
              /\ \/ x.conn.stopped \/ (TakesSeg(x, seg) /\ ~StoresSeg(x, seg))
                 \/ StoresSeg(x, seg) /\ l = N - 1
  BY DEF Hears, Told
<1>4. CASE ~StoresSeg(x, seg)
  <2>1. Mine(z).in = in
    BY <1>3, <1>4 DEF InSeg
  <2>2. z.conn.stopped = ("CLOSE" \in Mine(x).state
                          \/ ("RESTART" \notin Mine(x).state /\ x.conn.stopped))
    BY <1>3, <1>4
  <2> HIDE DEF in, l
  <2>3. Len(Mine(z).in) = l
    BY <2>1 DEF l, in
  <2>4. ~z.conn.stopped /\ "CLOSE" \notin Mine(z).state => l < N
    BY <1>2, <1>3, <2>2
  <2>5. z.conn.stopped => in # <<>> \/ Mine(z).state \cap {"RESTART", "CLOSE"} # {}
    BY <1>2, <1>3, <2>2
  <2> QED BY <1>2, <1>3, <2>1, <2>3, <2>4, <2>5 DEF Flow
<1>5. CASE StoresSeg(x, seg)
  <2>1. Mine(z).in = Append(in, seg.data) /\ ~x.conn.stopped /\ "CLOSE" \notin Mine(x).state /\ l < N
    BY <1>3, <1>5 DEF InSeg, StoresSeg, TakesSeg
  <2>2. Len(Mine(z).in) = l + 1 /\ Mine(z).in # <<>>
    <3> HIDE DEF in
    <3>1. Len(Append(in, seg.data)) = Len(in) + 1
      BY <1>1
    <3>2. Append(in, seg.data) # <<>>
      BY <1>1, <3>1, EmptySeq
    <3> QED BY <2>1, <3>1, <3>2
  <2>3. "RESTART" \notin Mine(x).state
    BY <1>2, <2>1
  <2>4. z.conn.stopped = (l = N - 1)
    BY <1>3, <1>5, <2>1, <2>3
  <2> HIDE DEF in, l
  <2>6. l \in Nat /\ N \in Nat /\ l < N
    BY <1>1, <2>1
  <2>5. l + 1 <= N /\ (~z.conn.stopped => l + 1 < N)
    <3>1. l + 1 <= N /\ (l # N - 1 => l + 1 < N)
      <4> HIDE DEF N
      <4> QED BY <2>6
    <3> QED BY <2>4, <3>1
  <2> QED BY <1>3, <2>2, <2>3, <2>5 DEF Flow
<1> QED BY <1>4, <1>5

\* A run of the stack keeps to the remote's stream.
LEMMA IncomingRun ==
  ASSUME MemoryAssumption, Base, Incoming, NEW x, NEW seg, NEW z, RunStep(x, seg, z)
  PROVE  Incoming'
<1>1. /\ x \in StreamContexts /\ z \in StreamContexts /\ x.conn \in StreamConn /\ z.conn \in StreamConn
      /\ x.conn = conn /\ Mine(x) = sock /\ Paired(x.conn, Mine(x)) /\ Proper(seg) /\ ~x.keep
      /\ x.conn.state = "ESTABLISHED" <=> x.conn.app = 0
  BY RunParts
<1>2. /\ conn' = z.conn /\ sock' = Mine(z) /\ x.memory /\ Heard(seg) /\ x.data = seg.data
      /\ in_packet' \in {IF z.keep THEN seg ELSE NULL, in_packet, NULL}
      /\ UNCHANGED <<client, call, peer, wrote, got>>
      /\ Runs(x, seg, z)
  BY DEF RunStep, Quiet
<1>3. /\ in_packet = NULL /\ Flow(x.conn, Mine(x)) /\ got = Count(Len(got))
      /\ got \in Seq(Nat)
  BY <1>1 DEF Incoming, Base
<1> DEFINE a == Len(got)
<1>4. PICK R \in Nat : Stored(x.conn, Mine(x), a, R)
  BY <1>1 DEF Incoming
<1>5. NULL # 0 /\ a \in Nat /\ UIP_SOCKET_NUMPACKETS \in Nat \ {0} /\ PeerLen \in Nat
  BY <1>3, TcpAssumption, StreamAssumption
<1> HIDE DEF a
<1>6. SUFFICES /\ ~z.keep /\ Flow(z.conn, Mine(z))
               /\ \E S \in Nat : Stored(z.conn, Mine(z), a, S)
  <2>1. ASSUME ~z.keep, Flow(z.conn, Mine(z)), \E S \in Nat : Stored(z.conn, Mine(z), a, S)
        PROVE  Incoming'
    <3>1. in_packet' = NULL
      BY <1>2, <1>3, <2>1
    <3>2. Flow(conn, sock)' <=> Flow(conn', sock')
      BY DEF Flow
    <3>3. (\E S \in Nat : Stored(conn, sock, Len(got), S))' <=> \E S \in Nat : Stored(conn', sock', a, S)
      BY <1>2 DEF Stored, Laid, a, Follows
    <3>4. (got = Count(Len(got)))'
      BY <1>2, <1>3
    <3> QED BY <1>2, <2>1, <3>1, <3>2, <3>3, <3>4 DEF Incoming
  <2> QED BY <2>1
<1>7. Laid(Mine(x).in, a, R) /\ Mine(x).in \in Seq(Seq(Nat)) /\ Len(Mine(x).in) <= UIP_SOCKET_NUMPACKETS
      /\ Mine(x).state \in SUBSET SockFlags
  BY <1>1, <1>3, <1>4, StreamParts DEF Stored, Flow
<1>8. /\ x.conn.app = 0 /\ ~x.conn.stopped /\ "CLOSE" \notin Mine(x).state
           => Len(Mine(x).in) < UIP_SOCKET_NUMPACKETS
      /\ x.conn.app = 0 /\ "RESTART" \in Mine(x).state
           => x.conn.stopped /\ Len(Mine(x).in) < UIP_SOCKET_NUMPACKETS
      /\ x.conn.stopped => Mine(x).in # <<>> \/ Mine(x).state \cap {"RESTART", "CLOSE"} # {}
  BY <1>3 DEF Flow
<1>9. InOrder(x, seg) /\ x.conn.app = 0 =>
        /\ TakesSeg(x, seg) => StoresSeg(x, seg)
        /\ Len(InSeg(x, seg)) <= UIP_SOCKET_NUMPACKETS
        /\ \E S \in Nat :
             /\ Laid(InSeg(x, seg), a, S)
             /\ "CLOSE" \notin Mine(x).state =>
                  /\ S <= PeerLen
                  /\ Offset(PeerISS, 1 + S) = IF x.conn.stopped THEN x.conn.rcv_nxt
                                              ELSE (x.conn.rcv_nxt + Len(seg.data)) % SeqSize
  <2> SUFFICES ASSUME InOrder(x, seg), x.conn.app = 0
               PROVE  /\ TakesSeg(x, seg) => StoresSeg(x, seg)
                      /\ Len(InSeg(x, seg)) <= UIP_SOCKET_NUMPACKETS
                      /\ \E S \in Nat :
                           /\ Laid(InSeg(x, seg), a, S)
                           /\ "CLOSE" \notin Mine(x).state =>
                                /\ S <= PeerLen
                                /\ Offset(PeerISS, 1 + S) =
                                     IF x.conn.stopped THEN x.conn.rcv_nxt
                                     ELSE (x.conn.rcv_nxt + Len(seg.data)) % SeqSize
    OBVIOUS
  <2>1. Len(InSeg(x, seg)) <= UIP_SOCKET_NUMPACKETS
    <3> DEFINE q == Mine(x).in
               l == Len(q)
    <3>1. CASE StoresSeg(x, seg)
      <4>1. l < UIP_SOCKET_NUMPACKETS /\ InSeg(x, seg) = Append(q, seg.data) /\ q \in Seq(Seq(Nat)) /\ l \in Nat
        BY <1>7, <3>1 DEF StoresSeg, InSeg
      <4> HIDE DEF q
      <4>2. Len(InSeg(x, seg)) = l + 1
        BY <4>1
      <4> HIDE DEF l
      <4> QED BY <1>5, <4>1, <4>2
    <3>2. CASE ~StoresSeg(x, seg)
      BY <1>7, <3>2 DEF InSeg
    <3> QED BY <3>1, <3>2
  <2> QED BY <1>1, <1>2, <1>3, <1>4, <1>5, <2>1, StoreIs
<1>10. CASE x.conn.app = 0 /\ Idles(x, seg, z)
  BY <1>3, <1>4, <1>10 DEF Idles, Flow, Stored
<1>11. CASE x.conn.app = 0 /\ InOrder(x, seg) /\ Hears(x, seg, z)
  <2>1. Flow(z.conn, Mine(z))
    BY <1>1, <1>3, <1>9, <1>11, FlowHears
  <2>2. /\ ~z.keep /\ Mine(z).in = InSeg(x, seg) /\ ("CLOSE" \in Mine(z).state <=> "CLOSE" \in Mine(x).state)
        /\ z.conn.rcv_nxt = IF x.conn.stopped THEN x.conn.rcv_nxt
                            ELSE (x.conn.rcv_nxt + Len(seg.data)) % SeqSize
    BY <1>9, <1>11 DEF Hears, Told
  <2>3. PICK S \in Nat :
          /\ Laid(InSeg(x, seg), a, S)
          /\ "CLOSE" \notin Mine(x).state =>
               /\ S <= PeerLen
               /\ Offset(PeerISS, 1 + S) = IF x.conn.stopped THEN x.conn.rcv_nxt
                                           ELSE (x.conn.rcv_nxt + Len(seg.data)) % SeqSize
    BY <1>9, <1>11
  <2>4. Stored(z.conn, Mine(z), a, S)
    BY <2>2, <2>3 DEF Stored
  <2> QED BY <2>1, <2>2, <2>4
<1>12. CASE x.conn.app = 0 /\ InOrder(x, seg) /\ (FinsFirst(x, seg, z) \/ FinsBack(x, seg, z))
  <2>1. ~z.keep /\ Mine(z).in = InSeg(x, seg) /\ ~z.conn.stopped /\ z.conn.app # 0
    BY <1>5, <1>9, <1>12 DEF FinsFirst, FinsBack, Told
  <2>2. Flow(z.conn, Mine(z))
    BY <1>9, <1>12, <2>1 DEF Flow
  <2>3. PICK S \in Nat : Laid(InSeg(x, seg), a, S)
    BY <1>9, <1>12
  <2>4. Stored(z.conn, Mine(z), a, S)
    BY <2>1, <2>3 DEF Stored
  <2> QED BY <2>1, <2>2, <2>4
<1>13. CASE x.conn.app = 0 /\ Resends(x, z)
  <2>1. /\ ~z.keep /\ Mine(z).in = Mine(x).in /\ Mine(z).state = Mine(x).state \ {"RESTART"}
        /\ z.conn.rcv_nxt = x.conn.rcv_nxt /\ z.conn.app = 0
        /\ z.conn.stopped = (x.conn.stopped /\ "RESTART" \notin Mine(x).state)
    BY <1>13 DEF Resends, SameSide
  <2>2. /\ ~z.conn.stopped /\ "CLOSE" \notin Mine(z).state => Len(Mine(x).in) < UIP_SOCKET_NUMPACKETS
        /\ z.conn.stopped => Mine(x).in # <<>> \/ Mine(z).state \cap {"RESTART", "CLOSE"} # {}
        /\ "RESTART" \notin Mine(z).state
    BY <1>1, <1>8, <1>13, <2>1 DEF StreamConn
  <2>3. Flow(z.conn, Mine(z))
    BY <1>7, <2>1, <2>2 DEF Flow
  <2>4. Stored(z.conn, Mine(z), a, R)
    BY <1>4, <1>13, <2>1 DEF Stored
  <2> QED BY <2>1, <2>3, <2>4
<1>14. CASE x.conn.app = 0 /\ Dies(x, z)
  <2>1. ~z.keep /\ Mine(z).in = Mine(x).in /\ ~z.conn.stopped /\ z.conn.app # 0
    BY <1>5, <1>14 DEF Dies
  <2> QED BY <1>7, <2>1 DEF Flow, Stored
<1>15. CASE x.conn.app # 0 /\ Winds(x, z)
  <2>1. ~z.keep /\ Mine(z) = Mine(x) /\ ~z.conn.stopped /\ z.conn.app # 0
    BY <1>1, <1>15 DEF Winds, Parallel, SameSock
  <2> QED BY <1>7, <2>1 DEF Flow, Stored
<1>16. CASE x.conn.app # 0 /\ Establishes(x, seg, z) /\ (x.conn.state = "SYN_RCVD" => InOrder(x, seg))
  <2>1. conn.state \in {"SYN_RCVD", "SYN_SENT"}
    BY <1>1, <1>16 DEF Establishes
  <2>2. Fresh /\ (conn.state = "SYN_RCVD" => conn.rcv_nxt = Offset(PeerISS, 1))
    BY <2>1 DEF Base, Opening
  <2>3. a = 0
    BY <2>2 DEF Fresh, a
  <2>4. Mine(z).state = {"CONNECTED"} /\ z.conn.app = 0
    BY <1>16 DEF Establishes
  <2>5. PeerISS \in 0 .. SeqSize - 1 /\ PeerLen \in Nat /\ PeerLen + 2 < SeqSize /\ SeqSize \in Nat
    BY StreamAssumption, TcpAssumption
  <2>6. ASSUME ~z.keep, Mine(z).in = <<>>, ~z.conn.stopped, z.conn.rcv_nxt = Offset(PeerISS, 1)
        PROVE  /\ ~z.keep /\ Flow(z.conn, Mine(z))
               /\ \E S \in Nat : Stored(z.conn, Mine(z), a, S)
    <3>1. Laid(Mine(z).in, a, 0) /\ Len(Mine(z).in) = 0
      BY <2>3, <2>6, LaidEmpty
    <3>2. 0 \in Nat /\ 1 + 0 = 1 /\ 0 <= PeerLen
      BY <2>5
    <3>3. Stored(z.conn, Mine(z), a, 0)
      BY <2>6, <3>1, <3>2 DEF Stored
    <3>4. Flow(z.conn, Mine(z))
      BY <1>5, <2>4, <2>6, <3>1 DEF Flow
    <3> QED BY <2>6, <3>2, <3>3, <3>4
  <2>7. CASE /\ x.conn.state = "SYN_SENT" /\ "SYN" \in seg.flags
             /\ z.conn.rcv_nxt = (seg.seq + 1) % SeqSize
             /\ Mine(z).in = <<>> /\ ~z.keep /\ ~z.conn.stopped
    <3>1. seg.seq = PeerISS
      BY <1>2, <2>7 DEF Heard
    <3> QED BY <2>6, <2>7, <3>1 DEF Offset
  <2>8. CASE /\ x.conn.state = "SYN_RCVD"
             /\ z.conn.rcv_nxt = (x.conn.rcv_nxt + Len(seg.data)) % SeqSize
             /\ Mine(z).in = IF seg.data # <<>> /\ x.memory THEN <<seg.data>> ELSE <<>>
             /\ z.keep = (seg.data # <<>> /\ ~x.memory)
             /\ z.conn.stopped = (seg.data # <<>> /\ (~x.memory \/ UIP_SOCKET_NUMPACKETS = 1))
    <3>1. x.conn.rcv_nxt = Offset(PeerISS, 1)
      BY <1>1, <2>2, <2>8
    <3>2. CASE seg.data = <<>>
      <4>1. (Offset(PeerISS, 1) + 0) % SeqSize = Offset(PeerISS, 1 + 0) /\ 1 + 0 = 1
        BY <2>5, OffsetAdds
      <4>2. Len(seg.data) = 0
        BY <3>2
      <4> QED BY <2>6, <2>8, <3>1, <3>2, <4>1, <4>2
    <3>3. CASE seg.data # <<>>
      <4> DEFINE l == Len(seg.data)
      <4>1. "SYN" \notin seg.flags /\ seg.seq = Offset(PeerISS, 1) /\ seg.data \in Seq(Nat)
        BY <1>2, <1>16, <2>8, <3>1, <3>3 DEF Heard, InOrder
      <4>2. PICK i \in 0 .. PeerLen :
              /\ seg.seq = Offset(PeerISS, 1 + i) /\ i + Len(seg.data) <= PeerLen
              /\ Follows(seg.data, i)
        BY <4>1, <1>2 DEF Heard
      <4>3. i = 0
        <5> DEFINE m == 1 + i
        <5>1. Offset(PeerISS, m) = Offset(PeerISS, 1) /\ m \in Nat /\ m < SeqSize /\ 1 < SeqSize
          BY <2>5, <4>1, <4>2
        <5> HIDE DEF m
        <5>2. m = 1
          BY <2>5, <5>1, OffsetOnce
        <5> QED BY <5>2 DEF m
      <4>4. l \in Nat /\ l <= PeerLen /\ 1 + l < SeqSize /\ 0 + l = l
        <5>1. l \in Nat /\ 0 + l <= PeerLen
          BY <4>1, <4>2, <4>3
        <5> HIDE DEF l
        <5> QED BY <2>5, <5>1
      <4>5. z.conn.rcv_nxt = Offset(PeerISS, 1 + l)
        <5> HIDE DEF l
        <5>1. (Offset(PeerISS, 1) + l) % SeqSize = Offset(PeerISS, 1 + l)
          BY <2>5, <4>4, OffsetAdds
        <5> QED BY <2>8, <3>1, <5>1 DEF l
      <4>6. Mine(z).in = Append(<<>>, seg.data) /\ ~z.keep
            /\ z.conn.stopped = (UIP_SOCKET_NUMPACKETS = 1)
        <5>1. <<seg.data>> = Append(<<>>, seg.data)
          OBVIOUS
        <5>2. Mine(z).in = <<seg.data>> /\ ~z.keep
          BY <1>2, <2>8, <3>3
        <5>3. z.conn.stopped = (UIP_SOCKET_NUMPACKETS = 1)
          BY <1>2, <2>8, <3>3
        <5> QED BY <5>1, <5>2, <5>3
      <4>7. Laid(Mine(z).in, a, l)
        <5>1. <<>> \in Seq(Seq(Nat)) /\ Laid(<<>>, 0, 0)
          BY LaidEmpty
        <5>2. Laid(Append(<<>>, seg.data), 0, 0 + l)
          BY <4>1, <4>2, <4>3, <5>1, LaidAppend
        <5> QED BY <2>3, <4>4, <4>6, <5>2
      <4>8. Stored(z.conn, Mine(z), a, l)
        BY <4>4, <4>5, <4>7 DEF Stored
      <4>9. Len(Mine(z).in) = 1 /\ Mine(z).in # <<>>
        BY <4>6
      <4>10. Flow(z.conn, Mine(z))
        <5> DEFINE N == UIP_SOCKET_NUMPACKETS
        <5>1. 1 <= N /\ (N # 1 => 1 < N)
          <6>1. N \in Nat \ {0}
            BY <1>5
          <6> HIDE DEF N
          <6> QED BY <6>1
        <5>2. Len(Mine(z).in) <= N /\ (~z.conn.stopped => Len(Mine(z).in) < N)
          BY <4>6, <4>9, <5>1
        <5>3. "CLOSE" \notin Mine(z).state /\ "RESTART" \notin Mine(z).state
          BY <2>4
        <5> HIDE DEF N
        <5> QED BY <4>9, <5>2, <5>3 DEF Flow, N
      <4> QED BY <4>4, <4>6, <4>8, <4>10
    <3> QED BY <3>2, <3>3
  <2> QED BY <1>16, <2>7, <2>8 DEF Establishes
<1> QED BY <1>2, <1>10, <1>11, <1>12, <1>13, <1>14, <1>15, <1>16 DEF Runs

\* Incoming holds after a step that leaves these behind.
LEMMA IncomingAfter ==
  ASSUME in_packet' = NULL, Flow(conn', sock'), got' = Count(Len(got')),
         NEW S \in Nat, Stored(conn', sock', Len(got'), S)
  PROVE  Incoming'
<1>1. Flow(conn, sock)'
  BY DEF Flow
<1>2. Stored(conn, sock, Len(got), S)'
  BY DEF Stored, Laid, Follows
<1>3. (got = Count(Len(got)))'
  BY DEF Count
<1> QED BY <1>1, <1>2, <1>3 DEF Incoming

\* A step that leaves the connection and what was received alone keeps Incoming.
LEMMA IncomingSame ==
  ASSUME Incoming, UNCHANGED <<in_packet, got>>, conn' = conn,
         sock'.in = sock.in, sock'.state = sock.state
  PROVE  Incoming'
<1>1. PICK R \in Nat : Stored(conn, sock, Len(got), R)
  BY DEF Incoming
<1>2. Stored(conn', sock', Len(got'), R)
  BY <1>1 DEF Stored
<1>3. Flow(conn', sock')
  BY DEF Incoming, Flow
<1>4. in_packet' = NULL /\ got' = Count(Len(got'))
  BY DEF Incoming
<1> QED BY <1>2, <1>3, <1>4, IncomingAfter

\* While a connection opens, nothing has been received.
LEMMA IncomingFresh ==
  ASSUME Base, Incoming, in_packet' = NULL, UNCHANGED got, sock' = NewSock,
         conn'.app = NULL, ~conn'.stopped
  PROVE  Incoming'
<1> DEFINE a == Len(got)
           N == UIP_SOCKET_NUMPACKETS
<1>1. a \in Nat /\ NULL # 0 /\ N \in Nat \ {0}
  BY BaseParts, TcpAssumption DEF Base
<1>2. sock'.in = <<>> /\ Len(sock'.in) = 0 /\ 0 <= N /\ sock'.state = {}
  BY <1>1 DEF NewSock
<1> HIDE DEF a, N
<1>3. Flow(conn', sock')
  BY <1>1, <1>2 DEF Flow, N
<1>4. Stored(conn', sock', a, a)
  <2>1. Laid(<<>>, a, a)
    BY <1>1, LaidEmpty
  <2> QED BY <1>1, <1>2, <2>1 DEF Stored
<1>5. Stored(conn', sock', Len(got'), a) /\ got' = Count(Len(got'))
  BY <1>4 DEF a, Incoming
<1> QED BY <1>1, <1>3, <1>5, IncomingAfter

\* The first n units.
LEMMA CountIs ==
  ASSUME NEW n \in Nat
  PROVE  Count(n) = Units(0, n) /\ Count(n) \in Seq(Nat) /\ Len(Count(n)) = n
BY DEF Count, Units

\* What read() returns continues what was read.
LEMMA CountOn ==
  ASSUME NEW a \in Nat, NEW d \in Seq(Nat), Follows(d, a), NEW k \in Nat, k <= Len(d)
  PROVE  Count(a) \o SubSeq(d, 1, k) = Count(a + k) /\ Len(Count(a + k)) = a + k
<1> DEFINE e == SubSeq(d, 1, k)
<1>1. e \in Seq(Nat) /\ Len(e) = k /\ \A i \in 1 .. k : e[i] = d[i]
  BY TakeIs
<1>2. Len(d) \in Nat /\ \A i \in 1 .. k : i \in 1 .. Len(d)
  OBVIOUS
<1> HIDE DEF e
<1>3. Follows(e, a)
  BY <1>1, <1>2 DEF Follows
<1>4. 0 <= a /\ a <= a + k /\ a + k \in Nat /\ (a + k) - a = k
  OBVIOUS
<1>5. Units(0, a) \o e = Units(0, a + k)
  <2> DEFINE b == 0
             c == a + k
  <2>1. b \in Nat /\ c \in Nat /\ Len(e) = c - a /\ b <= a /\ a <= c
    BY <1>1, <1>4
  <2> HIDE DEF b, c
  <2>2. Units(b, a) \o e = Units(b, c)
    <3>1. e \in Seq(Nat) /\ Follows(e, a) /\ Len(e) = c - a
      BY <1>1, <1>3, <2>1
    <3>2. b \in Nat /\ c \in Nat /\ b <= a /\ a <= c
      BY <2>1
    <3>3. \A z \in Seq(Nat) : Len(z) = c - a /\ Follows(z, a) => Units(b, a) \o z = Units(b, c)
      BY <3>2, UnitsJoin, ZenonT(80)
    <3> QED BY <3>1, <3>3
  <2> QED BY <2>2 DEF b, c
<1> QED BY <1>4, <1>5, CountIs DEF e

\* read() takes units off the front.
LEMMA IncomingRead ==
  ASSUME Base, Incoming, NEW n \in ReadSizes, Read(n),
         got' = got \o SubSeq(sock.in[1], 1, Lesser(n, Len(sock.in[1])))
  PROVE  Incoming'
<1> DEFINE q == sock.in
           d == q[1]
           l == Len(d)
           a == Len(got)
           k == Lesser(n, l)
           N == UIP_SOCKET_NUMPACKETS
           restart == conn.stopped /\ sock.state \cap {"CLOSE", "REMOTECLOSED"} = {}
<1>1. /\ client = 0 /\ q # <<>> /\ d \in Seq(Nat)
      /\ UNCHANGED <<conns, in_packet>>
      /\ IF n < l
           THEN /\ sock'.in = [q EXCEPT ![1] = SubSeq(@, n + 1, Len(@))]
                /\ sock'.state = sock.state
           ELSE /\ sock'.in = Tail(q)
                /\ sock'.state =
                     IF Tail(q) = <<>> /\ "REMOTECLOSED" \in sock.state THEN {}
                     ELSE IF restart THEN sock.state \cup {"RESTART"}
                     ELSE sock.state
  BY ReadIs
<1>2. /\ n \in Nat \ {0} /\ a \in Nat /\ N \in Nat \ {0} /\ l \in Nat /\ q \in Seq(Seq(Nat))
      /\ Len(q) \in Nat /\ NULL # 0 /\ "CLOSE" \notin sock.state /\ conn' = conn
      /\ conn.stopped \in BOOLEAN /\ sock.state \in SUBSET SockFlags
      /\ conn.stopped => conn.app = 0
      /\ conn.app = 0 => "REMOTECLOSED" \notin sock.state
  <2>1. "CLOSE" \notin sock.state /\ conn' = conn
    BY <1>1, ClientIs, BaseParts DEF conn
  <2>2. conn.stopped \in BOOLEAN
    BY BaseParts DEF StreamConn
  <2>3. a \in Nat /\ l \in Nat
    BY <1>1 DEF Base
  <2>4. N \in Nat \ {0} /\ n \in Nat \ {0}
    BY StreamAssumption, TcpAssumption
  <2>5. q \in Seq(Seq(Nat)) /\ Len(q) \in Nat /\ NULL # 0 /\ sock.state \in SUBSET SockFlags
        /\ Paired(conn, sock)
    BY BaseParts, SMTT(40)
  <2>6. (conn.stopped => conn.app = 0) /\ (conn.app = 0 => "REMOTECLOSED" \notin sock.state)
    BY <2>5 DEF Paired
  <2> HIDE DEF a, l, q, N
  <2> QED BY <2>1, <2>2, <2>3, <2>4, <2>5, <2>6 DEF q
<1>3. in_packet' = NULL /\ Flow(conn, sock) /\ got = Count(a)
  BY <1>1 DEF Incoming
<1>4. PICK R \in Nat : Stored(conn, sock, a, R)
  BY DEF Incoming
<1>5. Laid(q, a, R) /\ (conn.app = 0 => R <= PeerLen /\ conn.rcv_nxt = Offset(PeerISS, 1 + R))
  BY <1>2, <1>4 DEF Stored
<1>6. /\ Tail(q) \in Seq(Seq(Nat)) /\ Laid(Tail(q), a + l, R) /\ Follows(d, a)
  <2> HIDE DEF q, a
  <2> QED BY <1>1, <1>2, <1>5, LaidTail
<1>7. k \in Nat /\ k <= l /\ (n < l => k = n) /\ (~(n < l) => k = l)
  <2> HIDE DEF l
  <2> QED BY <1>2 DEF Lesser
<1>8. got' = Count(a + k) /\ Len(got') = a + k
  <2> HIDE DEF d, k
  <2>1. Count(a) \o SubSeq(d, 1, k) = Count(a + k) /\ Len(Count(a + k)) = a + k
    <3> HIDE DEF a
    <3> QED BY <1>1, <1>2, <1>6, <1>7, CountOn
  <2>2. got' = got \o SubSeq(d, 1, k)
    BY DEF d, k
  <2> QED BY <1>3, <2>1, <2>2
<1>9. CASE n < l
  <2> DEFINE e == Skip(d, n)
             r == sock'.in
  <2>1. e \in Seq(Nat) /\ Len(e) = l - n /\ \A i \in 1 .. l - n : e[i] = d[n + i]
    <3> HIDE DEF q
    <3>1. n <= Len(d)
      <4> HIDE DEF d
      <4> QED BY <1>2, <1>9
    <3> QED BY <1>1, <1>2, <3>1, SkipIs
  <2>2. r = [q EXCEPT ![1] = e] /\ sock'.state = sock.state
    BY <1>1, <1>9 DEF Skip
  <2>3. r \in Seq(Seq(Nat)) /\ Len(r) = Len(q) /\ \A i \in 1 .. Len(q) : r[i] = IF i = 1 THEN e ELSE q[i]
    <3> DEFINE T == Seq(Nat)
    <3> HIDE DEF e, r, q, T
    <3>1. q \in Seq(T) /\ e \in T /\ 1 \in 1 .. Len(q)
      BY <1>1, <1>2, <2>1, EmptySeq DEF T
    <3>2. r \in Seq(T) /\ Len(r) = Len(q) /\ \A i \in 1 .. Len(q) : r[i] = IF i = 1 THEN e ELSE q[i]
      BY <2>2, <3>1, ExceptSeq
    <3> QED BY <3>2 DEF T
  <2>4. Laid(r, a + n, R)
    <3> HIDE DEF e, r, q, a
    <3>1. n \in Nat /\ n <= Len(q[1])
      <4> DEFINE m == Len(q[1])
      <4>1. m \in Nat /\ n \in Nat /\ n < m
        BY <1>2, <1>9
      <4> HIDE DEF m
      <4>2. n \in Nat /\ n <= m
        BY <4>1
      <4> QED BY <4>2 DEF m
    <3> QED BY <1>1, <1>2, <1>5, <2>1, <2>3, <3>1, LaidCut
  <2> HIDE DEF a, q, l, r, e
  <2>5. k = n
    BY <1>7, <1>9
  <2>6. Stored(conn', sock', Len(got'), R)
    BY <1>2, <1>5, <1>8, <2>4, <2>5 DEF Stored, r
  <2>7. r # <<>>
    BY <1>1, <1>2, <2>3, EmptySeq
  <2>8. Flow(conn', sock')
    BY <1>2, <1>3, <2>2, <2>3, <2>7 DEF Flow, r, q
  <2> QED BY <1>3, <1>8, <2>6, <2>8, IncomingAfter
<1>10. CASE ~(n < l)
  <2> DEFINE r == Tail(q)
  <2>1. k = l /\ sock'.in = r
    BY <1>1, <1>7, <1>10
  <2>2. Len(r) = Len(q) - 1
    <3> HIDE DEF q
    <3> QED BY <1>1, <1>2
  <2>3. Len(q) <= N
    BY <1>3 DEF Flow
  <2>4. Len(r) <= N /\ Len(r) < N
    <3> DEFINE i == Len(q)
               j == Len(r)
    <3>1. i \in Nat /\ j = i - 1 /\ i <= N /\ N \in Nat
      BY <1>2, <2>2, <2>3
    <3> HIDE DEF i, j, N
    <3>2. j <= N /\ j < N
      BY <3>1
    <3> QED BY <3>2 DEF j
  <2>5. /\ "RESTART" \in sock'.state /\ conn.app = 0 => conn.stopped
        /\ conn.stopped => "RESTART" \in sock'.state
    <3>1. conn.app = 0 /\ "RESTART" \in sock.state => conn.stopped
      BY <1>3 DEF Flow
    <3>2. sock'.state = IF r = <<>> /\ "REMOTECLOSED" \in sock.state THEN {}
                        ELSE IF restart THEN sock.state \cup {"RESTART"}
                        ELSE sock.state
      BY <1>1, <1>10
    <3>3. conn.stopped => restart /\ ~(r = <<>> /\ "REMOTECLOSED" \in sock.state)
      BY <1>2
    <3>4. restart => conn.stopped
      OBVIOUS
    <3> HIDE DEF restart, q
    <3> QED BY <3>1, <3>2, <3>3, <3>4
  <2> HIDE DEF a, q, l, r, restart
  <2>6. Flow(conn', sock')
    BY <1>2, <2>1, <2>4, <2>5 DEF Flow, N
  <2>7. Stored(conn', sock', Len(got'), R)
    BY <1>2, <1>5, <1>6, <1>8, <2>1 DEF Stored, r
  <2> QED BY <1>3, <1>8, <2>6, <2>7, IncomingAfter
<1> QED BY <1>9, <1>10

\* stop() drops what was received.
LEMMA IncomingStop ==
  ASSUME Base, Incoming, Closes
  PROVE  Incoming'
<1> DEFINE a == Len(got)
           N == UIP_SOCKET_NUMPACKETS
<1>1. /\ UNCHANGED <<conns, in_packet, got>> /\ conn' = conn
      /\ \/ sock' = sock
         \/ /\ sock'.in = <<>>
            /\ sock'.state = IF "REMOTECLOSED" \in sock.state THEN {} ELSE sock.state \cup {"CLOSE"}
  BY StopIs DEF Closes, streamVars, conn
<1>2. /\ a \in Nat /\ NULL # 0 /\ N \in Nat \ {0} /\ conn.stopped \in BOOLEAN
      /\ conn.stopped => conn.app = 0
      /\ conn.app = 0 => "REMOTECLOSED" \notin sock.state
  <2>1. conn.stopped \in BOOLEAN
    BY BaseParts DEF StreamConn
  <2> QED BY <2>1, BaseParts, TcpAssumption DEF Base, Paired
<1>3. in_packet' = NULL /\ Flow(conn, sock) /\ got' = Count(Len(got')) /\ Len(got') = a
  BY <1>1 DEF Incoming
<1>4. CASE sock' = sock
  BY <1>1, <1>4, IncomingSame
<1>5. CASE /\ sock'.in = <<>>
           /\ sock'.state = IF "REMOTECLOSED" \in sock.state THEN {} ELSE sock.state \cup {"CLOSE"}
  <2>1. /\ conn.app = 0 => "CLOSE" \in sock'.state
        /\ "RESTART" \in sock'.state => "RESTART" \in sock.state
    BY <1>2, <1>5
  <2>2. Len(sock'.in) = 0 /\ 0 <= N /\ 0 < N
    <3> HIDE DEF N
    <3> QED BY <1>2, <1>5
  <2>3. conn.app = 0 /\ "RESTART" \in sock.state => conn.stopped
    BY <1>3 DEF Flow
  <2> HIDE DEF a, N
  <2>4. Flow(conn', sock')
    BY <1>1, <1>2, <2>1, <2>2, <2>3 DEF Flow, N
  <2>5. Laid(<<>>, a, a)
    BY <1>2, LaidEmpty
  <2>6. Stored(conn', sock', Len(got'), a)
    BY <1>1, <1>3, <1>5, <2>1, <2>5 DEF Stored
  <2> QED BY <1>2, <1>3, <2>4, <2>6, IncomingAfter
<1> QED BY <1>1, <1>4, <1>5

\* Incoming holds at first.
LEMMA IncomingInit == StreamInit => Incoming
<1> SUFFICES ASSUME StreamInit PROVE Incoming
  OBVIOUS
<1>1. /\ conns = [c \in Conns |-> NewConn] /\ socks = [s \in Socks |-> NewSock]
      /\ in_packet = NULL /\ got = <<>>
  BY DEF StreamInit, Init
<1>2. 0 \in Conns /\ 0 \in Socks /\ NULL # 0
  BY TcpAssumption DEF Conns, Socks
<1>3. conn = NewConn /\ sock = NewSock /\ Len(got) = 0
  BY <1>1, <1>2 DEF conn, sock
<1>4. Flow(conn, sock)
  <2>1. 0 <= UIP_SOCKET_NUMPACKETS /\ 0 < UIP_SOCKET_NUMPACKETS
    BY TcpAssumption
  <2> QED BY <1>2, <1>3, <2>1 DEF Flow, NewConn, NewSock
<1>5. Stored(conn, sock, 0, 0)
  <2>1. Laid(<<>>, 0, 0)
    BY LaidEmpty
  <2> QED BY <1>2, <1>3, <2>1 DEF Stored, NewConn, NewSock
<1>6. got = Count(Len(got))
  BY <1>1, <1>3 DEF Count
<1> QED BY <1>1, <1>3, <1>4, <1>5, <1>6 DEF Incoming

\* Every step keeps it while the pool suffices.
LEMMA IncomingNext ==
  ASSUME MemoryAssumption
  PROVE  Base /\ Incoming /\ [StreamNext]_allVars => Incoming'
<1> SUFFICES ASSUME Base, Incoming, [StreamNext]_allVars PROVE Incoming'
  OBVIOUS
<1>1. CASE \E seg \in net : PeerReceive(seg)
  BY <1>1, IncomingSame DEF PeerReceive, vars, conn, sock
<1>2. CASE Tick
  <2>1. CASE ListenStep
    <3>1. /\ sock = NewSock /\ sock' = sock /\ in_packet' = NULL /\ UNCHANGED got
          /\ conn'.app = NULL /\ ~conn'.stopped
      BY <2>1 DEF ListenStep, Fresh, Quiet
    <3> QED BY <3>1, IncomingFresh
  <2> QED BY <1>2, <2>1, TickIs, IncomingRun
<1>3. CASE Opens
  <2>1. /\ sock = NewSock /\ sock' = sock /\ in_packet' = in_packet /\ UNCHANGED got
        /\ conn'.app = NULL /\ ~conn'.stopped
    BY <1>3, OpensIs DEF Fresh
  <2>2. in_packet' = NULL
    BY <2>1 DEF Incoming
  <2> QED BY <2>1, <2>2, IncomingFresh
<1>4. CASE Reads
  <2>1. CASE Accept /\ UNCHANGED streamVars
    BY <2>1, IncomingSame DEF Accept, stackVars, streamVars, conn, sock
  <2> QED BY <1>4, <2>1, IncomingRead DEF Reads
<1>5. CASE Writes
  BY <1>5, IncomingSame DEF Writes, Write, stackVars, conn, sock
<1>6. CASE Closes
  BY <1>6, IncomingStop
<1>7. CASE Returns
  <2>1. CASE ConnectReturn /\ UNCHANGED streamVars
    BY <2>1, IncomingSame DEF ConnectReturn, stackVars, streamVars, conn, sock
  <2>2. CASE WriteStep /\ UNCHANGED streamVars
    <3>1. /\ UNCHANGED <<conns, in_packet, got>>
          /\ \/ UNCHANGED socks
             \/ \E r : socks' = [socks EXCEPT ![0] = [sock EXCEPT !.out = r]]
      BY <2>2, WriteStepIs DEF streamVars
    <3>2. sock'.in = sock.in /\ sock'.state = sock.state /\ conn' = conn
      <4>1. CASE UNCHANGED socks
        BY <3>1, <4>1 DEF sock, conn
      <4>2. ASSUME NEW r, socks' = [socks EXCEPT ![0] = [sock EXCEPT !.out = r]]
            PROVE  sock'.in = sock.in /\ sock'.state = sock.state
        <5>1. sock' = [sock EXCEPT !.out = r]
          BY <4>2, BaseParts DEF sock
        <5>2. sock \in StreamSock
          BY BaseParts
        <5> QED BY <5>1, <5>2 DEF StreamSock
      <4> QED BY <3>1, <4>1, <4>2 DEF conn
    <3> QED BY <3>1, <3>2, IncomingSame
  <2> QED BY <1>7, <2>1, <2>2 DEF Returns
<1>8. CASE UNCHANGED allVars
  BY <1>8, IncomingSame DEF allVars, vars, streamVars, conn, sock
<1> QED BY <1>1, <1>2, <1>3, <1>4, <1>5, <1>6, <1>7, <1>8 DEF StreamNext
-----------------------------------------------------------------------------
(* What the invariants say of the remote's stream *)

\* Two stretches are one.
LEMMA UnitsFollow ==
  ASSUME NEW a \in Nat, NEW b \in Nat, NEW c \in Nat, a <= b, b <= c
  PROVE  Units(a, b) \o Units(b, c) = Units(a, c)
<1> DEFINE e == Units(b, c)
<1>1. e \in Seq(Nat) /\ Len(e) = c - b /\ Follows(e, b)
  BY DEF Units, Follows
<1> HIDE DEF e
<1>3. \A d \in Seq(Nat) : Len(d) = c - b /\ Follows(d, b) => Units(a, b) \o d = Units(a, c)
  BY UnitsJoin, ZenonT(60)
<1>2. Units(a, b) \o e = Units(a, c)
  BY <1>1, <1>3
<1> QED BY <1>2 DEF e

\* What was read and what waits are one stretch of units.
LEMMA AllIs ==
  ASSUME Base, Incoming
  PROVE  \E R \in Nat :
           /\ Stored(conn, sock, Len(got), R)
           /\ got \o Flat(sock.in) = Count(R) /\ Len(Count(R)) = R
<1> DEFINE a == Len(got)
           q == sock.in
<1>1. a \in Nat /\ got = Count(a) /\ q \in Seq(Seq(Nat))
  BY BaseParts DEF Base, Incoming
<1>2. PICK R \in Nat : Stored(conn, sock, a, R)
  BY DEF Incoming
<1>3. Laid(q, a, R)
  BY <1>2 DEF Stored
<1> HIDE DEF a, q
<1>4. a <= R /\ Flat(q) = Units(a, R)
  BY <1>1, <1>3, LaidFlat
<1>6. Units(0, a) \o Units(a, R) = Units(0, R)
  <2> DEFINE b == 0
  <2>1. b \in Nat /\ a \in Nat /\ b <= a /\ a <= R
    BY <1>1, <1>4
  <2> HIDE DEF b
  <2>2. Units(b, a) \o Units(a, R) = Units(b, R)
    BY <2>1, UnitsFollow
  <2> QED BY <2>2 DEF b
<1>7. Count(a) = Units(0, a) /\ Count(R) = Units(0, R) /\ Len(Count(R)) = R
  BY <1>1, CountIs
<1>8. got \o Flat(q) = Count(R)
  BY <1>1, <1>4, <1>6, <1>7
<1> QED BY <1>2, <1>7, <1>8 DEF a, q

\* ReadsPeerStream follows.
LEMMA ReadsStream == Base /\ Incoming => ReadsPeerStream
<1> SUFFICES ASSUME Base, Incoming PROVE ReadsPeerStream
  OBVIOUS
<1>1. PICK R \in Nat : got \o Flat(sock.in) = Count(R) /\ Len(Count(R)) = R
  BY AllIs
<1> QED BY <1>1 DEF ReadsPeerStream

\* So does AckedIsStored.
LEMMA AcksStored == Base /\ Incoming => AckedIsStored
<1> SUFFICES ASSUME Base, Incoming, conn.app # NULL, "CLOSE" \notin sock.state
             PROVE  RcvCount = Len(got \o Flat(sock.in)) + (IF in_packet = NULL THEN 0 ELSE Len(in_packet.data))
  BY DEF AckedIsStored
<1>1. PICK R \in Nat :
        /\ Stored(conn, sock, Len(got), R)
        /\ got \o Flat(sock.in) = Count(R) /\ Len(Count(R)) = R
  BY AllIs
<1>2. conn.app = 0
  BY BaseParts DEF StreamConn
<1>3. R <= PeerLen /\ conn.rcv_nxt = Offset(PeerISS, 1 + R)
  BY <1>1, <1>2 DEF Stored
<1>4. in_packet = NULL
  BY DEF Incoming
<1>5. PeerISS \in 0 .. SeqSize - 1 /\ PeerLen \in Nat /\ PeerLen + 2 < SeqSize /\ SeqSize \in Nat
  BY StreamAssumption, TcpAssumption
<1>6. Place(PeerISS, Offset(PeerISS, 1 + R)) = 1 + R
  <2> DEFINE m == 1 + R
  <2>1. m \in Nat /\ m < SeqSize
    BY <1>3, <1>5
  <2> HIDE DEF m
  <2>2. Place(PeerISS, Offset(PeerISS, m)) = m
    BY <1>5, <2>1, PlaceOffset
  <2> QED BY <2>2 DEF m
<1>7. RcvCount = R
  <2> DEFINE m == 1 + R
  <2>1. RcvCount = m - 1 /\ m - 1 = R
    BY <1>3, <1>6 DEF RcvCount
  <2> QED BY <2>1
<1> QED BY <1>1, <1>4, <1>7

\* And so does StoppedForReason.
LEMMA StopsForReason == Incoming => StoppedForReason
BY DEF Incoming, Flow, StoppedForReason

\* The types of all variables and how a connection and its socket go together, in
\* every state: the least that the two streams need.
THEOREM StreamKeepsBase == StreamSpec => []Base
<1> QED BY BaseInit, BaseNext, PTL DEF StreamSpec

\* The place where the sketch reads, the blocks that wait for it and rcv_nxt stay
\* one stretch of the remote's stream, when the pool always has a block
\* (Enc28J60Network.cpp's allocBlock never fails).
THEOREM StreamKeepsIncoming ==
  ASSUME MemoryAssumption
  PROVE  StreamSpec => []Incoming
<1>1. Base /\ Incoming /\ [StreamNext]_allVars => Incoming'
  BY IncomingNext
<1> QED BY <1>1, IncomingInit, StreamKeepsBase, PTL DEF StreamSpec

\* read() returns the remote's stream, without gap, repetition or change of order,
\* whatever is lost, repeated or late (UIPClient.cpp:279-320).
THEOREM SketchReadsStream ==
  ASSUME MemoryAssumption
  PROVE  StreamSpec => []ReadsPeerStream
<1> QED BY ReadsStream, StreamKeepsBase, StreamKeepsIncoming, PTL

\* What the stack acknowledged it has stored for the sketch (uip.c:1604-1607).
THEOREM StoresWhatItAcks ==
  ASSUME MemoryAssumption
  PROVE  StreamSpec => []AckedIsStored
<1> QED BY AcksStored, StreamKeepsBase, StreamKeepsIncoming, PTL

\* A connection that the callback stopped has data to read, a restart on its way or a
\* close, and so does not stay stopped for no reason (UIPClient.cpp:273-274, 383-387).
THEOREM StopsWithReason ==
  ASSUME MemoryAssumption
  PROVE  StreamSpec => []StoppedForReason
<1> QED BY StopsForReason, StreamKeepsIncoming, PTL
-----------------------------------------------------------------------------
(* What the remote has received *)

\* No window is smaller than a block, but for the window 0, which uip.c takes for
\* the initial segment size (uip.c:1618-1626).
WindowAssumption == \A w \in Windows : w = 0 \/ w >= UIP_TCP_MSS

\* How many units have reached packets_out, or will not reach it any more.
Written == wrote - (IF call.op = "write" THEN Len(call.data) ELSE 0)

\* A segment with the units i + 1, i + 2, ... of the sketch's stream.
Carries(seg, i) ==
  /\ seg.seq = Offset(ISS, 1 + i) /\ i + Len(seg.data) <= SketchLen
  /\ Follows(seg.data, i)

\* The remote p has received the beginning of the stream, and the segments n have
\* parts of it.
Whole(p, n) ==
  /\ p.rcvd = Count(Len(p.rcvd)) /\ Len(p.rcvd) <= SketchLen
  /\ \A seg \in n : seg.data # <<>> => \E i \in Nat : Carries(seg, i)

\* It has received the first w units, and no segment has more.
Done(p, n, w) ==
  /\ Len(p.rcvd) = w
  /\ \A seg \in n : seg.data # <<>> =>
       \E i \in Nat : Carries(seg, i) /\ i + Len(seg.data) <= w

\* It has received the first B units, and may have received the L in flight.
Delivered(p, n, B, L) ==
  /\ Len(p.rcvd) \in {B, B + L} /\ ~p.fin
  /\ \A seg \in n :
       /\ "FIN" \notin seg.flags
       /\ seg.data # <<>> =>
            \E i \in Nat : /\ Carries(seg, i)
                           /\ i + Len(seg.data) <= B \/ (i = B /\ Len(seg.data) = L)

\* B units have left the queue out of the connection c, and those up to w wait in it;
\* what is in flight is the first block.
Underway(c, out, B, w, p, n) ==
  /\ Laid(DataOf(out), B, w) /\ c.snd_nxt = Offset(ISS, 1 + B)
  /\ c.len > 0 => c.len = out[1].cap
  /\ Delivered(p, n, B, c.len)

Going(c, out, w, p, n) ==
  /\ Whole(p, n)
  /\ c.state # "CLOSED" => c.mss = UIP_TCP_MSS
  /\ c.app = 0 => \E B \in Nat : Underway(c, out, B, w, p, n)
  /\ c.state \in Closing => Done(p, n, w)

\* What the sketch has written is received, in flight or waiting.
Outgoing ==
  /\ call.op = "write" => Follows(call.data, Written)
  /\ Written \in Nat
  /\ Going(conn, sock.out, Written, peer, net)

\* Outgoing holds after a step that leaves these behind.
LEMMA OutgoingAfter ==
  ASSUME NEW w \in Nat, Written' = w, call'.op = "write" => Follows(call'.data, w),
         Going(conn', sock'.out, w, peer', net')
  PROVE  Outgoing'
<1>1. Whole(peer, net)' <=> Whole(peer', net')
  BY DEF Whole, Carries, Follows, Count, Offset
<1>2. Done(peer, net, Written)' <=> Done(peer', net', w)
  BY DEF Done, Carries, Follows, Offset
<1>3. \A B, L : Delivered(peer, net, B, L)' <=> Delivered(peer', net', B, L)
  BY DEF Delivered, Carries, Follows, Offset
<1>4. \A B : Laid(DataOf(sock.out), B, Written)' <=> Laid(DataOf(sock'.out), B, w)
  BY DEF Laid, Follows, DataOf
<1>5. (\E B \in Nat : Underway(conn, sock.out, B, Written, peer, net))'
        <=> \E B \in Nat : Underway(conn', sock'.out, B, w, peer', net')
  BY <1>3, <1>4 DEF Underway, Delivered, Carries, Follows, Laid, DataOf, Offset
<1>6. Going(conn, sock.out, Written, peer, net)'
  BY <1>1, <1>2, <1>5 DEF Going
<1> QED BY <1>6 DEF Outgoing, Follows

\* The data of the blocks, one by one.
LEMMA DataOfIs ==
  ASSUME NEW o \in Seq(StreamBlock)
  PROVE  /\ DataOf(o) \in Seq(Seq(Nat)) /\ Len(DataOf(o)) = Len(o)
         /\ \A i \in 1 .. Len(o) : DataOf(o)[i] = o[i].data /\ o[i] \in StreamBlock
<1>1. Len(o) \in Nat /\ DOMAIN o = 1 .. Len(o) /\ \A i \in 1 .. Len(o) : o[i] \in StreamBlock
  OBVIOUS
<1>2. \A i \in 1 .. Len(o) : o[i].data \in Seq(Nat)
  BY <1>1 DEF StreamBlock
<1>3. DataOf(o) = [i \in 1 .. Len(o) |-> o[i].data]
  BY <1>1 DEF DataOf
<1> QED BY <1>1, <1>2, <1>3

\* ... without the first block.
LEMMA DataOfTail ==
  ASSUME NEW o \in Seq(StreamBlock), o # <<>>
  PROVE  Tail(o) \in Seq(StreamBlock) /\ DataOf(Tail(o)) = Tail(DataOf(o)) /\ DataOf(o) # <<>>
<1> DEFINE q == DataOf(o)
           t == Tail(o)
           u == DataOf(t)
           v == Tail(q)
<1>1. /\ q \in Seq(Seq(Nat)) /\ Len(q) = Len(o)
      /\ \A i \in 1 .. Len(o) : q[i] = o[i].data
  BY DataOfIs
<1>2. Len(o) \in Nat /\ Len(o) > 0
  BY EmptySeq
<1>3. t \in Seq(StreamBlock) /\ Len(t) = Len(o) - 1 /\ \A i \in 1 .. Len(o) - 1 : t[i] = o[i + 1]
  OBVIOUS
<1>4. /\ u \in Seq(Seq(Nat)) /\ Len(u) = Len(t)
      /\ \A i \in 1 .. Len(t) : u[i] = t[i].data
  BY <1>3, DataOfIs
<1> HIDE DEF q, t, u
<1>5. q # <<>>
  BY <1>1, <1>2
<1>6. v \in Seq(Seq(Nat)) /\ Len(v) = Len(q) - 1 /\ \A i \in 1 .. Len(q) - 1 : v[i] = q[i + 1]
  BY <1>1, <1>5
<1> HIDE DEF v
<1>7. Len(u) = Len(v)
  BY <1>1, <1>3, <1>4, <1>6
<1>8. ASSUME NEW i \in 1 .. Len(v) PROVE u[i] = v[i]
  <2>1. i \in 1 .. Len(t) /\ i \in 1 .. Len(o) - 1 /\ i + 1 \in 1 .. Len(o)
    BY <1>1, <1>2, <1>3, <1>6
  <2> QED BY <1>1, <1>3, <1>4, <1>6, <2>1
<1>9. u = v
  BY <1>4, <1>6, <1>7, <1>8, SeqEqual
<1> QED BY <1>3, <1>5, <1>9 DEF q, t, u, v

\* Everything in flight has been received: it has left.
LEMMA DeliveredAll ==
  ASSUME NEW p, NEW n, NEW B \in Nat, NEW L \in Nat, Delivered(p, n, B, L),
         \A seg \in n : seg.data \in Seq(Nat),
         Len(p.rcvd) = B + L
  PROVE  Delivered(p, n, B + L, 0)
<1>1. ASSUME NEW seg \in n, NEW i \in Nat,
             i + Len(seg.data) <= B \/ (i = B /\ Len(seg.data) = L)
      PROVE  i + Len(seg.data) <= B + L
  <2> DEFINE d == Len(seg.data)
  <2>1. d \in Nat
    OBVIOUS
  <2> HIDE DEF d
  <2>2. i + d <= B \/ (i = B /\ d = L) => i + d <= B + L
    BY <2>1
  <2> QED BY <1>1, <2>2 DEF d
<1> QED BY <1>1 DEF Delivered

\* The block s of L units goes out, for the first time or once more.
LEMMA DeliveredSends ==
  ASSUME NEW p, NEW n, NEW B \in Nat, NEW L \in Nat, NEW M \in {0, L}, Delivered(p, n, B, M),
         \A seg \in n : seg.data \in Seq(Nat),
         NEW m, NEW s, m = n \/ m = n \cup {s},
         m # n => "FIN" \notin s.flags /\ Carries(s, B) /\ Len(s.data) = L
  PROVE  Delivered(p, m, B, L)
<1>1. Len(p.rcvd) \in {B, B + L} /\ ~p.fin
  BY DEF Delivered
<1>2. ASSUME NEW seg \in m
      PROVE  /\ "FIN" \notin seg.flags
             /\ seg.data # <<>> =>
                  \E i \in Nat : /\ Carries(seg, i)
                                 /\ i + Len(seg.data) <= B \/ (i = B /\ Len(seg.data) = L)
  <2>1. CASE seg \in n
    <3>1. "FIN" \notin seg.flags
      BY <2>1 DEF Delivered
    <3>2. ASSUME seg.data # <<>>
          PROVE  \E i \in Nat : /\ Carries(seg, i)
                                /\ i + Len(seg.data) <= B \/ (i = B /\ Len(seg.data) = L)
      <4>1. PICK i \in Nat :
              Carries(seg, i) /\ (i + Len(seg.data) <= B \/ (i = B /\ Len(seg.data) = M))
        BY <2>1, <3>2 DEF Delivered
      <4>2. Len(seg.data) # 0
        BY <2>1, <3>2, EmptySeq
      <4> QED BY <4>1, <4>2
    <3> QED BY <3>1, <3>2
  <2>2. CASE seg \notin n
    <3>1. seg = s /\ m # n
      BY <1>2, <2>2
    <3> QED BY <3>1
  <2> QED BY <2>1, <2>2
<1> QED BY <1>1, <1>2 DEF Delivered

\* A segment without data changes nothing of this.
LEMMA WholeSends ==
  ASSUME NEW p, NEW n, NEW m, NEW s, m = n \/ m = n \cup {s},
         m # n => s.data = <<>> \/ \E i \in Nat : Carries(s, i),
         Whole(p, n)
  PROVE  Whole(p, m)
BY DEF Whole

\* So it is with what was received before we closed.
LEMMA DoneSends ==
  ASSUME NEW p, NEW n, NEW m, NEW s, m = n \/ m = n \cup {s}, m # n => s.data = <<>>,
         NEW w, Done(p, n, w)
  PROVE  Done(p, m, w)
BY DEF Done

\* With nothing in flight, what has been received is what has left.
LEMMA DeliveredDone ==
  ASSUME NEW p, NEW n, NEW w \in Nat, Delivered(p, n, w, 0), \A seg \in n : seg.data \in Seq(Nat)
  PROVE  Done(p, n, w)
<1>1. ASSUME NEW seg \in n, seg.data # <<>>
      PROVE  \E i \in Nat : Carries(seg, i) /\ i + Len(seg.data) <= w
  <2>1. PICK i \in Nat :
          Carries(seg, i) /\ (i + Len(seg.data) <= w \/ (i = w /\ Len(seg.data) = 0))
    BY <1>1 DEF Delivered
  <2>2. Len(seg.data) # 0
    BY <1>1, EmptySeq
  <2> QED BY <2>1, <2>2
<1>2. Len(p.rcvd) = w
  BY DEF Delivered
<1> QED BY <1>1, <1>2 DEF Done

\* A segment that continues what was received: it carries the next units.
LEMMA NextCarried ==
  ASSUME NEW p, p.rcvd \in Seq(Nat), NEW n, Whole(p, n), NEW seg \in n, seg.data \in Seq(Nat),
         seg.data # <<>>, seg.seq = Offset(ISS, 1 + Len(p.rcvd)),
         NEW i \in Nat, Carries(seg, i)
  PROVE  i = Len(p.rcvd)
<1> DEFINE l == Len(p.rcvd)
           d == Len(seg.data)
           a == 1 + i
           b == 1 + l
<1>1. l \in Nat /\ d \in Nat /\ l <= SketchLen /\ i + d <= SketchLen
  BY DEF Whole, Carries
<1>2. SketchLen \in Nat /\ SketchLen + 2 < SeqSize /\ SeqSize \in Nat /\ ISS \in 0 .. SeqSize - 1
  BY StreamAssumption, TcpAssumption
<1>3. Offset(ISS, a) = Offset(ISS, b)
  BY DEF Carries
<1> HIDE DEF l, d
<1>4. a \in Nat /\ b \in Nat /\ a < SeqSize /\ b < SeqSize
  BY <1>1, <1>2
<1>5. a = b
  <2> HIDE DEF a, b
  <2> QED BY <1>2, <1>3, <1>4, OffsetOnce
<1>6. i = l
  BY <1>1, <1>5
<1> QED BY <1>6 DEF l

\* The remote receives a segment.
LEMMA WholeReceives ==
  ASSUME NEW p, p.rcvd \in Seq(Nat), NEW n, Whole(p, n), NEW seg \in n, seg.data \in Seq(Nat),
         seg.seq = Offset(ISS, 1 + Len(p.rcvd)), NEW q, q.rcvd = p.rcvd \o seg.data
  PROVE  /\ Whole(q, n)
         /\ seg.data = <<>> => q.rcvd = p.rcvd
         /\ Len(q.rcvd) = Len(p.rcvd) + Len(seg.data)
<1> DEFINE l == Len(p.rcvd)
           d == seg.data
           k == Len(d)
<1>1. l \in Nat /\ p.rcvd = Count(l) /\ l <= SketchLen /\ k \in Nat
  BY DEF Whole
<1>2. Len(q.rcvd) = l + k
  BY Joined
<1>3. d = <<>> => q.rcvd = p.rcvd
  OBVIOUS
<1>4. d # <<>> => q.rcvd = Count(l + k) /\ l + k <= SketchLen
  <2> SUFFICES ASSUME d # <<>> PROVE q.rcvd = Count(l + k) /\ l + k <= SketchLen
    OBVIOUS
  <2>1. PICK i \in Nat : Carries(seg, i)
    BY DEF Whole
  <2>2. i = l
    BY <2>1, NextCarried
  <2>3. Follows(d, l) /\ l + k <= SketchLen
    BY <2>1, <2>2 DEF Carries
  <2>4. SubSeq(d, 1, k) = d
    OBVIOUS
  <2>5. k <= Len(d)
    BY <1>1
  <2>6. Count(l) \o SubSeq(d, 1, k) = Count(l + k)
    <3> HIDE DEF l, d, k
    <3>1. d \in Seq(Nat) 
      BY DEF d
    <3> QED BY <1>1, <2>3, <2>5, <3>1, CountOn
  <2> QED BY <1>1, <2>3, <2>4, <2>6
<1>5. q.rcvd = Count(Len(q.rcvd)) /\ Len(q.rcvd) <= SketchLen
  <2>1. CASE d = <<>>
    BY <1>1, <1>3, <2>1
  <2>2. CASE d # <<>>
    BY <1>2, <1>4, <2>2
  <2> QED BY <2>1, <2>2
<1> QED BY <1>2, <1>3, <1>5 DEF Whole

\* What is in flight arrives, or what has left arrives once more.
LEMMA DeliveredReceives ==
  ASSUME NEW p, p.rcvd \in Seq(Nat), NEW n, Whole(p, n), NEW seg \in n, seg.data \in Seq(Nat),
         seg.seq = Offset(ISS, 1 + Len(p.rcvd)),
         NEW q, Len(q.rcvd) = Len(p.rcvd) + Len(seg.data), q.fin = ("FIN" \in seg.flags),
         NEW B \in Nat, NEW L \in Nat, Delivered(p, n, B, L)
  PROVE  Delivered(q, n, B, L)
<1> DEFINE l == Len(p.rcvd)
           k == Len(seg.data)
<1>1. l \in Nat /\ k \in Nat /\ l \in {B, B + L} /\ "FIN" \notin seg.flags
  BY DEF Delivered
<1>2. l + k \in {B, B + L}
  <2>1. CASE seg.data = <<>>
    <3>1. k = 0
      BY <2>1
    <3> HIDE DEF l, k
    <3> QED BY <1>1, <3>1
  <2>2. CASE seg.data # <<>>
    <3>1. PICK i \in Nat : Carries(seg, i) /\ (i + k <= B \/ (i = B /\ k = L))
      BY <2>2 DEF Delivered
    <3>2. i = l
      BY <2>2, <3>1, NextCarried
    <3>3. k > 0
      BY <2>2, EmptySeq
    <3> HIDE DEF l, k
    <3> QED BY <1>1, <3>1, <3>2, <3>3
  <2> QED BY <2>1, <2>2
<1> QED BY <1>1, <1>2 DEF Delivered

\* After we closed nothing new arrives.
LEMMA DoneReceives ==
  ASSUME NEW p, p.rcvd \in Seq(Nat), NEW n, Whole(p, n), NEW seg \in n, seg.data \in Seq(Nat),
         seg.seq = Offset(ISS, 1 + Len(p.rcvd)),
         NEW q, Len(q.rcvd) = Len(p.rcvd) + Len(seg.data),
         NEW w \in Nat, Done(p, n, w)
  PROVE  Done(q, n, w)
<1> DEFINE l == Len(p.rcvd)
           k == Len(seg.data)
<1>1. l \in Nat /\ k \in Nat /\ l = w
  BY DEF Done
<1>2. l + k = w
  <2>1. CASE seg.data = <<>>
    <3>1. k = 0
      BY <2>1
    <3> HIDE DEF l, k
    <3> QED BY <1>1, <3>1
  <2>2. CASE seg.data # <<>>
    <3>1. PICK i \in Nat : Carries(seg, i) /\ i + k <= w
      BY <2>2 DEF Done
    <3>2. i = l
      BY <2>2, <3>1, NextCarried
    <3>3. k > 0
      BY <2>2, EmptySeq
    <3> HIDE DEF l, k
    <3> QED BY <1>1, <3>1, <3>2, <3>3
  <2> QED BY <2>1, <2>2
<1> QED BY <1>2 DEF Done

\* What the remote receives keeps Outgoing.
LEMMA OutgoingPeer ==
  ASSUME Base, Outgoing, NEW seg \in net, PeerReceive(seg)
  PROVE  Outgoing'
<1> DEFINE w == Written
<1>1. /\ seg.seq = Offset(ISS, 1 + Len(peer.rcvd))
      /\ UNCHANGED <<conns, socks, net, call, wrote>> /\ conn' = conn /\ sock' = sock
      /\ peer' = [peer EXCEPT !.rcvd = @ \o seg.data, !.fin = "FIN" \in seg.flags]
  BY DEF PeerReceive, vars, conn, sock
<1>2. /\ peer \in [remote : Remotes, rcvd : Seq(Nat), fin : BOOLEAN] /\ seg.data \in Seq(Nat)
      /\ conn.len \in Nat
  BY BaseParts DEF Base, Said, StreamConn
<1>3. peer'.rcvd = peer.rcvd \o seg.data /\ peer'.fin = ("FIN" \in seg.flags) /\ peer.rcvd \in Seq(Nat)
  BY <1>1, <1>2
<1>4. w \in Nat /\ Written' = w /\ (call'.op = "write" => Follows(call'.data, w))
      /\ Going(conn, sock.out, w, peer, net)
  BY <1>1 DEF Outgoing, Written
<1> HIDE DEF w
<1>5. Whole(peer, net)
  BY <1>4 DEF Going
<1>10. /\ peer.rcvd \in Seq(Nat) /\ seg.data \in Seq(Nat)
       /\ seg.seq = Offset(ISS, 1 + Len(peer.rcvd)) /\ peer'.rcvd = peer.rcvd \o seg.data
  BY <1>1, <1>2, <1>3
<1>6. Whole(peer', net) /\ Len(peer'.rcvd) = Len(peer.rcvd) + Len(seg.data)
  BY <1>5, <1>10, WholeReceives
<1>7. ASSUME conn.app = 0 PROVE \E B \in Nat : Underway(conn, sock.out, B, w, peer', net)
  <2>1. PICK B \in Nat : Underway(conn, sock.out, B, w, peer, net)
    BY <1>4, <1>7 DEF Going
  <2>2. Delivered(peer', net, B, conn.len)
    <3>1. Delivered(peer, net, B, conn.len)
      BY <2>1 DEF Underway
    <3> QED BY <1>1, <1>2, <1>3, <1>5, <1>6, <3>1, DeliveredReceives
  <2> QED BY <2>1, <2>2 DEF Underway
<1>8. ASSUME conn.state \in Closing PROVE Done(peer', net, w)
  <2>1. Done(peer, net, w)
    BY <1>4, <1>8 DEF Going
  <2> QED BY <1>1, <1>2, <1>3, <1>4, <1>5, <1>6, <2>1, DoneReceives
<1>9. Going(conn', sock'.out, w, peer', net')
  BY <1>1, <1>4, <1>6, <1>7, <1>8 DEF Going
<1> QED BY <1>4, <1>9, OutgoingAfter

\* The parts of what is under way.
LEMMA UnderwayParts ==
  ASSUME NEW c, c.len \in Nat, NEW o \in Seq(StreamBlock), NEW B \in Nat, NEW w \in Nat,
         NEW p, NEW n, Underway(c, o, B, w, p, n),
         c.len > 0 => o # <<>> /\ Len(o[1].data) = o[1].cap
  PROVE  /\ c.len > 0 => /\ Len(o[1].data) = c.len /\ B + c.len <= w
                         /\ Laid(DataOf(Tail(o)), B + c.len, w)
         /\ o # <<>> => /\ o[1].data \in Seq(Nat) /\ Follows(o[1].data, B)
                        /\ B + Len(o[1].data) <= w
         /\ o = <<>> => B = w
<1>1. /\ DataOf(o) \in Seq(Seq(Nat)) /\ Len(DataOf(o)) = Len(o)
      /\ \A i \in 1 .. Len(o) : DataOf(o)[i] = o[i].data
  BY DataOfIs
<1>2. Laid(DataOf(o), B, w) /\ (c.len > 0 => c.len = o[1].cap)
  BY DEF Underway
<1>3. CASE o # <<>>
  <2> DEFINE q == DataOf(o)
  <2>1. q # <<>> /\ DataOf(Tail(o)) = Tail(q)
    BY <1>3, DataOfTail
  <2>2. q[1] = o[1].data
    <3>1. 1 \in 1 .. Len(o)
      BY <1>3, EmptySeq
    <3> QED BY <1>1, <3>1
  <2>3. /\ Laid(Tail(q), B + Len(q[1]), w)
        /\ q[1] \in Seq(Nat) /\ Follows(q[1], B) /\ B + Len(q[1]) <= w
    <3> HIDE DEF q
    <3>1. q \in Seq(Seq(Nat)) /\ Laid(q, B, w)
      BY <1>1, <1>2 DEF q
    <3> QED BY <2>1, <3>1, LaidTail
  <2>4. c.len > 0 => Len(q[1]) = c.len
    BY <1>2, <2>2
  <2> HIDE DEF q
  <2> QED BY <1>3, <2>1, <2>2, <2>3, <2>4
<1>4. CASE o = <<>>
  <2>1. DataOf(o) = <<>>
    BY <1>1, <1>4, EmptySeq
  <2>2. Len(DataOf(o)) = 0
    BY <1>1, <1>4
  <2>3. PICK pos : At(pos, DataOf(o), B, w)
    BY <1>2, LaidAt
  <2>4. pos[1] = B /\ pos[Len(DataOf(o)) + 1] = w /\ 0 + 1 = 1
    BY <2>3 DEF At
  <2>5. B = w
    BY <2>2, <2>4
  <2> QED BY <1>4, <2>5
<1> QED BY <1>3, <1>4

\* What Outgoing and Base say of the segments and of the sketch's stream.
LEMMA OutgoingParts ==
  ASSUME Base, Outgoing
  PROVE  /\ \A seg \in net : seg.data \in Seq(Nat)
         /\ peer.rcvd \in Seq(Nat) /\ Written \in Nat /\ Written <= SketchLen
         /\ call.op # "write" => Written = wrote
         /\ Whole(peer, net) /\ Going(conn, sock.out, Written, peer, net)
<1>1. /\ \A seg \in net : seg.data \in Seq(Nat)
      /\ peer.rcvd \in Seq(Nat) /\ wrote \in Nat /\ wrote <= SketchLen /\ SketchLen \in Nat
  BY StreamAssumption DEF Base, Said
<1>2. Written \in Nat /\ Whole(peer, net) /\ Going(conn, sock.out, Written, peer, net)
  BY DEF Outgoing, Going
<1>3. call.op = "write" => Len(call.data) \in Nat
  <2> SUFFICES ASSUME call.op = "write" PROVE Len(call.data) \in Nat
    OBVIOUS
  <2>1. call \in StreamCall /\ call # Idle /\ call \notin [op : {"connect"}, conn : {0}]
    BY DEF Base, Idle
  <2>2. call \in [op : {"write"}, sock : {0}, data : Seq(Nat) \ {<<>>}]
    BY <2>1, SMTT(40) DEF StreamCall
  <2> QED BY <2>2
<1>4. call.op # "write" => Written = wrote
  BY <1>1 DEF Written
<1>5. Written <= wrote
  <2> DEFINE l == Len(call.data)
  <2>1. CASE call.op = "write"
    <3>1. l \in Nat /\ Written = wrote - l
      BY <1>3, <2>1 DEF Written
    <3> HIDE DEF l
    <3> QED BY <1>1, <3>1
  <2> QED BY <1>1, <1>4, <2>1
<1> QED BY <1>1, <1>2, <1>4, <1>5

\* The window leaves a whole block.
LEMMA MssKept ==
  ASSUME WindowAssumption, NEW x \in StreamContexts, NEW seg, Heard(seg),
         x.conn.initialmss = UIP_TCP_MSS
  PROVE  MssOf(x, seg) = UIP_TCP_MSS
<1>1. seg.wnd \in Windows \cup {UIP_TCP_MSS}
  BY DEF Heard
<1>2. seg.wnd \in Nat /\ (seg.wnd = 0 \/ seg.wnd >= UIP_TCP_MSS) /\ UIP_TCP_MSS \in Nat
  BY <1>1, StreamAssumption, TcpAssumption DEF WindowAssumption
<1> QED BY <1>2 DEF MssOf, Lesser

\* An acknowledgement finds what it acknowledges received.
LEMMA AckUnderway ==
  ASSUME Base, Outgoing, NEW x \in StreamContexts, Paired(x.conn, Mine(x)), x.conn.app = 0,
         NEW seg, Heard(seg), NEW B \in Nat,
         Underway(x.conn, Mine(x).out, B, Written, peer, net)
  PROVE  \E C \in Nat :
           /\ Underway(AckedConn(x, seg), AckedOut(x, seg), C, Written, peer, net)
           /\ AckedOut(x, seg) = <<>> => C = Written /\ AckedConn(x, seg).len = 0
<1> DEFINE w == Written
           o == Mine(x).out
           l == x.conn.len
           r == Len(peer.rcvd)
<1>1. /\ w \in Nat /\ w <= SketchLen /\ peer.rcvd \in Seq(Nat)
      /\ \A s \in net : s.data \in Seq(Nat)
  BY OutgoingParts
<1>2. /\ x.conn \in StreamConn /\ o \in Seq(StreamBlock) /\ l \in Nat /\ r \in Nat
  BY <1>1, StreamParts DEF StreamConn
<1>3. l > 0 => o # <<>> /\ Len(o[1].data) = o[1].cap
  BY DEF Paired
<1>4. Underway(x.conn, o, B, w, peer, net)
  OBVIOUS
<1>5. /\ l > 0 => B + l <= w /\ Laid(DataOf(Tail(o)), B + l, w)
      /\ o = <<>> => B = w
  <2> HIDE DEF w, o
  <2> QED BY <1>1, <1>2, <1>3, <1>4, UnderwayParts
<1>6. CASE ~Acks(x, seg)
  <2>1. AckedConn(x, seg) = x.conn /\ AckedOut(x, seg) = o
    BY <1>6 DEF AckedConn, AckedOut
  <2>2. o = <<>> => B = w /\ l = 0
    BY <1>2, <1>3, <1>5
  <2> QED BY <1>4, <2>1, <2>2
<1>7. CASE Acks(x, seg)
  <2>1. "ACK" \in seg.flags /\ l > 0 /\ seg.ack = (x.conn.snd_nxt + l) % SeqSize
    BY <1>7 DEF Acks
  <2>2. x.conn.snd_nxt = Offset(ISS, 1 + B) /\ Delivered(peer, net, B, l)
    BY <1>4 DEF Underway
  <2>3. r \in {B, B + l} /\ ~peer.fin
    BY <2>2 DEF Delivered
  <2>4. PICK m \in 0 .. r : seg.ack = Offset(ISS, 1 + m)
    <3>1. PICK m \in 0 .. r + (IF peer.fin THEN 1 ELSE 0) : seg.ack = Offset(ISS, 1 + m)
      BY <2>1 DEF Heard
    <3>2. r + (IF peer.fin THEN 1 ELSE 0) = r
      BY <1>2, <2>3
    <3> QED BY <3>1, <3>2
  <2> DEFINE a == 1 + B
             b == a + l
             e == 1 + m
  <2>5. SketchLen \in Nat /\ SketchLen + 2 < SeqSize /\ SeqSize \in Nat /\ ISS \in 0 .. SeqSize - 1
    BY StreamAssumption, TcpAssumption
  <2> HIDE DEF w, o, l, r
  <2>6. a \in Nat /\ b \in Nat /\ e \in Nat /\ a + l < SeqSize /\ b < SeqSize /\ e < SeqSize
    BY <1>1, <1>2, <1>5, <2>1, <2>3, <2>4, <2>5
  <2>7. seg.ack = Offset(ISS, b)
    <3>1. (Offset(ISS, a) + l) % SeqSize = Offset(ISS, a + l)
      <4> HIDE DEF a, b
      <4> QED BY <1>2, <2>5, <2>6, OffsetAdds
    <3> QED BY <2>1, <2>2, <3>1
  <2>8. e = b
    <3> HIDE DEF b, e
    <3> QED BY <2>4, <2>5, <2>6, <2>7, OffsetOnce DEF e
  <2>9. r = B + l
    BY <1>2, <2>3, <2>4, <2>8
  <2>10. Delivered(peer, net, B + l, 0)
    BY <1>1, <1>2, <2>2, <2>9, DeliveredAll DEF r
  <2>11. o # <<>> /\ AckedOut(x, seg) = Tail(o)
    BY <1>3, <1>7, <2>1 DEF AckedOut, o
  <2>12. /\ AckedConn(x, seg).snd_nxt = seg.ack /\ AckedConn(x, seg).len = 0
    BY <1>2, <1>7 DEF AckedConn, StreamConn
  <2> DEFINE c == AckedConn(x, seg)
             C == B + l
  <2>13. C \in Nat /\ b = 1 + C
    BY <1>2
  <2>14. Underway(c, Tail(o), C, w, peer, net)
    <3>1. Laid(DataOf(Tail(o)), C, w) /\ Delivered(peer, net, C, 0)
      BY <1>5, <2>1, <2>10
    <3>2. c.snd_nxt = Offset(ISS, 1 + C) /\ c.len = 0
      BY <2>7, <2>12, <2>13
    <3> HIDE DEF c, C
    <3> QED BY <3>1, <3>2 DEF Underway
  <2>15. Tail(o) = <<>> => C = w
    <3> DEFINE t == Tail(o)
    <3>1. t \in Seq(StreamBlock)
      BY <1>2, <2>11
    <3>2. c.len \in Nat /\ (c.len > 0 => t # <<>> /\ Len(t[1].data) = t[1].cap)
      BY <2>12
    <3> HIDE DEF c, C, t
    <3>3. Underway(c, t, C, w, peer, net)
      BY <2>14 DEF t
    <3>4. t = <<>> => C = w
      BY <1>1, <2>13, <3>1, <3>2, <3>3, UnderwayParts
    <3> QED BY <3>4 DEF t
  <2> HIDE DEF c, C
  <2>16. \E D \in Nat : /\ Underway(c, AckedOut(x, seg), D, w, peer, net)
                        /\ AckedOut(x, seg) = <<>> => D = w /\ c.len = 0
    BY <2>11, <2>12, <2>13, <2>14, <2>15 DEF c
  <2> QED BY <2>16 DEF c, w
<1> QED BY <1>6, <1>7

\* What a run leaves in net.
Sends(z, m) == m = net \/ (m = net \cup {z.sends} /\ ~Bare(z.sends))

\* A segment for the socket that sends nothing with data.
LEMMA GoingHeard ==
  ASSUME WindowAssumption, Base, Outgoing, NEW x \in StreamContexts, NEW z \in StreamContexts,
         NEW seg, Heard(seg), x.conn = conn, Mine(x) = sock, Paired(x.conn, Mine(x)), conn.app = 0,
         NEW m, Sends(z, m),
         Idles(x, seg, z) \/ Hears(x, seg, z) \/ FinsFirst(x, seg, z) \/ FinsBack(x, seg, z)
  PROVE  Going(z.conn, Mine(z).out, Written, peer, m)
<1> DEFINE w == Written
<1>1. /\ \A s \in net : s.data \in Seq(Nat)
      /\ w \in Nat /\ Whole(peer, net) /\ Going(x.conn, Mine(x).out, w, peer, net)
  BY OutgoingParts
<1> HIDE DEF w
<1>2. x.conn.state = "ESTABLISHED" /\ x.conn.mss = UIP_TCP_MSS /\ x.conn.initialmss = UIP_TCP_MSS
      /\ NULL # 0
  BY <1>1, TcpAssumption DEF Paired, Going
<1>3. MssOf(x, seg) = UIP_TCP_MSS
  BY <1>2, MssKept
<1>4. PICK B \in Nat : Underway(x.conn, Mine(x).out, B, w, peer, net)
  BY <1>1 DEF Going
<1>5. PICK C \in Nat :
        /\ Underway(AckedConn(x, seg), AckedOut(x, seg), C, w, peer, net)
        /\ AckedOut(x, seg) = <<>> => C = w /\ AckedConn(x, seg).len = 0
  BY <1>4, AckUnderway DEF w
<1>6. CASE Idles(x, seg, z)
  <2>1. m = net /\ z.conn.state = "ESTABLISHED" /\ z.conn.mss = UIP_TCP_MSS
        /\ z.conn.snd_nxt = x.conn.snd_nxt /\ z.conn.len = x.conn.len /\ Mine(z) = Mine(x)
    BY <1>2, <1>3, <1>6 DEF Idles, Sends
  <2>2. Underway(z.conn, Mine(z).out, B, w, peer, m)
    BY <1>4, <2>1 DEF Underway
  <2> QED BY <1>1, <2>1, <2>2 DEF Going, Closing, w
<1>7. CASE Hears(x, seg, z)
  <2>1. m = net /\ z.conn.state = "ESTABLISHED" /\ z.conn.mss = UIP_TCP_MSS
        /\ z.conn.snd_nxt = AckedConn(x, seg).snd_nxt /\ z.conn.len = AckedConn(x, seg).len
        /\ Mine(z).out = AckedOut(x, seg)
    BY <1>2, <1>3, <1>7 DEF Hears, Told, Sends
  <2>2. Underway(z.conn, Mine(z).out, C, w, peer, m)
    BY <1>5, <2>1 DEF Underway
  <2> QED BY <1>1, <2>1, <2>2 DEF Going, Closing, w
<1>8. CASE FinsFirst(x, seg, z)
  <2>1. /\ AckedOut(x, seg) = <<>> /\ z.conn.app # 0 /\ z.conn.mss = UIP_TCP_MSS
        /\ z.sends.data = <<>> /\ m \in {net, net \cup {z.sends}}
    BY <1>2, <1>3, <1>8 DEF FinsFirst, Told, IsFin, Sends
  <2>2. Delivered(peer, net, w, 0)
    BY <1>5, <2>1 DEF Underway
  <2>3. Done(peer, net, w)
    BY <1>1, <2>2, DeliveredDone
  <2>4. Done(peer, m, w) /\ Whole(peer, m)
    BY <1>1, <2>1, <2>3, DoneSends, WholeSends
  <2> QED BY <2>1, <2>4 DEF Going, w
<1>9. CASE FinsBack(x, seg, z)
  <2>1. /\ z.conn.state = "LAST_ACK" /\ z.conn.app # 0 /\ z.conn.mss = UIP_TCP_MSS
        /\ z.sends.data = <<>> /\ m \in {net, net \cup {z.sends}}
    BY <1>2, <1>3, <1>9 DEF FinsBack, Told, IsFin, Sends
  <2>4. Whole(peer, m)
    BY <1>1, <2>1, WholeSends
  <2> QED BY <2>1, <2>4 DEF Going, Closing, w
<1> QED BY <1>6, <1>7, <1>8, <1>9

\* The first block goes out.
LEMMA GoingResends ==
  ASSUME Base, Outgoing, NEW x \in StreamContexts, NEW z \in StreamContexts,
         x.conn = conn, Mine(x) = sock, Paired(x.conn, Mine(x)), conn.app = 0,
         NEW m, Sends(z, m), Resends(x, z)
  PROVE  Going(z.conn, Mine(z).out, Written, peer, m)
<1> DEFINE w == Written
           o == Mine(x).out
           r == Mine(z).out
           d == o[1].data
           L == Len(d)
<1>1. /\ \A s \in net : s.data \in Seq(Nat)
      /\ w \in Nat /\ w <= SketchLen /\ Whole(peer, net) /\ Going(x.conn, o, w, peer, net)
  BY OutgoingParts
<1>2. x.conn.state = "ESTABLISHED" /\ x.conn.mss = UIP_TCP_MSS /\ x.conn.len \in Nat
      /\ o \in Seq(StreamBlock) /\ Full(o)
  BY <1>1, StreamParts DEF Paired, Going, StreamConn
<1>3. x.conn.len > 0 => Len(o[1].data) = o[1].cap
  BY DEF Paired
<1>4. PICK B \in Nat : Underway(x.conn, o, B, w, peer, net)
  BY <1>1 DEF Going
<1>5. /\ o # <<>> /\ Closed1(o, z.slen, r) /\ Utterance(z)
      /\ SameSide(x.conn, z.conn) /\ z.conn.state = "ESTABLISHED" /\ z.conn.app = 0
      /\ z.conn.len = IF z.slen > 0 /\ x.conn.len = 0 THEN Lesser(z.slen, x.conn.mss) ELSE x.conn.len
  BY DEF Resends
<1>6. z.slen = L /\ DataOf(r) = DataOf(o) /\ r[1].data = d /\ (L > 0 => r[1].cap = L)
  BY <1>2, <1>5, Closed1Is
<1>7. /\ d \in Seq(Nat) /\ Follows(d, B) /\ B + L <= w
      /\ x.conn.len > 0 => L = x.conn.len
  <2> HIDE DEF w, o
  <2> QED BY <1>1, <1>2, <1>3, <1>4, <1>5, UnderwayParts
<1>8. L \in Nat /\ L <= UIP_TCP_MSS /\ UIP_TCP_MSS \in Nat
  <2>1. 1 \in 1 .. Len(o)
    BY <1>2, <1>5, EmptySeq
  <2>2. o[1] \in StreamBlock
    BY <1>2, <2>1
  <2>3. o[1].cap \in 0 .. UIP_TCP_MSS /\ L <= o[1].cap /\ L \in Nat
    BY <2>2 DEF StreamBlock
  <2> DEFINE k == o[1].cap
  <2> HIDE DEF L, k
  <2>4. L <= UIP_TCP_MSS
    BY <2>3, TcpAssumption DEF k
  <2> QED BY <2>3, <2>4, TcpAssumption
<1>9. z.conn.len = L
  <2> HIDE DEF L
  <2> QED BY <1>2, <1>5, <1>6, <1>7, <1>8 DEF Lesser
<1>10. Laid(DataOf(r), B, w) /\ z.conn.snd_nxt = Offset(ISS, 1 + B) /\ (z.conn.len > 0 => z.conn.len = r[1].cap)
  BY <1>4, <1>5, <1>6, <1>9 DEF Underway, SameSide
<1>11. m # net => /\ m = net \cup {z.sends}
                  /\ "FIN" \notin z.sends.flags /\ Carries(z.sends, B) /\ Len(z.sends.data) = L
  <2> SUFFICES ASSUME m # net
               PROVE  /\ m = net \cup {z.sends}
                      /\ "FIN" \notin z.sends.flags /\ Carries(z.sends, B) /\ Len(z.sends.data) = L
    OBVIOUS
  <2>1. m = net \cup {z.sends} /\ ~Bare(z.sends)
    BY DEF Sends
  <2>2. z.sends = [remote |-> z.conn.remote, flags |-> {"ACK"}, seq |-> z.conn.snd_nxt,
                   data |-> SubSeq(r[1].data, 1, Lesser(z.conn.len, z.slen))]
    BY <1>5, <2>1 DEF Utterance
  <2>3. Lesser(z.conn.len, z.slen) = L
    BY <1>6, <1>8, <1>9 DEF Lesser
  <2>4. SubSeq(d, 1, L) = d
    BY <1>7
  <2>5. z.sends.flags = {"ACK"} /\ z.sends.data = d /\ z.sends.seq = Offset(ISS, 1 + B)
    BY <1>6, <1>10, <2>2, <2>3, <2>4
  <2>6. B + L <= SketchLen
    <3> HIDE DEF L, w
    <3> QED BY <1>1, <1>7, <1>8, StreamAssumption
  <2> QED BY <1>7, <2>1, <2>5, <2>6 DEF Carries
<1>12. Delivered(peer, m, B, L)
  <2>1. Delivered(peer, net, B, x.conn.len) /\ x.conn.len \in {0, L}
    BY <1>2, <1>4, <1>7 DEF Underway
  <2> HIDE DEF L
  <2>2. L \in Nat
    BY <1>8
  <2> QED BY <1>1, <1>11, <2>1, <2>2, DeliveredSends
<1>13. Whole(peer, m)
  BY <1>1, <1>11, WholeSends
<1>14. z.conn.mss = UIP_TCP_MSS
  BY <1>2, <1>5 DEF SameSide
<1>15. Underway(z.conn, r, B, w, peer, m)
  BY <1>9, <1>10, <1>12 DEF Underway
<1> QED BY <1>5, <1>13, <1>14, <1>15 DEF Going, Closing

\* Nothing has been written: net has nothing but SYNs.
LEMMA GoingFresh ==
  ASSUME Base, Fresh, NEW c, c.mss = UIP_TCP_MSS, c.state \notin Closing, c.len = 0,
         c.snd_nxt = Offset(ISS, 1)
  PROVE  Going(c, <<>>, Written, peer, net)
<1>1. Written = 0 /\ peer.rcvd = <<>> /\ Len(peer.rcvd) = 0 /\ ~peer.fin
  <2>1. wrote = 0 /\ call.op # "write" /\ peer.rcvd = <<>> /\ ~peer.fin
    BY DEF Fresh
  <2>2. Written = 0
    <3>1. Written = wrote - 0
      BY <2>1 DEF Written
    <3> QED BY <2>1, <3>1
  <2> QED BY <2>1, <2>2
<1>2. \A seg \in net : "FIN" \notin seg.flags /\ seg.data = <<>>
  BY DEF Fresh, Base, Said
<1>3. SketchLen \in Nat
  BY StreamAssumption
<1>4. Whole(peer, net)
  BY <1>1, <1>2, <1>3 DEF Whole, Count
<1>5. Delivered(peer, net, 0, 0)
  BY <1>1, <1>2 DEF Delivered
<1>6. Laid(DataOf(<<>>), 0, 0)
  <2>1. DataOf(<<>>) = <<>>
    BY DEF DataOf
  <2> QED BY <2>1, LaidEmpty
<1>7. Underway(c, <<>>, 0, Written, peer, net)
  <2>1. 1 + 0 = 1 /\ ~(0 > 0)
    OBVIOUS
  <2> QED BY <1>1, <1>5, <1>6, <2>1 DEF Underway
<1> QED BY <1>4, <1>7 DEF Going

\* A run for a connection without a socket, and the end of one with a socket.
LEMMA GoingOther ==
  ASSUME Base, Outgoing, NEW x \in StreamContexts, NEW z \in StreamContexts,
         NEW seg, x.conn = conn, Mine(x) = sock, Paired(x.conn, Mine(x)),
         NEW m, Sends(z, m),
         \/ conn.app = 0 /\ Dies(x, z)
         \/ conn.app # 0 /\ (Winds(x, z) \/ Establishes(x, seg, z))
  PROVE  Going(z.conn, Mine(z).out, Written, peer, m)
<1> DEFINE w == Written
<1>1. /\ w \in Nat /\ Whole(peer, net) /\ Going(x.conn, Mine(x).out, w, peer, net)
      /\ x.conn.state \in TcpStates /\ NULL # 0 /\ (x.conn.app # 0 => x.conn.state # "ESTABLISHED")
  BY OutgoingParts, StreamParts, TcpAssumption DEF StreamConn, Paired
<1>2. CASE Dies(x, z)
  <2>1. z.conn.state = "CLOSED" /\ z.conn.app # 0 /\ m = net
    BY <1>1, <1>2 DEF Dies, Sends
  <2> QED BY <1>1, <2>1 DEF Going, Closing
<1>3. CASE conn.app # 0 /\ Winds(x, z)
  <2>1. z.conn.app # 0 /\ z.conn.mss = x.conn.mss
    BY <1>3 DEF Winds, Parallel
  <2>2. m \in {net, net \cup {z.sends}} /\ (m # net => z.sends.data = <<>>)
    BY <1>3 DEF Winds, Sends, IsFin
  <2>3. (z.conn.state # "CLOSED" => x.conn.state # "CLOSED")
        /\ (z.conn.state \in Closing => x.conn.state \in Closing)
    BY <1>1, <1>3, SMTT(40) DEF Winds, TcpStates, Closing
  <2>4. Whole(peer, m)
    BY <1>1, <2>2, WholeSends
  <2>5. z.conn.state \in Closing => Done(peer, m, w)
    <3> SUFFICES ASSUME z.conn.state \in Closing PROVE Done(peer, m, w)
      OBVIOUS
    <3>1. Done(peer, net, w)
      BY <1>1, <2>3 DEF Going
    <3> QED BY <2>2, <3>1, DoneSends
  <2>6. z.conn.state # "CLOSED" => z.conn.mss = UIP_TCP_MSS
    BY <1>1, <2>1, <2>3 DEF Going
  <2> QED BY <2>1, <2>4, <2>5, <2>6 DEF Going
<1>4. CASE conn.app # 0 /\ Establishes(x, seg, z)
  <2>1. /\ conn.state \in {"SYN_RCVD", "SYN_SENT"} /\ Acks(x, seg) /\ m = net
        /\ z.conn.state = "ESTABLISHED" /\ z.conn.snd_nxt = seg.ack /\ z.conn.len = 0
        /\ z.conn.mss \in {x.conn.mss, UIP_TCP_MSS} /\ Mine(z).out = <<>>
    BY <1>4 DEF Establishes, Sends
  <2>2. Fresh /\ conn.snd_nxt = ISS /\ conn.len = 1
    BY <2>1 DEF Base, Opening
  <2>3. z.conn.snd_nxt = Offset(ISS, 1) /\ z.conn.mss = UIP_TCP_MSS
    BY <1>1, <2>1, <2>2 DEF Acks, Offset, Going
  <2> QED BY <2>1, <2>2, <2>3, GoingFresh DEF Closing
<1> QED BY <1>2, <1>3, <1>4

\* A run of the stack keeps Outgoing.
LEMMA OutgoingRun ==
  ASSUME WindowAssumption, Base, Outgoing, NEW x, NEW seg, NEW z, RunStep(x, seg, z)
  PROVE  Outgoing'
<1> DEFINE w == Written
           m == net'
<1>1. /\ x \in StreamContexts /\ z \in StreamContexts /\ Runs(x, seg, z)
      /\ x.conn = conn /\ Mine(x) = sock /\ Paired(x.conn, Mine(x))
  BY RunParts
<1>2. /\ conn' = z.conn /\ sock' = Mine(z) /\ Heard(seg) /\ Sends(z, m)
      /\ UNCHANGED <<call, peer, wrote>>
  BY DEF RunStep, Quiet, Sends
<1>3. Going(z.conn, Mine(z).out, w, peer, m)
  <2> HIDE DEF m
  <2>1. CASE conn.app = 0
    <3>1. \/ Idles(x, seg, z) \/ Hears(x, seg, z) \/ FinsFirst(x, seg, z) \/ FinsBack(x, seg, z)
          \/ Resends(x, z) \/ Dies(x, z)
      BY <1>1, <2>1 DEF Runs
    <3> QED BY <1>1, <1>2, <2>1, <3>1, GoingHeard, GoingResends, GoingOther
  <2>2. CASE conn.app # 0
    <3>1. Winds(x, z) \/ Establishes(x, seg, z)
      BY <1>1, <2>2 DEF Runs
    <3> QED BY <1>1, <1>2, <2>2, <3>1, GoingOther
  <2> QED BY <2>1, <2>2
<1>4. w \in Nat /\ Written' = w /\ (call'.op = "write" => Follows(call'.data, w))
  BY <1>2 DEF Outgoing, Written
<1>5. Going(conn', sock'.out, w, peer', net')
  BY <1>2, <1>3
<1> HIDE DEF w
<1> QED BY <1>4, <1>5, OutgoingAfter

\* Parts of data that follow a place.
LEMMA TakeFollows ==
  ASSUME NEW d \in Seq(Nat), NEW a \in Nat, Follows(d, a), NEW n \in Nat, n <= Len(d)
  PROVE  Follows(SubSeq(d, 1, n), a) /\ Follows(Skip(d, n), a + n)
<1> DEFINE l == Len(d)
           e == SubSeq(d, 1, n)
           t == Skip(d, n)
<1>1. e \in Seq(Nat) /\ Len(e) = n /\ \A i \in 1 .. n : e[i] = d[i]
  BY TakeIs
<1>2. t \in Seq(Nat) /\ Len(t) = l - n /\ \A i \in 1 .. l - n : t[i] = d[n + i]
  BY SkipIs
<1>3. l \in Nat /\ n <= l /\ \A j \in 1 .. l : d[j] = a + j
  BY DEF Follows
<1> HIDE DEF l, e, t
<1>4. ASSUME NEW i \in 1 .. n PROVE e[i] = a + i
  <2>1. i \in 1 .. l
    BY <1>3
  <2> QED BY <1>1, <1>3, <2>1
<1>5. ASSUME NEW i \in 1 .. l - n PROVE t[i] = (a + n) + i
  <2>1. n + i \in 1 .. l /\ a + (n + i) = (a + n) + i
    BY <1>3
  <2>2. t[i] = d[n + i] /\ d[n + i] = a + (n + i)
    BY <1>2, <1>3, <2>1
  <2> QED BY <2>1, <2>2
<1> QED BY <1>1, <1>2, <1>4, <1>5 DEF Follows, e, t

\* The units that fill the last block are the next ones.
LEMMA FillsLaid ==
  ASSUME NEW o \in Seq(StreamBlock), NEW d \in Seq(Nat), NEW n, NEW r, Fills(o, d, n, r),
         NEW B \in Nat, NEW w \in Nat, Laid(DataOf(o), B, w), Follows(d, w)
  PROVE  Laid(DataOf(r), B, w + n)
<1> DEFINE q == DataOf(o)
           v == DataOf(r)
           e == SubSeq(d, 1, n)
           l == Len(o)
<1>1. /\ o # <<>> /\ r \in Seq(StreamBlock) /\ Len(r) = l
      /\ \A i \in 1 .. l : i # l => r[i] = o[i]
      /\ r[l].data = o[l].data \o e /\ n \in 0 .. Len(d)
  BY DEF Fills
<1>2. q \in Seq(Seq(Nat)) /\ Len(q) = l /\ \A i \in 1 .. l : q[i] = o[i].data
  BY DataOfIs
<1>3. v \in Seq(Seq(Nat)) /\ Len(v) = l /\ \A i \in 1 .. l : v[i] = r[i].data
  BY <1>1, DataOfIs
<1>4. n \in Nat /\ n <= Len(d)
  BY <1>1
<1>5. e \in Seq(Nat) /\ Len(e) = n /\ Follows(e, w)
  BY <1>4, TakeIs, TakeFollows
<1>6. q # <<>>
  BY <1>1, <1>2, EmptySeq
<1> HIDE DEF e, v, q
<1>7. \A i \in 1 .. l : v[i] = IF i = l THEN q[i] \o e ELSE q[i]
  BY <1>1, <1>2, <1>3
<1>8. \A i \in 1 .. Len(q) : v[i] = IF i = Len(q) THEN q[i] \o e ELSE q[i]
  BY <1>2, <1>7
<1>9. Laid(q, B, w)
  BY DEF q
<1>10. Laid(v, B, w + Len(e))
  BY <1>2, <1>3, <1>5, <1>6, <1>8, <1>9, LaidGrow
<1> QED BY <1>5, <1>10 DEF v

\* So are those in a new block.
LEMMA AddsLaid ==
  ASSUME NEW o \in Seq(StreamBlock), Full(o), NEW d \in Seq(Nat), NEW n \in Nat, n <= Len(d),
         NEW m \in Nat, NEW r, Adds(o, d, n, m, r),
         o # <<>> => Len(o[Len(o)].data) = o[Len(o)].cap,
         NEW B \in Nat, NEW w \in Nat, Laid(DataOf(o), B, w + n), Follows(d, w)
  PROVE  Laid(DataOf(r), B, w + (n + m))
<1> DEFINE q == DataOf(o)
           v == DataOf(r)
           t == Skip(d, n)
           e == SubSeq(t, 1, m)
           a == w + n
<1>1. /\ r \in Seq(StreamBlock) /\ Len(r) = Len(o) + 1
      /\ \A i \in 1 .. Len(o) : r[i] = o[i]
      /\ r[Len(r)].data = e /\ e \in Seq(Nat) /\ Len(e) = m
  BY AddedFull
<1>2. q \in Seq(Seq(Nat)) /\ Len(q) = Len(o) /\ \A i \in 1 .. Len(o) : q[i] = o[i].data
  BY DataOfIs
<1>3. v \in Seq(Seq(Nat)) /\ Len(v) = Len(r) /\ \A i \in 1 .. Len(r) : v[i] = r[i].data
  BY <1>1, DataOfIs
<1>4. t \in Seq(Nat) /\ Len(t) = Len(d) - n /\ Follows(t, a)
  BY SkipIs, TakeFollows
<1>5. m <= Len(t)
  <2> DEFINE l == Len(d)
  <2>1. m \in 0 .. l - n /\ l \in Nat
    BY DEF Adds
  <2> HIDE DEF l, t
  <2>2. m <= l - n
    BY <2>1
  <2> QED BY <1>4, <2>2 DEF l
<1>6. a \in Nat /\ a + m = w + (n + m)
  OBVIOUS
<1>7. Follows(e, a)
  <2> HIDE DEF t, a
  <2> QED BY <1>4, <1>5, <1>6, TakeFollows
<1> HIDE DEF q, v, e, t, a
<1>9. Laid(q, B, a)
  BY DEF q, a
<1>10. Append(q, e) \in Seq(Seq(Nat)) /\ Laid(Append(q, e), B, a + m)
  BY <1>1, <1>2, <1>6, <1>7, <1>9, LaidAppend
<1>11. v = Append(q, e)
  <2> DEFINE k == Len(o)
             u == Append(q, e)
  <2>1. k \in Nat
    OBVIOUS
  <2>2. Len(u) = k + 1 /\ u[k + 1] = e /\ \A i \in 1 .. k : u[i] = q[i]
    BY <1>1, <1>2, AppendProperties
  <2>3. Len(v) = k + 1 /\ v[k + 1] = e /\ \A i \in 1 .. k : v[i] = q[i]
    <3> HIDE DEF k
    <3>1. Len(r) = k + 1 /\ k + 1 \in 1 .. Len(r) /\ \A i \in 1 .. k : i \in 1 .. Len(r)
      BY <1>1, <2>1 DEF k
    <3>2. v[k + 1] = r[k + 1].data
      BY <1>3, <3>1
    <3> QED BY <1>1, <1>2, <1>3, <3>1, <3>2 DEF k
  <2> HIDE DEF k, u
  <2>4. \A i \in 1 .. k + 1 : v[i] = u[i]
    <3> SUFFICES ASSUME NEW i \in 1 .. k + 1 PROVE v[i] = u[i]
      OBVIOUS
    <3>1. i = k + 1 \/ i \in 1 .. k
      BY <2>1
    <3> QED BY <2>2, <2>3, <3>1
  <2>5. u \in Seq(Seq(Nat)) /\ Len(u) = Len(v)
    BY <1>10, <2>2, <2>3 DEF u
  <2>6. v = u
    BY <1>3, <2>3, <2>4, <2>5, SeqEqual
  <2> QED BY <2>6 DEF u
<1> QED BY <1>6, <1>10, <1>11 DEF v

\* A step that leaves what is written, in flight and received alone.
LEMMA OutgoingSame ==
  ASSUME Outgoing, conn' = conn, sock'.out = sock.out, UNCHANGED <<peer, net, wrote, call>>
  PROVE  Outgoing'
<1> DEFINE w == Written
<1>1. w \in Nat /\ Written' = w /\ (call'.op = "write" => Follows(call'.data, w))
      /\ Going(conn, sock.out, w, peer, net)
  BY DEF Outgoing, Written
<1> HIDE DEF w
<1>2. Going(conn', sock'.out, w, peer', net')
  BY <1>1
<1> QED BY <1>1, <1>2, OutgoingAfter

\* The same for a step of another call than write(), which connect() is.
LEMMA OutgoingCall ==
  ASSUME Outgoing, conn' = conn, sock'.out = sock.out, UNCHANGED <<peer, net, wrote>>,
         call.op # "write", call'.op # "write"
  PROVE  Outgoing'
<1> DEFINE w == Written
<1>1. w \in Nat /\ Written' = w /\ Going(conn, sock.out, w, peer, net)
  BY DEF Outgoing, Written
<1> HIDE DEF w
<1>2. Going(conn', sock'.out, w, peer', net')
  BY <1>1
<1> QED BY <1>1, <1>2, OutgoingAfter

\* While a connection opens, nothing has been written.
LEMMA OutgoingFresh ==
  ASSUME Base, Outgoing, Fresh, conn'.mss = UIP_TCP_MSS, conn'.app # 0,
         conn'.state \notin Closing, call'.op # "write", UNCHANGED <<peer, wrote>>,
         NEW s, net' = net \/ net' = net \cup {s}, net' # net => s.data = <<>>
  PROVE  Outgoing'
<1> DEFINE w == Written
<1>1. w \in Nat /\ Whole(peer, net)
  BY DEF Outgoing, Going
<1>2. Written' = w
  BY DEF Written, Fresh
<1> HIDE DEF w
<1>3. Whole(peer, net')
  BY <1>1, WholeSends
<1>4. Going(conn', sock'.out, w, peer', net')
  BY <1>3 DEF Going
<1> QED BY <1>1, <1>2, <1>4, OutgoingAfter

\* write() begins: its data are the next units.
LEMMA OutgoingWrites ==
  ASSUME Base, Outgoing, Writes
  PROVE  Outgoing'
<1>1. PICK n \in WriteSizes :
        /\ Write([k \in 1 .. n |-> wrote + k])
        /\ wrote' = wrote + n
        /\ UNCHANGED <<peer, got>>
  BY DEF Writes
<1> DEFINE d == [k \in 1 .. n |-> wrote + k]
           w == Written
<1>2. /\ call = Idle /\ call' = [op |-> "write", sock |-> client, data |-> d]
      /\ UNCHANGED <<conns, socks, net>> /\ conn' = conn /\ sock' = sock
  BY <1>1 DEF Write, stackVars, conn, sock
<1>3. n \in Nat /\ wrote \in Nat
  BY StreamAssumption DEF Base
<1>4. Len(d) = n /\ \A j \in 1 .. Len(d) : d[j] = wrote + j
  BY <1>3
<1> HIDE DEF d
<1>5. w = wrote /\ w \in Nat /\ Going(conn, sock.out, w, peer, net)
  <2>1. call.op # "write"
    BY <1>2 DEF Idle
  <2> QED BY <2>1, OutgoingParts
<1>6. Written' = w
  <2>1. Written' = wrote' - Len(d)
    BY <1>2 DEF Written
  <2>2. (wrote + n) - n = wrote
    BY <1>3
  <2> QED BY <1>1, <1>4, <1>5, <2>1, <2>2
<1>7. Follows(call'.data, w)
  BY <1>2, <1>4, <1>5 DEF Follows
<1> HIDE DEF w
<1>8. Going(conn', sock'.out, w, peer', net')
  BY <1>1, <1>2, <1>5
<1> QED BY <1>5, <1>6, <1>7, <1>8, OutgoingAfter

\* The call goes on after k units.
LEMMA LeavesIs ==
  ASSUME NEW d \in Seq(Nat), call.op = "write", call.data = d, NEW k \in Nat, k <= Len(d),
         Leaves(d, k), UNCHANGED wrote, wrote \in Nat, Written \in Nat, Follows(d, Written)
  PROVE  Written' = Written + k /\ (call'.op = "write" => Follows(call'.data, Written + k))
<1> DEFINE l == Len(d)
<1>1. Written = wrote - l /\ l \in Nat
  BY DEF Written
<1>2. CASE k = l
  <2>1. call' = Idle /\ call'.op # "write"
    BY <1>2 DEF Leaves, Idle
  <2>2. Written' = wrote - 0
    BY <2>1 DEF Written
  <2> HIDE DEF l
  <2>3. wrote - 0 = (wrote - l) + k
    BY <1>1, <1>2
  <2> QED BY <1>1, <2>1, <2>2, <2>3
<1>3. CASE k # l
  <2>1. call' = [op |-> "write", sock |-> 0, data |-> Skip(d, k)]
    BY <1>3 DEF Leaves
  <2>2. Len(Skip(d, k)) = l - k
    BY SkipIs
  <2>3. Written' = wrote - Len(Skip(d, k))
    BY <2>1 DEF Written
  <2>4. Written' = Written + k
    <3> HIDE DEF l
    <3> QED BY <1>1, <2>2, <2>3
  <2>5. Follows(Skip(d, k), Written + k)
    <3> DEFINE a == Written
    <3>1. a \in Nat /\ Follows(d, a)
      OBVIOUS
    <3> HIDE DEF a
    <3>2. Follows(Skip(d, k), a + k)
      BY <3>1, TakeFollows
    <3> QED BY <3>2 DEF a
  <2> QED BY <2>1, <2>4, <2>5
<1> QED BY <1>2, <1>3

\* A round of _write moves the next units into packets_out.
LEMMA OutgoingWriteStep ==
  ASSUME Base, Outgoing, WriteStep, UNCHANGED streamVars
  PROVE  Outgoing'
<1> DEFINE d == call.data
           o == sock.out
           w == Written
<1>1. /\ call.op = "write" /\ d \in Seq(Nat)
      /\ UNCHANGED <<conns, net, peer, wrote>> /\ conn' = conn
  BY WriteStepIs DEF streamVars, conn
<1>2. call # Idle /\ "CLOSE" \notin sock.state /\ conn.state \notin Closing
  BY <1>1 DEF Idle, Base, Stopping
<1>3. /\ Paired(conn, sock) /\ sock \in StreamSock /\ o \in Seq(StreamBlock) /\ Full(o)
      /\ socks \in StreamSocks /\ conn.len \in Nat /\ NULL # 0 /\ wrote \in Nat
  BY BaseParts DEF Base, Paired, StreamConn
<1>4. w \in Nat /\ Going(conn, o, w, peer, net) /\ Follows(d, w)
  BY <1>1 DEF Outgoing
<1>5. CASE sock.state \cap {"CLOSE", "REMOTECLOSED"} # {} /\ call' = Idle /\ UNCHANGED socks
  <2>1. conn.app # 0
    BY <1>2, <1>3, <1>5 DEF Paired
  <2>2. call'.op # "write" /\ Written' = wrote
    <3>1. call'.op # "write"
      BY <1>5 DEF Idle
    <3>2. Written' = wrote - 0
      BY <1>1, <3>1 DEF Written
    <3> QED BY <1>3, <3>1, <3>2
  <2>3. Going(conn', sock'.out, wrote, peer', net')
    BY <1>1, <1>2, <1>4, <2>1 DEF Going
  <2> QED BY <1>3, <2>2, <2>3, OutgoingAfter
<1>6. CASE UNCHANGED <<socks, call>>
  BY <1>1, <1>6, OutgoingSame DEF sock
<1>7. ASSUME NEW mid, NEW r, socks' = [socks EXCEPT ![0] = [sock EXCEPT !.out = r]],
             NEW n \in Nat,
             (o = <<>> /\ mid = <<>> /\ n = 0) \/ Fills(o, d, n, mid),
             \/ o # <<>> /\ r = mid /\ Leaves(d, n)
             \/ /\ o = <<>> \/ n < Len(d)
                /\ \E m \in Nat : Adds(mid, d, n, m, r) /\ Leaves(d, n + m)
      PROVE  Outgoing'
  <2>1. /\ mid \in Seq(StreamBlock) /\ Full(mid) /\ n <= Len(d)
        /\ o # <<>> => mid # <<>>
        /\ o # <<>> /\ Len(o[1].data) = o[1].cap => mid # <<>> /\ mid[1].cap = o[1].cap
        /\ mid # <<>> /\ n < Len(d) => Len(mid[Len(mid)].data) = mid[Len(mid)].cap
        /\ o = <<>> => mid = <<>>
    <3>1. CASE o = <<>> /\ mid = <<>> /\ n = 0
      <4>1. mid \in Seq(StreamBlock) /\ Full(mid)
        BY <3>1 DEF Full
      <4>2. 0 <= Len(d)
        BY <1>1
      <4> HIDE DEF d, o
      <4> QED BY <3>1, <4>1, <4>2
    <3>2. CASE Fills(o, d, n, mid)
      <4> HIDE DEF d, o
      <4>1. n \in 0 .. Len(d) /\ o # <<>>
        BY <3>2 DEF Fills
      <4> QED BY <1>1, <1>3, <3>2, <4>1, FilledFull
    <3> QED BY <1>7, <3>1, <3>2
  <2>2. \A B \in Nat : Laid(DataOf(o), B, w) => Laid(DataOf(mid), B, w + n)
    <3> SUFFICES ASSUME NEW B \in Nat, Laid(DataOf(o), B, w) PROVE Laid(DataOf(mid), B, w + n)
      OBVIOUS
    <3> HIDE DEF d, o, w
    <3>1. CASE o = <<>> /\ mid = <<>> /\ n = 0
      <4>1. w + n = w
        BY <1>4, <3>1
      <4> QED BY <3>1, <4>1
    <3>2. CASE Fills(o, d, n, mid)
      BY <1>1, <1>3, <1>4, <3>2, FillsLaid
    <3> QED BY <1>7, <3>1, <3>2 DEF o, d
  <2>3. PICK k \in Nat :
          /\ k <= Len(d) /\ Leaves(d, k) /\ r \in Seq(StreamBlock)
          /\ o # <<>> /\ Len(o[1].data) = o[1].cap => r # <<>> /\ r[1].cap = o[1].cap
          /\ \A B \in Nat : Laid(DataOf(o), B, w) => Laid(DataOf(r), B, w + k)
    <3>1. CASE r = mid /\ Leaves(d, n)
      BY <2>1, <2>2, <3>1
    <3>2. CASE (o = <<>> \/ n < Len(d)) /\ \E m \in Nat : Adds(mid, d, n, m, r) /\ Leaves(d, n + m)
      <4>1. PICK m \in Nat : Adds(mid, d, n, m, r) /\ Leaves(d, n + m)
        BY <3>2
      <4> DEFINE l == Len(d)
                 k == n + m
      <4>2. k \in Nat /\ k <= l
        <5>1. l \in Nat /\ n <= l /\ m \in 0 .. l - n
          BY <1>1, <2>1, <4>1 DEF Adds
        <5> HIDE DEF l
        <5> QED BY <5>1
      <4>6. mid # <<>> => Len(mid[Len(mid)].data) = mid[Len(mid)].cap
        BY <2>1, <3>2
      <4> HIDE DEF d, o, w, l, k
      <4>3. /\ r \in Seq(StreamBlock) /\ r # <<>>
            /\ \A i \in 1 .. Len(mid) : r[i] = mid[i]
        BY <1>1, <2>1, <4>1, <4>6, AddedFull
      <4>4. mid # <<>> => r[1] = mid[1]
        <5>1. mid # <<>> => 1 \in 1 .. Len(mid)
          BY <2>1, EmptySeq
        <5> QED BY <4>3, <5>1
      <4>5. ASSUME NEW B \in Nat, Laid(DataOf(o), B, w) PROVE Laid(DataOf(r), B, w + k)
        <5>1. Laid(DataOf(mid), B, w + n)
          BY <2>2, <4>5
        <5>2. Laid(DataOf(r), B, w + (n + m))
          BY <1>1, <1>4, <2>1, <4>1, <4>6, <5>1, AddsLaid
        <5> QED BY <5>2 DEF k
      <4>7. Leaves(d, k)
        BY <4>1 DEF k
      <4> QED BY <2>1, <4>2, <4>3, <4>4, <4>5, <4>7 DEF l
    <3> QED BY <1>7, <3>1, <3>2
  <2>4. sock'.out = r
    <3>1. sock' = [sock EXCEPT !.out = r]
      BY <1>3, <1>7, BaseParts DEF sock
    <3> QED BY <1>3, <3>1 DEF StreamSock
  <2>5. Written' = w + k /\ (call'.op = "write" => Follows(call'.data, w + k))
    BY <1>1, <1>3, <1>4, <2>3, LeavesIs
  <2>6. ASSUME conn.app = 0 PROVE \E B \in Nat : Underway(conn, r, B, w + k, peer, net)
    <3>1. PICK B \in Nat : Underway(conn, o, B, w, peer, net)
      BY <1>4, <2>6 DEF Going
    <3>2. conn.len > 0 => o # <<>> /\ Len(o[1].data) = o[1].cap /\ conn.len = o[1].cap
      BY <1>3, <2>6, <3>1 DEF Paired, Underway
    <3>3. Laid(DataOf(r), B, w + k) /\ (conn.len > 0 => conn.len = r[1].cap)
      BY <2>3, <3>1, <3>2 DEF Underway
    <3> QED BY <3>1, <3>3 DEF Underway
  <2>7. Going(conn', sock'.out, w + k, peer', net')
    BY <1>1, <1>2, <1>4, <2>4, <2>6 DEF Going
  <2>8. w + k \in Nat
    BY <1>4, <2>3
  <2> DEFINE v == w + k
  <2> HIDE DEF v, w, d, o
  <2>9. v \in Nat /\ Written' = v /\ (call'.op = "write" => Follows(call'.data, v))
        /\ Going(conn', sock'.out, v, peer', net')
    BY <2>5, <2>7, <2>8 DEF v
  <2> QED BY <2>9, OutgoingAfter
<1> QED BY <1>5, <1>6, <1>7, WriteStepIs

\* Outgoing holds at first.
LEMMA OutgoingInit == StreamInit => Outgoing
<1> SUFFICES ASSUME StreamInit PROVE Outgoing
  OBVIOUS
<1>1. /\ conns = [c \in Conns |-> NewConn] /\ net = {} /\ call = Idle
      /\ peer \in [remote : Remotes, rcvd : {<<>>}, fin : {FALSE}] /\ wrote = 0
  BY DEF StreamInit, Init
<1>2. 0 \in Conns /\ NULL # 0
  BY TcpAssumption DEF Conns
<1>3. conn.app # 0 /\ conn.state = "CLOSED"
  BY <1>1, <1>2 DEF conn, NewConn
<1>4. call.op # "write" /\ Written = 0
  <2>1. call.op # "write"
    BY <1>1 DEF Idle
  <2>2. Written = wrote - 0
    BY <2>1 DEF Written
  <2> QED BY <1>1, <2>1, <2>2
<1>5. Whole(peer, net)
  <2>1. peer.rcvd = <<>> /\ Len(peer.rcvd) = 0 /\ 0 <= SketchLen
    BY <1>1, StreamAssumption
  <2> QED BY <1>1, <2>1 DEF Whole, Count
<1>6. Going(conn, sock.out, Written, peer, net)
  BY <1>3, <1>5 DEF Going, Closing
<1> QED BY <1>4, <1>6 DEF Outgoing

\* Every step keeps it while the windows take a block.
LEMMA OutgoingNext ==
  ASSUME WindowAssumption
  PROVE  Base /\ Outgoing /\ [StreamNext]_allVars => Outgoing'
<1> SUFFICES ASSUME Base, Outgoing, [StreamNext]_allVars PROVE Outgoing'
  OBVIOUS
<1>1. CASE \E seg \in net : PeerReceive(seg)
  BY <1>1, OutgoingPeer
<1>2. CASE Tick
  <2>1. CASE ListenStep
    <3>1. /\ Fresh /\ conn'.mss = UIP_TCP_MSS /\ conn'.app = NULL /\ conn'.state = "SYN_RCVD"
          /\ UNCHANGED <<peer, wrote, call>>
      BY <2>1 DEF ListenStep, Quiet
    <3>2. conn'.app # 0 /\ conn'.state \notin Closing /\ call'.op # "write"
      BY <3>1, TcpAssumption DEF Closing, Fresh
    <3>3. \E s : (net' = net \/ net' = net \cup {s}) /\ (net' # net => s.data = <<>>)
      BY <2>1 DEF ListenStep
    <3> QED BY <3>1, <3>2, <3>3, OutgoingFresh
  <2> QED BY <1>2, <2>1, TickIs, OutgoingRun
<1>3. CASE Opens
  <2>1. /\ Fresh /\ conn'.mss = UIP_TCP_MSS /\ conn'.app = NULL /\ conn'.state = "SYN_SENT"
        /\ UNCHANGED <<peer, wrote, net>> /\ call' = [op |-> "connect", conn |-> 0]
    BY <1>3, OpensIs
  <2>2. conn'.app # 0 /\ conn'.state \notin Closing /\ call'.op # "write"
    BY <2>1, TcpAssumption DEF Closing
  <2> QED BY <2>1, <2>2, OutgoingFresh
<1>4. CASE Reads
  <2>1. CASE Accept /\ UNCHANGED streamVars
    BY <2>1, OutgoingSame DEF Accept, stackVars, streamVars, conn, sock
  <2>2. CASE \E n \in ReadSizes : Read(n) /\ UNCHANGED <<peer, wrote>>
    <3>1. sock'.out = sock.out /\ UNCHANGED <<conns, net, call, peer, wrote>>
      BY <2>2, ReadIs
    <3> QED BY <3>1, OutgoingSame DEF conn
  <2> QED BY <1>4, <2>1, <2>2 DEF Reads
<1>5. CASE Writes
  BY <1>5, OutgoingWrites
<1>6. CASE Closes
  <2>1. sock'.out = sock.out /\ UNCHANGED <<conns, net, call, peer, wrote>>
    BY <1>6, StopIs DEF Closes, streamVars
  <2> QED BY <2>1, OutgoingSame DEF conn
<1>7. CASE Returns
  <2>1. CASE ConnectReturn /\ UNCHANGED streamVars
    <3>1. call.op # "write" /\ call'.op # "write"
      BY <2>1 DEF ConnectReturn, ConnectDone, Idle
    <3> QED BY <2>1, <3>1, OutgoingCall DEF ConnectReturn, stackVars, streamVars, conn, sock
  <2> QED BY <1>7, <2>1, OutgoingWriteStep DEF Returns
<1>8. CASE UNCHANGED allVars
  BY <1>8, OutgoingSame DEF allVars, vars, streamVars, conn, sock
<1> QED BY <1>1, <1>2, <1>3, <1>4, <1>5, <1>6, <1>7, <1>8 DEF StreamNext
-----------------------------------------------------------------------------
(* What the invariants say of the sketch's stream *)

\* OutgoingKept follows.
LEMMA KeepsOutgoing == Base /\ Outgoing => OutgoingKept
<1> SUFFICES ASSUME Base, Outgoing PROVE OutgoingKept
  OBVIOUS
<1> DEFINE w == Written
           r == Len(peer.rcvd)
           o == sock.out
           l == conn.len
           u == Len(OutData)
<1>1. /\ w \in Nat /\ Whole(peer, net) /\ Going(conn, o, w, peer, net) /\ peer.rcvd \in Seq(Nat)
      /\ o \in Seq(StreamBlock) /\ l \in Nat /\ conn.app \in {0, NULL} /\ Paired(conn, sock)
  BY OutgoingParts, BaseParts DEF StreamConn
<1>2. peer.rcvd = Count(r)
  BY <1>1 DEF Whole
<1>3. ASSUME conn.app # NULL PROVE w - u <= r /\ r <= w
  <2>1. conn.app = 0
    BY <1>1, <1>3
  <2>2. PICK B \in Nat : Underway(conn, o, B, w, peer, net)
    BY <1>1, <2>1 DEF Going
  <2>3. l > 0 => o # <<>> /\ Len(o[1].data) = o[1].cap
    BY <1>1, <2>1 DEF Paired
  <2> HIDE DEF w, o
  <2>4. l > 0 => B + l <= w
    BY <1>1, <2>2, <2>3, UnderwayParts
  <2>5. DataOf(o) \in Seq(Seq(Nat)) /\ Laid(DataOf(o), B, w)
    BY <1>1, <2>2, DataOfIs DEF Underway
  <2>6. B <= w /\ Flat(DataOf(o)) = Units(B, w)
    BY <1>1, <2>5, LaidFlat
  <2>7. OutData = Flat(DataOf(o))
    BY DEF OutData, DataOf, o
  <2>8. Len(Units(B, w)) = w - B
    BY <1>1, <2>6 DEF Units
  <2>9. u = w - B
    BY <2>6, <2>7, <2>8
  <2>10. r \in {B, B + l} /\ l \in Nat
    BY <1>1, <2>2 DEF Underway, Delivered
  <2> HIDE DEF u, r, l
  <2> QED BY <1>1, <2>4, <2>6, <2>9, <2>10
<1>4. w = wrote - (IF call.op = "write" THEN Len(call.data) ELSE 0)
  BY DEF Written
<1> DEFINE k == IF call.op = "write" THEN Len(call.data) ELSE 0
<1>5. conn.app # NULL => wrote - k - u <= r /\ r <= wrote - k
  BY <1>3, <1>4
<1> QED BY <1>2, <1>5 DEF OutgoingKept

\* So does ClosesAfterData.
LEMMA ClosesDone == Base /\ Outgoing => ClosesAfterData
<1> SUFFICES ASSUME Base, Outgoing, conn.state \in Closing PROVE Len(peer.rcvd) = wrote
  BY DEF ClosesAfterData, Closing
<1>1. call.op # "write"
  BY DEF Base, Stopping, Idle
<1>2. Written = wrote /\ Done(peer, net, Written)
  BY <1>1, OutgoingParts DEF Going
<1> QED BY <1>2 DEF Done

\* What the sketch wrote stays received, in flight or waiting, in this order, when no
\* window but 0 is smaller than a block.
THEOREM StreamKeepsOutgoing ==
  ASSUME WindowAssumption
  PROVE  StreamSpec => []Outgoing
<1>1. Base /\ Outgoing /\ [StreamNext]_allVars => Outgoing'
  BY OutgoingNext
<1> QED BY <1>1, OutgoingInit, StreamKeepsBase, PTL DEF StreamSpec

\* The remote receives the sketch's stream, and a unit leaves packets_out only when it
\* has been received (UIPClient.cpp:412-418).
THEOREM RemoteReceivesStream ==
  ASSUME WindowAssumption
  PROVE  StreamSpec => []OutgoingKept
<1> QED BY KeepsOutgoing, StreamKeepsBase, StreamKeepsOutgoing, PTL

\* We close first only when the remote has received everything that was written
\* (UIPClient.cpp:449).
THEOREM ClosesOnlyWhenDone ==
  ASSUME WindowAssumption
  PROVE  StreamSpec => []ClosesAfterData
<1> QED BY ClosesDone, StreamKeepsBase, StreamKeepsOutgoing, PTL
=============================================================================
