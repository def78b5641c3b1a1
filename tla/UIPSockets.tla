----------------------------- MODULE UIPSockets -----------------------------
(***************************************************************************)
(* Several connections and sockets, with remotes that may send anything    *)
(* and a sketch that may call anything: which socket belongs to which      *)
(* connection, which blocks belong to which socket.  What a remote sends   *)
(* is not TCP; what counts is that every order of frames, timers and calls *)
(* is covered.  The data from a remote is the remote itself.               *)
(***************************************************************************)
EXTENDS UIPTcp, SequencesExt, FiniteSetsExt

CONSTANTS
  FlagSets,  \* the flags of the segments that arrive
  Calls      \* the calls the sketch makes; "latewrite": a write() may go on
             \* after its connection has ended

\* With SeqSize = 1 all own sequence numbers are 0 and 1 is a wrong one.
Segments ==
  {seg \in [remote : Remotes, flags : FlagSets, seq : {0, 1}, ack : {0, 1},
            data : {<<>>} \cup {<<r>> : r \in Remotes}, mss : {UIP_TCP_MSS},
            wnd : {UIP_TCP_MSS}] :
     /\ seg.data # <<>> => seg.data[1] = seg.remote /\ seg.flags \cap {"SYN", "RST"} = {}
     /\ "ACK" \notin seg.flags => seg.ack = 0
     /\ "RST" \in seg.flags => seg.seq = 0 /\ seg.ack = 0
     /\ seg.seq = 1 => seg = [seg EXCEPT !.flags = {"ACK", "FIN"}, !.ack = 0, !.data = <<>>]}

Tick ==
  \/ \E seg \in Segments : Receive(seg)
  \/ Reprocess
  \/ \E c \in Conns : TimeWaitEnds(c) \/ RexmitTimer(c) \/ Poll(c)

Sketch ==
  \/ "connect" \in Calls /\ \E r \in Outbound : Connect(r)
  \/ ConnectReturn
  \/ "accept" \in Calls /\ Accept
  \/ "stop" \in Calls /\ Stop
  \/ "read" \in Calls /\ Read(1)
  \/ "flush" \in Calls /\ Flush
  \/ "write" \in Calls /\ Write(<<Unit>>)
  \/ WriteStep /\ (socks[call.sock].state # {} \/ "latewrite" \in Calls)

Next == Tick \/ Sketch

Spec == Init /\ [][Next]_vars
-----------------------------------------------------------------------------
(* Properties *)

Block(Data) == {b \in [data : Data, cap : 0 .. UIP_TCP_MSS] : Len(b.data) <= b.cap}

\* Every variable has its type.
TypeOK ==
  /\ conns \in [Conns ->
       [state : TcpStates, stopped : BOOLEAN, remote : Remotes \cup {NULL},
        rcv_nxt : 0 .. SeqSize - 1, snd_nxt : 0 .. SeqSize - 1, len : 0 .. UIP_TCP_MSS,
        nrtx : 0 .. UIP_MAXRTX, mss : 0 .. UIP_TCP_MSS, initialmss : 0 .. UIP_TCP_MSS,
        app : Socks \cup {NULL}]]
  /\ socks \in [Socks ->
       [state : SUBSET SockFlags,
        in : BoundedSeq({<<r>> : r \in Remotes}, UIP_SOCKET_NUMPACKETS),
        out : BoundedSeq(Block({[i \in 1 .. n |-> Unit] : n \in 0 .. UIP_TCP_MSS}), UIP_SOCKET_NUMPACKETS),
        lport : BOOLEAN]]
  /\ used \in Nat
  /\ in_packet \in Segments \cup {NULL}
  /\ net = {}
  /\ client \in Socks \cup {NULL}
  /\ call.op \in {"idle", "connect", "write"}

\* A socket in use belongs to exactly one connection, an established one, until
\* the remote closes; nothing else does (UIPClient.cpp:333-345, 389-411).
Association ==
  /\ \A c \in Conns : conns[c].app # NULL =>
       /\ conns[c].state = "ESTABLISHED"
       /\ "CONNECTED" \in socks[conns[c].app].state
       /\ "REMOTECLOSED" \notin socks[conns[c].app].state
  /\ \A s \in Socks : socks[s].state # {} /\ "REMOTECLOSED" \notin socks[s].state =>
       Cardinality({c \in Conns : conns[c].app = s}) = 1

\* No block of the pool is lost: each belongs to a list of some socket.
NoLeak ==
  used = MapThenSumSet(LAMBDA s : Len(socks[s].in) + Len(socks[s].out), Socks)

\* Data wait in the socket of the connection they came for (UIPClient.cpp:356-381).
DataFromPeer ==
  \A c \in Conns : conns[c].app # NULL =>
    \A i \in DOMAIN socks[conns[c].app].in : socks[conns[c].app].in[i] = <<conns[c].remote>>

\* The demultiplexer finds the connection it looks for: no two have one remote.
RemotesDistinct ==
  \A c, d \in Conns : c # d /\ ~Closed(c) /\ ~Closed(d) => conns[c].remote # conns[d].remote

\* The bytes in flight are what the first outgoing block holds, so that a
\* retransmission repeats them and an ACK frees them (UIPClient.cpp:412-440).
InFlightMatches ==
  \A c \in Conns : conns[c].state = "ESTABLISHED" /\ conns[c].len > 0 /\ conns[c].app # NULL =>
    /\ socks[conns[c].app].out # <<>>
    /\ Len(socks[conns[c].app].out[1].data) = conns[c].len

\* "The remote host has aborted the connection, thus the connection has gone
\* away" (uip.h:1330-1331): a closed connection has no socket.
GoneAway == \A c \in Conns : Closed(c) => conns[c].app = NULL

\* A stopped connection has something that will restart it: data to read, a
\* restart or a close on its way, or the frame that waits.
StoppedForReason ==
  \A c \in Conns : conns[c].stopped /\ conns[c].app # NULL =>
    \/ socks[conns[c].app].in # <<>>
    \/ socks[conns[c].app].state \cap {"RESTART", "CLOSE"} # {}
=============================================================================
