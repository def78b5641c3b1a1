------------------------------- MODULE UIPTcp -------------------------------
(***************************************************************************)
(* TCP as a sketch sees it: the connections of uip.c, the sockets that     *)
(* UIPClient.cpp keeps for them, and the calls of a sketch that holds one  *)
(* UIPClient.                                                              *)
(*                                                                         *)
(* Every call of the library runs UIPEthernetClass::tick(), which handles  *)
(* one received frame and then each connection's timer.  An action here is *)
(* one run of uip_process() inside a tick, callback and transmission       *)
(* included, or the part of a call that comes after its tick; they         *)
(* interleave freely, since any tick may find nothing to do.               *)
(*                                                                         *)
(* Data are sequences of units; a segment or a block holds UIP_TCP_MSS of  *)
(* them.  A remote stands for the remote address, the remote port and the  *)
(* local port.  Timers are abstracted to "may expire".                     *)
(***************************************************************************)
EXTENDS Integers, Sequences, FiniteSets

CONSTANTS
  UIP_CONNS,               \* connections, and as many sockets
  UIP_SOCKET_NUMPACKETS,   \* blocks a socket queues in each direction
  UIP_TCP_MSS,             \* units per segment
  UIP_MAXRTX, UIP_MAXSYNRTX,
  Inbound, Outbound,       \* remotes that connect to us, remotes we connect to
  ISS,                     \* initial sequence number
  SeqSize,                  \* sequence numbers count modulo this
  Unit,                    \* units of data
  Memory,                  \* possible outcomes of allocBlock
  Sent,                    \* possible outcomes of sendPacket
  KeepNet,                 \* whether net records the segments sent
  NULL

ASSUME TcpAssumption ==
  /\ UIP_CONNS \in Nat \ {0}
  /\ UIP_SOCKET_NUMPACKETS \in Nat \ {0}
  /\ UIP_TCP_MSS \in Nat \ {0}
  /\ UIP_MAXRTX \in Nat /\ UIP_MAXSYNRTX \in Nat
  /\ SeqSize \in Nat \ {0} /\ ISS \in 0 .. SeqSize - 1
  /\ Memory \subseteq BOOLEAN /\ Sent \subseteq BOOLEAN /\ KeepNet \in BOOLEAN
  /\ NULL \notin Int /\ NULL \notin Inbound \cup Outbound

Conns == 0 .. UIP_CONNS - 1
Socks == 0 .. UIP_CONNS - 1
Remotes == Inbound \cup Outbound

VARIABLES
  conns,      \* uip_conns
  socks,      \* UIPClient::all_data
  used,       \* blocks of the memory pool the sockets account for
  in_packet,  \* the frame kept for the next tick, or NULL
  net,        \* the segments sent: none disappears, so that any may be late or repeated
  client,     \* the socket the sketch's UIPClient points to, or NULL
  call        \* the call of the sketch that is waiting, or Idle

vars == <<conns, socks, used, in_packet, net, client, call>>
stackVars == <<conns, socks, used, in_packet, net>>

\* tcpstateflags without UIP_STOPPED; LISTEN and CLOSE_WAIT do not exist.
TcpStates == {"CLOSED", "SYN_RCVD", "SYN_SENT", "ESTABLISHED", "FIN_WAIT_1",
              "FIN_WAIT_2", "CLOSING", "TIME_WAIT", "LAST_ACK"}
SockFlags == {"CONNECTED", "CLOSE", "REMOTECLOSED", "RESTART"}

\* app: the socket appstate points to; remote: NULL before the first use.
NewConn ==
  [state |-> "CLOSED", stopped |-> FALSE, remote |-> NULL, rcv_nxt |-> 0, snd_nxt |-> 0,
   len |-> 0, nrtx |-> 0, mss |-> 0, initialmss |-> 0, app |-> NULL]

\* A block of packets_out has room for cap units, of which data are written;
\* out_pos is the length of data of the last one.
NewSock == [state |-> {}, in |-> <<>>, out |-> <<>>, lport |-> FALSE]

Idle == [op |-> "idle"]

Init ==
  /\ conns = [c \in Conns |-> NewConn]
  /\ socks = [s \in Socks |-> NewSock]
  /\ used = 0
  /\ in_packet = NULL
  /\ net = {}
  /\ client = NULL
  /\ call = Idle

\* tcpstateflags == UIP_CLOSED: a stopped connection compares unequal.
Closed(c) == conns[c].state = "CLOSED" /\ ~conns[c].stopped

Least(S) == CHOOSE n \in S : \A m \in S : n <= m
Lesser(m, n) == IF m <= n THEN m ELSE n
-----------------------------------------------------------------------------
(* uipclient_appcall.  x is what one run of uip_process works on: its      *)
(* connection, the sockets, the pool, uip_flags, uip_slen, the received    *)
(* data, whether uip_packet holds a block to send, whether in_packet is to *)
(* be kept, and the segment to send.                                       *)

Context(c, data, memory) ==
  [conn |-> conns[c], socks |-> socks, used |-> used, flags |-> {}, slen |-> 0,
   data |-> data, packet |-> FALSE, keep |-> FALSE, sends |-> NULL, memory |-> memory]

Sock(x) == x.socks[x.conn.app]

\* _allocateData: the first free socket; its lists are cleared, not freed.
Connected(x) ==
  LET free == {s \in Socks : x.socks[s].state = {}}
  IN IF x.conn.app = NULL /\ "CONNECTED" \in x.flags /\ free # {}
       THEN [x EXCEPT !.conn.app = Least(free),
                      !.socks[Least(free)] = [NewSock EXCEPT !.state = {"CONNECTED"}]]
       ELSE x

\* Bug: the peer is not stopped when the last block is taken.
NewDataNoStop(x) ==
  LET s == x.conn.app
      count == Len(Sock(x).in)
  IN IF "NEWDATA" \notin x.flags \/ x.data = <<>>
          \/ Sock(x).state \cap {"CLOSE", "REMOTECLOSED"} # {}
       THEN x
     ELSE IF x.memory /\ count < UIP_SOCKET_NUMPACKETS
       THEN [x EXCEPT !.socks[s].in = Append(@, x.data), !.used = @ + 1]
       ELSE [x EXCEPT !.keep = TRUE, !.conn.stopped = TRUE]

\* Store the data in a block of its own, or keep the frame and stop the peer.
NewData(x) ==
  LET s == x.conn.app
      count == Len(Sock(x).in)
  IN IF "NEWDATA" \notin x.flags \/ x.data = <<>>
          \/ Sock(x).state \cap {"CLOSE", "REMOTECLOSED"} # {}
       THEN x
     ELSE IF x.memory /\ count < UIP_SOCKET_NUMPACKETS
       THEN [x EXCEPT !.socks[s].in = Append(@, x.data), !.used = @ + 1,
                      !.conn.stopped = @ \/ count = UIP_SOCKET_NUMPACKETS - 1]
       ELSE [x EXCEPT !.keep = TRUE, !.conn.stopped = TRUE]

\* Bug: the window is not opened again.
RestartStaysStopped(x) ==
  IF "RESTART" \in Sock(x).state
    THEN [x EXCEPT !.socks[x.conn.app].state = @ \ {"RESTART"}, !.flags = @ \cup {"NEWDATA"}]
    ELSE x

Restart(x) ==
  IF "RESTART" \in Sock(x).state
    THEN [x EXCEPT !.socks[x.conn.app].state = @ \ {"RESTART"},
                   !.flags = @ \cup {"NEWDATA"}, !.conn.stopped = FALSE]
    ELSE x

\* Bug: appstate is not reset.
DisconnectKeepsApp(x) ==
  [x EXCEPT !.used = @ - Len(Sock(x).out),
            !.socks[x.conn.app] = [@ EXCEPT !.out = <<>>, !.state = {}]]

\* Bug: the handles of packets_out are cleared but not freed.
DisconnectLeaks(x) ==
  LET s == x.conn.app
  IN [x EXCEPT !.conn.app = NULL,
               !.socks[s].out = <<>>,
               !.socks[s].state = IF Sock(x).in = <<>> THEN {} ELSE @ \cup {"REMOTECLOSED"},
               !.socks[s].lport = x.conn.remote \in Inbound]

\* The peer has closed or the connection timed out: keep unread data only.
Disconnect(x) ==
  LET s == x.conn.app
      left == [Sock(x) EXCEPT !.out = <<>>]
  IN [x EXCEPT !.used = @ - Len(Sock(x).out),
               !.conn.app = NULL,
               !.socks[s] = IF left.in = <<>>
                              THEN [left EXCEPT !.state = {}]
                              ELSE [left EXCEPT !.state = @ \cup {"REMOTECLOSED"},
                                                !.lport = x.conn.remote \in Inbound]]

Acked(x) ==
  IF "ACKDATA" \in x.flags /\ Sock(x).out # <<>>
    THEN [x EXCEPT !.socks[x.conn.app].out = Tail(@), !.used = @ - 1]
    ELSE x

\* Bug: the last block is not cut to what is written.
PrepareUncut(x) ==
  LET out == Sock(x).out
      send_len == IF Len(out) = 1 THEN Len(out[1].data) ELSE out[1].cap
  IN [x EXCEPT !.slen = send_len, !.packet = send_len > 0 /\ x.memory]

\* Copy the first outgoing block to a block to send. The last block is cut to
\* what is written so far, so that later writes go to a new one.
Prepare(x) ==
  LET out == Sock(x).out
      send_len == IF Len(out) = 1 THEN Len(out[1].data) ELSE out[1].cap
  IN [x EXCEPT !.socks[x.conn.app].out[1].cap =
                 IF Len(out) = 1 /\ send_len > 0 THEN send_len ELSE @,
               !.slen = send_len,
               !.packet = send_len > 0 /\ x.memory]

\* Bug: close although blocks are still to be sent.
CloseAtOnce(x) ==
  IF "CLOSE" \notin Sock(x).state THEN x
  ELSE [x EXCEPT !.used = @ - Len(Sock(x).out), !.socks[x.conn.app].out = <<>>,
                 !.socks[x.conn.app].state = {}, !.conn.app = NULL, !.flags = {"CLOSE"}]

\* Close when every outgoing block is sent, and stop receiving until then.
CloseOrStop(x) ==
  IF "CLOSE" \notin Sock(x).state THEN x
  ELSE IF Sock(x).out = <<>>
    THEN [x EXCEPT !.socks[x.conn.app].state = {}, !.conn.app = NULL, !.flags = {"CLOSE"}]
    ELSE [x EXCEPT !.conn.stopped = TRUE]

AppCall(y) ==
  LET x == Connected(y)
      told == Restart(NewData(x))
      acked == Acked(told)
  IN IF x.conn.app = NULL THEN x
     ELSE IF told.flags \cap {"CLOSE", "TIMEDOUT"} # {} THEN Disconnect(told)
     ELSE IF acked.flags \cap {"POLL", "REXMIT"} # {} /\ Sock(acked).out # <<>>
       THEN Prepare(acked)
     ELSE CloseOrStop(acked)
-----------------------------------------------------------------------------
(* uip_process: sending *)

\* The acknowledgement and the window are left out: what a remote may send does
\* not depend on them here.
Segment(conn, flags, data) ==
  [remote |-> conn.remote, flags |-> flags, seq |-> conn.snd_nxt, data |-> data]

ResetSegment(seg) ==
  [remote |-> seg.remote, flags |-> {"RST", "ACK"}, seq |-> seg.ack, data |-> <<>>]

\* tcp_send_ack, tcp_send_nodata and tcp_send.
Send(x, flags) == [x EXCEPT !.sends = Segment(x.conn, flags, <<>>)]

\* An assignment to tcpstateflags clears UIP_STOPPED.
SetState(x, state) == [x EXCEPT !.conn.state = state, !.conn.stopped = FALSE]

Received(x, n) == [x EXCEPT !.conn.rcv_nxt = (@ + n) % SeqSize]

\* Without memory for uip_packet nothing goes out, as if it were lost.
AppRexmit(x) ==
  IF x.slen > 0 /\ x.conn.len > 0
    THEN IF x.packet
           THEN [x EXCEPT !.sends = Segment(x.conn, {"ACK"},
                   SubSeq(Sock(x).out[1].data, 1, Lesser(x.conn.len, x.slen)))]
           ELSE x
  ELSE IF "NEWDATA" \in x.flags THEN Send(x, {"ACK"})
  ELSE x

AppSend(x) ==
  IF "CLOSE" \in x.flags
    THEN Send([SetState(x, "FIN_WAIT_1") EXCEPT !.conn.len = 1, !.conn.nrtx = 0],
              {"FIN", "ACK"})
  ELSE AppRexmit([x EXCEPT !.conn.nrtx = 0,
                           !.conn.len = IF x.slen > 0 /\ @ = 0
                                          THEN Lesser(x.slen, x.conn.mss) ELSE @])
-----------------------------------------------------------------------------
(* uip_process: a segment for connection x.conn.  seg.mss is its MSS       *)
(* option; seg.wnd is the window, in units.                                *)

\* Bug: only segments with SYN or FIN are compared with rcv_nxt.
OutOfOrderDataAccepted(conn, seg) ==
  /\ ~(conn.state = "SYN_SENT" /\ seg.flags = {"SYN", "ACK"})
  /\ seg.flags \cap {"SYN", "FIN"} # {}
  /\ seg.seq # conn.rcv_nxt

OutOfOrder(conn, seg) ==
  /\ ~(conn.state = "SYN_SENT" /\ seg.flags = {"SYN", "ACK"})
  /\ seg.data # <<>> \/ seg.flags \cap {"SYN", "FIN"} # {}
  /\ seg.seq # conn.rcv_nxt

\* Bug: len is not reset.
CheckAckKeepsLen(x, seg) ==
  IF "ACK" \in seg.flags /\ x.conn.len > 0
       /\ seg.ack = (x.conn.snd_nxt + x.conn.len) % SeqSize
    THEN [x EXCEPT !.conn.snd_nxt = seg.ack, !.flags = {"ACKDATA"}]
    ELSE x

\* All outstanding data acknowledged: set UIP_ACKDATA.
CheckAck(x, seg) ==
  IF /\ "ACK" \in seg.flags
     /\ x.conn.len > 0
     /\ seg.ack = (x.conn.snd_nxt + x.conn.len) % SeqSize
    THEN [x EXCEPT !.conn.snd_nxt = seg.ack, !.conn.len = 0, !.flags = {"ACKDATA"}]
    ELSE x

IsAcked(x) == "ACKDATA" \in x.flags
DataFlag(seg) == IF seg.data # <<>> THEN {"NEWDATA"} ELSE {}

SynRcvd(x, seg) ==
  IF IsAcked(x)
    THEN AppSend(AppCall([Received(SetState(x, "ESTABLISHED"), Len(seg.data))
                            EXCEPT !.flags = {"CONNECTED"} \cup DataFlag(seg)]))
    ELSE x

\* The RST is the received segment turned round.
SynSent(x, seg) ==
  IF IsAcked(x) /\ seg.flags = {"SYN", "ACK"}
    THEN LET mss == Lesser(seg.mss, UIP_TCP_MSS)
         IN AppSend(AppCall([SetState(x, "ESTABLISHED")
              EXCEPT !.conn.rcv_nxt = (seg.seq + 1) % SeqSize,
                     !.conn.mss = mss, !.conn.initialmss = mss,
                     !.flags = {"CONNECTED", "NEWDATA"}, !.data = <<>>]))
    ELSE [SetState(AppCall([x EXCEPT !.flags = {"ABORT"}]), "CLOSED")
            EXCEPT !.sends = ResetSegment(seg)]

Established(x, seg) ==
  IF "FIN" \in seg.flags /\ ~x.conn.stopped
    THEN IF x.conn.len > 0 THEN x
         ELSE LET told == AppCall([Received(x, 1 + Len(seg.data))
                                     EXCEPT !.flags = @ \cup {"CLOSE"} \cup DataFlag(seg)])
              IN Send([SetState(told, "LAST_ACK") EXCEPT !.conn.len = 1, !.conn.nrtx = 0],
                      {"FIN", "ACK"})
  ELSE LET new == IF x.conn.stopped THEN x
                    ELSE [Received(x, Len(seg.data)) EXCEPT !.flags = @ \cup DataFlag(seg)]
           told == [new EXCEPT !.conn.mss = IF seg.wnd = 0 THEN x.conn.initialmss
                                            ELSE Lesser(seg.wnd, x.conn.initialmss)]
       IN IF told.flags # {} THEN AppSend(AppCall(told)) ELSE told

LastAck(x) ==
  IF IsAcked(x) THEN AppCall([SetState(x, "CLOSED") EXCEPT !.flags = {"CLOSE"}]) ELSE x

FinWait1(x, seg) ==
  LET new == Received(x, Len(seg.data))
      next == IF IsAcked(x) THEN "TIME_WAIT" ELSE "CLOSING"
  IN IF "FIN" \in seg.flags
       THEN Send(AppCall([Received(SetState(new, next), 1) EXCEPT !.flags = {"CLOSE"}]), {"ACK"})
     ELSE IF IsAcked(x) THEN SetState(new, "FIN_WAIT_2")
     ELSE IF seg.data # <<>> THEN Send(new, {"ACK"})
     ELSE new

FinWait2(x, seg) ==
  LET new == Received(x, Len(seg.data))
  IN IF "FIN" \in seg.flags
       THEN Send(AppCall([Received(SetState(new, "TIME_WAIT"), 1) EXCEPT !.flags = {"CLOSE"}]),
                 {"ACK"})
     ELSE IF seg.data # <<>> THEN Send(new, {"ACK"})
     ELSE new

\* The label "found". A connection that is closed but stopped does nothing.
Found(x, seg) ==
  IF "RST" \in seg.flags
    THEN AppCall([SetState(x, "CLOSED") EXCEPT !.flags = {"ABORT"}])
  ELSE IF OutOfOrder(x.conn, seg) THEN Send(x, {"ACK"})
  ELSE LET y == CheckAck(x, seg)
       IN CASE y.conn.state = "SYN_RCVD" -> SynRcvd(y, seg)
            [] y.conn.state = "SYN_SENT" -> SynSent(y, seg)
            [] y.conn.state = "ESTABLISHED" -> Established(y, seg)
            [] y.conn.state = "LAST_ACK" -> LastAck(y)
            [] y.conn.state = "FIN_WAIT_1" -> FinWait1(y, seg)
            [] y.conn.state = "FIN_WAIT_2" -> FinWait2(y, seg)
            [] y.conn.state = "TIME_WAIT" -> Send(y, {"ACK"})
            [] y.conn.state = "CLOSING" -> IF IsAcked(y) THEN SetState(y, "TIME_WAIT") ELSE y
            [] y.conn.state = "CLOSED" -> y
-----------------------------------------------------------------------------
(* tick(): the stack's steps *)

\* A bare ACK tells a remote nothing that its part in the model depends on.
Transmit(seg, ok) ==
  net' = IF KeepNet /\ ok /\ seg # NULL
              /\ (seg.data # <<>> \/ seg.flags \cap {"SYN", "FIN"} # {})
           THEN net \cup {seg} ELSE net

\* The end of a run of uip_process, network_send and tick. sendPacket's failure
\* loses the segment, and the block with it (UIPEthernet.cpp:294-303).
Finish(c, x, seg) ==
  \E ok \in Sent :
    /\ conns' = [conns EXCEPT ![c] = x.conn]
    /\ socks' = x.socks
    /\ used' = x.used + (IF x.packet /\ ~ok THEN 1 ELSE 0)
    /\ in_packet' = IF x.keep THEN seg ELSE NULL
    /\ Transmit(x.sends, ok)
    /\ UNCHANGED <<client, call>>

\* The connection for a new remote: the first that is closed, else the oldest in
\* TIME_WAIT (timers are abstracted, so any).
Slot(c) ==
  LET closed == {d \in Conns : Closed(d)}
  IN IF closed # {} THEN c = Least(closed)
                    ELSE conns[c].state = "TIME_WAIT"

\* The label "found_listen".  appstate keeps its value.
FoundListen(c, seg) ==
  LET mss == Lesser(seg.mss, UIP_TCP_MSS)
      conn == [conns[c] EXCEPT !.state = "SYN_RCVD", !.stopped = FALSE,
                 !.remote = seg.remote, !.snd_nxt = ISS, !.rcv_nxt = (seg.seq + 1) % SeqSize,
                 !.len = 1, !.nrtx = 0, !.mss = mss, !.initialmss = mss]
  IN [Context(c, <<>>, TRUE) EXCEPT !.conn = conn,
                                    !.sends = Segment(conn, {"SYN", "ACK"}, <<>>)]

\* A segment that belongs to no connection and does not open one is answered
\* with RST.
Reset(seg) ==
  /\ in_packet' = NULL
  /\ IF "RST" \in seg.flags
       THEN UNCHANGED net
       ELSE \E ok \in Sent : Transmit(ResetSegment(seg), ok)
  /\ UNCHANGED <<conns, socks, used, client, call>>

\* tcp_input.
Input(seg) ==
  LET found == {c \in Conns : ~Closed(c) /\ conns[c].remote = seg.remote}
      opens == seg.flags = {"SYN"} /\ seg.remote \in Inbound
  IN \/ /\ found # {}
        /\ \E memory \in Memory :
             Finish(Least(found), Found(Context(Least(found), seg.data, memory), seg), seg)
     \/ /\ found = {} /\ opens
        /\ \E c \in Conns : Slot(c) /\ Finish(c, FoundListen(c, seg), seg)
     \/ /\ found = {} /\ opens
        /\ \A c \in Conns : ~Slot(c)
        /\ in_packet' = NULL
        /\ UNCHANGED <<conns, socks, used, net, client, call>>
     \/ found = {} /\ ~opens /\ Reset(seg)

\* connect() looks at its connection after every tick.
ConnectDone == call.op = "connect" /\ conns[call.conn].state \in {"CLOSED", "ESTABLISHED"}

\* A frame arrives, or the one kept by the last tick is handled again.
Receive(seg) == in_packet = NULL /\ ~ConnectDone /\ Input(seg)
Reprocess == in_packet # NULL /\ ~ConnectDone /\ Input(in_packet)

\* UIP_TIMER, in two states that only wait.
WaitDue(c) == conns[c].state \in {"TIME_WAIT", "FIN_WAIT_2"} /\ ~conns[c].stopped

TimeWaitEnds(c) ==
  /\ WaitDue(c)
  /\ conns' = [conns EXCEPT ![c].state = "CLOSED"]
  /\ UNCHANGED <<socks, used, in_packet, net, client, call>>

\* Bug: one retransmission too many.
ExpiredLate(x) ==
  IF x.conn.nrtx = UIP_MAXRTX + 1
    THEN Send(AppCall([SetState(x, "CLOSED") EXCEPT !.flags = {"TIMEDOUT"}]), {"RST", "ACK"})
  ELSE [x EXCEPT !.conn.nrtx = @ + 1]

\* Bug: the application is not told that the connection timed out.
ExpiredSilently(x) ==
  IF \/ x.conn.nrtx = UIP_MAXRTX
     \/ x.conn.state \in {"SYN_SENT", "SYN_RCVD"} /\ x.conn.nrtx = UIP_MAXSYNRTX
    THEN Send(SetState(x, "CLOSED"), {"RST", "ACK"})
  ELSE [x EXCEPT !.conn.nrtx = @ + 1]

\* UIP_TIMER, with the retransmission timer at 0.
Expired(x) ==
  IF \/ x.conn.nrtx = UIP_MAXRTX
     \/ x.conn.state \in {"SYN_SENT", "SYN_RCVD"} /\ x.conn.nrtx = UIP_MAXSYNRTX
    THEN Send(AppCall([SetState(x, "CLOSED") EXCEPT !.flags = {"TIMEDOUT"}]), {"RST", "ACK"})
  ELSE LET y == [x EXCEPT !.conn.nrtx = @ + 1]
       IN CASE y.conn.state = "SYN_RCVD" -> Send(y, {"SYN", "ACK"})
            [] y.conn.state = "SYN_SENT" -> Send(y, {"SYN"})
            [] y.conn.state = "ESTABLISHED" -> AppRexmit(AppCall([y EXCEPT !.flags = {"REXMIT"}]))
            [] y.conn.state \in {"FIN_WAIT_1", "CLOSING", "LAST_ACK"} -> Send(y, {"FIN", "ACK"})
            [] OTHER -> y

\* A timer leaves the kept frame alone.
FinishTimer(c, x) == Finish(c, [x EXCEPT !.keep = in_packet # NULL], in_packet)

\* Bug: a stopped connection does not retransmit.
RexmitDueUnlessStopped(c) ==
  ~Closed(c) /\ conns[c].len > 0 /\ ~WaitDue(c) /\ ~conns[c].stopped

RexmitDue(c) == ~Closed(c) /\ conns[c].len > 0 /\ ~WaitDue(c)

RexmitTimer(c) ==
  /\ RexmitDue(c)
  /\ \E memory \in Memory : FinishTimer(c, Expired(Context(c, <<>>, memory)))

\* Bug: a stopped connection is not polled.
PollDueUnlessStopped(c) ==
  conns[c].state = "ESTABLISHED" /\ conns[c].len = 0 /\ ~conns[c].stopped

\* UIP_TIMER or UIP_POLL_REQUEST on an idle connection.
PollDue(c) == conns[c].state = "ESTABLISHED" /\ conns[c].len = 0

Poll(c) ==
  /\ PollDue(c)
  /\ \E memory \in Memory :
       FinishTimer(c, AppSend(AppCall([Context(c, <<>>, memory) EXCEPT !.flags = {"POLL"}])))
-----------------------------------------------------------------------------
(* The sketch's calls. stop() is part of connect(): here the sketch has     *)
(* called it before.                                                        *)

\* Bug: the local port is not compared with those in use.
ConnectAnyPort(r) ==
  /\ call = Idle /\ client = NULL
  /\ \E c \in Conns :
       /\ Slot(c)
       /\ conns' = [conns EXCEPT ![c] =
            [NewConn EXCEPT !.state = "SYN_SENT", !.remote = r, !.len = 1,
                            !.mss = UIP_TCP_MSS, !.initialmss = UIP_TCP_MSS]]
       /\ call' = [op |-> "connect", conn |-> c]
  /\ UNCHANGED <<socks, used, in_packet, net, client>>

Connect(r) ==
  /\ call = Idle /\ client = NULL
  /\ \A c \in Conns : ~Closed(c) => conns[c].remote # r   \* a fresh local port
  /\ \E c \in Conns :
       /\ Slot(c)
       /\ conns' = [conns EXCEPT ![c] =
            [@ EXCEPT !.state = "SYN_SENT", !.stopped = FALSE, !.remote = r, !.snd_nxt = ISS,
                      !.len = 1, !.nrtx = 0, !.mss = UIP_TCP_MSS, !.initialmss = UIP_TCP_MSS]]
       /\ call' = [op |-> "connect", conn |-> c]
  /\ UNCHANGED <<socks, used, in_packet, net, client>>

ConnectReturn ==
  /\ ConnectDone
  /\ client' = IF conns[call.conn].state = "ESTABLISHED" THEN conns[call.conn].app ELSE NULL
  /\ call' = Idle
  /\ UNCHANGED stackVars

\* UIPServer::available: the first socket with data whose connection has the
\* server's port.  The connection is looked up with the number of the socket.
Available(s) ==
  /\ socks[s].in # <<>>
  /\ \/ "CONNECTED" \in socks[s].state /\ conns[s].remote \in Inbound
     \/ "REMOTECLOSED" \in socks[s].state /\ socks[s].lport

Accept ==
  /\ call = Idle
  /\ \E s \in Socks : /\ Available(s)
                      /\ \A t \in 0 .. s - 1 : ~Available(t)
                      /\ client' = s
  /\ UNCHANGED <<stackVars, call>>

Stop ==
  /\ call = Idle /\ client # NULL
  /\ LET s == socks[client]
     IN IF s.state = {} THEN UNCHANGED <<socks, used>>
        ELSE /\ socks' = [socks EXCEPT ![client] =
                  [s EXCEPT !.in = <<>>,
                            !.state = IF "REMOTECLOSED" \in @ THEN {} ELSE @ \cup {"CLOSE"}]]
             /\ used' = used - Len(s.in)
  /\ client' = NULL
  /\ UNCHANGED <<conns, in_packet, net, call>>

\* operator bool.
Usable == client # NULL /\ ("REMOTECLOSED" \notin socks[client].state \/ socks[client].in # <<>>)

\* One round of the loop of read(): n units at most, of the first block.  The
\* connection is looked up with the number of the socket.
Read(n) ==
  /\ call = Idle /\ Usable /\ socks[client].in # <<>>
  /\ LET s == socks[client]
         rest == Tail(s.in)
         freed == rest = <<>> /\ "REMOTECLOSED" \in s.state
         restart == conns[client].stopped /\ s.state \cap {"CLOSE", "REMOTECLOSED"} = {}
     IN IF n < Len(s.in[1])
          THEN /\ socks' = [socks EXCEPT ![client].in[1] = SubSeq(@, n + 1, Len(@))]
               /\ UNCHANGED <<used, client>>
          ELSE /\ socks' = [socks EXCEPT ![client] =
                    [s EXCEPT !.in = rest,
                              !.state = IF freed THEN {}
                                        ELSE IF restart THEN @ \cup {"RESTART"} ELSE @]]
               /\ used' = used - 1
               /\ client' = IF freed THEN NULL ELSE client
  /\ UNCHANGED <<conns, in_packet, net, call>>

Flush ==
  /\ call = Idle /\ Usable
  /\ socks' = [socks EXCEPT ![client].in = <<>>]
  /\ used' = used - Len(socks[client].in)
  /\ UNCHANGED <<conns, in_packet, net, client, call>>

\* connected(): what a sketch checks before it writes.
IsConnected == client # NULL /\ (socks[client].in # <<>> \/ "CONNECTED" \in socks[client].state)

Write(data) ==
  /\ call = Idle /\ IsConnected
  /\ call' = [op |-> "write", sock |-> client, data |-> data]
  /\ UNCHANGED <<stackVars, client>>

\* One block of the loop "repeat" of _write, after its tick: fill the last block
\* and, with data left, a new one; without room or memory try again.
WriteStep ==
  /\ call.op = "write"
  /\ LET s == call.sock
         out == socks[s].out
         last == Len(out)
         room == IF out = <<>> THEN 0 ELSE out[last].cap - Len(out[last].data)
         n == Lesser(room, Len(call.data))
         remain == SubSeq(call.data, n + 1, Len(call.data))
         filled == IF out = <<>> THEN out
                   ELSE [out EXCEPT ![last].data = @ \o SubSeq(call.data, 1, n)]
         m == Lesser(UIP_TCP_MSS, Len(remain))
         rest == SubSeq(remain, m + 1, Len(remain))
         Continue(data) == IF data = <<>> THEN Idle ELSE [call EXCEPT !.data = data]
     IN \/ /\ socks[s].state \cap {"CLOSE", "REMOTECLOSED"} # {}
           /\ call' = Idle
           /\ UNCHANGED <<socks, used>>
        \/ /\ socks[s].state \cap {"CLOSE", "REMOTECLOSED"} = {}
           /\ \E memory \in Memory :
                IF (out = <<>> \/ remain # <<>>) /\ memory /\ last < UIP_SOCKET_NUMPACKETS
                  THEN /\ socks' = [socks EXCEPT ![s].out = Append(filled,
                                      [data |-> SubSeq(remain, 1, m), cap |-> UIP_TCP_MSS])]
                       /\ used' = used + 1
                       /\ call' = Continue(rest)
                  ELSE /\ socks' = [socks EXCEPT ![s].out = filled]
                       /\ call' = IF out = <<>> THEN call ELSE Continue(remain)
                       /\ UNCHANGED used
  /\ UNCHANGED <<conns, in_packet, net, client>>
=============================================================================
