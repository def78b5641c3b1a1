------------------------------ MODULE UIPStream -----------------------------
(***************************************************************************)
(* One connection from its first SYN to its end, with a remote that keeps  *)
(* to TCP and a network that loses, repeats and reorders segments: the two *)
(* byte streams a sketch and its remote exchange.  The remote's stream is  *)
(* 1, 2, .. PeerLen; the sketch's is 1, 2, .. SketchLen.                   *)
(*                                                                         *)
(* A segment of ours stays in net for ever.  A segment of the remote is    *)
(* not recorded at all: the remote may have sent, at some time, whatever   *)
(* it may send now, and old segments may arrive late.                      *)
(***************************************************************************)
EXTENDS UIPTcp, SequencesExt

CONSTANTS
  PeerLen, SketchLen,  \* bounds of the two streams
  WriteSizes,          \* units the sketch passes to one write()
  ReadSizes,           \* units it asks read() for
  Windows,             \* windows the remote may advertise
  PeerISS,
  PeerCloses           \* whether the remote may close

ASSUME StreamAssumption ==
  /\ PeerLen \in Nat /\ SketchLen \in Nat
  /\ PeerLen + 2 < SeqSize /\ SketchLen + 2 < SeqSize
  /\ PeerISS \in 0 .. SeqSize - 1
  /\ WriteSizes \cup ReadSizes \subseteq Nat \ {0} /\ Windows \subseteq Nat
  /\ PeerCloses \in BOOLEAN

VARIABLES
  peer,   \* the remote: its address, what it received, whether with our FIN
  wrote,  \* how many units the sketch passed to write()
  got     \* the units read() returned

streamVars == <<peer, wrote, got>>
allVars == <<vars, streamVars>>

conn == conns[0]
sock == socks[0]

StreamInit ==
  /\ Init
  /\ peer \in [remote : Remotes, rcvd : {<<>>}, fin : {FALSE}]
  /\ wrote = 0
  /\ got = <<>>

Offset(base, n) == (base + n) % SeqSize
Place(base, seq) == (seq + SeqSize - base) % SeqSize

PeerReceive(seg) ==
  /\ seg \in net
  /\ seg.seq = Offset(ISS, 1 + Len(peer.rcvd)) /\ ~peer.fin
  /\ peer' = [peer EXCEPT !.rcvd = @ \o seg.data, !.fin = "FIN" \in seg.flags]
  /\ UNCHANGED <<vars, wrote, got>>

PeerSegment(flags, seq, ack, data, wnd) ==
  [remote |-> peer.remote, flags |-> flags, seq |-> seq, ack |-> ack, data |-> data,
   mss |-> UIP_TCP_MSS, wnd |-> wnd]

\* The remote knows our SYN from a segment of ours.
Answered == \E seg \in net : "SYN" \in seg.flags

\* The opening segment: late copies do not open a second connection.
PeerOpens ==
  IF peer.remote \in Inbound
    THEN {seg \in {PeerSegment({"SYN"}, PeerISS, 0, <<>>, UIP_TCP_MSS)} : 
            conn.remote = NULL \/ ~Closed(0)}
    ELSE {PeerSegment({"SYN", "ACK"}, PeerISS, Offset(ISS, 1), <<>>, UIP_TCP_MSS)}

\* What follows: data from any place of the stream, any earlier acknowledgement.
PeerContinues ==
  LET acks == {Offset(ISS, 1 + n) : n \in 0 .. Len(peer.rcvd) + (IF peer.fin THEN 1 ELSE 0)}
  IN {PeerSegment(flags, Offset(PeerISS, 1 + i), ack, [k \in 1 .. n |-> i + k], wnd) :
        flags \in {{"ACK"}} \cup (IF PeerCloses THEN {{"FIN", "ACK"}} ELSE {}),
        i \in 0 .. PeerLen, n \in 0 .. UIP_TCP_MSS, ack \in acks, wnd \in Windows}

\* A FIN is the end of the stream, and nothing lies beyond it.
PeerSegments ==
  IF ~Answered THEN IF peer.remote \in Inbound THEN PeerOpens ELSE {}
  ELSE PeerOpens \cup
       {seg \in PeerContinues :
          LET end == Place(PeerISS, seg.seq) + Len(seg.data)
          IN end <= PeerLen + 1 /\ ("FIN" \in seg.flags => end = PeerLen + 1)}

Tick ==
  /\ \/ \E seg \in PeerSegments : Receive(seg)
     \/ Reprocess
     \/ TimeWaitEnds(0) \/ RexmitTimer(0) \/ Poll(0)
  /\ UNCHANGED streamVars

Reads ==
  \/ Accept /\ client = NULL /\ UNCHANGED streamVars
  \/ \E n \in ReadSizes :
       /\ Read(n)
       /\ got' = got \o SubSeq(sock.in[1], 1, Lesser(n, Len(sock.in[1])))
       /\ UNCHANGED <<peer, wrote>>

Writes ==
  \E n \in WriteSizes :
    /\ wrote + n <= SketchLen
    /\ Write([k \in 1 .. n |-> wrote + k])
    /\ wrote' = wrote + n
    /\ UNCHANGED <<peer, got>>

Closes == Stop /\ UNCHANGED streamVars
Returns == (ConnectReturn \/ WriteStep) /\ UNCHANGED streamVars

Opens ==
  /\ conn.remote = NULL /\ peer.remote \in Outbound
  /\ Connect(peer.remote)
  /\ UNCHANGED streamVars

StreamNext ==
  \/ \E seg \in net : PeerReceive(seg)
  \/ Tick
  \/ Opens \/ Reads \/ Writes \/ Closes \/ Returns

StreamSpec == StreamInit /\ [][StreamNext]_allVars

\* A timer of the connection would change something: it waits for its end, has
\* something outstanding, or a poll finds work for the callback.
TimerDue ==
  \/ WaitDue(0)
  \/ RexmitDue(0)
  \/ /\ PollDue(0) /\ conn.app # NULL
     /\ sock.out # <<>> \/ sock.state \cap {"CLOSE", "RESTART"} # {}
TimerStep == (Poll(0) \/ RexmitTimer(0) \/ TimeWaitEnds(0)) /\ UNCHANGED streamVars

\* tick() runs the connection's timers for ever (weak fairness, with TimerDue in
\* place of ENABLED, which is slow to compute for these actions); the sketch goes
\* on with a call it began and reads what there is.
FairSpec ==
  /\ StreamSpec
  /\ []<>~TimerDue \/ []<><<TimerStep>>_allVars
  /\ WF_allVars(Reprocess /\ UNCHANGED streamVars)
  /\ WF_allVars(Returns)
  /\ WF_allVars(Reads)
-----------------------------------------------------------------------------
(* Properties *)

Flat(blocks) == FlattenSeq(blocks)
OutData == Flat([i \in DOMAIN sock.out |-> sock.out[i].data])
Count(n) == [i \in 1 .. n |-> i]

\* How many units of the remote's stream rcv_nxt acknowledges.
RcvCount == Place(PeerISS, conn.rcv_nxt) - 1

\* The sketch reads the remote's stream, without gap, repetition or change of
\* order, and what waits for it continues what it read.
ReadsPeerStream ==
  LET all == got \o Flat(sock.in)
  IN "CLOSE" \notin sock.state => all = Count(Len(all))

\* What an ACK of ours confirmed has been read, or waits in the socket or in the
\* frame kept for the next tick (uip.c:1604-1607 advances rcv_nxt before the data
\* are stored).
AckedIsStored ==
  LET kept == IF in_packet = NULL THEN 0 ELSE Len(in_packet.data)
  IN conn.app # NULL /\ "CLOSE" \notin sock.state
       => RcvCount = Len(got \o Flat(sock.in)) + kept

\* The remote receives the sketch's stream, and a unit leaves packets_out only
\* when it has been received (UIPClient.cpp:412-418).
OutgoingKept ==
  /\ peer.rcvd = Count(Len(peer.rcvd))
  /\ conn.app # NULL =>
       LET pending == IF call.op = "write" THEN Len(call.data) ELSE 0
       IN /\ wrote - pending - Len(OutData) <= Len(peer.rcvd)
          /\ Len(peer.rcvd) <= wrote - pending

\* "don't close connection unless all outgoing packets are sent"
\* (UIPClient.cpp:449): we close first only with everything delivered.
ClosesAfterData ==
  conn.state \in {"FIN_WAIT_1", "FIN_WAIT_2", "CLOSING", "TIME_WAIT"} => Len(peer.rcvd) = wrote

\* A stopped connection always has something that will restart it: data to read,
\* a restart on its way, or a close (UIPClient.cpp:273-274, 383-387).
StoppedForReason ==
  conn.stopped => sock.in # <<>> \/ sock.state \cap {"RESTART", "CLOSE"} # {}

\* The flow control of a connection whose sketch reads never stays stopped.
StoppedRestarts == conn.stopped ~> ~conn.stopped

\* stop() ends in a closed connection, whatever the remote does or does not do.
CloseCompletes == "CLOSE" \in sock.state ~> Closed(0)

\* write() returns (uipethernet-conf.h:14-15: "set to -1 to block until
\* connection is closed by timeout").
WriteReturns == call.op = "write" ~> call.op # "write"
=============================================================================
