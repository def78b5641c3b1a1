-------------------------------- MODULE Dhcp --------------------------------
(***************************************************************************)
(* The DHCP client of Dhcp.cpp and the calls of UIPEthernet.cpp that drive *)
(* it: begin(mac) asks for a lease, maintain() renews it in time.          *)
(*                                                                         *)
(* A request runs to its end inside one call of the sketch, which waits    *)
(* for it; time passes while it waits for a reply, and between the calls.  *)
(* The client talks through one UIPUDP socket: a datagram binds that       *)
(* socket to its sender, until the next message is broadcast, and one can  *)
(* wait behind the one being read (see UIPUdp).  As every call of the      *)
(* socket runs tick(), datagrams come in also while a reply is parsed.     *)
(*                                                                         *)
(* The network may lose, repeat, delay and reorder what belongs to one     *)
(* request; nothing outlives the request.  Addresses other than that of    *)
(* the host, and the options of a reply that set them, are left out.       *)
(***************************************************************************)
EXTENDS Integers, FiniteSets

CONSTANTS
  Servers,        \* each has one address for this client, named like the server
  LeaseTimes,     \* what the servers grant, in seconds; 0 when they do not say
  T1Options, T2Options,    \* options 58 and 59 of a reply; 0 when it has none
  Xids,           \* the outcomes of random(1, 2000)
  Sockets,        \* possible outcomes of _dhcpUdpSocket.begin
  SECOND,         \* units of the clock in a second
  WRAP,           \* the clock, millis(), counts modulo WRAP
  Timeout, ResponseTimeout,    \* _timeout and _responseTimeout, in units
  RefusalBound,   \* a request that has sent more messages is no longer refused
  MaxGap,         \* units the sketch lets pass between two calls of maintain()
  DEFAULT_LEASE,
  BROADCAST, NULL

\* What the client keeps of a request under way: who called, the time checkLease
\* read, when the request and the wait for a reply began, where it stands, and the
\* first and the last transaction id.
Calls == [why : {"begin", "renew", "rebind"}, now : 0 .. WRAP - 1,
          start : 0 .. WRAP - 1, parse : 0 .. WRAP - 1, pc : {"loop", "parse", "rebind"},
          initial : Nat, xid : Nat]

\* What maintain() and begin(mac) return; NONE during a call.
Results == {"NONE", "BEGIN_OK", "BEGIN_FAIL", "RENEW_OK", "RENEW_FAIL", "REBIND_OK", "REBIND_FAIL"}

ASSUME DhcpAssumption ==
  /\ LeaseTimes \subseteq Nat /\ T1Options \subseteq Nat /\ T2Options \subseteq Nat
  /\ Xids \subseteq Nat \ {0} /\ Sockets \subseteq BOOLEAN
  /\ SECOND \in Nat \ {0} /\ WRAP \in Nat \ {0} /\ DEFAULT_LEASE \in Nat \ {0}
  /\ Timeout \in Nat /\ ResponseTimeout \in Nat /\ MaxGap \in Nat /\ RefusalBound \in Nat
  /\ 2 * (Timeout + ResponseTimeout + 1) + MaxGap + SECOND <= WRAP \div 2
  /\ \E m \in LeaseTimes : \A n \in LeaseTimes : n <= m
  /\ 0 \notin Servers /\ NULL \notin Int /\ {BROADCAST, NULL} \cap Servers = {}
  /\ NULL \notin Calls \cup Results

VARIABLES
  clock,                \* millis()
  state,                \* _dhcp_state
  localIp, serverIp,    \* _dhcpLocalIp and _dhcpDhcpServerIp; 0 when not set
  leaseTime, t1, t2,    \* in seconds; 0 when not known
  renewIn, rebindIn,    \* _renewInSec and _rebindInSec
  checked,              \* whether _lastCheck is not 0, all the code asks of it
  secTimeout,
  call,                 \* the request under way, or NULL
  sock,                 \* its socket: [remote, next]
  requests,             \* what it has sent
  host,                 \* the address configure() gave the host; 0 before
  result,               \* what the last call returned, NULL before begin; "NONE" during a call
  grant,                \* history: the server whose ACK was taken last, or NULL
  misled,               \* history: remoteIP() has passed a reply off as one of the server kept
  age, gap              \* history: units since grant while leased, and since the last call

leaseVars == <<localIp, serverIp, leaseTime, t1, t2>>
countVars == <<renewIn, rebindIn>>
checkVars == <<checked, secTimeout>>
hostVars == <<host, result>>
history == <<grant, misled, age, gap>>
vars == <<clock, state, leaseVars, countVars, checkVars, call, sock, requests, hostVars, history>>

Idle == call = NULL
Closed == [remote |-> NULL, next |-> NULL]

Init ==
  /\ clock \in 0 .. WRAP - 1
  /\ state = "START"
  /\ localIp = 0 /\ serverIp = 0 /\ leaseTime = 0 /\ t1 = 0 /\ t2 = 0
  /\ renewIn = 0 /\ rebindIn = 0 /\ checked = FALSE /\ secTimeout = 0
  /\ call = NULL /\ sock = Closed /\ requests = {}
  /\ host = 0 /\ result = NULL
  /\ grant = NULL /\ misled = FALSE /\ age = 0 /\ gap = 0

-----------------------------------------------------------------------------
(* The clock *)

\* Bug: the difference of two readings without regard to the overflow.
PlainSince(t) == clock - t

\* Unsigned difference of two readings of millis().
Since(t) == (clock - t) % WRAP

\* The difference as a signed number.
Signed(n) == IF n % WRAP < WRAP \div 2 THEN n % WRAP ELSE (n % WRAP) - WRAP

AgeBound == SECOND * (1 + CHOOSE m \in LeaseTimes : \A n \in LeaseTimes : n <= m)

\* Time passes between the calls, and in the delay(50) of parseDHCPResponse.
Tick ==
  /\ \/ Idle /\ gap < MaxGap /\ gap' = gap + 1
     \/ /\ ~Idle /\ call.pc = "parse" /\ sock.next = NULL
        /\ Since(call.parse) <= ResponseTimeout
        /\ UNCHANGED gap
  /\ clock' = (clock + 1) % WRAP
  /\ age' = IF state = "LEASED" /\ age < AgeBound THEN age + 1 ELSE age
  /\ UNCHANGED <<state, leaseVars, countVars, checkVars, call, sock, requests, hostVars, grant, misled>>

-----------------------------------------------------------------------------
(* A request starts and ends *)

\* The end of begin(mac), or of checkLease and maintain: "ok" configures the host.
Return(ok, rc, ip) ==
  /\ result' = rc
  /\ host' = IF ok THEN ip ELSE host
  /\ gap' = 0

\* request_DHCP_lease up to its loop.  why says who called it, and now is the
\* time checkLease has read.
Request(why, now) ==
  \E x \in Xids :
    /\ call' = [why |-> why, now |-> now, start |-> clock, parse |-> clock, pc |-> "loop",
                initial |-> x, xid |-> x]
    /\ sock' = [remote |-> 0, next |-> NULL]
    /\ result' = "NONE"
    /\ UNCHANGED <<host, gap, checked>>

\* begin(mac)
Begin ==
  /\ Idle
  /\ result = NULL
  /\ localIp' = 0 /\ serverIp' = 0 /\ leaseTime' = 0 /\ t1' = 0 /\ t2' = 0
  /\ state' = "START" /\ misled' = FALSE
  /\ \/ TRUE \in Sockets /\ Request("begin", 0)
     \/ /\ FALSE \in Sockets
        /\ Return(FALSE, "BEGIN_FAIL", 0)
        /\ UNCHANGED <<call, sock, checked>>
  /\ UNCHANGED <<clock, countVars, secTimeout, requests, grant, age>>

Failed(why) == [begin |-> "BEGIN_FAIL", renew |-> "RENEW_FAIL", rebind |-> "REBIND_FAIL"][why]
Succeeded(why) == [begin |-> "BEGIN_OK", renew |-> "RENEW_OK", rebind |-> "REBIND_OK"][why]

\* request_DHCP_lease returns, and with it the call; after a renewal checkLease
\* looks whether it is time to rebind (action Rebind).
Finish(ok) ==
  /\ sock' = Closed
  /\ requests' = {}
  /\ IF call.why = "renew" /\ state' \in {"LEASED", "START"} /\ rebindIn' <= 0
     THEN /\ call' = [call EXCEPT !.pc = "rebind"]
          /\ UNCHANGED <<hostVars, gap, checked>>
     ELSE /\ call' = NULL
          /\ Return(ok, IF ok THEN Succeeded(call.why) ELSE Failed(call.why), localIp')
          /\ checked' = IF call.why = "begin" THEN FALSE ELSE call.now # 0

\* The end of the loop's body: go on, or give up.
Continue(pc, xid, nextSock, nextRequests) ==
  IF Since(call.start) <= Timeout
  THEN /\ call' = [call EXCEPT !.pc = pc, !.xid = xid, !.parse = clock]
       /\ sock' = nextSock
       /\ requests' = nextRequests
       /\ UNCHANGED <<hostVars, gap, checked>>
  ELSE Finish(FALSE)

-----------------------------------------------------------------------------
(* Messages *)

Discover(xid) == [type |-> "DISCOVER", xid |-> xid, server |-> 0, ip |-> 0]
RequestFor(xid, server, ip) == [type |-> "REQUEST", xid |-> xid, server |-> server, ip |-> ip]

\* send_DHCP_MESSAGE: beginPacket unbinds the socket; what waits stays.  A message
\* that cannot be sent is like one that is lost.
SendMessage(message) ==
  Continue("parse", message.xid, [sock EXCEPT !.remote = BROADCAST], requests \cup {message})

Refusal(s, r) ==
  [type |-> "NAK", xid |-> r.xid, server |-> s, ip |-> 0, lease |-> 0, t1 |-> 0, t2 |-> 0]

Answers(type, s, r) ==
  [type : {type}, xid : {r.xid}, server : {s}, ip : {s},
   lease : LeaseTimes, t1 : T1Options, t2 : T2Options]

\* What a server may answer.  It grants and refuses only what was asked of it.
\* Refusals take no time, so they are bounded.
Replies(s, r) ==
  CASE r.type = "DISCOVER" -> Answers("OFFER", s, r)
    [] r.type = "REQUEST" /\ r.server = s ->
         (IF Cardinality(requests) <= RefusalBound THEN {Refusal(s, r)} ELSE {})
           \cup (IF r.ip = s THEN Answers("ACK", s, r) ELSE {})
    [] OTHER -> {}

\* A broadcast reply to another client.
Foreign(s) ==
  [type |-> "FOREIGN", xid |-> 0, server |-> s, ip |-> 0, lease |-> 0, t1 |-> 0, t2 |-> 0]

\* The datagrams that may come from a server, to this client or to another.
Arriving(s) == {Foreign(s)} \cup UNION {Replies(s, r) : r \in requests}

\* What the socket may have become after some ticks: as it was, or bound to the
\* sender of a datagram it took (Receive of UIPUdp), which waits if there was
\* memory for it.
Ticked(sk) ==
  {sk} \cup UNION {[remote : {s}, next : Arriving(s) \cup {NULL}] :
                   s \in {s \in Servers : sk.next = NULL /\ sk.remote \in {0, BROADCAST, s}}}

\* The ticks of a call that waits for a datagram, or begins one.
Deliver ==
  /\ ~Idle /\ call.pc \in {"loop", "parse"}
  /\ sock' \in Ticked(sock) \ {sock}
  /\ UNCHANGED <<clock, state, leaseVars, countVars, checkVars, call, requests, hostVars, history>>

-----------------------------------------------------------------------------
(* The loop of request_DHCP_lease *)

\* STATE_DHCP_START and STATE_DHCP_REREQUEST
SendFirst ==
  /\ ~Idle /\ call.pc = "loop"
  /\ UNCHANGED <<clock, leaseVars, countVars, secTimeout, grant, misled, age>>
  /\ \/ state = "START" /\ state' = "DISCOVER" /\ SendMessage(Discover(call.xid + 1))
     \/ /\ state = "REREQUEST" /\ state' = "REQUEST"
        /\ SendMessage(RequestFor(call.xid + 1, serverIp, localIp))

\* parseDHCPResponse returns 255: no reply in time.
NoResponse ==
  /\ ~Idle /\ call.pc = "parse" /\ sock.next = NULL
  /\ Since(call.parse) > ResponseTimeout
  /\ UNCHANGED <<clock, leaseVars, countVars, secTimeout, grant, misled, age>>
  /\ state' = "START"
  /\ Continue("loop", call.xid, sock, requests)

\* A reply to this client and to a message of this request.
Ours(m) == m.type # "FOREIGN" /\ m.xid \in call.initial .. call.xid

Given(option, old) == IF option # 0 THEN option ELSE old

\* Bug: the server identifier of every offer is taken.
ServerOfOffer(m, from) == IF serverIp = 0 \/ m.type = "OFFER" THEN m.server ELSE serverIp

\* The server identifier is kept, unless the server kept repeats it, as far as
\* remoteIP() tells: from is the address the socket is bound to by then.
ServerAfter(m, from) == IF serverIp \in {0, from} THEN m.server ELSE serverIp

\* parseDHCPResponse takes over what the reply says, whatever its type.
TakeOver(m, from) ==
  /\ localIp' = m.ip
  /\ serverIp' = ServerAfter(m, from)
  /\ misled' = (misled \/ (serverIp # 0 /\ serverIp = from /\ m.server # from))

Received == sock.next
Emptied == [sock EXCEPT !.next = NULL]

\* Bug: an offer counts as the acknowledgement.
AnyPositive(type) == type \in {"OFFER", "ACK"}

Acknowledges(type) == type = "ACK"

\* In each action below, atOption is the socket when the server identifier is read,
\* and after is the socket when the datagram has been flushed; every read() between
\* the two and before them runs tick().

\* An OFFER while one is expected: request it.  beginPacket runs tick() once more,
\* then unbinds the socket; what waits stays.
ParseOffer ==
  /\ ~Idle /\ call.pc = "parse" /\ Received # NULL /\ Ours(Received)
  /\ UNCHANGED <<clock, rebindIn, secTimeout, grant, age>>
  /\ state = "DISCOVER" /\ Received.type = "OFFER"
  /\ leaseTime' = Given(Received.lease, leaseTime)
  /\ t1' = Given(Received.t1, t1) /\ t2' = Given(Received.t2, t2)
  /\ renewIn' = Given(Received.lease, renewIn)
  /\ state' = "REQUEST"
  /\ \E atOption \in Ticked(Emptied) : \E after \in Ticked(atOption) :
       /\ TakeOver(Received, atOption.remote)
       /\ Continue("parse", Received.xid, [after EXCEPT !.remote = BROADCAST],
                   requests \cup {RequestFor(Received.xid, serverIp', localIp')})

\* An ACK while one is expected: the lease begins, and the socket is given up.
ParseAck ==
  /\ ~Idle /\ call.pc = "parse" /\ Received # NULL /\ Ours(Received)
  /\ state = "REQUEST" /\ Acknowledges(Received.type)
  /\ \E atOption \in Ticked(Emptied) : TakeOver(Received, atOption.remote)
  /\ leaseTime' = Given(Given(Received.lease, leaseTime), DEFAULT_LEASE)
  /\ t1' = Given(Given(Received.t1, t1), leaseTime' \div 2)
  /\ t2' = Given(Given(Received.t2, t2), 2 * t1')
  /\ renewIn' = t1' /\ rebindIn' = t2'
  /\ state' = "LEASED"
  /\ grant' = IF Received.type = "ACK" THEN Received.server ELSE grant
  /\ age' = 0
  /\ Finish(TRUE)
  /\ UNCHANGED <<clock, secTimeout>>

\* Any other reply to this client; a NAK to a request starts over.
ParseOther ==
  /\ ~Idle /\ call.pc = "parse" /\ Received # NULL /\ Ours(Received)
  /\ UNCHANGED <<clock, rebindIn, secTimeout, grant, age>>
  /\ ~(state = "DISCOVER" /\ Received.type = "OFFER")
  /\ ~(state = "REQUEST" /\ Acknowledges(Received.type))
  /\ leaseTime' = Given(Received.lease, leaseTime)
  /\ t1' = Given(Received.t1, t1) /\ t2' = Given(Received.t2, t2)
  /\ renewIn' = Given(Received.lease, renewIn)
  /\ state' = IF state = "REQUEST" /\ Received.type = "NAK" THEN "START" ELSE state
  /\ \E atOption \in Ticked(Emptied) : \E after \in Ticked(atOption) :
       /\ TakeOver(Received, atOption.remote)
       /\ Continue(IF state' = "START" THEN "loop" ELSE "parse", call.xid, after, requests)

\* What is no reply to this client is flushed.
Ignore ==
  /\ ~Idle /\ call.pc = "parse" /\ Received # NULL /\ ~Ours(Received)
  /\ UNCHANGED <<clock, leaseVars, countVars, state, secTimeout, grant, misled, age>>
  /\ \E after \in Ticked(Emptied) : Continue("parse", call.xid, after, requests)

-----------------------------------------------------------------------------
(* checkLease, as maintain() calls it *)

\* The seconds that have begun since the last timeout.
SecondsLate(factor) == (factor \div SECOND) + 1

\* Bug: a counter runs below zero.
ReducedPlain(n, late) == n - late

\* Early rather than late: to 0 when the next call may be too late.
Reduced(n, late) == IF n < late * 2 THEN 0 ELSE n - late

\* Bug: the next second begins with the call, however late it is.
CountdownDrifting(factor) ==
  IF factor < 0 THEN UNCHANGED <<countVars, secTimeout>>
  ELSE /\ secTimeout' = (clock + SECOND) % WRAP
       /\ renewIn' = Reduced(renewIn, SecondsLate(factor))
       /\ rebindIn' = Reduced(rebindIn, SecondsLate(factor))

\* The seconds to take from the counters, and the next timeout.
Countdown(factor) ==
  IF factor < 0 THEN UNCHANGED <<countVars, secTimeout>>
  ELSE /\ secTimeout' = (clock + SECOND - (factor % SECOND)) % WRAP
       /\ renewIn' = Reduced(renewIn, SecondsLate(factor))
       /\ rebindIn' = Reduced(rebindIn, SecondsLate(factor))

\* Rebinding: forget the lease and ask anyone.
Rebinding(now) ==
  /\ state' = "START" /\ misled' = FALSE
  /\ localIp' = 0 /\ serverIp' = 0
  /\ \/ TRUE \in Sockets /\ Request("rebind", now)
     \/ /\ FALSE \in Sockets
        /\ call' = NULL /\ sock' = Closed
        /\ Return(FALSE, "REBIND_FAIL", 0)
        /\ checked' = (now # 0)
  /\ UNCHANGED <<leaseTime, t1, t2>>

\* The first call only sets the timeout; so does one after a call at time 0.
FirstCheck ==
  /\ ~checked
  /\ secTimeout' = (clock + SECOND) % WRAP
  /\ checked' = (clock # 0)
  /\ Return(FALSE, "NONE", 0)
  /\ UNCHANGED <<state, leaseVars, countVars, call, sock, misled>>

Check ==
  /\ checked
  /\ Countdown(Signed(clock - secTimeout))
  /\ \/ /\ state = "LEASED" /\ renewIn' <= 0
        /\ state' = "REREQUEST"
        /\ \/ TRUE \in Sockets /\ Request("renew", clock)
           \/ /\ FALSE \in Sockets
              /\ Return(FALSE, "RENEW_FAIL", 0)
              /\ checked' = (clock # 0)
              /\ UNCHANGED <<call, sock>>
        /\ UNCHANGED <<leaseVars, misled>>
     \/ /\ state = "START" \/ (state = "LEASED" /\ renewIn' > 0)
        /\ rebindIn' <= 0
        /\ Rebinding(clock)
     \/ /\ state = "LEASED" => renewIn' > 0
        /\ state \in {"LEASED", "START"} => rebindIn' > 0
        /\ Return(FALSE, "NONE", 0)
        /\ checked' = (clock # 0)
        /\ UNCHANGED <<state, leaseVars, call, sock, misled>>

Maintain ==
  /\ Idle /\ result # NULL
  /\ FirstCheck \/ Check
  /\ age' = IF state' = "LEASED" THEN age ELSE 0
  /\ UNCHANGED <<clock, requests, grant>>

\* checkLease goes on after a renewal.
Rebind ==
  /\ ~Idle /\ call.pc = "rebind"
  /\ Rebinding(call.now)
  /\ UNCHANGED <<clock, countVars, secTimeout, requests, grant, age>>

-----------------------------------------------------------------------------

Next ==
  \/ Tick \/ Begin \/ Maintain \/ Rebind
  \/ SendFirst \/ NoResponse \/ ParseOffer \/ ParseAck \/ ParseOther \/ Ignore
  \/ Deliver

Spec == Init /\ [][Next]_vars
-----------------------------------------------------------------------------
(* Properties *)

States == {"START", "DISCOVER", "REQUEST", "LEASED", "REREQUEST"}
Addresses == Servers \cup {0}

\* Every variable has its type.
TypeOK ==
  /\ clock \in 0 .. WRAP - 1 /\ secTimeout \in 0 .. WRAP - 1 /\ checked \in BOOLEAN
  /\ state \in States
  /\ localIp \in Addresses /\ serverIp \in Addresses /\ host \in Addresses
  /\ {leaseTime, t1, t2, renewIn, rebindIn} \subseteq Nat
  /\ Idle => sock = Closed /\ requests = {}
  /\ grant \in Servers \cup {NULL} /\ misled \in BOOLEAN
  /\ age \in 0 .. AgeBound /\ gap \in 0 .. MaxGap

\* Through lost, repeated and reordered replies of several servers, a lease the
\* client believes in is one that a server has granted and not only offered, for
\* the address that the host has (Dhcp.cpp:84-110, 280).
LeaseIsGranted ==
  state = "LEASED" => grant # NULL /\ localIp = grant /\ (Idle => host = localIp)

\* The next renewal asks the server that granted the lease, unless remoteIP() has
\* once passed off another server's reply as its own (Dhcp.cpp:328-343).
RenewalAsksGranter == state = "LEASED" /\ ~misled => serverIp = grant

\* While maintain() is called often enough, renewal begins before the lease has
\* ended, across the overflow of millis() (Dhcp.cpp:391-442).
RenewalBeforeExpiry == state = "LEASED" => age <= leaseTime * SECOND

\* A call gives up soon after its timeout, whatever arrives (Dhcp.cpp:57-120, 258-265).
CallBounded == ~Idle => (clock - call.start) % WRAP <= Timeout + ResponseTimeout + 1

\* "this is actually a error, it will retry though" (UIPEthernet.cpp:126): after a
\* failed renewal or rebinding a later maintain() tries again.
WillRetry ==
  Idle /\ result \in {"RENEW_FAIL", "REBIND_FAIL"} => state \in {"LEASED", "START"}
=============================================================================
