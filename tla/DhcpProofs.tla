----------------------------- MODULE DhcpProofs -----------------------------
(***************************************************************************)
(* The invariants of Dhcp for any servers, lease times and clock, and that *)
(* renewal is in time, for servers and sketches that let it be.            *)
(***************************************************************************)
EXTENDS Dhcp, TLAPS

Messages == [type : {"OFFER", "ACK", "NAK", "FOREIGN"}, xid : Nat, server : Servers, ip : Addresses,
             lease : Nat, t1 : Nat, t2 : Nat]
Asked == [type : {"DISCOVER", "REQUEST"}, xid : Nat, server : Addresses, ip : Addresses]
Bindings == [remote : Addresses \cup {BROADCAST, NULL}, next : Messages \cup {NULL}]

\* No message is sent and none is taken.
Resting == Idle \/ call.pc = "rebind"

\* The types of what the client knows of its lease.
LeaseTypes ==
  /\ secTimeout \in 0 .. WRAP - 1
  /\ state \in States /\ localIp \in Addresses /\ serverIp \in Addresses
  /\ leaseTime \in Nat /\ t1 \in Nat /\ t2 \in Nat /\ renewIn \in Nat /\ rebindIn \in Nat
  /\ grant \in Servers \cup {NULL} /\ misled \in BOOLEAN /\ age \in 0 .. AgeBound

Types ==
  /\ LeaseTypes
  /\ clock \in 0 .. WRAP - 1
  /\ checked \in BOOLEAN /\ host \in Addresses /\ gap \in 0 .. MaxGap
  /\ call \in Calls \cup {NULL} /\ sock \in Bindings /\ requests \subseteq Asked

\* Nothing outlives a request.
Quiet == Resting => sock = Closed /\ requests = {}

\* Only the server whose identifier the client keeps acknowledges, unless the client
\* was misled, and with the address that is its own.
Sound(m) ==
  m.type = "ACK" => m.ip = m.server /\ (~misled => m.server = serverIp /\ serverIp \in Servers)

\* All requests of one call go to the server whose identifier the client keeps,
\* unless it was misled.
OneServer ==
  /\ ~misled => \A r \in requests : r.type = "REQUEST" => r.server = serverIp /\ serverIp \in Servers
  /\ sock.next # NULL => Sound(sock.next)

\* A lease comes from the server the next renewal asks, unless the client was misled.
Granted ==
  /\ state = "LEASED" =>
       /\ Resting
       /\ grant \in Servers /\ localIp = grant /\ serverIp \in Servers
       /\ ~misled => grant = serverIp
       /\ Idle => host = localIp
  /\ state = "REREQUEST" => serverIp \in Servers

\* How long a call lasts, and the present wait for a reply.
Bounded ==
  ~Idle =>
    /\ Since(call.start) <= Timeout + ResponseTimeout + 1
    /\ call.pc = "loop" => Since(call.start) <= Timeout
    /\ call.pc = "parse" => /\ Since(call.parse) <= ResponseTimeout + 1
                            /\ Since(call.start) <= Timeout + Since(call.parse)

IInv == Types /\ Quiet /\ OneServer /\ Granted /\ Bounded

-----------------------------------------------------------------------------
(* Arithmetic of the clock *)

\* A remainder lies below its divisor.
LEMMA ModRange ==
  ASSUME NEW a \in Int, NEW n \in Nat \ {0}
  PROVE  a % n \in 0 .. n - 1
OBVIOUS

\* The difference of two readings of millis(), whether it has overflowed between
\* them or not (Dhcp.cpp:110, 259).
LEMMA Elapsed ==
  ASSUME NEW c \in 0 .. WRAP - 1, NEW t \in 0 .. WRAP - 1
  PROVE  (c - t) % WRAP = IF c >= t THEN c - t ELSE c - t + WRAP
BY DhcpAssumption

\* One unit later.
LEMMA ElapsedNext ==
  ASSUME NEW c \in 0 .. WRAP - 1, NEW t \in 0 .. WRAP - 1, (c - t) % WRAP < WRAP - 1
  PROVE  /\ (c + 1) % WRAP \in 0 .. WRAP - 1
         /\ (((c + 1) % WRAP) - t) % WRAP = ((c - t) % WRAP) + 1
<1>1. (c + 1) % WRAP = IF c = WRAP - 1 THEN 0 ELSE c + 1
  BY DhcpAssumption
<1>2. (c + 1) % WRAP \in 0 .. WRAP - 1
  BY <1>1, DhcpAssumption
<1>3. (c - t) % WRAP = IF c >= t THEN c - t ELSE c - t + WRAP
  BY Elapsed
<1>4. (((c + 1) % WRAP) - t) % WRAP =
        IF (c + 1) % WRAP >= t THEN ((c + 1) % WRAP) - t ELSE ((c + 1) % WRAP) - t + WRAP
  BY <1>2, Elapsed
<1> QED BY <1>1, <1>2, <1>3, <1>4, DhcpAssumption

\* A difference of clocks is a number, and small ones are themselves.
LEMMA SignedType ==
  ASSUME NEW c \in 0 .. WRAP - 1, NEW t \in 0 .. WRAP - 1
  PROVE  /\ Signed(c - t) \in Int
         /\ Signed(c - t) = LET d == IF c >= t THEN c - t ELSE c - t + WRAP
                            IN IF d < WRAP \div 2 THEN d ELSE d - WRAP
<1>1. (c - t) % WRAP = IF c >= t THEN c - t ELSE c - t + WRAP
  BY Elapsed
<1>2. WRAP \in Nat /\ WRAP \div 2 \in Nat
  BY DhcpAssumption
<1> QED BY <1>1, <1>2 DEF Signed

\* One unit later.
LEMMA SignedNext ==
  ASSUME NEW c \in 0 .. WRAP - 1, NEW t \in 0 .. WRAP - 1, Signed(c - t) + 1 < WRAP \div 2
  PROVE  Signed(((c + 1) % WRAP) - t) = Signed(c - t) + 1
<1>1. (c + 1) % WRAP = IF c = WRAP - 1 THEN 0 ELSE c + 1
  BY DhcpAssumption
<1>2. (c + 1) % WRAP \in 0 .. WRAP - 1
  BY <1>1, DhcpAssumption
<1>3. WRAP \in Nat \ {0} /\ WRAP \div 2 \in Nat /\ WRAP \div 2 <= WRAP
  BY DhcpAssumption
<1> DEFINE n == (c + 1) % WRAP
           W2 == WRAP \div 2
<1>4. Signed(c - t) = IF (IF c >= t THEN c - t ELSE c - t + WRAP) < W2
                      THEN (IF c >= t THEN c - t ELSE c - t + WRAP)
                      ELSE (IF c >= t THEN c - t ELSE c - t + WRAP) - WRAP
  BY SignedType
<1>5. Signed(n - t) = IF (IF n >= t THEN n - t ELSE n - t + WRAP) < W2
                      THEN (IF n >= t THEN n - t ELSE n - t + WRAP)
                      ELSE (IF n >= t THEN n - t ELSE n - t + WRAP) - WRAP
  BY <1>2, SignedType
<1>6. n = (IF c = WRAP - 1 THEN 0 ELSE c + 1) /\ W2 \in Nat /\ W2 <= WRAP /\ Signed(c - t) + 1 < W2
  BY <1>1, <1>3
<1> HIDE DEF n, W2
<1> QED BY <1>3, <1>4, <1>5, <1>6 DEF n

\* A timeout within the next second.
LEMMA SignedAhead ==
  ASSUME NEW c \in 0 .. WRAP - 1, NEW e \in 1 .. SECOND
  PROVE  (c + e) % WRAP \in 0 .. WRAP - 1 /\ Signed(c - ((c + e) % WRAP)) = -e
<1>1. SECOND \in Nat \ {0} /\ WRAP \in Nat \ {0} /\ WRAP \div 2 \in Nat /\ SECOND <= WRAP \div 2
  BY DhcpAssumption
<1>2. 2 * (WRAP \div 2) <= WRAP
  BY <1>1
<1>3. (c + e) % WRAP = IF c + e < WRAP THEN c + e ELSE c + e - WRAP
  BY <1>1, <1>2
<1>4. (c + e) % WRAP \in 0 .. WRAP - 1
  BY <1>1, <1>2, <1>3
<1> DEFINE t == (c + e) % WRAP
           W2 == WRAP \div 2
<1>5. Signed(c - t) = IF (IF c >= t THEN c - t ELSE c - t + WRAP) < W2
                      THEN (IF c >= t THEN c - t ELSE c - t + WRAP)
                      ELSE (IF c >= t THEN c - t ELSE c - t + WRAP) - WRAP
  BY <1>4, SignedType
<1>6. t = (IF c + e < WRAP THEN c + e ELSE c + e - WRAP) /\ W2 \in Nat /\ SECOND <= W2 /\ 2 * W2 <= WRAP
  BY <1>1, <1>2, <1>3
<1> HIDE DEF t, W2
<1>7. Signed(c - t) = -e
  BY <1>1, <1>5, <1>6
<1> QED BY <1>4, <1>7 DEF t

\* Whole units and the rest.
LEMMA Quotient ==
  ASSUME NEW n \in Nat, NEW d \in Nat \ {0}
  PROVE  n \div d \in Nat /\ n = d * (n \div d) + (n % d)
OBVIOUS

\* Whole seconds and the rest.
LEMMA Seconds ==
  ASSUME NEW n \in Nat
  PROVE  \E q \in Nat, r \in 0 .. SECOND - 1 :
           n \div SECOND = q /\ n % SECOND = r /\ n = SECOND * q + r
<1>1. SECOND \in Nat \ {0}
  BY DhcpAssumption
<1>2. n % SECOND \in 0 .. SECOND - 1
  BY <1>1, ModRange
<1>3. n \div SECOND \in Nat /\ n = SECOND * (n \div SECOND) + (n % SECOND)
  BY <1>1, Quotient
<1> QED BY <1>2, <1>3

\* Seconds in units.
LEMMA Products ==
  ASSUME NEW a \in Int, NEW b \in Int
  PROVE  /\ SECOND * a \in Int /\ SECOND * (a - b) = SECOND * a - SECOND * b
         /\ SECOND * (a + b) = SECOND * a + SECOND * b
         /\ a <= b => SECOND * a <= SECOND * b
BY DhcpAssumption

\* The history of a lease's age has a bound.
LEMMA AgeBoundType == AgeBound \in Nat
<1> DEFINE m == CHOOSE m \in LeaseTimes : \A n \in LeaseTimes : n <= m
<1>1. m \in LeaseTimes /\ SECOND \in Nat /\ LeaseTimes \subseteq Nat
  BY DhcpAssumption
<1> HIDE DEF m
<1>2. SECOND * (1 + m) \in Nat
  BY <1>1
<1> QED BY <1>2 DEF AgeBound, m

-----------------------------------------------------------------------------

\* Initially nothing is known and no call is made.
LEMMA InitInvariant == Init => IInv
<1> SUFFICES ASSUME Init PROVE IInv
  OBVIOUS
<1>1. 0 \in 0 .. WRAP - 1 /\ 0 \in 0 .. AgeBound /\ 0 \in 0 .. MaxGap
  BY AgeBoundType, DhcpAssumption
<1> QED BY <1>1, DhcpAssumption DEF Init, IInv, Types, LeaseTypes, Addresses, States, Bindings, Closed,
        Quiet, OneServer, Granted, Bounded, Idle

\* A call ends, or goes on to rebind: nothing of the request remains.
LEMMA FinishInvariant ==
  ASSUME IInv, ~Idle, call.pc \in {"loop", "parse"}, NEW ok \in BOOLEAN, Finish(ok),
         LeaseTypes', clock' = clock,
         state' = "LEASED" => /\ ok /\ grant' \in Servers /\ localIp' = grant' /\ serverIp' \in Servers
                              /\ ~misled' => grant' = serverIp',
         state' = "REREQUEST" => serverIp' \in Servers
  PROVE  IInv'
<1>1. call \in Calls /\ sock' = Closed /\ requests' = {}
  BY DEF IInv, Types, Idle, Finish
<1>2. Closed \in Bindings
  BY DEF Closed, Bindings
<1>3. Since(call.start) <= Timeout + ResponseTimeout + 1
  BY DEF IInv, Bounded
<1>4. CASE call' = [call EXCEPT !.pc = "rebind"] /\ UNCHANGED <<hostVars, gap, checked>>
  <2>1. call' \in Calls /\ call'.pc = "rebind" /\ call'.start = call.start
    BY <1>1, <1>4 DEF Calls
  <2>2. Types'
    BY <1>1, <1>2, <1>4, <2>1 DEF IInv, Types, hostVars
  <2>3. ~Idle'
    BY <2>1, DhcpAssumption DEF Idle
  <2>4. Bounded'
    BY <1>3, <2>1 DEF Bounded, Since
  <2> QED BY <1>1, <2>1, <2>2, <2>3, <2>4 DEF IInv, Quiet, OneServer, Granted, Resting, Closed
<1>5. CASE /\ call' = NULL
           /\ Return(ok, IF ok THEN Succeeded(call.why) ELSE Failed(call.why), localIp')
           /\ checked' = IF call.why = "begin" THEN FALSE ELSE call.now # 0
  <2>1. host' = (IF ok THEN localIp' ELSE host) /\ gap' = 0 /\ gap' \in 0 .. MaxGap
    BY <1>5, DhcpAssumption DEF Return
  <2>2. host' \in Addresses /\ checked' \in BOOLEAN
    BY <1>5, <2>1 DEF IInv, Types, LeaseTypes
  <2>3. Types'
    BY <1>1, <1>2, <1>5, <2>1, <2>2 DEF IInv, Types
  <2> QED BY <1>1, <1>5, <2>1, <2>3 DEF IInv, Quiet, OneServer, Granted, Bounded, Resting, Idle, Closed
<1> QED BY <1>4, <1>5 DEF Finish

\* The loop goes on within the timeout, or gives up.
LEMMA ContinueInvariant ==
  ASSUME IInv, ~Idle, call.pc \in {"loop", "parse"},
         NEW pc \in {"loop", "parse"}, NEW xid \in Nat, NEW nextSock \in Bindings,
         NEW nextRequests \in SUBSET Asked, Continue(pc, xid, nextSock, nextRequests),
         LeaseTypes', clock' = clock,
         state' # "LEASED", state' = "REREQUEST" => serverIp' \in Servers,
         ~misled' => \A r \in nextRequests :
                       r.type = "REQUEST" => r.server = serverIp' /\ serverIp' \in Servers,
         nextSock.next # NULL /\ nextSock.next.type = "ACK" =>
           /\ nextSock.next.ip = nextSock.next.server
           /\ ~misled' => nextSock.next.server = serverIp' /\ serverIp' \in Servers
  PROVE  IInv'
<1>1. call \in Calls
  BY DEF IInv, Types, Idle
<1>2. CASE Finish(FALSE)
  BY <1>2, FinishInvariant
<1>3. CASE /\ Since(call.start) <= Timeout
           /\ call' = [call EXCEPT !.pc = pc, !.xid = xid, !.parse = clock]
           /\ sock' = nextSock
           /\ requests' = nextRequests
           /\ UNCHANGED <<hostVars, gap, checked>>
  <2>1. /\ call' \in Calls /\ call'.pc = pc /\ call'.start = call.start /\ call'.parse = clock
        /\ clock \in 0 .. WRAP - 1
    BY <1>1, <1>3 DEF Calls, IInv, Types
  <2>2. Types'
    BY <1>3, <2>1 DEF IInv, Types, hostVars
  <2>3. ~Idle' /\ ~Resting'
    BY <2>1, DhcpAssumption DEF Idle, Resting
  <2>4. Since(call.parse)' = 0 /\ Since(call.start)' = Since(call.start)
    BY <2>1, Elapsed DEF Since
  <2>5. Bounded'
    <3>1. Timeout \in Nat /\ ResponseTimeout \in Nat /\ Since(call.start) \in Int
      BY <1>1, <2>1, DhcpAssumption, ModRange DEF Since, Calls
    <3>2. Since(call.start)' <= Timeout /\ Since(call.parse)' = 0
      BY <1>3, <2>4
    <3>3. Since(call.start)' <= Timeout + ResponseTimeout + 1 /\ 0 <= ResponseTimeout + 1
          /\ Since(call.start)' <= Timeout + 0
      BY <2>4, <3>1, <3>2
    <3> QED BY <3>2, <3>3 DEF Bounded
  <2> QED BY <1>3, <2>2, <2>3, <2>5 DEF IInv, Quiet, OneServer, Sound, Granted
<1> QED BY <1>2, <1>3 DEF Continue

\* A request begins with a socket bound to nobody.
LEMMA RequestInvariant ==
  ASSUME IInv, Resting, NEW why \in {"begin", "renew", "rebind"}, NEW now \in 0 .. WRAP - 1,
         Request(why, now), LeaseTypes', UNCHANGED <<clock, requests>>,
         state' # "LEASED", state' = "REREQUEST" => serverIp' \in Servers
  PROVE  IInv'
<1>1. PICK x \in Xids :
        call' = [why |-> why, now |-> now, start |-> clock, parse |-> clock, pc |-> "loop",
                 initial |-> x, xid |-> x]
  BY DEF Request
<1>2. sock' = [remote |-> 0, next |-> NULL] /\ UNCHANGED <<host, gap, checked>> /\ requests' = {}
  BY DEF Request, IInv, Quiet
<1>3. x \in Nat /\ clock \in 0 .. WRAP - 1 /\ clock' = clock
  BY DhcpAssumption DEF IInv, Types
<1>4. call' \in Calls /\ call'.pc = "loop" /\ call'.start = clock
  BY <1>1, <1>3 DEF Calls
<1>5. Types'
  BY <1>2, <1>3, <1>4 DEF IInv, Types, Bindings, Addresses
<1>6. Since(call.start)' = 0
  BY <1>3, <1>4, Elapsed DEF Since
<1>7. Bounded'
  BY <1>4, <1>6, DhcpAssumption DEF Bounded
<1>8. ~Resting'
  BY <1>4, DhcpAssumption DEF Resting, Idle
<1> QED BY <1>2, <1>5, <1>7, <1>8 DEF IInv, Quiet, OneServer, Granted

\* A call that makes no request returns at once.
LEMMA ReturnInvariant ==
  ASSUME IInv, NEW rc, Return(FALSE, rc, 0), call' = NULL, sock' = Closed, requests' = {},
         LeaseTypes', clock' = clock, checked' \in BOOLEAN,
         state' = "LEASED" =>
           /\ grant' \in Servers /\ localIp' = grant' /\ serverIp' \in Servers /\ host = localIp'
           /\ ~misled' => grant' = serverIp',
         state' = "REREQUEST" => serverIp' \in Servers
  PROVE  IInv'
<1>1. host' = host /\ gap' \in 0 .. MaxGap
  BY DhcpAssumption DEF Return
<1>2. Types'
  BY <1>1 DEF IInv, Types, Closed, Bindings
<1> QED BY <1>1, <1>2 DEF IInv, Quiet, OneServer, Granted, Bounded, Resting, Idle, Closed
-----------------------------------------------------------------------------
(* The steps *)

\* Time passes between the calls, and in the wait for a reply.
LEMMA TickInvariant ==
  ASSUME IInv, Tick
  PROVE  IInv'
<1>1. /\ clock' = (clock + 1) % WRAP /\ clock \in 0 .. WRAP - 1
      /\ age' = IF state = "LEASED" /\ age < AgeBound THEN age + 1 ELSE age
      /\ UNCHANGED <<state, leaseVars, countVars, checkVars, call, sock, requests, hostVars, grant, misled>>
      /\ gap' = gap \/ (gap < MaxGap /\ gap' = gap + 1)
  BY DEF Tick, IInv, Types
<1>2. clock' \in 0 .. WRAP - 1
  BY <1>1, ModRange, DhcpAssumption
<1>3. age' \in 0 .. AgeBound /\ gap' \in 0 .. MaxGap
  BY <1>1, AgeBoundType, DhcpAssumption DEF IInv, Types, LeaseTypes
<1>4. Types'
  BY <1>1, <1>2, <1>3 DEF IInv, Types, LeaseTypes, leaseVars, countVars, checkVars, hostVars
<1>5. Quiet' /\ OneServer' /\ Granted'
  BY <1>1 DEF IInv, Quiet, OneServer, Sound, Granted, Resting, Idle, leaseVars, hostVars
<1>6. Bounded'
  <2>1. CASE Idle
    BY <1>1, <2>1 DEF Bounded, Idle
  <2>2. CASE ~Idle /\ call.pc = "parse" /\ Since(call.parse) <= ResponseTimeout
    <3>1. call \in Calls /\ call.start \in 0 .. WRAP - 1 /\ call.parse \in 0 .. WRAP - 1
      BY <2>2 DEF IInv, Types, Idle, Calls
    <3>2. Since(call.start) <= Timeout + Since(call.parse)
      BY <2>2 DEF IInv, Bounded
    <3>3. /\ Timeout \in Nat /\ ResponseTimeout \in Nat /\ WRAP \in Nat
          /\ Timeout + ResponseTimeout < WRAP - 1 /\ ResponseTimeout < WRAP - 1
      BY DhcpAssumption
    <3>4. Since(call.start) \in Int /\ Since(call.parse) \in Int
      <4>1. clock - call.start \in Int /\ clock - call.parse \in Int /\ WRAP \in Nat \ {0}
        BY <1>1, <3>1, DhcpAssumption
      <4> QED BY <4>1, ModRange DEF Since
    <3>5. Since(call.start) < WRAP - 1 /\ Since(call.parse) < WRAP - 1
      BY <2>2, <3>2, <3>3, <3>4
    <3>6. call' = call /\ Since(call.start)' = Since(call.start) + 1 /\ Since(call.parse)' = Since(call.parse) + 1
      BY <1>1, <3>1, <3>5, ElapsedNext DEF Since
    <3>7. /\ Since(call.parse)' <= ResponseTimeout + 1
          /\ Since(call.start)' <= Timeout + Since(call.parse)'
          /\ Since(call.start)' <= Timeout + ResponseTimeout + 1
      BY <2>2, <3>2, <3>3, <3>4, <3>6
    <3> QED BY <2>2, <3>6, <3>7 DEF Bounded
  <2> QED BY <2>1, <2>2 DEF Tick
<1> QED BY <1>4, <1>5, <1>6 DEF IInv

\* What comes from a server answers a request that was made.
LEMMA ArrivingSound ==
  ASSUME IInv, NEW s \in Servers, NEW m \in Arriving(s)
  PROVE  m \in Messages /\ m.server = s /\ Sound(m)
<1>1. CASE m = Foreign(s)
  BY <1>1 DEF Foreign, Messages, Addresses, Sound
<1>2. ASSUME NEW r \in requests, m \in Replies(s, r)
      PROVE  m \in Messages /\ m.server = s /\ Sound(m)
  <2>1. r \in Asked /\ r.xid \in Nat
    BY DEF IInv, Types, Asked
  <2>2. CASE m \in Answers("OFFER", s, r)
    BY <2>1, <2>2, DhcpAssumption DEF Answers, Messages, Addresses, Sound
  <2>3. CASE m = Refusal(s, r)
    BY <2>1, <2>3 DEF Refusal, Messages, Addresses, Sound
  <2>4. CASE r.type = "REQUEST" /\ r.server = s /\ m \in Answers("ACK", s, r)
    <3>1. ~misled => s = serverIp
      BY <2>4 DEF IInv, OneServer
    <3>2. m \in Messages /\ m.server = s /\ m.ip = s
      BY <2>1, <2>4, DhcpAssumption DEF Answers, Messages, Addresses
    <3> QED BY <3>1, <3>2 DEF Sound
  <2>5. CASE r.type = "DISCOVER"
    BY <1>2, <2>2, <2>5 DEF Replies
  <2>6. CASE r.type = "REQUEST"
    BY <1>2, <2>3, <2>4, <2>6 DEF Replies
  <2> QED BY <2>1, <2>5, <2>6 DEF Asked
<1> QED BY <1>1, <1>2 DEF Arriving

\* After a tick the socket is as it was, or has taken a datagram.
LEMMA TickedSound ==
  ASSUME IInv, NEW sk \in Bindings, sk.next # NULL => Sound(sk.next), NEW x \in Ticked(sk)
  PROVE  x \in Bindings /\ (x.next # NULL => Sound(x.next))
<1>1. CASE x = sk
  BY <1>1
<1>2. ASSUME NEW s \in Servers, x \in [remote : {s}, next : Arriving(s) \cup {NULL}]
      PROVE  x \in Bindings /\ (x.next # NULL => Sound(x.next))
  <2>1. x = [remote |-> s, next |-> x.next] /\ x.next \in Arriving(s) \cup {NULL}
    BY <1>2
  <2>2. x.next # NULL => x.next \in Messages /\ Sound(x.next)
    BY <2>1, ArrivingSound
  <2>3. x.next \in Messages \cup {NULL} /\ s \in Addresses \cup {BROADCAST, NULL}
    BY <2>1, <2>2 DEF Addresses
  <2> QED BY <2>1, <2>2, <2>3 DEF Bindings
<1> QED BY <1>1, <1>2 DEF Ticked

\* What a reply takes over leaves the server identifier as it was, if there was one,
\* or the client is misled from then on.
LEMMA ServerKept ==
  ASSUME IInv, sock.next # NULL, NEW from, TakeOver(sock.next, from)
  PROVE  /\ sock.next \in Messages /\ Sound(sock.next)
         /\ localIp' = sock.next.ip /\ localIp' \in Addresses
         /\ serverIp' \in Servers /\ misled' \in BOOLEAN
         /\ ~misled' => ~misled /\ (serverIp \in Servers => serverIp' = serverIp)
<1> DEFINE m == sock.next
<1>1. m \in Messages /\ m.server \in Servers /\ m.ip \in Addresses
  BY DEF IInv, Types, Bindings, Messages
<1>2. serverIp \in Servers \cup {0} /\ misled \in BOOLEAN /\ 0 \notin Servers
  BY DhcpAssumption DEF IInv, Types, LeaseTypes, Addresses
<1>3. /\ localIp' = m.ip
      /\ serverIp' = IF serverIp \in {0, from} THEN m.server ELSE serverIp
      /\ misled' = (misled \/ (serverIp # 0 /\ serverIp = from /\ m.server # from))
  BY DEF TakeOver, ServerAfter
<1>4. Sound(m)
  BY DEF IInv, OneServer
<1>5. serverIp' \in Servers
  BY <1>1, <1>2, <1>3
<1>6. misled' \in BOOLEAN
  BY <1>3
<1>7. ASSUME ~misled' PROVE ~misled /\ (serverIp \in Servers => serverIp' = serverIp)
  BY <1>1, <1>2, <1>3, <1>7
<1> QED BY <1>1, <1>3, <1>4, <1>5, <1>6, <1>7

\* What the ticks of a pass have left in the socket can be taken when it ends.
LEMMA StillSound ==
  ASSUME NEW m, Sound(m), ~misled' => ~misled /\ (serverIp \in Servers => serverIp' = serverIp)
  PROVE  m.type = "ACK" => /\ m.ip = m.server
                           /\ ~misled' => m.server = serverIp' /\ serverIp' \in Servers
BY DEF Sound

\* A datagram comes in while the client waits or begins a message.
LEMMA DeliverInvariant ==
  ASSUME IInv, Deliver
  PROVE  IInv'
<1>1. /\ sock' \in Ticked(sock) /\ ~Resting
      /\ UNCHANGED <<clock, state, leaseVars, countVars, checkVars, call, requests, hostVars, history>>
  BY DEF Deliver, Resting
<1>2. sock \in Bindings /\ (sock.next # NULL => Sound(sock.next))
  BY DEF IInv, Types, OneServer
<1>3. sock' \in Bindings /\ (sock'.next # NULL => Sound(sock'.next))
  BY <1>1, <1>2, TickedSound
<1>4. Types'
  BY <1>1, <1>3 DEF IInv, Types, LeaseTypes, leaseVars, countVars, checkVars, hostVars, history
<1>5. OneServer'
  BY <1>1, <1>3 DEF IInv, OneServer, Sound, leaseVars, history
<1>6. Quiet' /\ Granted' /\ Bounded'
  BY <1>1 DEF IInv, Quiet, Granted, Bounded, Resting, Idle, Since, leaseVars, hostVars, history
<1> QED BY <1>4, <1>5, <1>6 DEF IInv

\* A first message, with the address and the server of the lease to renew or without.
LEMMA SendFirstInvariant ==
  ASSUME IInv, SendFirst
  PROVE  IInv'
<1>1. /\ ~Idle /\ call.pc = "loop" /\ clock' = clock
      /\ UNCHANGED <<clock, leaseVars, countVars, secTimeout, grant, misled, age>>
  BY DEF SendFirst
<1>2. call \in Calls /\ call.xid + 1 \in Nat
  BY <1>1 DEF IInv, Types, Idle, Calls
<1> DEFINE bound == [sock EXCEPT !.remote = BROADCAST]
<1>3. bound \in Bindings /\ bound.next = sock.next /\ bound.remote = BROADCAST
  BY DEF IInv, Types, Bindings
<1>4. ASSUME state' \in {"DISCOVER", "REQUEST"} PROVE LeaseTypes'
  BY <1>1, <1>4 DEF IInv, Types, LeaseTypes, leaseVars, countVars, States
<1>5. ASSUME NEW m \in Asked, m.xid = call.xid + 1, SendMessage(m), state' \in {"DISCOVER", "REQUEST"},
             m.type = "REQUEST" => m.server = serverIp /\ serverIp \in Servers
      PROVE  IInv'
  <2>1. Continue("parse", m.xid, bound, requests \cup {m})
    BY <1>5 DEF SendMessage
  <2>2. requests \cup {m} \in SUBSET Asked /\ m.xid \in Nat /\ serverIp' = serverIp
    BY <1>1, <1>2, <1>5 DEF IInv, Types, leaseVars
  <2>3. ~misled' => \A r \in requests \cup {m} :
          r.type = "REQUEST" => r.server = serverIp' /\ serverIp' \in Servers
    BY <1>1, <1>5, <2>2 DEF IInv, OneServer
  <2>4. bound.next # NULL /\ bound.next.type = "ACK" =>
          /\ bound.next.ip = bound.next.server
          /\ ~misled' => bound.next.server = serverIp' /\ serverIp' \in Servers
    BY <1>1, <1>3, <2>2 DEF IInv, OneServer, Sound
  <2>5. LeaseTypes' /\ state' # "LEASED" /\ state' # "REREQUEST"
    BY <1>4, <1>5
  <2> HIDE DEF bound
  <2> QED BY <1>1, <1>3, <2>1, <2>2, <2>3, <2>4, <2>5, ContinueInvariant
<1>6. CASE state' = "DISCOVER" /\ SendMessage(Discover(call.xid + 1))
  BY <1>2, <1>5, <1>6 DEF Discover, Asked, Addresses
<1>7. CASE /\ state = "REREQUEST" /\ state' = "REQUEST"
           /\ SendMessage(RequestFor(call.xid + 1, serverIp, localIp))
  <2>1. serverIp \in Servers /\ localIp \in Addresses
    BY <1>7 DEF IInv, Granted, Types, LeaseTypes
  <2> QED BY <1>2, <1>5, <1>7, <2>1 DEF RequestFor, Asked, Addresses
<1> QED BY <1>6, <1>7 DEF SendFirst

\* No reply in time: the request starts over, and what is late can still arrive.
LEMMA NoResponseInvariant ==
  ASSUME IInv, NoResponse
  PROVE  IInv'
<1>1. /\ ~Idle /\ call.pc = "parse" /\ clock' = clock /\ state' = "START"
      /\ UNCHANGED <<leaseVars, countVars, secTimeout, grant, misled, age>>
      /\ Continue("loop", call.xid, sock, requests)
  BY DEF NoResponse
<1>2. call.xid \in Nat /\ sock \in Bindings /\ requests \in SUBSET Asked
  BY <1>1 DEF IInv, Types, Idle, Calls
<1>3. LeaseTypes' /\ serverIp' = serverIp
  BY <1>1 DEF IInv, Types, LeaseTypes, leaseVars, countVars, States
<1>4. sock.next # NULL => Sound(sock.next)
  BY DEF IInv, OneServer
<1>5. ~misled' => \A r \in requests : r.type = "REQUEST" => r.server = serverIp' /\ serverIp' \in Servers
  BY <1>1, <1>3 DEF IInv, OneServer
<1> QED BY <1>1, <1>2, <1>3, <1>4, <1>5, ContinueInvariant DEF Sound

\* Options of a reply, or what was known before.
LEMMA GivenType ==
  ASSUME NEW option \in Nat, NEW old \in Nat
  PROVE  Given(option, old) \in Nat
BY DEF Given

\* T1 and T2 when a reply does not give them.
LEMMA HalfType ==
  ASSUME NEW n \in Nat
  PROVE  n \div 2 \in Nat /\ 2 * n \in Nat
OBVIOUS

\* The socket once a datagram was read.
LEMMA EmptiedType ==
  ASSUME IInv
  PROVE  Emptied \in Bindings /\ Emptied.next = NULL
BY DEF IInv, Types, Bindings, Emptied

\* An offer is requested from the server whose identifier is kept.
LEMMA ParseOfferInvariant ==
  ASSUME IInv, ParseOffer
  PROVE  IInv'
<1> DEFINE m == sock.next
           ask == RequestFor(m.xid, serverIp', localIp')
<1>1. /\ ~Idle /\ call.pc = "parse" /\ m # NULL /\ clock' = clock
      /\ leaseTime' = Given(m.lease, leaseTime)
      /\ t1' = Given(m.t1, t1) /\ t2' = Given(m.t2, t2)
      /\ renewIn' = Given(m.lease, renewIn)
      /\ state' = "REQUEST" /\ UNCHANGED <<rebindIn, secTimeout, grant, age>>
  BY DEF ParseOffer, Received
<1>2. PICK atOption \in Ticked(Emptied) : \E after \in Ticked(atOption) :
        /\ TakeOver(m, atOption.remote)
        /\ Continue("parse", m.xid, [after EXCEPT !.remote = BROADCAST], requests \cup {ask})
  BY DEF ParseOffer, Received
<1>3. PICK after \in Ticked(atOption) :
        Continue("parse", m.xid, [after EXCEPT !.remote = BROADCAST], requests \cup {ask})
  BY <1>2
<1>4. /\ m \in Messages /\ localIp' \in Addresses /\ serverIp' \in Servers /\ misled' \in BOOLEAN
      /\ ~misled' => ~misled /\ (serverIp \in Servers => serverIp' = serverIp)
  BY <1>1, <1>2, ServerKept
<1>5. LeaseTypes'
  BY <1>1, <1>4, GivenType DEF IInv, Types, LeaseTypes, Messages, Addresses, States
<1>6. ask \in Asked /\ ask.server = serverIp' /\ m.xid \in Nat /\ requests \cup {ask} \in SUBSET Asked
  BY <1>4 DEF RequestFor, Asked, Messages, Addresses, IInv, Types
<1>7. after \in Bindings /\ (after.next # NULL => Sound(after.next))
  <2>1. atOption \in Bindings /\ (atOption.next # NULL => Sound(atOption.next))
    BY EmptiedType, TickedSound
  <2> QED BY <2>1, TickedSound
<1> DEFINE unbound == [after EXCEPT !.remote = BROADCAST]
<1>8. unbound \in Bindings /\ unbound.next = after.next
  BY <1>7 DEF Bindings
<1>9. unbound.next # NULL /\ unbound.next.type = "ACK" =>
        /\ unbound.next.ip = unbound.next.server
        /\ ~misled' => unbound.next.server = serverIp' /\ serverIp' \in Servers
  BY <1>4, <1>7, <1>8, StillSound
<1>10. ~misled' => \A r \in requests \cup {ask} :
         r.type = "REQUEST" => r.server = serverIp' /\ serverIp' \in Servers
  BY <1>4, <1>6 DEF IInv, OneServer
<1>11. state' # "LEASED" /\ state' # "REREQUEST"
  BY <1>1
<1>12. Continue("parse", m.xid, unbound, requests \cup {ask})
  BY <1>3
<1> HIDE DEF ask, unbound
<1> QED BY <1>1, <1>5, <1>6, <1>8, <1>9, <1>10, <1>11, <1>12, ContinueInvariant

\* An acknowledgement begins a lease; it comes from the server that was asked.
LEMMA ParseAckInvariant ==
  ASSUME IInv, ParseAck
  PROVE  IInv'
<1> DEFINE m == sock.next
<1>1. /\ ~Idle /\ call.pc = "parse" /\ m # NULL /\ m.type = "ACK" /\ clock' = clock
      /\ leaseTime' = Given(Given(m.lease, leaseTime), DEFAULT_LEASE)
      /\ t1' = Given(Given(m.t1, t1), leaseTime' \div 2)
      /\ t2' = Given(Given(m.t2, t2), 2 * t1')
      /\ renewIn' = t1' /\ rebindIn' = t2'
      /\ state' = "LEASED" /\ grant' = m.server /\ age' = 0 /\ secTimeout' = secTimeout
      /\ Finish(TRUE)
  BY DEF ParseAck, Received, Acknowledges
<1>2. PICK atOption \in Ticked(Emptied) : TakeOver(m, atOption.remote)
  BY DEF ParseAck, Received
<1>3. /\ m \in Messages /\ Sound(m) /\ localIp' = m.ip /\ localIp' \in Addresses
      /\ serverIp' \in Servers /\ misled' \in BOOLEAN
      /\ ~misled' => ~misled /\ (serverIp \in Servers => serverIp' = serverIp)
  BY <1>1, <1>2, ServerKept
<1>4. m.ip = m.server /\ (~misled' => m.server = serverIp') /\ m.server \in Servers
  BY <1>1, <1>3, StillSound DEF Messages
<1>5. leaseTime' \in Nat
  BY <1>1, <1>3, GivenType, DhcpAssumption DEF IInv, Types, LeaseTypes, Messages
<1>6. leaseTime' \div 2 \in Nat
  BY <1>5, HalfType
<1>7. t1' \in Nat
  BY <1>1, <1>3, <1>6, GivenType DEF IInv, Types, LeaseTypes, Messages
<1>8. 2 * t1' \in Nat
  BY <1>7, HalfType
<1>9. t2' \in Nat
  BY <1>1, <1>3, <1>8, GivenType DEF IInv, Types, LeaseTypes, Messages
<1>10. LeaseTypes'
  BY <1>1, <1>3, <1>4, <1>5, <1>7, <1>9, AgeBoundType DEF IInv, Types, LeaseTypes, Addresses, States
<1> QED BY <1>1, <1>3, <1>4, <1>10, FinishInvariant

\* Other replies change what is known of the lease, but never who granted it.
LEMMA ParseOtherInvariant ==
  ASSUME IInv, ParseOther
  PROVE  IInv'
<1> DEFINE m == sock.next
           pc == IF state' = "START" THEN "loop" ELSE "parse"
<1>1. /\ ~Idle /\ call.pc = "parse" /\ m # NULL /\ clock' = clock
      /\ leaseTime' = Given(m.lease, leaseTime)
      /\ t1' = Given(m.t1, t1) /\ t2' = Given(m.t2, t2)
      /\ renewIn' = Given(m.lease, renewIn)
      /\ state' \in {state, "START"}
      /\ UNCHANGED <<rebindIn, secTimeout, grant, age>>
      /\ state \in States /\ state # "LEASED"
  BY DEF ParseOther, Received, IInv, Granted, Resting, Types, LeaseTypes
<1>2. PICK atOption \in Ticked(Emptied) : \E after \in Ticked(atOption) :
        TakeOver(m, atOption.remote) /\ Continue(pc, call.xid, after, requests)
  BY DEF ParseOther, Received
<1>3. PICK after \in Ticked(atOption) : Continue(pc, call.xid, after, requests)
  BY <1>2
<1>4. /\ m \in Messages /\ localIp' \in Addresses /\ serverIp' \in Servers /\ misled' \in BOOLEAN
      /\ ~misled' => ~misled /\ (serverIp \in Servers => serverIp' = serverIp)
  BY <1>1, <1>2, ServerKept
<1>5. call.xid \in Nat /\ requests \in SUBSET Asked /\ pc \in {"loop", "parse"}
  BY <1>1 DEF IInv, Types, Idle, Calls
<1>6. after \in Bindings /\ (after.next # NULL => Sound(after.next))
  <2>1. atOption \in Bindings /\ (atOption.next # NULL => Sound(atOption.next))
    BY EmptiedType, TickedSound
  <2> QED BY <2>1, TickedSound
<1>7. LeaseTypes'
  BY <1>1, <1>4, GivenType DEF IInv, Types, LeaseTypes, Messages, Addresses, States
<1>8. ~misled' => \A r \in requests : r.type = "REQUEST" => r.server = serverIp' /\ serverIp' \in Servers
  BY <1>4 DEF IInv, OneServer
<1>9. after.next # NULL /\ after.next.type = "ACK" =>
        /\ after.next.ip = after.next.server
        /\ ~misled' => after.next.server = serverIp' /\ serverIp' \in Servers
  BY <1>4, <1>6, StillSound
<1>10. state' # "LEASED" /\ (state' = "REREQUEST" => serverIp' \in Servers)
  BY <1>1, <1>4
<1> HIDE DEF pc
<1> QED BY <1>1, <1>3, <1>5, <1>6, <1>7, <1>8, <1>9, <1>10, ContinueInvariant

\* What is no reply to this client changes nothing but the socket.
LEMMA IgnoreInvariant ==
  ASSUME IInv, Ignore
  PROVE  IInv'
<1>1. /\ ~Idle /\ call.pc = "parse"
      /\ UNCHANGED <<clock, leaseVars, countVars, state, secTimeout, grant, misled, age>>
      /\ state # "LEASED" /\ (state = "REREQUEST" => serverIp \in Servers)
  BY DEF Ignore, IInv, Granted, Resting
<1>2. PICK after \in Ticked(Emptied) : Continue("parse", call.xid, after, requests)
  BY DEF Ignore
<1>3. call.xid \in Nat /\ requests \in SUBSET Asked
  BY <1>1 DEF IInv, Types, Idle, Calls
<1>4. after \in Bindings /\ (after.next # NULL => Sound(after.next))
  BY EmptiedType, TickedSound
<1>5. LeaseTypes' /\ serverIp' = serverIp
  BY <1>1 DEF IInv, Types, LeaseTypes, leaseVars, countVars
<1>6. ~misled' => \A r \in requests : r.type = "REQUEST" => r.server = serverIp' /\ serverIp' \in Servers
  BY <1>1, <1>5 DEF IInv, OneServer
<1>7. after.next # NULL /\ after.next.type = "ACK" =>
        /\ after.next.ip = after.next.server
        /\ ~misled' => after.next.server = serverIp' /\ serverIp' \in Servers
  BY <1>1, <1>4, <1>5 DEF Sound
<1> QED BY <1>1, <1>2, <1>3, <1>4, <1>5, <1>6, <1>7, ContinueInvariant

\* begin(mac) forgets everything and asks for a lease.
LEMMA BeginInvariant ==
  ASSUME IInv, Begin
  PROVE  IInv'
<1>1. /\ Idle /\ localIp' = 0 /\ serverIp' = 0 /\ leaseTime' = 0 /\ t1' = 0 /\ t2' = 0
      /\ state' = "START" /\ misled' = FALSE
      /\ UNCHANGED <<clock, countVars, secTimeout, requests, grant, age>>
  BY DEF Begin
<1>2. LeaseTypes'
  BY <1>1 DEF IInv, Types, LeaseTypes, countVars, States, Addresses
<1>3. 0 \in 0 .. WRAP - 1
  BY DhcpAssumption
<1>4. CASE Request("begin", 0)
  BY <1>1, <1>2, <1>3, <1>4, RequestInvariant DEF Resting
<1>5. CASE Return(FALSE, "BEGIN_FAIL", 0) /\ UNCHANGED <<call, sock, checked>>
  BY <1>1, <1>2, <1>5, ReturnInvariant DEF IInv, Types, Quiet, Resting, Idle
<1> QED BY <1>4, <1>5 DEF Begin

\* Rebinding forgets the lease and asks anyone.
LEMMA RebindingInvariant ==
  ASSUME IInv, Resting, NEW now \in 0 .. WRAP - 1, Rebinding(now),
         UNCHANGED <<clock, requests, grant>>, age' \in 0 .. AgeBound,
         renewIn' \in Nat, rebindIn' \in Nat, secTimeout' \in 0 .. WRAP - 1
  PROVE  IInv'
<1>1. state' = "START" /\ localIp' = 0 /\ serverIp' = 0 /\ misled' = FALSE /\ UNCHANGED <<leaseTime, t1, t2>>
  BY DEF Rebinding
<1>2. LeaseTypes'
  BY <1>1 DEF IInv, Types, LeaseTypes, States, Addresses
<1>3. CASE Request("rebind", now)
  BY <1>1, <1>2, <1>3, RequestInvariant
<1>4. CASE /\ call' = NULL /\ sock' = Closed
           /\ Return(FALSE, "REBIND_FAIL", 0)
           /\ checked' = (now # 0)
  BY <1>1, <1>2, <1>4, ReturnInvariant DEF IInv, Quiet
<1> QED BY <1>3, <1>4 DEF Rebinding

\* The counters never run below zero, however late a call of maintain() is.
LEMMA CountdownType ==
  ASSUME IInv, NEW factor \in Int, Countdown(factor)
  PROVE  renewIn' \in Nat /\ rebindIn' \in Nat /\ secTimeout' \in 0 .. WRAP - 1
<1>1. renewIn \in Nat /\ rebindIn \in Nat /\ secTimeout \in 0 .. WRAP - 1 /\ clock \in Int
  BY DEF IInv, Types, LeaseTypes
<1>2. CASE factor < 0
  BY <1>1, <1>2 DEF Countdown, countVars
<1>3. CASE ~(factor < 0)
  <2>1. factor \div SECOND \in Nat /\ factor % SECOND \in Int
    BY <1>3, DhcpAssumption
  <2>2. SecondsLate(factor) \in Nat
    BY <2>1 DEF SecondsLate
  <2>3. ASSUME NEW n \in Nat, NEW late \in Nat PROVE Reduced(n, late) \in Nat
    BY DEF Reduced
  <2>4. clock + SECOND - (factor % SECOND) \in Int /\ WRAP \in Nat \ {0}
    BY <1>1, <2>1, DhcpAssumption
  <2>5. secTimeout' \in 0 .. WRAP - 1
    BY <1>3, <2>4, ModRange DEF Countdown
  <2> QED BY <1>1, <1>3, <2>2, <2>3, <2>5 DEF Countdown
<1> QED BY <1>2, <1>3

\* maintain() counts down, renews, rebinds, or does nothing.
LEMMA MaintainInvariant ==
  ASSUME IInv, Maintain
  PROVE  IInv'
<1>1. /\ Idle /\ UNCHANGED <<clock, requests, grant>> /\ age' \in 0 .. AgeBound
      /\ sock = Closed /\ requests = {} /\ clock \in 0 .. WRAP - 1
  BY AgeBoundType DEF Maintain, IInv, Quiet, Resting, Types, LeaseTypes
<1>2. CASE FirstCheck
  <2>1. /\ UNCHANGED <<state, leaseVars, countVars, call, sock, misled>> /\ checked' = (clock # 0)
        /\ Return(FALSE, "NONE", 0) /\ secTimeout' = (clock + SECOND) % WRAP
    BY <1>2 DEF FirstCheck
  <2>2. secTimeout' \in 0 .. WRAP - 1
    <3>1. clock + SECOND \in Int /\ WRAP \in Nat \ {0}
      BY <1>1, DhcpAssumption
    <3> QED BY <2>1, <3>1, ModRange
  <2>3. LeaseTypes'
    BY <1>1, <2>1, <2>2 DEF IInv, Types, LeaseTypes, leaseVars, countVars
  <2> QED BY <1>1, <2>1, <2>3, ReturnInvariant DEF IInv, Granted, Idle, leaseVars
<1>3. CASE Check
  <2> DEFINE factor == Signed(clock - secTimeout)
  <2>1. factor \in Int
    <3>1. clock - secTimeout \in Int /\ WRAP \in Nat \ {0}
      BY <1>1, DhcpAssumption DEF IInv, Types, LeaseTypes
    <3>2. (clock - secTimeout) % WRAP \in 0 .. WRAP - 1
      BY <3>1, ModRange
    <3> QED BY <3>1, <3>2 DEF Signed
  <2>2. renewIn' \in Nat /\ rebindIn' \in Nat /\ secTimeout' \in 0 .. WRAP - 1
    <3>1. Countdown(factor)
      BY <1>3 DEF Check
    <3> HIDE DEF factor
    <3> QED BY <2>1, <3>1, CountdownType
  <2>3. CASE /\ state = "LEASED" /\ state' = "REREQUEST" /\ UNCHANGED <<leaseVars, misled>>
             /\ \/ Request("renew", clock)
                \/ /\ Return(FALSE, "RENEW_FAIL", 0)
                   /\ checked' = (clock # 0)
                   /\ UNCHANGED <<call, sock>>
    <3>1. serverIp' \in Servers /\ LeaseTypes'
      BY <1>1, <2>2, <2>3 DEF IInv, Granted, Types, LeaseTypes, leaseVars, States
    <3>2. CASE Request("renew", clock)
      BY <1>1, <2>3, <3>1, <3>2, RequestInvariant DEF Resting
    <3>3. CASE Return(FALSE, "RENEW_FAIL", 0) /\ checked' = (clock # 0) /\ UNCHANGED <<call, sock>>
      BY <1>1, <2>3, <3>1, <3>3, ReturnInvariant DEF Idle
    <3> QED BY <2>3, <3>2, <3>3
  <2>4. CASE Rebinding(clock)
    BY <1>1, <2>2, <2>4, RebindingInvariant DEF Resting
  <2>5. CASE /\ Return(FALSE, "NONE", 0) /\ checked' = (clock # 0)
             /\ UNCHANGED <<state, leaseVars, call, sock, misled>>
    <3>1. LeaseTypes'
      BY <1>1, <2>2, <2>5 DEF IInv, Types, LeaseTypes, leaseVars
    <3> QED BY <1>1, <2>5, <3>1, ReturnInvariant DEF IInv, Granted, Idle, leaseVars
  <2> QED BY <1>3, <2>3, <2>4, <2>5 DEF Check
<1> QED BY <1>2, <1>3 DEF Maintain

\* Every step keeps the invariant.
LEMMA StepInvariant ==
  ASSUME IInv, [Next]_vars
  PROVE  IInv'
<1>1. CASE UNCHANGED vars
  BY <1>1 DEF vars, leaseVars, countVars, checkVars, hostVars, history, IInv, Types, LeaseTypes,
              Quiet, OneServer, Sound, Granted, Bounded, Resting, Idle, Since
<1>2. CASE Rebind
  <2>1. Resting /\ call.now \in 0 .. WRAP - 1
    BY <1>2 DEF Rebind, Resting, IInv, Types, Idle, Calls
  <2>2. renewIn' \in Nat /\ rebindIn' \in Nat /\ secTimeout' \in 0 .. WRAP - 1 /\ age' \in 0 .. AgeBound
    BY <1>2 DEF Rebind, IInv, Types, LeaseTypes, countVars
  <2> QED BY <1>2, <2>1, <2>2, RebindingInvariant DEF Rebind
<1> QED BY <1>1, <1>2, TickInvariant, BeginInvariant, MaintainInvariant, SendFirstInvariant,
           NoResponseInvariant, ParseOfferInvariant, ParseAckInvariant, ParseOtherInvariant,
           IgnoreInvariant, DeliverInvariant DEF Next

-----------------------------------------------------------------------------

\* The inductive invariant holds in every state.
THEOREM Invariance == Spec => []IInv
<1>1. Init => IInv
  BY InitInvariant
<1>2. IInv /\ [Next]_vars => IInv'
  BY StepInvariant
<1> QED BY <1>1, <1>2, PTL DEF Spec

\* Every variable has its type; in particular the counters of checkLease never
\* run below zero (Dhcp.cpp:391-442).
THEOREM TypeCorrect == Spec => []TypeOK
<1>1. IInv => TypeOK
  BY DEF IInv, Types, LeaseTypes, Quiet, Resting, TypeOK
<1> QED BY <1>1, Invariance, PTL

\* A lease the client believes in was granted and not only offered, for the address
\* the host has, however replies interleave (Dhcp.cpp:84-110, 280).
THEOREM GrantedLease == Spec => []LeaseIsGranted
<1>1. IInv => LeaseIsGranted
  BY DhcpAssumption DEF IInv, Granted, LeaseIsGranted
<1> QED BY <1>1, Invariance, PTL

\* The next renewal asks the server that granted the lease, unless remoteIP() has
\* once named another than the sender of the reply (Dhcp.cpp:328-343).
THEOREM GranterIsAsked == Spec => []RenewalAsksGranter
<1>1. IInv => RenewalAsksGranter
  BY DEF IInv, Granted, RenewalAsksGranter
<1> QED BY <1>1, Invariance, PTL

\* A request ends soon after its timeout, whatever arrives and however the clock
\* overflows (Dhcp.cpp:57-120, 258-265).
THEOREM CallsEnd == Spec => []CallBounded
<1>1. IInv => CallBounded
  BY DEF IInv, Bounded, CallBounded, Since
<1> QED BY <1>1, Invariance, PTL

-----------------------------------------------------------------------------
(* Renewal *)

\* T1 is K seconds at most, and the shortest lease lasts beyond it for longer than the sketch may
\* keep maintain() waiting; leases last 2 s at least, and T1 comes within one turn of the clock.
RenewsInTime(K) ==
  /\ K \in Nat /\ T1Options \subseteq 0 .. K
  /\ \A n \in LeaseTimes :
       n \div 2 \in 1 .. K /\ SECOND * K + 3 * MaxGap + SECOND - 1 <= SECOND * n
  /\ SECOND * K + 3 * MaxGap + SECOND < WRAP

\* How long ago the next second began that the counters will count.
Lag == Signed(clock - secTimeout)
CallTime == Timeout + ResponseTimeout + 1

\* maintain() is never so late that the difference of the clocks changes its sign.
Timely ==
  /\ result = NULL => ~checked
  /\ ~Idle => /\ checked <=> call.why # "begin"
              /\ call.pc = "rebind" => call.why = "renew"
  /\ checked =>
       /\ -SECOND <= Lag
       /\ Idle => Lag <= 2 * CallTime + gap
       /\ ~Idle /\ call.why = "renew" => Lag <= Since(call.start)
       /\ ~Idle /\ call.why = "rebind" => Lag <= CallTime + Since(call.start)

\* T1 is K at most, and a server that acknowledges says how long, now and in a reply
\* that waits.
Fits(m, K) == m.t1 <= K /\ (m.type = "ACK" => m.lease \in LeaseTimes)
Offered(K) == t1 <= K /\ (sock.next # NULL => Fits(sock.next, K))

\* The units that the counter of seconds has counted.
Counted == SECOND * (t1 - renewIn)

\* No check since the lease began.
Unchecked == age <= gap /\ renewIn = t1 /\ (checked => age <= Lag + SECOND)

\* The clock has been 0 at a check, which stops the count until the next.
Halted == ~checked /\ clock = gap /\ clock <= age /\ age <= Counted + SECOND - 1 + MaxGap + gap

\* The counter runs; it may have missed a gap at first and another at 0.
Running ==
  /\ checked /\ Lag <= gap
  /\ \/ age <= Counted + Lag + SECOND + MaxGap
     \/ age <= Counted + Lag + 2 * SECOND - 1 + 2 * MaxGap /\ 0 < clock /\ clock <= age

Aged(K) ==
  state = "LEASED" =>
    /\ leaseTime \in LeaseTimes /\ renewIn > 0
    /\ ~Idle => age = 0
    /\ Idle => Unchecked \/ Halted \/ Running

Paced(K) == Timely /\ Offered(K) /\ Aged(K)

\* What the counters lose, the time until the next count gains (Dhcp.cpp:391-417).
LEMMA CountdownExact ==
  ASSUME IInv, -SECOND <= Lag, Countdown(Lag), clock' = clock
  PROVE  /\ Lag' \in Int /\ -SECOND <= Lag' /\ Lag' < 0
         /\ renewIn' > 0 => SECOND * renewIn - SECOND * renewIn' = Lag - Lag'
<1>1. /\ clock \in 0 .. WRAP - 1 /\ secTimeout \in 0 .. WRAP - 1 /\ renewIn \in Nat
      /\ SECOND \in Nat \ {0}
  BY DhcpAssumption DEF IInv, Types, LeaseTypes
<1>2. Lag \in Int
  BY <1>1, SignedType DEF Lag
<1> DEFINE f == Lag
<1>3. CASE f < 0
  <2>1. UNCHANGED <<renewIn, secTimeout>>
    BY <1>3 DEF Countdown, countVars
  <2>2. Lag' = Lag
    BY <2>1 DEF Lag
  <2> QED BY <1>1, <1>2, <1>3, <2>1, <2>2, Products
<1>4. CASE ~(f < 0)
  <2>1. /\ secTimeout' = (clock + SECOND - (f % SECOND)) % WRAP
        /\ renewIn' = Reduced(renewIn, SecondsLate(f))
    BY <1>4 DEF Countdown
  <2>2. f \in Nat
    BY <1>2, <1>4
  <2> HIDE DEF f
  <2>3. PICK q \in Nat, r \in 0 .. SECOND - 1 :
          f \div SECOND = q /\ f % SECOND = r /\ f = SECOND * q + r
    BY <2>2, Seconds
  <2> DEFINE e == SECOND - r
  <2>4. e \in 1 .. SECOND
    BY <1>1
  <2>5. clock + SECOND - r = clock + e
    BY <1>1, <2>4
  <2>6. secTimeout' = (clock + e) % WRAP
    BY <2>1, <2>3, <2>5
  <2>7. SecondsLate(f) = q + 1
    BY <2>3 DEF SecondsLate
  <2>8. Lag' = -e
    <3>1. Signed(clock - ((clock + e) % WRAP)) = -e
      <4> HIDE DEF e
      <4> QED BY <1>1, <2>4, SignedAhead
    <3> QED BY <2>6, <3>1 DEF Lag
  <2>9. ASSUME renewIn' > 0 PROVE SECOND * renewIn - SECOND * renewIn' = f + e
    <3>1. renewIn' = renewIn - (q + 1)
      BY <1>1, <2>1, <2>4, <2>7, <2>9 DEF Reduced
    <3>2. q + 1 \in Int /\ renewIn \in Int
      BY <1>1, <2>4
    <3>3. SECOND * renewIn' = SECOND * renewIn - SECOND * (q + 1)
      BY <3>1, <3>2, Products
    <3>4. SECOND * (q + 1) = SECOND * q + SECOND * 1
      BY <2>4, Products
    <3>5. SECOND * q \in Int /\ SECOND * renewIn \in Int /\ SECOND * (q + 1) \in Int
      BY <1>1, <3>2, Products
    <3>6. SECOND * 1 = SECOND
      BY <1>1
    <3> HIDE DEF e
    <3> DEFINE Sq == SECOND * q
               Sq1 == SECOND * (q + 1)
               Sn == SECOND * renewIn
               Sn1 == SECOND * renewIn'
    <3>7. Sn1 = Sn - Sq1 /\ Sq1 = Sq + SECOND /\ Sq \in Int /\ Sn \in Int /\ Sq1 \in Int /\ f = Sq + r
      BY <2>3, <3>3, <3>4, <3>5, <3>6
    <3>8. e = SECOND - r /\ r \in Int
      BY <2>4 DEF e
    <3> HIDE DEF Sq, Sq1, Sn, Sn1
    <3>9. Sn - Sn1 = f + e
      BY <1>1, <3>7, <3>8
    <3> QED BY <3>9 DEF Sn, Sn1
  <2>10. -e \in Int /\ -SECOND <= -e /\ -e < 0
    BY <1>1, <2>4
  <2>11. e \in Int /\ f - (-e) = f + e
    BY <2>2, <2>4
  <2> QED BY <2>8, <2>9, <2>10, <2>11 DEF f
<1> QED BY <1>3, <1>4

-----------------------------------------------------------------------------
(* The countdown is never far behind *)

\* The lag is a number.
LEMMA LagType ==
  ASSUME IInv
  PROVE  Lag \in Int /\ clock \in 0 .. WRAP - 1 /\ secTimeout \in 0 .. WRAP - 1
<1>1. clock \in 0 .. WRAP - 1 /\ secTimeout \in 0 .. WRAP - 1
  BY DEF IInv, Types, LeaseTypes
<1> QED BY <1>1, SignedType DEF Lag

\* How long a call lasts at most.
LEMMA CallTimes ==
  ASSUME IInv, ~Idle
  PROVE  /\ call \in Calls /\ Since(call.start) \in Nat /\ Since(call.start) <= CallTime
         /\ CallTime \in Nat
<1>1. call \in Calls /\ clock \in 0 .. WRAP - 1
  BY DEF IInv, Types, Idle
<1>2. clock - call.start \in Int /\ WRAP \in Nat \ {0}
  BY <1>1, DhcpAssumption DEF Calls
<1>3. Since(call.start) \in 0 .. WRAP - 1
  BY <1>2, ModRange DEF Since
<1>4. Since(call.start) <= CallTime
  BY DEF IInv, Bounded, CallTime
<1> QED BY <1>1, <1>3, <1>4, DhcpAssumption DEF CallTime

\* At most two calls and a gap pass between two checks, less than half a turn of the clock.
LEMMA LagBelow ==
  ASSUME IInv, Timely, checked
  PROVE  /\ Lag <= 2 * CallTime + MaxGap
         /\ ~Idle => Lag <= CallTime + Since(call.start)
         /\ 2 * CallTime + MaxGap + SECOND <= WRAP \div 2
<1>1. /\ CallTime \in Nat /\ MaxGap \in Nat /\ gap \in 0 .. MaxGap /\ Lag \in Int
      /\ 2 * CallTime + MaxGap + SECOND <= WRAP \div 2
  BY LagType, DhcpAssumption DEF IInv, Types, CallTime
<1>2. CASE Idle
  BY <1>1, <1>2 DEF Timely
<1>3. CASE ~Idle
  <2>1. call \in Calls /\ Since(call.start) \in Nat /\ Since(call.start) <= CallTime
    BY <1>3, CallTimes
  <2>2. call.why \in {"renew", "rebind"}
    BY <1>3, <2>1 DEF Timely, Calls
  <2>3. Lag <= Since(call.start) \/ Lag <= CallTime + Since(call.start)
    BY <1>3, <2>2 DEF Timely
  <2>4. Lag <= CallTime + Since(call.start)
    BY <1>1, <2>1, <2>3
  <2> QED BY <1>1, <1>3, <2>1, <2>4
<1> QED BY <1>2, <1>3

\* A call ends, or goes on to rebind.
LEMMA TimelyFinish ==
  ASSUME IInv, Timely, ~Idle, NEW ok \in BOOLEAN, Finish(ok), UNCHANGED <<clock, secTimeout>>
  PROVE  Timely'
<1>1. Lag' = Lag /\ Lag \in Int /\ CallTime' = CallTime
  BY LagType DEF Lag, CallTime
<1>2. /\ call \in Calls /\ Since(call.start) \in Nat /\ Since(call.start) <= CallTime
      /\ CallTime \in Nat
  BY CallTimes
<1>3. CASE /\ call.why = "renew"
           /\ call' = [call EXCEPT !.pc = "rebind"]
           /\ UNCHANGED <<hostVars, gap, checked>>
  <2>1. ~Idle' /\ call'.pc = "rebind" /\ call'.why = "renew" /\ call'.start = call.start
    <3>1. call' \in Calls /\ call'.pc = "rebind" /\ call'.why = "renew" /\ call'.start = call.start
      BY <1>2, <1>3 DEF Calls
    <3> QED BY <3>1, DhcpAssumption DEF Idle
  <2>2. Since(call.start)' = Since(call.start) /\ result' = result
    BY <1>3, <2>1 DEF Since, hostVars
  <2> QED BY <1>1, <1>3, <2>1, <2>2 DEF Timely
<1>4. CASE /\ call' = NULL
           /\ Return(ok, IF ok THEN Succeeded(call.why) ELSE Failed(call.why), localIp')
           /\ checked' = IF call.why = "begin" THEN FALSE ELSE call.now # 0
  <2>1. Idle' /\ gap' = 0
    BY <1>4 DEF Idle, Return
  <2>2. result' # NULL
    <3>1. call.why \in {"begin", "renew", "rebind"}
      BY <1>2 DEF Calls
    <3>2. Succeeded(call.why) \in Results /\ Failed(call.why) \in Results
      BY <3>1 DEF Succeeded, Failed, Results
    <3> QED BY <1>4, <3>2, DhcpAssumption DEF Return
  <2>3. checked' => checked /\ call.why # "begin"
    BY <1>4 DEF Timely
  <2>4. ASSUME checked' PROVE -SECOND <= Lag /\ Lag <= 2 * CallTime + 0
    <3>1. checked /\ -SECOND <= Lag
      BY <2>3, <2>4 DEF Timely
    <3>2. Lag <= CallTime + Since(call.start)
      BY <3>1, LagBelow
    <3> QED BY <1>1, <1>2, <3>1, <3>2
  <2> QED BY <1>1, <2>1, <2>2, <2>4 DEF Timely
<1> QED BY <1>3, <1>4 DEF Finish

\* The loop goes on, or gives up.
LEMMA TimelyContinue ==
  ASSUME IInv, Timely, ~Idle, NEW pc \in {"loop", "parse"}, NEW xid \in Nat, NEW nextSock, NEW nextRequests,
         Continue(pc, xid, nextSock, nextRequests), UNCHANGED <<clock, secTimeout>>
  PROVE  Timely'
<1>1. CASE Finish(FALSE)
  BY <1>1, TimelyFinish
<1>2. CASE /\ call' = [call EXCEPT !.pc = pc, !.xid = xid, !.parse = clock]
           /\ UNCHANGED <<hostVars, gap, checked>>
  <2>1. call \in Calls /\ clock \in 0 .. WRAP - 1
    BY DEF IInv, Types, Idle
  <2>2. call' \in Calls /\ call'.pc = pc /\ call'.why = call.why /\ call'.start = call.start
    BY <1>2, <2>1 DEF Calls
  <2>3. ~Idle'
    BY <2>2, DhcpAssumption DEF Idle
  <2>4. Lag' = Lag /\ Since(call.start)' = Since(call.start) /\ result' = result /\ CallTime' = CallTime
    BY <1>2, <2>2 DEF Lag, Since, hostVars, CallTime
  <2> QED BY <1>2, <2>2, <2>3, <2>4 DEF Timely
<1> QED BY <1>1, <1>2 DEF Continue

\* A request begins.
LEMMA TimelyRequest ==
  ASSUME IInv, NEW why \in {"begin", "renew", "rebind"}, NEW now \in 0 .. WRAP - 1,
         Request(why, now), clock' = clock, checked <=> why # "begin",
         checked => /\ Lag' \in Int /\ -SECOND <= Lag'
                    /\ why = "renew" => Lag' <= 0
                    /\ why = "rebind" => Lag' <= CallTime
  PROVE  Timely'
<1>1. PICK x \in Xids :
        call' = [why |-> why, now |-> now, start |-> clock, parse |-> clock, pc |-> "loop",
                 initial |-> x, xid |-> x]
  BY DEF Request
<1>2. x \in Nat /\ clock \in 0 .. WRAP - 1
  BY DhcpAssumption DEF IInv, Types
<1>3. call' \in Calls /\ call'.pc = "loop" /\ call'.why = why /\ call'.start = clock
  BY <1>1, <1>2 DEF Calls
<1>4. ~Idle'
  BY <1>3, DhcpAssumption DEF Idle
<1>5. result' # NULL /\ checked' = checked
  BY DhcpAssumption DEF Request, Results
<1>6. Since(call.start)' = 0
  BY <1>2, <1>3, Elapsed DEF Since
<1>7. CallTime' = CallTime /\ CallTime \in Nat /\ CallTime + 0 = CallTime
  BY DhcpAssumption DEF CallTime
<1> QED BY <1>3, <1>4, <1>5, <1>6, <1>7 DEF Timely

\* A call returns without a request.
LEMMA TimelyReturn ==
  ASSUME NEW rc \in Results, Return(FALSE, rc, 0), call' = NULL,
         checked' => Lag' \in Int /\ -SECOND <= Lag' /\ Lag' <= CallTime
  PROVE  Timely'
<1>1. Idle' /\ result' # NULL /\ gap' = 0
  BY DhcpAssumption DEF Idle, Return
<1>2. CallTime' = CallTime /\ CallTime \in Nat /\ 2 * CallTime + 0 = CallTime + CallTime
  BY DhcpAssumption DEF CallTime
<1>3. checked' => Lag' <= 2 * CallTime + 0
  BY <1>2
<1> QED BY <1>1, <1>2, <1>3 DEF Timely

\* Time passes.
LEMMA TimelyTick ==
  ASSUME IInv, Timely, Tick
  PROVE  Timely' /\ (checked => Lag' = Lag + 1)
<1>1. /\ clock' = (clock + 1) % WRAP
      /\ UNCHANGED <<state, leaseVars, countVars, checkVars, call, sock, requests, hostVars, grant, misled>>
  BY DEF Tick
<1>2. UNCHANGED <<checked, secTimeout, result>> /\ CallTime' = CallTime /\ Idle' = Idle
  BY <1>1 DEF checkVars, hostVars, CallTime, Idle
<1>3. /\ Lag \in Int /\ SECOND \in Nat \ {0} /\ CallTime \in Nat /\ MaxGap \in Nat /\ WRAP \div 2 \in Int
      /\ clock \in 0 .. WRAP - 1 /\ secTimeout \in 0 .. WRAP - 1 /\ gap \in Nat
  BY LagType, DhcpAssumption DEF CallTime, IInv, Types
<1>4. ASSUME checked, Lag + 1 < WRAP \div 2 PROVE Lag' = Lag + 1
  BY <1>1, <1>2, <1>3, <1>4, SignedNext DEF Lag
<1>5. CASE Idle
  <2>1. gap < MaxGap /\ gap' = gap + 1
    BY <1>5 DEF Tick
  <2>2. ASSUME checked PROVE Lag <= 2 * CallTime + gap /\ Lag + 1 < WRAP \div 2
    <3>1. Lag <= 2 * CallTime + gap /\ 2 * CallTime + MaxGap + SECOND <= WRAP \div 2
      BY <1>5, <2>2, LagBelow DEF Timely
    <3> QED BY <1>3, <2>1, <3>1
  <2>3. checked => Lag' = Lag + 1 /\ Lag' <= 2 * CallTime + gap'
    BY <1>3, <1>4, <2>1, <2>2
  <2>4. checked => -SECOND <= Lag'
    BY <1>3, <2>3 DEF Timely
  <2> QED BY <1>2, <1>5, <2>3, <2>4 DEF Timely
<1>6. CASE ~Idle /\ call.pc = "parse" /\ Since(call.parse) <= ResponseTimeout
  <2>1. call' = call /\ call \in Calls /\ call.start \in 0 .. WRAP - 1
    BY <1>1, <1>6 DEF IInv, Types, Idle, Calls
  <2>2. Since(call.start) \in Nat /\ Since(call.start) <= CallTime
    BY <1>6, CallTimes
  <2>3. CallTime < WRAP - 1
    BY DhcpAssumption DEF CallTime
  <2>4. Since(call.start)' = Since(call.start) + 1
    <3>1. Since(call.start) < WRAP - 1
      BY <1>3, <2>2, <2>3, DhcpAssumption
    <3> QED BY <1>1, <1>3, <2>1, <3>1, ElapsedNext DEF Since
  <2>5. IInv'
    BY TickInvariant
  <2>6. Since(call.start)' <= CallTime
    BY <1>2, <1>6, <2>5 DEF IInv, Bounded, CallTime
  <2>7. ASSUME checked PROVE Lag + 1 < WRAP \div 2
    <3>1. Lag <= CallTime + Since(call.start) /\ 2 * CallTime + MaxGap + SECOND <= WRAP \div 2
      BY <1>6, <2>7, LagBelow
    <3>2. Since(call.start) + 1 <= CallTime
      BY <2>4, <2>6
    <3> QED BY <1>3, <2>2, <3>1, <3>2
  <2>8. checked => Lag' = Lag + 1
    BY <1>4, <2>7
  <2>9. ASSUME checked
        PROVE  /\ -SECOND <= Lag'
               /\ call.why = "renew" => Lag' <= Since(call.start)'
               /\ call.why = "rebind" => Lag' <= CallTime + Since(call.start)'
    <3>1. /\ -SECOND <= Lag
          /\ call.why = "renew" => Lag <= Since(call.start)
          /\ call.why = "rebind" => Lag <= CallTime + Since(call.start)
      BY <1>6, <2>9 DEF Timely
    <3> QED BY <1>3, <2>2, <2>4, <2>8, <2>9, <3>1
  <2> QED BY <1>2, <1>6, <2>1, <2>8, <2>9 DEF Timely
<1> QED BY <1>5, <1>6 DEF Tick

\* maintain() counts down or sets the timeout anew.
LEMMA TimelyMaintain ==
  ASSUME IInv, Timely, Maintain
  PROVE  Timely'
<1>1. /\ Idle /\ clock' = clock /\ clock \in 0 .. WRAP - 1 /\ CallTime \in Nat /\ SECOND \in Nat \ {0}
  BY DhcpAssumption DEF Maintain, CallTime, IInv, Types
<1>2. {"NONE", "RENEW_FAIL", "REBIND_FAIL"} \subseteq Results
  BY DEF Results
<1>3. CASE FirstCheck
  <2>1. call' = NULL /\ Return(FALSE, "NONE", 0) /\ secTimeout' = (clock + SECOND) % WRAP
    BY <1>1, <1>3 DEF FirstCheck, Idle
  <2>2. Lag' = -SECOND
    <3>1. SECOND \in 1 .. SECOND
      BY <1>1
    <3> QED BY <1>1, <2>1, <3>1, SignedAhead DEF Lag
  <2>3. Lag' \in Int /\ -SECOND <= Lag' /\ Lag' <= CallTime
    BY <1>1, <2>2
  <2> QED BY <1>2, <2>1, <2>3, TimelyReturn
<1>4. CASE Check
  <2>1. checked /\ -SECOND <= Lag
    BY <1>4 DEF Check, Timely
  <2>2. Lag' \in Int /\ -SECOND <= Lag' /\ Lag' < 0
    BY <1>1, <1>4, <2>1, CountdownExact DEF Check, Lag
  <2>3. Lag' <= 0 /\ Lag' <= CallTime
    BY <1>1, <2>2
  <2>4. CASE Request("renew", clock)
    BY <1>1, <2>1, <2>2, <2>3, <2>4, TimelyRequest
  <2>5. CASE Return(FALSE, "RENEW_FAIL", 0) /\ UNCHANGED <<call, sock>>
    BY <1>1, <1>2, <2>2, <2>3, <2>5, TimelyReturn DEF Idle
  <2>6. CASE Rebinding(clock)
    <3>1. CASE Request("rebind", clock)
      BY <1>1, <2>1, <2>2, <2>3, <3>1, TimelyRequest
    <3>2. CASE call' = NULL /\ Return(FALSE, "REBIND_FAIL", 0)
      BY <1>2, <2>2, <2>3, <3>2, TimelyReturn
    <3> QED BY <2>6, <3>1, <3>2 DEF Rebinding
  <2>7. CASE Return(FALSE, "NONE", 0) /\ UNCHANGED <<state, leaseVars, call, sock>>
    BY <1>1, <1>2, <2>2, <2>3, <2>7, TimelyReturn DEF Idle
  <2> QED BY <1>4, <2>4, <2>5, <2>6, <2>7 DEF Check
<1> QED BY <1>3, <1>4 DEF Maintain

\* Every step.
LEMMA TimelyStep ==
  ASSUME IInv, Timely, [Next]_vars
  PROVE  Timely'
<1>1. CASE UNCHANGED vars
  BY <1>1 DEF vars, leaseVars, countVars, checkVars, hostVars, history, Timely, Idle, Lag, Since, CallTime
<1>2. CASE Begin
  <2>1. Idle /\ ~checked /\ clock' = clock
    BY <1>2 DEF Begin, Timely
  <2>2. CASE Request("begin", 0)
    <3>1. 0 \in 0 .. WRAP - 1
      BY DhcpAssumption
    <3> QED BY <2>1, <2>2, <3>1, TimelyRequest
  <2>3. CASE Return(FALSE, "BEGIN_FAIL", 0) /\ UNCHANGED <<call, sock, checked>>
    <3>1. "BEGIN_FAIL" \in Results
      BY DEF Results
    <3> QED BY <2>1, <2>3, <3>1, TimelyReturn DEF Idle
  <2> QED BY <1>2, <2>2, <2>3 DEF Begin
<1>3. CASE Rebind
  <2>1. /\ ~Idle /\ call.pc = "rebind" /\ Rebinding(call.now) /\ UNCHANGED <<clock, countVars, secTimeout>>
    BY <1>3 DEF Rebind
  <2>2. call \in Calls /\ call.now \in 0 .. WRAP - 1
    BY <2>1 DEF IInv, Types, Idle, Calls
  <2>3. checked /\ call.why = "renew"
    BY <2>1 DEF Timely
  <2>4. Lag' = Lag /\ Lag \in Int /\ -SECOND <= Lag /\ Lag <= Since(call.start)
    BY <2>1, <2>3, LagType DEF Timely, Lag
  <2>5. Lag' <= CallTime
    BY <2>1, <2>4, CallTimes
  <2>6. CASE Request("rebind", call.now)
    BY <2>1, <2>2, <2>3, <2>4, <2>5, <2>6, TimelyRequest
  <2>7. CASE call' = NULL /\ Return(FALSE, "REBIND_FAIL", 0)
    <3>1. "REBIND_FAIL" \in Results
      BY DEF Results
    <3> QED BY <2>4, <2>5, <2>7, <3>1, TimelyReturn
  <2> QED BY <2>1, <2>6, <2>7 DEF Rebinding
<1>4. CASE SendFirst
  <2>1. ~Idle /\ call.pc = "loop" /\ UNCHANGED <<clock, secTimeout>>
    BY <1>4 DEF SendFirst
  <2>2. PICK m : SendMessage(m) /\ m.xid = call.xid + 1
    BY <1>4 DEF SendFirst, Discover, RequestFor
  <2>3. m.xid \in Nat
    BY <2>1, <2>2 DEF IInv, Types, Idle, Calls
  <2> QED BY <2>1, <2>2, <2>3, TimelyContinue DEF SendMessage
<1>5. CASE NoResponse
  <2>1. call.xid \in Nat
    BY <1>5 DEF NoResponse, IInv, Types, Idle, Calls
  <2> QED BY <1>5, <2>1, TimelyContinue DEF NoResponse
<1>6. CASE ParseOffer
  <2>1. sock.next.xid \in Nat
    BY <1>6 DEF ParseOffer, Received, IInv, Types, Bindings, Messages
  <2> QED BY <1>6, <2>1, TimelyContinue DEF ParseOffer, Received
<1>7. CASE ParseAck
  BY <1>7, TimelyFinish DEF ParseAck
<1>8. CASE ParseOther
  <2>1. call.xid \in Nat
    BY <1>8 DEF ParseOther, IInv, Types, Idle, Calls
  <2>2. (IF state' = "START" THEN "loop" ELSE "parse") \in {"loop", "parse"}
    OBVIOUS
  <2> QED BY <1>8, <2>1, <2>2, TimelyContinue DEF ParseOther
<1>9. CASE Ignore
  <2>1. call.xid \in Nat
    BY <1>9 DEF Ignore, IInv, Types, Idle, Calls
  <2> QED BY <1>9, <2>1, TimelyContinue DEF Ignore
<1>10. CASE Deliver
  <2>1. UNCHANGED <<clock, state, leaseVars, countVars, checkVars, call, requests, hostVars, history>>
    BY <1>10 DEF Deliver
  <2> QED BY <2>1 DEF checkVars, hostVars, history, Timely, Idle, Lag, Since, CallTime
<1> QED BY <1>1, <1>2, <1>3, <1>4, <1>5, <1>6, <1>7, <1>8, <1>9, <1>10, TimelyTick, TimelyMaintain DEF Next

-----------------------------------------------------------------------------
(* T1 and the leases *)

\* Each lease lasts, and T1 of half of it is positive.
LEMMA ZeroIsNoLease ==
  ASSUME NEW K, RenewsInTime(K), NEW n \in LeaseTimes
  PROVE  n \in Nat /\ n # 0 /\ n \div 2 \in 1 .. K
<1>1. n \in Nat /\ n \div 2 \in 1 .. K
  BY DhcpAssumption DEF RenewsInTime
<1>2. 0 \div 2 = 0
  OBVIOUS
<1> QED BY <1>1, <1>2

\* What comes in fits.
LEMMA TickedFits ==
  ASSUME NEW K, RenewsInTime(K), NEW sk, sk.next # NULL => Fits(sk.next, K), NEW x \in Ticked(sk)
  PROVE  x.next # NULL => Fits(x.next, K)
<1>1. K \in Nat /\ 0 <= K /\ \A n \in T1Options : n <= K
  BY DEF RenewsInTime
<1>2. ASSUME NEW s \in Servers, NEW m \in Arriving(s) PROVE Fits(m, K)
  <2>1. CASE m = Foreign(s)
    BY <1>1, <2>1 DEF Foreign, Fits
  <2>2. ASSUME NEW r \in requests, m \in Replies(s, r) PROVE Fits(m, K)
    <3>1. CASE m = Refusal(s, r)
      BY <1>1, <3>1 DEF Refusal, Fits
    <3>2. ASSUME NEW type, m \in Answers(type, s, r) PROVE Fits(m, K)
      BY <1>1, <3>2 DEF Answers, Fits
    <3>3. m = Refusal(s, r) \/ \E type \in {"OFFER", "ACK"} : m \in Answers(type, s, r)
      BY <2>2 DEF Replies
    <3> QED BY <3>1, <3>2, <3>3
  <2> QED BY <1>2, <2>1, <2>2 DEF Arriving
<1>3. CASE x = sk
  BY <1>3
<1>4. ASSUME NEW s \in Servers, x \in [remote : {s}, next : Arriving(s) \cup {NULL}]
      PROVE  x.next # NULL => Fits(x.next, K)
  BY <1>2, <1>4
<1> QED BY <1>3, <1>4 DEF Ticked

\* What the options are, and what is kept of them.
LEMMA OfferedStep ==
  ASSUME NEW K, RenewsInTime(K), IInv, Offered(K), [Next]_vars
  PROVE  Offered(K)'
<1> USE DEF Offered
<1>1. K \in Nat /\ 0 <= K /\ \A n \in T1Options : n <= K
  BY DEF RenewsInTime
<1>2. CASE UNCHANGED vars
  BY <1>2 DEF vars, leaseVars, Fits
<1>3. ASSUME t1' \in {t1, 0}, sock' = sock \/ sock'.next \in {sock.next, NULL} PROVE Offered(K)'
  BY <1>1, <1>3 DEF Fits
<1>4. Closed.next = NULL
  BY DEF Closed
<1>5. ASSUME NEW why, NEW now, Request(why, now), t1' \in {t1, 0} PROVE Offered(K)'
  BY <1>3, <1>5 DEF Request
<1>6. ASSUME NEW ok, Finish(ok), t1' \in {t1, 0} PROVE Offered(K)'
  BY <1>3, <1>4, <1>6 DEF Finish
<1>7. ASSUME NEW pc, NEW xid, NEW s, NEW r, Continue(pc, xid, s, r), t1' <= K,
             s.next # NULL => Fits(s.next, K)
      PROVE  Offered(K)'
  BY <1>4, <1>7 DEF Continue, Finish, Fits
<1>8. CASE Tick
  BY <1>3, <1>8 DEF Tick, leaseVars
<1>9. CASE Begin
  <2>1. t1' = 0
    BY <1>9 DEF Begin
  <2>2. CASE Request("begin", 0)
    BY <1>5, <2>1, <2>2
  <2>3. CASE UNCHANGED <<call, sock, checked>>
    BY <1>3, <2>1, <2>3
  <2> QED BY <1>9, <2>2, <2>3 DEF Begin
<1>10. ASSUME NEW now, Rebinding(now) PROVE Offered(K)'
  <2>1. t1' = t1
    BY <1>10 DEF Rebinding
  <2>2. CASE Request("rebind", now)
    BY <1>5, <2>1, <2>2
  <2>3. CASE sock' = Closed
    BY <1>3, <1>4, <2>1, <2>3
  <2> QED BY <1>10, <2>2, <2>3 DEF Rebinding
<1>11. CASE Maintain
  <2>1. CASE FirstCheck
    BY <1>3, <2>1 DEF FirstCheck, leaseVars
  <2>2. CASE Request("renew", clock) /\ UNCHANGED leaseVars
    BY <1>5, <2>2 DEF leaseVars
  <2>3. CASE UNCHANGED <<call, sock>> /\ UNCHANGED leaseVars
    BY <1>3, <2>3 DEF leaseVars
  <2>4. CASE UNCHANGED <<state, leaseVars, call, sock>>
    BY <1>3, <2>4 DEF leaseVars
  <2> QED BY <1>10, <1>11, <2>1, <2>2, <2>3, <2>4 DEF Maintain, Check
<1>12. CASE Rebind
  BY <1>10, <1>12 DEF Rebind
<1>13. CASE SendFirst
  <2>1. t1' = t1
    BY <1>13 DEF SendFirst, leaseVars
  <2>2. PICK m : SendMessage(m)
    BY <1>13 DEF SendFirst
  <2>3. [sock EXCEPT !.remote = BROADCAST].next = sock.next
    BY DEF IInv, Types, Bindings
  <2> QED BY <1>7, <2>1, <2>2, <2>3 DEF SendMessage
<1>14. CASE NoResponse
  BY <1>7, <1>14 DEF NoResponse, leaseVars
<1>15. ASSUME sock.next # NULL PROVE Given(sock.next.t1, t1) <= K
  BY <1>15 DEF Given, Fits
<1>16. ASSUME NEW atOption \in Ticked(Emptied), NEW after, after \in Ticked(atOption)
       PROVE  after.next # NULL => Fits(after.next, K)
  <2>1. atOption.next # NULL => Fits(atOption.next, K)
    BY EmptiedType, TickedFits
  <2> QED BY <1>16, <2>1, TickedFits
<1>17. CASE ParseOffer
  <2>1. t1' <= K
    BY <1>15, <1>17 DEF ParseOffer, Received
  <2> DEFINE xid == sock.next.xid
             r == requests \cup {RequestFor(sock.next.xid, serverIp', localIp')}
  <2>2. PICK atOption \in Ticked(Emptied) : \E after \in Ticked(atOption) :
          Continue("parse", xid, [after EXCEPT !.remote = BROADCAST], r)
    BY <1>17 DEF ParseOffer, Received
  <2>3. PICK after \in Ticked(atOption) :
          Continue("parse", xid, [after EXCEPT !.remote = BROADCAST], r)
    BY <2>2
  <2>4. after \in Bindings
    <3>1. atOption \in Bindings /\ (atOption.next # NULL => Sound(atOption.next))
      BY EmptiedType, TickedSound
    <3> QED BY <3>1, TickedSound
  <2>5. [after EXCEPT !.remote = BROADCAST].next = after.next
    BY <2>4 DEF Bindings
  <2> HIDE DEF r
  <2> QED BY <1>7, <1>16, <2>1, <2>3, <2>5
<1>18. CASE ParseAck
  <2>1. /\ sock.next # NULL /\ sock.next.type = "ACK" /\ sock.next.lease \in LeaseTimes
        /\ leaseTime' = Given(Given(sock.next.lease, leaseTime), DEFAULT_LEASE)
        /\ t1' = Given(Given(sock.next.t1, t1), leaseTime' \div 2)
        /\ Finish(TRUE)
    BY <1>18 DEF ParseAck, Received, Acknowledges, Fits
  <2>2. leaseTime' \in LeaseTimes
    BY <2>1, ZeroIsNoLease DEF Given
  <2>3. leaseTime' \div 2 <= K
    BY <2>2 DEF RenewsInTime
  <2>4. t1' <= K
    BY <1>15, <2>1, <2>3 DEF Given
  <2>5. sock'.next = NULL
    BY <1>4, <2>1 DEF Finish
  <2> QED BY <2>4, <2>5
<1>19. CASE ParseOther
  <2>1. t1' <= K
    BY <1>15, <1>19 DEF ParseOther, Received
  <2>2. PICK atOption \in Ticked(Emptied) : \E after \in Ticked(atOption) : \E pc, xid, r :
          Continue(pc, xid, after, r)
    BY <1>19 DEF ParseOther
  <2>3. PICK after \in Ticked(atOption) : \E pc, xid, r : Continue(pc, xid, after, r)
    BY <2>2
  <2> QED BY <1>7, <1>16, <2>1, <2>3
<1>20. CASE Ignore
  <2>1. PICK after \in Ticked(Emptied) : Continue("parse", call.xid, after, requests)
    BY <1>20 DEF Ignore
  <2>2. t1' = t1 /\ (after.next # NULL => Fits(after.next, K))
    BY <1>20, EmptiedType, TickedFits DEF Ignore, leaseVars
  <2> QED BY <1>7, <2>1, <2>2
<1>21. CASE Deliver
  <2>1. t1' = t1 /\ sock' \in Ticked(sock)
    BY <1>21 DEF Deliver, leaseVars
  <2>2. sock'.next # NULL => Fits(sock'.next, K)
    BY <2>1, TickedFits
  <2> QED BY <2>1, <2>2 DEF Fits
<1> QED BY <1>2, <1>8, <1>9, <1>11, <1>12, <1>13, <1>14, <1>17, <1>18, <1>19, <1>20, <1>21 DEF Next

-----------------------------------------------------------------------------
(* The age of a lease *)

\* What the numbers of a lease are.
LEMMA AgeTypes ==
  ASSUME IInv
  PROVE  /\ age \in Nat /\ gap \in 0 .. MaxGap /\ MaxGap \in Nat /\ SECOND \in Nat \ {0}
         /\ clock \in 0 .. WRAP - 1 /\ WRAP \in Nat \ {0} /\ t1 \in Nat /\ renewIn \in Nat
         /\ Lag \in Int /\ Counted \in Int /\ Counted = SECOND * t1 - SECOND * renewIn
         /\ SECOND * t1 \in Int /\ SECOND * renewIn \in Int
<1>1. age \in 0 .. AgeBound /\ t1 \in Nat /\ renewIn \in Nat /\ gap \in 0 .. MaxGap
  BY DEF IInv, Types, LeaseTypes
<1>2. age \in Nat
  BY <1>1, AgeBoundType
<1>3. t1 \in Int /\ renewIn \in Int /\ t1 - renewIn \in Int
  BY <1>1
<1>4. Counted \in Int /\ Counted = SECOND * t1 - SECOND * renewIn
      /\ SECOND * t1 \in Int /\ SECOND * renewIn \in Int
  BY <1>3, Products DEF Counted
<1> QED BY <1>1, <1>2, <1>4, LagType, DhcpAssumption

\* A lease that has not been renewed yet is not old.
LEMMA AgeBelow ==
  ASSUME NEW K, RenewsInTime(K), IInv, Paced(K), state = "LEASED"
  PROVE  /\ age <= SECOND * K + 3 * MaxGap + SECOND - 1 /\ SECOND * K \in Int
         /\ age <= leaseTime * SECOND /\ age < AgeBound
<1> DEFINE top == SECOND * K
           count == Counted
<1>1. /\ age \in Nat /\ gap \in 0 .. MaxGap /\ MaxGap \in Nat /\ SECOND \in Nat \ {0}
      /\ t1 \in Nat /\ renewIn \in Nat /\ Lag \in Int
  BY AgeTypes
<1>2. K \in Nat /\ t1 <= K
  BY DEF RenewsInTime, Paced, Offered
<1>3. leaseTime \in LeaseTimes /\ renewIn > 0
  BY DEF Paced, Aged
<1>4. top \in Int /\ 0 <= top /\ count \in Int /\ count + SECOND <= top
  <2>1. SECOND * K \in Int /\ SECOND * 0 <= SECOND * K
    BY <1>2, Products
  <2>2. SECOND * 0 = 0
    BY <1>1
  <2>3. t1 - renewIn \in Int /\ K - 1 \in Int /\ t1 - renewIn <= K - 1
    BY <1>1, <1>2, <1>3
  <2>4. SECOND * (t1 - renewIn) <= SECOND * (K - 1)
    BY <2>3, Products
  <2>5. SECOND * (K - 1) = SECOND * K - SECOND * 1
    BY <1>2, Products
  <2>6. SECOND * 1 = SECOND /\ Counted \in Int
    BY <1>1, AgeTypes
  <2>7. count <= top - SECOND
    BY <2>4, <2>5, <2>6 DEF Counted
  <2>8. 0 <= top /\ top \in Int /\ count \in Int
    BY <2>1, <2>2, <2>6
  <2> HIDE DEF top, count
  <2> QED BY <1>1, <2>7, <2>8
<1>5. age <= top + 3 * MaxGap + SECOND - 1
  <2>1. age = 0 \/ Unchecked \/ Halted \/ Running
    BY DEF Paced, Aged
  <2>2. \/ age <= gap
        \/ age <= count + SECOND - 1 + MaxGap + gap
        \/ Lag <= gap /\ age <= count + Lag + SECOND + MaxGap
        \/ Lag <= gap /\ age <= count + Lag + 2 * SECOND - 1 + 2 * MaxGap
    BY <1>1, <2>1 DEF Unchecked, Halted, Running
  <2> HIDE DEF top, count
  <2> QED BY <1>1, <1>4, <2>2
<1>6. leaseTime \in Nat /\ top + 3 * MaxGap + SECOND - 1 <= SECOND * leaseTime
  BY <1>3, DhcpAssumption DEF RenewsInTime
<1>7. SECOND * leaseTime \in Int /\ SECOND * leaseTime = leaseTime * SECOND
  BY <1>1, <1>6
<1>8. SECOND * leaseTime < AgeBound
  <2> DEFINE m == CHOOSE m \in LeaseTimes : \A n \in LeaseTimes : n <= m
  <2>1. m \in LeaseTimes /\ \A n \in LeaseTimes : n <= m
    BY DhcpAssumption
  <2>2. m \in Nat /\ leaseTime <= m
    BY <1>3, <2>1, DhcpAssumption
  <2> HIDE DEF m
  <2>3. 1 + m \in Int /\ leaseTime + 1 \in Int /\ leaseTime + 1 <= 1 + m /\ leaseTime \in Int
    BY <1>6, <2>2
  <2>4. SECOND * (leaseTime + 1) <= SECOND * (1 + m)
    BY <2>3, Products
  <2>5. SECOND * (leaseTime + 1) = SECOND * leaseTime + SECOND * 1 /\ SECOND * 1 = SECOND
    BY <1>1, <2>3, Products
  <2>6. AgeBound = SECOND * (1 + m) /\ AgeBound \in Int
    BY AgeBoundType DEF AgeBound, m
  <2> QED BY <1>1, <1>7, <2>4, <2>5, <2>6
<1>9. age <= SECOND * leaseTime
  <2> DEFINE l == SECOND * leaseTime
  <2>1. l \in Int /\ top + 3 * MaxGap + SECOND - 1 <= l
    BY <1>6, <1>7
  <2> HIDE DEF top, l
  <2>2. age <= l
    BY <1>1, <1>4, <1>5, <2>1
  <2> QED BY <2>2 DEF l
<1>10. age < AgeBound
  <2>1. AgeBound \in Int
    BY AgeBoundType
  <2> QED BY <1>1, <1>7, <1>8, <1>9, <2>1
<1> QED BY <1>4, <1>5, <1>7, <1>9, <1>10

\* A lease ages while no call is made.
LEMMA AgedTick ==
  ASSUME NEW K, RenewsInTime(K), IInv, Paced(K), state = "LEASED", Tick
  PROVE  Aged(K)'
<1>1. /\ age \in Nat /\ gap \in 0 .. MaxGap /\ MaxGap \in Nat /\ SECOND \in Nat \ {0}
      /\ clock \in 0 .. WRAP - 1 /\ WRAP \in Nat \ {0} /\ Lag \in Int /\ Counted \in Int
  BY AgeTypes
<1>2. age < AgeBound /\ age <= SECOND * K + 3 * MaxGap + SECOND - 1 /\ SECOND * K \in Int
  BY AgeBelow
<1>3. Resting
  BY DEF IInv, Granted
<1>4. /\ Idle /\ gap < MaxGap /\ gap' = gap + 1 /\ clock' = (clock + 1) % WRAP /\ age' = age + 1
      /\ UNCHANGED <<state, leaseVars, countVars, checkVars, call>>
  BY <1>2, <1>3 DEF Tick, Resting
<1>5. /\ Idle' /\ UNCHANGED <<state, leaseTime, t1, renewIn, checked>> /\ Counted' = Counted
      /\ (checked => Lag' = Lag + 1)
  BY <1>4, TimelyTick DEF Idle, leaseVars, countVars, checkVars, Counted, Paced
<1>6. leaseTime \in LeaseTimes /\ renewIn > 0 /\ (Unchecked \/ Halted \/ Running)
  BY <1>4 DEF Paced, Aged
<1>7. MaxGap < WRAP - 1 /\ age < WRAP - 1
  <2> DEFINE top == SECOND * K
  <2>1. top \in Int /\ top + 3 * MaxGap + SECOND < WRAP /\ age <= top + 3 * MaxGap + SECOND - 1
    BY <1>2 DEF RenewsInTime
  <2>2. 2 * (Timeout + ResponseTimeout + 1) + MaxGap + SECOND <= WRAP \div 2
        /\ Timeout \in Nat /\ ResponseTimeout \in Nat
    BY DhcpAssumption
  <2> HIDE DEF top
  <2> QED BY <1>1, <2>1, <2>2
<1>8. clock < WRAP - 1 => clock' = clock + 1
  BY <1>1, <1>4
<1>9. CASE Unchecked
  <2>1. Unchecked'
    BY <1>1, <1>4, <1>5, <1>9 DEF Unchecked
  <2> QED BY <1>5, <1>6, <2>1 DEF Aged
<1>10. CASE Halted
  <2>1. clock' = clock + 1
    BY <1>1, <1>7, <1>8, <1>10 DEF Halted
  <2>2. Halted'
    BY <1>1, <1>4, <1>5, <1>10, <2>1 DEF Halted
  <2> QED BY <1>5, <1>6, <2>2 DEF Aged
<1>11. CASE Running
  <2>1. clock <= age => clock' = clock + 1
    BY <1>1, <1>7, <1>8
  <2>2. Running'
    BY <1>1, <1>4, <1>5, <1>11, <2>1 DEF Running
  <2> QED BY <1>5, <1>6, <2>2 DEF Aged
<1> QED BY <1>6, <1>9, <1>10, <1>11

\* maintain() during a lease that it does not renew.
LEMMA AgedMaintain ==
  ASSUME NEW K, RenewsInTime(K), IInv, Paced(K), Maintain, state' = "LEASED"
  PROVE  Aged(K)'
<1>1. /\ age \in Nat /\ gap \in 0 .. MaxGap /\ MaxGap \in Nat /\ SECOND \in Nat \ {0}
      /\ clock \in 0 .. WRAP - 1 /\ WRAP \in Nat \ {0} /\ Lag \in Int /\ Counted \in Int
      /\ renewIn \in Nat /\ Counted = SECOND * t1 - SECOND * renewIn
      /\ SECOND * t1 \in Int /\ SECOND * renewIn \in Int
  BY AgeTypes
<1>2. Idle /\ clock' = clock /\ age' = age
  BY DEF Maintain
<1>3. /\ state = "LEASED" /\ UNCHANGED <<leaseVars, call>> /\ gap' = 0
      /\ clock = 0 => ~checked'
      /\ clock # 0 => checked'
      /\ FirstCheck \/ (Check /\ renewIn' > 0)
  <2>1. /\ state = "LEASED" /\ UNCHANGED <<leaseVars, call>> /\ gap' = 0 /\ checked' = (clock # 0)
        /\ FirstCheck \/ (Check /\ renewIn' > 0)
    BY DEF Maintain, FirstCheck, Check, Rebinding, Return
  <2> QED BY <2>1
<1>4. leaseTime \in LeaseTimes /\ renewIn > 0 /\ (Unchecked \/ Halted \/ Running)
  BY <1>2, <1>3 DEF Paced, Aged
<1>5. Idle' /\ UNCHANGED <<leaseTime, t1>>
  BY <1>2, <1>3 DEF Idle, leaseVars
<1>6. CASE FirstCheck
  <2>1. ~checked /\ renewIn' = renewIn /\ Counted' = Counted /\ secTimeout' = (clock + SECOND) % WRAP
    BY <1>5, <1>6 DEF FirstCheck, countVars, Counted
  <2>2. Lag' = -SECOND
    <3>1. SECOND \in 1 .. SECOND
      BY <1>1
    <3> QED BY <1>1, <1>2, <2>1, <3>1, SignedAhead DEF Lag
  <2>3. ASSUME Unchecked PROVE Running' \/ Halted'
    <3>1. age <= MaxGap /\ Counted = 0
      BY <1>1, <2>3 DEF Unchecked
    <3> QED BY <1>1, <1>2, <1>3, <2>1, <2>2, <3>1 DEF Running, Halted
  <2>4. ASSUME Halted PROVE Running' \/ Halted'
    <3>1. CASE clock = 0
      BY <1>1, <1>2, <1>3, <2>1, <2>4, <3>1 DEF Halted
    <3>2. CASE clock # 0
      BY <1>1, <1>2, <1>3, <2>1, <2>2, <2>4, <3>2 DEF Running, Halted
    <3> QED BY <3>1, <3>2
  <2> QED BY <1>4, <1>5, <2>1, <2>3, <2>4 DEF Aged, Running
<1>7. CASE Check /\ renewIn' > 0
  <2>1. checked /\ -SECOND <= Lag
    BY <1>7 DEF Check, Paced, Timely
  <2>2. /\ Lag' \in Int /\ -SECOND <= Lag' /\ Lag' < 0
        /\ SECOND * renewIn - SECOND * renewIn' = Lag - Lag'
    BY <1>2, <1>7, <2>1, CountdownExact DEF Check, Lag
  <2>3. Counted' \in Int /\ Counted' + Lag' = Counted + Lag
    <3>1. IInv'
      BY MaintainInvariant
    <3>2. renewIn' \in Int
      BY <3>1 DEF IInv, Types, LeaseTypes
    <3>3. SECOND * renewIn' \in Int /\ t1 \in Int
      BY <3>2, Products DEF IInv, Types, LeaseTypes
    <3>4. Counted' = SECOND * t1 - SECOND * renewIn'
      BY <1>5, <3>2, <3>3, Products DEF Counted
    <3> DEFINE a == SECOND * t1
               b == SECOND * renewIn
               d == SECOND * renewIn'
               n == Counted
               n1 == Counted'
               g == Lag
               g1 == Lag'
    <3>5. /\ a \in Int /\ b \in Int /\ d \in Int /\ g \in Int /\ g1 \in Int
          /\ n = a - b /\ n1 = a - d /\ b - d = g - g1
      BY <1>1, <2>2, <3>3, <3>4
    <3> HIDE DEF a, b, d, n, n1, g, g1
    <3>6. n1 \in Int /\ n1 + g1 = n + g
      BY <3>5
    <3> QED BY <3>6 DEF n, n1, g, g1
  <2> DEFINE n1 == Counted'
             g1 == Lag'
  <2>4. n1 \in Int /\ g1 \in Int /\ n1 + g1 = Counted + Lag /\ g1 < 0 /\ -SECOND <= g1
    BY <2>2, <2>3
  <2>5. \/ age <= Counted + Lag + SECOND + MaxGap
        \/ age <= Counted + Lag + 2 * SECOND - 1 + 2 * MaxGap /\ 0 < clock /\ clock <= age
    <3>1. Unchecked => Counted = 0 /\ age <= Lag + SECOND
      BY <1>1, <2>1 DEF Unchecked
    <3> QED BY <1>1, <1>4, <2>1, <3>1 DEF Halted, Running
  <2>6. CASE clock = 0
    <3>1. age <= n1 + SECOND - 1 + MaxGap + 0
      <4> HIDE DEF n1, g1
      <4> QED BY <1>1, <2>4, <2>5, <2>6
    <3>2. Halted'
      BY <1>1, <1>2, <1>3, <2>6, <3>1 DEF Halted
    <3> QED BY <1>4, <1>5, <1>7, <3>2 DEF Aged
  <2>7. CASE clock # 0
    <3>1. g1 <= 0 /\ \/ age <= n1 + g1 + SECOND + MaxGap
                     \/ age <= n1 + g1 + 2 * SECOND - 1 + 2 * MaxGap /\ 0 < clock /\ clock <= age
      <4> HIDE DEF n1, g1
      <4> QED BY <1>1, <2>4, <2>5
    <3>2. Running'
      BY <1>2, <1>3, <2>7, <3>1 DEF Running
    <3> QED BY <1>4, <1>5, <1>7, <3>2 DEF Aged
  <2> QED BY <2>6, <2>7
<1> QED BY <1>3, <1>6, <1>7

\* A new lease, with the times that count from now.
LEMMA AgedAck ==
  ASSUME NEW K, RenewsInTime(K), IInv, Paced(K), ParseAck
  PROVE  Aged(K)'
<1> DEFINE m == sock.next
<1>1. /\ ~Idle /\ call.pc = "parse" /\ m # NULL /\ m.type = "ACK" /\ clock' = clock
      /\ leaseTime' = Given(Given(m.lease, leaseTime), DEFAULT_LEASE)
      /\ t1' = Given(Given(m.t1, t1), leaseTime' \div 2)
      /\ renewIn' = t1' /\ age' = 0 /\ secTimeout' = secTimeout
      /\ Finish(TRUE)
  BY DEF ParseAck, Received, Acknowledges
<1>2. m \in Messages
  BY <1>1 DEF IInv, Types, Bindings
<1>3. m.lease \in LeaseTimes
  BY <1>1 DEF Paced, Offered, Fits
<1>4. leaseTime' = m.lease
  BY <1>1, <1>3, ZeroIsNoLease DEF Given
<1>5. leaseTime' \div 2 \in Nat \ {0}
  BY <1>3, <1>4, ZeroIsNoLease
<1>6. renewIn' > 0
  <2>1. m.t1 \in Nat /\ t1 \in Nat
    BY <1>2 DEF Messages, IInv, Types, LeaseTypes
  <2> HIDE DEF m
  <2> QED BY <1>1, <1>5, <2>1 DEF Given
<1>7. ASSUME Idle' PROVE Unchecked'
  <2>1. gap' = 0 /\ checked' = IF call.why = "begin" THEN FALSE ELSE call.now # 0
    <3>1. call \in Calls
      BY <1>1 DEF IInv, Types, Idle
    <3>2. [call EXCEPT !.pc = "rebind"] \in Calls
      BY <3>1 DEF Calls
    <3> QED BY <1>1, <1>7, <3>2, DhcpAssumption DEF Finish, Return, Idle
  <2>2. checked' => checked
    BY <1>1, <2>1 DEF Paced, Timely
  <2>3. Lag' = Lag /\ Lag \in Int
    BY <1>1, LagType DEF Lag
  <2>4. checked' => 0 <= Lag' + SECOND
    <3>1. SECOND \in Nat
      BY DhcpAssumption
    <3>2. checked' => -SECOND <= Lag
      BY <2>2 DEF Paced, Timely
    <3> QED BY <2>3, <3>1, <3>2
  <2> QED BY <1>1, <2>1, <2>4 DEF Unchecked
<1> QED BY <1>1, <1>3, <1>4, <1>6, <1>7 DEF Aged

\* Every step.
LEMMA PacedStep ==
  ASSUME NEW K, RenewsInTime(K), IInv, Paced(K), [Next]_vars
  PROVE  Paced(K)'
<1>1. Timely' /\ Offered(K)'
  BY TimelyStep, OfferedStep DEF Paced
<1>2. Aged(K)'
  <2>1. CASE UNCHANGED vars
    BY <2>1 DEF vars, leaseVars, countVars, checkVars, hostVars, history, Paced, Aged, Unchecked, Halted,
                Running, Counted, Idle, Lag
  <2>2. ASSUME state' # "LEASED" PROVE Aged(K)'
    BY <2>2 DEF Aged
  <2>3. state = "LEASED" => Resting
    BY DEF IInv, Granted
  <2>4. CASE Tick
    <3>1. state' = state
      BY <2>4 DEF Tick
    <3> QED BY <2>2, <2>4, <3>1, AgedTick
  <2>5. CASE Begin
    BY <2>2, <2>5 DEF Begin
  <2>6. CASE Maintain
    BY <2>2, <2>6, AgedMaintain
  <2>7. CASE Rebind
    BY <2>2, <2>7 DEF Rebind, Rebinding
  <2>8. CASE SendFirst
    BY <2>2, <2>8 DEF SendFirst
  <2>9. CASE NoResponse
    BY <2>2, <2>9 DEF NoResponse
  <2>10. CASE ParseOffer
    BY <2>2, <2>10 DEF ParseOffer
  <2>11. CASE ParseAck
    BY <2>11, AgedAck
  <2>12. CASE ParseOther
    <3>1. state' \in {state, "START"} /\ state # "LEASED"
      BY <2>3, <2>12 DEF ParseOther, Resting
    <3> QED BY <2>2, <3>1
  <2>13. CASE Ignore
    <3>1. state' = state /\ state # "LEASED"
      BY <2>3, <2>13 DEF Ignore, Resting
    <3> QED BY <2>2, <3>1
  <2>14. CASE Deliver
    <3>1. state' = state /\ state # "LEASED"
      BY <2>3, <2>14 DEF Deliver, Resting
    <3> QED BY <2>2, <3>1
  <2> QED BY <2>1, <2>4, <2>5, <2>6, <2>7, <2>8, <2>9, <2>10, <2>11, <2>12, <2>13, <2>14 DEF Next
<1> QED BY <1>1, <1>2 DEF Paced

\* Nothing is counted at first.
LEMMA PacedInit ==
  ASSUME NEW K, RenewsInTime(K), Init
  PROVE  Paced(K)
<1>1. 0 <= K
  BY DEF RenewsInTime
<1> QED BY <1>1 DEF Init, Idle, Closed, Paced, Timely, Offered, Aged

\* How far each lease has run.
THEOREM LeasesArePaced ==
  ASSUME NEW K, RenewsInTime(K)
  PROVE  Spec => []Paced(K)
<1>1. Init => Paced(K)
  BY PacedInit
<1>2. IInv /\ Paced(K) /\ [Next]_vars => Paced(K)'
  BY PacedStep
<1> QED BY <1>1, <1>2, Invariance, PTL DEF Spec

\* A lease is renewed before it ends.
THEOREM RenewedInTime ==
  ASSUME NEW K, RenewsInTime(K)
  PROVE  Spec => []RenewalBeforeExpiry
<1>1. IInv /\ Paced(K) => RenewalBeforeExpiry
  BY AgeBelow DEF RenewalBeforeExpiry
<1> QED BY <1>1, Invariance, LeasesArePaced, PTL
=============================================================================
