# UIPEthernet 1.09 in TLA+

Models, model checks and proofs for `arduino_uip` (UIPEthernet): an Arduino library that
wraps the uIP stack and keeps all packet data in the memory of an ENC28J60 controller.
Line numbers refer to the repository, `src/` being its root.

## 1. The system

The library is single-threaded. Nothing runs by itself: every call of a sketch ends up in
`UIPEthernetClass::tick()`, which handles at most one received frame and then the timers of
every connection. Concurrency is that of the outside: frames arrive in any order, the
clock advances between any two calls, and a sketch may call anything at any time. A call
that waits (`connect`, `write`, name lookup, DHCP) calls `tick()` in a loop, so that frames
and timers interleave with the call itself.

| component | state | operations | meets | what makes it correct |
|---|---|---|---|---|
| memory pool (`utility/mempool.cpp`) | `blocks[]`, a list in address order | `allocBlock` (best fit, else compaction), `freeBlock`, `resizeBlock` | the driver moves bytes for it; TCP, UDP and `network_send` own handles | blocks disjoint and inside the pool, contents survive compaction, fails only when full |
| ENC28J60 driver (`utility/Enc28J60Network.cpp`) | receive ring pointers, `receivePkt`, registers | `receivePacket`, `sendPacket`, `readPacket`, `writePacket`, `copyPacket`, `freePacket`, checksum | derived from the pool | ring addresses wrap right, a frame is not freed while in use |
| tick and network_send (`UIPEthernet.cpp`) | `in_packet`, `uip_packet`, `packetstate`, `periodic_timer` | `begin`, `maintain`, `tick`, `network_send` | calls uIP, which calls back | each block has one owner, the kept frame is handled again |
| uIP TCP (`utility/uip.c`) | `uip_conns[]`, `uip_flags`, `uip_slen`, `iss`, `lastport` | `uip_connect`, `uip_process` for input, timer, poll | `uipclient_appcall` through `uip_flags` | the TCP state machine, one segment in flight, every connection ends |
| UIPClient (`UIPClient.cpp`) | `all_data[]`: state, `packets_in`, `packets_out`, `out_pos` | `connect`, `stop`, `read`, `write`, `flush`, `connected`, callback | allocates blocks; finds connections by index | a socket belongs to one connection; streams arrive unchanged; flow control restarts; `stop` completes |
| UIPServer (`UIPServer.cpp`) | a port | `begin`, `available`, `write` | scans `all_data[]` | finds a socket of its own port |
| UIPUDP (`UIPUdp.cpp`) | `packet_in`, `packet_next`, `packet_out`, `send` | `begin`, `beginPacket`, `write`, `endPacket`, `parsePacket`, `read`, `stop`, callback | `uip_packet`, ARP | a datagram is sent once and as written; addresses belong to the datagram read |
| ARP (`utility/uip_arp.c`) | `arp_table[]`, `arptime` | `arpin`, `ipin`, `out`, `timer` | replaces an outgoing frame by a request | one entry per address, the latest; old ones age |
| DHCP (`Dhcp.cpp`) | lease, T1, T2, state | `beginWithDHCP`, `checkLease` | UDP | a lease is renewed before it ends; lost messages are sent again |
| DNS (`Dns.cpp`) | request id | `getHostByName` | UDP | retries, answers of other queries ignored |
| IP, ICMP, checksums (`utility/uip.c`, `UIPEthernet.cpp`) | none that lasts | validation, echo, `uip_add32`, split checksum | | arithmetic agrees with its definition |
| `uip_timer`, `clock-arch`, debug, examples, perl scripts | | | unused by, or outside of, the library | |

The behaviours that are hard: compaction in the middle of everything; sockets and
connections whose numbers part; the frame that is kept because there was no memory;
stop and restart of the receive window; one segment in flight with retransmission by the
callback; close from both sides; calls that block on all this. `PROJECT.json` lists each at
its line under `hazards`.

## 2. Modules

| module | what it is |
|---|---|
| `BlockStore` | abstract specification of the pool: handles name private runs of bytes |
| `MemoryPool` | `mempool.cpp` with the byte moves of the driver; the mapping to `BlockStore` is `Store` |
| `MCMemoryPool` | the instance TLC checks, and a property about sums of sizes |
| `Sums` | sums over finite sets: they exist, are unique, and change with one term; folds over 1 .. n; the proofs use it |
| `MemoryPoolProofs` | the theorems about `MemoryPool` and `MCMemoryPool` |
| `UIPTcp` | the actions of tick, TCP, socket callback and calls, without an environment |
| `UIPSockets` | `UIPTcp` with several connections and remotes that may send anything |
| `UIPStream` | `UIPTcp` with one connection, a correct remote TCP and a bad network |
| `UIPSocketsProofs` | lemmas about one run of `uip_process()`: what each operator of `UIPTcp` keeps; on these lemmas, the theorems about `UIPSockets` |
| `UIPStreamProofs` | the theorems about `UIPStream` |
| `UIPUdp`, `MCUIPUdp` | UDP sockets, their connections, blocks and callback, `endPacket` through ARP and transmitter |
| `ArpCache` | abstract specification of the ARP table: address to latest binding, some of them forgotten |
| `ArpTable`, `MCArpTable` | `uip_arp.c`, and what `tick` and IP do with a frame around it; implements `ArpCache` |
| `ArpTableProofs` | the theorems about `ArpTable` |
| `UIPUdpProofs` | the theorems about `UIPUdp` |
| `Dhcp`, `MCDhcp` | the DHCP client and `maintain()`, with the clock |
| `DhcpProofs` | the theorems about `Dhcp` |
| `ReceiveRing`, `MCReceiveRing` | the receive ring of the controller and its driver |
| `ReceiveRingProofs` | the theorems about `ReceiveRing` and the checksums |
| `Checksum` | the checksum operators, against a reference definition; instantiated by `MCReceiveRing` |

The modules overlap where components meet, and only there: a block of `UIPTcp` or `UIPUdp` is a
handle of `MemoryPool` (through what `BlockStore` promises), `arp` of `UIPUdp` stands for the lookups of
`ArpTable`, the socket of `Dhcp` is one of `UIPUdp`, and the frame that `tick` keeps is the one
`receivePkt` of `ReceiveRing` holds. They are not composed in one instance: the product of their
states is out of TLC's reach, and each overlap is narrow enough to be over-approximated (any
lookup may miss, any allocation may fail, any frame may come).

An operator whose comment starts with `Bug:` is a plausible mistake in the operator that
follows it; `PROJECT.json` says which property must notice it (`mutants`). No specification
uses it.

### MemoryPool

`begin`, `size`, `nextblock` are the fields of `blocks[]`; `mem` is the memory of the
controller; `cur` and `want` are the local variables of `allocBlock` while it compacts.
`AllocBlock(n)` is the call when some gap fits, or the start of `collect`; `CollectBlock`
is one round of its loop with the DMA copy, `CollectEnd` the decision after it. The rounds
are separate actions so that the invariants hold between them; no other operation runs
then, since the program is single-threaded (`want = 0` in every other guard). The search
for a gap is stated as its result (`IsBest`): the smallest gap, the first of several, which
is what the loop with its early exit for an exact fit finds.

Preconditions taken from the callers: requests are of 1 byte or more, and a block is
resized within itself. TCP keeps both: `uip_len` and `send_len` are tested to be positive,
`read` resizes by less than the block. UDP breaks the first one with an empty datagram
(`UIPUdp.cpp:328`): it is a hazard of the list, for the UDP module.

### UIPTcp

`conns` is `uip_conns[]` (`app` is `appstate`, `stopped` the bit `UIP_STOPPED`), `socks` is
`UIPClient::all_data`, where a list of blocks is a sequence of data and `cap` the size of an
outgoing block; `used` counts the blocks taken from the pool, `in_packet` is the frame kept
for the next tick, `client` the one `UIPClient` of the sketch, `call` the call that waits.

One action is one run of `uip_process()` with everything that follows in `tick()`: the
callback (`AppCall`), the reply, `network_send` (`Finish`). The path through the C code's
labels is a composition of operators on a record `x` (connection, sockets, `uip_flags`,
`uip_slen`, `uip_packet`, ...), each named after its label: `Found`, `CheckAck`,
`Established`, `AppSend`, `AppRexmit`. A call of the sketch is one action when it only
touches sockets; `connect` and `write` wait with `call` set. A tick with nothing received
and no timer due changes nothing, so the tick at the head of a call needs no action.
`WriteStep` fills one block, and ticks may come between any two blocks of one `write()`; in
the code they come only when it finds no room. The model thus has more interleavings, and
no property needs fewer.

Abstractions:
- A remote is the whole 4-tuple; `Inbound` remotes address a port that listens.
- Data are sequences of units, blocks and segments hold `UIP_TCP_MSS` of them.
- Timers are "may expire at any time"; the oldest connection in TIME_WAIT is any of them.
  `uip_connect` sets a timer and the first timer sends the SYN: this is `RexmitTimer`.
- A SYN carries an MSS option of at least one unit.
- A frame replaced by an ARP request, a failed allocation in `network_send` and a failed
  transmission are lost segments; the last one loses a block as well (`Sent`).
- `Memory` is the set of outcomes of `allocBlock`: with `{TRUE}` the pool is large enough,
  with `{TRUE, FALSE}` any allocation may fail.
- `connect()` by name, the connect timeout (switched off in the configuration),
  `UIPServer::write`, urgent data and IPv6 are left out.

### UIPSockets

Remotes are not TCP: any flags of `FlagSets`, right and wrong sequence numbers and
acknowledgements, at any time. This over-approximates every remote and network, which
is what an association of sockets, connections and blocks has to withstand. With
`SeqSize = 1` our own sequence numbers are all 0, and 1 is "another one". Data carry the name
of the remote.

`WriteStep` on a socket that is no longer in use (state 0) happens only with `"latewrite"` in
`Calls`, which the runs leave out: the code then allocates blocks for a socket nobody owns
(see "known deviations").

### UIPStream

A remote that follows TCP, and a network in which every segment of ours stays for ever and
may be received at any time, never, or again; the remote may at any time send any part of
its stream again. So loss, duplication, reordering and delay are all in. Sequence
numbers start near the end of their range and wrap within the streams.

### UIPUdp

`udp_conns` is `uip_udp_conns[]` (local port, remote address with port, `appstate`), `conn`, `packet` and
`send` are the fields of a `UIPUDP` object and its `uip_udp_userdata_t`, `pool` the blocks, with
what each of them holds. `written` and `sent` are history: what the sketch wrote since
`beginPacket`, and the datagram the last step transmitted.

Each call is one action; the tick at its head is an action of its own (`Receive`, `Poll`), so that any
number of frames and polls may come between two calls. `EndPacket` contains the poll it makes,
`PollSend` the path callback, `uip_process`, `uip_arp_out`, `network_send`, `_send` with its three
outcomes: transmitted, not transmitted, replaced by an ARP request. In the last two the datagram
stays in `packet_out` and is tried again. `Receive` contains `uip_process` up to the callback: the
first connection that matches, which takes over the sender's address even when there is no
room for the datagram.

The sketch of the model heeds what `beginPacket` returned, writes something before `endPacket`, and
ends what it began; a client writes to its target, a server (no targets) only answers whoever
`remoteIP()` names. Datagrams are never empty: `allocBlock(0)` links a block whose descriptor counts
as free, which breaks the precondition of `MemoryPool` too. `beginPacket` by name and
with address 0 are left out.

### ArpTable

`arp_table` and `arptime` are those of the code, `config` is `uip_hostaddr`, `uip_draddr` and
`uip_netmask` (as the set of addresses the mask covers), `out` the frame the last step gave to
`network_send`, `heard` a history of the binding told last for each address. `uip_arp_arpin` and
`uip_input` are `tick` with an ARP or IP frame, `uip_input` from `uip_arp_ipin` over the header checks of
`uip_process` (`Accepted`) to the answer through `uip_arp_out`. What TCP and UDP send by themselves is
any frame to any host (`Send`). `uip_arp_timer`, which nothing in the library calls, may run at any
time or never; `arptime` is a byte that wraps, and ages are negative after that, as in the code.
The searches are stated by their results: the entry with the address, else the first unused one,
else the first of the largest age (`IsSlot`). An address is taken to be unused when one of its
16-bit halves is 0 (`ZeroHalf`), because `uip_arp_update` tests both halves with `&&`: such
an entry is never found by an update, so all properties except it (`OneEntry`, `HitIsLatest`). It does
take room: with a host of that kind (`ZeroHalf = {ZERO, b}` in the configuration) TLC finds
`Implements` violated, a binding evicted from a cache that is not full. `net` has none, and the theorem
about the refinement assumes none (`WholeHosts`).

`ArpCache` is what callers rely on: a function from addresses to the binding heard last, with at
most `Capacity` of them, where learning one address may forget another only when the cache is full.

### Dhcp

The variables are the members of `DhcpClass`; `call` holds the local variables of
`request_DHCP_lease` and `parseDHCPResponse` while a call waits, with `pc` for the loop it waits in.
`sock` is its UDP socket: whom it hears, and the one datagram that waits. `grant`, `misled`, `age` and `gap`
are history: whose acknowledgement was taken last, whether `remoteIP()` has named the server kept while a
reply of another was parsed, for how long the lease has run, and the time since the last call of the sketch.

`Begin` and `Maintain` start a call; `SendFirst`, `NoResponse`, `ParseOffer`, `ParseAck`, `ParseOther` and
`Ignore` are the passes of the loop, each with the test of the time-out that ends it (`Continue`); `Rebind` is
`checkLease` going on after a renewal. `Deliver` gives the socket any reply of any server to any
message of this request, again and in any order; what is not delivered is lost. Servers grant or
refuse only what was asked of them; a broadcast for another client may come too (`Foreign`).

Every `read()`, `available()` and `flush()` of `parseDHCPResponse` runs `tick()`, and `parsePacket()` has emptied the
place of the next datagram by then. So a datagram may come in while another is parsed: `Ticked(sk)` is what the
socket may have become after some ticks. In the three actions that parse, `atOption` is the socket when the
server identifier is read, by whose `remote` `remoteIP()` answers then, and `after` is the socket at the end of
`flush()`; what it holds waits for the next pass. `ParseOffer` has one tick more, that of `beginPacket`, before the
socket is bound to the broadcast address. A datagram for which there is no memory changes the `remote` too
(`UIPUdp.cpp:326-328`).

`clock` is `millis()` modulo `WRAP` in units, `SECOND` of them to a second, and it starts anywhere. Each
server has one address to give, named after it. Nothing outlives a request, since `stop()` gives
up the socket's port. The options that only configure the host are left out.

### ReceiveRing and Checksum

The controller appends a frame behind the last one as long as it does not reach
`ERXRDPT` (`Arrive`, external: the datasheet's rule for free space). `ReceivePacket(ok)` takes the next
one or drops it; `CopyPacket` copies from the frame held, `FreePacket` ends it. When the callback has found no block,
`KeepPacket` leaves it for the next tick, which reads it again (`ReadAgain`); before that, the same tick may
send outgoing data of a connection, with a copy between two blocks of the pool (`CopyBlocks`). All
copies and `FreePacket` move `ERXRDPT`. A frame is a number, and of the ring's memory only the owner of each byte
is kept. `overtaken` is history: such a copy was made while the frame held was kept.

`Checksum` has no state: `chksum` is the loop of `uip.c` and of the driver over 16-bit words,
`upper_layer_chksum` the sum over pseudo header, header and block, `Update` the adjustment of
`ICMP_ECHO` to `ICMP_ECHO_REPLY`. Sums are in host order, except in `Update`, which works on network order as
the code does. `EchoVerifies` leaves out the ping whose words after the checksum are all 0. The
two properties speak of the frame that the driver holds, with every content a frame of its
length may have; their sets of inputs are constants, which TLC computes once.

## 3. Runs

| run | shows |
|---|---|
| `pool` | The list, its order, the limits and the disjointness of blocks, between two rounds of compaction too; `allocBlock` returns and gives up only when there is no room; the pool implements `BlockStore` |
| `sockets` | Each socket in use belongs to one established connection, each block to one socket, data to the connection they came for, remotes to one connection, bytes in flight to the first block |
| `stream` | With memory: the sketch reads the remote's stream; what is acknowledged is stored; a stopped connection has a reason and restarts; a `write()` that fits the socket's blocks returns |
| `lowmemory` | When any allocation may fail: the remote receives the sketch's stream, nothing leaves `packets_out` before it arrived, we close only after all is delivered, and `stop()` ends in CLOSED |
| `net` | An address has one entry in the ARP table, the latest binding; a ping of a local host is answered to where it came from although the table is too small for all hosts; the table implements `ArpCache` |
| `udp` | Each block belongs to one place of one socket; a datagram leaves once, as written, to where the sketch wanted it, and it does leave; `remoteIP()` of a server belongs to the datagram it reads; blocks are resized within themselves |
| `dhcp` | A lease believed in was granted, for the address of the host; unless `remoteIP()` misled the client, the next renewal asks the server that granted it; it begins before the lease ends, across the overflow of `millis()`; a call returns soon after its time-out |
| `ring` | No frame that waits is overwritten, nor the one held as long as it may be read, unless outgoing data were copied while it was kept; the ring's memory is all given back; addresses are off by at most one byte, so a copy ends. What the checksum code sends it accepts; answers to pings are right |
| `reset` | expected violation: after RST the closed connection keeps its socket |
| `index` | expected violation: `read()` asks the wrong connection whether it is stopped |
| `memory` | expected violation: acknowledged data are lost when memory is short |
| `retry` | expected violation: a renewal that fails at the wrong moment is never tried again |

The four violations are disagreements between the code and its own documentation;
`PROJECT.json` quotes both under `findings`. The passing runs exclude exactly these causes, and two more that are told
below: `sockets` has no RST, `stream` has memory (`Memory = {TRUE}`); `dhcp` says nothing of the renewing server once the
client was misled (`misled`), and `ring` nothing of a frame held that was overtaken (`overtaken`). `dhcp` differs from
`retry` in the property only.

### Known deviations without a run

Met while modelling, and kept out of the passing runs by the stated assumption:

- A peer whose window is smaller than a block makes `uip.c:1683-1689` cut the segment, but the
  acknowledgement frees the whole block (`UIPClient.cpp:412-418`): the rest is never sent. The stream
  runs have windows of a full segment.
- `write()` of more than the socket's blocks hold does not return when the connection ends meanwhile
  with nothing left to read: the callback sets state 0 (`UIPClient.cpp:403`), which passes the
  test at line 178, and the blocks it then fills are never sent. `uipethernet-conf.h:14-15` says
  "block until connection is closed by timeout". With `SketchLen = 6`, `WriteSizes = {6}` and `PeerLen = 0`
  TLC finds `WriteReturns` violated; `stream` has writes of at most 3 units for two blocks of 2.
- `flush()` empties `packets_in` without asking for a restart (`UIPClient.cpp:320`), so a connection stopped by
  a full list stays stopped. The stream runs read and do not flush; `sockets`, which flushes, has no
  property about restarts.
- When `sendPacket` fails for a frame built on a pool block, the block is lost (`UIPEthernet.cpp:295`):
  `Finish` has it, and the TCP runs have a transmitter that works.
- `Dhcp.cpp:139` compares the result of `beginPacket` with -1, which returns 0 on failure; a message is
  then written to no block, which the model treats as a lost one.
- T1 and T2 of an old lease stay when a new one names none (`Dhcp.cpp:97-103`), and T2 is by default `T1 << 1`,
  all of the lease, where the comment says 87.5 %. The servers of `dhcp` always send T2 and
  always the same lease, with which renewal is in time.
- An infinite lease makes the counters negative as signed numbers; leases are small here.
- After a rebinding that fails the host keeps its address. No property says otherwise.
- `beginPacket` changes the remote of the connection even when it then fails (`UIPUdp.cpp:95`), so a datagram
  that waits would go elsewhere; the sketch of `udp` begins none while it builds another, and
  its client has one target. A socket that has heard a peer hears only that one until
  `beginPacket` or `stop` (`uip.c:1112-1119`): `Receive` has it, no property is about it.
- A sketch that writes more than `UIP_UDP_MAXDATALEN` bytes into one packet uses the padding of the block
  too, and `endPacket` then resizes the block by up to `UIP_SENDBUFFER_PADDING` bytes beyond its end
  (`UIPUdp.cpp:171`). The model's sketch writes no more than a datagram holds (`MaxWritten`).
- `remoteIP()` is "the IP address of the host who sent the current incoming packet" (`UIPUdp.cpp:302`), but a datagram that
  comes in while one is parsed overwrites it (`UIPUdp.cpp:326-327`), and `parseDHCPResponse` decides by it at `Dhcp.cpp:331`.
  Checked without `~misled`, `RenewalAsksGranter` fails in ten states: an offer of A is requested; an offer of B,
  which was received before `beginPacket` bound the socket to the broadcast address again, is parsed, and the acknowledgement
  of A comes in meanwhile. `remoteIP()` is now A, the server kept, so B takes its place. Then the
  acknowledgement is taken: the address is A's, and B will be asked to renew it.
- A kept frame may be overwritten before it is read again. `copyPacket` "frees the memory we just read out"
  (`Enc28J60Network.cpp:351-352`), but it also copies outgoing data between two blocks of the pool (`UIPClient.cpp:442`), after
  the callback may have kept the frame held because there was no block for its data (`UIPClient.cpp:378`). The next tick reads
  that frame again (`UIPEthernet.cpp:163`, `183`). Checked without `~overtaken`, `FramesIntact` fails in seven states. In the TCP
  modules `Reprocess` finds the frame as it was.
- Empty datagrams in either direction (`UIPUdp.cpp:328`, `352`).
- Frames across the end of the ring are read one byte off, and a DMA copy may take one byte more
  than asked: `OffByOneAtMost` states exactly this.
- An echo request longer than `uip_buf` is answered from what lies behind it.
- The loop over DNS retries is commented out (`Dns.cpp:139`).

### Bounds, and why they are enough

- `pool`: 3 blocks, 4 bytes of pool, 2 byte values, requests of 1, 2, 3 and of 5 (more than the
  pool). Three blocks give a hole between two others, a compaction that moves two
  blocks, overlapping and distant moves, and a pool that is full in bytes or in
  descriptors. The theorems remove the bound.
- `sockets`: 2 connections, 2 sockets, one block of 2 units per direction, one remote that
  connects and one we connect to, one retransmission, allocations that fail. Two connections
  are enough for numbers to part, for a socket to wait as REMOTECLOSED while the next
  connection starts, and for "no slot left"; the block of 2 units takes a second write while
  its first unit is in flight; the full list refuses data and the frame that brought them is
  kept. Lists of 2 blocks are in the stream runs (with them and `UIP_TCP_MSS = 1` this run
  has 848,020 states and passes too, in more than three minutes).
- `stream`: the remote sends 5 units, the sketch 4, a segment holds 2, a socket holds 2
  blocks: packets_in fills (stop), empties (restart) and fills again; the sequence
  numbers wrap. `UIP_MAXRTX = 1` gives both a retransmission and a timeout.
- `lowmemory`: the same with 2 units from the remote.
- `Sent = {TRUE}` in all TCP runs: a transmitter that works. `udp` has one that fails.
- `net`: a table of 2 entries for 3 hosts and a router, so that entries are evicted; `arptime` of 3
  values and a maximum age of 2, so that time wraps and entries age; two exchangeable Ethernet
  addresses, so that bindings change; no address yet, and a configured host. Without limits on the
  steps: 21,171 states. The theorems remove the bounds.
- `udp`: a server and a client, 2 connections, 3 blocks for the 6 places that want one, two
  peers, datagrams of up to 2 units in, 1 unit and one of padding out, two ephemeral ports.
  All orders of arrivals, polls and calls: 203,524 states.
- `dhcp`: two exchangeable servers, leases of 10 s to be renewed after 5, a clock of half seconds that overflows after 11 s, a
  call of `maintain()` at least every 1.5 s, time-outs of one unit and none, and refusals of the first message of a request
  only (refusals take no time in the model): 1,194,755 states. Two servers are enough for one
  to be taken for the other; two rounds of a request, for late replies of the first. The clock overflows
  within nearly every lease, and starts at every value. A gap of 1.5 s is the longest for which `RenewedInTime`
  promises a renewal in time here. With leases of 2 s, a clock of seconds that overflows after 12 s, a gap of 1 s and
  refusals of the first two messages the other properties hold as well (1,244,936 states).
- `ring`: 48 bytes, frames of 4, 7 and 12 bytes (14, 18 and 22 in the ring), at most 5 at a time:
  frames end at, before and behind the end of the ring, with a header or data across it; odd and even
  lengths. 179,785 states. Checksums: bytes 0, 1, 127 and 255, up to 5 bytes of data, so carries and an odd
  last byte; pings: every 16-bit word.

Deadlock is not checked in the TCP runs: with all connections closed and a sketch that has
done what its bounds allow, nothing need happen. It is in all others.

### Fairness

- Pool: `WF(CollectBlock \/ CollectEnd)`: a loop in a single thread goes on.
- `UIPStream`: the connection's timers run for ever, because every call of the library calls
  `tick()` and `tick()` runs `uip_process` for every connection each `UIP_PERIODIC_TIMER`.
  It is weak fairness, written out with `TimerDue` for ENABLED (what a timer or poll
  would change), which TLC evaluates much faster. `Reprocess` is fair because each tick
  takes up the kept frame first. A call begun goes on (`Returns`). `Reads` is the one
  assumption on the sketch: it keeps reading what there is, without which no flow
  control can restart. Neither network nor remote is assumed fair: connections end by the
  timeout if by nothing else.
- `UIPUdp`: `WF` of an ARP answer for each peer (one that is never answered can receive nothing),
  and `SF` of a poll that transmits: polls never cease, but entries are forgotten and the
  transmitter fails in between, so only an opportunity that comes again and again is taken.
- `ArpTable`, `Dhcp` and `ReceiveRing` have no liveness properties; that a DHCP call ends is the
  invariant `CallBounded`, in time and not in steps.

## 4. Proofs

`MemoryPoolProofs` proves, for every number of descriptors, pool size, start address, set of
request sizes and byte values that satisfy `PoolAssumption`:

- `Invariance`: `Spec => []IInv`, with `IInv` the inductive invariant: types; `ListSound` (the
  links form an injective map whose range is the descriptors of non-zero size); `ListOrdered`
  (a block ends before the next one begins, and no block lies in between);
  `InsidePool`; `CollectOK` (compaction stands on a linked block). Order and soundness need
  each other: without order, the gap computed from two neighbours might contain a third
  block; without soundness, a descriptor of size 0 might be linked and be taken
  twice. "Nothing in between" replaces reachability along the list, so no
  induction over the list is needed. One lemma per action.
- `TypeCorrect`, `ListCorrect`, `NeverOverlap`: what follows from it.
- `PoolImplementsStore`: `Spec => Implements`. Each action maps to an action of `BlockStore` or
  to a stutter: a round of compaction leaves `data` unchanged, because the copied area
  lies below every block not moved yet.
- `FragmentationIsNoReason`: the action property `FailsOnlyWhenFull`. The strengthening is `Packed`: during
  compaction, the block reached ends at the start of the pool plus the sum of the sizes of the blocks up to it. At
  the end of the list these are all blocks (`AllPacked`), so what is free is in one piece behind the last one.

`ArpTableProofs` proves, for every table size, maximum age, clock, set of hosts and settings that
satisfy `ArpAssumption`:

- `Invariance`: `Spec => []IInv`, with `IInv` types, `OneEntry` and `HitIsLatest` together. Both need the
  types; the latest binding needs uniqueness, because an update writes one entry only and a second
  entry of the same address would keep the old one. One lemma per kind of step: an update,
  flushed or emptied entries, and steps that leave the table alone.
- `Unique`, `Latest`: what follows from it.
- `RepliesDirect`: the action property `LocalReplyDirect`. After `uip_arp_ipin` has entered the sender, the
  table of the next state has an entry for it, which by uniqueness is the one `uip_arp_out`
  finds, with the Ethernet address of the frame (`EchoDirect`).

- `TableImplementsCache`: `Spec => Implements`, if no host's address has a 16-bit half of 0 (`WholeHosts`). The
  strengthening adds that an entry that is not free is one a lookup finds, with an Ethernet
  address (`UsedIsBound`): so a full table is a full cache, and an eviction is what `ArpCache` allows.

The type invariant of `ArpTable` is proved and not run; the runs of the other properties check it on the
way, since the inductive invariant contains it.

`UIPUdpProofs` proves, for any number of sockets, connections, blocks, peers and ports:

- `Invariance`: `IInv` is types; `Sizes` (what a block holds fits in it); `Connected` (a socket and its
  connection point to each other, and a socket without one holds nothing); `OneOwner`; `OutgoingKept` (the
  outgoing block holds what the sketch wrote, and has room for the rest until `endPacket` cuts it);
  `SenderKept` (both blocks received came from the peer the socket is bound to). `OneOwner` is not inductive
  alone: the callback frees a block through the connection, so the pointers must be each
  other's inverse. `SenderOfCurrent` speaks of the datagram being read, but the next one takes its place, so
  `SenderKept` covers both.
- `BlocksHaveOneOwner`, `SenderIsCurrent`, `TypeCorrect`, `ResizesAreInside`: what follows.
- `SentIsWritten`: the action property `SentAsWritten` for sketches that send to one peer or answer
  (`OneTarget`). Without it, it is false: `beginPacket` to another peer redirects a datagram that waits
  (known deviations).

`DhcpProofs` proves, for any servers, lease times, timeouts and width of the clock:

- `Invariance`: `IInv` is types; `Quiet` (nothing of a request outlives it); `OneServer` (an acknowledgement that
  waits carries the address of its server; and unless the client was misled, all requests of a
  call name the server whose identifier it keeps, so only that one acknowledges); `Granted`; `Bounded` (how long
  the call and the present wait last, as differences modulo `WRAP`). An acknowledgement is taken from
  whatever waits in the socket, so `Granted` needs to know which messages can wait there, also those that came in the
  ticks of a parse (`TickedSound`). A parse may replace the server identifier only when the client is misled from
  then on (`ServerKept`).
- `GrantedLease`, `GranterIsAsked`, `CallsEnd`, `TypeCorrect`: what follows. The first needs nothing of `misled`; the second is
  false without it (known deviations).
- `RenewedInTime`: `RenewalBeforeExpiry`, if T1 is at most `K` seconds, leases last 2 s or more, and the shortest one
  outlasts `K` by three gaps between calls and a second (`RenewsInTime(K)`); the run `dhcp` meets this with
  `K = 5`, the half of its leases that is taken where a server sends no T1. Without a bound of this kind the property
  is false (known deviations). The strengthening is `LeasesArePaced`: `Timely` (the difference of clocks that
  `checkLease` computes has the right sign, although `millis()` overflows), `Offered` (T1 of the client and of
  what waits for it is at most `K`) and `Aged`. `Aged` bounds the age of a lease by what the counter has
  counted, and says where the gaps come from: the first check after a lease only sets the time of the next
  count, and a check at clock 0 stops the count, since 0 is also the value for "never checked" (`Halted`),
  and the check after that sets it again.

`ReceiveRingProofs` proves, for every even ring and every set of lengths that fit in it:

- `Invariance`: `IInv` is types; `Pointers` (`ERXRDPT` lies before the oldest memory in use; every frame begins
  at an even address); `Chained` (each frame begins where the one before it ends); `Placed`
  (distances from the oldest memory in use grow along the queue: no wrap, no overlap); `DataBegins`;
  `FramesIntact`. Distances are measured forward from the oldest frame, which turns the ring into an interval.
- `FramesStayIntact`, `RingIsReclaimed`, `ReadingIsOffByOne`: what follows. `FramesIntact` covers the frame held
  from its arrival until its data are in the pool or it is freed, through every tick that finds it kept; it ends only where a
  copy of outgoing data gives its memory back (known deviations).
- `SentFramesAccepted`, `EchoesVerify`: the checksums, for data of any length and contents (`MaxPayload` is any number that
  keeps the length of the segment in 16 bits, `ChecksumAssumption`) and, for a ping, any 16-bit sum of what follows the
  checksum. The sum with carries is the plain sum reduced modulo 2^16 - 1 to 1 .. 2^16 - 1, or 0 for zeros only
  (`Folded`, `AddFolded`), so `FoldLeft` of one is `Folded` of the other (`ChecksumIsFolded`), plain sums add up over parts of
  even length (`PlusJoins`, `WordsJoin`), and a checksum put in the header completes a multiple of 2^16 - 1
  (`ComplementCancels`). An update adds 2048 with its carry (`UpdateIs`). The folds are
  followed word by word by `UpTo`, which the smallest counterexample proves (`Sums`).

`UIPSocketsProofs` proves, for every number of connections, blocks per socket, units per
segment and retransmissions, every set of remotes, flags and calls, and any failures:

- One run of `uip_process()` works on a record, so what it keeps is stated of records (`Good`: types,
  sound sockets, the connection's socket is its own; `Serves`: the callback touched one socket and
  balanced its blocks with the pool; `Matched`: the data are the remote's and what is in flight is the first
  block) and proved operator by operator, from the callback (`CallbackServes`) to the whole of the
  input (`FoundEnds`) and the retransmission timer (`ExpiredEnds`).
- `Invariance`: `IInv` is `Shape` (types; sockets are sound: a free one has nothing to read, one that the remote
  closed has nothing to send, all outgoing blocks but the last are full; connections in use have a full
  MSS), `Rest`, `Ownership` (no two connections have one socket, and a socket is live exactly when a connection
  has it) and `RemotesDistinct`. It holds with RST, lost segments and late writes.
- `DemultiplexerIsExact`: `RemotesDistinct`, without further hypothesis.
- `Fitting`: without RST (`NoResets`), also `Fits`: a connection with a socket is established, and they match.
  From it `SocketsAreOwned` (`Association`), `DataAreThePeers` (`DataFromPeer`), `InFlightIsFirstBlock`
  (`InFlightMatches`). The last needs more than it says: the first block is *closed for writing* while it is in
  flight, or `write()` would grow it. `NoResets` is what the code needs: the run `reset` shows
  the violation otherwise.
- `HeldIsCounted`: the sockets hold no more blocks than are taken from the pool, whatever fails: nothing is
  given back twice. The sum over the sockets is a fold; `Sums` proves that one changed term changes the sum
  by as much, by the minimal subset for which it would be false (`MinimalSubset`), since induction rules
  cannot be used.
- `NoBlockIsLost`: `NoLeak`, if every segment is sent and no write() goes on after its connection has ended,
  the two causes of loss under "known deviations".
- `TypeCorrect`: `TypeOK`. It assumes `KeepNet = FALSE`, since `UIPSockets` keeps no record of what was sent.

`UIPStreamProofs` proves, for streams of any length, any window, segment size, number of blocks and
retransmissions, and every loss, duplication, reordering and delay that `UIPStream` has:

- `StreamKeepsBase`, without hypothesis: types; our connection and our socket are in step; an acknowledgement the
  remote can have sent acknowledges nothing that has not been sent. What one run of `uip_process()` does is
  stated of records again, operator by operator.
- `StreamKeepsIncoming`: what the sketch has read, the blocks of `packets_in` and the frame kept are one stretch
  of the remote's stream that ends at `rcv_nxt` (`Incoming`), and a connection whose list is full has been stopped. From
  it `SketchReadsStream` (`ReadsPeerStream`), `StoresWhatItAcks` (`AckedIsStored`), `StopsWithReason`
  (`StoppedForReason`). `rcv_nxt` is a number modulo `SeqSize`, and the invariant says of which place in
  the stream. Hypothesis: every allocation succeeds (`MemoryAssumption`). The code needs it: without memory the data of
  a frame handled again are dropped and acknowledged, which the run `memory` shows.
- `StreamKeepsOutgoing`: what the remote has received, the block in flight and the blocks behind it are one
  stretch of what was written, and every segment in the network repeats a part of it (`Outgoing`). From it
  `RemoteReceivesStream` (`OutgoingKept`), `ClosesOnlyWhenDone` (`ClosesAfterData`). Hypothesis: a window is 0
  or takes a whole block (`WindowAssumption`). With a smaller one `uip_send` cuts the segment to the window
  (`uip.c:1618-1626`) and the callback frees the whole block once that part is acknowledged: data are lost
  (known deviations).
- The blocks are joined by `FlattenSeq`, which is recursive; what it yields is proved by a smallest
  counterexample (`LeastOf`), for want of induction rules.

Every safety property that a run checks is stated by a theorem. Only model-checked are
`CollectTerminates`, `StoppedRestarts`, `WriteReturns`, `CloseCompletes` and `SentEventually`: liveness under
fairness, which is out of the provers' reach.

## 5. Plan

Done: all modules of section 2, and theorems about every component that has invariants. Next, in this
order:

1. Variations of TCP: a SYN without MSS option, `flush` in the stream, `UIPServer::write` and two server
   ports, a failing transmitter, the RTT estimator in 8 bits.
2. DNS over `UIPUdp`.

## 6. Not modelled

SPI and register access, transmission errata, PHY: hardware I/O without state of the library's own.
The layout of headers and options, and the options of a DHCP reply that only configure the host; what the ticks
do while options are parsed is modelled. The DNS client: one query, never sent again, over a socket that is
modelled.
`uip_timer`, which no file uses; configuration headers, whose values are the constants; debug output,
examples and the perl scripts.
