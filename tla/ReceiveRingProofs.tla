------------------------- MODULE ReceiveRingProofs -------------------------
(***************************************************************************)
(* The invariants of ReceiveRing for a ring of any even size and frames of *)
(* any lengths that fit in it; and the checksums, for data of any length   *)
(* whose segment still has a 16-bit length.                                *)
(***************************************************************************)
EXTENDS MCReceiveRing, Sums, SequenceTheorems

Waiting == [id : Frames, start : Addresses, next : Addresses, len : Lengths]

Types ==
  /\ owner \in [Addresses -> Frames \cup {0}]
  /\ writePtr \in Addresses /\ erxrdpt \in Addresses /\ nextPacketPtr \in Addresses
  /\ queue \in Seq(Waiting)
  /\ receivePkt \in Packets \cup {NOBLOCK}
  /\ overtaken \in BOOLEAN

\* The frame held whose memory must not be written: it may be read, and is not overtaken.
Held == MayBeRead /\ ~overtaken

\* Where the memory in use begins, and how far behind that an address is.
Oldest == IF Held THEN receivePkt.start ELSE nextPacketPtr
Dist(a, b) == (b - a) % RING
Behind(a) == Dist(Oldest, a)

\* ERXRDPT is the address before the memory in use; all frames begin at even ones.
Pointers ==
  /\ erxrdpt = ReadPointer(Oldest)
  /\ writePtr % 2 = 0 /\ nextPacketPtr % 2 = 0
  /\ receivePkt # NOBLOCK => receivePkt.start % 2 = 0
  /\ \A i \in DOMAIN queue : queue[i].start % 2 = 0 /\ queue[i].next % 2 = 0

\* Each frame begins where the one before it ends.
Chained ==
  /\ queue = <<>> => nextPacketPtr = writePtr
  /\ queue # <<>> => queue[1].start = nextPacketPtr /\ queue[Len(queue)].next = writePtr
  /\ \A i \in DOMAIN queue : i > 1 => queue[i].start = queue[i - 1].next

\* The frames lie one behind the other in the memory in use, without overlapping.
Placed ==
  /\ Behind(nextPacketPtr) = IF Held THEN Taken(receivePkt.size) ELSE 0
  /\ Behind(nextPacketPtr) <= Behind(writePtr)
  /\ \A i \in DOMAIN queue :
       /\ Behind(nextPacketPtr) <= Behind(queue[i].start)
       /\ Behind(queue[i].next) = Behind(queue[i].start) + Taken(queue[i].len)
       /\ Behind(queue[i].next) <= Behind(writePtr)
  /\ \A i, j \in DOMAIN queue : i < j => Behind(queue[i].next) <= Behind(queue[j].start)

\* Where reading the frame that is held begins.
DataBegins == receivePkt # NOBLOCK => receivePkt.begin = Wrapped(receivePkt.start + HEADER)

IInv == Types /\ Pointers /\ Chained /\ Placed /\ DataBegins /\ FramesIntact
-----------------------------------------------------------------------------
(* Arithmetic of the ring *)

\* The ring has an even number of addresses, counted from 0 (enc28j60.h:243-247).
LEMMA RingSize ==
  /\ RING \in Nat /\ RING > 0 /\ RING % 2 = 0 /\ RING = RXSTOP_INIT + 1 /\ RXSTOP_INIT \in Nat
  /\ Addresses = 0 .. RING - 1
BY RingAssumption DEF RING, Addresses

\* The distance from one address forward to another.
LEMMA DistCases ==
  ASSUME NEW a \in Addresses, NEW b \in Addresses
  PROVE  /\ Dist(a, b) = IF b >= a THEN b - a ELSE b - a + RING
         /\ Dist(a, b) \in 0 .. RING - 1
BY RingSize DEF Dist

\* An address is at no distance from itself.
LEMMA DistSelf ==
  ASSUME NEW a \in Addresses
  PROVE  Dist(a, a) = 0
<1>1. a \in Int
  BY RingSize
<1> QED BY <1>1, DistCases

\* Distances from a place further on.
LEMMA DistShift ==
  ASSUME NEW h \in Addresses, NEW n \in Addresses, NEW x \in Addresses, Dist(h, n) <= Dist(h, x)
  PROVE  Dist(n, x) = Dist(h, x) - Dist(h, n)
<1>1. /\ Dist(h, n) = IF n >= h THEN n - h ELSE n - h + RING
      /\ Dist(h, x) = IF x >= h THEN x - h ELSE x - h + RING
      /\ Dist(n, x) = IF x >= n THEN x - n ELSE x - n + RING
  BY DistCases
<1>2. h \in 0 .. RING - 1 /\ n \in 0 .. RING - 1 /\ x \in 0 .. RING - 1 /\ RING \in Nat
  BY RingSize
<1> QED BY <1>1, <1>2

\* An address t bytes further on, which may lie behind the end of the ring.
LEMMA InRingCases ==
  ASSUME NEW w \in Addresses, NEW t \in 0 .. RING
  PROVE  /\ InRing(w + t) = IF w + t < RING THEN w + t ELSE w + t - RING
         /\ InRing(w + t) \in Addresses
<1>1. w \in 0 .. RING - 1 /\ RING \in Nat \ {0}
  BY RingSize
<1>2. (w + t) % RING = IF w + t < RING THEN w + t ELSE w + t - RING
  BY <1>1
<1> QED BY <1>1, <1>2, RingSize DEF InRing

\* Going on from w takes one further from h, as long as h is not reached again.
LEMMA DistForward ==
  ASSUME NEW h \in Addresses, NEW w \in Addresses, NEW t \in Nat, Dist(h, w) + t < RING
  PROVE  /\ InRing(w + t) \in Addresses
         /\ Dist(h, InRing(w + t)) = Dist(h, w) + t
<1>1. /\ Dist(h, w) = IF w >= h THEN w - h ELSE w - h + RING
      /\ Dist(h, w) \in 0 .. RING - 1
  BY DistCases
<1>2. h \in 0 .. RING - 1 /\ w \in 0 .. RING - 1 /\ RING \in Nat /\ t \in 0 .. RING
  BY <1>1, RingSize
<1>3. /\ InRing(w + t) = IF w + t < RING THEN w + t ELSE w + t - RING
      /\ InRing(w + t) \in Addresses
  BY <1>2, InRingCases
<1>4. Dist(h, InRing(w + t)) =
        IF InRing(w + t) >= h THEN InRing(w + t) - h ELSE InRing(w + t) - h + RING
  BY <1>3, DistCases
<1> QED BY <1>1, <1>2, <1>3, <1>4

\* The bytes of a frame lie between where it begins and where it ends.
LEMMA SpanPlace ==
  ASSUME NEW h \in Addresses, NEW s \in Addresses, NEW t \in Nat, Dist(h, s) + t < RING,
         NEW a \in Span(s, t)
  PROVE  a \in Addresses /\ Dist(h, s) <= Dist(h, a) /\ Dist(h, a) < Dist(h, s) + t
<1>1. PICK i \in 0 .. t - 1 : a = InRing(s + i)
  BY DEF Span
<1>2. i \in Nat /\ i < t /\ Dist(h, s) \in 0 .. RING - 1
  BY DistCases
<1>3. Dist(h, s) + i < RING
  BY <1>2, RingSize
<1>4. a \in Addresses /\ Dist(h, a) = Dist(h, s) + i
  BY <1>1, <1>2, <1>3, DistForward
<1> QED BY <1>2, <1>4

\* What a frame takes is even, and fits in the ring.
LEMMA TakenSize ==
  ASSUME NEW len \in Lengths
  PROVE  /\ Taken(len) \in Nat /\ Taken(len) % 2 = 0 /\ Taken(len) < RING /\ Taken(len) > 0
         /\ len \in Nat \ {0} /\ len + 11 < RING
BY RingAssumption, RingSize DEF Taken, HEADER, CRC

\* The free space of the datasheet is what is left of the ring, less two bytes.
LEMMA FreeSpaceLeft ==
  ASSUME NEW h \in Addresses, h % 2 = 0, erxrdpt = ReadPointer(h), writePtr \in Addresses, writePtr % 2 = 0
  PROVE  /\ FreeSpace = RING - 2 - Dist(h, writePtr)
         /\ erxrdpt % 2 = 1 /\ erxrdpt \in Addresses
<1>1. h \in 0 .. RING - 1 /\ writePtr \in 0 .. RING - 1
  BY RingSize
<1>2. erxrdpt = IF h = 0 THEN RING - 1 ELSE h - 1
  BY RingSize DEF ReadPointer
<1>3. erxrdpt % 2 = 1 /\ erxrdpt \in Addresses
  BY <1>1, <1>2, RingSize
<1>4. writePtr # erxrdpt
  BY <1>3
<1>5. Dist(h, writePtr) = IF writePtr >= h THEN writePtr - h ELSE writePtr - h + RING
  BY DistCases
<1>6. FreeSpace = IF writePtr > erxrdpt THEN RING - 1 - (writePtr - erxrdpt) ELSE erxrdpt - writePtr - 1
  <2>1. writePtr \in Int /\ erxrdpt \in Int
    BY <1>1, <1>3, RingSize
  <2>2. CASE writePtr > erxrdpt
    BY <2>1, <2>2, RingSize DEF FreeSpace
  <2>3. CASE writePtr < erxrdpt
    BY <2>1, <2>3, RingSize DEF FreeSpace
  <2> QED BY <1>4, <2>1, <2>2, <2>3
<1> QED BY <1>1, <1>2, <1>3, <1>5, <1>6, RingSize
-----------------------------------------------------------------------------

\* Initially the ring is empty.
LEMMA InitInvariant == Init => IInv
<1> SUFFICES ASSUME Init PROVE IInv
  OBVIOUS
<1>1. 0 \in Addresses /\ 0 % 2 = 0 /\ ReadPointer(0) \in Addresses
  BY RingSize DEF ReadPointer
<1>2. Oldest = 0 /\ ~Held
  BY DEF Init, Oldest, Held, MayBeRead
<1>3. Behind(0) = 0
  BY <1>1, <1>2, DistCases DEF Behind
<1>4. Types
  BY <1>1 DEF Init, Types
<1>5. Pointers /\ Chained /\ DataBegins /\ FramesIntact
  BY <1>1, <1>2 DEF Init, Pointers, Chained, DataBegins, FramesIntact, MayBeRead, Intact
<1>6. Placed
  BY <1>2, <1>3 DEF Init, Placed
<1> QED BY <1>4, <1>5, <1>6 DEF IInv

\* The frames that wait, and the oldest memory in use.
LEMMA WaitingTypes ==
  ASSUME IInv
  PROVE  /\ Oldest \in Addresses /\ Oldest % 2 = 0
         /\ Len(queue) \in Nat /\ DOMAIN queue = 1 .. Len(queue)
         /\ \A i \in DOMAIN queue :
              /\ queue[i] \in Waiting /\ queue[i].start \in Addresses /\ queue[i].next \in Addresses
              /\ queue[i].len \in Lengths /\ queue[i].id \in Frames
              /\ Taken(queue[i].len) \in Nat /\ Taken(queue[i].len) > 0
              /\ Behind(queue[i].start) \in Nat /\ Behind(queue[i].next) \in Nat
<1>1. Oldest \in Addresses /\ Oldest % 2 = 0
  BY DEF IInv, Types, Pointers, Packets, Oldest, Held, MayBeRead
<1>2. Len(queue) \in Nat /\ DOMAIN queue = 1 .. Len(queue) /\ \A i \in DOMAIN queue : queue[i] \in Waiting
  BY DEF IInv, Types
<1> QED BY <1>1, <1>2, TakenSize, DistCases DEF Waiting, Behind

\* The memory of the frame held is given back: all that waits comes after it.
LEMMA GivenBackInvariant ==
  ASSUME IInv, receivePkt' \in {receivePkt, NOBLOCK}, overtaken' \in BOOLEAN, ~Held',
         erxrdpt' = ReadPointer(nextPacketPtr),
         UNCHANGED <<owner, writePtr, queue, nextPacketPtr>>
  PROVE  IInv'
<1>1. /\ nextPacketPtr \in Addresses /\ nextPacketPtr % 2 = 0
      /\ writePtr \in Addresses /\ writePtr % 2 = 0
  BY DEF IInv, Types, Pointers
<1>2. Oldest' = nextPacketPtr
  BY DEF Oldest
<1>3. ReadPointer(nextPacketPtr) \in Addresses
  BY <1>1, RingSize DEF ReadPointer
<1>4. Types'
  BY <1>3 DEF IInv, Types
<1>5. Pointers' /\ Chained' /\ DataBegins'
  BY <1>2 DEF IInv, Pointers, Chained, DataBegins
<1>6. ASSUME NEW x \in Addresses, Behind(nextPacketPtr) <= Behind(x)
      PROVE  Dist(nextPacketPtr, x) = Behind(x) - Behind(nextPacketPtr)
  BY <1>1, <1>6, WaitingTypes, DistShift DEF Behind
<1>7. Behind(nextPacketPtr) \in Nat /\ Behind(writePtr) \in Nat
  BY <1>1, WaitingTypes, DistCases DEF Behind
<1>8. Dist(nextPacketPtr, nextPacketPtr) = 0
      /\ Dist(nextPacketPtr, writePtr) = Behind(writePtr) - Behind(nextPacketPtr)
  BY <1>1, <1>6, <1>7 DEF IInv, Placed
<1>9. ASSUME NEW i \in DOMAIN queue
      PROVE  /\ Dist(nextPacketPtr, queue[i].start) = Behind(queue[i].start) - Behind(nextPacketPtr)
             /\ Dist(nextPacketPtr, queue[i].next) = Behind(queue[i].next) - Behind(nextPacketPtr)
             /\ Behind(nextPacketPtr) <= Behind(queue[i].start)
             /\ Behind(queue[i].next) = Behind(queue[i].start) + Taken(queue[i].len)
             /\ Behind(queue[i].next) <= Behind(writePtr)
  <2>1. /\ Behind(nextPacketPtr) <= Behind(queue[i].start)
        /\ Behind(queue[i].next) = Behind(queue[i].start) + Taken(queue[i].len)
        /\ Behind(queue[i].next) <= Behind(writePtr)
    BY DEF IInv, Placed
  <2>2. Behind(nextPacketPtr) <= Behind(queue[i].next)
    BY <1>7, <2>1, WaitingTypes
  <2> QED BY <1>6, <2>1, <2>2, WaitingTypes
<1>10. Placed'
  <2>2. /\ Behind(nextPacketPtr)' = 0 /\ Behind(writePtr)' = Behind(writePtr) - Behind(nextPacketPtr)
        /\ Behind(nextPacketPtr)' <= Behind(writePtr)'
    BY <1>2, <1>7, <1>8 DEF Behind, Dist, IInv, Placed
  <2>3. \A i \in DOMAIN queue :
          /\ Behind(queue[i].start)' = Behind(queue[i].start) - Behind(nextPacketPtr)
          /\ Behind(queue[i].next)' = Behind(queue[i].next) - Behind(nextPacketPtr)
    BY <1>2, <1>9 DEF Behind, Dist
  <2>4. ASSUME NEW i \in DOMAIN queue
        PROVE  /\ Behind(nextPacketPtr)' <= Behind(queue[i].start)'
               /\ Behind(queue[i].next)' = Behind(queue[i].start)' + Taken(queue[i].len)
               /\ Behind(queue[i].next)' <= Behind(writePtr)'
    BY <1>7, <1>9, <2>2, <2>3, WaitingTypes
  <2>5. ASSUME NEW i \in DOMAIN queue, NEW j \in DOMAIN queue, i < j
        PROVE  Behind(queue[i].next)' <= Behind(queue[j].start)'
    <3>1. Behind(queue[i].next) <= Behind(queue[j].start)
      BY <2>5 DEF IInv, Placed
    <3> QED BY <1>7, <2>3, <3>1, WaitingTypes
  <2> QED BY <2>2, <2>4, <2>5 DEF Placed
<1>11. FramesIntact'
  BY DEF IInv, FramesIntact, Intact, Held, MayBeRead
<1> QED BY <1>4, <1>5, <1>10, <1>11 DEF IInv
\* A frame is taken from the ring: if it is good it is held, and its memory stays in
\* use; otherwise the memory in use begins behind it.
LEMMA ReceivePacketInvariant ==
  ASSUME IInv, NEW ok \in BOOLEAN, ReceivePacket(ok)
  PROVE  IInv'
<1> DEFINE f == queue[1]
<1>1. /\ receivePkt = NOBLOCK /\ queue # <<>> /\ f.start = nextPacketPtr
      /\ nextPacketPtr' = f.next
      /\ \/ /\ ok
            /\ receivePkt' = [id |-> f.id, start |-> f.start, size |-> f.len,
                              begin |-> Wrapped(nextPacketPtr + HEADER)]
            /\ erxrdpt' = erxrdpt
         \/ ~ok /\ erxrdpt' = ReadPointer(f.next) /\ receivePkt' = NOBLOCK
      /\ queue' = Tail(queue) /\ use' = "handled" /\ overtaken' = FALSE /\ UNCHANGED <<owner, writePtr>>
  BY DEF ReceivePacket, AfterGood, AfterBad
<1>2. /\ 1 \in DOMAIN queue /\ Oldest = f.start /\ ~Held
      /\ f \in Waiting /\ f.start \in Addresses /\ f.next \in Addresses /\ f.len \in Lengths /\ f.id \in Frames
      /\ Taken(f.len) \in Nat /\ Behind(f.next) \in Nat
  BY <1>1, WaitingTypes DEF Oldest, Held, MayBeRead
<1>3. /\ queue' \in Seq(Waiting) /\ Len(queue') = Len(queue) - 1 /\ Len(queue) \in Nat
      /\ DOMAIN queue' = 1 .. Len(queue) - 1
      /\ \A i \in DOMAIN queue' : i + 1 \in DOMAIN queue /\ queue'[i] = queue[i + 1]
  <2>1. queue \in Seq(Waiting)
    BY DEF IInv, Types
  <2>2. /\ queue' \in Seq(Waiting) /\ Len(queue') = Len(queue) - 1
        /\ \A i \in 1 .. Len(queue') : queue'[i] = queue[i + 1]
    BY <1>1, <2>1, HeadTailProperties
  <2>3. Len(queue) \in Nat /\ DOMAIN queue' = 1 .. Len(queue') /\ DOMAIN queue = 1 .. Len(queue)
    BY <2>1, <2>2
  <2> QED BY <2>2, <2>3
<1>4. Wrapped(nextPacketPtr + HEADER) \in Addresses
  <2>1. f.start \in 0 .. RXSTOP_INIT /\ HEADER = 6 /\ RXSTOP_INIT \in Nat /\ f.len + 11 < RXSTOP_INIT + 1 /\ f.len \in Nat
    BY <1>2, RingSize, TakenSize DEF HEADER
  <2> QED BY <1>1, <2>1, RingSize DEF Wrapped
<1>5. receivePkt' \in Packets \cup {NOBLOCK} /\ (ok => receivePkt' \in Packets /\ receivePkt' # NOBLOCK)
  BY <1>1, <1>2, <1>4, RingAssumption DEF Packets
<1>6. Held' <=> ok
  BY <1>1, <1>5 DEF Held, MayBeRead
<1>7. Oldest' = IF ok THEN f.start ELSE f.next
  BY <1>1, <1>6 DEF Oldest
<1>8. f.next % 2 = 0 /\ f.start % 2 = 0 /\ ReadPointer(f.next) \in Addresses
  BY <1>2, RingSize DEF IInv, Pointers, ReadPointer
<1>9. Types'
  BY <1>1, <1>2, <1>3, <1>5, <1>8 DEF IInv, Types
<1>10. Pointers'
  <2>1. erxrdpt' = ReadPointer(Oldest')
    BY <1>1, <1>2, <1>7 DEF IInv, Pointers
  <2>2. receivePkt' # NOBLOCK => receivePkt'.start = f.start
    BY <1>1
  <2>3. \A i \in DOMAIN queue' : queue'[i].start % 2 = 0 /\ queue'[i].next % 2 = 0
    BY <1>3 DEF IInv, Pointers
  <2> QED BY <1>1, <1>8, <2>1, <2>2, <2>3 DEF IInv, Pointers
<1>11. Chained'
  <2>1. CASE Len(queue) = 1
    BY <1>1, <1>3, <2>1 DEF IInv, Chained
  <2>2. CASE Len(queue) # 1
    <3>1. Len(queue) > 1 /\ queue' # <<>> /\ Len(queue') \in DOMAIN queue' /\ 1 \in DOMAIN queue'
      <4>1. Len(queue) > 1 /\ Len(queue') >= 1 /\ Len(queue') \in Nat
        BY <1>2, <1>3, <2>2, WaitingTypes
      <4>2. Len(queue') \in DOMAIN queue' /\ 1 \in DOMAIN queue'
        BY <1>3, <4>1
      <4>3. queue' # <<>>
        BY <4>1
      <4> QED BY <4>1, <4>2, <4>3
    <3>2. queue'[1] = queue[2] /\ 2 \in DOMAIN queue /\ queue[2].start = queue[2 - 1].next
      <4>1. 1 + 1 = 2 /\ 2 > 1 /\ 1 + 1 \in DOMAIN queue /\ queue'[1] = queue[1 + 1]
        BY <1>3, <3>1
      <4> QED BY <4>1 DEF IInv, Chained
    <3>3. queue'[Len(queue')] = queue[Len(queue)]
      BY <1>3, <3>1
    <3>4. ASSUME NEW i \in DOMAIN queue', i > 1
          PROVE  queue'[i].start = queue'[i - 1].next
      <4>1. i - 1 \in DOMAIN queue' /\ i + 1 \in DOMAIN queue /\ i + 1 > 1 /\ i \in Int
        BY <1>3, <3>4
      <4>2. queue[i + 1].start = queue[(i + 1) - 1].next /\ (i + 1) - 1 = (i - 1) + 1
        BY <4>1 DEF IInv, Chained
      <4> QED BY <1>3, <3>4, <4>1, <4>2
    <3> QED BY <1>1, <3>1, <3>2, <3>3, <3>4 DEF IInv, Chained
  <2> QED BY <2>1, <2>2
<1>12. /\ Behind(f.start) = 0 /\ Behind(f.next) = Taken(f.len)
       /\ Behind(f.next) <= Behind(writePtr) /\ Behind(writePtr) \in Nat
       /\ writePtr \in Addresses
       /\ \A i \in DOMAIN queue' :
            /\ Behind(f.next) <= Behind(queue'[i].start)
            /\ Behind(queue'[i].next) = Behind(queue'[i].start) + Taken(queue'[i].len)
            /\ Behind(queue'[i].next) <= Behind(writePtr)
            /\ Behind(queue'[i].start) \in Nat /\ Behind(queue'[i].next) \in Nat
            /\ Behind(f.next) <= Behind(queue'[i].next)
            /\ queue'[i].start \in Addresses /\ queue'[i].next \in Addresses
       /\ \A i, j \in DOMAIN queue' : i < j => Behind(queue'[i].next) <= Behind(queue'[j].start)
  <2>1. writePtr \in Addresses /\ Behind(writePtr) \in Nat
    BY WaitingTypes, DistCases DEF IInv, Types, Behind
  <2>2. Behind(f.start) = 0 /\ Behind(f.next) = Taken(f.len) /\ Behind(f.next) <= Behind(writePtr)
    <3>1. Behind(f.start) = 0
      <4>1. Dist(f.start, f.start) = 0
        BY <1>2, DistSelf
      <4> QED BY <1>2, <4>1 DEF Behind
    <3> QED BY <1>2, <3>1 DEF IInv, Placed
  <2>3. ASSUME NEW i \in DOMAIN queue'
        PROVE  /\ Behind(f.next) <= Behind(queue'[i].start)
               /\ Behind(queue'[i].next) = Behind(queue'[i].start) + Taken(queue'[i].len)
               /\ Behind(queue'[i].next) <= Behind(writePtr)
               /\ Behind(queue'[i].start) \in Nat /\ Behind(queue'[i].next) \in Nat
               /\ queue'[i].start \in Addresses /\ queue'[i].next \in Addresses
               /\ Taken(queue'[i].len) \in Nat
    <3>1. i + 1 \in DOMAIN queue /\ queue'[i] = queue[i + 1] /\ 1 < i + 1
      BY <1>3
    <3>2. /\ Behind(f.next) <= Behind(queue[i + 1].start)
          /\ Behind(queue[i + 1].next) = Behind(queue[i + 1].start) + Taken(queue[i + 1].len)
          /\ Behind(queue[i + 1].next) <= Behind(writePtr)
      BY <1>2, <3>1 DEF IInv, Placed
    <3> QED BY <3>1, <3>2, WaitingTypes
  <2>4. \A i \in DOMAIN queue' : Behind(f.next) <= Behind(queue'[i].next)
    BY <1>2, <2>3
  <2>5. ASSUME NEW i \in DOMAIN queue', NEW j \in DOMAIN queue', i < j
        PROVE  Behind(queue'[i].next) <= Behind(queue'[j].start)
    <3>1. i + 1 \in DOMAIN queue /\ j + 1 \in DOMAIN queue /\ i + 1 < j + 1
      BY <1>3, <2>5
    <3> QED BY <1>3, <3>1 DEF IInv, Placed
  <2> QED BY <2>1, <2>2, <2>3, <2>4, <2>5
<1>13. ASSUME NEW x \in Addresses, Behind(f.next) <= Behind(x)
       PROVE  Dist(Oldest', x) = IF ok THEN Behind(x) ELSE Behind(x) - Behind(f.next)
  <2>1. CASE ok
    BY <1>2, <1>7, <2>1 DEF Behind
  <2>2. CASE ~ok
    BY <1>2, <1>7, <1>13, <2>2, WaitingTypes, DistShift DEF Behind
  <2> QED BY <2>1, <2>2
<1>14. Placed'
  <2>1. /\ Behind(nextPacketPtr)' = (IF ok THEN Behind(f.next) ELSE 0)
        /\ Behind(writePtr)' = IF ok THEN Behind(writePtr) ELSE Behind(writePtr) - Behind(f.next)
    <3>1. Dist(Oldest', f.next) = IF ok THEN Behind(f.next) ELSE Behind(f.next) - Behind(f.next)
      BY <1>2, <1>12, <1>13
    <3>2. Dist(Oldest', writePtr) = IF ok THEN Behind(writePtr) ELSE Behind(writePtr) - Behind(f.next)
      BY <1>12, <1>13
    <3> QED BY <1>1, <1>2, <3>1, <3>2 DEF Behind, Dist
  <2>2. \A i \in DOMAIN queue' :
          /\ Behind(queue[i].start)' = IF ok THEN Behind(queue'[i].start) ELSE Behind(queue'[i].start) - Behind(f.next)
          /\ Behind(queue[i].next)' = IF ok THEN Behind(queue'[i].next) ELSE Behind(queue'[i].next) - Behind(f.next)
    BY <1>12, <1>13 DEF Behind, Dist
  <2>3. Behind(nextPacketPtr)' = IF Held' THEN Taken(receivePkt'.size) ELSE 0
    <3>1. ok => receivePkt'.size = f.len
      BY <1>1
    <3> QED BY <1>6, <1>12, <2>1, <3>1
  <2>4. Behind(nextPacketPtr)' <= Behind(writePtr)'
    BY <1>2, <1>12, <2>1
  <2>5. ASSUME NEW i \in DOMAIN queue'
        PROVE  /\ Behind(nextPacketPtr)' <= Behind(queue[i].start)'
               /\ Behind(queue[i].next)' = Behind(queue[i].start)' + Taken(queue'[i].len)
               /\ Behind(queue[i].next)' <= Behind(writePtr)'
    <3>1. Taken(queue'[i].len) \in Nat
      BY <1>3, WaitingTypes
    <3> QED BY <1>2, <1>12, <2>1, <2>2, <3>1
  <2>6. ASSUME NEW i \in DOMAIN queue', NEW j \in DOMAIN queue', i < j
        PROVE  Behind(queue[i].next)' <= Behind(queue[j].start)'
    <3>1. Behind(queue'[i].next) <= Behind(queue'[j].start)
      BY <1>12, <2>6
    <3> QED BY <1>2, <1>12, <2>2, <3>1
  <2> QED BY <2>3, <2>4, <2>5, <2>6 DEF Placed
<1>15. FramesIntact'
  <2>1. \A i \in DOMAIN queue' :
          \A a \in Span(queue'[i].start, Taken(queue'[i].len)) : owner'[a] = queue'[i].id
    BY <1>1, <1>3 DEF IInv, FramesIntact, MayBeRead, Intact
  <2>2. ok => \A a \in Span(f.start, Taken(f.len)) : owner'[a] = f.id
    BY <1>1, <1>2 DEF IInv, FramesIntact, MayBeRead, Intact
  <2>3. receivePkt' # NOBLOCK =>
          ok /\ receivePkt'.start = f.start /\ receivePkt'.size = f.len /\ receivePkt'.id = f.id
    BY <1>1
  <2> QED BY <2>1, <2>2, <2>3 DEF FramesIntact, MayBeRead, Intact
<1>16. DataBegins'
  BY <1>1 DEF DataBegins
<1> QED BY <1>9, <1>10, <1>11, <1>14, <1>15, <1>16 DEF IInv
\* The controller writes a frame behind the last one, where nothing is in use.
LEMMA ArriveInvariant ==
  ASSUME IInv, NEW id \in Frames, NEW len \in Lengths, Arrive(id, len)
  PROVE  IInv'
<1> DEFINE t == Taken(len)
           e == [id |-> id, start |-> writePtr, next |-> writePtr', len |-> len]
           n == Len(queue)
<1>1. /\ id \notin InUse /\ t <= FreeSpace
      /\ owner' = [a \in Addresses |->
                     IF a \in Span(writePtr, t) THEN id ELSE IF owner[a] = id THEN 0 ELSE owner[a]]
      /\ writePtr' = InRing(writePtr + t)
      /\ queue' = Append(queue, e)
      /\ UNCHANGED <<erxrdpt, nextPacketPtr, receivePkt, use, overtaken>>
  BY DEF Arrive
<1>2. /\ Oldest \in Addresses /\ Oldest % 2 = 0 /\ writePtr \in Addresses /\ writePtr % 2 = 0
      /\ t \in Nat /\ t % 2 = 0 /\ t > 0 /\ t < RING /\ n \in Nat
      /\ Oldest' = Oldest /\ (Held' <=> Held)
  BY <1>1, WaitingTypes, TakenSize DEF IInv, Types, Pointers, Oldest, Held, MayBeRead
<1>3. Behind(writePtr) \in Nat /\ Behind(writePtr) + t < RING
  <2>1. FreeSpace = RING - 2 - Behind(writePtr)
    BY <1>2, FreeSpaceLeft DEF IInv, Pointers, Behind
  <2>2. Behind(writePtr) \in 0 .. RING - 1
    BY <1>2, DistCases DEF Behind
  <2> QED BY <1>1, <1>2, <2>1, <2>2, RingSize
<1>4. writePtr' \in Addresses /\ Dist(Oldest, writePtr') = Behind(writePtr) + t
  BY <1>1, <1>2, <1>3, DistForward DEF Behind
<1>5. writePtr' % 2 = 0
  <2>1. writePtr \in 0 .. RING - 1 /\ t \in 0 .. RING /\ RING \in Nat /\ RING % 2 = 0
    BY <1>2, RingSize
  <2>2. writePtr' = IF writePtr + t < RING THEN writePtr + t ELSE writePtr + t - RING
    BY <1>1, <1>2, <2>1, InRingCases
  <2> HIDE DEF t
  <2> QED BY <1>2, <2>1, <2>2
<1>6. /\ queue' \in Seq(Waiting) /\ Len(queue') = n + 1 /\ DOMAIN queue' = 1 .. n + 1
      /\ DOMAIN queue = 1 .. n /\ queue' # <<>>
      /\ \A i \in 1 .. n : queue'[i] = queue[i]
      /\ queue'[n + 1] = e
  <2>1. queue \in Seq(Waiting) /\ e \in Waiting
    BY <1>2, <1>4 DEF IInv, Types, Waiting
  <2>2. /\ queue' \in Seq(Waiting) /\ queue' # <<>> /\ Len(queue') = n + 1
        /\ \A i \in 1 .. n : queue'[i] = queue[i]
        /\ queue'[n + 1] = e
    BY <1>1, <2>1, AppendProperties
  <2> QED BY <2>1, <2>2
<1>7. Types'
  <2>1. owner' \in [Addresses -> Frames \cup {0}]
    BY <1>1 DEF IInv, Types
  <2> QED BY <1>1, <1>4, <1>6, <2>1 DEF IInv, Types
<1>8. \A i \in DOMAIN queue' : i \in DOMAIN queue \/ i = n + 1
  BY <1>2, <1>6
<1>9. Pointers'
  <2>1. erxrdpt' = ReadPointer(Oldest')
    BY <1>1, <1>2 DEF IInv, Pointers
  <2>2. \A i \in DOMAIN queue' : queue'[i].start % 2 = 0 /\ queue'[i].next % 2 = 0
    BY <1>2, <1>5, <1>6, <1>8 DEF IInv, Pointers
  <2> QED BY <1>1, <1>5, <2>1, <2>2 DEF IInv, Pointers
<1>10. Chained'
  <2>1. queue'[1].start = nextPacketPtr'
    <3>1. CASE queue = <<>>
      <4>1. n = 0 /\ queue'[1] = e
        BY <1>6, <3>1
      <4> QED BY <1>1, <3>1, <4>1 DEF IInv, Chained
    <3>2. CASE queue # <<>>
      <4>1. 1 \in 1 .. n
        BY <1>2, <3>2 DEF IInv, Types
      <4> QED BY <1>1, <1>6, <3>2, <4>1 DEF IInv, Chained
    <3> QED BY <3>1, <3>2
  <2>2. queue'[Len(queue')].next = writePtr'
    BY <1>6
  <2>3. ASSUME NEW i \in DOMAIN queue', i > 1
        PROVE  queue'[i].start = queue'[i - 1].next
    <3>1. CASE i \in 1 .. n
      <4>1. i - 1 \in 1 .. n
        BY <1>2, <2>3, <3>1
      <4> QED BY <1>6, <2>3, <3>1, <4>1 DEF IInv, Chained
    <3>2. CASE i = n + 1
      <4>1. n \in 1 .. n /\ i - 1 = n /\ queue # <<>>
        BY <1>2, <2>3, <3>2
      <4>2. queue[n].next = writePtr
        BY <4>1 DEF IInv, Chained
      <4> QED BY <1>6, <3>2, <4>1, <4>2
    <3> QED BY <1>6, <1>8, <3>1, <3>2
  <2> QED BY <1>6, <2>1, <2>2, <2>3 DEF Chained
<1>11. Placed'
  <2>1. /\ Behind(nextPacketPtr)' = Behind(nextPacketPtr) /\ Behind(nextPacketPtr) \in Nat
        /\ Behind(writePtr)' = Behind(writePtr) + t
        /\ Behind(nextPacketPtr) <= Behind(writePtr)
        /\ Behind(nextPacketPtr) = IF Held THEN Taken(receivePkt.size) ELSE 0
    BY <1>1, <1>2, <1>4, DistCases DEF Behind, Dist, IInv, Types, Placed
  <2>2. ASSUME NEW i \in 1 .. n
        PROVE  /\ Behind(queue[i].start)' = Behind(queue[i].start)
               /\ Behind(queue[i].next)' = Behind(queue[i].next)
               /\ Behind(queue[i].start) \in Nat /\ Behind(queue[i].next) \in Nat
               /\ Behind(nextPacketPtr) <= Behind(queue[i].start)
               /\ Behind(queue[i].next) = Behind(queue[i].start) + Taken(queue'[i].len)
               /\ Behind(queue[i].next) <= Behind(writePtr)
    BY <1>2, <1>6, WaitingTypes DEF Behind, Dist, IInv, Placed
  <2>3. ASSUME NEW k \in DOMAIN queue', k = n + 1
        PROVE  /\ Behind(queue[k].start)' = Behind(writePtr)
               /\ Behind(queue[k].next)' = Behind(writePtr) + t
               /\ queue'[k].len = len
    <3>1. /\ queue'[k].start = writePtr /\ queue'[k].next = writePtr' /\ queue'[k].len = len
      BY <1>6, <2>3
    <3> QED BY <1>2, <1>4, <3>1 DEF Behind, Dist
  <2>4. ASSUME NEW i \in DOMAIN queue'
        PROVE  /\ Behind(nextPacketPtr)' <= Behind(queue[i].start)'
               /\ Behind(queue[i].next)' = Behind(queue[i].start)' + Taken(queue'[i].len)
               /\ Behind(queue[i].next)' <= Behind(writePtr)'
    <3>1. CASE i \in 1 .. n
      <4>1. Behind(queue[i].next) <= Behind(writePtr) + t
        BY <1>2, <1>3, <2>2, <3>1
      <4> QED BY <2>1, <2>2, <3>1, <4>1
    <3>2. CASE i = n + 1
      BY <1>2, <1>3, <2>1, <2>3, <3>2
    <3> QED BY <1>6, <1>8, <3>1, <3>2
  <2>5. ASSUME NEW i \in DOMAIN queue', NEW j \in DOMAIN queue', i < j
        PROVE  Behind(queue[i].next)' <= Behind(queue[j].start)'
    <3>1. i \in 1 .. n
      BY <1>2, <1>6, <2>5
    <3>2. CASE j \in 1 .. n
      <4>1. Behind(queue[i].next) <= Behind(queue[j].start)
        BY <1>6, <2>5, <3>1, <3>2 DEF IInv, Placed
      <4> QED BY <2>2, <3>1, <3>2, <4>1
    <3>3. CASE j = n + 1
      BY <2>2, <2>3, <3>1, <3>3
    <3> QED BY <1>6, <1>8, <3>2, <3>3
  <2>6. Behind(nextPacketPtr)' <= Behind(writePtr)'
    BY <1>2, <1>3, <2>1
  <2>7. Behind(nextPacketPtr)' = IF Held' THEN Taken(receivePkt'.size) ELSE 0
    BY <1>1, <1>2, <2>1
  <2> QED BY <2>4, <2>5, <2>6, <2>7 DEF Placed
<1>12. \A a \in Span(writePtr, t) : a \in Addresses /\ Behind(writePtr) <= Behind(a)
  BY <1>2, <1>3, SpanPlace DEF Behind
<1>13. ASSUME NEW s \in Addresses, NEW k \in Nat, Behind(s) + k <= Behind(writePtr), NEW a \in Span(s, k),
              owner[a] # id
       PROVE  owner'[a] = owner[a]
  <2>1. Behind(s) \in Nat /\ Behind(s) + k < RING
    <3>1. Behind(s) \in Nat
      BY <1>2, DistCases DEF Behind
    <3>2. RING \in Nat /\ t > 0 /\ t \in Nat
      BY <1>2, RingSize
    <3> HIDE DEF t
    <3> QED BY <1>3, <1>13, <3>1, <3>2
  <2>2. a \in Addresses /\ Behind(a) < Behind(s) + k /\ Behind(a) \in Nat
    BY <1>2, <2>1, SpanPlace, DistCases DEF Behind
  <2>3. a \notin Span(writePtr, t)
    BY <1>3, <1>12, <1>13, <2>1, <2>2
  <2> QED BY <1>1, <1>13, <2>2, <2>3
<1>14. FramesIntact'
  <2>1. ASSUME NEW i \in 1 .. n, NEW a \in Span(queue[i].start, Taken(queue[i].len))
        PROVE  owner'[a] = queue[i].id
    <3>1. owner[a] = queue[i].id /\ queue[i].id # id
      BY <1>1, <1>6 DEF IInv, FramesIntact, MayBeRead, Intact, InUse
    <3>2. Behind(queue[i].start) + Taken(queue[i].len) <= Behind(writePtr)
      BY <1>6 DEF IInv, Placed
    <3> QED BY <1>6, <1>13, <3>1, <3>2, WaitingTypes
  <2>2. \A a \in Span(writePtr, t) : owner'[a] = id
    BY <1>1, <1>12
  <2>3. ASSUME NEW i \in DOMAIN queue', NEW a \in Span(queue'[i].start, Taken(queue'[i].len))
        PROVE  owner'[a] = queue'[i].id
    <3>1. CASE i \in 1 .. n
      BY <1>6, <2>1, <2>3, <3>1
    <3>2. CASE i = n + 1
      BY <1>6, <2>2, <2>3, <3>2
    <3> QED BY <1>6, <1>8, <3>1, <3>2
  <2>4. ASSUME Held, NEW a \in Span(receivePkt.start, Taken(receivePkt.size))
        PROVE  owner'[a] = receivePkt.id
    <3>1. /\ receivePkt \in Packets /\ receivePkt # NOBLOCK /\ Oldest = receivePkt.start
          /\ receivePkt.size \in Lengths /\ receivePkt.start \in Addresses
      BY <2>4 DEF Held, MayBeRead, Oldest, IInv, Types, Packets
    <3>2. Behind(receivePkt.start) = 0 /\ Taken(receivePkt.size) \in Nat
      BY <3>1, DistSelf, TakenSize DEF Behind
    <3>3. Behind(receivePkt.start) + Taken(receivePkt.size) <= Behind(writePtr)
      BY <2>4, <3>2 DEF IInv, Placed
    <3>4. owner[a] = receivePkt.id /\ receivePkt.id # id
      BY <1>1, <2>4 DEF Held, MayBeRead, IInv, FramesIntact, Intact, InUse
    <3> QED BY <1>13, <3>1, <3>2, <3>3, <3>4
  <2> QED BY <1>1, <2>3, <2>4 DEF FramesIntact, Intact, Held, MayBeRead
<1>15. DataBegins'
  BY <1>1 DEF IInv, DataBegins
<1> QED BY <1>7, <1>9, <1>10, <1>11, <1>14, <1>15 DEF IInv

\* Every step keeps the invariant.
LEMMA StepInvariant ==
  ASSUME IInv, [Next]_vars
  PROVE  IInv'
<1>1. CASE UNCHANGED vars
  BY <1>1 DEF vars, IInv, Types, Pointers, Chained, Placed, DataBegins, FramesIntact, Intact, Held, MayBeRead, Oldest, Behind, Dist
<1>2. CASE CopyPacket
  <2>1. /\ receivePkt' = receivePkt /\ overtaken' = overtaken /\ use' = "copied"
        /\ erxrdpt' = ReadPointer(nextPacketPtr) /\ UNCHANGED <<owner, writePtr, queue, nextPacketPtr>>
    BY <1>2 DEF CopyPacket
  <2>2. ~Held' /\ overtaken' \in BOOLEAN
    BY <2>1 DEF Held, MayBeRead, IInv, Types
  <2> QED BY <2>1, <2>2, GivenBackInvariant
<1>3. CASE CopyBlocks
  <2>1. /\ receivePkt' = receivePkt /\ overtaken' = (receivePkt # NOBLOCK)
        /\ erxrdpt' = ReadPointer(nextPacketPtr) /\ UNCHANGED <<owner, writePtr, queue, nextPacketPtr>>
    BY <1>3 DEF CopyBlocks
  <2>2. ~Held' /\ overtaken' \in BOOLEAN
    BY <2>1 DEF Held, MayBeRead
  <2> QED BY <2>1, <2>2, GivenBackInvariant
<1>4. CASE FreePacket
  BY <1>4, GivenBackInvariant DEF FreePacket, Held, MayBeRead
<1>5. CASE KeepPacket \/ ReadAgain
  <2>1. UNCHANGED <<owner, writePtr, erxrdpt, queue, nextPacketPtr, receivePkt, overtaken>>
        /\ (MayBeRead' <=> MayBeRead)
    BY <1>5 DEF KeepPacket, ReadAgain, MayBeRead
  <2> QED BY <2>1 DEF IInv, Types, Pointers, Chained, Placed, DataBegins, FramesIntact, Intact, Held, MayBeRead,
                      Oldest, Behind, Dist
<1> QED BY <1>1, <1>2, <1>3, <1>4, <1>5, ArriveInvariant, ReceivePacketInvariant DEF Next

-----------------------------------------------------------------------------

\* The inductive invariant holds in every state.
THEOREM Invariance == Spec => []IInv
<1>1. Init => IInv
  BY InitInvariant
<1>2. IInv /\ [Next]_vars => IInv'
  BY StepInvariant
<1> QED BY <1>1, <1>2, PTL DEF Spec

\* No frame that waits is overwritten, nor the one held as long as it may be read, unless
\* outgoing data were copied while it was kept, for a ring of any size
\* (Enc28J60Network.cpp:149-208, 344-354, 408-412).
THEOREM FramesStayIntact == Spec => []FramesIntact
<1>1. IInv => FramesIntact
  BY DEF IInv
<1> QED BY <1>1, Invariance, PTL

\* The whole ring is given back, and ERXRDPT is odd as the errata demand
\* (Enc28J60Network.cpp:93, 197-208; enc28j60.h:245-247).
THEOREM RingIsReclaimed == Spec => []Reclaimed
<1>1. ASSUME IInv PROVE Reclaimed
  <2>1. /\ Oldest \in Addresses /\ Oldest % 2 = 0 /\ erxrdpt = ReadPointer(Oldest)
        /\ writePtr \in Addresses /\ writePtr % 2 = 0
    BY <1>1, WaitingTypes DEF IInv, Types, Pointers
  <2>2. erxrdpt % 2 = 1 /\ FreeSpace = RING - 2 - Dist(Oldest, writePtr)
    BY <2>1, FreeSpaceLeft
  <2>3. ASSUME queue = <<>>, receivePkt = NOBLOCK
        PROVE  FreeSpace >= RXSTOP_INIT - 1
    <3>1. Oldest = writePtr
      BY <1>1, <2>3 DEF Oldest, Held, MayBeRead, IInv, Chained
    <3>2. Dist(Oldest, writePtr) = 0
      BY <2>1, <3>1, DistSelf
    <3> QED BY <2>2, <3>2, RingSize
  <2> QED BY <2>2, <2>3 DEF Reclaimed
<1> QED BY <1>1, Invariance, PTL

\* The address from which the byte at pos of a frame is read: one too far behind
\* the end of the ring, and right before it.
LEMMA ReadAddress ==
  ASSUME NEW start \in Addresses, NEW size \in Lengths, NEW pos \in 0 .. size - 1
  PROVE  LET src == Wrapped(Wrapped(start + HEADER) + pos)
             a == start + HEADER + pos
         IN  /\ src = InRing(a) + (IF a > RXSTOP_INIT THEN 1 ELSE 0)
             /\ src \in 0 .. RXSTOP_INIT
<1> DEFINE k == HEADER + pos
           src == Wrapped(Wrapped(start + HEADER) + pos)
<1>1. /\ HEADER = 6 /\ RXSTOP_INIT \in Nat /\ RING = RXSTOP_INIT + 1 /\ start \in 0 .. RXSTOP_INIT
      /\ size \in Nat \ {0} /\ size + 11 < RING /\ pos \in Nat /\ pos < size
  BY RingSize, TakenSize DEF HEADER
<1>2. k \in 0 .. RING /\ start + k = start + HEADER + pos
  BY <1>1
<1>3. InRing(start + k) = IF start + k <= RXSTOP_INIT THEN start + k ELSE start + k - RING
  <2>1. InRing(start + k) = IF start + k < RING THEN start + k ELSE start + k - RING
    <3> HIDE DEF k
    <3> QED BY <1>2, InRingCases
  <2> QED BY <1>1, <2>1
<1>4. CASE start + HEADER > RXSTOP_INIT
  <2>1. Wrapped(start + HEADER) = start + HEADER - RXSTOP_INIT
    BY <1>1, <1>4 DEF Wrapped
  <2>2. start + HEADER - RXSTOP_INIT + pos <= RXSTOP_INIT
    BY <1>1
  <2>3. src = start + HEADER - RXSTOP_INIT + pos
    BY <1>1, <2>1, <2>2 DEF Wrapped
  <2> QED BY <1>1, <1>2, <1>3, <1>4, <2>2, <2>3
<1>5. CASE start + HEADER <= RXSTOP_INIT
  <2>1. Wrapped(start + HEADER) = start + HEADER
    BY <1>1, <1>5 DEF Wrapped
  <2>2. src = IF start + HEADER + pos > RXSTOP_INIT THEN start + HEADER + pos - RXSTOP_INIT
              ELSE start + HEADER + pos
    BY <1>1, <2>1 DEF Wrapped
  <2> QED BY <1>1, <1>2, <1>3, <1>5, <2>2
<1> QED BY <1>1, <1>4, <1>5

\* A copy that begins in the ring copies what was asked, or one byte more.
LEMMA CopyLength ==
  ASSUME NEW src \in 0 .. RXSTOP_INIT, NEW n \in Nat, 1 <= n, n < RING
  PROVE  Copied(src, n) \in {n, n + 1}
<1>1. RXSTOP_INIT \in Nat /\ RING = RXSTOP_INIT + 1
  BY RingSize
<1>2. CASE n = 1
  BY <1>2 DEF Copied
<1>3. CASE n # 1 /\ src + n - 1 > RXSTOP_INIT
  <2>1. LastByte(src, n) - src = n - 1 - RXSTOP_INIT
    BY <1>1, <1>3 DEF LastByte
  <2>2. (n - 1 - RXSTOP_INIT) % RING = n
    BY <1>1, <1>3
  <2> QED BY <1>3, <2>1, <2>2 DEF Copied
<1>4. CASE n # 1 /\ src + n - 1 <= RXSTOP_INIT
  <2>1. LastByte(src, n) - src = n - 1
    BY <1>1, <1>4 DEF LastByte
  <2>2. (n - 1) % RING = n - 1
    BY <1>1, <1>4
  <2> QED BY <1>4, <2>1, <2>2 DEF Copied
<1> QED BY <1>1, <1>2, <1>3, <1>4

\* Reading and copying are off by at most one byte, so that no copy runs through
\* the whole buffer (Enc28J60Network.cpp:159, 284, 349, 369-390).
THEOREM ReadingIsOffByOne == Spec => []OffByOneAtMost
<1>1. ASSUME IInv PROVE OffByOneAtMost
  <2> SUFFICES ASSUME receivePkt # NOBLOCK, NEW pos \in 0 .. receivePkt.size - 1
               PROVE  LET src == Wrapped(receivePkt.begin + pos)
                          a == receivePkt.start + HEADER + pos
                      IN /\ src = InRing(a) + (IF a > RXSTOP_INIT THEN 1 ELSE 0)
                         /\ \A n \in 1 .. receivePkt.size - pos : Copied(src, n) \in {n, n + 1}
    BY DEF OffByOneAtMost
  <2> DEFINE src == Wrapped(receivePkt.begin + pos)
  <2>1. /\ receivePkt.start \in Addresses /\ receivePkt.size \in Lengths
        /\ receivePkt.begin = Wrapped(receivePkt.start + HEADER)
    BY <1>1 DEF IInv, Types, Packets, DataBegins
  <2>2. /\ src = InRing(receivePkt.start + HEADER + pos) +
                   (IF receivePkt.start + HEADER + pos > RXSTOP_INIT THEN 1 ELSE 0)
        /\ src \in 0 .. RXSTOP_INIT
    BY <2>1, ReadAddress
  <2>3. ASSUME NEW n \in 1 .. receivePkt.size - pos
        PROVE  Copied(src, n) \in {n, n + 1}
    <3>1. receivePkt.size \in Nat /\ receivePkt.size + 11 < RING /\ RING \in Nat
      BY <2>1, TakenSize, RingSize
    <3>2. n \in Nat /\ 1 <= n /\ n < RING
      BY <3>1
    <3> HIDE DEF src
    <3> QED BY <2>2, <3>2, CopyLength
  <2> QED BY <2>2, <2>3
<1> QED BY <1>1, Invariance, PTL

-----------------------------------------------------------------------------
(* Sums of words *)

Word == 0 .. M16 - 1

\* The sum of the words x with the carries added in.
Folded(x) == IF x = 0 THEN 0 ELSE 1 + ((x - 1) % (M16 - 1))

\* The sum of words without carries, as the reference takes it.
Plus(words) == FoldLeft(LAMBDA x, y : x + y, 0, words)

\* The remainder is what is left.
LEMMA Rest == ASSUME NEW d \in Nat \ {0}, NEW q \in Nat, NEW r \in 0..d-1 PROVE (d*q + r) % d = r
OBVIOUS

\* The quotient leaves the remainder.
LEMMA Whole == ASSUME NEW d \in Nat \ {0}, NEW q \in Nat, NEW r \in 0..d-1 PROVE (d*q + r) \div d = q
OBVIOUS

\* Whole units and the rest.
LEMMA Quotient ==
  ASSUME NEW n \in Nat, NEW d \in Nat \ {0}
  PROVE  n \div d \in Nat /\ n = d * (n \div d) + (n % d) /\ n % d \in 0 .. d - 1
OBVIOUS

\* One more.
LEMMA OneMore ==
  ASSUME NEW d \in Nat, NEW q \in Nat
  PROVE  d * q \in Nat /\ d * (q + 1) = d * q + d /\ d * 0 = 0 /\ d * 1 = d
OBVIOUS

\* Words have 16 bits.
LEMMA Width == M16 \in Nat /\ M16 > 1000
BY SMT DEF M16

\* One step of the sum, without the remainder.
LEMMA AddWordIs ==
  ASSUME NEW x \in Word, NEW t \in Word
  PROVE  AddWord(x, t) = IF x + t < M16 THEN x + t ELSE x + t - (M16 - 1)
<1> DEFINE m == M16
<1>1. m \in Nat \ {0}
  BY Width
<1>4. x \in 0 .. m - 1 /\ t \in 0 .. m - 1
  BY DEF Word
<1>5. AddWord(x, t) = IF (x + t) % m < t THEN ((x + t) % m) + 1 ELSE (x + t) % m
  BY DEF AddWord
<1> HIDE DEF m
<1>2. CASE x + t < m
  <2> DEFINE r == x + t
  <2>1. r \in 0 .. m - 1 /\ m * 0 + r = r /\ 0 \in Nat
    BY <1>1, <1>4, <1>2
  <2> HIDE DEF r
  <2>2. r % m = r
    BY <1>1, <2>1, Rest
  <2>4. ~(r < t)
    BY <1>4 DEF r
  <2>5. AddWord(x, t) = r
    BY <1>5, <2>2, <2>4 DEF r
  <2> QED BY <1>2, <2>5 DEF r, m
<1>3. CASE ~(x + t < m)
  <2> DEFINE r == x + t - m
  <2>1. r \in 0 .. m - 1 /\ m * 1 + r = x + t /\ 1 \in Nat
    BY <1>1, <1>4, <1>3
  <2>4. r < t /\ r + 1 = x + t - (m - 1)
    BY <1>1, <1>4, <1>3
  <2> HIDE DEF r
  <2>2. (m * 1 + r) % m = r
    BY <1>1, <2>1, Rest
  <2>5. AddWord(x, t) = r + 1
    BY <1>5, <2>1, <2>2, <2>4
  <2> QED BY <1>3, <2>4, <2>5 DEF m
<1> QED BY <1>2, <1>3

\* The sum is the remainder between 1 and 2^16 - 1.
LEMMA FoldedIs ==
  ASSUME NEW x \in Nat
  PROVE  /\ x = 0 => Folded(x) = 0
         /\ x > 0 => /\ Folded(x) \in 1 .. M16 - 1
                     /\ \E q \in Nat : x = (M16 - 1) * q + Folded(x)
<1>1. x = 0 => Folded(x) = 0
  BY DEF Folded
<1>2. ASSUME x > 0
      PROVE  Folded(x) \in 1 .. M16 - 1 /\ \E q \in Nat : x = (M16 - 1) * q + Folded(x)
  <2> DEFINE d == M16 - 1
             n == x - 1
             r == n % d
             q == n \div d
  <2>1. n \in Nat /\ x = n + 1 /\ x # 0
    BY <1>2
  <2>2. d \in Nat \ {0}
    BY Width
  <2>3. Folded(x) = 1 + r
    BY <2>1 DEF Folded
  <2> HIDE DEF n, d
  <2>5. q \in Nat /\ n = d * q + r /\ r \in 0 .. d - 1
    BY <2>1, <2>2, Quotient
  <2> DEFINE p == d * q
  <2> HIDE DEF r, q
  <2>4. q \in Nat /\ n = d * q + r /\ r \in 0 .. d - 1 /\ d * q \in Nat
    BY <2>2, <2>5, OneMore
  <2>6. Folded(x) \in 1 .. d
    BY <2>2, <2>3, <2>4
  <2>7. n = p + r /\ p \in Nat
    BY <2>4
  <2> HIDE DEF p
  <2>8. x = p + Folded(x)
    BY <2>1, <2>3, <2>4, <2>7
  <2> QED BY <2>4, <2>6, <2>8 DEF p, d
<1> QED BY <1>1, <1>2

\* There is one such remainder.
LEMMA FoldedOf ==
  ASSUME NEW q \in Nat, NEW r \in 1 .. M16 - 1
  PROVE  Folded((M16 - 1) * q + r) = r
<1> DEFINE d == M16 - 1
           s == d * q
           x == s + r
           p == r - 1
<1>2. d \in Nat \ {0} /\ r \in 1 .. d
  BY Width
<1>3. Folded(x) = IF x = 0 THEN 0 ELSE 1 + ((x - 1) % d)
  BY DEF Folded
<1> HIDE DEF d
<1>4. s \in Nat
  BY <1>2, OneMore
<1> HIDE DEF s
<1>1. x \in Nat /\ x # 0 /\ p \in 0 .. d - 1 /\ s + p = x - 1 /\ r = 1 + p
  BY <1>2, <1>4
<1> HIDE DEF x, p
<1>5. (s + p) % d = p
  BY <1>1, <1>2, Rest DEF s
<1>6. Folded(x) = r
  BY <1>1, <1>3, <1>5
<1> QED BY <1>6 DEF x, s, d

\* One step keeps the carries.
LEMMA AddFolded ==
  ASSUME NEW x \in Nat, NEW t \in Word
  PROVE  /\ Folded(x) \in Word /\ AddWord(Folded(x), t) = Folded(x + t)
         /\ Folded(x + t) \in Word
<1> DEFINE y == Folded(x)
           d == M16 - 1
<1>1. d \in Nat \ {0} /\ M16 = d + 1 /\ t \in 0 .. d /\ x + t \in Nat /\ Word = 0 .. d
  BY Width DEF Word
<1>2. y \in 0 .. d /\ (x = 0 => y = 0) /\ (x > 0 => y > 0 /\ \E q \in Nat : x = d * q + y)
  <2>1. CASE x = 0
    <3>1. y = 0
      BY <2>1, FoldedIs
    <3> HIDE DEF y, d
    <3> QED BY <1>1, <2>1, <3>1
  <2>2. CASE x > 0
    <3>1. y \in 1 .. d /\ \E q \in Nat : x = d * q + y
      BY <2>2, FoldedIs
    <3> HIDE DEF y, d
    <3> QED BY <1>1, <2>2, <3>1
  <2> QED BY <2>1, <2>2
<1>4. AddWord(y, t) = IF y + t < M16 THEN y + t ELSE y + t - d
  <2>1. y \in Word
    BY <1>1, <1>2
  <2> HIDE DEF y
  <2> QED BY <2>1, AddWordIs
<1>7. \A q \in Nat, r \in 1 .. d : Folded(d * q + r) = r
  BY FoldedOf
<1>8. SUFFICES AddWord(y, t) = Folded(x + t) /\ Folded(x + t) \in 0 .. d
  BY <1>1, <1>2
<1> HIDE DEF y, d
<1>5. CASE x = 0
  <2>1. y = 0 /\ x + t = t /\ AddWord(y, t) = t
    BY <1>1, <1>2, <1>4, <1>5
  <2>2. Folded(t) = t
    <3>1. CASE t = 0
      BY <3>1, FoldedIs
    <3>2. CASE t # 0
      <4>1. t \in 1 .. d /\ d * 0 + t = t /\ 0 \in Nat
        BY <1>1, <3>2
      <4> QED BY <1>7, <4>1
    <3> QED BY <3>1, <3>2
  <2> QED BY <1>1, <2>1, <2>2
<1>6. CASE x > 0
  <2>1. PICK q \in Nat : x = d * q + y
    BY <1>2, <1>6
  <2>2. y \in 1 .. d
    BY <1>1, <1>2, <1>6
  <2> DEFINE p == d * q
  <2>5. p \in Nat /\ x = p + y /\ d * (q + 1) = p + d /\ q + 1 \in Nat
    BY <1>1, <2>1, OneMore
  <2>6. \A r \in 1 .. d : Folded(p + r) = r /\ Folded(p + d + r) = r
    BY <1>7, <2>5
  <2> HIDE DEF p
  <2>3. CASE y + t < M16
    <3>1. y + t \in 1 .. d /\ x + t = p + (y + t)
      BY <1>1, <2>2, <2>3, <2>5
    <3>2. Folded(x + t) = y + t
      BY <2>6, <3>1
    <3> QED BY <1>1, <1>4, <2>3, <3>1, <3>2
  <2>4. CASE ~(y + t < M16)
    <3>1. y + t - d \in 1 .. d /\ x + t = p + d + (y + t - d)
      BY <1>1, <2>2, <2>4, <2>5
    <3>2. Folded(x + t) = y + t - d
      BY <2>6, <3>1
    <3> QED BY <1>1, <1>4, <2>4, <3>1, <3>2
  <2> QED BY <2>3, <2>4
<1> QED BY <1>5, <1>6

\* The sum of two words is a word.
LEMMA AddWordType ==
  ASSUME NEW x \in Word, NEW t \in Word
  PROVE  AddWord(x, t) \in Word
<1>1. x \in 0 .. M16 - 1 /\ t \in 0 .. M16 - 1 /\ M16 \in Nat
  BY Width DEF Word
<1>2. AddWord(x, t) \in 0 .. M16 - 1
  BY <1>1, AddWordIs
<1> QED BY <1>2 DEF Word
-----------------------------------------------------------------------------
(* Folds over words *)

\* r has the sums of the first 0, 1, .. words.
Sums16(r, a, w) == r[0] = a /\ \A k \in 1 .. Len(w) : r[k] = AddWord(r[k - 1], w[k])
SumsPlus(r, w) == r[0] = 0 /\ \A k \in 1 .. Len(w) : r[k] = r[k - 1] + w[k]

\* FoldLeft adds word by word.
LEMMA FoldIsSums16 ==
  ASSUME NEW a \in Word, NEW w \in Seq(Word)
  PROVE  \E r : Sums16(r, a, w) /\ FoldLeft(AddWord, a, w) = r[Len(w)]
<1> DEFINE n == Len(w)
           F == [p \in Word \X Word |-> AddWord(p[1], p[2])]
           Is(g) == g = [s \in SUBSET DOMAIN w |->
                           IF s = {} THEN a ELSE AddWord(g[s \ {Max(s)}], w[Max(s)])]
           g == CHOOSE h : Is(h)
<1>1. n \in Nat /\ DOMAIN w = 1 .. n /\ w \in [1 .. n -> Word]
  OBVIOUS
<1>2. F \in [Word \X Word -> Word]
  <2>1. \A p \in Word \X Word : AddWord(p[1], p[2]) \in Word
    BY AddWordType
  <2> QED BY <2>1
<1>3. PICK f \in [SUBSET (1 .. n) -> Word] : FoldsBy(f, F, a, w, n)
  <2> HIDE DEF F, n
  <2> QED BY <1>1, <1>2, FoldExists
<1>4. Is(f)
  <2>1. ASSUME NEW s \in SUBSET (1 .. n)
        PROVE  f[s] = IF s = {} THEN a ELSE AddWord(f[s \ {Max(s)}], w[Max(s)])
    <3>1. CASE s = {}
      BY <1>3, <3>1 DEF FoldsBy
    <3>2. CASE s # {}
      <4>1. Max(s) \in 1 .. n
        <5> HIDE DEF n
        <5> QED BY <1>1, <3>2, MaxIn
      <4>2. w[Max(s)] \in Word /\ f[s \ {Max(s)}] \in Word
        BY <1>1, <4>1
      <4>3. f[s] = F[<<f[s \ {Max(s)}], w[Max(s)]>>]
        BY <1>3, <3>2 DEF FoldsBy
      <4> QED BY <3>2, <4>2, <4>3
    <3> QED BY <3>1, <3>2
  <2>2. f = [s \in SUBSET (1 .. n) |-> f[s]]
    BY <1>3
  <2> HIDE DEF n, F
  <2> QED BY <1>1, <2>1, <2>2
<1>5. Is(g)
  BY <1>4
<1>6. FoldLeft(AddWord, a, w) = g[DOMAIN w]
  BY DEF FoldLeft, MapThenFoldSet
<1> DEFINE r == [k \in 0 .. n |-> g[1 .. k]]
<1>7. \A s \in SUBSET (1 .. n) : g[s] = IF s = {} THEN a ELSE AddWord(g[s \ {Max(s)}], w[Max(s)])
  <2> HIDE DEF g, n
  <2> QED BY <1>1, <1>5
<1> HIDE DEF g, n
<1>8. r[0] = a
  <2>1. 1 .. 0 = {} /\ 0 \in 0 .. n
    BY <1>1
  <2> QED BY <1>7, <2>1
<1>9. ASSUME NEW k \in 1 .. n PROVE r[k] = AddWord(r[k - 1], w[k])
  <2>1. k \in Nat \ {0} /\ k \in 0 .. n /\ k - 1 \in 0 .. n /\ 1 .. k \in SUBSET (1 .. n)
    BY <1>1
  <2>2. g[1 .. k] = AddWord(g[1 .. k - 1], w[k])
    BY <1>7, <2>1, FirstK
  <2> QED BY <2>1, <2>2
<1>10. r[n] = g[DOMAIN w]
  BY <1>1
<1> HIDE DEF r
<1>11. Sums16(r, a, w)
  BY <1>8, <1>9 DEF Sums16, n
<1> QED BY <1>6, <1>10, <1>11 DEF n

\* The sum without carries is added word by word.
LEMMA FoldIsPlus ==
  ASSUME NEW w \in Seq(Nat)
  PROVE  \E r : SumsPlus(r, w) /\ Plus(w) = r[Len(w)]
<1> DEFINE n == Len(w)
           F == [p \in Nat \X Nat |-> p[1] + p[2]]
           Is(g) == g = [s \in SUBSET DOMAIN w |->
                           IF s = {} THEN 0 ELSE g[s \ {Max(s)}] + w[Max(s)]]
           g == CHOOSE h : Is(h)
<1>1. n \in Nat /\ DOMAIN w = 1 .. n /\ w \in [1 .. n -> Nat]
  OBVIOUS
<1>2. F \in [Nat \X Nat -> Nat]
  <2>1. \A p \in Nat \X Nat : p[1] + p[2] \in Nat
    OBVIOUS
  <2> QED BY <2>1
<1>3. PICK f \in [SUBSET (1 .. n) -> Nat] : FoldsBy(f, F, 0, w, n)
  <2> HIDE DEF F, n
  <2> QED BY <1>1, <1>2, FoldExists
<1>4. Is(f)
  <2>1. ASSUME NEW s \in SUBSET (1 .. n)
        PROVE  f[s] = IF s = {} THEN 0 ELSE f[s \ {Max(s)}] + w[Max(s)]
    <3>1. CASE s = {}
      BY <1>3, <3>1 DEF FoldsBy
    <3>2. CASE s # {}
      <4>1. Max(s) \in 1 .. n
        <5> HIDE DEF n
        <5> QED BY <1>1, <3>2, MaxIn
      <4>2. w[Max(s)] \in Nat /\ f[s \ {Max(s)}] \in Nat
        BY <1>1, <4>1
      <4>3. f[s] = F[<<f[s \ {Max(s)}], w[Max(s)]>>]
        BY <1>3, <3>2 DEF FoldsBy
      <4> QED BY <3>2, <4>2, <4>3
    <3> QED BY <3>1, <3>2
  <2>2. f = [s \in SUBSET (1 .. n) |-> f[s]]
    BY <1>3
  <2> HIDE DEF n, F
  <2> QED BY <1>1, <2>1, <2>2
<1>5. Is(g)
  BY <1>4
<1>6. Plus(w) = g[DOMAIN w]
  BY DEF Plus, FoldLeft, MapThenFoldSet
<1> DEFINE r == [k \in 0 .. n |-> g[1 .. k]]
<1>7. \A s \in SUBSET (1 .. n) : g[s] = IF s = {} THEN 0 ELSE g[s \ {Max(s)}] + w[Max(s)]
  <2> HIDE DEF g, n
  <2> QED BY <1>1, <1>5
<1> HIDE DEF g, n
<1>8. r[0] = 0
  <2>1. 1 .. 0 = {} /\ 0 \in 0 .. n
    BY <1>1
  <2> QED BY <1>7, <2>1
<1>9. ASSUME NEW k \in 1 .. n PROVE r[k] = r[k - 1] + w[k]
  <2>1. k \in Nat \ {0} /\ k \in 0 .. n /\ k - 1 \in 0 .. n /\ 1 .. k \in SUBSET (1 .. n)
    BY <1>1
  <2>2. g[1 .. k] = g[1 .. k - 1] + w[k]
    BY <1>7, <2>1, FirstK
  <2> QED BY <2>1, <2>2
<1>10. r[n] = g[DOMAIN w]
  BY <1>1
<1> HIDE DEF r
<1>11. SumsPlus(r, w)
  BY <1>8, <1>9 DEF SumsPlus, n
<1> QED BY <1>6, <1>10, <1>11 DEF n

\* The checksum is the sum without carries, folded.
LEMMA ChecksumIsFolded ==
  ASSUME NEW x \in Nat, NEW w \in Seq(Word)
  PROVE  Plus(w) \in Nat /\ FoldLeft(AddWord, Folded(x), w) = Folded(x + Plus(w))
<1>1. w \in Seq(Nat) /\ Len(w) \in Nat /\ \A k \in 1 .. Len(w) : w[k] \in Word /\ w[k] \in Nat
  <2>1. Word \subseteq Nat
    BY Width DEF Word
  <2>2. Len(w) \in Nat /\ w \in [1 .. Len(w) -> Word]
    OBVIOUS
  <2>3. w \in [1 .. Len(w) -> Nat]
    BY <2>1, <2>2
  <2> QED BY <2>1, <2>2, <2>3
<1>2. PICK r : SumsPlus(r, w) /\ Plus(w) = r[Len(w)]
  BY <1>1, FoldIsPlus
<1>3. Folded(x) \in Word
  <2>1. 0 \in Word
    BY Width DEF Word
  <2> QED BY <2>1, AddFolded
<1>4. PICK f : Sums16(f, Folded(x), w) /\ FoldLeft(AddWord, Folded(x), w) = f[Len(w)]
  BY <1>3, FoldIsSums16
<1> DEFINE S == {k \in 0 .. Len(w) : r[k] \in Nat /\ f[k] = Folded(x + r[k])}
<1>5. 0 \in S
  BY <1>1, <1>2, <1>4 DEF SumsPlus, Sums16
<1>6. ASSUME NEW k \in 1 .. Len(w), k - 1 \in S PROVE k \in S
  <2>1. r[k - 1] \in Nat /\ f[k - 1] = Folded(x + r[k - 1]) /\ w[k] \in Word /\ w[k] \in Nat
    BY <1>1, <1>6
  <2>2. r[k] = r[k - 1] + w[k] /\ f[k] = AddWord(f[k - 1], w[k])
    BY <1>2, <1>4 DEF SumsPlus, Sums16
  <2>3. AddWord(Folded(x + r[k - 1]), w[k]) = Folded((x + r[k - 1]) + w[k])
    BY <2>1, AddFolded
  <2>4. (x + r[k - 1]) + w[k] = x + r[k] /\ r[k] \in Nat
    BY <2>1, <2>2
  <2> QED BY <1>1, <2>1, <2>2, <2>3, <2>4
<1>7. Len(w) \in S
  <2> HIDE DEF S
  <2> DEFINE n == Len(w)
  <2>1. n \in Nat /\ \A k \in 1 .. n : k - 1 \in S => k \in S
    BY <1>1, <1>6
  <2> HIDE DEF n
  <2>2. 0 .. n \subseteq S
    BY <1>5, <2>1, UpTo
  <2> QED BY <2>1, <2>2 DEF n
<1> QED BY <1>2, <1>4, <1>7

\* The sum of two sequences.
LEMMA PlusJoins ==
  ASSUME NEW u \in Seq(Nat), NEW v \in Seq(Nat)
  PROVE  Plus(u) \in Nat /\ Plus(v) \in Nat /\ Plus(u \o v) = Plus(u) + Plus(v)
<1> DEFINE w == u \o v
           m == Len(u)
           n == Len(v)
<1>1. /\ w \in Seq(Nat) /\ Len(w) = m + n /\ m \in Nat /\ n \in Nat
      /\ \A k \in 1 .. m : w[k] = u[k] /\ u[k] \in Nat
      /\ \A k \in 1 .. n : w[m + k] = v[k] /\ v[k] \in Nat
  OBVIOUS
<1>2. PICK p : SumsPlus(p, u) /\ Plus(u) = p[m]
  BY FoldIsPlus
<1>3. PICK q : SumsPlus(q, v) /\ Plus(v) = q[n]
  BY FoldIsPlus
<1>4. PICK r : SumsPlus(r, w) /\ Plus(w) = r[m + n]
  <2> HIDE DEF w
  <2> QED BY <1>1, FoldIsPlus
<1>5. /\ p[0] = 0 /\ \A k \in 1 .. m : p[k] = p[k - 1] + u[k]
      /\ q[0] = 0 /\ \A k \in 1 .. n : q[k] = q[k - 1] + v[k]
      /\ r[0] = 0 /\ \A k \in 1 .. m + n : r[k] = r[k - 1] + w[k]
  BY <1>1, <1>2, <1>3, <1>4 DEF SumsPlus
<1> HIDE DEF w, m, n
<1> DEFINE S == {k \in 0 .. m : r[k] = p[k] /\ p[k] \in Nat}
           T == {k \in 0 .. n : r[m + k] = p[m] + q[k] /\ q[k] \in Nat}
<1>6. 0 .. m \subseteq S
  <2>1. 0 \in S
    BY <1>1, <1>5
  <2>2. ASSUME NEW k \in 1 .. m, k - 1 \in S PROVE k \in S
    <3>1. k \in 1 .. m + n /\ r[k - 1] = p[k - 1] /\ p[k - 1] \in Nat
      BY <1>1, <2>2
    <3> QED BY <1>1, <1>5, <3>1
  <2> HIDE DEF S
  <2> QED BY <1>1, <2>1, <2>2, UpTo
<1>7. m \in S
  BY <1>1, <1>6
<1>8. 0 .. n \subseteq T
  <2>1. 0 \in T
    BY <1>1, <1>5, <1>7
  <2>2. ASSUME NEW k \in 1 .. n, k - 1 \in T PROVE k \in T
    <3>1. r[m + (k - 1)] = p[m] + q[k - 1] /\ q[k - 1] \in Nat /\ p[m] \in Nat
      BY <1>7, <2>2
    <3>2. m + k \in 1 .. m + n /\ (m + k) - 1 = m + (k - 1)
      BY <1>1
    <3>3. r[m + k] = r[m + (k - 1)] + w[m + k]
      BY <1>5, <3>2
    <3>4. w[m + k] = v[k] /\ v[k] \in Nat /\ q[k] = q[k - 1] + v[k]
      BY <1>1, <1>5
    <3>5. r[m + k] = p[m] + q[k] /\ q[k] \in Nat
      BY <3>1, <3>3, <3>4
    <3> QED BY <3>5
  <2> HIDE DEF T
  <2> QED BY <1>1, <2>1, <2>2, UpTo
<1>9. n \in T
  BY <1>1, <1>8
<1> QED BY <1>2, <1>3, <1>4, <1>7, <1>9 DEF w

\* The sum of one number, and of four.
LEMMA PlusOfFew ==
  ASSUME NEW w \in Seq(Nat)
  PROVE  /\ Len(w) = 1 => Plus(w) = w[1]
         /\ Len(w) = 4 => Plus(w) = w[1] + w[2] + w[3] + w[4]
<1>1. PICK r : SumsPlus(r, w) /\ Plus(w) = r[Len(w)]
  BY FoldIsPlus
<1>2. r[0] = 0 /\ \A k \in 1 .. Len(w) : r[k] = r[k - 1] + w[k] /\ w[k] \in Nat
  BY <1>1 DEF SumsPlus
<1>3. ASSUME Len(w) = 1 PROVE Plus(w) = w[1]
  BY <1>1, <1>2, <1>3
<1>4. ASSUME Len(w) = 4 PROVE Plus(w) = w[1] + w[2] + w[3] + w[4]
  <2>1. r[1] = r[0] + w[1] /\ r[2] = r[1] + w[2] /\ r[3] = r[2] + w[3] /\ r[4] = r[3] + w[4]
    BY <1>2, <1>4
  <2>2. w[1] \in Nat /\ w[2] \in Nat /\ w[3] \in Nat /\ w[4] \in Nat
    BY <1>2, <1>4
  <2> QED BY <1>1, <1>2, <1>4, <2>1, <2>2
<1> QED BY <1>3, <1>4

-----------------------------------------------------------------------------
(* Words of bytes *)

Byte == 0 .. 255

\* Bytes are numbers up to 255: the provers would enumerate the interval.
LEMMA ByteIs ==
  ASSUME NEW x
  PROVE  x \in Byte <=> x \in Int /\ 0 <= x /\ x <= 255
<1> DEFINE b == 255
<1>1. b \in Int /\ Byte = 0 .. b
  BY DEF Byte
<1> HIDE DEF b
<1>2. x \in Byte <=> x \in Int /\ 0 <= x /\ x <= b
  BY <1>1
<1> QED BY <1>2 DEF b

\* The same of words.
LEMMA WordIs ==
  ASSUME NEW x
  PROVE  x \in Word <=> x \in Int /\ 0 <= x /\ x <= 65535
<1> DEFINE m == M16 - 1
<1>1. m \in Int /\ Word = 0 .. m
  BY Width DEF Word
<1>2. m = 65535
  BY SMT DEF M16
<1> HIDE DEF m
<1>3. x \in Word <=> x \in Int /\ 0 <= x /\ x <= m
  BY <1>1
<1> QED BY <1>2, <1>3

\* Two bytes make a word.
LEMMA WordOfBytes ==
  ASSUME NEW h \in Byte, NEW l \in Byte
  PROVE  256 * h + l \in Word
<1>1. h \in Int /\ l \in Int /\ 0 <= h /\ h <= 255 /\ 0 <= l /\ l <= 255
  BY ByteIs
<1>2. 256 * h + l \in Int /\ 0 <= 256 * h + l /\ 256 * h + l <= 65535
  BY <1>1, SMT
<1> QED BY <1>2, WordIs

\* A word is two bytes, which are its quotient and remainder.
LEMMA Halves ==
  ASSUME NEW c \in Word
  PROVE  c \div 256 \in Byte /\ c % 256 \in Byte /\ c = 256 * (c \div 256) + (c % 256)
<1>1. c \in Int /\ 0 <= c /\ c <= 65535
  BY WordIs
<1> DEFINE d == 256
           h == c \div d
           l == c % d
<1>2. d \in Nat \ {0} /\ c \in Nat
  BY <1>1
<1> HIDE DEF d
<1>3. h \in Nat /\ c = d * h + l /\ l \in 0 .. d - 1
  BY <1>2, Quotient
<1> HIDE DEF h, l
<1>4. l \in Int /\ 0 <= l /\ l <= d - 1
  BY <1>2, <1>3
<1>5. c = 256 * h + l /\ l <= 255
  BY <1>3, <1>4, SMT DEF d
<1>6. h \in Int /\ 0 <= h /\ h <= 255
  BY <1>1, <1>3, <1>4, <1>5, SMT
<1>7. h \in Byte /\ l \in Byte
  BY <1>4, <1>5, <1>6, ByteIs
<1> QED BY <1>5, <1>7 DEF h, l, d

\* The bytes of a word.
LEMMA BytesOfWord ==
  ASSUME NEW h \in Byte, NEW l \in Byte
  PROVE  (256 * h + l) \div 256 = h /\ (256 * h + l) % 256 = l
<1> DEFINE d == 256
<1>1. d \in Nat \ {0} /\ h \in Int /\ 0 <= h /\ l \in Int /\ 0 <= l /\ l <= d - 1
  BY ByteIs
<1> HIDE DEF d
<1>2. h \in Nat /\ l \in 0 .. d - 1
  BY <1>1
<1>3. (d * h + l) \div d = h /\ (d * h + l) % d = l
  BY <1>1, <1>2, Rest, Whole
<1> QED BY <1>3 DEF d

\* The length of a function on 1 .. n, and its values.
LEMMA FunctionIsSeq ==
  ASSUME NEW n \in Nat, NEW S, NEW x \in [1 .. n -> S]
  PROVE  x \in Seq(S) /\ Len(x) = n
OBVIOUS

\* The elements of a sequence.
LEMMA SeqHas ==
  ASSUME NEW n \in Nat, NEW S, NEW x \in Seq(S), Len(x) = n
  PROVE  \A i \in 1 .. n : x[i] \in S
OBVIOUS

\* Two sequences make one.
LEMMA JoinType ==
  ASSUME NEW S, NEW x \in Seq(S), NEW y \in Seq(S)
  PROVE  x \o y \in Seq(S) /\ Len(x \o y) = Len(x) + Len(y)
OBVIOUS

\* The words of a sequence of bytes.
LEMMA WordsType ==
  ASSUME NEW d \in Seq(Byte)
  PROVE  /\ WordsOf(d) \in Seq(Word) /\ Len(WordsOf(d)) = (Len(d) + 1) \div 2
         /\ (Len(d) + 1) \div 2 \in Nat
<1> DEFINE n == (Len(d) + 1) \div 2
<1>1. Len(d) \in Nat /\ n \in Nat /\ \A i \in 1 .. Len(d) : d[i] \in Byte
  OBVIOUS
<1>2. ASSUME NEW i \in 1 .. n
      PROVE  256 * d[2 * i - 1] + (IF 2 * i <= Len(d) THEN d[2 * i] ELSE 0) \in Word
  <2>1. 2 * i - 1 \in 1 .. Len(d) /\ (2 * i <= Len(d) => 2 * i \in 1 .. Len(d))
    BY <1>1
  <2> DEFINE l == IF 2 * i <= Len(d) THEN d[2 * i] ELSE 0
  <2>2. 0 \in Byte
    BY ByteIs
  <2>3. d[2 * i - 1] \in Byte /\ l \in Byte
    BY <1>1, <2>1, <2>2
  <2> HIDE DEF l
  <2> QED BY <2>3, WordOfBytes DEF l
<1> DEFINE w(i) == 256 * d[2 * i - 1] + (IF 2 * i <= Len(d) THEN d[2 * i] ELSE 0)
<1>3. WordsOf(d) = [i \in 1 .. n |-> w(i)]
  BY DEF WordsOf
<1>4. \A i \in 1 .. n : w(i) \in Word
  BY <1>2
<1> HIDE DEF w, n
<1>5. WordsOf(d) \in [1 .. n -> Word]
  BY <1>3, <1>4
<1> QED BY <1>1, <1>5 DEF n

\* The word at i of a sequence of k bytes.
WordAt(d, k, i) == 256 * d[2 * i - 1] + (IF 2 * i <= k THEN d[2 * i] ELSE 0)

\* The words of k bytes.
LEMMA WordsAre ==
  ASSUME NEW d \in Seq(Byte), NEW k, Len(d) = k, NEW n, (k + 1) \div 2 = n
  PROVE  /\ WordsOf(d) \in Seq(Word) /\ Len(WordsOf(d)) = n
         /\ \A i \in 1 .. n : WordsOf(d)[i] = WordAt(d, k, i)
<1>1. WordsOf(d) = [i \in 1 .. n |-> WordAt(d, k, i)]
  BY DEF WordsOf, WordAt
<1>2. \A i \in 1 .. n : WordsOf(d)[i] = WordAt(d, k, i)
  BY <1>1
<1> QED BY <1>2, WordsType

\* Words are numbers.
LEMMA WordsAreNats ==
  ASSUME NEW w \in Seq(Word)
  PROVE  w \in Seq(Nat)
<1>1. Word \subseteq Nat
  BY Width DEF Word
<1>2. Len(w) \in Nat /\ w \in [1 .. Len(w) -> Word]
  OBVIOUS
<1>3. w \in [1 .. Len(w) -> Nat]
  BY <1>1, <1>2
<1> QED BY <1>2, <1>3

\* The words of two sequences, if the first is of even length.
LEMMA WordsJoin ==
  ASSUME NEW a \in Seq(Byte), NEW b \in Seq(Byte), NEW m \in Nat, Len(a) = 2 * m
  PROVE  WordsOf(a \o b) = WordsOf(a) \o WordsOf(b)
<1> DEFINE c == a \o b
           l == Len(b)
           n == (l + 1) \div 2
           u == WordsOf(a)
           v == WordsOf(b)
           w == WordsOf(c)
<1>1. /\ c \in Seq(Byte) /\ Len(c) = 2 * m + l /\ l \in Nat /\ n \in Nat
      /\ \A k \in 1 .. 2 * m : c[k] = a[k]
      /\ \A k \in 1 .. l : c[2 * m + k] = b[k]
  OBVIOUS
<1>2. (2 * m + 1) \div 2 = m /\ (2 * m + l + 1) \div 2 = m + n
  <2> DEFINE r == (l + 1) % 2
             k == l + 1
  <2>3. 2 \in Nat \ {0} /\ 1 \in 0 .. 2 - 1 /\ m + n \in Nat /\ k \in Nat /\ l \in Nat
    BY <1>1
  <2>4. k = 2 * (k \div 2) + (k % 2) /\ k % 2 \in 0 .. 2 - 1
    <3> HIDE DEF k
    <3> QED BY <2>3, Quotient
  <2> HIDE DEF l
  <2>1. l + 1 = 2 * n + r /\ r \in 0 .. 2 - 1
    BY <2>4
  <2> HIDE DEF n, r, k
  <2>2. 2 * m + l + 1 = 2 * (m + n) + r
    BY <1>1, <2>1, <2>3
  <2> QED BY <2>1, <2>2, <2>3, Whole
<1>11. Len(b) = l /\ (l + 1) \div 2 = n
  OBVIOUS
<1> HIDE DEF c, l, n
<1>3. /\ w \in Seq(Word) /\ Len(w) = m + n
      /\ \A i \in 1 .. m + n : w[i] = WordAt(c, 2 * m + l, i)
  BY <1>1, <1>2, WordsAre, Zenon
<1>4. /\ u \in Seq(Word) /\ Len(u) = m
      /\ \A i \in 1 .. m : u[i] = WordAt(a, 2 * m, i)
  BY <1>2, WordsAre, Zenon
<1>5. /\ v \in Seq(Word) /\ Len(v) = n
      /\ \A i \in 1 .. n : v[i] = WordAt(b, l, i)
  BY <1>11, WordsAre, Zenon
<1> HIDE DEF u, v, w
<1>6. ASSUME NEW i \in 1 .. m PROVE w[i] = u[i]
  <2>1. /\ 2 * i - 1 \in 1 .. 2 * m /\ 2 * i \in 1 .. 2 * m /\ i \in 1 .. m + n
        /\ 2 * i <= 2 * m + l /\ 2 * i <= 2 * m
    BY <1>1
  <2>2. c[2 * i - 1] = a[2 * i - 1] /\ c[2 * i] = a[2 * i]
    BY <1>1, <2>1
  <2>3. w[i] = 256 * c[2 * i - 1] + c[2 * i]
    BY <1>3, <2>1 DEF WordAt
  <2>4. u[i] = 256 * a[2 * i - 1] + a[2 * i]
    BY <1>4, <2>1 DEF WordAt
  <2> QED BY <2>2, <2>3, <2>4
<1>7. ASSUME NEW i \in 1 .. n PROVE w[m + i] = v[i]
  <2>1. /\ 2 * i - 1 \in 1 .. l /\ m + i \in 1 .. m + n /\ 2 * (m + i) - 1 = 2 * m + (2 * i - 1)
        /\ 2 * (m + i) = 2 * m + 2 * i /\ (2 * m + 2 * i <= 2 * m + l <=> 2 * i <= l)
        /\ (2 * i <= l => 2 * i \in 1 .. l)
    BY <1>1, <1>11, Quotient DEF n
  <2>2. w[m + i] = 256 * c[2 * m + (2 * i - 1)] + (IF 2 * m + 2 * i <= 2 * m + l THEN c[2 * m + 2 * i] ELSE 0)
    <3>1. w[m + i] = WordAt(c, 2 * m + l, m + i)
      BY <1>3, <2>1
    <3> QED BY <2>1, <3>1 DEF WordAt
  <2>3. v[i] = 256 * b[2 * i - 1] + (IF 2 * i <= l THEN b[2 * i] ELSE 0)
    BY <1>5 DEF WordAt
  <2>4. c[2 * m + (2 * i - 1)] = b[2 * i - 1] /\ (2 * i <= l => c[2 * m + 2 * i] = b[2 * i])
    BY <1>1, <2>1
  <2> QED BY <2>1, <2>2, <2>3, <2>4
<1>8. /\ u \o v \in Seq(Word) /\ Len(u \o v) = m + n
      /\ \A i \in 1 .. m + n : (u \o v)[i] = IF i <= m THEN u[i] ELSE v[i - m]
  <2>1. u \o v \in Seq(Word) /\ Len(u \o v) = Len(u) + Len(v)
    BY <1>4, <1>5, JoinType
  <2>2. \A i \in 1 .. Len(u) + Len(v) : (u \o v)[i] = IF i <= Len(u) THEN u[i] ELSE v[i - Len(u)]
    BY <1>4, <1>5, ConcatProperties
  <2>3. Len(u) = m /\ Len(v) = n
    BY <1>4, <1>5
  <2> QED BY <2>1, <2>2, <2>3
<1>9. ASSUME NEW i \in 1 .. m + n PROVE (u \o v)[i] = w[i]
  <2>1. CASE i <= m
    BY <1>6, <1>8, <2>1
  <2>2. CASE ~(i <= m)
    <3>1. i - m \in 1 .. n /\ m + (i - m) = i
      BY <1>1, <2>2
    <3>2. w[i] = v[i - m]
      BY <1>7, <3>1
    <3> QED BY <1>8, <2>2, <3>2
  <2> QED BY <2>1, <2>2
<1>10. u \o v = w
  BY <1>3, <1>8, <1>9, SeqEqual
<1> QED BY <1>10 DEF u, v, w, c

-----------------------------------------------------------------------------
(* The checksum of a segment *)

\* The sum of the words of some bytes.
Total(d) == Plus(WordsOf(d))

\* The sum over the bytes of a segment, before the carries are added in.
LEMMA TotalType ==
  ASSUME NEW d \in Seq(Byte)
  PROVE  /\ WordsOf(d) \in Seq(Word) /\ WordsOf(d) \in Seq(Nat) /\ Total(d) \in Nat
         /\ \A x \in Nat : chksum(Folded(x), d) = Folded(x + Total(d))
<1>1. WordsOf(d) \in Seq(Word)
  BY WordsType
<1>2. WordsOf(d) \in Seq(Nat)
  BY <1>1, WordsAreNats
<1>3. Total(d) \in Nat
  BY <1>1, ChecksumIsFolded, 0 \in Nat DEF Total
<1>4. ASSUME NEW x \in Nat PROVE chksum(Folded(x), d) = Folded(x + Total(d))
  BY <1>1, ChecksumIsFolded DEF Total, chksum
<1> QED BY <1>1, <1>2, <1>3, <1>4

\* A small sum has no carries.
LEMMA FoldedSmall ==
  ASSUME NEW r \in 1 .. M16 - 1
  PROVE  Folded(r) = r
<1> DEFINE d == M16 - 1
<1>1. d \in Nat /\ r \in 1 .. d
  BY Width
<1>2. Folded(d * 0 + r) = r
  BY FoldedOf
<1> HIDE DEF d
<1>3. d * 0 + r = r
  BY <1>1, OneMore
<1> QED BY <1>2, <1>3

\* The sum with its complement is all ones; adding all ones changes nothing.
LEMMA ComplementCancels ==
  ASSUME NEW x \in Nat \ {0}
  PROVE  /\ Folded(x) \in 1 .. M16 - 1 /\ Complement(Folded(x)) \in 0 .. (M16 - 1) - 1
         /\ Folded(x + Complement(Folded(x))) = M16 - 1
         /\ Complement(Folded(x)) = 0 => Folded(x + (M16 - 1)) = M16 - 1
<1> DEFINE d == M16 - 1
           y == Folded(x)
<1>1. d \in Nat \ {0} /\ d \in 1 .. d
  BY Width
<1>2. y \in 1 .. d
  BY FoldedIs
<1>3. PICK q \in Nat : x = d * q + y
  BY FoldedIs
<1>4. Complement(y) = d - y
  BY DEF Complement
<1>5. \A p \in Nat : Folded(d * p + d) = d
  <2> HIDE DEF d
  <2>1. \A p \in Nat, r \in 1 .. d : Folded(d * p + r) = r
    BY FoldedOf DEF d
  <2> QED BY <1>1, <2>1
<1> HIDE DEF d, y
<1> DEFINE s == d * q
<1>6. s \in Nat /\ d * (q + 1) = s + d /\ q + 1 \in Nat
  BY <1>1, OneMore
<1>7. Folded(s + d) = d /\ Folded((s + d) + d) = d
  BY <1>5, <1>6
<1>8. x = s + y
  BY <1>3
<1> HIDE DEF s
<1>9. x + (d - y) = s + d
  BY <1>1, <1>2, <1>6, <1>8
<1>10. ASSUME Complement(y) = 0 PROVE Folded(x + d) = d
  <2>1. y = d
    BY <1>1, <1>2, <1>4, <1>10
  <2> QED BY <1>7, <1>8, <2>1
<1>11. d - y \in 0 .. d - 1
  BY <1>1, <1>2
<1> QED BY <1>1, <1>2, <1>4, <1>7, <1>9, <1>10, <1>11 DEF d, y

\* A header of 8 bytes.
IsHeader(h) == h \in Seq(Byte) /\ Len(h) = 8

\* What is summed for a segment: its length and protocol, the addresses, header and data.
SegmentTotal(proto, h, d) == 8 + Len(d) + proto + Total(Addr) + Total(h) + Total(d)

\* The addresses are of 8 bytes.
LEMMA AddrIsHeader == IsHeader(Addr)
<1>1. \A i \in 1 .. 8 : i \in Byte
  BY ByteIs
<1> QED BY <1>1 DEF Addr, IsHeader

\* The sum in parts is the sum of the parts.
LEMMA UpperIs ==
  ASSUME NEW proto \in 1 .. 17, NEW h, IsHeader(h), NEW d \in Seq(Byte), Len(d) <= MaxPayload
  PROVE  /\ SegmentTotal(proto, h, d) \in Nat \ {0}
         /\ upper_layer_chksum(proto, Addr, h, d) = Folded(SegmentTotal(proto, h, d))
<1> DEFINE a == Len(h) + Len(d) + proto
           t == SegmentTotal(proto, h, d)
<1>1. a \in 1 .. M16 - 1 /\ a \in Nat /\ a = 8 + Len(d) + proto
  <2> DEFINE l == Len(d)
             m == M16
  <2>1. l \in Nat /\ Len(h) = 8
    BY DEF IsHeader
  <2>2. MaxPayload \in Nat /\ m \in Nat /\ MaxPayload + 25 < m /\ l <= MaxPayload
    BY ChecksumAssumption, Width
  <2> HIDE DEF l, m
  <2>3. 8 + l + proto \in 1 .. m - 1 /\ 8 + l + proto \in Nat
    BY <2>1, <2>2
  <2> QED BY <2>1, <2>3 DEF l, m
<1>2. Folded(a) = a
  BY <1>1, FoldedSmall
<1>3. /\ Total(Addr) \in Nat /\ Total(h) \in Nat /\ Total(d) \in Nat
      /\ \A x \in Nat : /\ chksum(Folded(x), Addr) = Folded(x + Total(Addr))
                        /\ chksum(Folded(x), h) = Folded(x + Total(h))
                        /\ chksum(Folded(x), d) = Folded(x + Total(d))
  BY AddrIsHeader, TotalType DEF IsHeader
<1>6. upper_layer_chksum(proto, Addr, h, d) =
        LET s == chksum(chksum(chksum(a, Addr), h), d) IN IF s = 0 THEN M16 - 1 ELSE s
  BY DEF upper_layer_chksum
<1>7. t = a + Total(Addr) + Total(h) + Total(d)
  BY <1>1 DEF SegmentTotal
<1> DEFINE p == Total(Addr)
           q == Total(h)
           s == Total(d)
<1>8. t = a + p + q + s /\ p \in Nat /\ q \in Nat /\ s \in Nat
  BY <1>3, <1>7
<1> HIDE DEF a, t, p, q, s
<1>9. t \in Nat \ {0} /\ a + p \in Nat /\ a + p + q \in Nat
  BY <1>1, <1>8
<1>4. chksum(chksum(chksum(a, Addr), h), d) = Folded(t)
  <2>1. \A x \in Nat : /\ chksum(Folded(x), Addr) = Folded(x + p)
                      /\ chksum(Folded(x), h) = Folded(x + q)
                      /\ chksum(Folded(x), d) = Folded(x + s)
    BY <1>3 DEF p, q, s
  <2>2. chksum(a, Addr) = Folded(a + p)
    BY <1>1, <1>2, <2>1
  <2>3. chksum(Folded(a + p), h) = Folded(a + p + q)
    BY <1>9, <2>1
  <2>4. chksum(Folded(a + p + q), d) = Folded(t)
    BY <1>8, <1>9, <2>1
  <2> QED BY <2>2, <2>3, <2>4
<1>5. t \in Nat \ {0} /\ Folded(t) # 0
  <2>2. Folded(t) \in 1 .. M16 - 1
    BY <1>9, FoldedIs
  <2> QED BY <1>9, <2>2
<1> QED BY <1>4, <1>5, <1>6 DEF t

\* Eight bytes are a header.
LEMMA EightBytes ==
  ASSUME NEW x \in [1 .. 8 -> Byte]
  PROVE  IsHeader(x)
<1>1. x \in Seq(Byte) /\ Len(x) = 8
  BY FunctionIsSeq, 8 \in Nat
<1> QED BY <1>1 DEF IsHeader

\* A header with a checksum has that much more in it.
LEMMA HeaderTotal ==
  ASSUME NEW h \in Headers, NEW v \in Word
  PROVE  /\ IsHeader(h) /\ IsHeader(WithChecksum(h, 6, v))
         /\ Total(WithChecksum(h, 6, v)) = Total(h) + v
<1> DEFINE g == WithChecksum(h, 6, v)
           hi == v \div 256
           lo == v % 256
<1>1. PICK b \in Bytes : h = [i \in 1 .. 8 |-> IF i > 6 THEN 0 ELSE b]
  BY DEF Headers
<1>2. b \in Byte /\ 0 \in Byte
  BY ChecksumAssumption, ByteIs DEF Byte
<1>3. hi \in Byte /\ lo \in Byte /\ 256 * hi + lo = v
  BY Halves
<1>4. g = [h EXCEPT ![7] = hi, ![8] = lo]
  BY DEF WithChecksum
<1> HIDE DEF g, hi, lo
<1>5. h \in [1 .. 8 -> Byte] /\ h[7] = 0 /\ h[8] = 0
  BY <1>1, <1>2
<1>6. /\ g \in [1 .. 8 -> Byte] /\ g[7] = hi /\ g[8] = lo
      /\ \A i \in 1 .. 6 : g[i] = h[i]
  BY <1>3, <1>4, <1>5
<1>7. IsHeader(h) /\ IsHeader(g)
  BY <1>5, <1>6, EightBytes
<1>8. ASSUME NEW x, IsHeader(x)
      PROVE  /\ WordsOf(x) \in Seq(Nat) /\ Len(WordsOf(x)) = 4
             /\ \A i \in 1 .. 4 : WordsOf(x)[i] = 256 * x[2 * i - 1] + x[2 * i]
  <2>1. WordsOf(x) \in Seq(Nat)
    BY <1>8, TotalType DEF IsHeader
  <2>2. (8 + 1) \div 2 = 4 /\ x \in Seq(Byte) /\ Len(x) = 8
    BY <1>8 DEF IsHeader
  <2>3. /\ Len(WordsOf(x)) = 4
        /\ \A i \in 1 .. 4 : WordsOf(x)[i] = WordAt(x, 8, i)
    BY <2>2, WordsAre, Zenon
  <2>4. \A i \in 1 .. 4 : 2 * i <= 8
    OBVIOUS
  <2>5. ASSUME NEW i \in 1 .. 4 PROVE WordsOf(x)[i] = 256 * x[2 * i - 1] + x[2 * i]
    BY <2>3, <2>4 DEF WordAt
  <2> QED BY <2>1, <2>3, <2>5
<1>14. \A i \in 1 .. 4 : WordsOf(g)[i] = 256 * g[2 * i - 1] + g[2 * i]
  BY <1>7, <1>8
<1>15. \A i \in 1 .. 4 : WordsOf(h)[i] = 256 * h[2 * i - 1] + h[2 * i]
  BY <1>7, <1>8
<1>9. /\ WordsOf(g)[1] = WordsOf(h)[1] /\ WordsOf(g)[2] = WordsOf(h)[2] /\ WordsOf(g)[3] = WordsOf(h)[3]
      /\ WordsOf(g)[4] = v /\ WordsOf(h)[4] = 0
  <2>2. ASSUME NEW i \in 1 .. 3 PROVE WordsOf(g)[i] = WordsOf(h)[i]
    <3>1. 2 * i - 1 \in 1 .. 6 /\ 2 * i \in 1 .. 6 /\ i \in 1 .. 4
      OBVIOUS
    <3>2. g[2 * i - 1] = h[2 * i - 1] /\ g[2 * i] = h[2 * i]
      BY <1>6, <3>1
    <3>3. /\ WordsOf(g)[i] = 256 * g[2 * i - 1] + g[2 * i]
          /\ WordsOf(h)[i] = 256 * h[2 * i - 1] + h[2 * i]
      BY <1>14, <1>15, <3>1
    <3> QED BY <3>2, <3>3
  <2>3. 2 * 4 - 1 = 7 /\ 2 * 4 = 8 /\ 4 \in 1 .. 4 /\ 1 \in 1 .. 3 /\ 2 \in 1 .. 3 /\ 3 \in 1 .. 3
    OBVIOUS
  <2>4. WordsOf(g)[4] = 256 * g[7] + g[8] /\ WordsOf(h)[4] = 256 * h[7] + h[8]
    BY <1>14, <1>15, <2>3
  <2>5. 256 * 0 + 0 = 0
    OBVIOUS
  <2> QED BY <1>3, <1>5, <1>6, <2>2, <2>3, <2>4, <2>5
<1>10. Total(g) = WordsOf(g)[1] + WordsOf(g)[2] + WordsOf(g)[3] + WordsOf(g)[4]
  BY <1>7, <1>8, PlusOfFew DEF Total
<1>11. Total(h) = WordsOf(h)[1] + WordsOf(h)[2] + WordsOf(h)[3] + WordsOf(h)[4]
  BY <1>7, <1>8, PlusOfFew DEF Total
<1>12. /\ WordsOf(h)[1] \in Nat /\ WordsOf(h)[2] \in Nat /\ WordsOf(h)[3] \in Nat /\ v \in Nat
  <2>1. 1 \in 1 .. 4 /\ 2 \in 1 .. 4 /\ 3 \in 1 .. 4
    OBVIOUS
  <2>2. v \in Nat
    BY Width DEF Word
  <2> DEFINE x == WordsOf(h)
  <2>3. x \in Seq(Nat) /\ Len(x) = 4
    BY <1>7, <1>8
  <2> HIDE DEF x
  <2>4. \A i \in 1 .. 4 : x[i] \in Nat
    BY <2>3, SeqHas, 4 \in Nat
  <2> QED BY <2>1, <2>2, <2>4 DEF x
<1>13. Total(g) = Total(h) + v
  BY <1>9, <1>10, <1>11, <1>12
<1> QED BY <1>7, <1>13 DEF g

\* The sum of the whole segment in one piece.
LEMMA ReferenceIs ==
  ASSUME NEW proto \in 1 .. 17, NEW h, IsHeader(h), NEW d \in Seq(Byte)
  PROVE  Reference(WordsOf(Addr \o h \o d) \o <<proto + Len(h) + Len(d)>>) = Folded(SegmentTotal(proto, h, d))
<1> DEFINE a == proto + Len(h) + Len(d)
           all == WordsOf(Addr \o h \o d)
<1>1. a \in Nat /\ a = 8 + Len(d) + proto /\ <<a>> \in Seq(Nat) /\ Len(<<a>>) = 1 /\ <<a>>[1] = a
  BY DEF IsHeader
<1>2. /\ Addr \in Seq(Byte) /\ Len(Addr) = 2 * 4 /\ h \in Seq(Byte) /\ Len(h) = 2 * 4
      /\ Addr \o h \in Seq(Byte) /\ Len(Addr \o h) = 2 * 8
  <2>1. Addr \in Seq(Byte) /\ Len(Addr) = 8 /\ h \in Seq(Byte) /\ Len(h) = 8
    BY AddrIsHeader DEF IsHeader
  <2>2. 2 * 4 = 8 /\ 2 * 8 = 8 + 8
    OBVIOUS
  <2>3. Addr \o h \in Seq(Byte) /\ Len(Addr \o h) = 8 + 8
    BY <2>1, JoinType
  <2> QED BY <2>1, <2>2, <2>3
<1>3. WordsOf(Addr \o h) = WordsOf(Addr) \o WordsOf(h)
  BY <1>2, WordsJoin, 4 \in Nat
<1>4. all = WordsOf(Addr \o h) \o WordsOf(d)
  BY <1>2, WordsJoin, 8 \in Nat
<1>5. /\ WordsOf(Addr) \in Seq(Nat) /\ WordsOf(h) \in Seq(Nat) /\ WordsOf(d) \in Seq(Nat)
      /\ WordsOf(Addr \o h) \in Seq(Nat)
  BY <1>2, TotalType
<1>6. all \in Seq(Nat)
  BY <1>4, <1>5
<1>7. Plus(all) = Plus(WordsOf(Addr \o h)) + Total(d)
  BY <1>4, <1>5, PlusJoins DEF Total
<1>8. Plus(WordsOf(Addr \o h)) = Total(Addr) + Total(h)
  BY <1>3, <1>5, PlusJoins DEF Total
<1> HIDE DEF all, a
<1>9. Plus(all \o <<a>>) = Plus(all) + a
  <2>1. Plus(all \o <<a>>) = Plus(all) + Plus(<<a>>)
    BY <1>1, <1>6, PlusJoins
  <2>2. Plus(<<a>>) = a
    BY <1>1, PlusOfFew
  <2> QED BY <2>1, <2>2
<1>10. Total(Addr) \in Nat /\ Total(h) \in Nat /\ Total(d) \in Nat
  BY <1>2, TotalType
<1>11. Len(d) \in Nat
  OBVIOUS
<1>12. Plus(all \o <<a>>) = SegmentTotal(proto, h, d)
  <2> DEFINE l == Len(d)
             p == Total(Addr)
             q == Total(h)
             s == Total(d)
  <2>1. Plus(all \o <<a>>) = p + q + s + a /\ SegmentTotal(proto, h, d) = 8 + l + proto + p + q + s
    BY <1>7, <1>8, <1>9 DEF SegmentTotal
  <2>2. p \in Nat /\ q \in Nat /\ s \in Nat /\ l \in Nat /\ a = 8 + l + proto
    BY <1>1, <1>10, <1>11
  <2> HIDE DEF p, q, s, l
  <2> QED BY <2>1, <2>2
<1>13. Reference(all \o <<a>>) = Folded(Plus(all \o <<a>>))
  BY DEF Reference, Folded, Plus
<1> QED BY <1>12, <1>13 DEF all, a

\* What is sent is accepted.
LEMMA SentAccepted ==
  ASSUME NEW h \in Headers, NEW d \in Seq(Byte), Len(d) <= MaxPayload
  PROVE  Accepted(h, d)
<1> DEFINE tcp == upper_layer_chksum(6, Addr, h, d)
           udp == upper_layer_chksum(17, Addr, h, d)
           t == SegmentTotal(6, h, d)
           u == SegmentTotal(17, h, d)
           m == M16 - 1
<1>1. m \in Nat /\ 0 \in Word /\ m \in Word /\ \A v \in 0 .. m : v \in Word
  BY Width DEF Word
<1>2. IsHeader(h)
  BY <1>1, HeaderTotal
<1>3. 6 \in 1 .. 17 /\ 17 \in 1 .. 17
  OBVIOUS
<1>4. t \in Nat \ {0} /\ tcp = Folded(t) /\ u \in Nat \ {0} /\ udp = Folded(u)
  BY <1>2, <1>3, UpperIs
<1>5. /\ Complement(tcp) \in 0 .. m - 1 /\ Folded(t + Complement(tcp)) = m
      /\ Complement(udp) \in 0 .. m - 1 /\ Folded(u + Complement(udp)) = m
      /\ Complement(udp) = 0 => Folded(u + m) = m
  BY <1>4, ComplementCancels
<1>6. tcpchksum(tcp) = Complement(tcp) /\ udpchksum(udp) = IF Complement(udp) = 0 THEN m ELSE Complement(udp)
  BY DEF tcpchksum, udpchksum
<1>7. /\ tcpchksum(tcp) \in Word /\ Folded(t + tcpchksum(tcp)) = m
      /\ udpchksum(udp) \in Word /\ Folded(u + udpchksum(udp)) = m /\ udpchksum(udp) # 0
  <2>1. m # 0
    BY Width
  <2> HIDE DEF m, tcp, udp
  <2> QED BY <1>1, <1>5, <1>6, <2>1
<1>8. ASSUME NEW proto \in 1 .. 17, NEW v \in Word
      PROVE  upper_layer_chksum(proto, Addr, WithChecksum(h, 6, v), d) = Folded(SegmentTotal(proto, h, d) + v)
  <2> DEFINE g == WithChecksum(h, 6, v)
  <2>1. IsHeader(g) /\ Total(g) = Total(h) + v
    BY HeaderTotal
  <2> HIDE DEF g
  <2>2. upper_layer_chksum(proto, Addr, g, d) = Folded(SegmentTotal(proto, g, d))
    BY <2>1, UpperIs
  <2>3. SegmentTotal(proto, g, d) = SegmentTotal(proto, h, d) + v
    <3> DEFINE p == Total(Addr)
               q == Total(h)
               s == Total(d)
               l == Len(d)
    <3>1. p \in Nat /\ q \in Nat /\ s \in Nat /\ l \in Nat /\ v \in Nat
      <4>1. v \in Nat
        BY Width DEF Word
      <4> QED BY <1>2, <4>1, AddrIsHeader, TotalType DEF IsHeader
    <3>2. /\ SegmentTotal(proto, g, d) = 8 + l + proto + p + (q + v) + s
          /\ SegmentTotal(proto, h, d) = 8 + l + proto + p + q + s
      BY <2>1 DEF SegmentTotal
    <3> HIDE DEF p, q, s, l
    <3> QED BY <3>1, <3>2
  <2> QED BY <2>2, <2>3 DEF g
<1>9. AcceptsTcp(Addr, WithChecksum(h, 6, tcpchksum(tcp)), d)
  BY <1>3, <1>7, <1>8 DEF AcceptsTcp
<1>10. AcceptsUdp(Addr, WithChecksum(h, 6, udpchksum(udp)), d)
  BY <1>3, <1>7, <1>8 DEF AcceptsUdp
<1>11. tcp = Reference(WordsOf(Addr \o h \o d) \o <<6 + Len(h) + Len(d)>>)
  BY <1>2, <1>3, <1>4, ReferenceIs
<1> QED BY <1>7, <1>9, <1>10, <1>11 DEF Accepted

\* So all lengths are good.
LEMMA AllLengthsGood == GoodLengths = 0 .. MaxPayload
<1>1. ASSUME NEW n \in 0 .. MaxPayload, NEW h \in Headers, NEW d \in [1 .. n -> Bytes]
      PROVE  Accepted(h, d)
  <2>1. Bytes \subseteq Byte /\ MaxPayload \in Nat
    BY ChecksumAssumption DEF Byte
  <2>2. n \in Nat /\ n <= MaxPayload /\ d \in [1 .. n -> Byte]
    BY <2>1
  <2>3. d \in Seq(Byte) /\ Len(d) = n
    BY <2>2
  <2> QED BY <2>2, <2>3, SentAccepted
<1> QED BY <1>1 DEF GoodLengths

\* What the code sends it accepts, whatever the length and the contents
\* (UIPEthernet.cpp:349-467, Enc28J60Network.cpp:567-604, uip.c:1091, 1151-1167, 1178, 1844).
THEOREM SentFramesAccepted == Spec => []SentIsAccepted
<1>1. SentIsAccepted
  BY AllLengthsGood DEF SentIsAccepted
<1> QED BY <1>1, PTL

-----------------------------------------------------------------------------
(* The answer to a ping *)

\* A word and its swapped form.
LEMMA Swap ==
  ASSUME NEW h \in Byte, NEW l \in Byte
  PROVE  HTONS(256 * h + l) = 256 * l + h
BY BytesOfWord DEF HTONS

\* The type changes from 8 to 0, which the checksum of a ping makes up for: it grows by
\* 2048, and the carry is added.
LEMMA UpdateIs ==
  ASSUME NEW c \in Word
  PROVE  /\ HTONS(Update(HTONS(c))) \in Word
         /\ \/ HTONS(Update(HTONS(c))) = c + 2048
            \/ HTONS(Update(HTONS(c))) = c + 2048 - 65535
<1>1. PICK h \in Byte, l \in Byte : c = 256 * h + l
  BY Halves
<1>2. HTONS(c) = 256 * l + h
  BY <1>1, Swap
<1>11. h \in Int /\ 0 <= h /\ h <= 255 /\ l \in Int /\ 0 <= l /\ l <= 255
  BY ByteIs
<1>3. HTONS(256 * ICMP_ECHO) = 8 /\ HTONS(M16 - 1 - 256 * ICMP_ECHO) = 65527
  <2>1. 8 \in Byte /\ 0 \in Byte /\ 247 \in Byte /\ 255 \in Byte
    BY ByteIs, SMT
  <2>2. HTONS(256 * 8 + 0) = 256 * 0 + 8 /\ HTONS(256 * 247 + 255) = 256 * 255 + 247
    BY <2>1, Swap, SMT
  <2>3. 256 * 8 + 0 = 256 * ICMP_ECHO /\ 256 * 247 + 255 = M16 - 1 - 256 * ICMP_ECHO
    BY SMT DEF ICMP_ECHO, M16
  <2>4. 256 * 0 + 8 = 8 /\ 256 * 255 + 247 = 65527
    BY SMT
  <2> QED BY <2>2, <2>3, <2>4, SMT
<1> DEFINE f == 256 * l + h
           n == Update(f)
<1>4. n = IF f >= 65527 THEN (f + 8 + 1) % 65536 ELSE (f + 8) % 65536
  BY <1>3, SMT DEF Update, M16
<1> HIDE DEF n
<1>9. \A x, y : x \in Byte /\ y \in Byte /\ n = 256 * y + x => HTONS(n) = 256 * x + y /\ 256 * x + y \in Word
  BY Swap, WordOfBytes
<1>10. SUFFICES /\ HTONS(n) \in Word
                /\ HTONS(n) = 256 * h + l + 2048 \/ HTONS(n) = 256 * h + l + 2048 - 65535
  BY <1>1, <1>2, SMT DEF n
<1>5. CASE h <= 246
  <2> DEFINE x == h + 8
  <2>1. n = 256 * l + x /\ x \in Int /\ 0 <= x /\ x <= 255
    BY <1>11, <1>4, <1>5, SMT
  <2>2. x \in Byte
    BY <2>1, ByteIs, SMT
  <2>5. 256 * x + l = 256 * h + l + 2048
    BY <1>11, <2>1, ByteIs, SMT
  <2>4. n = 256 * l + x
    BY <2>1, Zenon
  <2> HIDE DEF x
  <2>3. HTONS(n) = 256 * x + l /\ 256 * x + l \in Word
    BY <1>9, <2>2, <2>4
  <2> QED BY <2>3, <2>5
<1>6. CASE h >= 247 /\ l = 255
  <2> DEFINE x == h - 247
  <2>1. n = 256 * 0 + x /\ x \in Int /\ 0 <= x /\ x <= 255
    BY <1>11, <1>4, <1>6, SMT
  <2>2. x \in Byte /\ 0 \in Byte
    BY <2>1, ByteIs, SMT
  <2>5. 256 * x + 0 = 256 * h + l + 2048 - 65535
    BY <1>11, <1>6, <2>1, ByteIs, SMT
  <2>4. n = 256 * 0 + x
    BY <2>1, Zenon
  <2> HIDE DEF x
  <2>3. HTONS(n) = 256 * x + 0 /\ 256 * x + 0 \in Word
    BY <1>9, <2>2, <2>4
  <2> QED BY <2>3, <2>5
<1>7. CASE h = 247 /\ l < 255
  <2> DEFINE x == 255
  <2>1. n = 256 * l + x
    BY <1>11, <1>4, <1>7, SMT
  <2>2. x \in Byte
    BY <2>1, ByteIs, SMT
  <2>5. 256 * x + l = 256 * h + l + 2048
    BY <1>11, <1>7, ByteIs, SMT
  <2>4. n = 256 * l + x
    BY <2>1, Zenon
  <2> HIDE DEF x
  <2>3. HTONS(n) = 256 * x + l /\ 256 * x + l \in Word
    BY <1>9, <2>2, <2>4
  <2> QED BY <2>3, <2>5
<1>8. CASE h >= 248 /\ l < 255
  <2> DEFINE x == h - 248
             y == l + 1
  <2>1. n = 256 * y + x /\ x \in Int /\ 0 <= x /\ x <= 255 /\ y \in Int /\ 0 <= y /\ y <= 255
    BY <1>11, <1>4, <1>8, SMT
  <2>2. x \in Byte /\ y \in Byte
    BY <2>1, ByteIs, SMT
  <2>5. 256 * x + y = 256 * h + l + 2048 - 65535
    BY <1>11, <1>8, <2>1, ByteIs, SMT
  <2>4. n = 256 * y + x
    BY <2>1, Zenon
  <2> HIDE DEF x, y
  <2>3. HTONS(n) = 256 * x + y /\ 256 * x + y \in Word
    BY <1>9, <2>2, <2>4
  <2> QED BY <2>3, <2>5
<1> QED BY <1>11, <1>5, <1>6, <1>7, <1>8, SMT

\* A sum of all ones stays so when 2^16 - 1 is taken away, unless nothing is left.
LEMMA OnesLess ==
  ASSUME NEW x \in Nat, Folded(x) = M16 - 1, NEW y \in Nat, y = x - (M16 - 1), y # 0
  PROVE  Folded(y) = M16 - 1
<1> DEFINE d == M16 - 1
<1>1. d \in Nat \ {0} /\ d \in 1 .. d
  BY Width
<1>2. x # 0
  BY FoldedIs, Width
<1>3. PICK q \in Nat : x = d * q + d
  BY <1>2, FoldedIs
<1>4. \A p \in Nat : Folded(d * p + d) = d
  <2>1. \A p \in Nat, r \in 1 .. d : Folded(d * p + r) = r
    BY FoldedOf
  <2> HIDE DEF d
  <2> QED BY <1>1, <2>1
<1>5. y = x - d
  OBVIOUS
<1>6. SUFFICES Folded(y) = d
  OBVIOUS
<1> HIDE DEF d
<1>7. y = d * q
  <2> DEFINE s == d * q
  <2>1. s \in Nat /\ x = s + d
    BY <1>1, <1>3, OneMore
  <2> HIDE DEF s
  <2>2. y = s
    BY <1>1, <1>5, <2>1
  <2> QED BY <2>2 DEF s
<1>8. q # 0
  BY <1>1, <1>7, OneMore
<1> DEFINE p == q - 1
<1>9. p \in Nat /\ q = p + 1
  BY <1>8
<1> HIDE DEF p
<1>10. y = d * p + d
  BY <1>1, <1>7, <1>9, OneMore
<1> QED BY <1>4, <1>9, <1>10

\* The sum of a ping, with the carries added in at the end.
LEMMA PingSumIs ==
  ASSUME NEW type \in {0, ICMP_ECHO}, NEW c \in Word, NEW w \in Word
  PROVE  256 * type + c + w \in Nat /\ PingSum(type, c, w) = Folded(256 * type + c + w)
<1> DEFINE a == 256 * type
<1>1. a \in Nat /\ a = Folded(a)
  <2>1. type = 0 \/ type = 8
    BY DEF ICMP_ECHO
  <2>2. a \in Int /\ 0 <= a /\ a <= 65535
    BY <2>1, SMT
  <2> HIDE DEF a
  <2>3. a \in Word /\ a \in Nat
    BY <2>2, WordIs
  <2>4. CASE a = 0
    BY <2>3, <2>4, FoldedIs
  <2>5. CASE a # 0
    <3>1. a \in 1 .. M16 - 1
      BY <2>3, <2>5, Width DEF Word
    <3> QED BY <2>3, <3>1, FoldedSmall
  <2> QED BY <2>4, <2>5
<1>2. PingSum(type, c, w) = AddWord(AddWord(a, c), w)
  BY DEF PingSum
<1> HIDE DEF a
<1>3. c \in Nat /\ w \in Nat /\ a + c \in Nat /\ a + c + w \in Nat
  BY <1>1, Width DEF Word
<1>4. AddWord(a, c) = Folded(a + c)
  BY <1>1, AddFolded
<1>5. AddWord(Folded(a + c), w) = Folded((a + c) + w)
  BY <1>3, AddFolded
<1> QED BY <1>2, <1>3, <1>4, <1>5 DEF a

\* Only a ping with zeros behind its checksum gets a wrong answer.
LEMMA Misanswered == MisansweredWords \subseteq {0}
<1> SUFFICES ASSUME NEW word \in Words,
                    NEW c \in {Complement(AddWord(256 * ICMP_ECHO, word)), M16 - 1},
                    PingSum(ICMP_ECHO, c, word) = M16 - 1,
                    PingSum(0, HTONS(Update(HTONS(c))), word) # M16 - 1
             PROVE  word = 0
  BY DEF MisansweredWords
<1> DEFINE g == HTONS(Update(HTONS(c)))
           x == 256 * ICMP_ECHO + c + word
           y == g + word
<1>1. word \in Word
  BY ChecksumAssumption DEF Word
<1>2. c \in Word
  <2>1. M16 - 1 \in Word
    BY Width DEF Word
  <2>2. 256 * ICMP_ECHO \in Word
    <3>1. 256 * ICMP_ECHO \in Int /\ 0 <= 256 * ICMP_ECHO /\ 256 * ICMP_ECHO <= 65535
      BY SMT DEF ICMP_ECHO
    <3> QED BY <3>1, WordIs
  <2> DEFINE s == AddWord(256 * ICMP_ECHO, word)
  <2>3. s \in Word
    BY <1>1, <2>2, AddWordType
  <2>4. c = M16 - 1 - s \/ c = M16 - 1
    BY DEF Complement
  <2> HIDE DEF s
  <2>5. M16 - 1 - s \in Word
    BY <2>3, Width DEF Word
  <2> QED BY <2>1, <2>4, <2>5
<1>3. g \in Word /\ (g = c + 2048 \/ g = c + 2048 - 65535)
  BY <1>2, UpdateIs
<1> HIDE DEF g
<1>4. x \in Nat /\ Folded(x) = M16 - 1
  BY <1>1, <1>2, PingSumIs
<1>5. y \in Nat /\ Folded(y) # M16 - 1
  <2>1. 256 * 0 + g + word \in Nat /\ PingSum(0, g, word) = Folded(256 * 0 + g + word)
    BY <1>1, <1>3, PingSumIs
  <2>2. g \in Nat /\ word \in Nat
    BY <1>1, <1>3, Width DEF Word
  <2>3. 256 * 0 + g + word = g + word
    BY <2>2
  <2> QED BY <2>1, <2>3 DEF g
<1>6. c \in Int /\ 0 <= c /\ word \in Int /\ 0 <= word /\ g \in Int /\ 0 <= g
  BY <1>1, <1>2, <1>3, WordIs
<1>7. x = 2048 + c + word /\ M16 - 1 = 65535
  <2>1. 256 * ICMP_ECHO = 2048 /\ M16 - 1 = 65535
    BY SMT DEF ICMP_ECHO, M16
  <2> QED BY <2>1
<1> HIDE DEF x
<1>8. CASE g = c + 2048
  <2>1. y = x
    BY <1>6, <1>7, <1>8, SMT
  <2> QED BY <1>4, <1>5, <2>1
<1>9. CASE g = c + 2048 - 65535
  <2>1. y = x - (M16 - 1)
    BY <1>6, <1>7, <1>9, SMT
  <2>2. y = 0
    <3> HIDE DEF y
    <3> QED BY <1>4, <1>5, <2>1, OnesLess
  <2> QED BY <1>6, <2>2
<1> QED BY <1>3, <1>8, <1>9

\* A correct ping gets a correct answer, unless all that follows the checksum is zero
\* (uip.c:996-1002).
THEOREM EchoesVerify == Spec => []EchoVerifies
<1>1. EchoVerifies
  BY Misanswered DEF EchoVerifies
<1> QED BY <1>1, PTL
=============================================================================
