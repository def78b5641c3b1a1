---------------------------- MODULE ReceiveRing ----------------------------
(***************************************************************************)
(* The receive ring of the ENC28J60 and the part of Enc28J60Network.cpp    *)
(* that takes frames from it.                                              *)
(*                                                                         *)
(* The controller writes each frame behind the last one, six bytes of      *)
(* header first, as long as it does not reach ERXRDPT.  The driver holds   *)
(* one frame at a time.  While tick() handles it, its data may be copied   *)
(* into a block of the pool; then tick() frees it, or keeps it and reads   *)
(* it again when it is called next.  Between the two it may copy outgoing  *)
(* data between blocks of the pool.                                        *)
(*                                                                         *)
(* A frame is known by a number, and of the ring only is kept to which     *)
(* frame each byte belongs.                                                *)
(***************************************************************************)
EXTENDS Integers, Sequences

CONSTANTS
  RXSTOP_INIT,  \* the last address of the ring; RXSTART_INIT is 0
  Lengths,      \* the lengths of frames, without their CRC
  Frames,       \* numbers for them
  NOBLOCK       \* no frame is held

HEADER == 6
CRC == 4
RING == RXSTOP_INIT + 1

Addresses == 0 .. RXSTOP_INIT

\* What a frame is known by when it is held.
Packets == [id : Frames, start : Addresses, begin : Addresses, size : Lengths]

ASSUME RingAssumption ==
  /\ RXSTOP_INIT \in Nat /\ RXSTOP_INIT % 2 = 1
  /\ Lengths \subseteq Nat \ {0}
  /\ \A n \in Lengths : HEADER + n + CRC + 1 < RING
  /\ Frames \subseteq Nat \ {0} /\ NOBLOCK \notin Packets

VARIABLES
  owner,          \* the frame each byte of the ring belongs to, or 0
  writePtr,       \* ERXWRPT of the controller
  erxrdpt,        \* ERXRDPT
  queue,          \* the frames EPKTCNT counts: [id, start, next, len]
  nextPacketPtr,
  receivePkt,     \* the frame held: [id, start, begin, size], or NOBLOCK
  use,            \* what tick does with it: it is "handled", "copied" or "kept"
  overtaken       \* history: outgoing data were copied while it was kept

vars == <<owner, writePtr, erxrdpt, queue, nextPacketPtr, receivePkt, use, overtaken>>

-----------------------------------------------------------------------------
(* Addresses *)

\* Bug: a step too early.
WrappedEarly(a) == IF a >= RXSTOP_INIT THEN a - RXSTOP_INIT ELSE a

\* How receivePacket, setReadPtr and copyPacket bring an address into the ring.
Wrapped(a) == IF a > RXSTOP_INIT THEN a - RXSTOP_INIT ELSE a

\* Where the controller has put the byte.
InRing(a) == a % RING

\* The bytes from start, n of them.
Span(start, n) == {InRing(start + i) : i \in 0 .. n - 1}

\* What a frame takes in the ring: it is padded to an even number.
Taken(len) == LET n == HEADER + len + CRC IN n + (n % 2)

\* setERXRDPT for a value of nextPacketPtr.
ReadPointer(next) == IF next = 0 THEN RXSTOP_INIT ELSE next - 1

\* EDMAND: the DMA of a copy stops after this address.
LastByte(src, n) ==
  IF src <= RXSTOP_INIT /\ src + n - 1 > RXSTOP_INIT
  THEN src + n - 1 - RXSTOP_INIT
  ELSE src + n - 1

\* The number of bytes the DMA copies; a single byte is copied without it.
Copied(src, n) == IF n = 1 THEN 1 ELSE 1 + ((LastByte(src, n) - src) % RING)

-----------------------------------------------------------------------------

Init ==
  /\ owner = [a \in Addresses |-> 0]
  /\ writePtr = 0
  /\ nextPacketPtr = 0
  /\ erxrdpt = ReadPointer(0)
  /\ queue = <<>>
  /\ receivePkt = NOBLOCK /\ use = "handled"
  /\ overtaken = FALSE

\* The free space the datasheet gives.
FreeSpace ==
  CASE writePtr > erxrdpt -> RXSTOP_INIT - (writePtr - erxrdpt)
    [] writePtr = erxrdpt -> RXSTOP_INIT
    [] writePtr < erxrdpt -> erxrdpt - writePtr - 1

InUse == {queue[i].id : i \in DOMAIN queue} \cup
         (IF receivePkt = NOBLOCK THEN {} ELSE {receivePkt.id})

\* The controller receives a frame; one without room is dropped.
Arrive(id, len) ==
  /\ id \notin InUse
  /\ \A f \in Frames : f < id => f \in InUse
  /\ Taken(len) <= FreeSpace
  /\ owner' = [a \in Addresses |->
                 IF a \in Span(writePtr, Taken(len)) THEN id
                 ELSE IF owner[a] = id THEN 0 ELSE owner[a]]
  /\ writePtr' = InRing(writePtr + Taken(len))
  /\ queue' = Append(queue, [id |-> id, start |-> writePtr, next |-> writePtr', len |-> len])
  /\ UNCHANGED <<erxrdpt, nextPacketPtr, receivePkt, use, overtaken>>

\* Bug: the memory of a frame with errors is not freed.
KeepsBad(next) == erxrdpt

\* The read pointer after a frame with errors.
AfterBad(next) == ReadPointer(next)

\* Bug: the memory of a good frame is freed when it is taken.
FreedAtOnce(next) == ReadPointer(next)

\* The read pointer after a good frame.
AfterGood(next) == erxrdpt

\* receivePacket, which tick calls when it holds no frame.
ReceivePacket(ok) ==
  /\ receivePkt = NOBLOCK
  /\ queue # <<>>
  /\ LET f == Head(queue) IN
     /\ f.start = nextPacketPtr
     /\ nextPacketPtr' = f.next
     /\ \/ /\ ok
           /\ receivePkt' = [id |-> f.id, start |-> f.start, size |-> f.len,
                             begin |-> Wrapped(nextPacketPtr + HEADER)]
           /\ erxrdpt' = AfterGood(f.next)
        \/ /\ ~ok
           /\ erxrdpt' = AfterBad(f.next)
           /\ UNCHANGED receivePkt
  /\ queue' = Tail(queue)
  /\ use' = "handled" /\ overtaken' = FALSE
  /\ UNCHANGED <<owner, writePtr>>

\* copyPacket of the frame held; the DMA is done when its memory is given back.
CopyPacket ==
  /\ receivePkt # NOBLOCK /\ use = "handled"
  /\ erxrdpt' = ReadPointer(nextPacketPtr)
  /\ use' = "copied"
  /\ UNCHANGED <<owner, writePtr, queue, nextPacketPtr, receivePkt, overtaken>>

\* No block could be had for the data: tick does not free the frame.
KeepPacket ==
  /\ receivePkt # NOBLOCK /\ use = "handled"
  /\ use' = "kept"
  /\ UNCHANGED <<owner, writePtr, erxrdpt, queue, nextPacketPtr, receivePkt, overtaken>>

\* copyPacket between two blocks of the pool, for outgoing data, when the frame has
\* been handled: it gives back the memory of a frame that is kept, too.
CopyBlocks ==
  /\ receivePkt = NOBLOCK \/ use = "kept"
  /\ erxrdpt' = ReadPointer(nextPacketPtr)
  /\ overtaken' = (receivePkt # NOBLOCK)
  /\ UNCHANGED <<owner, writePtr, queue, nextPacketPtr, receivePkt, use>>

\* The next tick reads the frame that was kept once more.
ReadAgain ==
  /\ use = "kept"
  /\ use' = "handled"
  /\ UNCHANGED <<owner, writePtr, erxrdpt, queue, nextPacketPtr, receivePkt, overtaken>>

\* freePacket when tick has handled the frame.
FreePacket ==
  /\ receivePkt # NOBLOCK /\ use # "kept"
  /\ erxrdpt' = ReadPointer(nextPacketPtr)
  /\ receivePkt' = NOBLOCK
  /\ use' = "handled" /\ overtaken' = FALSE
  /\ UNCHANGED <<owner, writePtr, queue, nextPacketPtr>>

Next ==
  \/ \E id \in Frames, len \in Lengths : Arrive(id, len)
  \/ \E ok \in BOOLEAN : ReceivePacket(ok)
  \/ CopyPacket \/ KeepPacket \/ CopyBlocks \/ ReadAgain \/ FreePacket

Spec == Init /\ [][Next]_vars
-----------------------------------------------------------------------------
(* Properties *)

Intact(id, start, len) == \A a \in Span(start, Taken(len)) : owner[a] = id

\* What tick may read of the frame held: all of it, until its data are in the pool.
MayBeRead == receivePkt # NOBLOCK /\ use # "copied"

\* The controller never overwrites a frame that waits; nor the one held as long as it
\* may be read, be it by the next tick, unless outgoing data were copied while it was
\* kept (Enc28J60Network.cpp:149-208, 344-354, 408-412).
FramesIntact ==
  /\ \A i \in DOMAIN queue : Intact(queue[i].id, queue[i].start, queue[i].len)
  /\ MayBeRead /\ ~overtaken => Intact(receivePkt.id, receivePkt.start, receivePkt.size)

\* With nothing waiting and nothing held the whole ring is free again, whatever
\* frames with errors there were; and ERXRDPT is odd, as the errata demand
\* (Enc28J60Network.cpp:93, 197-208; enc28j60.h:245-247).
Reclaimed ==
  /\ queue = <<>> /\ receivePkt = NOBLOCK => FreeSpace >= RXSTOP_INIT - 1
  /\ erxrdpt % 2 = 1

\* Reading is right up to the end of the ring and one byte too far behind it; and
\* a copy ends, after at most one byte too many: never "a never ending DMA
\* operation which would overwrite the entire 8-Kbyte buffer"
\* (Enc28J60Network.cpp:159, 284, 349, 369-390).
OffByOneAtMost ==
  receivePkt # NOBLOCK =>
    \A pos \in 0 .. receivePkt.size - 1 :
      LET src == Wrapped(receivePkt.begin + pos)
          a == receivePkt.start + HEADER + pos
      IN /\ src = InRing(a) + (IF a > RXSTOP_INIT THEN 1 ELSE 0)
         /\ \A n \in 1 .. receivePkt.size - pos : Copied(src, n) \in {n, n + 1}
=============================================================================
