----------------------------- MODULE MemoryPool -----------------------------
(***************************************************************************)
(* The allocator of the ENC28J60's packet memory (utility/mempool.cpp).    *)
(* Block descriptors are array elements; the blocks in use form a list in  *)
(* address order that starts at the dummy descriptor POOLSTART.            *)
(*                                                                         *)
(* allocBlock takes the smallest gap that is large enough; when there is   *)
(* none it first moves every block down against its predecessor.  That     *)
(* compaction is modelled one block at a time, so that its intermediate    *)
(* memory layouts are states too.  Nothing else runs while it is under way *)
(* (the library has a single thread of control).                           *)
(*                                                                         *)
(* Callers' contract, kept by the TCP sockets and broken by UIPUdp.cpp:328 *)
(* (see UIPUdp): a block is never allocated with, or shrunk to, size 0,    *)
(* and a resize stays inside the block.                                    *)
(***************************************************************************)
EXTENDS Integers

CONSTANTS MEMPOOL_NUM_MEMBLOCKS,  \* descriptors, POOLSTART not counted
          MEMPOOL_STARTADDRESS,   \* first byte of the pool
          MEMPOOL_SIZE,           \* bytes in the pool
          RequestSizes,           \* the sizes callers ask allocBlock for
          Byte                    \* the values a byte can have

ASSUME PoolAssumption ==
  /\ MEMPOOL_NUM_MEMBLOCKS \in Nat
  /\ MEMPOOL_STARTADDRESS \in Nat
  /\ MEMPOOL_SIZE \in Nat
  /\ RequestSizes \subseteq Nat \ {0}

POOLSTART == 0
NOBLOCK == 0
Descriptors == 0 .. MEMPOOL_NUM_MEMBLOCKS
Handles == 1 .. MEMPOOL_NUM_MEMBLOCKS
PoolEnd == MEMPOOL_STARTADDRESS + MEMPOOL_SIZE
Addresses == MEMPOOL_STARTADDRESS .. PoolEnd - 1

VARIABLES
  begin, size, nextblock,  \* the fields of blocks[0 .. MEMPOOL_NUM_MEMBLOCKS]
  mem,                     \* the bytes of the pool, in the ENC28J60
  cur, want                \* compaction: last block done, size asked for (0: idle)

blockVars == <<begin, size, nextblock>>
vars == <<begin, size, nextblock, mem, cur, want>>

Init ==
  /\ begin = [h \in Descriptors |-> IF h = POOLSTART THEN MEMPOOL_STARTADDRESS ELSE 0]
  /\ size = [h \in Descriptors |-> 0]
  /\ nextblock = [h \in Descriptors |-> NOBLOCK]
  /\ mem \in [Addresses -> Byte]
  /\ cur = POOLSTART
  /\ want = 0

-----------------------------------------------------------------------------
(* The list of blocks *)

End(h) == begin[h] + size[h]

\* The descriptors the list links, the dummy one included.
InList == {POOLSTART} \cup {nextblock[h] : h \in Descriptors}

\* Bug: the block's own size is not subtracted.
FreeSizeWithBlock(h) ==
  (IF nextblock[h] = NOBLOCK THEN PoolEnd ELSE begin[nextblock[h]]) - begin[h]

\* Bug: the pool is one byte too large.
FreeSizeOffByOne(h) ==
  (IF nextblock[h] = NOBLOCK THEN PoolEnd + 1 ELSE begin[nextblock[h]]) - End(h)

\* The gap behind block h.
FreeSize(h) ==
  (IF nextblock[h] = NOBLOCK THEN PoolEnd ELSE begin[nextblock[h]]) - End(h)

\* The list has address order; an empty block cannot be in front of POOLSTART.
Precedes(a, b) == a = POOLSTART \/ (b # POOLSTART /\ begin[a] < begin[b])

Fits(n) == {h \in InList : FreeSize(h) >= n}

\* The block the search ends with: the smallest gap, the first one of several.
IsBest(h, n) ==
  /\ h \in Fits(n)
  /\ \A g \in Fits(n) \ {h} :
        FreeSize(h) < FreeSize(g) \/ (FreeSize(h) = FreeSize(g) /\ Precedes(h, g))

-----------------------------------------------------------------------------
(* allocBlock *)

\* The label "found": take the first descriptor of size 0, link it behind best.
Found(best, n) ==
  \/ \E h \in Handles :
       /\ size[h] = 0
       /\ \A g \in 1 .. h - 1 : size[g] # 0
       /\ begin' = [begin EXCEPT ![h] = End(best)]
       /\ size' = [size EXCEPT ![h] = n]
       /\ nextblock' = [nextblock EXCEPT ![h] = nextblock[best], ![best] = h]
  \/ /\ \A h \in Handles : size[h] # 0
     /\ UNCHANGED blockVars

\* There is a gap, or else compaction starts.
AllocBlock(n) ==
  /\ want = 0
  /\ \/ /\ \E best \in Fits(n) : IsBest(best, n) /\ Found(best, n)
        /\ UNCHANGED <<cur, want>>
     \/ /\ Fits(n) = {}
        /\ want' = n
        /\ cur' = POOLSTART
        /\ UNCHANGED blockVars
  /\ UNCHANGED mem

\* MEMPOOL_MEMBLOCK_MV: the controller's DMA copies in ascending order, which
\* is right for overlapping areas because blocks only move down.
Moved(dest, src, n) ==
  [a \in Addresses |-> IF a \in dest .. dest + n - 1 THEN mem[src + (a - dest)] ELSE mem[a]]

\* Bug: only the descriptor moves, not the bytes.
CollectWithoutBytes ==
  /\ want # 0
  /\ nextblock[cur] # NOBLOCK
  /\ begin' = [begin EXCEPT ![nextblock[cur]] = End(cur)]
  /\ cur' = nextblock[cur]
  /\ UNCHANGED <<size, nextblock, mem, want>>

\* Bug: the loop does not advance.
CollectSameBlock ==
  /\ want # 0
  /\ nextblock[cur] # NOBLOCK
  /\ begin' = [begin EXCEPT ![nextblock[cur]] = End(cur)]
  /\ UNCHANGED <<size, nextblock, mem, cur, want>>

\* One round of the loop of "collect".
CollectBlock ==
  /\ want # 0
  /\ nextblock[cur] # NOBLOCK
  /\ LET next == nextblock[cur]
         dest == End(cur)
     IN /\ mem' = IF dest # begin[next]
                    THEN Moved(dest, begin[next], size[next])
                    ELSE mem
        /\ begin' = [begin EXCEPT ![next] = dest]
        /\ cur' = next
  /\ UNCHANGED <<size, nextblock, want>>

\* Bug: ">" for ">=".
CollectEndTight ==
  /\ want # 0
  /\ nextblock[cur] = NOBLOCK
  /\ \/ PoolEnd - End(cur) > want /\ Found(cur, want)
     \/ PoolEnd - End(cur) <= want /\ UNCHANGED blockVars
  /\ want' = 0
  /\ cur' = POOLSTART
  /\ UNCHANGED mem

\* All free memory is behind the last block now: use it or give up.
CollectEnd ==
  /\ want # 0
  /\ nextblock[cur] = NOBLOCK
  /\ \/ PoolEnd - End(cur) >= want /\ Found(cur, want)
     \/ PoolEnd - End(cur) < want /\ UNCHANGED blockVars
  /\ want' = 0
  /\ cur' = POOLSTART
  /\ UNCHANGED mem

-----------------------------------------------------------------------------
(* The other operations *)

\* Bug: size is not reset, the descriptor never becomes free.
FreeBlockKeepsSize(h) ==
  /\ want = 0
  /\ \E b \in InList :
       /\ nextblock[b] = h
       /\ nextblock' = [nextblock EXCEPT ![b] = nextblock[h], ![h] = NOBLOCK]
  /\ UNCHANGED <<begin, size, mem, cur, want>>

\* Bug: the new size is taken from the old one once more.
ResizeBlockTwice(h, position, n) ==
  /\ want = 0
  /\ n >= 1 /\ position + n <= size[h]
  /\ begin' = [begin EXCEPT ![h] = begin[h] + position]
  /\ size' = [size EXCEPT ![h] = n - position - 1]
  /\ UNCHANGED <<nextblock, mem, cur, want>>

\* A handle that is not linked is ignored.
FreeBlock(h) ==
  /\ want = 0
  /\ \E b \in InList :
       /\ nextblock[b] = h
       /\ nextblock' = [nextblock EXCEPT ![b] = nextblock[h], ![h] = NOBLOCK]
  /\ size' = [size EXCEPT ![h] = 0]
  /\ UNCHANGED <<begin, mem, cur, want>>

\* Both overloads: the shorter one is n = size[h] - position.
ResizeBlock(h, position, n) ==
  /\ want = 0
  /\ n >= 1 /\ position + n <= size[h]
  /\ begin' = [begin EXCEPT ![h] = begin[h] + position]
  /\ size' = [size EXCEPT ![h] = n]
  /\ UNCHANGED <<nextblock, mem, cur, want>>

\* One byte of Enc28J60Network::writePacket or copyPacket.
WriteByte(h, position, v) ==
  /\ want = 0
  /\ position < size[h]
  /\ mem' = [mem EXCEPT ![begin[h] + position] = v]
  /\ UNCHANGED <<begin, size, nextblock, cur, want>>

Next ==
  \/ \E n \in RequestSizes : AllocBlock(n)
  \/ CollectBlock
  \/ CollectEnd
  \/ \E h \in Handles : FreeBlock(h)
  \/ \E h \in Handles, position \in 0 .. MEMPOOL_SIZE, n \in 1 .. MEMPOOL_SIZE :
       ResizeBlock(h, position, n)
  \/ \E h \in Handles, position \in 0 .. MEMPOOL_SIZE, v \in Byte :
       WriteByte(h, position, v)

Spec == Init /\ [][Next]_vars

\* The loop of "collect" runs to its end within one call of allocBlock.
FairSpec == Spec /\ WF_vars(CollectBlock \/ CollectEnd)
-----------------------------------------------------------------------------
(* Properties *)

\* Every variable has its type.
TypeOK ==
  /\ begin \in [Descriptors -> Nat]
  /\ size \in [Descriptors -> Nat]
  /\ nextblock \in [Descriptors -> Descriptors]
  /\ mem \in [Addresses -> Byte]
  /\ cur \in Descriptors
  /\ want \in {0} \cup RequestSizes

\* The list links each block in use exactly once and no other descriptor:
\* "block->size" being 0 is how allocBlock recognises a free descriptor, while
\* the search, compaction and freeBlock go by the links (mempool.cpp:44-114).
ListSound ==
  /\ begin[POOLSTART] = MEMPOOL_STARTADDRESS
  /\ size[POOLSTART] = 0
  /\ \A h \in Handles : size[h] # 0 <=> \E b \in Descriptors : nextblock[b] = h
  /\ \A h \in Handles : size[h] = 0 => nextblock[h] = NOBLOCK
  /\ \A a, b \in Descriptors :
        nextblock[a] = nextblock[b] /\ nextblock[a] # NOBLOCK => a = b

\* The list has address order and no block lies between a block and the next
\* one, so that the gaps FreeSize computes are really free (mempool.cpp:47).
ListOrdered ==
  /\ \A h \in Descriptors :
        nextblock[h] # NOBLOCK => End(h) <= begin[nextblock[h]]
  /\ \A a \in Descriptors, b \in Handles :
        /\ a = POOLSTART \/ size[a] # 0
        /\ size[b] # 0
        /\ a # b
        => \/ a # POOLSTART /\ End(b) <= begin[a]
           \/ nextblock[a] # NOBLOCK /\ begin[nextblock[a]] <= begin[b]

\* The blocks in use stay inside the pool: bytes past its end belong to the
\* receive ring or to nothing (mempool_conf.h:28-29).
InsidePool ==
  \A h \in Handles : size[h] # 0 => MEMPOOL_STARTADDRESS <= begin[h] /\ End(h) <= PoolEnd

\* No two blocks share a byte, in between two rounds of the compaction loop
\* too: sendPacket, writePacket and copyPacket rely on it.
BlocksDisjoint ==
  \A a, b \in Handles :
     a # b /\ size[a] # 0 /\ size[b] # 0 => End(a) <= begin[b] \/ End(b) <= begin[a]

\* Compaction is idle or has reached a block that is still linked.
CollectOK ==
  /\ want = 0 => cur = POOLSTART
  /\ cur = POOLSTART \/ size[cur] # 0

\* The inductive invariant.
IInv == TypeOK /\ ListSound /\ ListOrdered /\ InsidePool /\ CollectOK

\* allocBlock returns: the compaction loop reaches the end of the list.
CollectTerminates == want # 0 ~> want = 0

\* The content of block h, the empty function for a free descriptor.
DataOf(h) == [i \in 0 .. size[h] - 1 |-> mem[begin[h] + i]]

\* Callers see a store of private blocks; compaction is invisible to them.
Store == INSTANCE BlockStore WITH
           Capacity <- MEMPOOL_SIZE,
           data <- [h \in Handles |-> DataOf(h)]
Implements == Store!StoreSpec
=============================================================================
