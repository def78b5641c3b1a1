-------------------------- MODULE MemoryPoolProofs --------------------------
(***************************************************************************)
(* The invariants of MemoryPool for every number of descriptors, every     *)
(* pool size and every set of request sizes.                               *)
(***************************************************************************)
EXTENDS MCMemoryPool, Sums

\* The descriptors are the handles and the dummy descriptor.
LEMMA DescriptorsAreHandles ==
  /\ POOLSTART \in Descriptors
  /\ \A h : h \in Descriptors <=> h = POOLSTART \/ h \in Handles
  /\ \A h \in Handles : h \in Nat /\ h # POOLSTART /\ h # NOBLOCK
  /\ \A h \in Descriptors : h # NOBLOCK => h \in Handles
BY PoolAssumption DEF Descriptors, Handles, POOLSTART, NOBLOCK

\* No two blocks share a byte: a consequence of the order of the list.
LEMMA OrderedIsDisjoint ==
  ASSUME TypeOK, ListSound, ListOrdered
  PROVE  BlocksDisjoint
<1> USE DescriptorsAreHandles
<1> SUFFICES ASSUME NEW a \in Handles, NEW b \in Handles,
                    a # b, size[a] # 0, size[b] # 0
             PROVE  End(a) <= begin[b] \/ End(b) <= begin[a]
  BY DEF BlocksDisjoint
<1>1. \/ End(b) <= begin[a]
      \/ nextblock[a] # NOBLOCK /\ begin[nextblock[a]] <= begin[b]
  BY DEF ListOrdered
<1>2. CASE nextblock[a] # NOBLOCK /\ begin[nextblock[a]] <= begin[b]
  <2>1. End(a) <= begin[nextblock[a]]
    BY <1>2 DEF ListOrdered
  <2>2. End(a) \in Nat /\ begin[nextblock[a]] \in Nat /\ begin[b] \in Nat
    BY DEF TypeOK, End
  <2> QED BY <1>2, <2>1, <2>2
<1> QED BY <1>1, <1>2

\* Initially no descriptor is in use.
LEMMA InitInvariant == Init => IInv
<1> SUFFICES ASSUME Init PROVE IInv
  OBVIOUS
<1> USE DescriptorsAreHandles, PoolAssumption
<1>1. TypeOK BY DEF Init, TypeOK, POOLSTART, NOBLOCK
<1>2. ListSound BY DEF Init, ListSound, POOLSTART, NOBLOCK
<1>3. ListOrdered BY DEF Init, ListOrdered, POOLSTART, NOBLOCK
<1>4. InsidePool BY DEF Init, InsidePool
<1>5. CollectOK BY DEF Init, CollectOK
<1> QED BY <1>1, <1>2, <1>3, <1>4, <1>5 DEF IInv

\* Linking a free descriptor behind a block with a large enough gap keeps the
\* list sound and ordered (the label "found" of allocBlock).
LEMMA FoundInvariant ==
  ASSUME IInv, NEW best \in Descriptors, NEW n \in Nat \ {0},
         best = POOLSTART \/ size[best] # 0,
         FreeSize(best) >= n, Found(best, n)
  PROVE  /\ begin' \in [Descriptors -> Nat]
         /\ size' \in [Descriptors -> Nat]
         /\ nextblock' \in [Descriptors -> Descriptors]
         /\ ListSound' /\ ListOrdered' /\ InsidePool'
         /\ \A b \in Descriptors : size[b] # 0 => size'[b] # 0
<1> USE DescriptorsAreHandles, PoolAssumption DEF IInv
<1>1. CASE UNCHANGED blockVars
  BY <1>1 DEF blockVars, TypeOK, ListSound, ListOrdered, InsidePool, End, PoolEnd
<1>2. ASSUME NEW h \in Handles, size[h] = 0,
             begin' = [begin EXCEPT ![h] = End(best)],
             size' = [size EXCEPT ![h] = n],
             nextblock' = [nextblock EXCEPT ![h] = nextblock[best], ![best] = h]
      PROVE  /\ begin' \in [Descriptors -> Nat]
             /\ size' \in [Descriptors -> Nat]
             /\ nextblock' \in [Descriptors -> Descriptors]
             /\ ListSound' /\ ListOrdered' /\ InsidePool'
             /\ \A b \in Descriptors : size[b] # 0 => size'[b] # 0
  <2>1. End(best) \in Nat
    BY DEF End, TypeOK
  <2>2. h # best /\ best \in Descriptors /\ h \in Descriptors
    BY <1>2
  <2>3. /\ begin' \in [Descriptors -> Nat]
        /\ size' \in [Descriptors -> Nat]
        /\ nextblock' \in [Descriptors -> Descriptors]
    BY <1>2, <2>1 DEF TypeOK
  <2>4. /\ begin'[h] = End(best) /\ size'[h] = n
        /\ nextblock'[best] = h /\ nextblock'[h] = nextblock[best]
        /\ \A b \in Descriptors \ {h} : begin'[b] = begin[b] /\ size'[b] = size[b]
        /\ \A b \in Descriptors \ {h, best} : nextblock'[b] = nextblock[b]
    BY <1>2, <2>2 DEF TypeOK
  <2>5. /\ \A b \in Descriptors : nextblock[b] # h
        /\ nextblock[best] # NOBLOCK => size[nextblock[best]] # 0
    BY <1>2 DEF ListSound, TypeOK
  <2>6. ListSound'
    <3>1. begin'[POOLSTART] = MEMPOOL_STARTADDRESS /\ size'[POOLSTART] = 0
      BY <2>4 DEF ListSound
    <3>2. ASSUME NEW g \in Handles
          PROVE  size'[g] # 0 <=> \E b \in Descriptors : nextblock'[b] = g
      <4>1. CASE g = h BY <4>1, <2>4, <2>2
      <4>2. CASE g # h
        <5>1. size'[g] # 0 <=> \E b \in Descriptors : nextblock[b] = g
          BY <4>2, <2>4 DEF ListSound
        <5>2. (\E b \in Descriptors : nextblock[b] = g)
                <=> (\E b \in Descriptors : nextblock'[b] = g)
          <6>1. ASSUME NEW b \in Descriptors, nextblock[b] = g
                PROVE  \E c \in Descriptors : nextblock'[c] = g
            <7>1. CASE b = best BY <7>1, <6>1, <2>4, <2>2
            <7>2. CASE b = h
              BY <7>2, <6>1, <1>2, <2>5 DEF ListSound, TypeOK
            <7>3. CASE b # best /\ b # h BY <7>3, <6>1, <2>4
            <7> QED BY <7>1, <7>2, <7>3
          <6>2. ASSUME NEW b \in Descriptors, nextblock'[b] = g
                PROVE  \E c \in Descriptors : nextblock[c] = g
            BY <6>2, <4>2, <2>4, <2>2
          <6> QED BY <6>1, <6>2
        <5> QED BY <5>1, <5>2
      <4> QED BY <4>1, <4>2
    <3>3. ASSUME NEW a \in Descriptors, NEW b \in Descriptors,
                 nextblock'[a] = nextblock'[b], nextblock'[a] # NOBLOCK
          PROVE  a = b
      BY <3>3, <2>4, <2>5, <2>2 DEF ListSound, TypeOK
    <3>4. ASSUME NEW g \in Handles, size'[g] = 0
          PROVE  nextblock'[g] = NOBLOCK
      BY <3>4, <2>4, <2>2 DEF ListSound
    <3> QED BY <3>1, <3>2, <3>3, <3>4 DEF ListSound
  <2>7. n + End(best) <= PoolEnd
        /\ (nextblock[best] # NOBLOCK => n + End(best) <= begin[nextblock[best]])
    <3>1. CASE nextblock[best] = NOBLOCK
      BY <3>1, <2>1 DEF FreeSize, PoolEnd
    <3>2. CASE nextblock[best] # NOBLOCK
      <4>1. nextblock[best] \in Handles /\ begin[nextblock[best]] \in Nat
            /\ size[nextblock[best]] \in Nat
        BY <3>2 DEF TypeOK
      <4>2. begin[nextblock[best]] + size[nextblock[best]] <= PoolEnd
        BY <4>1, <2>5, <3>2 DEF InsidePool, End
      <4> QED BY <3>2, <4>1, <4>2, <2>1 DEF FreeSize, PoolEnd
    <3> QED BY <3>1, <3>2
  <2>8. /\ End(h)' = End(best) + n
        /\ \A b \in Descriptors \ {h} : End(b)' = End(b)
        /\ \A b \in Descriptors : End(b) \in Nat /\ begin[b] \in Nat /\ size[b] \in Nat
        /\ \A b \in Descriptors : begin[b] <= End(b)
        /\ \A b \in Descriptors : size[b] # 0 => begin[b] < End(b)
    BY <2>4, <2>2 DEF End, TypeOK
  <2>9. ASSUME NEW g \in Descriptors, nextblock'[g] # NOBLOCK
        PROVE  End(g)' <= begin'[nextblock'[g]]
    <3>1. CASE g = best BY <3>1, <2>2, <2>4, <2>8
    <3>2. CASE g = h BY <3>2, <2>9, <2>4, <2>5, <2>7, <2>8 DEF TypeOK
    <3>3. CASE g # best /\ g # h
      BY <3>3, <2>9, <2>4, <2>5, <2>8 DEF ListOrdered, TypeOK
    <3> QED BY <3>1, <3>2, <3>3
  <2>10. ASSUME NEW a \in Descriptors, NEW b \in Handles,
                a = POOLSTART \/ size'[a] # 0, size'[b] # 0, a # b
         PROVE  \/ a # POOLSTART /\ End(b)' <= begin'[a]
                \/ nextblock'[a] # NOBLOCK /\ begin'[nextblock'[a]] <= begin'[b]
    <3>1. CASE a = h
      <4>1. CASE b = best BY <4>1, <3>1, <2>2, <2>4, <2>8
      <4>2. CASE b # best
        <5>1. \/ best # POOLSTART /\ End(b) <= begin[best]
              \/ nextblock[best] # NOBLOCK /\ begin[nextblock[best]] <= begin[b]
          BY <4>2, <3>1, <2>10, <2>4 DEF ListOrdered
        <5> QED BY <5>1, <3>1, <2>10, <2>4, <2>5, <2>8 DEF TypeOK
      <4> QED BY <4>1, <4>2
    <3>2. CASE b = h
      <4>1. CASE a = best BY <4>1, <3>2, <2>2, <2>4, <2>8
      <4>2. CASE a # best /\ a = POOLSTART
        <5>1. nextblock[a] # NOBLOCK /\ begin[nextblock[a]] <= begin[best]
          BY <4>2, <2>2 DEF ListOrdered
        <5> QED BY <5>1, <4>2, <3>2, <2>2, <2>4, <2>5, <2>8 DEF TypeOK
      <4>3. CASE a # best /\ a # POOLSTART
        <5>1. size[a] # 0
          BY <4>3, <3>2, <2>10, <2>4
        <5>2. \/ best # POOLSTART /\ End(a) <= begin[best]
              \/ nextblock[best] # NOBLOCK /\ begin[nextblock[best]] <= begin[a]
          BY <4>3, <5>1 DEF ListOrdered
        <5>3. CASE best # POOLSTART /\ End(a) <= begin[best]
          <6>1. \/ End(best) <= begin[a]
                \/ nextblock[a] # NOBLOCK /\ begin[nextblock[a]] <= begin[best]
            BY <4>3, <5>1, <5>3 DEF ListOrdered
          <6>2. nextblock[a] # NOBLOCK /\ begin[nextblock[a]] <= begin[best]
            BY <6>1, <5>1, <5>3, <2>8
          <6>3. nextblock'[a] = nextblock[a] /\ nextblock[a] \in Descriptors \ {h}
            BY <4>3, <3>2, <2>10, <2>4, <2>5 DEF TypeOK
          <6> QED BY <6>2, <6>3, <3>2, <2>4, <2>8
        <5>4. CASE nextblock[best] # NOBLOCK /\ begin[nextblock[best]] <= begin[a]
          <6>1. nextblock[best] \in Descriptors
            BY DEF TypeOK
          <6> QED BY <5>4, <6>1, <4>3, <3>2, <2>10, <2>4, <2>7, <2>8
        <5> QED BY <5>2, <5>3, <5>4
      <4> QED BY <4>1, <4>2, <4>3
    <3>3. CASE a # h /\ b # h
      <4>1. \/ a # POOLSTART /\ End(b) <= begin[a]
            \/ nextblock[a] # NOBLOCK /\ begin[nextblock[a]] <= begin[b]
        BY <3>3, <2>10, <2>4 DEF ListOrdered
      <4>2. CASE a # POOLSTART /\ End(b) <= begin[a]
        BY <4>2, <3>3, <2>4, <2>8
      <4>3. CASE nextblock[a] # NOBLOCK /\ begin[nextblock[a]] <= begin[b]
        <5>0. nextblock[a] \in Descriptors \ {h}
          BY <2>5 DEF TypeOK
        <5>1. CASE a = best
          BY <5>1, <5>0, <4>3, <3>3, <2>2, <2>4, <2>7, <2>8
        <5>2. CASE a # best BY <5>2, <5>0, <4>3, <3>3, <2>4
        <5> QED BY <5>1, <5>2
      <4> QED BY <4>1, <4>2, <4>3
    <3> QED BY <3>1, <3>2, <3>3
  <2>11. ListOrdered'
    BY <2>9, <2>10 DEF ListOrdered
  <2>12. InsidePool'
    <3>1. MEMPOOL_STARTADDRESS <= End(best)
      BY <2>8 DEF InsidePool, ListSound
    <3>2. PoolEnd' = PoolEnd
      BY DEF PoolEnd
    <3>3. ASSUME NEW g \in Handles, size'[g] # 0
          PROVE  MEMPOOL_STARTADDRESS <= begin'[g] /\ End(g)' <= PoolEnd
      <4>1. CASE g = h BY <4>1, <3>1, <2>1, <2>4, <2>7, <2>8
      <4>2. CASE g # h BY <4>2, <3>3, <2>4, <2>8 DEF InsidePool
      <4> QED BY <4>1, <4>2
    <3> QED BY <3>2, <3>3 DEF InsidePool
  <2>13. \A b \in Descriptors : size[b] # 0 => size'[b] # 0
    BY <2>4
  <2> QED BY <2>3, <2>6, <2>11, <2>12, <2>13
<1> QED BY <1>1, <1>2 DEF Found
\* The block the search finds is linked and large enough.
LEMMA AllocInvariant ==
  ASSUME IInv, NEW n \in RequestSizes, AllocBlock(n)
  PROVE  IInv'
<1> USE DescriptorsAreHandles, PoolAssumption
<1>1. n \in Nat \ {0} /\ want = 0 /\ mem' = mem
  BY DEF AllocBlock
<1>2. CASE \E best \in Fits(n) : IsBest(best, n) /\ Found(best, n)
  <2>1. PICK best \in Fits(n) : Found(best, n)
    BY <1>2
  <2>2. best \in Descriptors /\ FreeSize(best) >= n
    BY <2>1 DEF Fits, InList, IInv, TypeOK
  <2>3. best = POOLSTART \/ size[best] # 0
    BY <2>1 DEF Fits, InList, IInv, ListSound, TypeOK
  <2>4. /\ begin' \in [Descriptors -> Nat]
        /\ size' \in [Descriptors -> Nat]
        /\ nextblock' \in [Descriptors -> Descriptors]
        /\ ListSound' /\ ListOrdered' /\ InsidePool'
    BY <1>1, <2>1, <2>2, <2>3, FoundInvariant
  <2>5. UNCHANGED <<cur, want>>
    BY <1>2 DEF AllocBlock
  <2> QED BY <1>1, <2>4, <2>5 DEF IInv, TypeOK, CollectOK
<1>3. CASE Fits(n) = {} /\ want' = n /\ cur' = POOLSTART /\ UNCHANGED blockVars
  BY <1>1, <1>3 DEF IInv, TypeOK, ListSound, ListOrdered, InsidePool, CollectOK,
                    End, PoolEnd, blockVars
<1> QED BY <1>2, <1>3 DEF AllocBlock

\* At the end of compaction the last block has all free memory behind it.
LEMMA CollectEndInvariant ==
  ASSUME IInv, CollectEnd
  PROVE  IInv'
<1> USE DescriptorsAreHandles, PoolAssumption
<1>1. want \in Nat \ {0} /\ mem' = mem /\ want' = 0 /\ cur' = POOLSTART
  BY DEF CollectEnd, IInv, TypeOK
<1>2. CASE PoolEnd - End(cur) >= want /\ Found(cur, want)
  <2>1. cur \in Descriptors /\ (cur = POOLSTART \/ size[cur] # 0)
    BY DEF IInv, TypeOK, CollectOK
  <2>2. FreeSize(cur) >= want
    BY <1>2 DEF CollectEnd, FreeSize
  <2>3. /\ begin' \in [Descriptors -> Nat]
        /\ size' \in [Descriptors -> Nat]
        /\ nextblock' \in [Descriptors -> Descriptors]
        /\ ListSound' /\ ListOrdered' /\ InsidePool'
    BY <1>1, <1>2, <2>1, <2>2, FoundInvariant
  <2> QED BY <1>1, <2>3 DEF IInv, TypeOK, CollectOK
<1>3. CASE UNCHANGED blockVars
  BY <1>1, <1>3 DEF IInv, TypeOK, ListSound, ListOrdered, InsidePool, CollectOK,
                    End, PoolEnd, blockVars
<1> QED BY <1>2, <1>3 DEF CollectEnd
\* What is known about the block a round of compaction moves.
LEMMA CollectFacts ==
  ASSUME IInv, CollectBlock
  PROVE  /\ cur \in Descriptors /\ (cur = POOLSTART \/ size[cur] # 0)
         /\ nextblock[cur] \in Handles /\ size[nextblock[cur]] # 0
         /\ MEMPOOL_STARTADDRESS <= End(cur)
         /\ End(cur) <= begin[nextblock[cur]]
         /\ End(nextblock[cur]) <= PoolEnd
         /\ begin'[nextblock[cur]] = End(cur)
         /\ \A b \in Descriptors \ {nextblock[cur]} : begin'[b] = begin[b]
         /\ \A b \in Descriptors :
               End(b) \in Nat /\ begin[b] \in Nat /\ size[b] \in Nat /\ begin[b] <= End(b)
         /\ \A b \in Descriptors : size[b] # 0 => begin[b] < End(b)
<1> USE DescriptorsAreHandles, PoolAssumption
<1>1. cur \in Descriptors /\ (cur = POOLSTART \/ size[cur] # 0)
  BY DEF IInv, TypeOK, CollectOK
<1>2. nextblock[cur] \in Handles /\ size[nextblock[cur]] # 0
  BY <1>1 DEF CollectBlock, IInv, TypeOK, ListSound
<1>3. End(cur) <= begin[nextblock[cur]]
  BY <1>1 DEF CollectBlock, IInv, ListOrdered
<1>4. End(nextblock[cur]) <= PoolEnd
  BY <1>2 DEF IInv, InsidePool
<1>5. /\ \A b \in Descriptors :
            End(b) \in Nat /\ begin[b] \in Nat /\ size[b] \in Nat /\ begin[b] <= End(b)
      /\ \A b \in Descriptors : size[b] # 0 => begin[b] < End(b)
  BY DEF IInv, TypeOK, End
<1>6. MEMPOOL_STARTADDRESS <= End(cur)
  BY <1>1, <1>5 DEF IInv, InsidePool, ListSound
<1>7. /\ begin'[nextblock[cur]] = End(cur)
      /\ \A b \in Descriptors \ {nextblock[cur]} : begin'[b] = begin[b]
  BY <1>2 DEF CollectBlock, IInv, TypeOK
<1> QED BY <1>1, <1>2, <1>3, <1>4, <1>5, <1>6, <1>7

\* The block that moves passes no other one: every other block is in front of
\* it and ends at cur's end or before, or is behind it.
LEMMA CollectMovesFreely ==
  ASSUME IInv, CollectBlock,
         NEW b \in Handles, size[b] # 0, b # nextblock[cur]
  PROVE  End(b) <= End(cur) \/ End(nextblock[cur]) <= begin[b]
<1> USE DescriptorsAreHandles, PoolAssumption, CollectFacts
<1> DEFINE next == nextblock[cur]
<1>1. CASE b = cur
  BY <1>1
<1>2. CASE b # cur
  <2>1. \/ End(b) <= begin[cur]
        \/ begin[next] <= begin[b]
    BY <1>2 DEF IInv, ListOrdered
  <2>2. \/ End(next) <= begin[b]
        \/ End(b) <= begin[next]
    BY OrderedIsDisjoint DEF IInv, BlocksDisjoint
  <2> QED BY <2>1, <2>2
<1> QED BY <1>1, <1>2

\* A round of compaction keeps the list as it is and the blocks in order.
LEMMA CollectInvariant ==
  ASSUME IInv, CollectBlock
  PROVE  IInv'
<1> USE DescriptorsAreHandles, PoolAssumption, CollectFacts
<1>0. PICK next \in Handles : next = nextblock[cur] /\ size[next] # 0
  OBVIOUS
<1>1. size' = size /\ nextblock' = nextblock /\ want' = want /\ cur' = next /\ want # 0
  BY <1>0 DEF CollectBlock
<1>2. /\ begin'[next] = End(cur) /\ End(next)' = End(cur) + size[next]
      /\ End(next)' <= End(next) /\ begin'[next] <= begin[next]
      /\ \A b \in Descriptors \ {next} : begin'[b] = begin[b] /\ End(b)' = End(b)
  BY <1>0, <1>1 DEF End
<1>3. begin' \in [Descriptors -> Nat]
  BY DEF CollectBlock, IInv, TypeOK
<1>4. mem' \in [Addresses -> Byte]
  <2>1. \A a \in Addresses : a \in End(cur) .. End(cur) + size[next] - 1
                               => begin[next] + (a - End(cur)) \in Addresses
    BY <1>0 DEF Addresses, PoolEnd, End
  <2> QED BY <2>1, <1>0 DEF CollectBlock, Moved, IInv, TypeOK
<1>5. TypeOK'
  BY <1>0, <1>1, <1>3, <1>4 DEF IInv, TypeOK
<1>6. ListSound'
  BY <1>0, <1>1, <1>2 DEF IInv, ListSound
<1>7. ListOrdered'
  <2>1. ASSUME NEW g \in Descriptors, nextblock[g] # NOBLOCK
        PROVE  End(g)' <= begin'[nextblock[g]]
    <3>1. nextblock[g] \in Handles /\ End(g) <= begin[nextblock[g]]
          /\ size[nextblock[g]] # 0
      BY <2>1 DEF IInv, TypeOK, ListOrdered, ListSound
    <3>2. CASE g = cur
      <4>1. cur # next
        BY <1>0
      <4> QED BY <4>1, <3>2, <1>0, <1>2
    <3>3. CASE g # cur
      <4>1. nextblock[g] # next
        BY <3>3, <2>1, <1>0 DEF IInv, ListSound
      <4>2. End(g)' <= End(g)
        BY <1>2
      <4>3. End(g)' \in Nat
        BY <1>1, <1>3 DEF IInv, TypeOK, End
      <4> QED BY <4>1, <4>2, <4>3, <3>1, <1>2
    <3> QED BY <3>2, <3>3
  <2>2. ASSUME NEW a \in Descriptors, NEW b \in Handles,
               a = POOLSTART \/ size[a] # 0, size[b] # 0, a # b
        PROVE  \/ a # POOLSTART /\ End(b)' <= begin'[a]
               \/ nextblock[a] # NOBLOCK /\ begin'[nextblock[a]] <= begin'[b]
    <3>1. \/ a # POOLSTART /\ End(b) <= begin[a]
          \/ nextblock[a] # NOBLOCK /\ begin[nextblock[a]] <= begin[b]
      BY <2>2 DEF IInv, ListOrdered
    <3>2. nextblock[a] # NOBLOCK =>
            nextblock[a] \in Handles /\ size[nextblock[a]] # 0 /\ End(a) <= begin[nextblock[a]]
      BY DEF IInv, TypeOK, ListSound, ListOrdered
    <3>3. CASE a = next
      <4>1. End(b) <= End(cur) \/ End(next) <= begin[b]
        BY <1>0, <2>2, <3>3, CollectMovesFreely
      <4>2. nextblock[a] # NOBLOCK => nextblock[a] # next
        BY <1>0, <3>2, <3>3
      <4> QED BY <4>1, <4>2, <3>1, <3>2, <3>3, <2>2, <1>0, <1>2
    <3>4. CASE b = next
      <4>1. CASE a # POOLSTART /\ End(b) <= begin[a]
        <5>1. End(b)' \in Nat
          BY <1>1, <1>3 DEF IInv, TypeOK, End
        <5> QED BY <5>1, <4>1, <3>4, <2>2, <1>2
      <4>2. CASE a = cur
        BY <4>2, <3>4, <1>0, <1>2
      <4>3. CASE a # cur /\ nextblock[a] # NOBLOCK /\ begin[nextblock[a]] <= begin[b]
        <5>1. nextblock[a] # next
          BY <4>3, <1>0 DEF IInv, ListSound
        <5>2. End(nextblock[a]) <= End(cur) \/ End(next) <= begin[nextblock[a]]
          BY <5>1, <4>3, <3>2, <1>0, CollectMovesFreely
        <5>3. begin[nextblock[a]] <= End(cur)
          BY <5>2, <4>3, <3>2, <3>4, <1>0
        <5> QED BY <5>1, <5>3, <4>3, <3>2, <3>4, <1>2
      <4> QED BY <4>1, <4>2, <4>3, <3>1
    <3>5. CASE a # next /\ b # next
      <4>1. nextblock[a] # NOBLOCK => begin'[nextblock[a]] <= begin[nextblock[a]]
        BY <3>2, <1>2
      <4>2. nextblock[a] # NOBLOCK => begin'[nextblock[a]] \in Nat
        BY <3>2, <1>3
      <4> QED BY <4>1, <4>2, <3>1, <3>2, <3>5, <1>2
    <3> QED BY <3>3, <3>4, <3>5
  <2> QED BY <2>1, <2>2, <1>1 DEF ListOrdered
<1>8. InsidePool'
  <2>1. ASSUME NEW h \in Handles, size[h] # 0
        PROVE  MEMPOOL_STARTADDRESS <= begin'[h] /\ End(h)' <= PoolEnd
    <3>1. CASE h = next
      <4>1. End(next)' \in Nat /\ PoolEnd \in Nat
        BY <1>1, <1>3 DEF IInv, TypeOK, End, PoolEnd
      <4> QED BY <4>1, <3>1, <1>0, <1>2
    <3>2. CASE h # next
      BY <2>1, <3>2, <1>2 DEF IInv, InsidePool
    <3> QED BY <3>1, <3>2
  <2> QED BY <2>1, <1>1 DEF InsidePool, PoolEnd
<1>9. CollectOK'
  BY <1>0, <1>1 DEF CollectOK
<1> QED BY <1>5, <1>6, <1>7, <1>8, <1>9 DEF IInv
\* Unlinking a block gives its bytes to the gap of its predecessor.
LEMMA FreeInvariant ==
  ASSUME IInv, NEW h \in Handles, FreeBlock(h)
  PROVE  IInv'
<1> USE DescriptorsAreHandles, PoolAssumption
<1>1. PICK p \in Descriptors :
        /\ nextblock[p] = h
        /\ nextblock' = [nextblock EXCEPT ![p] = nextblock[h], ![h] = NOBLOCK]
  <2>1. InList \subseteq Descriptors
    BY DEF InList, IInv, TypeOK
  <2>2. PICK p \in InList :
          /\ nextblock[p] = h
          /\ nextblock' = [nextblock EXCEPT ![p] = nextblock[h], ![h] = NOBLOCK]
    BY DEF FreeBlock
  <2> QED BY <2>1, <2>2
<1>2. /\ begin' = begin /\ mem' = mem /\ cur' = cur /\ want' = want /\ want = 0
      /\ size' = [size EXCEPT ![h] = 0]
  BY DEF FreeBlock
<1>3. size[h] # 0 /\ (p = POOLSTART \/ size[p] # 0)
  BY <1>1 DEF IInv, ListSound
<1>4. /\ \A b \in Descriptors :
           End(b) \in Nat /\ begin[b] \in Nat /\ size[b] \in Nat /\ begin[b] <= End(b)
      /\ \A b \in Descriptors : size[b] # 0 => begin[b] < End(b)
  BY DEF IInv, TypeOK, End
<1>5. p # h /\ End(p) <= begin[h]
  <2>1. End(p) <= begin[h]
    BY <1>1 DEF IInv, ListOrdered
  <2> QED BY <2>1, <1>3, <1>4
<1>6. /\ size'[h] = 0 /\ nextblock'[h] = NOBLOCK /\ nextblock'[p] = nextblock[h]
      /\ \A b \in Descriptors \ {h} : size'[b] = size[b] /\ End(b)' = End(b)
      /\ \A b \in Descriptors \ {h, p} : nextblock'[b] = nextblock[b]
  BY <1>1, <1>2, <1>5 DEF IInv, TypeOK, End
<1>7. TypeOK'
  BY <1>1, <1>2 DEF IInv, TypeOK, POOLSTART, NOBLOCK
<1>8. \A b \in Descriptors : nextblock[b] = h => b = p
  BY <1>1 DEF IInv, ListSound
<1>9. ListSound'
  <2>1. ASSUME NEW g \in Handles
        PROVE  size'[g] # 0 <=> \E b \in Descriptors : nextblock'[b] = g
    <3>1. CASE g = h
      <4>1. nextblock[h] # h
        BY <1>5, <1>8
      <4>2. \A b \in Descriptors : nextblock'[b] # h
        BY <4>1, <1>6, <1>8
      <4> QED BY <4>2, <3>1, <1>6
    <3>2. CASE g # h
      <4>1. size'[g] # 0 <=> \E b \in Descriptors : nextblock[b] = g
        BY <3>2, <1>6 DEF IInv, ListSound
      <4>2. ASSUME NEW b \in Descriptors, nextblock[b] = g
            PROVE  \E c \in Descriptors : nextblock'[c] = g
        <5>1. b # p
          BY <4>2, <3>2, <1>1
        <5>2. CASE b = h BY <5>2, <4>2, <1>6
        <5>3. CASE b # h BY <5>1, <5>3, <4>2, <1>6
        <5> QED BY <5>2, <5>3
      <4>3. ASSUME NEW b \in Descriptors, nextblock'[b] = g
            PROVE  \E c \in Descriptors : nextblock[c] = g
        BY <4>3, <1>6
      <4> QED BY <4>1, <4>2, <4>3
    <3> QED BY <3>1, <3>2
  <2>2. ASSUME NEW a \in Descriptors, NEW b \in Descriptors,
               nextblock'[a] = nextblock'[b], nextblock'[a] # NOBLOCK
        PROVE  a = b
    BY <2>2, <1>6 DEF IInv, ListSound
  <2>3. \A g \in Handles : size'[g] = 0 => nextblock'[g] = NOBLOCK
    BY <1>3, <1>6 DEF IInv, ListSound
  <2>4. begin'[POOLSTART] = MEMPOOL_STARTADDRESS /\ size'[POOLSTART] = 0
    BY <1>2, <1>6 DEF IInv, ListSound
  <2> QED BY <2>1, <2>2, <2>3, <2>4 DEF ListSound
<1>10. ListOrdered'
  <2>1. nextblock[h] # NOBLOCK =>
           /\ nextblock[h] \in Handles \ {h} /\ End(h) <= begin[nextblock[h]]
    BY <1>3, <1>4 DEF IInv, TypeOK, ListOrdered
  <2>2. ASSUME NEW g \in Descriptors, nextblock'[g] # NOBLOCK
        PROVE  End(g)' <= begin'[nextblock'[g]]
    <3>1. CASE g = p
      BY <3>1, <2>1, <2>2, <1>2, <1>4, <1>5, <1>6
    <3>2. CASE g # p
      <4>1. g # h /\ nextblock'[g] = nextblock[g]
        BY <3>2, <2>2, <1>6
      <4> QED BY <4>1, <2>2, <1>2, <1>6 DEF IInv, ListOrdered
    <3> QED BY <3>1, <3>2
  <2>3. ASSUME NEW a \in Descriptors, NEW b \in Handles,
               a = POOLSTART \/ size'[a] # 0, size'[b] # 0, a # b
        PROVE  \/ a # POOLSTART /\ End(b)' <= begin'[a]
               \/ nextblock'[a] # NOBLOCK /\ begin'[nextblock'[a]] <= begin'[b]
    <3>1. a # h /\ b # h
      BY <2>3, <1>6
    <3>2. \/ a # POOLSTART /\ End(b) <= begin[a]
          \/ nextblock[a] # NOBLOCK /\ begin[nextblock[a]] <= begin[b]
      BY <3>1, <2>3, <1>6 DEF IInv, ListOrdered
    <3>3. CASE a = p /\ begin[h] <= begin[b]
      <4>1. \/ End(b) <= begin[h]
            \/ nextblock[h] # NOBLOCK /\ begin[nextblock[h]] <= begin[b]
        BY <3>1, <2>3, <1>3, <1>6 DEF IInv, ListOrdered
      <4>2. size[b] # 0
        BY <3>1, <2>3, <1>6
      <4> QED BY <4>1, <4>2, <3>3, <1>2, <1>4, <1>6
    <3>4. CASE ~(a = p /\ begin[h] <= begin[b])
      BY <3>4, <3>1, <3>2, <1>1, <1>2, <1>6
    <3> QED BY <3>3, <3>4
  <2> QED BY <2>2, <2>3 DEF ListOrdered
<1>11. InsidePool'
  BY <1>2, <1>6 DEF IInv, InsidePool, PoolEnd
<1>12. CollectOK'
  BY <1>2 DEF IInv, CollectOK
<1> QED BY <1>7, <1>9, <1>10, <1>11, <1>12 DEF IInv

\* Shrinking a block inside its old bounds disturbs no other block.
LEMMA ResizeInvariant ==
  ASSUME IInv, NEW h \in Handles, NEW position \in Nat, NEW n \in Nat,
         ResizeBlock(h, position, n)
  PROVE  IInv'
<1> USE DescriptorsAreHandles, PoolAssumption
<1>1. /\ nextblock' = nextblock /\ mem' = mem /\ cur' = cur /\ want' = want
      /\ n >= 1 /\ position + n <= size[h] /\ want = 0
  BY DEF ResizeBlock
<1>2. /\ begin'[h] = begin[h] + position /\ size'[h] = n
      /\ \A b \in Descriptors \ {h} : begin'[b] = begin[b] /\ size'[b] = size[b]
  BY DEF ResizeBlock, IInv, TypeOK
<1>3. /\ \A b \in Descriptors :
           End(b) \in Nat /\ begin[b] \in Nat /\ size[b] \in Nat /\ begin[b] <= End(b)
      /\ \A b \in Descriptors : size[b] # 0 => begin[b] < End(b)
  BY DEF IInv, TypeOK, End
<1>4. size[h] # 0 /\ size'[h] # 0
  BY <1>1, <1>2, <1>3
<1>5. /\ begin[h] <= begin'[h] /\ begin'[h] \in Nat
      /\ End(h)' <= End(h) /\ End(h)' \in Nat /\ begin'[h] < End(h)'
      /\ \A b \in Descriptors \ {h} : End(b)' = End(b)
  BY <1>1, <1>2, <1>3 DEF End
<1>6. TypeOK'
  BY <1>1 DEF ResizeBlock, IInv, TypeOK
<1>7. ListSound'
  BY <1>1, <1>2, <1>4 DEF IInv, ListSound
<1>8. ListOrdered'
  <2>1. ASSUME NEW g \in Descriptors, nextblock[g] # NOBLOCK
        PROVE  End(g)' <= begin'[nextblock[g]]
    <3>1. nextblock[g] \in Handles /\ End(g) <= begin[nextblock[g]]
      BY <2>1 DEF IInv, TypeOK, ListOrdered
    <3>2. End(g)' <= End(g) /\ begin[nextblock[g]] <= begin'[nextblock[g]]
          /\ End(g)' \in Nat /\ begin'[nextblock[g]] \in Nat
      BY <3>1, <1>2, <1>3, <1>5
    <3> QED BY <3>1, <3>2, <1>3
  <2>2. ASSUME NEW a \in Descriptors, NEW b \in Handles,
               a = POOLSTART \/ size'[a] # 0, size'[b] # 0, a # b
        PROVE  \/ a # POOLSTART /\ End(b)' <= begin'[a]
               \/ nextblock[a] # NOBLOCK /\ begin'[nextblock[a]] <= begin'[b]
    <3>1. \/ a # POOLSTART /\ End(b) <= begin[a]
          \/ nextblock[a] # NOBLOCK /\ begin[nextblock[a]] <= begin[b]
      BY <2>2, <1>2, <1>4 DEF IInv, ListOrdered
    <3>2. CASE a # POOLSTART /\ End(b) <= begin[a]
      <4>1. End(b)' <= End(b) /\ begin[a] <= begin'[a] /\ End(b)' \in Nat /\ begin'[a] \in Nat
        BY <1>2, <1>3, <1>5
      <4> QED BY <4>1, <3>2, <1>3
    <3>3. CASE nextblock[a] # NOBLOCK /\ begin[nextblock[a]] <= begin[b]
      <4>1. nextblock[a] \in Handles
        BY <3>3 DEF IInv, TypeOK
      <4>2. CASE nextblock[a] = b
        BY <4>1, <4>2, <3>3, <1>2, <1>3, <1>5
      <4>3. CASE nextblock[a] # b /\ nextblock[a] # h
        <5>1. begin'[b] \in Nat /\ begin[b] <= begin'[b]
          BY <1>2, <1>3, <1>5
        <5> QED BY <5>1, <4>1, <4>3, <3>3, <1>2, <1>3
      <4>4. CASE nextblock[a] # b /\ nextblock[a] = h
        <5>1. size[b] # 0
          BY <4>4, <2>2, <1>2
        <5>2. End(h) <= begin[b] \/ End(b) <= begin[h]
          BY <5>1, <4>4, <1>4, OrderedIsDisjoint DEF IInv, BlocksDisjoint
        <5> QED BY <5>1, <5>2, <4>4, <3>3, <1>2, <1>3, <1>5
      <4> QED BY <4>2, <4>3, <4>4
    <3> QED BY <3>1, <3>2, <3>3
  <2> QED BY <2>1, <2>2, <1>1 DEF ListOrdered
<1>9. InsidePool'
  <2>1. ASSUME NEW b \in Handles, size'[b] # 0
        PROVE  MEMPOOL_STARTADDRESS <= begin'[b] /\ End(b)' <= PoolEnd
    <3>1. MEMPOOL_STARTADDRESS <= begin[b] /\ End(b) <= PoolEnd /\ PoolEnd \in Nat
      BY <2>1, <1>2, <1>4 DEF IInv, InsidePool, PoolEnd
    <3> QED BY <3>1, <1>2, <1>3, <1>5
  <2> QED BY <2>1, <1>1 DEF InsidePool, PoolEnd
<1>10. CollectOK'
  BY <1>1 DEF IInv, CollectOK
<1> QED BY <1>6, <1>7, <1>8, <1>9, <1>10 DEF IInv

\* Writing a byte leaves the descriptors alone.
LEMMA WriteInvariant ==
  ASSUME IInv, NEW h \in Handles, NEW position \in Nat, NEW v \in Byte,
         WriteByte(h, position, v)
  PROVE  IInv'
BY DEF WriteByte, IInv, TypeOK, ListSound, ListOrdered, InsidePool, CollectOK, End, PoolEnd

\* IInv is inductive.
LEMMA StepInvariant == IInv /\ [Next]_vars => IInv'
<1> SUFFICES ASSUME IInv, [Next]_vars PROVE IInv'
  OBVIOUS
<1>1. CASE UNCHANGED vars
  BY <1>1 DEF vars, IInv, TypeOK, ListSound, ListOrdered, InsidePool, CollectOK, End, PoolEnd
<1>2. ASSUME NEW n \in RequestSizes, AllocBlock(n) PROVE IInv'
  BY <1>2, AllocInvariant
<1>3. CASE CollectBlock BY <1>3, CollectInvariant
<1>4. CASE CollectEnd BY <1>4, CollectEndInvariant
<1>5. ASSUME NEW h \in Handles, FreeBlock(h) PROVE IInv'
  BY <1>5, FreeInvariant
<1>6. ASSUME NEW h \in Handles, NEW position \in 0 .. MEMPOOL_SIZE,
             NEW n \in 1 .. MEMPOOL_SIZE, ResizeBlock(h, position, n)
      PROVE  IInv'
  <2>1. position \in Nat /\ n \in Nat BY PoolAssumption
  <2> QED BY <1>6, <2>1, ResizeInvariant
<1>7. ASSUME NEW h \in Handles, NEW position \in 0 .. MEMPOOL_SIZE,
             NEW v \in Byte, WriteByte(h, position, v)
      PROVE  IInv'
  <2>1. position \in Nat BY PoolAssumption
  <2> QED BY <1>7, <2>1, WriteInvariant
<1> QED BY <1>1, <1>2, <1>3, <1>4, <1>5, <1>6, <1>7 DEF Next

\* The inductive invariant holds in every reachable state.
THEOREM Invariance == Spec => []IInv
BY InitInvariant, StepInvariant, PTL DEF Spec

\* Every variable of the pool keeps its type.
THEOREM TypeCorrect == Spec => []TypeOK
<1>1. IInv => TypeOK BY DEF IInv
<1> QED BY <1>1, Invariance, PTL

\* The blocks of the pool never overlap, whatever callers allocate, free and
\* shrink, and between any two moves of the compaction too.
THEOREM NeverOverlap == Spec => []BlocksDisjoint
<1>1. IInv => BlocksDisjoint BY OrderedIsDisjoint DEF IInv
<1> QED BY <1>1, Invariance, PTL

\* The list of blocks links exactly the blocks in use, in address order and
\* inside the pool.
THEOREM ListCorrect == Spec => [](ListSound /\ ListOrdered /\ InsidePool)
<1>1. IInv => ListSound /\ ListOrdered /\ InsidePool BY DEF IInv
<1> QED BY <1>1, Invariance, PTL
-----------------------------------------------------------------------------
(* MemoryPool implements BlockStore *)

\* The store a state of the pool represents.
Data == [h \in Handles |-> DataOf(h)]

\* The content of a block lies in the pool; a free descriptor has none.
LEMMA DataFacts ==
  ASSUME IInv, NEW h \in Handles
  PROVE  /\ Data[h] = DataOf(h)
         /\ DOMAIN Data[h] = 0 .. size[h] - 1
         /\ Data[h] \in [0 .. size[h] - 1 -> Byte]
         /\ size[h] <= MEMPOOL_SIZE
         /\ \A i \in 0 .. size[h] - 1 : begin[h] + i \in Addresses
         /\ size[h] = 0 => Data[h] = Store!Blank
<1> USE DescriptorsAreHandles, PoolAssumption
<1>1. begin[h] \in Nat /\ size[h] \in Nat
  BY DEF IInv, TypeOK
<1>2. size[h] # 0 => MEMPOOL_STARTADDRESS <= begin[h] /\ begin[h] + size[h] <= PoolEnd
  BY DEF IInv, InsidePool, End
<1>3. \A i \in 0 .. size[h] - 1 : begin[h] + i \in Addresses
  BY <1>1, <1>2 DEF Addresses, PoolEnd
<1>4. \A i \in 0 .. size[h] - 1 : mem[begin[h] + i] \in Byte
  BY <1>3 DEF IInv, TypeOK
<1>5. Data[h] = [i \in 0 .. size[h] - 1 |-> mem[begin[h] + i]]
  BY DEF Data, DataOf
<1>6. size[h] = 0 => Data[h] = Store!Blank
  <2>1. size[h] = 0 => 0 .. size[h] - 1 = {}
    BY SMT
  <2> QED BY <2>1, <1>5 DEF Store!Blank
<1>7. size[h] <= MEMPOOL_SIZE
  BY <1>1, <1>2 DEF PoolEnd
<1> QED BY <1>1, <1>3, <1>4, <1>5, <1>6, <1>7 DEF Data

\* The content of a block is a run of bytes no longer than the pool.
DataTyped == \A h \in Handles :
                Data[h] \in [0 .. size[h] - 1 -> Byte] /\ size[h] <= MEMPOOL_SIZE

\* The same fact in the form that can be cited for the next state.
LEMMA DataIsTyped == IInv => DataTyped
BY DataFacts DEF DataTyped

\* Compaction changes no content: the bytes of a block move with it, and no
\* byte of another block is overwritten.
LEMMA CollectKeepsData ==
  ASSUME IInv, CollectBlock
  PROVE  Data' = Data
<1> USE DescriptorsAreHandles, PoolAssumption, CollectFacts
<1>1. PICK next \in Handles : next = nextblock[cur] /\ size[next] # 0
  OBVIOUS
<1>2. size' = size /\ mem' = IF End(cur) # begin[next]
                               THEN Moved(End(cur), begin[next], size[next]) ELSE mem
  BY <1>1 DEF CollectBlock
<1>3. \A a \in Addresses \ (End(cur) .. End(cur) + size[next] - 1) : mem'[a] = mem[a]
  BY <1>2 DEF Moved, IInv, TypeOK
<1>4. ASSUME NEW h \in Handles, NEW i \in 0 .. size[h] - 1
      PROVE  mem'[begin'[h] + i] = mem[begin[h] + i]
  <2>1. size[h] # 0 /\ size[h] \in Nat /\ i \in Nat /\ begin[h] \in Nat
    OBVIOUS
  <2>2. begin[h] + i \in Addresses /\ begin[h] <= begin[h] + i /\ begin[h] + i < End(h)
    <3>1. begin[h] + i \in Addresses
      BY DataFacts
    <3>2. begin[h] <= begin[h] + i /\ begin[h] + i < begin[h] + size[h]
      BY <2>1
    <3> QED BY <3>1, <3>2 DEF End
  <2>3. CASE h = next
    <3>1. End(cur) + i \in Addresses
      BY <2>1, <2>2, <2>3, <1>1 DEF Addresses, PoolEnd
    <3>2. CASE End(cur) = begin[next]
      BY <3>2, <2>3, <1>1, <1>2
    <3>3. CASE End(cur) # begin[next]
      <4>1. mem'[End(cur) + i] = mem[begin[next] + ((End(cur) + i) - End(cur))]
        BY <3>1, <3>3, <2>1, <2>3, <1>1, <1>2 DEF Moved
      <4>2. (End(cur) + i) - End(cur) = i
        BY <2>1
      <4> QED BY <4>1, <4>2, <2>3, <1>1
    <3> QED BY <3>2, <3>3
  <2>4. CASE h # next
    <3>1. End(h) <= End(cur) \/ End(next) <= begin[h]
      BY <2>1, <2>4, <1>1, CollectMovesFreely
    <3>2. End(cur) + size[next] <= End(next) /\ size[next] \in Nat
      BY <1>1 DEF End
    <3>3. begin[h] + i \notin End(cur) .. End(cur) + size[next] - 1
      BY <3>1, <3>2, <2>1, <2>2, <1>1
    <3>4. begin'[h] = begin[h]
      BY <2>4, <1>1
    <3> QED BY <3>3, <3>4, <2>2, <1>3
  <2> QED BY <2>3, <2>4
<1>5. ASSUME NEW h \in Handles PROVE DataOf(h)' = DataOf(h)
  BY <1>2, <1>4 DEF DataOf
<1> QED BY <1>5 DEF Data

\* allocBlock gives the caller a descriptor nobody holds and changes no
\* block anyone else holds.
LEMMA FoundImplements ==
  ASSUME IInv, IInv', NEW best \in Descriptors, NEW n \in Nat \ {0},
         Found(best, n), mem' = mem
  PROVE  Store!AllocBlock \/ Data' = Data
<1> USE DescriptorsAreHandles, PoolAssumption
<1>1. CASE UNCHANGED blockVars
  BY <1>1 DEF blockVars, Data, DataOf
<1>2. ASSUME NEW h \in Handles, size[h] = 0,
             begin' = [begin EXCEPT ![h] = End(best)],
             size' = [size EXCEPT ![h] = n]
      PROVE  Store!AllocBlock
  <2>1. size'[h] = n /\ \A g \in Handles \ {h} : begin'[g] = begin[g] /\ size'[g] = size[g]
    BY <1>2 DEF IInv, TypeOK
  <2>2. Data'[h] \in [0 .. n - 1 -> Byte] /\ n \in 1 .. MEMPOOL_SIZE
    <3>1. DataTyped'
      BY DataIsTyped, PTL
    <3> QED BY <3>1, <2>1 DEF DataTyped
  <2>3. Data[h] = Store!Blank
    BY <1>2, DataFacts
  <2>4. \A g \in Handles \ {h} : Data'[g] = Data[g]
    BY <2>1 DEF Data, DataOf
  <2>5. Data' = [Data EXCEPT ![h] = Data'[h]]
    BY <2>4 DEF Data
  <2> QED BY <2>2, <2>3, <2>5 DEF Store!AllocBlock, Store!Contents, Data
<1> QED BY <1>1, <1>2 DEF Found
\* allocBlock, with or without compaction.
LEMMA AllocImplements ==
  ASSUME IInv, IInv', NEW n \in RequestSizes, AllocBlock(n)
  PROVE  Store!AllocBlock \/ Data' = Data
<1> USE DescriptorsAreHandles, PoolAssumption
<1>1. n \in Nat \ {0} /\ mem' = mem
  BY DEF AllocBlock
<1>2. CASE \E best \in Fits(n) : IsBest(best, n) /\ Found(best, n)
  <2>1. PICK best \in Fits(n) : Found(best, n)
    BY <1>2
  <2>2. best \in Descriptors
    BY <2>1 DEF Fits, InList, IInv, TypeOK
  <2> QED BY <1>1, <2>1, <2>2, FoundImplements
<1>3. CASE UNCHANGED blockVars
  BY <1>1, <1>3 DEF blockVars, Data, DataOf
<1> QED BY <1>2, <1>3 DEF AllocBlock

\* The end of compaction.
LEMMA CollectEndImplements ==
  ASSUME IInv, IInv', CollectEnd
  PROVE  Store!AllocBlock \/ Data' = Data
<1> USE DescriptorsAreHandles, PoolAssumption
<1>1. want \in Nat \ {0} /\ cur \in Descriptors /\ mem' = mem
  BY DEF CollectEnd, IInv, TypeOK
<1>2. CASE Found(cur, want)
  BY <1>1, <1>2, FoundImplements
<1>3. CASE UNCHANGED blockVars
  BY <1>1, <1>3 DEF blockVars, Data, DataOf
<1> QED BY <1>2, <1>3 DEF CollectEnd

\* freeBlock empties one block.
LEMMA FreeImplements ==
  ASSUME IInv, IInv', NEW h \in Handles, FreeBlock(h)
  PROVE  Store!FreeBlock
<1> USE DescriptorsAreHandles, PoolAssumption
<1>1. /\ mem' = mem /\ begin' = begin /\ size'[h] = 0
      /\ \A g \in Handles \ {h} : size'[g] = size[g]
  BY DEF FreeBlock, IInv, TypeOK
<1>2. \A g \in Handles \ {h} : Data'[g] = Data[g]
  BY <1>1 DEF Data, DataOf
<1>3. Data'[h] = Store!Blank
  <2>1. Data'[h] = [i \in 0 .. 0 - 1 |-> mem[begin[h] + i]]
    BY <1>1 DEF Data, DataOf
  <2>2. 0 .. 0 - 1 = {}
    BY SMT
  <2> QED BY <2>1, <2>2 DEF Store!Blank
<1>4. Data' = [Data EXCEPT ![h] = Store!Blank]
  BY <1>2, <1>3 DEF Data
<1> QED BY <1>4 DEF Store!FreeBlock, Data

\* resizeBlock drops bytes of one block and keeps the others of it.
LEMMA ResizeImplements ==
  ASSUME IInv, IInv', NEW h \in Handles, NEW position \in Nat, NEW n \in Nat,
         ResizeBlock(h, position, n)
  PROVE  Store!ResizeBlock
<1> USE DescriptorsAreHandles, PoolAssumption
<1>1. /\ mem' = mem /\ begin'[h] = begin[h] + position /\ size'[h] = n
      /\ \A g \in Handles \ {h} : begin'[g] = begin[g] /\ size'[g] = size[g]
      /\ n >= 1 /\ position + n <= size[h]
  BY DEF ResizeBlock, IInv, TypeOK
<1>2. \A g \in Handles \ {h} : Data'[g] = Data[g]
  BY <1>1 DEF Data, DataOf
<1>3. begin[h] \in Nat /\ size[h] \in Nat /\ size[h] <= MEMPOOL_SIZE
      /\ DOMAIN Data[h] = 0 .. size[h] - 1
  BY DataFacts DEF IInv, TypeOK
<1>4. n \in 1 .. MEMPOOL_SIZE /\ position \in 0 .. MEMPOOL_SIZE
      /\ \A i \in 0 .. n - 1 : i + position \in DOMAIN Data[h]
  BY <1>1, <1>3
<1>5. \A i \in 0 .. n - 1 : Data[h][i + position] = mem[begin[h] + (i + position)]
  BY <1>3, <1>4 DEF Data, DataOf
<1>6. \A i \in 0 .. n - 1 : begin[h] + (i + position) = (begin[h] + position) + i
  BY <1>3
<1>7. Data'[h] = [i \in 0 .. n - 1 |-> mem[(begin[h] + position) + i]]
  BY <1>1 DEF Data, DataOf
<1>8. Data'[h] = [i \in 0 .. n - 1 |-> Data[h][i + position]]
  BY <1>5, <1>6, <1>7
<1>9. Data' = [Data EXCEPT ![h] = [i \in 0 .. n - 1 |-> Data[h][i + position]]]
  BY <1>2, <1>8 DEF Data
<1>10. \E g \in Handles, m \in 1 .. MEMPOOL_SIZE, p \in 0 .. MEMPOOL_SIZE :
          /\ \A i \in 0 .. m - 1 : i + p \in DOMAIN Data[g]
          /\ Data' = [Data EXCEPT ![g] = [i \in 0 .. m - 1 |-> Data[g][i + p]]]
  <2> USE <1>4
  <2> WITNESS h \in Handles
  <2> WITNESS n \in 1 .. MEMPOOL_SIZE
  <2> WITNESS position \in 0 .. MEMPOOL_SIZE
  <2> QED BY <1>9
<1> QED BY ONLY <1>10 DEF Store!ResizeBlock, Data

\* A byte written to one block is in no other block.
LEMMA WriteImplements ==
  ASSUME IInv, IInv', NEW h \in Handles, NEW position \in Nat, NEW v \in Byte,
         WriteByte(h, position, v)
  PROVE  Store!WriteByte
<1> USE DescriptorsAreHandles, PoolAssumption
<1>1. /\ begin' = begin /\ size' = size /\ position < size[h]
      /\ mem' = [mem EXCEPT ![begin[h] + position] = v]
  BY DEF WriteByte
<1>2. begin[h] \in Nat /\ size[h] \in Nat /\ size[h] # 0
  BY <1>1 DEF IInv, TypeOK
<1>3. position \in DOMAIN Data[h] /\ begin[h] + position \in Addresses
  BY <1>1, <1>2, DataFacts
<1>4. \A a \in Addresses \ {begin[h] + position} : mem'[a] = mem[a]
  BY <1>1 DEF IInv, TypeOK
<1>5. mem'[begin[h] + position] = v
  BY <1>1, <1>3 DEF IInv, TypeOK
<1>6. ASSUME NEW g \in Handles \ {h}
      PROVE  Data'[g] = Data[g]
  <2>1. ASSUME NEW i \in 0 .. size[g] - 1
        PROVE  mem'[begin[g] + i] = mem[begin[g] + i]
    <3>1. begin[g] + i \in Addresses
      BY DataFacts
    <3>2. begin[g] \in Nat /\ size[g] \in Nat /\ size[g] # 0
      BY DEF IInv, TypeOK
    <3>3. begin[g] + size[g] <= begin[h] \/ begin[h] + size[h] <= begin[g]
      BY <3>2, <1>2, OrderedIsDisjoint DEF IInv, BlocksDisjoint, End
    <3>4. begin[g] + i # begin[h] + position
      BY <3>2, <3>3, <1>1, <1>2
    <3> QED BY <3>1, <3>4, <1>4
  <2> QED BY <2>1, <1>1 DEF Data, DataOf
<1>7. Data'[h] = [Data[h] EXCEPT ![position] = v]
  <2>1. ASSUME NEW i \in 0 .. size[h] - 1
        PROVE  mem'[begin[h] + i] = IF i = position THEN v ELSE mem[begin[h] + i]
    <3>1. begin[h] + i \in Addresses
      BY DataFacts
    <3>2. i # position => begin[h] + i # begin[h] + position
      BY <1>2
    <3> QED BY <3>1, <3>2, <1>4, <1>5
  <2>2. Data'[h] = [i \in 0 .. size[h] - 1 |-> mem'[begin[h] + i]]
    BY <1>1 DEF Data, DataOf
  <2>3. Data[h] = [i \in 0 .. size[h] - 1 |-> mem[begin[h] + i]]
    BY DEF Data, DataOf
  <2>4. [Data[h] EXCEPT ![position] = v]
          = [i \in 0 .. size[h] - 1 |-> IF i = position THEN v ELSE Data[h][i]]
    BY <2>3
  <2>5. [i \in 0 .. size[h] - 1 |-> mem'[begin[h] + i]]
          = [i \in 0 .. size[h] - 1 |-> IF i = position THEN v ELSE Data[h][i]]
    BY <2>1, <2>3
  <2> QED BY <2>2, <2>4, <2>5
<1>8. Data' = [Data EXCEPT ![h] = [Data[h] EXCEPT ![position] = v]]
  BY <1>6, <1>7 DEF Data
<1> QED BY <1>3, <1>8 DEF Store!WriteByte, Data

\* Initial states represent the empty store.
LEMMA InitImplements == Init => Store!StoreInit
<1> SUFFICES ASSUME Init PROVE Store!StoreInit
  OBVIOUS
<1>1. ASSUME NEW h \in Handles PROVE DataOf(h) = Store!Blank
  <2>1. size[h] = 0
    BY DescriptorsAreHandles DEF Init
  <2>2. 0 .. 0 - 1 = {}
    BY SMT
  <2> QED BY <2>1, <2>2 DEF DataOf, Store!Blank
<1> QED BY <1>1 DEF Store!StoreInit

\* Every step of the pool is a step of the store or changes nothing in it.
LEMMA StepImplements ==
  ASSUME IInv, IInv', [Next]_vars
  PROVE  Store!StoreNext \/ Data' = Data
<1>1. CASE UNCHANGED vars
  BY <1>1 DEF vars, Data, DataOf
<1>2. ASSUME NEW n \in RequestSizes, AllocBlock(n)
      PROVE  Store!StoreNext \/ Data' = Data
  BY <1>2, AllocImplements DEF Store!StoreNext
<1>3. CASE CollectBlock
  BY <1>3, CollectKeepsData
<1>4. CASE CollectEnd
  BY <1>4, CollectEndImplements DEF Store!StoreNext
<1>5. ASSUME NEW h \in Handles, FreeBlock(h) PROVE Store!StoreNext
  BY <1>5, FreeImplements DEF Store!StoreNext
<1>6. ASSUME NEW h \in Handles, NEW position \in 0 .. MEMPOOL_SIZE,
             NEW n \in 1 .. MEMPOOL_SIZE, ResizeBlock(h, position, n)
      PROVE  Store!StoreNext
  <2>1. position \in Nat /\ n \in Nat BY PoolAssumption
  <2> QED BY <1>6, <2>1, ResizeImplements DEF Store!StoreNext
<1>7. ASSUME NEW h \in Handles, NEW position \in 0 .. MEMPOOL_SIZE,
             NEW v \in Byte, WriteByte(h, position, v)
      PROVE  Store!StoreNext
  <2>1. position \in Nat BY PoolAssumption
  <2> QED BY <1>7, <2>1, WriteImplements DEF Store!StoreNext
<1> QED BY <1>1, <1>2, <1>3, <1>4, <1>5, <1>6, <1>7 DEF Next

\* The pool implements the store: a caller sees private blocks that only its
\* own calls change, whatever compaction does to their addresses.
THEOREM PoolImplementsStore == Spec => Implements
<1>1. IInv /\ IInv' /\ [Next]_vars => [Store!StoreNext]_[h \in Handles |-> DataOf(h)]
  BY StepImplements DEF Data
<1> QED BY InitImplements, Invariance, <1>1, PTL DEF Spec, Implements, Store!StoreSpec

-----------------------------------------------------------------------------
(* allocBlock fails for lack of room only *)

\* The blocks that compaction has packed already, with their sizes.
PackedSize == [h \in Handles |-> IF End(h) <= End(cur) THEN size[h] ELSE 0]

\* There is no gap between them.
Packed == want # 0 => End(cur) = MEMPOOL_STARTADDRESS + SumOf(PackedSize, Handles)

\* The handles are finitely many.
LEMMA HandlesFinite == IsFiniteSet(Handles)
BY PoolAssumption, FS_Interval DEF Handles

\* Sizes are numbers, those of the packed blocks too.
LEMMA PackedTypes ==
  ASSUME TypeOK
  PROVE  \A h \in Handles : size[h] \in Nat /\ PackedSize[h] \in Nat
BY DescriptorsAreHandles DEF TypeOK, PackedSize

\* Before its first round compaction has packed nothing.
LEMMA NothingPacked ==
  ASSUME IInv, cur = POOLSTART
  PROVE  End(cur) = MEMPOOL_STARTADDRESS + SumOf(PackedSize, Handles)
<1> USE DescriptorsAreHandles, PoolAssumption
<1>1. End(cur) = MEMPOOL_STARTADDRESS
  BY DEF IInv, ListSound, End
<1>2. \A h \in Handles : PackedSize[h] = 0
  <2> SUFFICES ASSUME NEW h \in Handles, size[h] # 0 PROVE ~(End(h) <= End(cur))
    BY DEF PackedSize
  <2>1. begin[h] \in Nat /\ size[h] \in Nat /\ MEMPOOL_STARTADDRESS <= begin[h]
    BY DEF IInv, TypeOK, InsidePool
  <2> QED BY <1>1, <2>1 DEF End
<1>3. SumOf(PackedSize, Handles) = 0
  BY <1>2, HandlesFinite, SumOfNone
<1> QED BY <1>1, <1>3

\* A round of compaction adds the next block to the packed ones, and no other.
LEMMA CollectPacks ==
  ASSUME IInv, CollectBlock, Packed
  PROVE  Packed'
<1> USE DescriptorsAreHandles
<1>0. PICK next \in Handles : next = nextblock[cur] /\ size[next] # 0
  BY CollectFacts
<1>1. want # 0 /\ size' = size /\ cur' = next
  BY <1>0 DEF CollectBlock
<1>2. /\ End(cur) \in Nat /\ size[next] \in Nat /\ End(next) \in Nat /\ begin[next] \in Nat
      /\ End(cur) <= begin[next] /\ End(next) = begin[next] + size[next]
  BY <1>0, CollectFacts DEF End
<1>3. End(cur)' = End(cur) + size[next] /\ End(next)' = End(cur) + size[next]
  BY <1>0, <1>1, CollectFacts DEF End
<1>4. ASSUME NEW h \in Handles, h # next
      PROVE  PackedSize'[h] = PackedSize[h]
  <2>1. End(h)' = End(h) /\ End(h) \in Nat /\ size'[h] = size[h]
    BY <1>0, <1>1, <1>4, CollectFacts DEF End
  <2>2. CASE size[h] = 0
    BY <2>1, <2>2 DEF PackedSize
  <2>3. CASE size[h] # 0
    <3>1. End(h) <= End(cur) \/ End(next) <= begin[h]
      BY <1>0, <1>4, <2>3, CollectMovesFreely
    <3>2. begin[h] < End(h) /\ begin[h] \in Nat
      BY <2>3, CollectFacts
    <3>3. End(h) <= End(cur) <=> End(h)' <= End(cur)'
      BY <1>2, <1>3, <2>1, <3>1, <3>2
    <3> QED BY <2>1, <3>3 DEF PackedSize
  <2> QED BY <2>2, <2>3
<1>5. PackedSize[next] = 0 /\ PackedSize'[next] = size[next]
  <2>1. ~(End(next) <= End(cur))
    BY <1>0, <1>2
  <2>2. End(next)' <= End(cur)'
    BY <1>2, <1>3
  <2> QED BY <1>0, <1>1, <2>1, <2>2 DEF PackedSize
<1>6. /\ \A h \in Handles : PackedSize[h] \in Nat
      /\ \A h \in Handles : PackedSize'[h] \in Nat
  <2>1. \A h \in Handles : PackedSize[h] \in Nat
    BY PackedTypes DEF IInv
  <2> QED BY <1>2, <1>4, <1>5, <2>1
<1>7. SumOf(PackedSize', Handles) = SumOf(PackedSize, Handles) + (PackedSize'[next] - PackedSize[next])
  BY <1>0, <1>4, <1>6, HandlesFinite, SumOfChange
<1>8. SumOf(PackedSize, Handles) \in Nat /\ MEMPOOL_STARTADDRESS \in Nat
  BY <1>6, HandlesFinite, SumOfNat, PoolAssumption
<1>9. End(cur) = MEMPOOL_STARTADDRESS + SumOf(PackedSize, Handles)
  BY <1>1 DEF Packed
<1>10. SumOf(PackedSize', Handles) = SumOf(PackedSize, Handles) + size[next]
  BY <1>2, <1>5, <1>7, <1>8
<1>11. End(cur)' = MEMPOOL_STARTADDRESS + SumOf(PackedSize', Handles)
  BY <1>2, <1>3, <1>8, <1>9, <1>10
<1> QED BY <1>11 DEF Packed

\* At the end of the list all blocks are packed.
LEMMA AllPacked ==
  ASSUME IInv, nextblock[cur] = NOBLOCK
  PROVE  SumOf(PackedSize, Handles) = SumOf(size, Handles)
<1> USE DescriptorsAreHandles
<1>1. cur \in Descriptors /\ (cur = POOLSTART \/ size[cur] # 0)
  BY DEF IInv, TypeOK, CollectOK
<1>2. ASSUME NEW h \in Handles, size[h] # 0 PROVE End(h) <= End(cur)
  <2>1. /\ begin[h] \in Nat /\ size[h] \in Nat /\ begin[cur] \in Nat /\ size[cur] \in Nat
    BY <1>1 DEF IInv, TypeOK
  <2>2. CASE h = cur
    BY <2>1, <2>2 DEF End
  <2>3. CASE h # cur
    <3>1. End(h) <= begin[cur]
      BY <1>1, <1>2, <2>3 DEF IInv, ListOrdered
    <3> QED BY <2>1, <3>1 DEF End
  <2> QED BY <2>2, <2>3
<1>3. \A h \in Handles : PackedSize[h] = size[h]
  BY <1>2 DEF PackedSize
<1> QED BY <1>3, HandlesFinite, SumOfSame

\* What is packed stays packed, together with the invariant of the pool.
LEMMA PackedInvariant == IInv /\ Packed /\ [Next]_vars => Packed'
<1> SUFFICES ASSUME IInv, Packed, [Next]_vars PROVE Packed'
  OBVIOUS
<1>1. CASE UNCHANGED vars
  BY <1>1 DEF vars, Packed, PackedSize, End
<1>2. CASE CollectBlock
  BY <1>2, CollectPacks
<1>3. CASE want' = 0
  BY <1>3 DEF Packed
<1>4. ASSUME NEW n \in RequestSizes, AllocBlock(n) PROVE Packed'
  <2>1. CASE want' = 0
    BY <2>1, <1>3
  <2>2. CASE want' # 0
    <3>1. cur' = POOLSTART
      BY <1>4, <2>2 DEF AllocBlock
    <3>2. IInv'
      BY StepInvariant
    <3>3. (IInv /\ cur = POOLSTART
             => End(cur) = MEMPOOL_STARTADDRESS + SumOf(PackedSize, Handles))'
      BY NothingPacked, PTL
    <3> QED BY <3>1, <3>2, <3>3 DEF Packed
  <2> QED BY <2>1, <2>2
<1>5. CASE CollectEnd
  BY <1>3, <1>5 DEF CollectEnd
<1>6. ASSUME NEW h \in Handles, FreeBlock(h) PROVE want' = 0
  BY <1>6 DEF FreeBlock
<1>7. ASSUME NEW h, NEW position, NEW n, ResizeBlock(h, position, n) PROVE want' = 0
  BY <1>7 DEF ResizeBlock
<1>8. ASSUME NEW h, NEW position, NEW v, WriteByte(h, position, v) PROVE want' = 0
  BY <1>8 DEF WriteByte
<1> QED BY <1>1, <1>2, <1>3, <1>4, <1>5, <1>6, <1>7, <1>8 DEF Next

\* allocBlock gives up only when the pool has too few bytes in all or no descriptor
\* left, never because the free memory is in pieces (mempool.cpp:70-93).
THEOREM FragmentationIsNoReason == Spec => FailsOnlyWhenFull
<1>1. ASSUME IInv, Packed, Next, want # 0, want' = 0, size' = size
      PROVE  Used + want > MEMPOOL_SIZE \/ \A h \in Handles : size[h] # 0
  <2> USE DescriptorsAreHandles, PoolAssumption
  <2>1. CollectEnd
    BY <1>1 DEF Next, AllocBlock, CollectBlock, FreeBlock, ResizeBlock, WriteByte
  <2>2. want \in Nat /\ cur \in Descriptors /\ size \in [Descriptors -> Nat]
    BY <1>1 DEF IInv, TypeOK
  <2>3. CASE PoolEnd - End(cur) >= want /\ Found(cur, want)
    <3>1. ASSUME NEW h \in Handles, size[h] = 0, size' = [size EXCEPT ![h] = want] PROVE FALSE
      BY <1>1, <2>2, <3>1
    <3> QED BY <2>3, <3>1 DEF Found
  <2>4. CASE PoolEnd - End(cur) < want
    <3>1. nextblock[cur] = NOBLOCK
      BY <2>1 DEF CollectEnd
    <3>2. End(cur) = MEMPOOL_STARTADDRESS + SumOf(size, Handles)
      BY <1>1, <3>1, AllPacked DEF Packed
    <3>3. SumOf(size, Handles) \in Nat
      BY <1>1, HandlesFinite, PackedTypes, SumOfNat DEF IInv
    <3>4. Used = SumOf(size, Handles)
      BY DEF Used, SumOf
    <3> QED BY <2>2, <2>4, <3>2, <3>3, <3>4 DEF PoolEnd
  <2> QED BY <2>1, <2>3, <2>4 DEF CollectEnd
<1>2. ASSUME IInv, Packed, [Next]_vars
      PROVE  [want # 0 /\ want' = 0 /\ size' = size
               => Used + want > MEMPOOL_SIZE \/ \A h \in Handles : size[h] # 0]_vars
  BY <1>1, <1>2
<1>3. Init => Packed
  BY DEF Init, Packed
<1> QED BY <1>2, <1>3, Invariance, PackedInvariant, PTL DEF Spec, FailsOnlyWhenFull
=============================================================================
