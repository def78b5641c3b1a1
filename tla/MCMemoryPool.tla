---------------------------- MODULE MCMemoryPool ----------------------------
(* Small instances of MemoryPool for TLC, and the properties about sums. *)
EXTENDS MemoryPool, FiniteSetsExt

\* The bytes in use.
Used == MapThenSumSet(LAMBDA h : size[h], Handles)

\* allocBlock gives up only if the pool really has no room: not because of
\* fragmentation (mempool.cpp:70-93), whatever the callers did before.
FailsOnlyWhenFull ==
  [][want # 0 /\ want' = 0 /\ size' = size
       => Used + want > MEMPOOL_SIZE \/ \A h \in Handles : size[h] # 0]_vars
=============================================================================
