----------------------------- MODULE BlockStore -----------------------------
(***************************************************************************)
(* What the memory pool promises to its callers: a handle names a private  *)
(* run of bytes, which nothing but an operation on that handle changes.    *)
(* Addresses, the list of blocks and compaction are invisible here.        *)
(* MemoryPool implements this specification (see Store there).             *)
(***************************************************************************)
EXTENDS Integers

CONSTANTS Handles,    \* the block descriptors
          Byte,       \* the values a byte can have
          Capacity    \* no block is larger than this

\* data[h] is the content of block h: the empty function when h is free.
VARIABLE data

Blank == [i \in {} |-> 0]
Contents(n) == [0 .. n - 1 -> Byte]

StoreInit == data = [h \in Handles |-> Blank]

\* A new block holds whatever was in the memory it was placed in.
AllocBlock == \E h \in Handles, n \in 1 .. Capacity :
                 /\ data[h] = Blank
                 /\ \E c \in Contents(n) : data' = [data EXCEPT ![h] = c]

FreeBlock == \E h \in Handles : data' = [data EXCEPT ![h] = Blank]

\* Bytes are dropped at the front, at the end or both; the others stay.
ResizeBlock == \E h \in Handles, n \in 1 .. Capacity, position \in 0 .. Capacity :
                  /\ \A i \in 0 .. n - 1 : i + position \in DOMAIN data[h]
                  /\ data' = [data EXCEPT ![h] =
                                [i \in 0 .. n - 1 |-> data[h][i + position]]]

WriteByte == \E h \in Handles : \E i \in DOMAIN data[h], v \in Byte :
                data' = [data EXCEPT ![h][i] = v]

StoreNext == AllocBlock \/ FreeBlock \/ ResizeBlock \/ WriteByte

StoreSpec == StoreInit /\ [][StoreNext]_data
=============================================================================
