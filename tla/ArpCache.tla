------------------------------ MODULE ArpCache ------------------------------
(***************************************************************************)
(* What an ARP table promises: it remembers at most Capacity bindings of   *)
(* IP to Ethernet addresses.  Learning a binding replaces the old one of   *)
(* that address and costs another address its binding only if there is no  *)
(* room; old bindings may be forgotten at any time.                        *)
(* ArpTable implements this specification (see Cache there).               *)
(***************************************************************************)
EXTENDS Integers, FiniteSets

CONSTANTS IPAddr, MacAddr,
          NoMac,      \* not bound
          Capacity

\* cache[a] is the Ethernet address a is bound to, or NoMac.
VARIABLE cache

Bound == {a \in IPAddr : cache[a] # NoMac}

CacheInit == cache = [a \in IPAddr |-> NoMac]

Caches == [IPAddr -> MacAddr \cup {NoMac}]

\* Bindings only disappear.
Forget ==
  /\ \A a \in IPAddr : cache'[a] \in {cache[a], NoMac}
  /\ cache' \in Caches

\* One binding is new, and one other disappears if there was no room.
Learn(a) ==
  /\ cache'[a] # NoMac
  /\ LET lost == {b \in IPAddr \ {a} : cache'[b] # cache[b]}
     IN  /\ \A b \in lost : cache'[b] = NoMac
         /\ lost = {} \/ (a \notin Bound /\ Cardinality(Bound) = Capacity /\ Cardinality(lost) = 1)
  /\ cache' \in Caches

CacheNext == Forget \/ \E a \in IPAddr : Learn(a)

CacheSpec == CacheInit /\ [][CacheNext]_cache
=============================================================================
