----------------------------- MODULE MCArpTable -----------------------------
(* An instance of ArpTable for TLC: our address, a router and two hosts; *)
(* one of the hosts is on the local network with one setting and behind    *)
(* the router with the other.                                              *)
EXTENDS ArpTable, TLC

CONSTANTS me, r, a, b

MCIPAddr == {ZERO, ALLONES, me, r, a, b}
MCHosts == {ZERO, r, a, b}
MCTargets == {ZERO, ALLONES, me}
MCConfigs == {[host |-> me, router |-> r, local |-> l] : l \in {{me, r, a}, {me, r, a, b}}}
Renaming == Permutations(MacAddr)
=============================================================================
