------------------------------- MODULE MCDhcp -------------------------------
(* An instance of Dhcp for TLC: two servers that can be exchanged for one another. *)
EXTENDS Dhcp, TLC

CONSTANTS s1, s2

MCServers == {s1, s2}
Renaming == Permutations(MCServers)
=============================================================================
