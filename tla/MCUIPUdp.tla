------------------------------ MODULE MCUIPUdp ------------------------------
(* An instance of UIPUdp for TLC: a server that answers whoever writes to it, *)
(* and a client that writes to one peer.                                      *)
EXTENDS UIPUdp

CONSTANTS server, client, x, y

MCSocks == {server, client}
MCPeers == {x, y}
MCTargets == [u \in MCSocks |-> IF u = server THEN {} ELSE {x}]
=============================================================================
