--------------------------- MODULE MCReceiveRing ---------------------------
(* An instance of ReceiveRing for TLC, and the checksums of the frames in it. *)
EXTENDS ReceiveRing, Checksum

MCWords == 0 .. 65535

\* A frame this code has sent is accepted when the same code receives it, whatever
\* the length and the contents of its data, odd and even, and the sum in two parts is
\* the sum of the whole
\* (UIPEthernet.cpp:349-467, Enc28J60Network.cpp:567-604, uip.c:1091, 1151-1167, 1178, 1844).
SentIsAccepted ==
  receivePkt # NOBLOCK =>
    \A n \in 0 .. MaxPayload : n <= receivePkt.size => n \in GoodLengths

\* A correct ping that is held gets a correct answer, unless all that follows the
\* checksum is zero (uip.c:996-1002).
EchoVerifies == receivePkt # NOBLOCK => MisansweredWords \subseteq {0}
=============================================================================
