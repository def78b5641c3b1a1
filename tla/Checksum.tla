------------------------------ MODULE Checksum ------------------------------
(***************************************************************************)
(* The Internet checksum of the library.  It is computed in two parts: the *)
(* header from uip_buf, the data from a block of the controller's memory   *)
(* (UIPEthernet.cpp, Enc28J60Network.cpp).  The answer to a ping gets its  *)
(* checksum by an update of the old one (uip.c).                           *)
(*                                                                         *)
(* Sums are in host order; that results are stored in network order makes  *)
(* a difference for the update only.                                       *)
(***************************************************************************)
EXTENDS Integers, Sequences, SequencesExt

CONSTANTS
  Bytes,        \* the values of bytes to try
  MaxPayload,   \* bytes of data at most
  Words         \* the words to try in a ping

M16 == 65536

\* The length of a segment fits in the word it takes in the pseudo header.
ASSUME ChecksumAssumption ==
  /\ Bytes \subseteq 0 .. 255 /\ Words \subseteq 0 .. M16 - 1
  /\ MaxPayload \in Nat /\ MaxPayload + 25 < M16

\* Bug: the carry is lost.
AddPlain(sum, t) == (sum + t) % M16

\* One step of chksum: 16 bits and the carry.
AddWord(sum, t) ==
  LET s == (sum + t) % M16 IN IF s < t THEN s + 1 ELSE s

\* The words of a sequence of bytes; an odd one is followed by 0.
WordsOf(data) ==
  [i \in 1 .. (Len(data) + 1) \div 2 |->
     256 * data[2 * i - 1] + (IF 2 * i <= Len(data) THEN data[2 * i] ELSE 0)]

chksum(sum, data) == FoldLeft(AddWord, sum, WordsOf(data))

\* The pseudo header, the header, and what is in the packet's block.
upper_layer_chksum(proto, addresses, header, payload) ==
  LET len == Len(header) + Len(payload)
      sum == chksum(chksum(chksum(len + proto, addresses), header), payload)
  IN IF sum = 0 THEN M16 - 1 ELSE sum

Complement(n) == M16 - 1 - n

\* What is put in the checksum field: UDP never sends 0.
tcpchksum(sum) == Complement(sum)
udpchksum(sum) == IF Complement(sum) = 0 THEN M16 - 1 ELSE Complement(sum)

\* The header with this checksum at offset at.
WithChecksum(header, at, value) ==
  [header EXCEPT ![at + 1] = value \div 256, ![at + 2] = value % 256]

\* A received datagram with checksum 0 is not checked.
AcceptsTcp(addresses, header, payload) ==
  upper_layer_chksum(6, addresses, header, payload) = M16 - 1

AcceptsUdp(addresses, header, payload) ==
  \/ header[7] = 0 /\ header[8] = 0
  \/ upper_layer_chksum(17, addresses, header, payload) = M16 - 1

-----------------------------------------------------------------------------
(* The answer to a ping *)

ICMP_ECHO == 8

\* HTONS on the target.
HTONS(n) == 256 * (n % 256) + n \div 256

\* Bug: the carry is forgotten.
UpdatePlain(field) == (field + HTONS(256 * ICMP_ECHO)) % M16

\* icmpchksum, as it lies in memory, when the type changes from 8 to 0.
Update(field) ==
  IF field >= HTONS(M16 - 1 - 256 * ICMP_ECHO)
  THEN (field + HTONS(256 * ICMP_ECHO) + 1) % M16
  ELSE (field + HTONS(256 * ICMP_ECHO)) % M16

-----------------------------------------------------------------------------
(* What is expected of them *)

\* The same sum by arithmetic modulo 2^16 - 1, with 0 for nothing but zeros.
Reference(words) ==
  LET total == FoldLeft(LAMBDA x, y : x + y, 0, words)
  IN IF total = 0 THEN 0 ELSE 1 + ((total - 1) % (M16 - 1))

Headers == {[i \in 1 .. 8 |-> IF i > 6 THEN 0 ELSE b] : b \in Bytes}
Addr == [i \in 1 .. 8 |-> i]

\* The data and header are accepted with the checksum they get, and the sum in two
\* parts is the sum of the whole.
Accepted(h, data) ==
  LET tcp == upper_layer_chksum(6, Addr, h, data)
      udp == upper_layer_chksum(17, Addr, h, data)
  IN /\ AcceptsTcp(Addr, WithChecksum(h, 6, tcpchksum(tcp)), data)
     /\ AcceptsUdp(Addr, WithChecksum(h, 6, udpchksum(udp)), data)
     /\ udpchksum(udp) # 0
     /\ tcp = Reference(WordsOf(Addr \o h \o data) \o <<6 + Len(h) + Len(data)>>)

\* The lengths for which this is so.
GoodLengths ==
  {n \in 0 .. MaxPayload : \A h \in Headers, data \in [1 .. n -> Bytes] : Accepted(h, data)}

\* The sum of a ping, or of its answer, with this type, checksum and word.
PingSum(type, checksum, word) == AddWord(AddWord(256 * type, checksum), word)

\* The words with which a correct ping gets a wrong answer.
MisansweredWords ==
  {word \in Words :
     \E checksum \in {Complement(AddWord(256 * ICMP_ECHO, word)), M16 - 1} :
       /\ PingSum(ICMP_ECHO, checksum, word) = M16 - 1
       /\ PingSum(0, HTONS(Update(HTONS(checksum))), word) # M16 - 1}
=============================================================================
