------------------------------ MODULE Datagrams ------------------------------
(***************************************************************************)
(* The packets of mp2/src/shared.hpp and the UDP service that carries them *)
(* between reliable_sender and reliable_receiver.                          *)
(*                                                                         *)
(* A channel is the set of the packets in flight in one direction.  A      *)
(* packet that is received may stay in flight (UDP may deliver it twice,   *)
(* and several identical copies may be under way), packets are received    *)
(* in any order, and any of them may be lost.                              *)
(***************************************************************************)
EXTENDS Naturals

CONSTANTS
  N,            \* packets.size(): the number of packets of the transfer
  DataPackets   \* the sequence numbers whose packet has PACKET_TYPE_DATA

ASSUME NAssumption == N \in Nat
ASSUME DataPacketsAssumption == DataPackets \subseteq 0 .. N-1

VARIABLES
  toReceiver,   \* packets in flight from the sender to the receiver
  toSender      \* packets in flight from the receiver to the sender

channels == <<toReceiver, toSender>>

\* The field `type` is a bit mask: here, the set of the bits that are set.
TypeBits == {"DATA", "ACK", "FIN"}
Packet == [type : SUBSET TypeBits, seqno : Nat]

HasType(p, t) == t \in p.type

\* The packet fillVector() stored at index i of `packets`.
VectorPacket(i) ==
  [type |-> IF i \in DataPackets THEN {"DATA"} ELSE {}, seqno |-> i]

\* finish_transfer() numbers its packet with the global seq_no, which the
\* running code never moves from 0.
FinPacket == [type |-> {"FIN"}, seqno |-> 0]

\* Mutant of AckPacket: it asks for one packet too many.
AckPacketAhead(n) == [type |-> {"ACK"}, seqno |-> n + 1]

\* snd_packet of the receiver, before and after set_type(PACKET_TYPE_FIN):
\* set_type() adds a bit, the ACK bit stays set.
AckPacket(n) == [type |-> {"ACK"}, seqno |-> n]
FinAckPacket(n) == [type |-> {"ACK", "FIN"}, seqno |-> n]

------------------------------------------------------------------------------

\* What is left of a channel once packet p of it was received.
AfterDelivery(channel, p) == {channel, channel \ {p}}

Lose ==
  \/ \E p \in toReceiver : toReceiver' = toReceiver \ {p} /\ UNCHANGED toSender
  \/ \E p \in toSender : toSender' = toSender \ {p} /\ UNCHANGED toReceiver

==============================================================================
