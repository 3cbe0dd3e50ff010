------------------------------- MODULE Receiver -------------------------------
(***************************************************************************)
(* reliable_receiver (mp2/src/receiver_main.cpp): it buffers the packets   *)
(* that arrive out of order, writes them to the destination file in order, *)
(* and answers every packet with the number of the next one it needs.      *)
(***************************************************************************)
EXTENDS Datagrams, Integers, Sequences, FiniteSets

VARIABLES
  rpc,           \* "recv": in the loop; "closed": the file is closed
  nextSeq,       \* the sequence number of the next packet to write
  packetQueue,   \* sequence numbers buffered in the priority queue
  outfile        \* the sequence numbers fwrite() was called for, in order

receiverVars == <<rpc, nextSeq, packetQueue, outfile>>

ReceiverInit ==
  /\ rpc = "recv"
  /\ nextSeq = 0
  /\ packetQueue = {}
  /\ outfile = <<>>

\* The elements of a finite set of numbers, in ascending order.
Ascending(S) ==
  [j \in 1 .. Cardinality(S) |->
     CHOOSE k \in S : Cardinality({x \in S : x < k}) = j - 1]

\* Mutant of DrainsUpTo: the loop passes over gaps.
DrainsPastGaps(queue, m) == m >= nextSeq /\ m \notin queue

\* The loop that empties the queue pops in the order of the sequence numbers
\* and stops at the first gap, the least m >= nextSeq that `queue` lacks.
DrainsUpTo(queue, m) ==
  /\ m >= nextSeq
  /\ m \notin queue
  /\ \A k \in nextSeq .. m-1 : k \in queue

\* Mutant of Written: old packets are written again.
WrittenTwice(queue, m) == {k \in queue : k < m}

\* Of the packets it pops, it drops those below nextSeq.  A second copy of a
\* number follows the first and is dropped so: a set stands for the heap.
Written(queue, m) == {k \in queue : nextSeq <= k /\ k < m}

\* One iteration of the receive loop for packet p and, for a FIN, the end of
\* reliablyReceive(): three more packets with the FIN bit, then fclose().
\* Nothing is flushed to the file before that fclose().
ReceivePacket(p) ==
  /\ rpc = "recv"
  /\ p \in toReceiver
  /\ toReceiver' \in AfterDelivery(toReceiver, p)
  /\ LET queue == IF HasType(p, "DATA") THEN packetQueue \cup {p.seqno}
                                        ELSE packetQueue
         fin == HasType(p, "FIN")
     IN \E m \in nextSeq .. N :
          /\ DrainsUpTo(queue, m)
          /\ outfile' = outfile \o Ascending(Written(queue, m))
          /\ nextSeq' = m
          /\ packetQueue' = {k \in queue : k > m}
          /\ toSender' = toSender \cup {AckPacket(m)}
                           \cup (IF fin THEN {FinAckPacket(m)} ELSE {})
          /\ rpc' = IF fin THEN "closed" ELSE "recv"

==============================================================================
