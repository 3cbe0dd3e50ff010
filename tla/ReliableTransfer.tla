--------------------------- MODULE ReliableTransfer ---------------------------
(***************************************************************************)
(* A transfer of mp2: one reliable_sender and one reliable_receiver over   *)
(* UDP.  Each call that sends or receives is a step; between two steps of  *)
(* one program the other one and the network move freely.                  *)
(***************************************************************************)
EXTENDS Sender, Receiver

vars == <<channels, senderVars, receiverVars>>

Init ==
  /\ toReceiver = {}
  /\ toSender = {}
  /\ SenderInit
  /\ ReceiverInit

SenderStep ==
  \/ SendWindow
  \/ ReceiveTimeout
  \/ \E p \in toSender, late \in BOOLEAN : ReceiveReply(p, late)
  \/ SendFin
  \/ \E p \in toSender : FinAnswered(p)
  \/ FinTimeout
  \/ CloseFile

ReceiverStep == \E p \in toReceiver : ReceivePacket(p)

Next ==
  \/ SenderStep /\ UNCHANGED receiverVars
  \/ ReceiverStep /\ UNCHANGED senderVars
  \/ Lose /\ UNCHANGED <<senderVars, receiverVars>>

Spec == Init /\ [][Next]_vars

(***************************************************************************)
(* The two processes keep running, and UDP is fair: a packet that is sent  *)
(* again and again reaches a program that calls recv() again and again.    *)
(* (Strong fairness of ReceiveReply would be weaker: every acknowledgement *)
(* could be lost just before the sender calls recv().)  A FIN is sent      *)
(* three times at most: once lost, fairness promises nothing about it.     *)
(***************************************************************************)
ReplyReceived(n) ==
  \E late \in BOOLEAN :
    ReceiveReply(AckPacket(n), late) /\ UNCHANGED receiverVars

Fairness ==
  /\ WF_vars(SendWindow /\ UNCHANGED receiverVars)
  /\ WF_vars(ReceiveTimeout /\ UNCHANGED receiverVars)
  /\ WF_vars(SendFin /\ UNCHANGED receiverVars)
  /\ WF_vars(FinTimeout /\ UNCHANGED receiverVars)
  /\ WF_vars(CloseFile /\ UNCHANGED receiverVars)
  /\ \A n \in 0 .. N :
       []<>(AckPacket(n) \in toSender) /\ []<>(spc = "recv")
         => []<><<ReplyReceived(n)>>_vars
  /\ \A i \in 0 .. N-1 :
       SF_vars(ReceivePacket(VectorPacket(i)) /\ UNCHANGED senderVars)
  /\ SF_vars(ReceivePacket(FinPacket) /\ UNCHANGED senderVars)

FairSpec == Spec /\ Fairness

------------------------------------------------------------------------------

TypeOK ==
  /\ toReceiver \subseteq Packet
  /\ toSender \subseteq Packet
  /\ spc \in SenderPlaces
  /\ cw_base \in 0 .. N
  /\ last_ack \in 0 .. N
  /\ cw \in Nat
  /\ SST \in Nat
  /\ dupAck \in 0 .. DUP_ACK_LIMIT
  /\ state \in {"SS", "CA", "FR"}
  /\ max_sent \in 0 .. N
  /\ specialResends \in Seq(0 .. N)
  /\ finTries \in 0 .. 3
  /\ sentUpTo \in 0 .. N
  /\ rpc \in {"recv", "closed"}
  /\ nextSeq \in 0 .. N
  /\ packetQueue \subseteq 0 .. N-1
  /\ outfile \in Seq(0 .. N-1)

\* The file holds the packets 0, 1, 2, ... once each and in order, however the
\* network lost, repeated or reordered them.
InOrderFile == outfile = [k \in 1 .. nextSeq |-> k - 1]

\* No acknowledgement, handled or in flight, covers a packet that the receiver
\* has not written, and the receiver wrote only packets that were sent.
AckSound ==
  /\ last_ack <= nextSeq
  /\ \A p \in toSender : p.seqno <= nextSeq
  /\ nextSeq <= sentUpTo

\* The sender leaves its loop, and the receiver closes its file, only when the
\* whole file was written.
CompleteBeforeEnd ==
  (spc \notin InLoop \/ rpc = "closed") => nextSeq = N

\* The index used for a special resend lies in the vector, and it is the packet
\* that the receiver misses first as far as the sender knows.
ResendsBase ==
  spc = "send" => /\ cw_base < N
                  /\ specialResends \in {<<>>, <<cw_base>>}

\* Fast recovery is entered at the third duplicate and left with the counter
\* reset: the counter never runs past the limit that `dupAck == 3` looks for.
\* In recovery the window covers SST and the three packets that left.
RecoveryConsistent ==
  /\ state = "FR" <=> dupAck = DUP_ACK_LIMIT
  /\ state = "FR" => cw >= SST + 3 * Scale

\* When the sender waits, the packet it waits for was sent, unless repeated
\* halving left a window too small to be added to cw_base.
WaitsForSentPacket == spc = "recv" => cw_base < sentUpTo \/ cw = 0

------------------------------------------------------------------------------
(***************************************************************************)
(* The inductive invariant: the properties above and what they rest on.    *)
(***************************************************************************)

\* What the receiver buffers was sent, and none of it could be written yet.
BufferedWasSent == \A k \in packetQueue : nextSeq < k /\ k < sentUpTo

\* Data in flight was sent; a FIN, and the answer to one, means that the sender
\* left its loop.
InFlightWasSent ==
  /\ \A p \in toReceiver : /\ HasType(p, "DATA") => p.seqno < sentUpTo
                           /\ HasType(p, "FIN") => spc \notin InLoop
  /\ \A p \in toSender : HasType(p, "FIN") => spc \notin InLoop

\* The loop ends with the last acknowledgement, and only then.
LoopWhileUnacked ==
  /\ cw_base = last_ack
  /\ spc \in InLoop <=> cw_base < N
  /\ rpc = "closed" => spc \notin InLoop

\* After a third try finish_transfer() gives up.
FinTriesBounded == finTries < 3 \/ spc \in {"close", "exited", "crashed"}

\* max_sent was sent, unless it lags behind the window.
MaxSentWasSent == max_sent < sentUpTo \/ max_sent <= cw_base

\* A special resend waits for the next transmissions, whose window holds it.
ResendsPending ==
  /\ spc = "recv" => specialResends = <<>>
  /\ specialResends # <<>> => cw >= Scale

\* The conjunction is inductive: the file in order and the soundness of the
\* acknowledgements hold only together with what is buffered and in flight.
IInv ==
  /\ TypeOK
  /\ InOrderFile
  /\ AckSound
  /\ ResendsBase
  /\ ResendsPending
  /\ RecoveryConsistent
  /\ WaitsForSentPacket
  /\ BufferedWasSent
  /\ InFlightWasSent
  /\ LoopWhileUnacked
  /\ FinTriesBounded
  /\ MaxSentWasSent

------------------------------------------------------------------------------

\* Every transfer of data packets ends: the sender leaves its loop and its
\* process stops, whatever the network loses.  With CompleteBeforeEnd, the whole
\* file is written by then.
SenderFinishes == <>(spc \in {"exited", "crashed"})

\* The receiver closes, hence flushes, the destination file.
ReceiverCloses == <>(rpc = "closed")

\* In slow start every new acknowledgement received in time grows the window
\* by one packet at least.
SlowStartGrows ==
  [][ spc = "recv" /\ state = "SS" /\ last_ack' > last_ack /\ specialResends' = <<>>
        => cw' >= cw + Scale ]_vars

\* The transfer behaves as a file that grows in order, a sender that stops once
\* the file is whole, and a receiver that stops after the sender.
FT == INSTANCE FileTransfer
        WITH file <- outfile, sending <- spc \in InLoop, receiving <- rpc = "recv"

ImplementsFileTransfer == FT!Spec

==============================================================================
