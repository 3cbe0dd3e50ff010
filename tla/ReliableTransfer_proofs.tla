----------------------- MODULE ReliableTransfer_proofs -----------------------
(***************************************************************************)
(* Proofs about ReliableTransfer, for every number of packets and every    *)
(* value of the other constants: the safety invariants that the run of     *)
(* MCTransfer checks, and the refinement of FileTransfer.  And about       *)
(* FillVector, for every size of packets, of the file and of the request:  *)
(* the vector that a transfer starts with.                                 *)
(***************************************************************************)
EXTENDS ReliableTransfer, FillVector, FiniteSetTheorems, NaturalLemmas

------------------------------------------------------------------------------
(***************************************************************************)
(* Numbers and sequences.                                                  *)
(***************************************************************************)

\* The packets a .. b-1, written in ascending order, are consecutive: what the
\* receive loop appends to the file when it drains the queue.
LEMMA AscendingInterval ==
  ASSUME NEW a \in Nat, NEW b \in Nat, a <= b
  PROVE  Ascending(a .. b-1) = [j \in 1 .. b-a |-> a + j - 1]
<1>1. \A u, v \in Nat : u <= v => Cardinality(u .. v-1) = v - u
  <2>1. SUFFICES ASSUME NEW u \in Nat, NEW v \in Nat, u <= v
                 PROVE  Cardinality(u .. v-1) = v - u
    OBVIOUS
  <2> DEFINE w == v-1
  <2>2. w \in Int /\ (IF u > w THEN 0 ELSE w - u + 1) = v - u
    BY <2>1
  <2> HIDE DEF w
  <2>3. Cardinality(u .. w) = IF u > w THEN 0 ELSE w - u + 1
    BY <2>1, <2>2, FS_Interval
  <2> QED BY <2>2, <2>3 DEF w
<1>2. ASSUME NEW j \in 1 .. b-a
      PROVE  (CHOOSE k \in a .. b-1 :
                Cardinality({x \in a .. b-1 : x < k}) = j - 1) = a + j - 1
  <2> DEFINE P(k) == Cardinality({x \in a .. b-1 : x < k}) = j - 1
  <2>1. \A k \in a .. b-1 : {x \in a .. b-1 : x < k} = a .. k-1
    OBVIOUS
  <2>2. \A k \in a .. b-1 : Cardinality({x \in a .. b-1 : x < k}) = k - a
    <3>1. TAKE k \in a .. b-1
    <3>2. k \in Nat /\ a <= k
      BY <3>1
    <3>3. Cardinality(a .. k-1) = k - a
      BY <1>1, <3>2
    <3> QED BY <2>1, <3>1, <3>3
  <2>3. a + j - 1 \in a .. b-1
    OBVIOUS
  <2>4. \A k \in a .. b-1 : P(k) <=> k = a + j - 1
    BY <2>2
  <2> HIDE DEF P
  <2>5. (CHOOSE k \in a .. b-1 : P(k)) = a + j - 1
    BY <2>3, <2>4
  <2> QED BY <2>5 DEF P
<1> QED BY <1>1, <1>2 DEF Ascending

\* A file that holds the packets below a, followed by the packets a .. b-1, holds
\* the packets below b.
LEMMA AppendConsecutive ==
  ASSUME NEW a \in Nat, NEW b \in Nat, a <= b
  PROVE  [k \in 1 .. a |-> k - 1] \o [j \in 1 .. b-a |-> a + j - 1]
           = [k \in 1 .. b |-> k - 1]
  OBVIOUS

------------------------------------------------------------------------------
(***************************************************************************)
(* The sender's window.                                                    *)
(***************************************************************************)

\* The window ends inside the vector, and a window that is not empty holds its
\* base.
LEMMA WindowEndBounds ==
  ASSUME cw_base \in 0 .. N, cw \in Nat
  PROVE  /\ WindowEnd \in 0 .. N
         /\ (cw > 0 /\ cw_base < N) => cw_base < WindowEnd
<1> DEFINE fits == (cw + Scale - 1) \div Scale
<1>1. fits \in Nat /\ (cw > 0 => fits >= 1)
  BY ScaleAssumption
<1>2. WindowEnd = Smaller(cw_base + fits, N)
  BY DEF WindowEnd
<1> HIDE DEF fits
<1> QED BY <1>1, <1>2, NAssumption DEF Smaller

\* Where the window shrank behind max_sent, max_sent moves back, never on.
LEMMA ShrinkMaxSentBounds ==
  ASSUME NEW base \in 0 .. N, NEW window \in Nat, max_sent \in 0 .. N,
         base > 0 \/ window >= Scale
  PROVE  ShrinkMaxSent(base, window) \in 0 .. max_sent
<1> DEFINE room == base * Scale + window - Scale
           back == room \div Scale
<1>1. CASE base * Scale + window <= max_sent * Scale
  <2>1. room \in Nat
    <3>1. base * Scale \in Nat /\ (base > 0 => base * Scale >= Scale)
      BY ScaleAssumption, NAssumption
    <3> QED BY <3>1, ScaleAssumption, NAssumption
  <2>2. room <= max_sent * Scale
    BY <1>1, ScaleAssumption, NAssumption
  <2>3. back \in Nat /\ back <= max_sent
    <3> HIDE DEF room
    <3> QED BY <2>1, <2>2, ScaleAssumption, NAssumption
  <2> QED BY <1>1, <2>3 DEF ShrinkMaxSent
<1>2. CASE ~(base * Scale + window <= max_sent * Scale)
  BY <1>2, NAssumption DEF ShrinkMaxSent
<1> QED BY <1>1, <1>2

------------------------------------------------------------------------------
(***************************************************************************)
(* The inductive invariant, action by action.                              *)
(***************************************************************************)

LEMMA InitIInv == Init => IInv
<1> SUFFICES ASSUME Init PROVE IInv
  OBVIOUS
<1> USE NAssumption, ScaleAssumption DEF Init, SenderInit, ReceiverInit
<1>1. TypeOK
  BY DEF TypeOK, Packet, SenderPlaces, InLoop, LoopTest, DUP_ACK_LIMIT
<1>2. InOrderFile
  BY DEF InOrderFile
<1>3. AckSound /\ BufferedWasSent /\ InFlightWasSent
  BY DEF AckSound, BufferedWasSent, InFlightWasSent
<1>4. ResendsBase /\ ResendsPending /\ WaitsForSentPacket
  BY DEF ResendsBase, ResendsPending, WaitsForSentPacket, LoopTest
<1>5. RecoveryConsistent /\ LoopWhileUnacked /\ MaxSentWasSent
  BY DEF RecoveryConsistent, DUP_ACK_LIMIT, LoopWhileUnacked, LoopTest, InLoop,
         MaxSentWasSent
<1>6. FinTriesBounded
  BY DEF FinTriesBounded
<1> QED BY <1>1, <1>2, <1>3, <1>4, <1>5, <1>6 DEF IInv

\* The packets a window sends have the numbers of their positions.
LEMMA SendWindowStep ==
  ASSUME IInv, SendWindow, UNCHANGED receiverVars
  PROVE  IInv'
<1> USE NAssumption, ScaleAssumption
<1> DEFINE sent == max_sent .. WindowEnd - 1
           resent == {specialResends[k] : k \in DOMAIN specialResends}
           new == {VectorPacket(i) : i \in sent \cup resent}
<1>1. /\ spc = "send"
      /\ toReceiver' = toReceiver \cup new
      /\ sentUpTo' = IF sent = {} THEN sentUpTo ELSE Larger(sentUpTo, WindowEnd)
      /\ max_sent' = Larger(max_sent, WindowEnd - 1)
      /\ specialResends' = <<>>
      /\ spc' = "recv"
      /\ UNCHANGED <<toSender, cw_base, last_ack, cw, SST, dupAck, state,
                     finTries, receiverVars>>
  BY DEF SendWindow
<1>2. /\ cw_base \in 0 .. N /\ cw_base < N
      /\ cw \in Nat
      /\ max_sent \in 0 .. N
      /\ sentUpTo \in 0 .. N
      /\ specialResends \in {<<>>, <<cw_base>>}
      /\ specialResends # <<>> => cw >= Scale
      /\ max_sent < sentUpTo \/ max_sent <= cw_base
  BY <1>1 DEF IInv, TypeOK, ResendsBase, ResendsPending, MaxSentWasSent
<1>3. WindowEnd \in 0 .. N /\ (cw > 0 => cw_base < WindowEnd)
  BY <1>2, WindowEndBounds
<1>4. /\ sentUpTo' \in 0 .. N /\ sentUpTo' >= sentUpTo
      /\ max_sent' \in 0 .. N
      /\ \A i \in sent : i < sentUpTo'
      /\ max_sent' < sentUpTo' \/ max_sent' <= cw_base
      /\ cw > 0 => cw_base < sentUpTo'
  <2>1. CASE sent = {}
    <3>1. WindowEnd <= max_sent
      BY <1>2, <1>3, <2>1
    <3> QED BY <1>1, <1>2, <1>3, <2>1, <3>1 DEF Larger
  <2>2. CASE sent # {}
    <3>1. max_sent <= WindowEnd - 1
      BY <1>2, <1>3, <2>2
    <3>2. sentUpTo' = Larger(sentUpTo, WindowEnd) /\ max_sent' = WindowEnd - 1
      BY <1>1, <1>2, <1>3, <2>2, <3>1 DEF Larger
    <3> QED BY <1>2, <1>3, <3>1, <3>2 DEF Larger
  <2> QED BY <2>1, <2>2
<1>5. resent \subseteq {cw_base} /\ (resent # {} => cw > 0)
  <2>1. CASE specialResends = <<>>
    BY <2>1
  <2>2. CASE specialResends = <<cw_base>>
    BY <1>2, <2>2
  <2> QED BY <1>2, <2>1, <2>2
<1>6. \A p \in new : /\ p \in Packet
                     /\ ~HasType(p, "FIN")
                     /\ p.seqno < sentUpTo'
  <2> HIDE DEF sent, resent
  <2>1. \A i \in sent \cup resent : i \in Nat /\ i < sentUpTo'
    BY <1>2, <1>4, <1>5 DEF sent
  <2>2. ASSUME NEW i \in Nat
        PROVE  /\ VectorPacket(i) \in Packet
               /\ ~HasType(VectorPacket(i), "FIN")
               /\ VectorPacket(i).seqno = i
    BY DEF VectorPacket, Packet, TypeBits, HasType
  <2> QED BY <2>1, <2>2
<1> HIDE DEF new
<1>7. TypeOK'
  BY <1>1, <1>4, <1>6
  DEF IInv, TypeOK, SenderPlaces, InLoop, receiverVars
<1>8. InOrderFile' /\ AckSound'
  BY <1>1, <1>2, <1>4
  DEF IInv, TypeOK, InOrderFile, AckSound, receiverVars
<1>9. ResendsBase' /\ ResendsPending' /\ RecoveryConsistent' /\ WaitsForSentPacket'
  BY <1>1, <1>2, <1>4
  DEF IInv, ResendsBase, ResendsPending, RecoveryConsistent, WaitsForSentPacket
<1>10. /\ BufferedWasSent' /\ MaxSentWasSent' /\ LoopWhileUnacked'
       /\ FinTriesBounded'
  BY <1>1, <1>2, <1>4
  DEF IInv, TypeOK, BufferedWasSent, MaxSentWasSent, LoopWhileUnacked, InLoop,
      FinTriesBounded, receiverVars
<1>11. InFlightWasSent'
  BY <1>1, <1>2, <1>4, <1>6
  DEF IInv, TypeOK, InFlightWasSent, InLoop, Packet
<1> QED BY <1>7, <1>8, <1>9, <1>10, <1>11 DEF IInv

\* What every branch of the state machine leaves behind, whichever reply or
\* timeout it ran on.
LEMMA CongestionStep ==
  ASSUME IInv, NEW seqno \in 0 .. N, NEW timeout \in BOOLEAN,
         spc = "recv", Handle(seqno, timeout)
  PROVE  /\ cw' \in Nat /\ SST' \in Nat
         /\ dupAck' \in 0 .. DUP_ACK_LIMIT
         /\ state' \in {"SS", "CA", "FR"}
         /\ max_sent' \in 0 .. N
         /\ max_sent' <= max_sent \/ max_sent' = cw_base'
         /\ specialResends' \in {<<>>, <<cw_base'>>}
         /\ specialResends' # <<>> => cw' >= Scale
         /\ RecoveryConsistent'
<1> USE NAssumption, ScaleAssumption DEF DUP_ACK_LIMIT
<1>1. /\ cw \in Nat /\ SST \in Nat
      /\ dupAck \in 0 .. 3
      /\ state \in {"SS", "CA", "FR"}
      /\ max_sent \in 0 .. N
      /\ last_ack \in 0 .. N
      /\ specialResends = <<>>
      /\ state = "FR" <=> dupAck = 3
      /\ state = "FR" => cw >= SST + 3 * Scale
  BY DEF IInv, TypeOK, ResendsPending, RecoveryConsistent
<1>2. /\ last_ack' = Larger(last_ack, seqno)
      /\ cw_base' = last_ack'
      /\ cw_base' \in 0 .. N
  BY <1>1 DEF Handle, Acked, Larger
<1>3. cw \div 2 \in Nat
  BY <1>1
<1>4. CASE OnTimeout
  <2>1. /\ SST' \in Nat /\ cw' = Scale /\ dupAck' = 0
        /\ max_sent' = cw_base'
        /\ state' \in {"SS", "CA"} /\ state' # "FR" /\ dupAck' # 3
    BY <1>1, <1>2, <1>3, <1>4 DEF OnTimeout, LeaveSlowStart
  <2>2. specialResends' \in {<<>>, <<cw_base'>>}
    BY <1>1, <1>2, <1>4 DEF OnTimeout
  <2>3. RecoveryConsistent'
    BY <2>1, Zenon DEF RecoveryConsistent
  <2> QED BY <1>2, <2>1, <2>2, <2>3
<1>5. CASE OnDuplicate
  <2>1. CASE dupAck' = 3
    <3>1. /\ SST' = cw \div 2 /\ cw' = SST' + 3 * Scale /\ state' = "FR"
          /\ max_sent' = max_sent
      BY <1>1, <1>2, <1>5, <2>1 DEF OnDuplicate, RecoveryWindow
    <3>2. specialResends' \in {<<>>, <<cw_base'>>}
      BY <1>1, <1>2, <1>5, <2>1 DEF OnDuplicate, RecoveryWindow
    <3>3. SST' \in Nat /\ cw' \in Nat /\ cw' >= SST' + 3 * Scale /\ cw' >= Scale
      BY <1>3, <3>1
    <3>4. RecoveryConsistent'
      BY <2>1, <3>1, <3>3, Zenon DEF RecoveryConsistent
    <3> QED BY <1>1, <2>1, <3>1, <3>2, <3>3, <3>4
  <2>2. CASE dupAck' # 3
    <3>1. /\ dupAck' \in 0 .. 2
          /\ state' \in {"SS", "CA"}
          /\ UNCHANGED <<SST, cw, specialResends, max_sent>>
      BY <1>1, <1>5, <2>2 DEF OnDuplicate, RecoveryWindow, LeaveSlowStart
    <3> QED BY <1>1, <3>1 DEF RecoveryConsistent
  <2> QED BY <2>1, <2>2
<1>6. CASE OnDuplicateInRecovery
  <2>1. /\ state = "FR" /\ cw' = cw + Scale
        /\ max_sent' = ShrinkMaxSent(cw_base', cw')
        /\ UNCHANGED <<SST, dupAck, state, specialResends>>
    BY <1>6 DEF OnDuplicateInRecovery
  <2>2. max_sent' \in 0 .. max_sent
    BY <1>1, <1>2, <2>1, ShrinkMaxSentBounds
  <2> QED BY <1>1, <2>1, <2>2 DEF RecoveryConsistent
<1>7. CASE seqno > last_ack /\ OnNewAck(seqno)
  <2>1. cw' = cw
    BY <1>1, <1>2, <1>7 DEF OnNewAck, Larger
  <2>2. /\ dupAck' = 0
        /\ state' \in {"SS", "CA"}
        /\ UNCHANGED <<SST, max_sent, specialResends>>
    BY <1>1, <1>7 DEF OnNewAck, LeaveSlowStart
  <2> QED BY <1>1, <2>1, <2>2 DEF RecoveryConsistent
<1>8. CASE seqno > last_ack /\ OnNewAckInRecovery
  <2>1. /\ cw' = SST /\ dupAck' = 0 /\ state' = "CA"
        /\ max_sent' = ShrinkMaxSent(cw_base', cw')
        /\ UNCHANGED <<SST, specialResends>>
    BY <1>8 DEF OnNewAckInRecovery
  <2>2. cw_base' > 0
    BY <1>1, <1>2, <1>8 DEF Larger
  <2>3. max_sent' \in 0 .. max_sent
    BY <1>1, <1>2, <2>1, <2>2, ShrinkMaxSentBounds
  <2> QED BY <1>1, <2>1, <2>3 DEF RecoveryConsistent
<1>9. CASE seqno < last_ack /\ OnOldAck
  <2>1. /\ state' = LeaveSlowStart(cw, SST)
        /\ max_sent' = IF state = "FR" THEN ShrinkMaxSent(cw_base', cw)
                                       ELSE max_sent
        /\ UNCHANGED <<cw, SST, dupAck, specialResends>>
    BY <1>9 DEF OnOldAck
  <2>2. cw_base' > 0
    BY <1>1, <1>2, <1>9 DEF Larger
  <2>3. max_sent' \in 0 .. max_sent
    BY <1>1, <1>2, <2>1, <2>2, ShrinkMaxSentBounds
  <2>4. state' \in {"SS", "CA", "FR"} /\ (state' = "FR" <=> state = "FR")
    BY <1>1, <2>1 DEF LeaveSlowStart
  <2> QED BY <1>1, <2>1, <2>3, <2>4 DEF RecoveryConsistent
<1> QED BY <1>4, <1>5, <1>6, <1>7, <1>8, <1>9 DEF Handle

\* An iteration that handles a sound acknowledgement, or none.
LEMMA HandleStep ==
  ASSUME IInv, NEW seqno \in 0 .. N, NEW timeout \in BOOLEAN,
         seqno <= nextSeq, spc = "recv", Handle(seqno, timeout),
         toSender' \subseteq toSender, UNCHANGED <<toReceiver, receiverVars>>
  PROVE  IInv'
<1> USE NAssumption, ScaleAssumption
<1>1. /\ last_ack \in 0 .. N /\ nextSeq \in 0 .. N /\ sentUpTo \in 0 .. N
      /\ cw_base = last_ack
      /\ last_ack <= nextSeq
      /\ max_sent \in 0 .. N
      /\ max_sent < sentUpTo \/ max_sent <= cw_base
  BY DEF IInv, TypeOK, LoopWhileUnacked, AckSound, MaxSentWasSent
<1>2. /\ last_ack' = Larger(last_ack, seqno)
      /\ cw_base' = last_ack'
      /\ spc' = LoopTest(cw_base')
      /\ UNCHANGED <<finTries, sentUpTo, toReceiver, rpc, nextSeq, packetQueue,
                     outfile>>
  BY DEF Handle, Acked, receiverVars
<1>3. /\ last_ack' \in 0 .. N /\ last_ack <= last_ack' /\ last_ack' <= nextSeq
      /\ spc' \in {"send", "fin"}
      /\ spc' \in InLoop <=> cw_base' < N
      /\ spc' = "send" => cw_base' < N
  BY <1>1, <1>2 DEF Larger, LoopTest, InLoop
<1>4. /\ cw' \in Nat /\ SST' \in Nat
      /\ dupAck' \in 0 .. DUP_ACK_LIMIT
      /\ state' \in {"SS", "CA", "FR"}
      /\ max_sent' \in 0 .. N
      /\ max_sent' <= max_sent \/ max_sent' = cw_base'
      /\ specialResends' \in {<<>>, <<cw_base'>>}
      /\ specialResends' # <<>> => cw' >= Scale
      /\ RecoveryConsistent'
  BY CongestionStep
<1>5. specialResends' \in Seq(0 .. N)
  <2>1. <<>> \in Seq(0 .. N) /\ <<cw_base'>> \in Seq(0 .. N)
    BY <1>2, <1>3
  <2> QED BY <1>4, <2>1, Zenon
<1>6. TypeOK'
  BY <1>2, <1>3, <1>4, <1>5 DEF IInv, TypeOK, SenderPlaces, InLoop
<1>7. InOrderFile' /\ AckSound' /\ BufferedWasSent'
  BY <1>1, <1>2, <1>3 DEF IInv, InOrderFile, AckSound, BufferedWasSent
<1>8. ResendsBase' /\ ResendsPending' /\ WaitsForSentPacket'
  BY <1>2, <1>3, <1>4 DEF ResendsBase, ResendsPending, WaitsForSentPacket
<1>9. LoopWhileUnacked' /\ MaxSentWasSent'
  BY <1>1, <1>2, <1>3, <1>4
  DEF IInv, LoopWhileUnacked, MaxSentWasSent, InLoop
<1>10. InFlightWasSent' /\ FinTriesBounded'
  BY <1>2, <1>3 DEF IInv, InFlightWasSent, FinTriesBounded, InLoop
<1> QED BY <1>4, <1>6, <1>7, <1>8, <1>9, <1>10 DEF IInv

LEMMA ReceiveTimeoutStep ==
  ASSUME IInv, ReceiveTimeout, UNCHANGED receiverVars
  PROVE  IInv'
<1>1. spc = "recv" /\ Handle(0, TRUE) /\ UNCHANGED <<toReceiver, toSender>>
  BY DEF ReceiveTimeout, channels
<1>2. 0 \in 0 .. N /\ 0 <= nextSeq
  BY NAssumption DEF IInv, TypeOK
<1> QED BY <1>1, <1>2, HandleStep

LEMMA ReceiveReplyStep ==
  ASSUME IInv, UNCHANGED receiverVars,
         NEW p \in toSender, NEW late \in BOOLEAN, ReceiveReply(p, late)
  PROVE  IInv'
<1>1. /\ spc = "recv"
      /\ toSender' \subseteq toSender
      /\ UNCHANGED toReceiver
  BY DEF ReceiveReply, AfterDelivery
<1>2. ~HasType(p, "FIN")
  BY <1>1 DEF IInv, InFlightWasSent, InLoop
<1>3. Handle(p.seqno, late)
  BY <1>2 DEF ReceiveReply
<1>4. p.seqno \in 0 .. N /\ p.seqno <= nextSeq
  BY NAssumption DEF IInv, TypeOK, AckSound, Packet
<1> QED BY <1>1, <1>3, <1>4, HandleStep

\* finish_transfer() and the end of the process: only outside the loop, where
\* the whole file was acknowledged.
LEMMA FinishStep ==
  ASSUME IInv, UNCHANGED receiverVars,
         SendFin \/ (\E p \in toSender : FinAnswered(p)) \/ FinTimeout \/ CloseFile
  PROVE  IInv'
<1> USE NAssumption
<1>1. /\ spc \in {"fin", "finrecv", "close"}
      /\ spc' \in {"fin", "finrecv", "close", "exited", "crashed"}
      /\ toReceiver' \subseteq toReceiver \cup {FinPacket}
      /\ toSender' \subseteq toSender
      /\ UNCHANGED <<congestionVars, sentUpTo, receiverVars>>
  BY DEF SendFin, FinAnswered, FinTimeout, FinRetry, CloseFile, channels,
     AfterDelivery
<1>2. finTries' \in 0 .. 3 /\ FinTriesBounded'
  <2>1. finTries \in 0 .. 3 /\ (spc \in {"fin", "finrecv"} => finTries < 3)
    BY DEF IInv, TypeOK, FinTriesBounded
  <2>2. CASE FinTimeout
    BY <2>1, <2>2 DEF FinTimeout, FinRetry, FinTriesBounded
  <2>3. CASE SendFin
    BY <2>1, <2>3 DEF SendFin, FinTriesBounded
  <2>4. CASE (\E p \in toSender : FinAnswered(p)) \/ CloseFile
    BY <2>1, <2>4 DEF FinAnswered, CloseFile, FinTriesBounded
  <2> QED BY <2>2, <2>3, <2>4
<1>3. FinPacket \in Packet /\ ~HasType(FinPacket, "DATA")
  BY DEF FinPacket, Packet, TypeBits, HasType
<1>4. TypeOK'
  BY <1>1, <1>2, <1>3
  DEF IInv, TypeOK, SenderPlaces, InLoop, congestionVars, receiverVars
<1>5. InOrderFile' /\ AckSound' /\ BufferedWasSent' /\ MaxSentWasSent'
  BY <1>1 DEF IInv, InOrderFile, AckSound, BufferedWasSent, MaxSentWasSent,
              congestionVars, receiverVars
<1>6. ResendsBase' /\ ResendsPending' /\ RecoveryConsistent' /\ WaitsForSentPacket'
  BY <1>1 DEF IInv, ResendsBase, ResendsPending, RecoveryConsistent,
              WaitsForSentPacket, congestionVars
<1>7. InFlightWasSent' /\ LoopWhileUnacked'
  BY <1>1, <1>3 DEF IInv, InFlightWasSent, LoopWhileUnacked, InLoop,
                    congestionVars, receiverVars
<1> QED BY <1>2, <1>4, <1>5, <1>6, <1>7 DEF IInv

\* What one packet does to the receiver: the file grows by consecutive packets
\* up to the first gap, all of which were sent.
LEMMA ReceiveEffect ==
  ASSUME IInv, NEW p \in toReceiver, ReceivePacket(p)
  PROVE  \E m \in nextSeq .. N :
           /\ m <= sentUpTo
           /\ nextSeq' = m
           /\ outfile' = [k \in 1 .. m |-> k - 1]
           /\ \A k \in packetQueue' : m < k /\ k < sentUpTo
           /\ packetQueue' \subseteq 0 .. N-1
           /\ toSender' \subseteq toSender \cup {AckPacket(m), FinAckPacket(m)}
           /\ \/ rpc' = rpc /\ toSender' \subseteq toSender \cup {AckPacket(m)}
              \/ rpc' = "closed" /\ spc \notin InLoop /\ nextSeq = N
<1> USE NAssumption
<1> DEFINE queue == IF HasType(p, "DATA") THEN packetQueue \cup {p.seqno}
                                          ELSE packetQueue
           fin == HasType(p, "FIN")
<1>1. PICK m \in nextSeq .. N :
        /\ DrainsUpTo(queue, m)
        /\ outfile' = outfile \o Ascending(Written(queue, m))
        /\ nextSeq' = m
        /\ packetQueue' = {k \in queue : k > m}
        /\ toSender' = toSender \cup {AckPacket(m)}
                         \cup (IF fin THEN {FinAckPacket(m)} ELSE {})
        /\ rpc' = IF fin THEN "closed" ELSE "recv"
  BY DEF ReceivePacket
<1>2. /\ nextSeq \in 0 .. N /\ sentUpTo \in 0 .. N /\ nextSeq <= sentUpTo
      /\ rpc = "recv"
      /\ outfile = [k \in 1 .. nextSeq |-> k - 1]
  BY DEF IInv, TypeOK, AckSound, InOrderFile, ReceivePacket
<1>3. \A k \in queue : k \in 0 .. sentUpTo-1
  <2>1. \A k \in packetQueue : k \in 0 .. sentUpTo-1
    BY <1>2 DEF IInv, TypeOK, BufferedWasSent
  <2>2. HasType(p, "DATA") => p.seqno \in 0 .. sentUpTo-1
    BY <1>2 DEF IInv, TypeOK, InFlightWasSent, Packet
  <2> QED BY <2>1, <2>2
<1>4. m <= sentUpTo
  <2>1. CASE m = nextSeq
    BY <1>2, <2>1
  <2>2. CASE m # nextSeq
    <3>1. m - 1 \in nextSeq .. m-1
      BY <1>2, <2>2
    <3>2. m - 1 \in queue
      BY <1>1, <3>1 DEF DrainsUpTo
    <3> HIDE DEF queue
    <3> QED BY <1>2, <1>3, <3>2
  <2> QED BY <2>1, <2>2
<1>5. Written(queue, m) = nextSeq .. m-1
  <2>1. \A k \in nextSeq .. m-1 : k \in queue
    BY <1>1 DEF DrainsUpTo
  <2> HIDE DEF queue
  <2> QED BY <1>2, <1>3, <2>1 DEF Written
<1>6. outfile' = [k \in 1 .. m |-> k - 1]
  <2>1. Ascending(Written(queue, m)) = [j \in 1 .. m-nextSeq |-> nextSeq + j - 1]
    BY <1>2, <1>5, AscendingInterval
  <2>2. nextSeq \in Nat /\ m \in Nat /\ nextSeq <= m
    BY <1>2
  <2>3. [k \in 1 .. nextSeq |-> k - 1] \o [j \in 1 .. m-nextSeq |-> nextSeq + j - 1]
          = [k \in 1 .. m |-> k - 1]
    BY <2>2, AppendConsecutive
  <2> QED BY <1>1, <1>2, <2>1, <2>3, Zenon
<1>7. fin => spc \notin InLoop /\ nextSeq = N
  BY <1>2 DEF IInv, TypeOK, InFlightWasSent, LoopWhileUnacked, AckSound
<1>8. /\ \A k \in packetQueue' : m < k /\ k < sentUpTo
      /\ packetQueue' \subseteq 0 .. N-1
  <2> HIDE DEF queue
  <2> QED BY <1>1, <1>2, <1>3
<1> QED BY <1>1, <1>2, <1>4, <1>6, <1>7, <1>8

LEMMA ReceivePacketStep ==
  ASSUME IInv, UNCHANGED senderVars, NEW p \in toReceiver, ReceivePacket(p)
  PROVE  IInv'
<1> USE NAssumption
<1>1. PICK m \in nextSeq .. N :
        /\ m <= sentUpTo
        /\ nextSeq' = m
        /\ outfile' = [k \in 1 .. m |-> k - 1]
        /\ \A k \in packetQueue' : m < k /\ k < sentUpTo
        /\ packetQueue' \subseteq 0 .. N-1
        /\ toSender' \subseteq toSender \cup {AckPacket(m), FinAckPacket(m)}
        /\ \/ rpc' = rpc /\ toSender' \subseteq toSender \cup {AckPacket(m)}
           \/ rpc' = "closed" /\ spc \notin InLoop /\ nextSeq = N
  BY ReceiveEffect
<1>2. /\ toReceiver' \subseteq toReceiver
      /\ UNCHANGED <<spc, cw_base, last_ack, cw, SST, dupAck, state, max_sent,
                     specialResends, finTries, sentUpTo>>
  BY DEF ReceivePacket, AfterDelivery, senderVars, congestionVars
<1>3. nextSeq \in 0 .. N /\ m \in 0 .. N /\ nextSeq <= m
  BY DEF IInv, TypeOK
<1>4. /\ AckPacket(m) \in Packet /\ FinAckPacket(m) \in Packet
      /\ AckPacket(m).seqno = m /\ FinAckPacket(m).seqno = m
      /\ ~HasType(AckPacket(m), "FIN")
  BY <1>3 DEF AckPacket, FinAckPacket, Packet, TypeBits, HasType
<1>5. outfile' \in Seq(0 .. N-1)
  BY <1>1, <1>3
<1>6. TypeOK'
  BY <1>1, <1>2, <1>3, <1>4, <1>5 DEF IInv, TypeOK
<1>7. InOrderFile' /\ BufferedWasSent'
  BY <1>1, <1>2 DEF InOrderFile, BufferedWasSent
<1>8. AckSound'
  <2>1. \A q \in toSender' : q.seqno <= m
    <3>1. \A q \in toSender : q.seqno \in Nat /\ q.seqno <= nextSeq
      BY DEF IInv, TypeOK, AckSound, Packet
    <3> QED BY <1>1, <1>3, <1>4, <3>1
  <2> QED BY <1>1, <1>2, <1>3, <2>1 DEF IInv, TypeOK, AckSound
<1>9. InFlightWasSent' /\ LoopWhileUnacked'
  BY <1>1, <1>2, <1>4 DEF IInv, InFlightWasSent, LoopWhileUnacked
<1>10. /\ ResendsBase' /\ ResendsPending' /\ RecoveryConsistent'
       /\ WaitsForSentPacket' /\ MaxSentWasSent' /\ FinTriesBounded'
  BY <1>2 DEF IInv, ResendsBase, ResendsPending, RecoveryConsistent,
              WaitsForSentPacket, MaxSentWasSent, FinTriesBounded
<1> QED BY <1>6, <1>7, <1>8, <1>9, <1>10 DEF IInv

LEMMA LoseStep ==
  ASSUME IInv, Lose, UNCHANGED <<senderVars, receiverVars>>
  PROVE  IInv'
<1>1. /\ toReceiver' \subseteq toReceiver
      /\ toSender' \subseteq toSender
      /\ UNCHANGED <<spc, cw_base, last_ack, cw, SST, dupAck, state, max_sent,
                     specialResends, finTries, sentUpTo, rpc, nextSeq,
                     packetQueue, outfile>>
  BY DEF Lose, senderVars, congestionVars, receiverVars
<1>2. TypeOK' /\ InOrderFile' /\ AckSound' /\ InFlightWasSent'
  BY <1>1 DEF IInv, TypeOK, InOrderFile, AckSound, InFlightWasSent
<1> QED BY <1>1, <1>2 DEF IInv, ResendsBase, ResendsPending, RecoveryConsistent,
                          WaitsForSentPacket, BufferedWasSent, LoopWhileUnacked,
                          FinTriesBounded, MaxSentWasSent

LEMMA StutterStep == IInv /\ UNCHANGED vars => IInv'
BY DEF vars, channels, senderVars, congestionVars, receiverVars, IInv, TypeOK,
       InOrderFile, AckSound, InFlightWasSent, ResendsBase, ResendsPending,
       RecoveryConsistent, WaitsForSentPacket, BufferedWasSent,
       LoopWhileUnacked, FinTriesBounded, MaxSentWasSent

------------------------------------------------------------------------------
(***************************************************************************)
(* The theorems.                                                           *)
(***************************************************************************)

\* Every reachable state of a transfer satisfies the inductive invariant: each
\* step of the sender, the receiver and the network preserves it.
THEOREM Invariance == Spec => []IInv
<1>1. Init => IInv
  BY InitIInv
<1>2. IInv /\ [Next]_vars => IInv'
  <2> SUFFICES ASSUME IInv, [Next]_vars PROVE IInv'
    OBVIOUS
  <2>1. CASE SenderStep /\ UNCHANGED receiverVars
    <3>1. CASE SendWindow
      BY <2>1, <3>1, SendWindowStep
    <3>2. CASE ReceiveTimeout
      BY <2>1, <3>2, ReceiveTimeoutStep
    <3>3. CASE \E p \in toSender, late \in BOOLEAN : ReceiveReply(p, late)
      BY <2>1, <3>3, ReceiveReplyStep
    <3>4. CASE \/ SendFin
               \/ \E p \in toSender : FinAnswered(p)
               \/ FinTimeout
               \/ CloseFile
      BY <2>1, <3>4, FinishStep
    <3> QED BY <2>1, <3>1, <3>2, <3>3, <3>4 DEF SenderStep
  <2>2. CASE ReceiverStep /\ UNCHANGED senderVars
    BY <2>2, ReceivePacketStep DEF ReceiverStep
  <2>3. CASE Lose /\ UNCHANGED <<senderVars, receiverVars>>
    BY <2>3, LoseStep
  <2>4. CASE UNCHANGED vars
    BY <2>4, StutterStep
  <2> QED BY <2>1, <2>2, <2>3, <2>4 DEF Next
<1> QED BY <1>1, <1>2, PTL DEF Spec

\* Every variable keeps its type, for any number of packets.
THEOREM TypeCorrect == Spec => []TypeOK
<1>1. IInv => TypeOK
  BY DEF IInv
<1> QED BY <1>1, Invariance, PTL

\* The destination file is always a prefix of the source, written in order and
\* once, over a network that loses, repeats and reorders packets.
THEOREM FileInOrder == Spec => []InOrderFile
<1>1. IInv => InOrderFile
  BY DEF IInv
<1> QED BY <1>1, Invariance, PTL

\* No acknowledgement claims a packet that was not written.
THEOREM AcksAreSound == Spec => []AckSound
<1>1. IInv => AckSound
  BY DEF IInv
<1> QED BY <1>1, Invariance, PTL

\* Neither program ends its loop before the whole file was written.
THEOREM EndsComplete == Spec => []CompleteBeforeEnd
<1>1. IInv => CompleteBeforeEnd
  BY NAssumption
  DEF IInv, CompleteBeforeEnd, LoopWhileUnacked, TypeOK, AckSound
<1> QED BY <1>1, Invariance, PTL

\* A special resend names the packet the receiver misses, and that packet lies in
\* the vector.
THEOREM ResendsAreUseful == Spec => []ResendsBase
<1>1. IInv => ResendsBase
  BY DEF IInv
<1> QED BY <1>1, Invariance, PTL

\* Fast recovery is entered at the limit and left with the counter reset, and its
\* window covers the threshold and the three packets that left.
THEOREM RecoveryIsConsistent == Spec => []RecoveryConsistent
<1>1. IInv => RecoveryConsistent
  BY DEF IInv
<1> QED BY <1>1, Invariance, PTL

\* The sender never waits for a packet it did not send.
THEOREM WaitIsJustified == Spec => []WaitsForSentPacket
<1>1. IInv => WaitsForSentPacket
  BY DEF IInv
<1> QED BY <1>1, Invariance, PTL

------------------------------------------------------------------------------
(***************************************************************************)
(* The transfer implements FileTransfer.                                   *)
(***************************************************************************)

\* A step of the sender stutters, but for the one that ends its loop.
LEMMA SenderRefines ==
  ASSUME IInv, IInv', SenderStep, UNCHANGED receiverVars
  PROVE  FT!Next \/ UNCHANGED FT!vars
<1> USE NAssumption
<1>1. UNCHANGED <<outfile, rpc, nextSeq>>
  BY DEF receiverVars
<1>2. spc' \in InLoop => spc \in InLoop
  BY DEF SenderStep, SendWindow, ReceiveTimeout, ReceiveReply, SendFin,
         FinAnswered, FinTimeout, FinRetry, CloseFile, InLoop
<1>3. CASE spc \in InLoop <=> spc' \in InLoop
  BY <1>1, <1>3 DEF FT!vars
<1>4. CASE spc \in InLoop /\ spc' \notin InLoop
  <2>1. nextSeq = N
    BY <1>1, <1>4 DEF IInv, TypeOK, LoopWhileUnacked, AckSound
  <2>2. Len(outfile) = N
    BY <2>1 DEF IInv, InOrderFile
  <2>3. FT!StopSending
    BY <1>1, <1>4, <2>2 DEF FT!StopSending
  <2> QED BY <2>3 DEF FT!Next
<1> QED BY <1>2, <1>3, <1>4

\* A packet makes the file longer, closes it, or leaves it alone.
LEMMA ReceiverRefines ==
  ASSUME IInv, UNCHANGED senderVars, NEW p \in toReceiver, ReceivePacket(p)
  PROVE  FT!Next \/ UNCHANGED FT!vars
<1> USE NAssumption
<1>1. PICK m \in nextSeq .. N :
        /\ outfile' = [k \in 1 .. m |-> k - 1]
        /\ \/ rpc' = rpc
           \/ rpc' = "closed" /\ spc \notin InLoop /\ nextSeq = N
  BY ReceiveEffect
<1>2. /\ nextSeq \in 0 .. N
      /\ outfile = [k \in 1 .. nextSeq |-> k - 1]
      /\ Len(outfile) = nextSeq
      /\ rpc = "recv"
      /\ UNCHANGED spc
  BY DEF IInv, TypeOK, InOrderFile, ReceivePacket, senderVars
<1>3. CASE m = nextSeq
  <2>1. outfile' = outfile
    BY <1>1, <1>2, <1>3
  <2>2. CASE rpc' = rpc
    BY <1>2, <2>1, <2>2 DEF FT!vars
  <2>3. CASE rpc' = "closed" /\ spc \notin InLoop /\ nextSeq = N
    BY <1>2, <2>1, <2>3 DEF FT!StopReceiving, FT!Next
  <2> QED BY <1>1, <2>2, <2>3
<1>4. CASE m # nextSeq
  <2>1. rpc' = "recv" /\ m \in Len(outfile) + 1 .. N
    BY <1>1, <1>2, <1>4
  <2>2. outfile' = [k \in 1 .. m |-> IF k <= Len(outfile) THEN outfile[k] ELSE k - 1]
    BY <1>1, <1>2
  <2>3. FT!Write
    BY <1>2, <2>1, <2>2 DEF FT!Write
  <2> QED BY <2>3 DEF FT!Next
<1> QED BY <1>3, <1>4

\* reliable_sender and reliable_receiver together keep the promise of
\* FileTransfer: each of their steps extends the file in order, ends the sender's
\* loop with the file whole, closes the file after that, or changes nothing of it.
THEOREM Refinement == Spec => ImplementsFileTransfer
<1>1. Init => FT!Init
  BY NAssumption
  DEF Init, SenderInit, ReceiverInit, FT!Init, LoopTest, InLoop
<1>2. IInv /\ IInv' /\ [Next]_vars => [FT!Next]_(FT!vars)
  <2> SUFFICES ASSUME IInv, IInv', [Next]_vars
               PROVE  FT!Next \/ UNCHANGED FT!vars
    OBVIOUS
  <2>1. CASE SenderStep /\ UNCHANGED receiverVars
    BY <2>1, SenderRefines
  <2>2. CASE ReceiverStep /\ UNCHANGED senderVars
    BY <2>2, ReceiverRefines DEF ReceiverStep
  <2>3. CASE Lose /\ UNCHANGED <<senderVars, receiverVars>>
    BY <2>3 DEF FT!vars, senderVars, receiverVars
  <2>4. CASE UNCHANGED vars
    BY <2>4 DEF FT!vars, vars, senderVars, receiverVars
  <2> QED BY <2>1, <2>2, <2>3, <2>4 DEF Next
<1> QED BY <1>1, <1>2, Invariance, PTL DEF Spec, ImplementsFileTransfer, FT!Spec

------------------------------------------------------------------------------
(***************************************************************************)
(* A source file shorter than bytesToTransfer leaves packets without the   *)
(* DATA bit in the vector (FillVector).  The receiver buffers none of      *)
(* them.                                                                   *)
(***************************************************************************)
OnlyDataIsWritten ==
  /\ \A p \in toReceiver : HasType(p, "DATA") => p.seqno \in DataPackets
  /\ packetQueue \subseteq DataPackets
  /\ \A k \in Nat : k < nextSeq => k \in DataPackets

LEMMA NextOnlyData ==
  ASSUME IInv, OnlyDataIsWritten, [Next]_vars
  PROVE  OnlyDataIsWritten'
<1>1. CASE SenderStep /\ UNCHANGED receiverVars
  <2>1. \A p \in toReceiver' : HasType(p, "DATA") => p.seqno \in DataPackets
    <3>1. CASE SendWindow
      <4>1. PICK S : toReceiver' = toReceiver \cup {VectorPacket(i) : i \in S}
        BY <3>1 DEF SendWindow
      <4>2. \A i : HasType(VectorPacket(i), "DATA") => VectorPacket(i).seqno \in DataPackets
        BY DEF VectorPacket, HasType
      <4> QED BY <4>1, <4>2 DEF OnlyDataIsWritten
    <3>2. CASE SendFin
      <4>1. toReceiver' = toReceiver \cup {FinPacket} /\ ~HasType(FinPacket, "DATA")
        BY <3>2 DEF SendFin, FinPacket, HasType
      <4> QED BY <4>1 DEF OnlyDataIsWritten
    <3>3. CASE ~SendWindow /\ ~SendFin
      <4>1. toReceiver' = toReceiver
        BY <1>1, <3>3 DEF SenderStep, ReceiveTimeout, ReceiveReply, FinAnswered,
                          FinTimeout, CloseFile, channels
      <4> QED BY <4>1 DEF OnlyDataIsWritten
    <3> QED BY <3>1, <3>2, <3>3
  <2> QED BY <1>1, <2>1 DEF OnlyDataIsWritten, receiverVars
<1>2. CASE ReceiverStep /\ UNCHANGED senderVars
  <2>1. PICK p \in toReceiver : ReceivePacket(p)
    BY <1>2 DEF ReceiverStep
  <2> DEFINE queue == IF HasType(p, "DATA") THEN packetQueue \cup {p.seqno}
                                            ELSE packetQueue
  <2>2. PICK m \in nextSeq .. N : /\ DrainsUpTo(queue, m) /\ nextSeq' = m
                                  /\ packetQueue' = {k \in queue : k > m}
    BY <2>1 DEF ReceivePacket
  <2>3. queue \subseteq DataPackets
    BY DEF OnlyDataIsWritten
  <2>4. \A q \in toReceiver' : q \in toReceiver
    BY <2>1 DEF ReceivePacket, AfterDelivery
  <2> HIDE DEF queue
  <2>5. nextSeq \in Nat /\ N \in Nat
    BY NAssumption DEF IInv, TypeOK
  <2>6. ASSUME NEW k \in Nat, k < m PROVE k \in DataPackets
    <3>1. CASE k < nextSeq
      BY <3>1 DEF OnlyDataIsWritten
    <3>2. CASE k >= nextSeq
      <4>1. k \in nextSeq .. m-1
        BY <2>5, <2>6, <3>2
      <4> QED BY <2>2, <2>3, <4>1 DEF DrainsUpTo
    <3> QED BY <2>5, <3>1, <3>2
  <2> QED BY <2>2, <2>3, <2>4, <2>6 DEF OnlyDataIsWritten
<1>3. CASE Lose /\ UNCHANGED <<senderVars, receiverVars>>
  BY <1>3 DEF Lose, OnlyDataIsWritten, receiverVars
<1>4. CASE UNCHANGED vars
  BY <1>4 DEF OnlyDataIsWritten, vars, channels, receiverVars
<1> QED BY <1>1, <1>2, <1>3, <1>4 DEF Next

\* When fewer packets carry data than there are, neither program ever leaves its
\* loop: the sender repeats the first packet without data for good.
THEOREM ShortFileNeverEnds ==
  Spec => [](DataPackets # 0 .. N-1 => spc \in InLoop /\ rpc = "recv")
<1>1. Init => OnlyDataIsWritten
  BY DEF Init, ReceiverInit, OnlyDataIsWritten
<1>2. IInv /\ OnlyDataIsWritten /\ [Next]_vars => OnlyDataIsWritten'
  BY NextOnlyData
<1>3. IInv /\ OnlyDataIsWritten => (DataPackets # 0 .. N-1 => spc \in InLoop /\ rpc = "recv")
  <2> SUFFICES ASSUME IInv, OnlyDataIsWritten, ~(spc \in InLoop /\ rpc = "recv")
               PROVE  DataPackets = 0 .. N-1
    OBVIOUS
  <2>1. nextSeq = N
    BY NAssumption DEF IInv, LoopWhileUnacked, TypeOK, AckSound
  <2>2. \A k \in 0 .. N-1 : k \in DataPackets
    BY <2>1, NAssumption DEF OnlyDataIsWritten
  <2> QED BY <2>2, DataPacketsAssumption
<1> QED BY <1>1, <1>2, <1>3, Invariance, PTL DEF Spec

------------------------------------------------------------------------------
(***************************************************************************)
(* FillVector: what the loop of fillVector() reads of the file, and in     *)
(* which packets it puts it.                                               *)
(***************************************************************************)
FullPacket == [type |-> {"DATA"}, data_sz |-> PacketSize]

FillTypeOK ==
  /\ fileSize \in 0 .. MaxFile
  /\ request \in 0 .. MaxRequest
  /\ bytesToSend \in Nat
  /\ unread \in Nat
  /\ eof \in BOOLEAN
  /\ packets \in Seq([type : {{}, {"DATA"}}, data_sz : 0 .. PacketSize])
  /\ fpc \in {"fill", "done"}

\* Until the end of the file is met, what is read of it is what is packed of the
\* request; it is met only by a file shorter than the request.
ReadSoFar ==
  IF eof THEN unread = 0 /\ fileSize < request
         ELSE fileSize + bytesToSend = unread + request

\* Until then every packet has data, and while something is left to pack it is full.
PackedSoFar ==
  ~eof => \A i \in DOMAIN packets :
            packets[i].type = {"DATA"} /\ (bytesToSend > 0 => packets[i] = FullPacket)

\* The inductive invariant.
FillIInv ==
  /\ FillTypeOK
  /\ ReadSoFar
  /\ PackedSoFar
  /\ DataComesFirst
  /\ fpc = "done" => eof \/ bytesToSend = 0

------------------------------------------------------------------------------
LEMMA Sizes ==
  ASSUME FillTypeOK, bytesToSend > 0
  PROVE  /\ Wanted \in 1 .. PacketSize /\ Wanted <= bytesToSend
         /\ Wanted = bytesToSend \/ Wanted = PacketSize
         /\ Found \in 0 .. Wanted /\ Found <= unread
         /\ Found < Wanted => Found = unread
BY PacketSizeAssumption DEF FillTypeOK, Wanted, Found, Lesser

\* What a packet at the end does to the vector.
LEMMA OneMore ==
  ASSUME FillTypeOK, NEW p \in [type : {{}, {"DATA"}}, data_sz : 0 .. PacketSize],
         packets' = Append(packets, p)
  PROVE  /\ packets' \in Seq([type : {{}, {"DATA"}}, data_sz : 0 .. PacketSize])
         /\ Len(packets) \in Nat
         /\ DOMAIN packets = 1 .. Len(packets)
         /\ DOMAIN packets' = 1 .. Len(packets) + 1
         /\ \A i \in DOMAIN packets : packets'[i] = packets[i]
         /\ packets'[Len(packets) + 1] = p
BY DEF FillTypeOK

LEMMA ReadPacketStep ==
  ASSUME FillIInv, ReadPacket
  PROVE  FillIInv'
<1> DEFINE p == [type |-> {"DATA"}, data_sz |-> DataSize]
           n == Len(packets)
<1>1. /\ FillTypeOK /\ fpc = "fill" /\ bytesToSend > 0 /\ ~eof /\ Found > 0
      /\ eof' = (Found < Wanted)
      /\ unread' = unread - Found
      /\ bytesToSend' = bytesToSend - Found
      /\ packets' = Append(packets, p)
      /\ UNCHANGED <<fileSize, request, fpc>>
      /\ fileSize + bytesToSend = unread + request
      /\ \A i \in DOMAIN packets : packets[i] = FullPacket
  BY DEF FillIInv, ReadPacket, EndsFile, DataSize, ReadSoFar, PackedSoFar
<1>2. /\ Wanted \in 1 .. PacketSize /\ Wanted <= bytesToSend
      /\ Wanted = bytesToSend \/ Wanted = PacketSize
      /\ Found \in 0 .. Wanted /\ Found <= unread
      /\ Found < Wanted => Found = unread
  BY <1>1, Sizes
<1>3. p \in [type : {{}, {"DATA"}}, data_sz : 0 .. PacketSize]
  BY <1>2, PacketSizeAssumption DEF DataSize
<1>4. /\ packets' \in Seq([type : {{}, {"DATA"}}, data_sz : 0 .. PacketSize])
      /\ n \in Nat /\ DOMAIN packets = 1 .. n /\ DOMAIN packets' = 1 .. n + 1
      /\ \A i \in DOMAIN packets : packets'[i] = FullPacket
      /\ packets'[n + 1] = p
  BY <1>1, <1>3, OneMore
<1>5. /\ unread \in Nat /\ bytesToSend \in Nat /\ fileSize \in Nat /\ request \in Nat
      /\ PacketSize \in Nat
  BY <1>1, BoundsAssumption, PacketSizeAssumption DEF FillTypeOK
<1>6. FillTypeOK'
  BY <1>1, <1>2, <1>4, <1>5 DEF FillTypeOK
<1>7. ReadSoFar'
  <2> DEFINE f == Found
             w == Wanted
             u == unread'
             b == bytesToSend'
  <2>1. /\ f \in Nat /\ w \in Nat /\ f <= w /\ w <= bytesToSend /\ f <= unread
        /\ f < w => f = unread
        /\ u = unread - f /\ b = bytesToSend - f
        /\ fileSize + bytesToSend = unread + request
    BY <1>1, <1>2, <1>5
  <2>2. (f < w <=> eof') /\ fileSize' = fileSize /\ request' = request
    BY <1>1
  <2> HIDE DEF f, w, u, b
  <2>3. CASE f < w
    <3>1. u = 0 /\ fileSize < request
      BY <1>5, <2>1, <2>3
    <3> QED BY <2>2, <2>3, <3>1 DEF ReadSoFar, u
  <2>4. CASE ~(f < w)
    <3>1. fileSize + b = u + request
      BY <1>5, <2>1, <2>4
    <3> QED BY <2>2, <2>4, <3>1 DEF ReadSoFar, u, b
  <2> QED BY <2>3, <2>4
<1>8. PackedSoFar'
  <2>1. p.type = {"DATA"} /\ FullPacket.type = {"DATA"}
    BY DEF FullPacket
  <2>2. ASSUME ~eof', bytesToSend' > 0 PROVE p = FullPacket
    <3>1. Found = PacketSize
      <4> DEFINE f == Found
                 w == Wanted
                 b == bytesToSend'
      <4>1. /\ f \in Nat /\ w \in Nat /\ f <= w /\ b = bytesToSend - f /\ b > 0
            /\ w = bytesToSend \/ w = PacketSize
        BY <1>1, <1>2, <1>5, <2>2
      <4>2. ~(f < w)
        BY <1>1, <2>2
      <4> HIDE DEF f, w, b
      <4>3. f = PacketSize
        BY <1>5, <4>1, <4>2
      <4> QED BY <4>3 DEF f
    <3> QED BY <3>1 DEF FullPacket, DataSize
  <2> HIDE DEF p, n
  <2>3. \A i \in DOMAIN packets' : i \in DOMAIN packets \/ i = n + 1
    BY <1>4
  <2> QED BY <1>4, <2>1, <2>2, <2>3 DEF PackedSoFar
<1> HIDE DEF p, n
<1>9. DataComesFirst'
  <2> SUFFICES ASSUME NEW i \in DOMAIN packets', NEW j \in 1 .. i-1
               PROVE  packets'[j] = FullPacket
    BY DEF DataComesFirst, FullPacket
  <2>1. j \in DOMAIN packets
    BY <1>4
  <2> QED BY <1>4, <2>1
<1> QED BY <1>1, <1>6, <1>7, <1>8, <1>9 DEF FillIInv

LEMMA EmptyPacketStep ==
  ASSUME FillIInv, EmptyPacket
  PROVE  FillIInv'
<1> DEFINE p == [type |-> {}, data_sz |-> 0]
           n == Len(packets)
<1>1. /\ FillTypeOK /\ fpc = "fill" /\ bytesToSend > 0 /\ eof
      /\ bytesToSend' = bytesToSend - 1
      /\ packets' = Append(packets, p)
      /\ UNCHANGED <<fileSize, request, unread, eof, fpc>>
  BY DEF FillIInv, EmptyPacket, FeofValue, NoType
<1>2. p \in [type : {{}, {"DATA"}}, data_sz : 0 .. PacketSize] /\ p.type # {"DATA"}
  BY PacketSizeAssumption
<1>3. /\ packets' \in Seq([type : {{}, {"DATA"}}, data_sz : 0 .. PacketSize])
      /\ n \in Nat /\ DOMAIN packets = 1 .. n /\ DOMAIN packets' = 1 .. n + 1
      /\ \A i \in DOMAIN packets : packets'[i] = packets[i]
      /\ packets'[n + 1] = p
  BY <1>1, <1>2, OneMore
<1>4. FillTypeOK'
  BY <1>1, <1>3 DEF FillTypeOK
<1>5. ReadSoFar' /\ PackedSoFar'
  BY <1>1 DEF FillIInv, ReadSoFar, PackedSoFar
<1> HIDE DEF p, n
<1>6. DataComesFirst'
  <2> SUFFICES ASSUME NEW i \in DOMAIN packets', packets'[i].type = {"DATA"},
                      NEW j \in 1 .. i-1
               PROVE  packets'[j] = FullPacket
    BY DEF DataComesFirst, FullPacket
  <2>1. i # n + 1
    BY <1>2, <1>3
  <2>2. i \in DOMAIN packets /\ j \in DOMAIN packets
    BY <1>3, <2>1
  <2>3. packets[j] = FullPacket
    BY <1>3, <2>2 DEF FillIInv, DataComesFirst, FullPacket
  <2> QED BY <1>3, <2>2, <2>3
<1> QED BY <1>1, <1>4, <1>5, <1>6 DEF FillIInv

LEMMA FillInitIInv == FillInit => FillIInv
<1> SUFFICES ASSUME FillInit PROVE FillIInv
  OBVIOUS
<1>1. FillTypeOK
  <2>1. packets \in Seq([type : {{}, {"DATA"}}, data_sz : 0 .. PacketSize])
    BY DEF FillInit
  <2>2. bytesToSend \in Nat /\ unread \in Nat
    BY BoundsAssumption DEF FillInit
  <2> QED BY <2>1, <2>2 DEF FillInit, FillTypeOK
<1>2. DOMAIN packets = {}
  BY DEF FillInit
<1>3. ReadSoFar
  BY <1>1, BoundsAssumption DEF FillInit, ReadSoFar, FillTypeOK
<1>4. PackedSoFar /\ DataComesFirst
  BY <1>2 DEF PackedSoFar, DataComesFirst
<1> QED BY <1>1, <1>3, <1>4 DEF FillInit, FillIInv

LEMMA FillNextIInv == FillIInv /\ [FillNext]_fillVars => FillIInv'
<1> SUFFICES ASSUME FillIInv, [FillNext]_fillVars PROVE FillIInv'
  OBVIOUS
<1>1. CASE ReadNothing
  <2>1. /\ FillTypeOK /\ bytesToSend > 0 /\ ~eof /\ Found = 0
        /\ eof' = TRUE /\ fpc' = "done"
        /\ UNCHANGED <<fileSize, request, bytesToSend, unread, packets>>
    BY <1>1 DEF FillIInv, ReadNothing
  <2>2. unread = 0 /\ fileSize < request
    <3>1. unread = 0
      BY <2>1, Sizes
    <3>2. fileSize + bytesToSend = unread + request
      BY <2>1 DEF FillIInv, ReadSoFar
    <3>3. fileSize \in Nat /\ request \in Nat /\ bytesToSend \in Nat
      BY <2>1, BoundsAssumption DEF FillTypeOK
    <3> QED BY <2>1, <3>1, <3>2, <3>3
  <2>3. FillTypeOK' /\ DataComesFirst'
    BY <2>1 DEF FillIInv, FillTypeOK, DataComesFirst
  <2> QED BY <2>1, <2>2, <2>3 DEF FillIInv, ReadSoFar, PackedSoFar
<1>2. CASE Filled \/ UNCHANGED fillVars
  <2>1. /\ UNCHANGED <<fileSize, request, bytesToSend, unread, eof, packets>>
        /\ fpc' = fpc \/ (fpc' = "done" /\ bytesToSend = 0)
    BY <1>2 DEF Filled, fillVars
  <2> QED BY <2>1 DEF FillIInv, FillTypeOK, ReadSoFar, PackedSoFar, DataComesFirst
<1> QED BY <1>1, <1>2, ReadPacketStep, EmptyPacketStep DEF FillNext

LEMMA FillInvariance == FillSpec => []FillIInv
<1> QED BY FillInitIInv, FillNextIInv, PTL DEF FillSpec

------------------------------------------------------------------------------
\* The data packets come first, and all of them but the last are full, for every
\* size of packets.
THEOREM DataFirst == FillSpec => []DataComesFirst
<1>1. FillIInv => DataComesFirst
  BY DEF FillIInv
<1> QED BY <1>1, FillInvariance, PTL

\* When the loop ends, the file was read up to the end or up to what was asked for,
\* whichever comes first; and a vector with a packet without data is one of a file
\* shorter than what was asked for.
ReadInFull ==
  fpc = "done" =>
    /\ fileSize - unread = Lesser(request, fileSize)
    /\ (\E i \in DOMAIN packets : packets[i].type # {"DATA"}) => fileSize < request

\* fillVector() reads all it should, and leaves packets that no receiver writes only
\* when the file is too short.
THEOREM FileRead == FillSpec => []ReadInFull
<1>1. FillIInv => ReadInFull
  <2> SUFFICES ASSUME FillIInv, fpc = "done" PROVE ReadInFull
    BY DEF ReadInFull
  <2>1. /\ fileSize \in Nat /\ request \in Nat /\ bytesToSend \in Nat /\ unread \in Nat
        /\ eof \/ bytesToSend = 0
    BY BoundsAssumption DEF FillIInv, FillTypeOK
  <2>2. CASE eof
    BY <2>1, <2>2 DEF FillIInv, ReadSoFar, ReadInFull, Lesser
  <2>3. CASE ~eof
    <3>1. fileSize = unread + request
      BY <2>1, <2>3 DEF FillIInv, ReadSoFar
    <3>2. \A i \in DOMAIN packets : packets[i].type = {"DATA"}
      BY <2>3 DEF FillIInv, PackedSoFar
    <3> QED BY <2>1, <3>1, <3>2 DEF ReadInFull, Lesser
  <2> QED BY <2>2, <2>3
<1> QED BY <1>1, FillInvariance, PTL

------------------------------------------------------------------------------
\* Partial sums of the sizes of a vector of packets.
IsSum(f, seq) ==
  /\ f \in [0 .. Len(seq) -> Nat]
  /\ f[0] = 0
  /\ \A k \in 1 .. Len(seq) : f[k] = f[k - 1] + seq[k].data_sz

HasSizes(seq) == Len(seq) \in Nat /\ \A k \in 1 .. Len(seq) : seq[k].data_sz \in Nat

LEMMA SumExists ==
  ASSUME NEW seq, HasSizes(seq)
  PROVE  \E f : IsSum(f, seq)
<1> DEFINE n == Len(seq)
           size(k) == seq[k].data_sz
           G == [k \in 1 .. n |-> [x \in Nat |-> x + size(k)]]
<1>1. n \in Nat /\ \A k \in 1 .. n : size(k) \in Nat
  BY DEF HasSizes
<1> HIDE DEF n, size
<1>2. G \in [1 .. n -> [Nat -> Nat]]
  BY <1>1
<1>3. PICK f \in [0 .. n -> Nat] : IsRecursion(f, n, 0, G)
  <2> HIDE DEF G
  <2>1. 0 \in Nat /\ n \in Nat
    BY <1>1
  <2> QED BY <1>2, <2>1, RecursionExists
<1>4. \A k \in 0 .. n : f[k] = IF k = 0 THEN 0 ELSE G[k][f[k - 1]]
  BY <1>3 DEF IsRecursion
<1>5. f[0] = 0
  <2> HIDE DEF G
  <2>1. 0 \in 0 .. n
    BY <1>1
  <2> QED BY <1>4, <2>1
<1>6. ASSUME NEW k \in 1 .. n PROVE f[k] = f[k - 1] + size(k)
  <2>1. k \in 0 .. n /\ k # 0 /\ k - 1 \in 0 .. n
    BY <1>1
  <2>2. f[k] = G[k][f[k - 1]]
    BY <1>4, <2>1
  <2>3. f[k - 1] \in Nat
    BY <1>3, <2>1
  <2> QED BY <2>2, <2>3
<1> QED BY <1>3, <1>5, <1>6 DEF IsSum, n, size

\* The sum of the sizes is the last of them.
LEMMA BytesAreTheSum ==
  ASSUME NEW seq, HasSizes(seq), NEW f, IsSum(f, seq)
  PROVE  BytesIn(seq) = f[Len(seq)]
<1> DEFINE n == Len(seq)
           IsBytes(g) == g = [k \in 0 .. n |-> IF k = 0 THEN 0 ELSE g[k - 1] + seq[k].data_sz]
           bytes == CHOOSE g : IsBytes(g)
<1>1. n \in Nat /\ f \in [0 .. n -> Nat] /\ f[0] = 0
      /\ \A k \in 1 .. n : f[k] = f[k - 1] + seq[k].data_sz
  BY DEF HasSizes, IsSum
<1>2. BytesIn(seq) = bytes[n]
  BY DEF BytesIn
<1> HIDE DEF n
<1>3. IsBytes(f)
  <2>1. \A k \in 0 .. n : f[k] = IF k = 0 THEN 0 ELSE f[k - 1] + seq[k].data_sz
    BY <1>1
  <2> QED BY <1>1, <2>1
<1> HIDE DEF IsBytes
<1>4. IsBytes(bytes)
  BY <1>3
<1> HIDE DEF bytes
<1>5. \A k \in 0 .. n : bytes[k] = IF k = 0 THEN 0 ELSE bytes[k - 1] + seq[k].data_sz
  BY <1>4 DEF IsBytes
<1> DEFINE P == {k \in Nat : k <= n => bytes[k] = f[k]}
<1>6. 0 \in P
  BY <1>1, <1>5
<1>7. \A k \in Nat : k \in P => k + 1 \in P
  <2> SUFFICES ASSUME NEW k \in Nat, k \in P, k + 1 <= n PROVE bytes[k + 1] = f[k + 1]
    OBVIOUS
  <2>1. k + 1 \in 0 .. n /\ k + 1 # 0 /\ (k + 1) - 1 = k /\ k + 1 \in 1 .. n /\ k <= n
    BY <1>1
  <2>2. bytes[k] = f[k]
    BY <2>1
  <2>3. bytes[k + 1] = bytes[k] + seq[k + 1].data_sz
    BY <1>5, <2>1
  <2>4. f[k + 1] = f[k] + seq[k + 1].data_sz
    BY <1>1, <2>1
  <2> QED BY <2>2, <2>3, <2>4
<1>8. n \in P
  <2> HIDE DEF P
  <2>1. Nat \subseteq P
    BY <1>6, <1>7, NatInd
  <2> QED BY <1>1, <2>1
<1> QED BY <1>1, <1>2, <1>8 DEF n

\* One packet more adds its size.
LEMMA BytesAppended ==
  ASSUME NEW R, NEW seq \in Seq(R), HasSizes(seq), NEW p \in R, p.data_sz \in Nat,
         NEW longer, longer = Append(seq, p)
  PROVE  /\ BytesIn(longer) = BytesIn(seq) + p.data_sz
         /\ BytesIn(seq) \in Nat
<1> DEFINE n == Len(seq)
<1>1. /\ n \in Nat /\ Len(longer) = n + 1 /\ longer[n + 1] = p
      /\ \A k \in 1 .. n : longer[k] = seq[k] /\ seq[k].data_sz \in Nat
  BY DEF HasSizes
<1>2. PICK f : IsSum(f, seq)
  BY SumExists
<1> DEFINE g == [k \in 0 .. n + 1 |-> IF k <= n THEN f[k] ELSE f[n] + p.data_sz]
<1>3. /\ f \in [0 .. n -> Nat] /\ f[0] = 0
      /\ \A k \in 1 .. n : f[k] = f[k - 1] + seq[k].data_sz
  BY <1>2 DEF IsSum
<1>4. BytesIn(seq) = f[n] /\ f[n] \in Nat
  BY <1>1, <1>2, <1>3, BytesAreTheSum
<1> HIDE DEF n
<1>5. HasSizes(longer)
  <2> SUFFICES ASSUME NEW k \in 1 .. n + 1 PROVE longer[k].data_sz \in Nat
    BY <1>1 DEF HasSizes
  <2>1. k \in 1 .. n \/ k = n + 1
    BY <1>1
  <2> QED BY <1>1, <2>1
<1>6. g \in [0 .. n + 1 -> Nat] /\ g[0] = 0
  <2>1. \A k \in 0 .. n + 1 : k <= n => f[k] \in Nat
    BY <1>1, <1>3
  <2>2. f[n] + p.data_sz \in Nat
    BY <1>4
  <2> QED BY <1>1, <1>3, <2>1, <2>2
<1>7. ASSUME NEW k \in 1 .. n + 1
      PROVE  g[k] = g[k - 1] + longer[k].data_sz
  <2>1. k - 1 \in 0 .. n /\ g[k - 1] = f[k - 1]
    BY <1>1
  <2>2. CASE k \in 1 .. n
    <3>1. g[k] = f[k] /\ longer[k] = seq[k]
      BY <1>1, <2>2
    <3> QED BY <1>3, <2>1, <2>2, <3>1
  <2>3. CASE k = n + 1
    <3>1. g[k] = f[n] + p.data_sz /\ k - 1 = n
      BY <1>1, <2>3
    <3> QED BY <1>1, <2>1, <2>3, <3>1
  <2> QED BY <1>1, <2>2, <2>3
<1>8. IsSum(g, longer)
  <2> HIDE DEF g
  <2> QED BY <1>1, <1>6, <1>7 DEF IsSum
<1>9. BytesIn(longer) = g[n + 1]
  <2> HIDE DEF g
  <2> QED BY <1>1, <1>5, <1>8, BytesAreTheSum
<1>10. g[n + 1] = f[n] + p.data_sz
  BY <1>1
<1> QED BY <1>4, <1>9, <1>10

\* What is packed is what is not to be packed any more; from the end of the file on,
\* it is the file.
BytesSoFar ==
  IF eof THEN BytesIn(packets) = fileSize
         ELSE BytesIn(packets) + bytesToSend = request

LEMMA VectorHasSizes ==
  ASSUME FillTypeOK
  PROVE  HasSizes(packets)
<1> DEFINE R == [type : {{}, {"DATA"}}, data_sz : 0 .. PacketSize]
<1>1. packets \in Seq(R)
  BY DEF FillTypeOK
<1>2. \A p \in R : p.data_sz \in Nat
  BY PacketSizeAssumption
<1> HIDE DEF R
<1>3. Len(packets) \in Nat /\ \A k \in 1 .. Len(packets) : packets[k] \in R
  BY <1>1
<1> QED BY <1>2, <1>3 DEF HasSizes

LEMMA InitBytes == FillInit => BytesSoFar
<1> SUFFICES ASSUME FillInit PROVE BytesSoFar
  OBVIOUS
<1>1. packets = <<>> /\ Len(packets) = 0 /\ ~eof /\ bytesToSend = request /\ request \in Nat
  BY BoundsAssumption DEF FillInit
<1>2. HasSizes(packets)
  BY <1>1 DEF HasSizes
<1>3. PICK f : IsSum(f, packets)
  BY <1>2, SumExists
<1>4. BytesIn(packets) = f[0]
  BY <1>1, <1>2, <1>3, BytesAreTheSum
<1> QED BY <1>1, <1>3, <1>4 DEF IsSum, BytesSoFar

LEMMA NextBytes ==
  ASSUME FillIInv, BytesSoFar, [FillNext]_fillVars
  PROVE  BytesSoFar'
<1> DEFINE R == [type : {{}, {"DATA"}}, data_sz : 0 .. PacketSize]
           b == BytesIn(packets)
           b2 == BytesIn(packets')
<1>1. /\ FillTypeOK /\ HasSizes(packets) /\ packets \in Seq(R)
      /\ fileSize \in Nat /\ request \in Nat /\ bytesToSend \in Nat /\ unread \in Nat
  BY VectorHasSizes, BoundsAssumption DEF FillIInv, FillTypeOK
<1>2. CASE ReadPacket
  <2> DEFINE p == [type |-> {"DATA"}, data_sz |-> DataSize]
  <2>1. /\ bytesToSend > 0 /\ ~eof /\ eof' = (Found < Wanted)
        /\ bytesToSend' = bytesToSend - Found /\ packets' = Append(packets, p)
        /\ UNCHANGED <<fileSize, request>>
    BY <1>2 DEF ReadPacket, EndsFile, DataSize
  <2>2. /\ Wanted \in 1 .. PacketSize /\ Found \in 0 .. Wanted
        /\ Found < Wanted => Found = unread
    BY <1>1, <2>1, Sizes
  <2>3. p \in R /\ p.data_sz = Found /\ Found \in Nat
    BY <2>2, PacketSizeAssumption DEF DataSize
  <2> HIDE DEF p, R
  <2>4. b2 = b + Found /\ b \in Nat
    BY <1>1, <2>1, <2>3, BytesAppended
  <2>5. b + bytesToSend = request
    BY <2>1 DEF BytesSoFar
  <2>6. fileSize + bytesToSend = unread + request
    BY <2>1 DEF FillIInv, ReadSoFar
  <2> HIDE DEF b, b2
  <2>7. CASE Found < Wanted
    <3>1. b2 = fileSize
      BY <1>1, <2>2, <2>3, <2>4, <2>5, <2>6, <2>7
    <3> QED BY <2>1, <2>7, <3>1 DEF BytesSoFar, b2
  <2>8. CASE ~(Found < Wanted)
    <3>1. b2 + (bytesToSend - Found) = request
      BY <1>1, <2>3, <2>4, <2>5
    <3> QED BY <2>1, <2>8, <3>1 DEF BytesSoFar, b2
  <2> QED BY <2>7, <2>8
<1>3. CASE EmptyPacket
  <2> DEFINE p == [type |-> {}, data_sz |-> 0]
  <2>1. eof /\ packets' = Append(packets, p) /\ UNCHANGED <<fileSize, request, eof>>
    BY <1>3 DEF EmptyPacket, NoType
  <2>2. p \in R /\ p.data_sz = 0 /\ p.data_sz \in Nat
    BY PacketSizeAssumption
  <2> HIDE DEF p, R
  <2>3. b2 = b + p.data_sz /\ b \in Nat
    BY <1>1, <2>1, <2>2, BytesAppended
  <2>4. b = fileSize
    BY <2>1 DEF BytesSoFar
  <2> HIDE DEF b, b2
  <2>5. b2 = fileSize
    BY <2>2, <2>3, <2>4
  <2> QED BY <2>1, <2>5 DEF BytesSoFar, b2
<1>4. CASE ReadNothing
  <2>1. /\ bytesToSend > 0 /\ ~eof /\ Found = 0 /\ eof' = TRUE
        /\ UNCHANGED <<fileSize, request, packets>>
    BY <1>4 DEF ReadNothing
  <2>2. unread = 0
    BY <1>1, <2>1, Sizes
  <2>3. fileSize + bytesToSend = unread + request
    BY <2>1 DEF FillIInv, ReadSoFar
  <2>4. b + bytesToSend = request
    BY <2>1 DEF BytesSoFar
  <2> HIDE DEF b
  <2>5. b \in Nat
    <3>1. PICK f : IsSum(f, packets)
      BY <1>1, SumExists
    <3>2. b = f[Len(packets)]
      BY <1>1, <3>1, BytesAreTheSum DEF b
    <3> QED BY <1>1, <3>1, <3>2 DEF IsSum, HasSizes
  <2>6. b = fileSize
    BY <1>1, <2>2, <2>3, <2>4, <2>5
  <2> QED BY <2>1, <2>6 DEF BytesSoFar, b
<1>5. CASE UNCHANGED <<fileSize, request, bytesToSend, eof, packets>>
  BY <1>5 DEF BytesSoFar
<1> QED BY <1>2, <1>3, <1>4, <1>5 DEF FillNext, Filled, fillVars

\* The vector carries as many bytes as were asked for, or as the file has when it
\* has less, for every size of packets, of files and of requests.
THEOREM RequestCarried == FillSpec => []CarriesTheRequest
<1>1. FillIInv /\ BytesSoFar => CarriesTheRequest
  <2> SUFFICES ASSUME FillIInv, BytesSoFar, fpc = "done"
               PROVE  BytesIn(packets) = Lesser(request, fileSize)
    BY DEF CarriesTheRequest
  <2> DEFINE b == BytesIn(packets)
  <2>1. /\ fileSize \in Nat /\ request \in Nat /\ unread \in Nat
        /\ eof \/ bytesToSend = 0
    BY BoundsAssumption DEF FillIInv, FillTypeOK
  <2>2. CASE eof
    <3>1. b = fileSize /\ fileSize < request
      BY <2>2 DEF BytesSoFar, FillIInv, ReadSoFar
    <3> QED BY <2>1, <3>1 DEF Lesser
  <2>3. CASE ~eof
    <3>1. bytesToSend = 0 /\ b + bytesToSend = request
          /\ fileSize + bytesToSend = unread + request
      BY <2>1, <2>3 DEF BytesSoFar, FillIInv, ReadSoFar
    <3>2. b \in Nat
      <4>1. PICK f : IsSum(f, packets)
        BY VectorHasSizes, SumExists DEF FillIInv
      <4>2. b = f[Len(packets)]
        BY <4>1, VectorHasSizes, BytesAreTheSum DEF FillIInv
      <4> QED BY <4>1, <4>2, VectorHasSizes DEF IsSum, HasSizes, FillIInv
    <3> HIDE DEF b
    <3>3. b = request /\ fileSize = unread + request
      BY <2>1, <3>1, <3>2
    <3> QED BY <2>1, <3>3 DEF Lesser, b
  <2> QED BY <2>2, <2>3
<1>2. FillIInv /\ BytesSoFar /\ [FillNext]_fillVars => BytesSoFar'
  BY NextBytes
<1> QED BY <1>1, <1>2, InitBytes, FillInvariance, PTL DEF FillSpec

==============================================================================
