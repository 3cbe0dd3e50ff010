-------------------------------- MODULE Sender --------------------------------
(***************************************************************************)
(* reliable_sender (mp2/src/sender_main.cpp): the loop of                  *)
(* reliablyTransfer() with its congestion control, then finish_transfer()  *)
(* and the end of the process.                                             *)
(*                                                                         *)
(* The window cw (a long double) and the threshold SST (a double) are kept *)
(* in units of 1/Scale of a packet, halved with truncation.  Between two   *)
(* timeouts a new acknowledgement halves the window at most once, so       *)
(* halving is exact when Scale is a multiple of 2^(N+1).                   *)
(***************************************************************************)
EXTENDS Datagrams, Integers, Sequences

CONSTANTS
  Scale,     \* units per packet of cw and SST
  MaxCw      \* bound: fast recovery never grows cw above MaxCw packets

ASSUME ScaleAssumption == Scale \in Nat \ {0}
ASSUME MaxCwAssumption == MaxCw \in Nat

VARIABLES
  spc,             \* where the sender is (see SenderPlaces)
  cw_base,         \* the first packet of the window
  last_ack,        \* the highest acknowledgement seen
  cw,              \* the size of the window, in 1/Scale packets
  SST,             \* the slow start threshold, in 1/Scale packets
  dupAck,          \* duplicates of last_ack
  state,           \* "SS", "CA" or "FR"
  max_sent,        \* the index the next transmissions start from
  specialResends,  \* packets to send again
  finTries,        \* `i` of finish_transfer()
  sentUpTo         \* history: one more than the highest index ever sent

congestionVars == <<cw_base, last_ack, cw, SST, dupAck, state, max_sent,
                    specialResends>>
senderVars == <<spc, congestionVars, finTries, sentUpTo>>

DUP_ACK_LIMIT == 3
InLoop == {"send", "recv"}
SenderPlaces == InLoop \cup {"fin", "finrecv", "close", "exited", "crashed"}

\* Mutants of LoopTest: the loop ends one packet early, or one too late.
LoopTestEarly(base) == IF base + 1 < N THEN "send" ELSE "fin"
LoopTestLate(base) == IF base <= N THEN "send" ELSE "fin"

\* Where the loop test `cw_base < packets.size()` leads.
LoopTest(base) == IF base < N THEN "send" ELSE "fin"

SenderInit ==
  /\ spc = LoopTest(0)
  /\ cw_base = 0
  /\ last_ack = 0
  /\ cw = Scale
  /\ SST = 64 * Scale
  /\ dupAck = 0
  /\ state = "SS"
  /\ max_sent = 0
  /\ specialResends = <<>>
  /\ finTries = 0
  /\ sentUpTo = 0

------------------------------------------------------------------------------
(***************************************************************************)
(* Transmissions, at the head of the loop.                                 *)
(***************************************************************************)
Larger(a, b) == IF a >= b THEN a ELSE b
Smaller(a, b) == IF a <= b THEN a ELSE b

\* Mutant of WindowEnd: the window does not slide with cw_base.
WindowEndFixed == Smaller((cw + Scale - 1) \div Scale, N)

\* The least index i for which i < cw_base + cw && i < packets.size() fails.
WindowEnd == Smaller(cw_base + (cw + Scale - 1) \div Scale, N)

\* The for loop starts at max_sent, not after it, and leaves in max_sent the
\* last index it sent; then every special resend goes out.
SendWindow ==
  /\ spc = "send"
  /\ LET sent == max_sent .. WindowEnd - 1
         resent == {specialResends[k] : k \in DOMAIN specialResends}
     IN /\ toReceiver' = toReceiver \cup {VectorPacket(i) : i \in sent \cup resent}
        /\ sentUpTo' = IF sent = {} THEN sentUpTo ELSE Larger(sentUpTo, WindowEnd)
  /\ max_sent' = Larger(max_sent, WindowEnd - 1)
  /\ specialResends' = <<>>
  /\ spc' = "recv"
  /\ UNCHANGED <<toSender, cw_base, last_ack, cw, SST, dupAck, state, finTries>>

------------------------------------------------------------------------------
(***************************************************************************)
(* The state machine on a reply.  Each of these actions follows the lines  *)
(* that raise last_ack and cw_base, so they read cw_base'.                 *)
(***************************************************************************)
Acked(seqno) == Larger(last_ack, seqno)

\* The end of case SS: slow start ends when cw reaches SST.
LeaveSlowStart(window, threshold) ==
  IF state = "SS" /\ window >= threshold THEN "CA" ELSE state

\* The statement after case FR, which only that case reaches.
ShrinkMaxSent(base, window) ==
  IF base * Scale + window <= max_sent * Scale
  THEN (base * Scale + window - Scale) \div Scale
  ELSE max_sent

\* The branch `if (timeout)` of every case.
OnTimeout ==
  /\ SST' = cw \div 2
  /\ cw' = Scale
  /\ dupAck' = 0
  /\ specialResends' = Append(specialResends, cw_base')
  /\ max_sent' = cw_base'
  /\ state' = IF state = "SS" THEN LeaveSlowStart(cw', SST') ELSE "SS"

\* Mutant of RecoveryWindow: the three packets that left are not added.
RecoveryWindowBare(threshold) == threshold

\* The window with which fast recovery starts.
RecoveryWindow(threshold) == threshold + 3 * Scale

\* A duplicate in SS or CA; the third one starts fast recovery.
OnDuplicate ==
  /\ state # "FR"
  /\ dupAck' = dupAck + 1
  /\ IF dupAck' = DUP_ACK_LIMIT
     THEN /\ SST' = cw \div 2
          /\ cw' = RecoveryWindow(SST')
          /\ specialResends' = Append(specialResends, cw_base')
          /\ state' = "FR"
     ELSE /\ state' = LeaveSlowStart(cw, SST)
          /\ UNCHANGED <<SST, cw, specialResends>>
  /\ UNCHANGED max_sent

\* A duplicate in FR inflates the window by one packet.
OnDuplicateInRecovery ==
  /\ state = "FR"
  /\ cw + Scale <= MaxCw * Scale
  /\ cw' = cw + Scale
  /\ max_sent' = ShrinkMaxSent(cw_base', cw')
  /\ UNCHANGED <<SST, dupAck, state, specialResends>>

\* A new acknowledgement in SS or CA.  Both cases grow the window by the
\* difference of seqno and last_ack, but last_ack was raised to seqno before
\* the switch: slow start adds 0, and the loop of CA runs 0 times.
OnNewAck(seqno) ==
  /\ state # "FR"
  /\ cw' = IF state = "SS" THEN cw + (seqno - last_ack') * Scale ELSE cw
  /\ dupAck' = 0
  /\ state' = LeaveSlowStart(cw', SST)
  /\ UNCHANGED <<SST, max_sent, specialResends>>

\* A new acknowledgement ends fast recovery.
OnNewAckInRecovery ==
  /\ state = "FR"
  /\ cw' = SST
  /\ dupAck' = 0
  /\ state' = "CA"
  /\ max_sent' = ShrinkMaxSent(cw_base', cw')
  /\ UNCHANGED <<SST, specialResends>>

\* A reordered acknowledgement: only what follows the branches applies.
OnOldAck ==
  /\ state' = LeaveSlowStart(cw, SST)
  /\ max_sent' = IF state = "FR" THEN ShrinkMaxSent(cw_base', cw) ELSE max_sent
  /\ UNCHANGED <<cw, SST, dupAck, specialResends>>

\* The rest of an iteration once recv() returned.
Handle(seqno, timeout) ==
  /\ last_ack' = Acked(seqno)
  /\ cw_base' = Acked(seqno)
  /\ spc' = LoopTest(Acked(seqno))
  /\ \/ timeout /\ OnTimeout
     \/ ~timeout /\ seqno = last_ack /\ OnDuplicate
     \/ ~timeout /\ seqno = last_ack /\ OnDuplicateInRecovery
     \/ ~timeout /\ seqno > last_ack /\ OnNewAck(seqno)
     \/ ~timeout /\ seqno > last_ack /\ OnNewAckInRecovery
     \/ ~timeout /\ seqno < last_ack /\ OnOldAck
  /\ UNCHANGED <<finTries, sentUpTo>>

\* recv() gives up after TIMEOUT_USEC: the packet it was to fill has seqno 0.
ReceiveTimeout ==
  /\ spc = "recv"
  /\ Handle(0, TRUE)
  /\ UNCHANGED channels

\* recv() returns packet p.  `late`: more than TIMEOUT_USEC went by since the
\* timer was last reset, which counts as a timeout but keeps the packet's
\* acknowledgement and does not look for a FIN.
ReceiveReply(p, late) ==
  /\ spc = "recv"
  /\ p \in toSender
  /\ toSender' \in AfterDelivery(toSender, p)
  /\ UNCHANGED toReceiver
  /\ IF ~late /\ HasType(p, "FIN")
     THEN /\ spc' = "fin"
          /\ UNCHANGED <<congestionVars, finTries, sentUpTo>>
     ELSE Handle(p.seqno, late)

------------------------------------------------------------------------------
(***************************************************************************)
(* finish_transfer(): at most three FINs, each followed by one recv(),     *)
(* which any packet satisfies.  Then fclose(fp), whose fp is still NULL    *)
(* (the file is in the local variable `file`): undefined behaviour.        *)
(***************************************************************************)
SendFin ==
  /\ spc = "fin"
  /\ toReceiver' = toReceiver \cup {FinPacket}
  /\ spc' = "finrecv"
  /\ UNCHANGED <<toSender, congestionVars, finTries, sentUpTo>>

FinAnswered(p) ==
  /\ spc = "finrecv"
  /\ p \in toSender
  /\ toSender' \in AfterDelivery(toSender, p)
  /\ spc' = "close"
  /\ UNCHANGED <<toReceiver, congestionVars, finTries, sentUpTo>>

\* Mutant of FinRetry: one try too many.
FinRetryOneMore(tries) == tries <= 3

FinRetry(tries) == tries < 3

FinTimeout ==
  /\ spc = "finrecv"
  /\ finTries' = finTries + 1
  /\ spc' = IF FinRetry(finTries') THEN "fin" ELSE "close"
  /\ UNCHANGED <<channels, congestionVars, sentUpTo>>

CloseFile ==
  /\ spc = "close"
  /\ spc' \in {"exited", "crashed"}
  /\ UNCHANGED <<channels, congestionVars, finTries, sentUpTo>>

==============================================================================
