----------------------------- MODULE FileTransfer -----------------------------
(***************************************************************************)
(* What reliablyTransfer() and reliablyReceive() promise together: the     *)
(* destination file grows by the packets 0, 1, 2, ... in order, the sender *)
(* stops transmitting only when the file is whole, and the receiver closes *)
(* the file only after that.                                               *)
(***************************************************************************)
EXTENDS Naturals, Sequences

CONSTANT N       \* the number of packets of the file

VARIABLES
  file,          \* the packets in the destination file
  sending,       \* the sender still transmits
  receiving      \* the receiver still has the file open

vars == <<file, sending, receiving>>

Init ==
  /\ file = <<>>
  /\ sending = (0 < N)
  /\ receiving = TRUE

\* The file grows by one packet or more.
Write ==
  /\ receiving
  /\ \E m \in Len(file) + 1 .. N :
       file' = [k \in 1 .. m |-> IF k <= Len(file) THEN file[k] ELSE k - 1]
  /\ UNCHANGED <<sending, receiving>>

StopSending ==
  /\ sending
  /\ Len(file) = N
  /\ sending' = FALSE
  /\ UNCHANGED <<file, receiving>>

StopReceiving ==
  /\ receiving
  /\ ~sending
  /\ Len(file) = N
  /\ receiving' = FALSE
  /\ UNCHANGED <<file, sending>>

Next == Write \/ StopSending \/ StopReceiving

Spec == Init /\ [][Next]_vars

==============================================================================
