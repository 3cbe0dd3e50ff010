------------------------------ MODULE MCTransfer ------------------------------
(* Instances of ReliableTransfer for TLC. *)
EXTENDS ReliableTransfer

AllData == 0 .. N-1

==============================================================================
