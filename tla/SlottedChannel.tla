---------------------------- MODULE SlottedChannel ----------------------------
(***************************************************************************)
(* What the CSMA simulator promises of the shared channel: at any time it  *)
(* is idle or belongs to one node, and a packet occupies a fixed number of *)
(* consecutive slots, which its node neither cuts short nor gives away.    *)
(***************************************************************************)
EXTENDS Integers

CONSTANT Nobody    \* the owner of an idle channel, no number of a node

VARIABLES
  slots,     \* the slots a packet takes
  owner,     \* the node whose packet is on the channel, or Nobody
  left,      \* the slots its packet still needs
  carried    \* the slots in which a packet was on the channel

vars == <<slots, owner, left, carried>>

Init ==
  /\ slots \in Nat
  /\ owner = Nobody
  /\ left = 0
  /\ carried = 0

\* The first slot of a packet, which is the only one of short packets.
Start ==
  /\ owner = Nobody
  /\ left' = slots - 1
  /\ owner' \in IF left' > 0 THEN Nat ELSE {Nobody}
  /\ carried' = carried + 1
  /\ UNCHANGED slots

\* A further slot; after the last one the channel is idle again.
Continue ==
  /\ owner # Nobody
  /\ left > 0
  /\ left' = left - 1
  /\ owner' = IF left' = 0 THEN Nobody ELSE owner
  /\ carried' = carried + 1
  /\ UNCHANGED slots

Next == Start \/ Continue

Spec == Init /\ [][Next]_vars

==============================================================================
