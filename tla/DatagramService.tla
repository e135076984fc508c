--------------------------- MODULE DatagramService ---------------------------
(***************************************************************************)
(* What the UDP relay promises one direction of a session: a packet that   *)
(* was accepted for sending is handed over at most once, whole and         *)
(* unchanged, in any order, or not at all.                                 *)
(***************************************************************************)
EXTENDS Sequences

CONSTANT Data           \* packet contents, all different

VARIABLES
  sent,                 \* packets accepted for sending
  delivered             \* packets handed over, in order

Init == sent = {} /\ delivered = <<>>

Send ==
  /\ \E p \in Data \ sent : sent' = sent \cup {p}
  /\ UNCHANGED delivered

Deliver ==
  /\ \E p \in sent \ {delivered[i] : i \in DOMAIN delivered} : delivered' = Append(delivered, p)
  /\ UNCHANGED sent

Next == Send \/ Deliver

Spec == Init /\ [][Next]_<<sent, delivered>>
=============================================================================
