-------------------------------- MODULE Pipe ---------------------------------
(***************************************************************************)
(* What one direction of a connection promises its users: the bytes that   *)
(* were written come out in order, none missing, none twice and none made  *)
(* up.  A byte is known by its position in what was written.               *)
(***************************************************************************)
EXTENDS Naturals, Sequences

VARIABLES
  written,     \* how many bytes have been accepted
  delivered    \* the bytes that readers were given

Init == written = 0 /\ delivered = <<>>

Write ==
  /\ written' \in Nat /\ written' > written
  /\ UNCHANGED delivered

Read ==
  /\ \E n \in 1..(written - Len(delivered)) :
       delivered' = delivered \o [i \in 1..n |-> Len(delivered) + i]
  /\ UNCHANGED written

Next == Write \/ Read

Spec == Init /\ [][Next]_<<written, delivered>>
=============================================================================
