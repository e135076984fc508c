-------------------------------- MODULE Slots --------------------------------
(***************************************************************************)
(* What a semaphore promises the requests that share it: one slot per      *)
(* holder, never more holders than slots, and no slot lost or given back   *)
(* twice.  Limiter grants the slots and H3Server gives them back; each     *)
(* implements this module from its own side.                               *)
(***************************************************************************)
EXTENDS Naturals

CONSTANTS Users, Capacity

VARIABLES
  used,      \* elements in the channel
  holders    \* who holds one

Init == used = 0 /\ holders = {}

Take(u) ==
  /\ u \notin holders /\ used < Capacity
  /\ used' = used + 1 /\ holders' = holders \cup {u}

Give(u) ==
  /\ u \in holders
  /\ used' = used - 1 /\ holders' = holders \ {u}

Next == \E u \in Users : Take(u) \/ Give(u)

Spec == Init /\ [][Next]_<<used, holders>>
=============================================================================
