------------------------------ MODULE MCLimiter ------------------------------
(* Small instances of Limiter for TLC. *)
EXTENDS Limiter, TLC

Symmetric == Permutations(Requests) \cup Permutations(IPs)
=============================================================================
