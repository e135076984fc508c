----------------------------- MODULE MCReplayAuth -----------------------------
(* Small instances of ReplayAuth for TLC. *)
EXTENDS ReplayAuth, TLC

MCClientTimes == {1, 3}
MCOffsets == {0, 2}
Symmetric == Permutations(Handlers) \cup Permutations(Nonces)
=============================================================================
