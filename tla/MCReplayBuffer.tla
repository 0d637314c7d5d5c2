--------------------------- MODULE MCReplayBuffer ---------------------------
(* Small instance of ReplayBuffer: a ring of 3 slots that wraps twice. *)
EXTENDS ReplayBuffer

CONSTANTS p1, p2

MCPatches == {p1, p2}
=============================================================================
