--------------------------- MODULE MCStrictRoster ---------------------------
(* Two players, one of each team; p1 owns the lobby and hosts a P2P match.   *)
EXTENDS StrictRoster

CONSTANTS p1, p2
=============================================================================
