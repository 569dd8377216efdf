----------------------------- MODULE MCRelayNode -----------------------------
(* Small instances of RelayNode for TLC.                                      *)
EXTENDS RelayNode, TLC

Interchangeable == Permutations(Admins) \cup Permutations(Slots)

=============================================================================
