-------------------------- MODULE MCRelayMigration --------------------------
(* Small instances of RelayMigration for TLC.                                *)
EXTENDS RelayMigration, TLC

Interchangeable == Permutations(Nodes) \cup Permutations(Conns)

=============================================================================
