------------------------ MODULE MCCommandFramework ------------------------
(* Small instances of CommandFramework for TLC.                              *)
EXTENDS CommandFramework
=============================================================================
