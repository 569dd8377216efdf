---------------------------- MODULE MCMultiMatch ----------------------------
(* Small instances of MultiMatch for TLC.                                    *)
EXTENDS MultiMatch

CONSTANTS m1, m2, m3

ThreeMaps == <<m1, m2, m3>>

=============================================================================
