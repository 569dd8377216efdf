----------------------------- MODULE FrozenSeats -----------------------------
(* What strict admission promises about the seats of a frozen roster: a seat *)
(* is held by one connection, by the leave of one generation that has been   *)
(* issued for it, and every connection needs a later generation than all     *)
(* those that have held the seat before.                                     *)
EXTENDS Integers

CONSTANT Players

VARIABLES
    issued,     \* the latest generation issued for the seat of a player
    admitted,   \* the generations that have been let in
    holder      \* the generation that holds the seat, 0 when nobody does

vars == <<issued, admitted, holder>>

Init ==
    /\ issued = [p \in Players |-> 1]
    /\ admitted = [p \in Players |-> {}]
    /\ holder = [p \in Players |-> 0]

Issue ==
    /\ issued' \in [Players -> Nat]
    /\ \A p \in Players : issued'[p] >= issued[p]
    /\ UNCHANGED <<admitted, holder>>

Admit(p) ==
    \E g \in 1..issued[p] :
        /\ \A old \in admitted[p] : old < g
        /\ admitted' = [admitted EXCEPT ![p] = @ \cup {g}]
        /\ holder' = [holder EXCEPT ![p] = g]
        /\ UNCHANGED issued

Release ==
    /\ \A p \in Players : holder'[p] \in {0, holder[p]}
    /\ UNCHANGED <<issued, admitted>>

Next == Issue \/ Release \/ \E p \in Players : Admit(p)

Spec == Init /\ [][Next]_vars
=============================================================================
