--------------------------- MODULE MatchSequence ---------------------------
(* What the dedicated server promises about playing several matches in one  *)
(* process: matches follow each other, and the players of a match are those *)
(* who left the match before it, none lost and none added on the way. A move*)
(* may be called off, and then begins anew with the players of that moment. *)
(* The alternative is to give the process up, at the arrival at the latest. *)
EXTENDS Integers

CONSTANT Players

VARIABLES
    phase,      \* "open" (players come and go), "moving" or "over"
    match,      \* the number of the match
    here,       \* the players connected
    departed    \* the players connected when the move began

vars == <<phase, match, here, departed>>

Init ==
    /\ phase = "open"
    /\ match = 1
    /\ here = {}
    /\ departed = {}

Come ==
    /\ phase # "moving"
    /\ \E p \in Players \ here : here' = here \cup {p}
    /\ UNCHANGED <<phase, match, departed>>

(* Somebody goes, or a hard travel of the engine drops everybody.           *)
Go ==
    /\ \E gone \in SUBSET here : here' = here \ gone
    /\ UNCHANGED <<phase, match, departed>>

Depart ==
    /\ phase = "open"
    /\ phase' = "moving"
    /\ departed' = here
    /\ UNCHANGED <<match, here>>

(* Nobody comes while moving, so the same set means the same connections.   *)
Arrive ==
    /\ phase = "moving"
    /\ here = departed
    /\ phase' = "open"
    /\ match' = match + 1
    /\ departed' = {}
    /\ UNCHANGED here

(* On the tick of the timeout the match is counted and then given up.       *)
ArriveTooLate ==
    /\ phase = "moving"
    /\ here = departed
    /\ phase' = "over"
    /\ match' = match + 1
    /\ departed' = {}
    /\ UNCHANGED here

(* The end of the match that is left is reported once more.                 *)
Reopen ==
    /\ phase = "moving"
    /\ phase' = "open"
    /\ UNCHANGED <<match, here, departed>>

GiveUp ==
    /\ phase # "over"
    /\ phase' = "over"
    /\ departed' \in {departed, here}
    /\ UNCHANGED <<match, here>>

Next == Come \/ Go \/ Depart \/ Arrive \/ ArriveTooLate \/ Reopen \/ GiveUp

Spec == Init /\ [][Next]_vars
=============================================================================
