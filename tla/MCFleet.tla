-------------------------------- MODULE MCFleet --------------------------------
(* Two elevators for TLC. *)
EXTENDS Fleet

\* One that loses up to two broadcasts in a row, one that delays them so that
\* they overtake each other.
LossyOrLate == {[loss |-> 2, delay |-> 0], [loss |-> 0, delay |-> 1]}

Idle == [floor |-> 0, direction |-> 0, orders |-> {}]

\* Idle at the bottom, or going down from the top with a hall and a cab order:
\* for a call at floor 2 they are in different places.
Reports == {Idle, [floor |-> 2, direction |-> -1,
                   orders |-> {<<1, "HallDown">>, <<0, "Cab">>}]}
================================================================================
