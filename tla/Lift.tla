--------------------------------- MODULE Lift ---------------------------------
(***************************************************************************)
(* What one elevator promises, without goroutines, channels, sensors,      *)
(* timers or a controller that can be wrong about where the cab is: people *)
(* call, the cab goes to the calls with its door shut, and a call ends     *)
(* when the door opens at its floor.  Elevator implements it.              *)
(***************************************************************************)
EXTENDS Integers

CONSTANTS Floors, Buttons

VARIABLES
    calls,    \* the calls not yet served, <<floor, button>>
    floor,    \* the floor the cab is at or was at last
    off,      \* -1 or 1: it is below or above that floor; 0: it is there
    motion,   \* -1, 0 or 1
    door      \* is the door, that is its light, open

vars == <<calls, floor, off, motion, door>>

Toward(c, d) == (d = 1 /\ c[1] > floor) \/ (d = -1 /\ c[1] < floor)

Init ==
    /\ calls = {}
    /\ floor \in Floors
    /\ off = 0
    /\ motion = 0
    /\ door = FALSE

\* Somebody presses a button.  A lit button stays lit.
Call ==
    /\ \E c \in Floors \X Buttons : calls' = calls \cup {c}
    /\ UNCHANGED <<floor, off, motion, door>>

\* A cab at rest starts for a call.  One that rests at the floor of a call may
\* start either way: it does not yet know that it has come there.  Between
\* floors it goes on the way it was going.  The button that made it start is
\* pressed in the same step.
Depart ==
    /\ motion = 0
    /\ calls' = calls \/ \E c \in Floors \X Buttons : calls' = calls \cup {c}
    /\ motion' \in {-1, 1}
    /\ \E c \in calls' : Toward(c, motion') \/ (off = 0 /\ c[1] = floor)
    /\ off # 0 => motion' = off
    /\ door' = FALSE
    /\ UNCHANGED <<floor, off>>

\* The cab leaves a floor for a call further on, or comes to the next one.
Move ==
    /\ motion # 0 /\ ~door
    /\ \E c \in calls : Toward(c, motion)
    /\ IF off = 0
       THEN off' = motion /\ UNCHANGED floor
       ELSE off = motion /\ off' = 0 /\ floor' = floor + off
    /\ UNCHANGED <<calls, motion, door>>

\* The cab stops at a floor and opens: calls of that floor are served, all of them
\* or, as the project description asks for a hall call, only those of one direction.
Serve ==
    /\ motion # 0 /\ off = 0
    /\ \E served \in SUBSET {c \in calls : c[1] = floor} :
          served # {} /\ calls' = calls \ served
    /\ motion' = 0
    /\ door' = TRUE
    /\ UNCHANGED <<floor, off>>

\* Something is in the way: the cab stops where it is and lights the door.
Obstruct ==
    /\ motion' = 0
    /\ door' = TRUE
    /\ UNCHANGED <<calls, floor, off>>

Shut ==
    /\ motion = 0
    /\ door' = FALSE
    /\ UNCHANGED <<calls, floor, off, motion>>

Next == Call \/ Depart \/ Move \/ Serve \/ Obstruct \/ Shut

Spec == Init /\ [][Next]_vars
===============================================================================
