--------------------------------- MODULE Shaft ---------------------------------
(***************************************************************************)
(* The cab in its shaft, as a controller sees it: a motor, and a position  *)
(* that is a floor or half-way off one.  The simulator (Simulator.tla)     *)
(* implements it with timed events; Elevator.tla drives it.                *)
(***************************************************************************)
EXTENDS Integers

CONSTANT NumFloors

VARIABLES
    floor,   \* the floor the cab is at or was at last
    off,     \* the way it left that floor, 0 while it is there
    motor    \* 1 up, -1 down, 0 stopped

position == <<floor, off>>
vars     == <<floor, off, motor>>

outOfBounds == floor + off \notin 0 .. NumFloors - 1

Place ==
    /\ floor \in 0 .. NumFloors - 1
    /\ off \in {-1, 0, 1}
    /\ ~outOfBounds

Init == Place /\ motor = 0

\* Out of the shaft the motor does not listen.
SetMotor ==
    /\ ~outOfBounds
    /\ motor' \in {-1, 0, 1}
    /\ UNCHANGED position

\* The cab leaves the floor: out of the shaft too, when the motor says so.
Depart ==
    /\ off = 0
    /\ off' = motor
    /\ UNCHANGED floor

\* On to the next floor, or back to the one it left.
Arrive ==
    /\ off # 0
    /\ floor' = IF off = motor THEN floor + motor ELSE floor
    /\ off' = 0

Move ==
    /\ motor # 0
    /\ ~outOfBounds
    /\ Depart \/ Arrive

\* Somebody puts the cab back where it left the shaft.
MoveInbounds ==
    /\ outOfBounds
    /\ off' = 0
    /\ motor' = 0
    /\ UNCHANGED floor

Next == SetMotor \/ (Move /\ UNCHANGED motor) \/ MoveInbounds

Safety == Init /\ [][Next]_vars

\* A cab whose motor runs long enough one way gets on.
MotorWorks ==
    \A d \in {-1, 1} : WF_vars(motor = d /\ Move /\ UNCHANGED motor)

Spec == Safety /\ MotorWorks
================================================================================
