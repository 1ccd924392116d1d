------------------------------ MODULE MCElevator ------------------------------
(* Small instances of Elevator for TLC. *)
EXTENDS Elevator

\* The cab starts where the controller assumes it is.
AtFloorZero == {<<0, DIR_Stop>>}

\* The simulator's random start (sim_server.d:241-252).
AnyStart == {p \in Floors \X Dirs : p[1] + p[2] \in Floors}

BetweenFloors == {p \in AnyStart : p[2] # DIR_Stop}

\* The buttons the panel has: none up from the top or down from the bottom
\* (sim_server.d:556-559).
Panel == Orders \ {<<NumFloors - 1, "HallUp">>, <<0, "HallDown">>}

NoOrders == {}

\* Orders of an assigner: the ends of the range and outside it.
AssignerOrders == {<<-1, "Cab">>, <<0, "HallUp">>, <<1, "HallDown">>,
                   <<NumFloors, "HallUp">>}

\* Every kind of call, and work on both sides of floor 1.
SomeButtons == {<<0, "Cab">>, <<1, "Cab">>, <<1, "HallUp">>, <<1, "HallDown">>,
                <<2, "HallDown">>, <<NumFloors - 1, "HallDown">>}

OneCall == {<<0, "Cab">>}

BothWays == BOOLEAN
Released == {FALSE}
===============================================================================
