---------------------------- MODULE MCOrderAssigner ----------------------------
(* A small instance of OrderAssigner for TLC. *)
EXTENDS OrderAssigner

\* Below, moving away from the middle, and on top.
SomeStates == {[Floor |-> 0, Direction |-> 0], [Floor |-> 1, Direction |-> 1],
               [Floor |-> 2, Direction |-> 0]}

TwoOrders == {<<0, "HallUp">>, <<1, "HallDown">>}
================================================================================
