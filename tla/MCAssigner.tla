------------------------------- MODULE MCAssigner -------------------------------
(* Two elevators for TLC. *)
EXTENDS Assigner

\* For a call from floor 1: there, but busy; on its way; moving away.
SomeStates ==
    {[floor |-> 1, direction |-> -1, orders |-> 12],
     [floor |-> 0, direction |-> 1, orders |-> 0],
     [floor |-> 2, direction |-> 1, orders |-> 3]}
================================================================================
