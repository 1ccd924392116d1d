--------------------------------- MODULE Fleet ---------------------------------
(***************************************************************************)
(* The state managers of a fleet and the assigners that decide from their  *)
(* maps (heis/state_manager.go, det_order_assigner.go): who would be named *)
(* for a hall order at any moment, compared with who should be.            *)
(*                                                                         *)
(* An assigner keeps nothing of its own but the map it was handed, so whom *)
(* it names is a function of its manager's state.  That its loop over the  *)
(* map finds the least of it is what Assigner and its proofs are about.    *)
(***************************************************************************)
EXTENDS StateManager, Cost, FiniteSets

CONSTANT HallFloors     \* the floors hall orders come from

\* What calculateCost looks at.
measured(update) ==
    [floor |-> update.floor, direction |-> update.direction,
     orders |-> Cardinality(update.orders)]

\* The map as the assigner of n has it: what is published is the map itself.
view(n) ==
    [m \in DOMAIN knownElevators[n] |-> measured(knownElevators[n][m].state)]

\* Whom n's assigner names for a hall order from floor f.
assignOrderDeterministic(n, f) ==
    IF DOMAIN view(n) = {} THEN n ELSE CHOOSE m \in Node : Least(m, f, view(n))

\* Who should be named: the least of those that run, as they are.
bestOf(f) ==
    LET truth == [m \in up |-> measured(myState[m])]
    IN  CHOOSE m \in up : Least(m, f, truth)

-----------------------------------------------------------------------------
(* Properties *)

\* Once nobody reports, crashes or restarts any more, all who run come to name
\* the same elevator for every hall order, and it is the right one: one that
\* runs, and the least by what the elevators are and not by what was heard.
\* Until then each has its own view, and an order may go to two or to none.
RightOnceQuiet ==
    <>[][UNCHANGED <<up, myState>>]_vars =>
        <>[](\A n \in up, f \in HallFloors :
                assignOrderDeterministic(n, f) = bestOf(f))
================================================================================
