---------------------------------- MODULE Cost ----------------------------------
(***************************************************************************)
(* What a hall order costs an elevator (heis/det_order_assigner.go), and   *)
(* who is to take it: the measure that every assigner of a fleet applies.  *)
(* An elevator's state is a record of its floor, its direction (1, 0, -1)  *)
(* and how many orders it has.                                             *)
(***************************************************************************)
EXTENDS Integers

abs(x) == IF x < 0 THEN -x ELSE x

distance(f, s) == abs(s.floor - f)

\* Does a cab in state s move away from floor f; does it move toward it.
awayFrom(f, s) == \/ s.direction = 1 /\ f < s.floor
                  \/ s.direction = -1 /\ f > s.floor
towards(f, s)  == \/ s.direction = 1 /\ f > s.floor
                  \/ s.direction = -1 /\ f < s.floor

\* Mutant: a heavier queue.
calculateCostHeavy(f, s) ==
    IF distance(f, s) = 0 /\ s.direction = 0 THEN 0
    ELSE distance(f, s) * 100 + s.orders * 20

calculateCost(f, s) ==
    IF distance(f, s) = 0 /\ s.direction = 0
    THEN 0
    ELSE distance(f, s) * 100 + s.orders * 2
         + (IF s.orders > 2 /\ awayFrom(f, s) THEN 20 ELSE 0)
         - (IF towards(f, s) THEN 10 ELSE 0)

\* Elevator b is the least of view v for a call from floor f: by cost, then by ID.
Least(b, f, v) ==
    /\ b \in DOMAIN v
    /\ \A m \in DOMAIN v :
          \/ calculateCost(f, v[b]) < calculateCost(f, v[m])
          \/ calculateCost(f, v[b]) = calculateCost(f, v[m]) /\ b <= m
================================================================================
