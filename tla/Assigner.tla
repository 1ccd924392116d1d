-------------------------------- MODULE Assigner --------------------------------
(***************************************************************************)
(* The deterministic order assigners of a fleet (heis/                     *)
(* det_order_assigner.go): every elevator hears of every hall order and    *)
(* computes from its own view of the fleet who shall take it; the one that *)
(* finds itself passes the order to its controller.                        *)
(*                                                                         *)
(* The view is the state manager's own map and not a copy (state_manager.go*)
(* :147), which goes on changing while the assigner ranges over it.  Go    *)
(* ranges over a map in any order, skips what has been removed, and may    *)
(* skip or produce what has been added.  (Its runtime may also notice the  *)
(* race and stop the program, which ends the assigner.)                    *)
(***************************************************************************)
EXTENDS Integers, Cost

CONSTANTS
    Node,         \* the elevators' IDs
    NumFloors,
    Known,        \* the states an elevator may be known with
    HallFloors,   \* the floors hall orders come from
    OrderChCap,   \* capacity of orderTxCh
    MaxChanges    \* bound: how often views change

\* Three orders a floor, 2 points each, never outweigh the 100 of a floor.
ASSUME AssignerAssumption ==
    /\ Node \subseteq Nat
    /\ NumFloors \in 1 .. 11
    /\ Known \subseteq [floor : 0 .. NumFloors - 1, direction : {-1, 0, 1},
                        orders : 0 .. 3 * NumFloors]
    /\ HallFloors \subseteq 0 .. NumFloors - 1
    /\ OrderChCap \in Nat
    /\ MaxChanges \in Nat

MaxInt32 == 2147483647
Nobody   == -1
Views    == UNION {[S -> Known] : S \in SUBSET Node}

VARIABLES
    view,      \* [n]: knownElevators, as n's assigner has it
    call,      \* [n]: the floor of the order that n's assigner works on
    todo,      \* [n]: the elevators in the map when n began to range over it
    seen,      \* [n]: the states it has come upon so far, or came upon last
    best,      \* [n]: bestElevID
    bestCost,  \* [n]: bestCost
    result,    \* [n]: who n says shall take its last order, or Nobody
    orderCh,   \* [n]: how many orders lie in orderTxCh
    changes    \* how often views have changed

loop == <<call, todo, seen, best, bestCost>>
vars == <<view, loop, result, orderCh, changes>>

Busy == {n \in Node : call[n] # Nobody /\ result[n] = Nobody}

TypeOK ==
    /\ view \in [Node -> Views]
    /\ call \in [Node -> HallFloors \cup {Nobody}]
    /\ todo \in [Node -> SUBSET Node]
    /\ seen \in [Node -> Views]
    /\ best \in [Node -> Node \cup {Nobody}]
    /\ bestCost \in [Node -> Int]
    /\ result \in [Node -> Node \cup {Nobody}]
    /\ orderCh \in [Node -> 0 .. OrderChCap]
    /\ changes \in 0 .. MaxChanges

nothing == [m \in {} |-> [floor |-> 0, direction |-> 0, orders |-> 0]]

Init ==
    /\ view = [n \in Node |-> nothing]
    /\ call = [n \in Node |-> Nobody]
    /\ todo = [n \in Node |-> {}]
    /\ seen = [n \in Node |-> nothing]
    /\ best = [n \in Node |-> Nobody]
    /\ bestCost = [n \in Node |-> MaxInt32]
    /\ result = [n \in Node |-> Nobody]
    /\ orderCh = [n \in Node |-> 0]
    /\ changes = 0

-----------------------------------------------------------------------------
(* The assigner of elevator n *)

\* A hall order comes in, and n begins to range over its map.
OnNewHallOrder(n) ==
    /\ n \notin Busy
    /\ \E f \in HallFloors : call' = [call EXCEPT ![n] = f]
    /\ todo' = [todo EXCEPT ![n] = DOMAIN view[n]]
    /\ seen' = [seen EXCEPT ![n] = nothing]
    /\ best' = [best EXCEPT ![n] = Nobody]
    /\ bestCost' = [bestCost EXCEPT ![n] = MaxInt32]
    /\ result' = [result EXCEPT ![n] = Nobody]
    /\ UNCHANGED <<view, orderCh, changes>>

\* Mutant: the first of equals wins.
betterFirst(n, m, cost) == cost < bestCost[n]

\* Elevator m at that cost is better than the best so far.
better(n, m, cost) ==
    \/ cost < bestCost[n]
    \/ cost = bestCost[n] /\ m < best[n]

\* The range statement produces elevator m.
Visit(n, m) ==
    /\ n \in Busy
    /\ m \in DOMAIN view[n] \ DOMAIN seen[n]
    /\ seen' = [seen EXCEPT ![n] =
          [k \in DOMAIN @ \cup {m} |-> IF k = m THEN view[n][m] ELSE @[k]]]
    /\ LET cost == calculateCost(call[n], view[n][m])
       IN  IF better(n, m, cost)
           THEN /\ best' = [best EXCEPT ![n] = m]
                /\ bestCost' = [bestCost EXCEPT ![n] = cost]
           ELSE UNCHANGED <<best, bestCost>>
    /\ UNCHANGED <<view, call, todo, result, orderCh, changes>>

\* It has produced all that was in the map and still is.  With no elevator
\* known n takes the order itself; its own orders go to the controller, unless
\* the channel is full.
Assign(n) ==
    /\ n \in Busy
    /\ (todo[n] \cap DOMAIN view[n]) \subseteq DOMAIN seen[n]
    /\ LET assigned == IF best[n] = Nobody THEN n ELSE best[n]
       IN  /\ result' = [result EXCEPT ![n] = assigned]
           /\ orderCh' = IF assigned = n /\ orderCh[n] < OrderChCap
                         THEN [orderCh EXCEPT ![n] = @ + 1] ELSE orderCh
    /\ UNCHANGED <<view, loop, changes>>

\* The controller takes an order.
TakeOrder(n) ==
    /\ orderCh[n] > 0
    /\ orderCh' = [orderCh EXCEPT ![n] = @ - 1]
    /\ UNCHANGED <<view, loop, result, changes>>

\* The state manager changes the map, also while n ranges over it.
ViewChanges(n) ==
    /\ changes < MaxChanges
    /\ changes' = changes + 1
    /\ \E v \in Views : view' = [view EXCEPT ![n] = v]
    /\ UNCHANGED <<loop, result, orderCh>>

Next ==
    \E n \in Node :
        \/ OnNewHallOrder(n) \/ Assign(n) \/ TakeOrder(n) \/ ViewChanges(n)
        \/ \E m \in Node : Visit(n, m)

Spec == Init /\ [][Next]_vars

-----------------------------------------------------------------------------
(* Properties *)

Done(n) == call[n] # Nobody /\ result[n] # Nobody

\* The same algorithm on the same state gives the same result, if there is an
\* elevator in the state (with none every assigner names itself), and in
\* whatever order the maps were ranged over and changed meanwhile.
SameSeenSameResult ==
    \A n, m \in Node :
        /\ Done(n) /\ Done(m)
        /\ call[n] = call[m]
        /\ seen[n] = seen[m]
        /\ DOMAIN seen[n] # {}
        => result[n] = result[m]

\* det_order_assigner.go:111: hall calls go to the nearest elevator: queues and
\* directions only decide between elevators that are as near.
NearestTakesIt ==
    \A n \in Node : Done(n) =>
        \A m \in DOMAIN seen[n] :
            /\ result[n] \in DOMAIN seen[n]
            /\ distance(call[n], seen[n][result[n]]) <= distance(call[n], seen[n][m])
================================================================================
