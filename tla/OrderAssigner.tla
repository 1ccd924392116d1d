----------------------------- MODULE OrderAssigner -----------------------------
(***************************************************************************)
(* The order assigner of one elevator (heis/orderassigner/orderassigner.go)*)
(* and its two channels to the controller: it sends the hall orders that   *)
(* are best served by its own elevator, and waits while the channel is     *)
(* full; it reads the controller's state updates, whose sender does not    *)
(* wait.  Orders that another elevator serves better stay pending, and are *)
(* looked at again whenever a state changes.                               *)
(*                                                                         *)
(* UpdateOtherElevatorState and MarkElevatorDead have no caller yet; the   *)
(* model calls them while Run waits in its select.                         *)
(***************************************************************************)
EXTENDS Integers, Sequences, SequencesExt, FiniteSets

CONSTANTS
    numFloors,
    Others,       \* the IDs of the other elevators
    States,       \* the positions that elevators report, [Floor, Direction]
    HallOrders,   \* the hall orders that come in, <<floor, button>>
    OrderChCap,   \* capacity of orderCh
    StateChCap,   \* capacity of myStateCh
    MaxOrders     \* bound: how many hall orders come in

ASSUME OrderAssignerAssumption ==
    /\ numFloors \in Nat \ {0}
    /\ States \subseteq [Floor : 0 .. numFloors - 1, Direction : {-1, 0, 1}]
    /\ [Floor |-> 0, Direction |-> 0] \in States
    /\ HallOrders \subseteq (0 .. numFloors - 1) \X {"HallUp", "HallDown"}
    /\ OrderChCap \in Nat \ {0} /\ StateChCap \in Nat /\ MaxOrders \in Nat

VARIABLES
    myState,     \* oa.myState
    otherElevs,  \* oa.otherElevs: ID -> position and Alive
    hallOrders,  \* oa.hallOrders: the pending orders
    rest,        \* tryAssignHallOrders: what the loop has not looked at
    assigned,    \*   what it has sent and not yet taken off hallOrders
    trying,      \*   is it in it
    orderCh,     \* orders on their way to the controller
    myStateCh,   \* updates on their way from it
    offering,    \* the update that the controller is about to send, at most one
    came,        \* [o]: how often o has come in
    passed       \* [o]: how often o has been sent to the controller

loop     == <<rest, assigned, trying>>
channels == <<orderCh, myStateCh, offering>>
counts   == <<came, passed>>
vars     == <<myState, otherElevs, hallOrders, loop, channels, counts>>

Init ==
    /\ myState = [Floor |-> 0, Direction |-> 0]
    /\ otherElevs = [n \in {} |-> [Floor |-> 0, Direction |-> 0, Alive |-> TRUE]]
    /\ hallOrders = <<>> /\ rest = <<>> /\ assigned = <<>> /\ trying = FALSE
    /\ orderCh = <<>> /\ myStateCh = <<>> /\ offering = {}
    /\ came = [o \in HallOrders |-> 0] /\ passed = [o \in HallOrders |-> 0]

-----------------------------------------------------------------------------
(* Who serves an order best *)

movesAway(floor, s) ==
    \/ s.Direction = 1 /\ floor < s.Floor
    \/ s.Direction = -1 /\ floor > s.Floor

costToReachFloor(floor, s) ==
    (IF s.Floor < floor THEN floor - s.Floor ELSE s.Floor - floor)
    + (IF movesAway(floor, s) THEN numFloors ELSE 0)

isBestCandidateForOrder(o) ==
    \A n \in DOMAIN otherElevs :
        otherElevs[n].Alive =>
            costToReachFloor(o[1], otherElevs[n]) >= costToReachFloor(o[1], myState)

-----------------------------------------------------------------------------
(* tryAssignHallOrders: its start, a round of each of its two loops, and its *)
(* end.                                                                      *)

tryAssignHallOrders(pending) ==
    /\ rest' = pending
    /\ assigned' = <<>>
    /\ trying' = (pending # <<>>)

\* The next pending order: sent, when the channel has room, if this elevator is
\* the best for it.
ConsiderOrder ==
    /\ trying /\ rest # <<>>
    /\ LET o == Head(rest)
       IN  IF isBestCandidateForOrder(o)
           THEN /\ Len(orderCh) < OrderChCap
                /\ orderCh' = Append(orderCh, o)
                /\ assigned' = Append(assigned, o)
                /\ passed' = [passed EXCEPT ![o] = @ + 1]
           ELSE UNCHANGED <<orderCh, assigned, passed>>
    /\ rest' = Tail(rest)
    /\ UNCHANGED <<myState, otherElevs, hallOrders, trying, myStateCh, offering, came>>

\* Mutant: whatever comes first is taken away.
removedFront(pending, o) == Tail(pending)

\* One pending order like o is taken away, if there is one.
removed(pending, o) == RemoveFirst(pending, o)

RemoveAssigned ==
    /\ trying /\ rest = <<>> /\ assigned # <<>>
    /\ hallOrders' = removed(hallOrders, Head(assigned))
    /\ assigned' = Tail(assigned)
    /\ UNCHANGED <<myState, otherElevs, rest, trying, channels, counts>>

LeaveLoop ==
    /\ trying /\ rest = <<>> /\ assigned = <<>>
    /\ trying' = FALSE
    /\ UNCHANGED <<myState, otherElevs, hallOrders, rest, assigned, channels, counts>>

-----------------------------------------------------------------------------
(* Run's select and the calls of other components *)

onMyStateUpdate ==
    /\ ~trying
    /\ myStateCh # <<>>
    /\ myState' = Head(myStateCh)
    /\ myStateCh' = Tail(myStateCh)
    /\ tryAssignHallOrders(hallOrders)
    /\ UNCHANGED <<otherElevs, hallOrders, orderCh, offering, counts>>

onNewHallOrder ==
    /\ ~trying
    /\ \E o \in HallOrders :
          /\ came[o] < MaxOrders
          /\ came' = [came EXCEPT ![o] = @ + 1]
          /\ hallOrders' = Append(hallOrders, o)
          /\ tryAssignHallOrders(Append(hallOrders, o))
    /\ UNCHANGED <<myState, otherElevs, channels, passed>>

UpdateOtherElevatorState ==
    /\ ~trying
    /\ \E n \in Others, s \in States, alive \in BOOLEAN :
          otherElevs' = [k \in DOMAIN otherElevs \cup {n} |->
              IF k = n THEN [Floor |-> s.Floor, Direction |-> s.Direction, Alive |-> alive]
              ELSE otherElevs[k]]
    /\ tryAssignHallOrders(hallOrders)
    /\ UNCHANGED <<myState, hallOrders, channels, counts>>

\* Mutant: the pending orders are not looked at again.
MarkElevatorDeadOnly ==
    /\ ~trying
    /\ \E n \in DOMAIN otherElevs :
          otherElevs' = [otherElevs EXCEPT ![n].Alive = FALSE]
    /\ UNCHANGED <<myState, hallOrders, loop, channels, counts>>

MarkElevatorDead ==
    /\ ~trying
    /\ \E n \in DOMAIN otherElevs :
          otherElevs' = [otherElevs EXCEPT ![n].Alive = FALSE]
    /\ tryAssignHallOrders(hallOrders)
    /\ UNCHANGED <<myState, hallOrders, channels, counts>>

-----------------------------------------------------------------------------
(* The controller: between two events it may have an update to send, and    *)
(* then takes no order.                                                     *)

\* It takes an order, or handles another event, and has an update for it or not.
ControllerHandles ==
    /\ offering = {}
    /\ orderCh' \in {orderCh, IF orderCh = <<>> THEN orderCh ELSE Tail(orderCh)}
    /\ \E s \in States : offering' \in {{}, {s}}
    /\ UNCHANGED <<myState, otherElevs, hallOrders, loop, myStateCh, counts>>

\* Mutant: it tries again until there is room.
sendAgain ==
    /\ offering # {}
    /\ IF Len(myStateCh) < StateChCap
       THEN /\ \E s \in offering : myStateCh' = Append(myStateCh, s)
            /\ offering' = {}
       ELSE UNCHANGED <<myStateCh, offering>>
    /\ UNCHANGED <<myState, otherElevs, hallOrders, loop, orderCh, counts>>

sendStateUpdate ==
    /\ offering # {}
    /\ \E s \in offering :
          myStateCh' = IF Len(myStateCh) < StateChCap
                       THEN Append(myStateCh, s) ELSE myStateCh
    /\ offering' = {}
    /\ UNCHANGED <<myState, otherElevs, hallOrders, loop, orderCh, counts>>

Next ==
    \/ ConsiderOrder \/ RemoveAssigned \/ LeaveLoop
    \/ onMyStateUpdate \/ onNewHallOrder
    \/ UpdateOtherElevatorState \/ MarkElevatorDead
    \/ ControllerHandles \/ sendStateUpdate

Spec == Init /\ [][Next]_vars

\* Both goroutines run, and the controller's select gets to an order that waits.
Fairness ==
    /\ WF_vars(ConsiderOrder) /\ WF_vars(RemoveAssigned) /\ WF_vars(LeaveLoop)
    /\ WF_vars(sendStateUpdate)
    /\ SF_vars(ControllerHandles /\ orderCh' # orderCh)

FairSpec == Spec /\ Fairness

-----------------------------------------------------------------------------
(* Properties *)

\* Where, and how often, an order is in a sequence of orders.
places(s, o)      == {i \in DOMAIN s : s[i] = o}
occurrences(s, o) == Cardinality(places(s, o))

\* No order is lost and none is kept that was sent: what came in has been sent
\* or is pending, equal orders counted one by one.
NoneLost ==
    ~trying =>
        \A o \in HallOrders :
            came[o] = passed[o] + occurrences(hallOrders, o)

\* An order waits only for an elevator that is alive and nearer: nobody's death,
\* and no move of this elevator, leaves it waiting for nobody.
PendingForAnother ==
    ~trying =>
        \A o \in ToSet(hallOrders) :
            \E n \in DOMAIN otherElevs :
                /\ otherElevs[n].Alive
                /\ costToReachFloor(o[1], otherElevs[n]) < costToReachFloor(o[1], myState)

\* Assigner and controller never wait for each other: the assigner's send to a
\* full channel comes to an end.
SendsEnd == trying ~> ~trying
================================================================================
