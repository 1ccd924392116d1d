--------------------------------- MODULE Fsm ---------------------------------
(***************************************************************************)
(* The event handlers of one elevator's controller (heis/fsm/fsm.go).      *)
(*                                                                         *)
(* fsm.Run is one goroutine that picks a ready channel and calls the       *)
(* handler of its event to completion, so a handler is an operator from    *)
(* the controller's record (and the event) to its next record.  The record *)
(* holds the fields of the Elevator struct and what the handlers write to  *)
(* the hardware:                                                           *)
(*   lamps     the lit button lamps          doorLamp  the door-open lamp  *)
(*   motor     the last motor command        sent      the StateUpdate the *)
(*   doorTimer is a timer armed              handler offered to stateCh    *)
(* The floor indicator is left out: it is written with e.floor, always.    *)
(* The module has no variables: Elevator.tla puts it in its surroundings.  *)
(***************************************************************************)
EXTENDS Integers

CONSTANT NumFloors      \* main.go: numFloors

\* The simulator accepts 2..9 floors (sim_server.d:235); the handlers
\* themselves need at least one, the floor 0 that Run starts from.
ASSUME NumFloorsAssumption == NumFloors \in Nat \ {0}

Floors  == 0 .. NumFloors - 1
Buttons == {"HallUp", "HallDown", "Cab"}
Orders  == Floors \X Buttons        \* orders[f][b] is <<f, b>> \in orders

ST_Idle     == "Idle"
ST_Moving   == "Moving"
ST_DoorOpen == "DoorOpen"

DIR_Up   == 1
DIR_Down == -1
DIR_Stop == 0
Dirs     == {DIR_Up, DIR_Down, DIR_Stop}

StateUpdates == [floor : Floors, dir : Dirs, orders : SUBSET Orders]

ElevatorStates ==
    [state      : {ST_Idle, ST_Moving, ST_DoorOpen},
     floor      : Floors,
     dir        : Dirs,
     lastDir    : {DIR_Up, DIR_Down},
     obstructed : BOOLEAN,
     doorTimer  : BOOLEAN,
     orders     : SUBSET Orders,
     lamps      : SUBSET Orders,
     doorLamp   : BOOLEAN,
     motor      : Dirs,
     sent       : SUBSET StateUpdates]

-----------------------------------------------------------------------------
(* Queue policy *)

ordersAt(e, floor) == {o \in e.orders : o[1] = floor}

anyOrderAtFloor(e, floor) == ordersAt(e, floor) # {}
hasAnyOrders(e)           == e.orders # {}
hasOrdersAtOrAbove(e, floor) == \E o \in e.orders : o[1] >= floor  \* mutant

hasOrdersAbove(e, floor)  == \E o \in e.orders : o[1] > floor
hasOrdersBelow(e, floor)  == \E o \in e.orders : o[1] < floor

\* Mutant: a hall call against the travel direction never stops the cab, not
\* even where the run ends.
shouldStopSameWay(e, floor) ==
    \/ <<floor, "Cab">> \in e.orders
    \/ e.dir = DIR_Up /\ <<floor, "HallUp">> \in e.orders
    \/ e.dir = DIR_Down /\ <<floor, "HallDown">> \in e.orders
    \/ e.dir = DIR_Stop /\ anyOrderAtFloor(e, floor)

shouldStop(e, floor) ==
    \/ <<floor, "Cab">> \in e.orders
    \/ /\ e.dir = DIR_Up
       /\ \/ <<floor, "HallUp">> \in e.orders
          \/ <<floor, "HallDown">> \in e.orders /\ ~hasOrdersAbove(e, floor)
    \/ /\ e.dir = DIR_Down
       /\ \/ <<floor, "HallDown">> \in e.orders
          \/ <<floor, "HallUp">> \in e.orders /\ ~hasOrdersBelow(e, floor)
    \/ e.dir = DIR_Stop /\ anyOrderAtFloor(e, floor)

\* Mutant: up first, wherever the cab was going.
chooseUpFirst(e) ==
    IF hasOrdersAbove(e, e.floor) THEN DIR_Up
    ELSE IF hasOrdersBelow(e, e.floor) THEN DIR_Down ELSE DIR_Stop

\* Go on the way the cab last went if there is work there, else turn.  An
\* order at the cab's own floor gives DIR_Stop.
chooseDirection(e) ==
    LET above == hasOrdersAbove(e, e.floor)
        below == hasOrdersBelow(e, e.floor)
    IN  CASE above /\ (e.lastDir # DIR_Down \/ ~below) -> DIR_Up
          [] below /\ (e.lastDir = DIR_Down \/ ~above) -> DIR_Down
          [] OTHER                                     -> DIR_Stop

\* Mutant: the cab lamp is forgotten.
clearHallLampsOnly(e, floor) ==
    [e EXCEPT !.orders = @ \ ordersAt(e, floor),
              !.lamps  = @ \ (ordersAt(e, floor) \ {<<floor, "Cab">>})]

clearOrdersAtFloor(e, floor) ==
    [e EXCEPT !.orders = @ \ ordersAt(e, floor),
              !.lamps  = @ \ ordersAt(e, floor)]

-----------------------------------------------------------------------------
(* Helpers of the handlers *)

\* A copy of the state, offered to stateCh; who drops it is the channel.
sendStateUpdate(e) ==
    [e EXCEPT !.sent = {[floor |-> e.floor, dir |-> e.dir, orders |-> e.orders]}]

\* The three assignments that every "stand still" branch makes.
stopAndIdle(e) ==
    [e EXCEPT !.state = ST_Idle, !.dir = DIR_Stop, !.motor = DIR_Stop]

\* Mutant: the obstruction is not looked at.
startAnyway(e) ==
    LET next == chooseDirection(e)
    IN  IF next = DIR_Stop
        THEN stopAndIdle(e)
        ELSE sendStateUpdate([e EXCEPT !.doorLamp = FALSE,
                                       !.state    = ST_Moving,
                                       !.dir      = next,
                                       !.lastDir  = next,
                                       !.motor    = next])

startOrStayIdle(e) ==
    LET next == chooseDirection(e)
    IN  IF e.obstructed \/ next = DIR_Stop
        THEN stopAndIdle(e)
        ELSE sendStateUpdate([e EXCEPT !.doorLamp = FALSE,
                                       !.state    = ST_Moving,
                                       !.dir      = next,
                                       !.lastDir  = next,
                                       !.motor    = next])

addOrder(e, o) == [e EXCEPT !.orders = @ \cup {o}, !.lamps = @ \cup {o}]

-----------------------------------------------------------------------------
(* Startup and the event handlers *)

\* What Run has set up when it enters its select loop, given the answers of
\* GetObstruction() and of GetFloor() = -1.
startup(obstruction, betweenFloors) ==
    LET homing == betweenFloors /\ ~obstruction
    IN  [state      |-> IF homing THEN ST_Moving ELSE ST_Idle,
         floor      |-> 0,
         dir        |-> IF homing THEN DIR_Down ELSE DIR_Stop,
         lastDir    |-> IF homing THEN DIR_Down ELSE DIR_Up,
         obstructed |-> obstruction,
         doorTimer  |-> FALSE,
         orders     |-> {},
         lamps      |-> {},
         doorLamp   |-> FALSE,
         motor      |-> IF homing THEN DIR_Down ELSE DIR_Stop,
         sent       |-> {}]

onButton(e, o) ==
    LET queued == addOrder(e, o)
    IN  IF e.state = ST_Idle THEN startOrStayIdle(queued) ELSE queued

onExternalOrder(e, o) ==
    IF o[1] \notin Floors
    THEN e
    ELSE LET queued == IF o \in e.orders THEN e ELSE addOrder(e, o)
         IN  IF e.state = ST_Idle THEN startOrStayIdle(queued) ELSE queued

\* Mutant: the door opens on a running motor.
openDoorUnstopped(e, f) ==
    [clearOrdersAtFloor(e, f) EXCEPT !.state     = ST_DoorOpen,
                                     !.dir       = DIR_Stop,
                                     !.doorLamp  = TRUE,
                                     !.doorTimer = TRUE]

\* Open the door at floor f: what onFloor does when shouldStop says so.
openDoorAt(e, f) ==
    [clearOrdersAtFloor(e, f) EXCEPT !.state     = ST_DoorOpen,
                                     !.dir       = DIR_Stop,
                                     !.motor     = DIR_Stop,
                                     !.doorLamp  = TRUE,
                                     !.doorTimer = TRUE]

\* Mutant: a cab that is not moving ignores its floor.
onFloorWhenMoving(e, f) ==
    LET at == sendStateUpdate([e EXCEPT !.floor = f])
    IN  CASE e.state # ST_Moving                -> e
          [] e.state = ST_Moving
               /\ (~hasAnyOrders(e) \/ e.obstructed) -> stopAndIdle(at)
          [] e.state = ST_Moving /\ hasAnyOrders(e)
               /\ ~e.obstructed /\ shouldStop(at, f) -> openDoorAt(at, f)
          [] OTHER                              -> at

\* Mutant: a floor's orders are cleared in passing, before shouldStop.
onFloorClearFirst(e, f) ==
    LET at == clearOrdersAtFloor(sendStateUpdate([e EXCEPT !.floor = f]), f)
    IN  CASE e.state # ST_Moving                -> at
          [] e.state = ST_Moving
               /\ (~hasAnyOrders(e) \/ e.obstructed) -> stopAndIdle(at)
          [] e.state = ST_Moving /\ hasAnyOrders(e)
               /\ ~e.obstructed /\ shouldStop(e, f) -> openDoorAt(at, f)
          [] OTHER                              -> at

onFloor(e, f) ==
    LET at == sendStateUpdate([e EXCEPT !.floor = f])
    IN  CASE e.state # ST_Moving                -> at
          [] e.state = ST_Moving
               /\ (~hasAnyOrders(e) \/ e.obstructed) -> stopAndIdle(at)
          [] e.state = ST_Moving /\ hasAnyOrders(e)
               /\ ~e.obstructed /\ shouldStop(at, f) -> openDoorAt(at, f)
          [] OTHER                              -> at

\* Mutant: the motor stops only when the obstruction is released.
onObstructionNoStop(e, active) ==
    IF active
    THEN [e EXCEPT !.obstructed = TRUE, !.doorLamp = TRUE]
    ELSE LET held == [e EXCEPT !.obstructed = FALSE, !.doorTimer = TRUE]
         IN  IF e.state = ST_Idle /\ hasAnyOrders(e)
             THEN startOrStayIdle(held) ELSE held

\* Mutant: the old timer is stopped and no new one made.
onObstructionNoTimer(e, active) ==
    IF active
    THEN LET lit == [e EXCEPT !.obstructed = TRUE,
                              !.doorLamp   = TRUE,
                              !.motor      = DIR_Stop]
         IN  IF e.state = ST_Moving THEN stopAndIdle(lit) ELSE lit
    ELSE LET held == [e EXCEPT !.obstructed = FALSE, !.doorTimer = FALSE]
         IN  IF e.state = ST_Idle /\ hasAnyOrders(e)
             THEN startOrStayIdle(held) ELSE held

onObstruction(e, active) ==
    IF active
    THEN LET lit == [e EXCEPT !.obstructed = TRUE,
                              !.doorLamp   = TRUE,
                              !.motor      = DIR_Stop]
         IN  IF e.state = ST_Moving THEN stopAndIdle(lit) ELSE lit
    ELSE LET held == [e EXCEPT !.obstructed = FALSE, !.doorTimer = TRUE]
         IN  IF e.state = ST_Idle /\ hasAnyOrders(e)
             THEN startOrStayIdle(held) ELSE held

\* Mutant: a timeout during an obstruction is ignored without a new timer.
onDoorTimeoutGiveUp(e) ==
    LET dark == [e EXCEPT !.doorTimer = FALSE, !.doorLamp = FALSE]
    IN  CASE e.obstructed -> [e EXCEPT !.doorTimer = FALSE]
          [] ~e.obstructed /\ e.state = ST_DoorOpen    ->
                startOrStayIdle([dark EXCEPT !.state = ST_Idle])
          [] ~e.obstructed /\ e.state # ST_DoorOpen    -> dark

\* Mutant: the timeout closes the door whatever is in it.
onDoorTimeoutShut(e) ==
    LET dark == [e EXCEPT !.doorTimer = FALSE, !.doorLamp = FALSE]
    IN  IF e.state = ST_DoorOpen
        THEN startOrStayIdle([dark EXCEPT !.state = ST_Idle])
        ELSE dark

\* The timer has fired: its channel is drained, so it is no longer armed
\* unless the handler makes a new one.
onDoorTimeout(e) ==
    LET dark == [e EXCEPT !.doorTimer = FALSE, !.doorLamp = FALSE]
    IN  CASE e.obstructed -> [e EXCEPT !.doorTimer = TRUE]   \* try again in 1 s
          [] ~e.obstructed /\ e.state = ST_DoorOpen    ->
                startOrStayIdle([dark EXCEPT !.state = ST_Idle])
          [] ~e.obstructed /\ e.state # ST_DoorOpen    -> dark
=============================================================================
