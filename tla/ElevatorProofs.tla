---------------------------- MODULE ElevatorProofs ----------------------------
(***************************************************************************)
(* What holds of Elevator for every number of floors, every set of buttons *)
(* and orders, every bound on the switch and every buffer capacity; and    *)
(* that it implements Lift.                                                *)
(***************************************************************************)
EXTENDS Elevator, TLAPS

-----------------------------------------------------------------------------
(* The controller's record *)

\* The controller's own consistency, in three parts.
MotorFollowsState(e) ==
    /\ e.motor = e.dir
    /\ e.state = ST_Moving =>
          /\ e.dir = e.lastDir
          /\ ~e.doorLamp
          /\ ~e.obstructed
    /\ e.state # ST_Moving => e.dir = DIR_Stop

DoorHasTimer(e) ==
    /\ e.doorLamp => e.doorTimer \/ e.obstructed
    /\ e.state = ST_DoorOpen => e.doorTimer /\ e.doorLamp

Consistent(e) ==
    /\ e \in ElevatorStates
    /\ MotorFollowsState(e)
    /\ DoorHasTimer(e)
    /\ e.lamps = e.orders

\* Some order is left in direction d of the given floor.
WorkIn(e, d, floor) ==
    \/ d = DIR_Up /\ hasOrdersAbove(e, floor)
    \/ d = DIR_Down /\ hasOrdersBelow(e, floor)

\* A moving controller has work ahead of it.
Headed(e) == e.state = ST_Moving => WorkIn(e, e.dir, e.floor)

\* What every handler but onFloor leaves of the controller's idea of where it
\* is and of what it has to do.
Keeps(e, n) ==
    /\ n.floor = e.floor
    /\ e.orders \subseteq n.orders
    /\ WorkIn(e, e.lastDir, e.floor) => n.lastDir = e.lastDir
    /\ n.state = ST_DoorOpen => e.state = ST_DoorOpen
    /\ Headed(e) => Headed(n)

USE DEF DIR_Up, DIR_Down, DIR_Stop, Dirs, ST_Idle, ST_Moving, ST_DoorOpen

\* The update a handler offers is well formed, whatever else changes.
LEMMA UpdateType ==
    ASSUME NEW e \in ElevatorStates
    PROVE  /\ sendStateUpdate(e) \in ElevatorStates
           /\ sendStateUpdate(e).state = e.state
           /\ sendStateUpdate(e).floor = e.floor
           /\ sendStateUpdate(e).dir = e.dir
           /\ sendStateUpdate(e).lastDir = e.lastDir
           /\ sendStateUpdate(e).obstructed = e.obstructed
           /\ sendStateUpdate(e).doorTimer = e.doorTimer
           /\ sendStateUpdate(e).orders = e.orders
           /\ sendStateUpdate(e).lamps = e.lamps
           /\ sendStateUpdate(e).doorLamp = e.doorLamp
           /\ sendStateUpdate(e).motor = e.motor
  <1>1. [floor |-> e.floor, dir |-> e.dir, orders |-> e.orders] \in StateUpdates
    BY DEF ElevatorStates, StateUpdates
  <1>2. QED
    BY <1>1 DEF ElevatorStates, sendStateUpdate

\* The direction chosen leads to an order, and is the last one while there is
\* work that way.
LEMMA ChosenDirection ==
    ASSUME NEW e \in ElevatorStates
    PROVE  /\ chooseDirection(e) \in Dirs
           /\ chooseDirection(e) # DIR_Stop => WorkIn(e, chooseDirection(e), e.floor)
           /\ WorkIn(e, e.lastDir, e.floor) => chooseDirection(e) = e.lastDir
  BY DEF ElevatorStates, chooseDirection, WorkIn

\* Starting or staying idle keeps the controller consistent: it needs nothing
\* of a record but its type, its lamps and a door that is looked after.
LEMMA StartOrStayIdleConsistent ==
    ASSUME NEW e \in ElevatorStates, e.lamps = e.orders,
           e.doorLamp => e.doorTimer \/ e.obstructed
    PROVE  /\ Consistent(startOrStayIdle(e))
           /\ startOrStayIdle(e).floor = e.floor
           /\ startOrStayIdle(e).orders = e.orders
           /\ startOrStayIdle(e).state \in {ST_Idle, ST_Moving}
           /\ startOrStayIdle(e).state = ST_Moving =>
                 startOrStayIdle(e).dir = chooseDirection(e)
           /\ startOrStayIdle(e).state = ST_Idle =>
                 /\ startOrStayIdle(e).lastDir = e.lastDir
                 /\ startOrStayIdle(e).doorLamp = e.doorLamp
  <1> DEFINE next == chooseDirection(e)
             moving == [e EXCEPT !.doorLamp = FALSE, !.state = ST_Moving,
                                 !.dir = next, !.lastDir = next, !.motor = next]
  <1>1. next \in Dirs
    BY ChosenDirection
  <1>2. CASE e.obstructed \/ next = DIR_Stop
    BY <1>2 DEF startOrStayIdle, stopAndIdle, ElevatorStates, Consistent,
                MotorFollowsState, DoorHasTimer
  <1>3. CASE ~(e.obstructed \/ next = DIR_Stop)
    <2>1. startOrStayIdle(e) = sendStateUpdate(moving)
      BY <1>3 DEF startOrStayIdle
    <2>2. moving \in ElevatorStates
      BY <1>1, <1>3 DEF ElevatorStates
    <2>3. /\ moving.state = ST_Moving /\ moving.floor = e.floor
          /\ moving.dir = next /\ moving.lastDir = next /\ moving.motor = next
          /\ moving.orders = e.orders /\ moving.lamps = e.lamps
          /\ moving.doorLamp = FALSE /\ moving.obstructed = e.obstructed
      BY <1>1 DEF ElevatorStates
    <2> HIDE DEF moving
    <2>4. QED
      BY <1>1, <1>3, <2>1, <2>2, <2>3, UpdateType
         DEF Consistent, MotorFollowsState, DoorHasTimer
  <1>4. QED
    BY <1>2, <1>3

\* The two handlers that queue an order.
LEMMA AddOrderConsistent ==
    ASSUME NEW e, Consistent(e), NEW o \in Orders
    PROVE  /\ Consistent(addOrder(e, o))
           /\ Keeps(e, addOrder(e, o))
           /\ addOrder(e, o).state = e.state
           /\ addOrder(e, o).lastDir = e.lastDir
  BY DEF Consistent, addOrder, ElevatorStates, MotorFollowsState, DoorHasTimer,
         Keeps, Headed, WorkIn, hasOrdersAbove, hasOrdersBelow

\* Restarting an idle controller.
LEMMA RestartConsistent ==
    ASSUME NEW e \in ElevatorStates, e.lamps = e.orders,
           e.doorLamp => e.doorTimer \/ e.obstructed
    PROVE  /\ Consistent(startOrStayIdle(e))
           /\ Keeps(e, startOrStayIdle(e))
           /\ startOrStayIdle(e).state # ST_DoorOpen
  <1> DEFINE n == startOrStayIdle(e)
  <1>1. /\ Consistent(n) /\ n.floor = e.floor /\ n.orders = e.orders
        /\ n.state \in {ST_Idle, ST_Moving}
        /\ n.state = ST_Moving => n.dir = chooseDirection(e)
        /\ n.state = ST_Idle => n.lastDir = e.lastDir
    BY StartOrStayIdleConsistent
  <1>2. n.state = ST_Moving => n.lastDir = n.dir /\ n.dir # DIR_Stop
    BY <1>1 DEF Consistent, MotorFollowsState, ElevatorStates
  <1> HIDE DEF n
  <1>3. WorkIn(e, e.lastDir, e.floor) => n.lastDir = e.lastDir
    BY <1>1, <1>2, ChosenDirection
  <1>4. Headed(n)
    BY <1>1, <1>2, ChosenDirection
       DEF Headed, WorkIn, hasOrdersAbove, hasOrdersBelow
  <1>5. QED
    BY <1>1, <1>3, <1>4 DEF Keeps, n

\* Keeps composes: a handler that changes its record twice keeps what both
\* changes keep.
LEMMA KeepsTransitive ==
    ASSUME NEW a, NEW b, NEW c, Keeps(a, b), Keeps(b, c), b.lastDir = a.lastDir
    PROVE  Keeps(a, c)
  BY DEF Keeps, WorkIn, hasOrdersAbove, hasOrdersBelow

LEMMA ButtonConsistent ==
    ASSUME NEW e, Consistent(e), NEW o \in Orders
    PROVE  /\ Consistent(onButton(e, o))
           /\ Keeps(e, onButton(e, o))
           /\ e.state = ST_DoorOpen => onButton(e, o).state = ST_DoorOpen
  <1> DEFINE q == addOrder(e, o)
  <1>1. /\ Consistent(q) /\ Keeps(e, q) /\ q.state = e.state
        /\ q.lastDir = e.lastDir
    BY AddOrderConsistent
  <1>2. /\ Consistent(startOrStayIdle(q)) /\ Keeps(q, startOrStayIdle(q))
    BY <1>1, RestartConsistent DEF Consistent, DoorHasTimer
  <1>3. Keeps(e, startOrStayIdle(q))
    BY <1>1, <1>2, KeepsTransitive
  <1> HIDE DEF q
  <1>4. QED
    BY <1>1, <1>2, <1>3 DEF onButton, q

LEMMA ExternalOrderConsistent ==
    ASSUME NEW e, Consistent(e), NEW o \in Int \X Buttons
    PROVE  /\ Consistent(onExternalOrder(e, o))
           /\ Keeps(e, onExternalOrder(e, o))
           /\ e.state = ST_DoorOpen => onExternalOrder(e, o).state = ST_DoorOpen
  <1> DEFINE q == IF o \in e.orders THEN e ELSE addOrder(e, o)
  <1>1. Keeps(e, e)
    BY DEF Keeps
  <1>2. CASE o[1] \notin Floors
    BY <1>1, <1>2 DEF onExternalOrder
  <1>3. CASE o[1] \in Floors
    <2>1. o \in Orders
      BY <1>3 DEF Orders
    <2>2. /\ Consistent(q) /\ Keeps(e, q) /\ q.state = e.state
          /\ q.lastDir = e.lastDir
      BY <1>1, <2>1, AddOrderConsistent
    <2>3. /\ Consistent(startOrStayIdle(q)) /\ Keeps(q, startOrStayIdle(q))
      BY <2>2, RestartConsistent DEF Consistent, DoorHasTimer
    <2>4. Keeps(e, startOrStayIdle(q))
      BY <2>2, <2>3, KeepsTransitive
    <2>5. onExternalOrder(e, o) =
              IF e.state = ST_Idle THEN startOrStayIdle(q) ELSE q
      BY <1>3 DEF onExternalOrder
    <2> HIDE DEF q
    <2>6. QED
      BY <2>2, <2>3, <2>4, <2>5
  <1>4. QED
    BY <1>2, <1>3

LEMMA ObstructionConsistent ==
    ASSUME NEW e, Consistent(e), NEW active \in BOOLEAN
    PROVE  /\ Consistent(onObstruction(e, active))
           /\ Keeps(e, onObstruction(e, active))
           /\ e.state = ST_DoorOpen => onObstruction(e, active).state = ST_DoorOpen
  <1>1. CASE active
    BY <1>1 DEF onObstruction, stopAndIdle, Consistent, ElevatorStates,
                MotorFollowsState, DoorHasTimer, Keeps, Headed, WorkIn,
                hasOrdersAbove, hasOrdersBelow
  <1>2. CASE ~active
    <2> DEFINE held == [e EXCEPT !.obstructed = FALSE, !.doorTimer = TRUE]
    <2>1. /\ Consistent(held) /\ Keeps(e, held) /\ held.state = e.state
          /\ held.lastDir = e.lastDir
      BY DEF Consistent, ElevatorStates, MotorFollowsState, DoorHasTimer,
             Keeps, Headed, WorkIn, hasOrdersAbove, hasOrdersBelow
    <2>2. onObstruction(e, active) = IF e.state = ST_Idle /\ hasAnyOrders(e)
                                     THEN startOrStayIdle(held) ELSE held
      BY <1>2 DEF onObstruction
    <2> HIDE DEF held
    <2>3. Consistent(startOrStayIdle(held)) /\ Keeps(held, startOrStayIdle(held))
      BY <2>1, RestartConsistent DEF Consistent, DoorHasTimer
    <2>4. Keeps(e, startOrStayIdle(held))
      BY <2>1, <2>3, KeepsTransitive
    <2>5. QED
      BY <2>1, <2>2, <2>3, <2>4
  <1>3. QED
    BY <1>1, <1>2

\* A timeout ends a door cycle only when no obstruction is known.
LEMMA DoorTimeoutConsistent ==
    ASSUME NEW e, Consistent(e)
    PROVE  /\ Consistent(onDoorTimeout(e))
           /\ Keeps(e, onDoorTimeout(e))
           /\ e.state = ST_DoorOpen =>
                 IF e.obstructed THEN onDoorTimeout(e).state = ST_DoorOpen
                 ELSE ~onDoorTimeout(e).doorTimer
  <1>1. CASE e.obstructed
    BY <1>1 DEF onDoorTimeout, Consistent, ElevatorStates, MotorFollowsState,
                DoorHasTimer, Keeps, Headed, WorkIn, hasOrdersAbove, hasOrdersBelow
  <1>2. CASE ~e.obstructed /\ e.state # ST_DoorOpen
    BY <1>2 DEF onDoorTimeout, Consistent, ElevatorStates, MotorFollowsState,
                DoorHasTimer, Keeps, Headed, WorkIn, hasOrdersAbove, hasOrdersBelow
  <1>3. CASE ~e.obstructed /\ e.state = ST_DoorOpen
    <2> DEFINE dark == [e EXCEPT !.doorTimer = FALSE, !.doorLamp = FALSE]
               shut == [dark EXCEPT !.state = ST_Idle]
    <2>1. /\ shut \in ElevatorStates /\ shut.lamps = shut.orders
          /\ ~shut.doorLamp /\ shut.lastDir = e.lastDir /\ Keeps(e, shut)
          /\ ~shut.doorTimer
      BY DEF Consistent, ElevatorStates, Keeps, Headed, WorkIn,
             hasOrdersAbove, hasOrdersBelow
    <2>2. onDoorTimeout(e) = startOrStayIdle(shut)
      BY <1>3 DEF onDoorTimeout
    <2> HIDE DEF shut
    <2>3. Consistent(startOrStayIdle(shut)) /\ Keeps(shut, startOrStayIdle(shut))
      BY <2>1, RestartConsistent
    <2>4. Keeps(e, startOrStayIdle(shut))
      BY <2>1, <2>3, KeepsTransitive
    <2>5. ~startOrStayIdle(shut).doorTimer
      BY <2>1 DEF startOrStayIdle, stopAndIdle, sendStateUpdate, ElevatorStates
    <2>6. QED
      BY <1>3, <2>2, <2>3, <2>4, <2>5
  <1>4. QED
    BY <1>1, <1>2, <1>3

\* A controller that is headed for work and reaches the next floor that way
\* opens its door there or has more work ahead of it.
LEMMA StopsForLastOrder ==
    ASSUME NEW e, Consistent(e), NEW f \in Floors,
           e.state = ST_Moving, Headed(e), f = e.floor \/ f = e.floor + e.dir
    PROVE  shouldStop(e, f) \/ WorkIn(e, e.dir, f)
  <1>1. \A o \in e.orders : /\ o = <<o[1], o[2]>> /\ o[1] \in Floors
                           /\ o[2] \in {"HallUp", "HallDown", "Cab"}
    BY DEF Consistent, ElevatorStates, Orders, Buttons
  <1>2. e.dir \in Dirs /\ e.floor \in Int /\ f \in Int
    BY DEF Consistent, ElevatorStates, Floors
  <1>3. CASE e.dir = DIR_Up
    <2>1. PICK o \in e.orders : o[1] > e.floor
      BY <1>3 DEF Headed, WorkIn, hasOrdersAbove
    <2>2. o[1] > f \/ o[1] = f
      BY <1>1, <1>2, <1>3, <2>1 DEF Floors
    <2>3. CASE o[1] > f
      BY <1>3, <2>3 DEF WorkIn, hasOrdersAbove
    <2>4. CASE o[1] = f
      BY <1>1, <1>3, <2>4 DEF shouldStop, WorkIn
    <2>5. QED
      BY <2>2, <2>3, <2>4
  <1>4. CASE e.dir = DIR_Down
    <2>1. PICK o \in e.orders : o[1] < e.floor
      BY <1>4 DEF Headed, WorkIn, hasOrdersBelow
    <2>2. o[1] < f \/ o[1] = f
      BY <1>1, <1>2, <1>4, <2>1 DEF Floors
    <2>3. CASE o[1] < f
      BY <1>4, <2>3 DEF WorkIn, hasOrdersBelow
    <2>4. CASE o[1] = f
      BY <1>1, <1>4, <2>4 DEF shouldStop, WorkIn
    <2>5. QED
      BY <2>2, <2>3, <2>4
  <1>5. QED
    BY <1>3, <1>4 DEF Headed, WorkIn

\* onFloor: consistent; and what it does, case by case.
LEMMA FloorConsistent ==
    ASSUME NEW e, Consistent(e), NEW f \in Floors
    PROVE  /\ Consistent(onFloor(e, f))
           /\ onFloor(e, f).floor = f
           /\ onFloor(e, f).lastDir = e.lastDir
           /\ \/ /\ onFloor(e, f).state = e.state
                 /\ onFloor(e, f).orders = e.orders
                 /\ onFloor(e, f).doorLamp = e.doorLamp
                 /\ e.state = ST_Moving => hasAnyOrders(e) /\ ~shouldStop(e, f)
              \/ /\ e.state = ST_Moving /\ onFloor(e, f).state = ST_Idle
                 /\ e.orders = {} /\ onFloor(e, f).orders = {}
              \/ /\ e.state = ST_Moving /\ onFloor(e, f).state = ST_DoorOpen
                 /\ shouldStop(e, f)
                 /\ onFloor(e, f).orders = e.orders \ ordersAt(e, f)
  <1> DEFINE here == [e EXCEPT !.floor = f]
             at == sendStateUpdate(here)
  <1>1. /\ here \in ElevatorStates /\ here.floor = f /\ here.state = e.state
        /\ here.dir = e.dir /\ here.lastDir = e.lastDir
        /\ here.obstructed = e.obstructed /\ here.doorTimer = e.doorTimer
        /\ here.orders = e.orders /\ here.lamps = e.lamps
        /\ here.doorLamp = e.doorLamp /\ here.motor = e.motor
    BY DEF Consistent, ElevatorStates
  <1> HIDE DEF here
  <1>2. /\ at \in ElevatorStates /\ at.floor = f /\ at.state = e.state
        /\ at.dir = e.dir /\ at.lastDir = e.lastDir
        /\ at.obstructed = e.obstructed /\ at.doorTimer = e.doorTimer
        /\ at.orders = e.orders /\ at.lamps = e.lamps
        /\ at.doorLamp = e.doorLamp /\ at.motor = e.motor
    BY <1>1, UpdateType
  <1>3. onFloor(e, f) =
          CASE e.state # ST_Moving                -> at
            [] e.state = ST_Moving
                 /\ (~hasAnyOrders(e) \/ e.obstructed) -> stopAndIdle(at)
            [] e.state = ST_Moving /\ hasAnyOrders(e)
                 /\ ~e.obstructed /\ shouldStop(at, f) -> openDoorAt(at, f)
            [] OTHER                              -> at
    BY DEF onFloor, here
  <1>4. shouldStop(at, f) <=> shouldStop(e, f)
    BY <1>2 DEF shouldStop, hasOrdersAbove, hasOrdersBelow, anyOrderAtFloor, ordersAt
  <1>5. Consistent(at)
    BY <1>2 DEF Consistent, MotorFollowsState, DoorHasTimer
  <1> HIDE DEF at
  <1>6. CASE e.state # ST_Moving
    BY <1>2, <1>3, <1>5, <1>6
  <1>7. CASE e.state = ST_Moving /\ e.orders = {}
    <2>1. onFloor(e, f) = stopAndIdle(at)
      BY <1>3, <1>7 DEF hasAnyOrders
    <2>2. QED
      BY <1>2, <1>5, <1>7, <2>1 DEF stopAndIdle, Consistent, ElevatorStates,
                                    MotorFollowsState, DoorHasTimer
  <1>8. CASE e.state = ST_Moving /\ e.orders # {}
    <2>1. ~e.obstructed
      BY <1>8 DEF Consistent, MotorFollowsState
    <2>2. CASE shouldStop(e, f)
      <3>1. onFloor(e, f) = openDoorAt(at, f)
        BY <1>3, <1>4, <1>8, <2>1, <2>2 DEF hasAnyOrders
      <3> DEFINE n == openDoorAt(at, f)
      <3>2. ordersAt(at, f) = ordersAt(e, f)
        BY <1>2 DEF ordersAt
      <3>3. /\ n \in ElevatorStates
            /\ n.state = ST_DoorOpen /\ n.floor = f /\ n.lastDir = e.lastDir
            /\ n.dir = DIR_Stop /\ n.motor = DIR_Stop
            /\ n.doorLamp /\ n.doorTimer
            /\ n.orders = e.orders \ ordersAt(e, f)
            /\ n.lamps = e.lamps \ ordersAt(e, f)
        BY <1>2, <3>2 DEF openDoorAt, clearOrdersAtFloor, ElevatorStates
      <3> HIDE DEF n
      <3>4. Consistent(n)
        BY <3>3 DEF Consistent, MotorFollowsState, DoorHasTimer
      <3>5. QED
        BY <1>8, <2>2, <3>1, <3>3, <3>4 DEF n
    <2>3. CASE ~shouldStop(e, f)
      <3>1. onFloor(e, f) = at
        BY <1>3, <1>4, <1>8, <2>1, <2>3 DEF hasAnyOrders
      <3>2. QED
        BY <1>2, <1>5, <1>8, <2>3, <3>1 DEF hasAnyOrders
    <2>4. QED
      BY <2>2, <2>3
  <1>9. QED
    BY <1>6, <1>7, <1>8

-----------------------------------------------------------------------------
(* The elevator, wherever it starts *)

\* A floor on its way to the controller is the floor the cab stands at.
SensorInv ==
    floorCh # NoFloor =>
        departDirn = DIR_Stop /\ floorCh = prevFloor /\ floorPrev = prevFloor

Inv == TypeOK /\ Consistent(fsm) /\ SensorInv /\ DoorCycleAtFloor

\* Taking the update out of a handler's result changes nothing else.
LEMMA WithoutUpdate ==
    ASSUME NEW e, Consistent(e)
    PROVE  LET n == [e EXCEPT !.sent = {}]
           IN  /\ Consistent(n) /\ n.sent = {}
               /\ n.state = e.state /\ n.floor = e.floor /\ n.dir = e.dir
               /\ n.lastDir = e.lastDir /\ n.orders = e.orders
               /\ n.motor = e.motor /\ n.obstructed = e.obstructed
               /\ n.doorLamp = e.doorLamp /\ n.doorTimer = e.doorTimer
               /\ n.lamps = e.lamps
  BY DEF Consistent, ElevatorStates, MotorFollowsState, DoorHasTimer

\* What a controller step makes of a consistent result.
LEMMA ControllerStep ==
    ASSUME TypeOK, NEW e, Consistent(e), Controller(e)
    PROVE  /\ Consistent(fsm') /\ fsm'.sent = {} /\ fsm' \in ElevatorStates
           /\ fsm'.state = e.state /\ fsm'.floor = e.floor /\ fsm'.dir = e.dir
           /\ fsm'.lastDir = e.lastDir /\ fsm'.orders = e.orders
           /\ fsm'.motor = e.motor /\ fsm'.obstructed = e.obstructed
           /\ fsm'.doorLamp = e.doorLamp /\ fsm'.doorTimer = e.doorTimer
           /\ fsm'.lamps = e.lamps
           /\ stateCh' \in 0 .. StateChCap
  <1>1. fsm' = [e EXCEPT !.sent = {}]
    BY DEF Controller
  <1>2. stateCh' \in 0 .. StateChCap
    BY ConstantsAssumption DEF Controller, TypeOK
  <1>3. QED
    BY <1>1, <1>2, WithoutUpdate DEF Consistent

\* Keeps looks only at fields that a controller step copies.
LEMMA KeepsStep ==
    ASSUME NEW n, Keeps(fsm, n),
           fsm'.state = n.state, fsm'.floor = n.floor, fsm'.dir = n.dir,
           fsm'.lastDir = n.lastDir, fsm'.orders = n.orders
    PROVE  Keeps(fsm, fsm')
  BY DEF Keeps, Headed, WorkIn, hasOrdersAbove, hasOrdersBelow

\* Every controller step but HandleFloor keeps the controller consistent and
\* its idea of place and direction, and touches neither cab nor floor sensor.
QuietStep ==
    /\ Consistent(fsm') /\ fsm'.sent = {} /\ stateCh' \in 0 .. StateChCap
    /\ Keeps(fsm, fsm')
    /\ fsm.state = ST_DoorOpen /\ fsm'.state # ST_DoorOpen =>
          ~fsm.obstructed /\ fsm.doorTimer /\ ~fsm'.doorTimer
    /\ UNCHANGED <<shaft, floorSensor>>

LEMMA QuietSteps ==
    ASSUME Inv,
           HandleButton \/ HandleObstruction \/ HandleOrder \/ HandleDoorTimeout
    PROVE  QuietStep
  <1> USE DEF Inv
  <1>1. CASE HandleButton
    <2>1. PICK o \in PanelButtons : Controller(onButton(fsm, o))
      BY <1>1 DEF HandleButton
    <2>2. o \in Orders
      BY ConstantsAssumption
    <2>3. QED
      BY <1>1, <2>1, <2>2, ButtonConsistent, ControllerStep, KeepsStep
         DEF HandleButton, QuietStep
  <1>2. CASE HandleObstruction
    <2>1. Controller(onObstruction(fsm, obstrPrev)) /\ obstrPrev \in BOOLEAN
      BY <1>2 DEF HandleObstruction, TypeOK
    <2>2. QED
      BY <1>2, <2>1, ObstructionConsistent, ControllerStep, KeepsStep
         DEF HandleObstruction, QuietStep, floorSensor
  <1>3. CASE HandleOrder
    <2>1. PICK o \in ExternalOrders : Controller(onExternalOrder(fsm, o))
      BY <1>3 DEF HandleOrder
    <2>2. o \in Int \X Buttons
      BY ConstantsAssumption
    <2>3. QED
      BY <1>3, <2>1, <2>2, ExternalOrderConsistent, ControllerStep, KeepsStep
         DEF HandleOrder, QuietStep
  <1>4. CASE HandleDoorTimeout
    <2>1. Controller(onDoorTimeout(fsm)) /\ fsm.doorTimer
      BY <1>4 DEF HandleDoorTimeout
    <2>2. QED
      BY <1>4, <2>1, DoorTimeoutConsistent, ControllerStep, KeepsStep
         DEF HandleDoorTimeout, QuietStep
  <1>5. QED
    BY <1>1, <1>2, <1>3, <1>4

\* What the controller makes of the floor it is told.
LEMMA FloorStep ==
    ASSUME Inv, HandleFloor
    PROVE  /\ departDirn = DIR_Stop /\ floorCh = prevFloor /\ prevFloor \in Floors
           /\ Consistent(fsm') /\ fsm'.sent = {} /\ stateCh' \in 0 .. StateChCap
           /\ fsm'.floor = prevFloor
           /\ fsm'.lastDir = fsm.lastDir
           /\ \/ /\ fsm'.state = fsm.state /\ fsm'.orders = fsm.orders
                 /\ fsm'.doorLamp = fsm.doorLamp
                 /\ fsm.state = ST_Moving =>
                       hasAnyOrders(fsm) /\ ~shouldStop(fsm, prevFloor)
              \/ /\ fsm.state = ST_Moving /\ fsm'.state = ST_Idle
                 /\ fsm.orders = {} /\ fsm'.orders = {}
              \/ /\ fsm.state = ST_Moving /\ fsm'.state = ST_DoorOpen
                 /\ shouldStop(fsm, prevFloor)
                 /\ fsm'.orders = fsm.orders \ ordersAt(fsm, prevFloor)
  <1>1. departDirn = DIR_Stop /\ floorCh = prevFloor /\ prevFloor \in Floors
    BY DEF Inv, SensorInv, HandleFloor, TypeOK
  <1>2. Controller(onFloor(fsm, prevFloor))
    BY <1>1 DEF HandleFloor
  <1>3. QED
    BY <1>1, <1>2, FloorConsistent, ControllerStep DEF Inv

LEMMA InitInv == Init => Inv
  <1> SUFFICES ASSUME Init PROVE Inv
    OBVIOUS
  <1>1. PICK p \in StartPositions : prevFloor = p[1] /\ departDirn = p[2]
    BY DEF Init
  <1>2. prevFloor \in Floors /\ departDirn \in Dirs /\ obstruction \in BOOLEAN
    BY <1>1, ConstantsAssumption DEF Init
  <1>3. 0 \in Floors
    BY NumFloorsAssumption DEF Floors
  <1>4. Consistent(fsm) /\ fsm.sent = {} /\ fsm.state # ST_DoorOpen
    BY <1>2, <1>3 DEF Init, startup, Consistent, ElevatorStates,
                      MotorFollowsState, DoorHasTimer
  <1>5. stateCh \in 0 .. StateChCap /\ toggles \in 0 .. MaxToggles
    BY ConstantsAssumption DEF Init
  <1>6. floorPrev = NoFloor /\ floorCh = NoFloor /\ obstrPrev = FALSE /\ obstrCh = FALSE
    BY DEF Init
  <1>7. TypeOK
    BY <1>2, <1>4, <1>5, <1>6 DEF TypeOK, Consistent
  <1>8. QED
    BY <1>4, <1>6, <1>7 DEF Inv, SensorInv, DoorCycleAtFloor

LEMMA NextInv == Inv /\ [Next]_vars => Inv'
  <1> SUFFICES ASSUME Inv, [Next]_vars PROVE Inv'
    OBVIOUS
  <1> USE DEF Inv
  <1>1. CASE HandleButton \/ HandleObstruction \/ HandleOrder \/ HandleDoorTimeout
    <2>1. QuietStep
      BY <1>1, QuietSteps
    <2>2. TypeOK'
      BY <1>1, <2>1 DEF QuietStep, TypeOK, Consistent, shaft, floorSensor, switch,
                        obstrSensor, HandleButton, HandleObstruction, HandleOrder,
                        HandleDoorTimeout
    <2>3. QED
      BY <2>1, <2>2 DEF QuietStep, Keeps, SensorInv, DoorCycleAtFloor, shaft,
                        floorSensor
  <1>2. CASE HandleFloor
    <2>1. TypeOK'
      BY <1>2, FloorStep DEF HandleFloor, TypeOK, Consistent, shaft, switch, obstrSensor
    <2>2. QED
      BY <1>2, <2>1, FloorStep DEF HandleFloor, SensorInv, DoorCycleAtFloor, shaft
  <1>3. CASE PollFloorSensor
    BY <1>3 DEF PollFloorSensor, TypeOK, SensorInv, DoorCycleAtFloor, GetFloor,
                NoFloor, shaft, obstrSensor, switch, Floors
  <1>4. CASE PollObstructionSwitch
    BY <1>4 DEF PollObstructionSwitch, TypeOK, SensorInv, DoorCycleAtFloor,
                shaft, floorSensor, switch
  <1>5. CASE CabMoves
    <2>1. /\ fsm.motor \in {DIR_Up, DIR_Down} /\ prevFloor \in Floors
          /\ departDirn \in Dirs /\ prevFloor + departDirn \in Floors
          /\ floorCh = NoFloor
      BY <1>5 DEF CabMoves, TypeOK, ElevatorStates, Cab!Move, Cab!outOfBounds, SensorSeen, Floors
    <2>2. prevFloor' \in Floors /\ departDirn' \in Dirs
      BY <1>5, <2>1 DEF CabMoves, Cab!Move, Cab!Depart, Cab!Arrive
    <2>3. fsm.state = ST_Moving
      BY <2>1 DEF Consistent, MotorFollowsState
    <2>4. QED
      BY <1>5, <2>1, <2>2, <2>3
         DEF CabMoves, TypeOK, SensorInv, DoorCycleAtFloor, floorSensor,
             obstrSensor, switch
  <1>6. CASE FlipObstruction
    BY <1>6, ConstantsAssumption
       DEF FlipObstruction, TypeOK, SensorInv, DoorCycleAtFloor, shaft,
           floorSensor, obstrSensor
  <1>7. CASE UNCHANGED vars
    BY <1>7 DEF vars, shaft, floorSensor, obstrSensor, switch, TypeOK, SensorInv,
                DoorCycleAtFloor
  <1>8. QED
    BY <1>1, <1>2, <1>3, <1>4, <1>5, <1>6, <1>7 DEF Next

\* The invariant that the theorems below rest on holds from every start.
THEOREM InvHolds == Spec => []Inv
  BY InitInv, NextInv, PTL DEF Spec

\* Every variable keeps its type: the cab's position too, which the simulator
\* asserts after every message (sim_server.d:288-295).
THEOREM TypeCorrect == Spec => []TypeOK
  BY InvHolds, PTL DEF Inv

\* The motor has power only with the door light off and no obstruction known
\* (fsm.go:190-203, 268-301).
THEOREM MotorSafe == Spec => []MotorOnlyWhenClosed
  <1>1. Inv => MotorOnlyWhenClosed
    BY DEF Inv, Consistent, MotorFollowsState, MotorOnlyWhenClosed
  <1>2. QED
    BY <1>1, InvHolds, PTL

\* The lamps show the queue (fsm.go:127-128, 228-231, 372-375).
THEOREM LampsSafe == Spec => []LampsMatchOrders
  <1>1. Inv => LampsMatchOrders
    BY DEF Inv, Consistent, LampsMatchOrders
  <1>2. QED
    BY <1>1, InvHolds, PTL

\* A lit door light has a timer or an obstruction that will look after it
\* (fsm.go:178-182, 207-210, 245-248).
THEOREM DoorSafe == Spec => []DoorIsLookedAfter
  <1>1. Inv => DoorIsLookedAfter
    BY DEF Inv, Consistent, DoorHasTimer, DoorIsLookedAfter
  <1>2. QED
    BY <1>1, InvHolds, PTL

\* The cab stands where its door cycle believes it stands.
THEOREM DoorCycleSafe == Spec => []DoorCycleAtFloor
  BY InvHolds, PTL DEF Inv

\* The door of a stop closes only by its timer and never over an obstruction
\* that the controller knows of (fsm.go:240-258).
THEOREM DoorShutsSafely == Spec => DoorNotShutOnObstruction
  <1>1. Inv /\ [Next]_vars =>
          [fsm.state = ST_DoorOpen /\ fsm'.state # ST_DoorOpen =>
              ~fsm.obstructed /\ fsm.doorTimer /\ ~fsm'.doorTimer]_vars
    <2> SUFFICES ASSUME Inv, [Next]_vars, fsm.state = ST_DoorOpen,
                        fsm'.state # ST_DoorOpen
                 PROVE  ~fsm.obstructed /\ fsm.doorTimer /\ ~fsm'.doorTimer
      OBVIOUS
    <2>1. CASE HandleButton \/ HandleObstruction \/ HandleOrder \/ HandleDoorTimeout
      BY <2>1, QuietSteps DEF QuietStep
    <2>2. CASE HandleFloor
      BY <2>2, FloorStep
    <2>3. CASE UNCHANGED fsm
      BY <2>3
    <2>4. QED
      BY <2>1, <2>2, <2>3 DEF Next, PollFloorSensor, PollObstructionSwitch,
                              CabMoves, FlipObstruction, vars
  <1>2. QED
    BY <1>1, InvHolds, PTL DEF Spec, DoorNotShutOnObstruction

\* A controller that has once been told its floor never loses the cab, as long
\* as the cab is slower than the pollers (SensorSeen).
THEOREM NeverLost == Spec => StaysLocated
  <1>1. Inv /\ [Next]_vars => [Located => Located']_vars
    <2> SUFFICES ASSUME Inv, [Next]_vars, Located
                 PROVE  Located'
      OBVIOUS
    <2>1. CASE HandleButton \/ HandleObstruction \/ HandleOrder \/ HandleDoorTimeout
      BY <2>1, QuietSteps DEF QuietStep, Keeps, Located, shaft, floorSensor
    <2>2. CASE HandleFloor
      BY <2>2, FloorStep DEF HandleFloor, Located, shaft
    <2>3. CASE PollFloorSensor
      BY <2>3 DEF PollFloorSensor, Located, GetFloor, shaft
    <2>4. CASE CabMoves
      BY <2>4 DEF CabMoves, Cab!Move, Cab!Depart, Cab!Arrive, SensorSeen, GetFloor, Located, Inv,
                  TypeOK, NoFloor, floorSensor, Floors
    <2>5. CASE UNCHANGED <<fsm, shaft, floorSensor>>
      BY <2>5 DEF Located, shaft, floorSensor
    <2>6. QED
      BY <2>1, <2>2, <2>3, <2>4, <2>5
         DEF Next, PollObstructionSwitch, FlipObstruction, vars
  <1>2. QED
    BY <1>1, InvHolds, PTL DEF Spec, StaysLocated

\* An order leaves the queue only where and when it is served (fsm.go:166-183).
THEOREM OrdersServed == Spec => ClearedOnlyWhenServed
  <1> DEFINE Served == \A o \in fsm.orders \ fsm'.orders :
                          /\ departDirn = DIR_Stop /\ prevFloor = o[1]
                          /\ fsm'.motor = DIR_Stop /\ fsm'.doorLamp
  <1>1. Inv /\ [Next]_vars => [Served]_vars
    <2> SUFFICES ASSUME Inv, [Next]_vars, NEW o \in fsm.orders \ fsm'.orders
                 PROVE  /\ departDirn = DIR_Stop /\ prevFloor = o[1]
                        /\ fsm'.motor = DIR_Stop /\ fsm'.doorLamp
      OBVIOUS
    <2>1. CASE HandleButton \/ HandleObstruction \/ HandleOrder \/ HandleDoorTimeout
      BY <2>1, QuietSteps DEF QuietStep, Keeps
    <2>2. CASE HandleFloor
      BY <2>2, FloorStep DEF ordersAt, Consistent, MotorFollowsState, DoorHasTimer
    <2>3. CASE UNCHANGED fsm
      BY <2>3
    <2>4. QED
      BY <2>1, <2>2, <2>3 DEF Next, PollFloorSensor, PollObstructionSwitch,
                              CabMoves, FlipObstruction, vars
  <1>2. QED
    BY <1>1, InvHolds, PTL DEF Spec, ClearedOnlyWhenServed

-----------------------------------------------------------------------------
(* The elevator that starts at floor 0 *)

(* InShaft is not inductive: what keeps the cab in the shaft is that the   *)
(* controller has work ahead whenever the motor runs, and that its floor   *)
(* is at most one behind the cab, in the direction of lastDir, with work   *)
(* beyond it.  That is why an obstruction between floors, which leaves the *)
(* controller idle with a stale floor, does no harm.                       *)

\* The cab is at the controller's floor; or it has left that floor for work in
\* the direction of lastDir; or it has come to the next floor that way and the
\* event has not been handled.
Tracked ==
    \/ departDirn = DIR_Stop /\ fsm.floor = prevFloor
    \/ /\ WorkIn(fsm, fsm.lastDir, fsm.floor)
       /\ fsm.state # ST_DoorOpen
       /\ \/ departDirn = fsm.lastDir /\ fsm.floor = prevFloor
          \/ /\ departDirn = DIR_Stop /\ prevFloor = fsm.floor + fsm.lastDir
             /\ floorCh = prevFloor \/ floorPrev # prevFloor

LocatedInv == Inv /\ Headed(fsm) /\ Tracked

LEMMA InitLocated == InitAtFloorZero => LocatedInv
  <1> SUFFICES ASSUME InitAtFloorZero PROVE LocatedInv
    OBVIOUS
  <1>1. Inv
    BY InitInv DEF InitAtFloorZero
  <1>2. fsm.state = ST_Idle /\ fsm.floor = 0
    BY DEF InitAtFloorZero, Init, startup
  <1>3. QED
    BY <1>1, <1>2 DEF InitAtFloorZero, LocatedInv, Headed, Tracked

\* Where there is work there is a floor.
LEMMA WorkIsInShaft ==
    ASSUME NEW e \in ElevatorStates, NEW d \in Dirs, NEW f \in Floors, WorkIn(e, d, f)
    PROVE  f + d \in Floors
  <1>1. \A o \in e.orders : o[1] \in Floors
    BY DEF ElevatorStates, Orders
  <1>2. QED
    BY <1>1, NumFloorsAssumption DEF WorkIn, hasOrdersAbove, hasOrdersBelow, Floors

LEMMA NextLocated == LocatedInv /\ [Next]_vars => LocatedInv'
  <1> SUFFICES ASSUME LocatedInv, [Next]_vars PROVE LocatedInv'
    OBVIOUS
  <1> USE DEF LocatedInv
  <1>1. Inv'
    BY NextInv
  <1>2. CASE HandleButton \/ HandleObstruction \/ HandleOrder \/ HandleDoorTimeout
    <2>1. QuietStep
      BY <1>2, QuietSteps
    <2>2. Headed(fsm)'
      BY <2>1 DEF QuietStep, Keeps, Headed, WorkIn, hasOrdersAbove, hasOrdersBelow
    <2>3. WorkIn(fsm, fsm.lastDir, fsm.floor) =>
              WorkIn(fsm, fsm.lastDir, fsm.floor)' /\ fsm'.lastDir = fsm.lastDir
      BY <2>1 DEF QuietStep, Keeps, WorkIn, hasOrdersAbove, hasOrdersBelow
    <2>4. Tracked'
      BY <2>1, <2>3 DEF QuietStep, Keeps, Tracked, shaft, floorSensor
    <2>5. QED
      BY <1>1, <2>2, <2>4
  <1>3. CASE HandleFloor
    <2>1. /\ departDirn = DIR_Stop /\ floorCh = prevFloor
          /\ fsm'.floor = prevFloor /\ departDirn' = departDirn
          /\ prevFloor' = prevFloor
      BY <1>3, FloorStep DEF HandleFloor, shaft
    <2>2. Tracked'
      BY <2>1 DEF Tracked
    <2>3. ASSUME fsm'.state = ST_Moving
          PROVE  WorkIn(fsm, fsm.dir, fsm.floor)'
      <3>1. /\ fsm.state = ST_Moving /\ fsm'.orders = fsm.orders
            /\ ~shouldStop(fsm, prevFloor) /\ prevFloor \in Floors
        BY <1>3, <2>3, FloorStep
      <3>2. fsm'.dir = fsm.dir /\ fsm.dir = fsm.lastDir
        BY <1>3, <2>3, <3>1, FloorStep DEF Inv, Consistent, MotorFollowsState
      <3>3. prevFloor = fsm.floor \/ prevFloor = fsm.floor + fsm.dir
        BY <2>1, <3>2 DEF Tracked
      <3>4. WorkIn(fsm, fsm.dir, prevFloor)
        BY <3>1, <3>3, StopsForLastOrder DEF Inv
      <3>5. QED
        BY <2>1, <3>1, <3>2, <3>4 DEF WorkIn, hasOrdersAbove, hasOrdersBelow
    <2>4. QED
      BY <1>1, <2>2, <2>3 DEF Headed
  <1>4. CASE PollFloorSensor
    BY <1>1, <1>4 DEF PollFloorSensor, Headed, Tracked, GetFloor, shaft,
                      WorkIn, hasOrdersAbove, hasOrdersBelow
  <1>5. CASE CabMoves
    <2>1. /\ fsm.state = ST_Moving /\ fsm.motor = fsm.lastDir
          /\ fsm.motor # DIR_Stop /\ fsm.motor = fsm.dir
      BY <1>5 DEF CabMoves, Cab!Move, Inv, Consistent, MotorFollowsState
    <2>2. WorkIn(fsm, fsm.lastDir, fsm.floor)
      BY <2>1 DEF Headed, WorkIn
    <2>3. fsm' = fsm /\ floorCh' = NoFloor /\ floorPrev' = floorPrev
      BY <1>5 DEF CabMoves, floorSensor, SensorSeen
    <2>4. CASE departDirn = DIR_Stop
      <3>1. fsm.floor = prevFloor
        BY <1>5, <2>4 DEF CabMoves, SensorSeen, GetFloor, Tracked, Inv, TypeOK,
                          NoFloor, Floors
      <3>2. departDirn' = fsm.lastDir /\ prevFloor' = prevFloor
        BY <1>5, <2>1, <2>4 DEF CabMoves, Cab!Move, Cab!Depart, Cab!Arrive
      <3>3. QED
        BY <1>1, <2>1, <2>2, <2>3, <3>1, <3>2
           DEF Tracked, Headed, WorkIn, hasOrdersAbove, hasOrdersBelow
    <2>5. CASE departDirn # DIR_Stop
      <3>1. departDirn = fsm.lastDir /\ fsm.floor = prevFloor
        BY <2>5 DEF Tracked
      <3>2. departDirn' = DIR_Stop /\ prevFloor' = fsm.floor + fsm.lastDir
        BY <1>5, <2>1, <2>5, <3>1 DEF CabMoves, Cab!Move, Cab!Depart, Cab!Arrive
      <3>3. floorPrev' # prevFloor'
        BY <1>1, <1>5, <2>3, <2>5 DEF CabMoves, SensorSeen, GetFloor, Inv, TypeOK,
                                NoFloor, Floors
      <3>4. QED
        BY <1>1, <2>1, <2>2, <2>3, <3>2, <3>3
           DEF Tracked, Headed, WorkIn, hasOrdersAbove, hasOrdersBelow
    <2>6. QED
      BY <2>4, <2>5
  <1>6. CASE UNCHANGED <<fsm, shaft, floorSensor>>
    BY <1>1, <1>6 DEF Headed, Tracked, shaft, floorSensor, WorkIn,
                      hasOrdersAbove, hasOrdersBelow
  <1>7. QED
    BY <1>2, <1>3, <1>4, <1>5, <1>6
       DEF Next, PollObstructionSwitch, FlipObstruction, vars

\* The controller's belief and the cab stay together, and there is work ahead of a
\* moving cab (fsm.go:140-184, 319-366), whatever comes between two floor events.
THEOREM LocatedHolds == SpecAtFloorZero => []LocatedInv
  BY InitLocated, NextLocated, PTL DEF SpecAtFloorZero

\* From floor 0 the cab never leaves the shaft, in a building of any height,
\* whatever order the controller handles its events in.
THEOREM ShaftSafe == SpecAtFloorZero => []InShaft
  <1>1. LocatedInv => InShaft
    <2> SUFFICES ASSUME LocatedInv PROVE prevFloor + departDirn \in Floors
      BY DEF InShaft, Cab!outOfBounds, Floors
    <2>1. /\ fsm \in ElevatorStates /\ prevFloor \in Floors /\ departDirn \in Dirs
          /\ fsm.lastDir \in Dirs
      BY DEF LocatedInv, Inv, TypeOK, ElevatorStates
    <2>2. CASE departDirn = DIR_Stop
      BY <2>1, <2>2 DEF Floors
    <2>3. CASE departDirn # DIR_Stop
      BY <2>1, <2>3, WorkIsInShaft DEF LocatedInv, Tracked
    <2>4. QED
      BY <2>2, <2>3
  <1>2. QED
    BY <1>1, LocatedHolds, PTL

\* A cab stopped between floors goes on the way it was going (fsm.go:335).
THEOREM NeverTurns == SpecAtFloorZero => []NeverTurnsBetweenFloors
  <1>1. LocatedInv => NeverTurnsBetweenFloors
    BY DEF LocatedInv, Inv, Tracked, Consistent, MotorFollowsState, ElevatorStates,
           NeverTurnsBetweenFloors
  <1>2. QED
    BY <1>1, LocatedHolds, PTL

\* The motor drives the cab toward a queued order: toward the one it was
\* started for, or one that came in later.
THEOREM AlwaysTowardWork == SpecAtFloorZero => []DrivesTowardWork
  <1>1. LocatedInv => DrivesTowardWork
    <2> SUFFICES ASSUME LocatedInv, fsm.motor # DIR_Stop
                 PROVE  \E o \in fsm.orders :
                           \/ fsm.motor = DIR_Up /\ o[1] > prevFloor
                           \/ fsm.motor = DIR_Down /\ o[1] < prevFloor
                           \/ /\ o[1] = prevFloor /\ departDirn = DIR_Stop
                              /\ ~SensorSeen
      BY DEF DrivesTowardWork
    <2>1. /\ fsm.state = ST_Moving /\ fsm.motor = fsm.dir /\ fsm.dir = fsm.lastDir
          /\ fsm.floor \in Int /\ prevFloor \in Floors /\ Floors \subseteq Int
          /\ \A o \in fsm.orders : o[1] \in Floors
      BY DEF LocatedInv, Inv, TypeOK, Consistent, MotorFollowsState, ElevatorStates,
             Floors, Orders
    <2>2. WorkIn(fsm, fsm.motor, fsm.floor)
      BY <2>1 DEF LocatedInv, Headed
    <2>3. CASE fsm.floor = prevFloor
      BY <2>2, <2>3 DEF WorkIn, hasOrdersAbove, hasOrdersBelow
    <2>4. CASE fsm.floor # prevFloor
      <3>1. /\ departDirn = DIR_Stop /\ prevFloor = fsm.floor + fsm.motor
            /\ floorCh = prevFloor \/ floorPrev # prevFloor
        BY <2>1, <2>4 DEF LocatedInv, Tracked
      <3>2. ~SensorSeen
        BY <2>1, <3>1 DEF SensorSeen, GetFloor, NoFloor, Floors
      <3>3. CASE fsm.motor = DIR_Up
        <4>1. PICK o \in fsm.orders : o[1] > fsm.floor
          BY <2>2, <3>3 DEF WorkIn, hasOrdersAbove
        <4>2. o[1] > prevFloor \/ o[1] = prevFloor
          BY <2>1, <3>1, <3>3, <4>1
        <4>3. QED
          BY <3>1, <3>2, <3>3, <4>2
      <3>4. CASE fsm.motor = DIR_Down
        <4>1. PICK o \in fsm.orders : o[1] < fsm.floor
          BY <2>2, <3>4 DEF WorkIn, hasOrdersBelow
        <4>2. o[1] < prevFloor \/ o[1] = prevFloor
          <5>1. o[1] \in Int /\ fsm.floor \in Int
            BY <2>1
          <5>2. prevFloor = fsm.floor - 1
            BY <2>1, <3>1, <3>4
          <5>3. QED
            BY <4>1, <5>1, <5>2
        <4>3. QED
          <5>1. CASE o[1] < prevFloor
            BY <3>4, <5>1
          <5>2. CASE o[1] = prevFloor
            BY <3>1, <3>2, <5>2
          <5>3. QED
            BY <4>2, <5>1, <5>2
      <3>5. QED
        BY <2>2, <3>3, <3>4 DEF WorkIn
    <2>5. QED
      BY <2>3, <2>4
  <1>2. QED
    BY <1>1, LocatedHolds, PTL

-----------------------------------------------------------------------------
(***************************************************************************)
(* The elevator that starts at floor 0 implements Lift, for every number   *)
(* of floors: the invariant above holds of it, and every step of Elevator  *)
(* is mapped to a step of Lift or to none.                                 *)
(***************************************************************************)

\* Record n, made from fsm with queue q and restarted, is as Lift's Depart
\* allows: on its way with the door shut.
Departs(n) ==
    /\ fsm.motor = DIR_Stop
    /\ n.motor \in {-1, 1}
    /\ \E c \in n.orders :
          \/ n.motor = 1 /\ c[1] > prevFloor
          \/ n.motor = -1 /\ c[1] < prevFloor
          \/ departDirn = 0 /\ c[1] = prevFloor
    /\ departDirn # 0 => n.motor = departDirn
    /\ n.doorLamp = FALSE

\* A controller at rest, with its floor and its last direction as they are and
\* with no fewer orders, starts as Lift allows or rests.
LEMMA RestartOutcome ==
    ASSUME LocatedInv, fsm.motor = DIR_Stop,
           NEW q \in ElevatorStates, q.lamps = q.orders,
           q.doorLamp => q.doorTimer \/ q.obstructed,
           q.floor = fsm.floor, q.lastDir = fsm.lastDir, fsm.orders \subseteq q.orders,
           NEW n, n = startOrStayIdle(q)
    PROVE  /\ n.orders = q.orders
           /\ Departs(n) \/ (n.motor = DIR_Stop /\ n.doorLamp = q.doorLamp)
  <1>1. /\ Consistent(n) /\ n.floor = q.floor /\ n.orders = q.orders
        /\ n.state \in {ST_Idle, ST_Moving}
        /\ n.state = ST_Moving => n.dir = chooseDirection(q)
        /\ n.state = ST_Idle => n.doorLamp = q.doorLamp
    BY StartOrStayIdleConsistent
  <1>2. CASE n.state = ST_Idle
    BY <1>1, <1>2 DEF Consistent, MotorFollowsState
  <1>3. CASE n.state = ST_Moving
    <2>1. /\ n.motor = chooseDirection(q) /\ n.motor # DIR_Stop /\ n.doorLamp = FALSE
      BY <1>1, <1>3 DEF Consistent, MotorFollowsState, ElevatorStates
    <2>2. n.motor \in {-1, 1}
      BY <2>1, ChosenDirection
    <2>3. WorkIn(q, n.motor, fsm.floor)
      BY <2>1, ChosenDirection
    <2>4. WorkIn(fsm, fsm.lastDir, fsm.floor) => n.motor = fsm.lastDir
      BY <2>1, ChosenDirection DEF WorkIn, hasOrdersAbove, hasOrdersBelow
    <2>5. /\ fsm.floor \in Int /\ prevFloor \in Int
          /\ \A c \in q.orders : c[1] \in Int
      BY DEF LocatedInv, Inv, TypeOK, ElevatorStates, Floors, Orders
    <2>6. departDirn # 0 => n.motor = departDirn
      BY <2>4 DEF LocatedInv, Tracked
    <2>7. \E c \in q.orders : \/ n.motor = 1 /\ c[1] > prevFloor
                              \/ n.motor = -1 /\ c[1] < prevFloor
                              \/ departDirn = 0 /\ c[1] = prevFloor
      <3>1. CASE fsm.floor = prevFloor
        BY <2>3, <3>1 DEF WorkIn, hasOrdersAbove, hasOrdersBelow
      <3>2. CASE fsm.floor # prevFloor
        <4>1. departDirn = 0 /\ prevFloor = fsm.floor + n.motor
          BY <2>4, <3>2 DEF LocatedInv, Tracked
        <4>2. CASE n.motor = 1
          <5>1. PICK c \in q.orders : c[1] > fsm.floor
            BY <2>3, <4>2 DEF WorkIn, hasOrdersAbove
          <5>2. prevFloor = fsm.floor + 1
            BY <4>1, <4>2
          <5>3. c[1] > prevFloor \/ c[1] = prevFloor
            BY <2>5, <5>1, <5>2
          <5>4. QED
            BY <4>1, <4>2, <5>3
        <4>3. CASE n.motor = -1
          <5>1. PICK c \in q.orders : c[1] < fsm.floor
            BY <2>3, <4>3 DEF WorkIn, hasOrdersBelow
          <5>2. prevFloor = fsm.floor - 1
            BY <2>5, <4>1, <4>3
          <5>3. c[1] < prevFloor \/ c[1] = prevFloor
            BY <2>5, <5>1, <5>2
          <5>4. QED
            BY <4>1, <4>3, <5>3
        <4>4. QED
          BY <2>2, <4>2, <4>3
      <3>3. QED
        BY <3>1, <3>2
    <2>8. QED
      BY <1>1, <2>1, <2>2, <2>6, <2>7 DEF Departs
  <1>4. QED
    BY <1>1, <1>2, <1>3

\* The ways a controller step can look to Lift: from fsm to record n.
Called(n) ==
    \/ n.orders = fsm.orders
    \/ \E c \in Orders : n.orders = fsm.orders \cup {c}
Lawful(n) ==
    \/ Called(n) /\ n.motor = fsm.motor /\ n.doorLamp = fsm.doorLamp
    \/ Called(n) /\ Departs(n)
    \/ n.orders = fsm.orders /\ n.motor = DIR_Stop /\ n.doorLamp = TRUE
    \/ /\ n.orders = fsm.orders /\ fsm.motor = DIR_Stop
       /\ n.motor = DIR_Stop /\ n.doorLamp = FALSE

\* A lawful controller step is a step of Lift or none.
LEMMA LawfulStep ==
    ASSUME NEW n, Lawful(n), fsm'.orders = n.orders, fsm'.motor = n.motor,
           fsm'.doorLamp = n.doorLamp, UNCHANGED shaft
    PROVE  Promise!Next \/ UNCHANGED Promise!vars
  <1>1. prevFloor' = prevFloor /\ departDirn' = departDirn
    BY DEF shaft
  <1>2. CASE Called(n) /\ n.motor = fsm.motor /\ n.doorLamp = fsm.doorLamp
    <2>1. CASE n.orders = fsm.orders
      BY <1>1, <1>2, <2>1 DEF Promise!vars
    <2>2. CASE \E c \in Orders : n.orders = fsm.orders \cup {c}
      <3>1. Promise!Call
        BY <1>1, <1>2, <2>2 DEF Promise!Call, Orders
      <3>2. QED
        BY <3>1 DEF Promise!Next
    <2>3. QED
      BY <1>2, <2>1, <2>2 DEF Called
  <1>3. CASE Called(n) /\ Departs(n)
    <2>1. fsm'.orders = fsm.orders \/
              \E c \in Floors \X Buttons : fsm'.orders = fsm.orders \cup {c}
      BY <1>3 DEF Called, Orders
    <2>2. Promise!Depart
      BY <1>1, <1>3, <2>1 DEF Departs, Promise!Depart, Promise!Toward
    <2>3. QED
      BY <2>2 DEF Promise!Next
  <1>4. CASE n.orders = fsm.orders /\ n.motor = DIR_Stop /\ n.doorLamp = TRUE
    BY <1>1, <1>4 DEF Promise!Next, Promise!Obstruct
  <1>5. CASE /\ n.orders = fsm.orders /\ fsm.motor = DIR_Stop
             /\ n.motor = DIR_Stop /\ n.doorLamp = FALSE
    BY <1>1, <1>5 DEF Promise!Next, Promise!Shut
  <1>6. QED
    BY <1>2, <1>3, <1>4, <1>5 DEF Lawful

\* Queueing an order, and starting if idle, is lawful.
LEMMA QueueLawful ==
    ASSUME LocatedInv, NEW o \in Orders, NEW q,
           q = fsm \/ q = addOrder(fsm, o)
    PROVE  Lawful(IF fsm.state = ST_Idle THEN startOrStayIdle(q) ELSE q)
  <1>1. /\ q \in ElevatorStates /\ q.lamps = q.orders
        /\ q.doorLamp = fsm.doorLamp /\ q.motor = fsm.motor
        /\ q.doorLamp => q.doorTimer \/ q.obstructed
        /\ q.floor = fsm.floor /\ q.lastDir = fsm.lastDir
        /\ fsm.orders \subseteq q.orders
        /\ q.orders = fsm.orders \/ q.orders = fsm.orders \cup {o}
    <2>1. /\ fsm \in ElevatorStates /\ fsm.lamps = fsm.orders
          /\ fsm.doorLamp => fsm.doorTimer \/ fsm.obstructed
      BY DEF LocatedInv, Inv, Consistent, DoorHasTimer
    <2>2. CASE q = fsm
      BY <2>1, <2>2
    <2>3. CASE q = addOrder(fsm, o)
      BY <2>1, <2>3 DEF addOrder, ElevatorStates
    <2>4. QED
      BY <2>2, <2>3
  <1>2. CASE fsm.state # ST_Idle
    BY <1>1, <1>2 DEF Lawful, Called
  <1>3. CASE fsm.state = ST_Idle
    <2>1. fsm.motor = DIR_Stop
      BY <1>3 DEF LocatedInv, Inv, Consistent, MotorFollowsState
    <2> DEFINE n == startOrStayIdle(q)
    <2>2. /\ n.orders = q.orders
          /\ Departs(n) \/ (n.motor = DIR_Stop /\ n.doorLamp = q.doorLamp)
      BY <1>1, <2>1, RestartOutcome
    <2> HIDE DEF n
    <2>3. Lawful(n)
      BY <1>1, <2>1, <2>2 DEF Lawful, Called
    <2>4. QED
      BY <1>3, <2>3 DEF n
  <1>4. QED
    BY <1>2, <1>3

LEMMA ButtonStep ==
    ASSUME LocatedInv, HandleButton
    PROVE  Promise!Next \/ UNCHANGED Promise!vars
  <1>1. PICK o \in PanelButtons : Controller(onButton(fsm, o))
    BY DEF HandleButton
  <1>2. o \in Orders
    BY ConstantsAssumption
  <1>3. Lawful(onButton(fsm, o))
    BY <1>2, QueueLawful DEF onButton
  <1>4. Consistent(onButton(fsm, o)) /\ TypeOK
    BY <1>2, ButtonConsistent DEF LocatedInv, Inv
  <1>5. QED
    BY <1>1, <1>3, <1>4, ControllerStep, LawfulStep DEF HandleButton

LEMMA OrderStep ==
    ASSUME LocatedInv, HandleOrder
    PROVE  Promise!Next \/ UNCHANGED Promise!vars
  <1>1. PICK o \in ExternalOrders : Controller(onExternalOrder(fsm, o))
    BY DEF HandleOrder
  <1>2. o \in Int \X Buttons
    BY ConstantsAssumption
  <1>3. Lawful(onExternalOrder(fsm, o))
    <2>1. CASE o[1] \notin Floors
      BY <2>1 DEF onExternalOrder, Lawful, Called
    <2>2. CASE o[1] \in Floors
      <3> DEFINE q == IF o \in fsm.orders THEN fsm ELSE addOrder(fsm, o)
      <3>1. o \in Orders
        BY <1>2, <2>2 DEF Orders
      <3>2. q = fsm \/ q = addOrder(fsm, o)
        OBVIOUS
      <3>3. onExternalOrder(fsm, o) =
                IF fsm.state = ST_Idle THEN startOrStayIdle(q) ELSE q
        BY <2>2 DEF onExternalOrder
      <3> HIDE DEF q
      <3>4. QED
        BY <3>1, <3>2, <3>3, QueueLawful
    <2>3. QED
      BY <2>1, <2>2
  <1>4. Consistent(onExternalOrder(fsm, o)) /\ TypeOK
    BY <1>2, ExternalOrderConsistent DEF LocatedInv, Inv
  <1>5. QED
    BY <1>1, <1>3, <1>4, ControllerStep, LawfulStep DEF HandleOrder

LEMMA ObstructionStep ==
    ASSUME LocatedInv, HandleObstruction
    PROVE  Promise!Next \/ UNCHANGED Promise!vars
  <1> DEFINE n == onObstruction(fsm, obstrPrev)
  <1>1. /\ fsm \in ElevatorStates /\ fsm.lamps = fsm.orders
        /\ fsm.state # ST_Moving => fsm.motor = DIR_Stop
        /\ obstrPrev \in BOOLEAN /\ TypeOK
    BY DEF LocatedInv, Inv, TypeOK, Consistent, MotorFollowsState
  <1>2. Lawful(n)
    <2>1. CASE obstrPrev
      BY <1>1, <2>1 DEF onObstruction, stopAndIdle, ElevatorStates, Lawful
    <2>2. CASE ~obstrPrev
      <3> DEFINE held == [fsm EXCEPT !.obstructed = FALSE, !.doorTimer = TRUE]
      <3>1. /\ held \in ElevatorStates /\ held.lamps = held.orders /\ held.doorTimer
            /\ held.floor = fsm.floor /\ held.lastDir = fsm.lastDir
            /\ held.orders = fsm.orders /\ held.motor = fsm.motor
            /\ held.doorLamp = fsm.doorLamp
        BY <1>1 DEF ElevatorStates
      <3>2. n = IF fsm.state = ST_Idle /\ hasAnyOrders(fsm)
                THEN startOrStayIdle(held) ELSE held
        BY <2>2 DEF onObstruction
      <3> HIDE DEF held, n
      <3>3. CASE n = held
        BY <3>1, <3>3 DEF Lawful, Called
      <3>4. CASE fsm.state = ST_Idle /\ n = startOrStayIdle(held)
        BY <1>1, <3>1, <3>4, RestartOutcome DEF Lawful, Called
      <3>5. QED
        BY <3>2, <3>3, <3>4
    <2>3. QED
      BY <1>1, <2>1, <2>2
  <1>3. Consistent(n)
    BY <1>1, ObstructionConsistent DEF LocatedInv, Inv
  <1>4. QED
    BY <1>1, <1>2, <1>3, ControllerStep, LawfulStep DEF HandleObstruction

LEMMA TimeoutStep ==
    ASSUME LocatedInv, HandleDoorTimeout
    PROVE  Promise!Next \/ UNCHANGED Promise!vars
  <1> DEFINE n == onDoorTimeout(fsm)
  <1>1. /\ fsm \in ElevatorStates /\ fsm.lamps = fsm.orders /\ TypeOK
        /\ fsm.state # ST_Moving => fsm.motor = DIR_Stop
        /\ fsm.state = ST_Moving => ~fsm.doorLamp
    BY DEF LocatedInv, Inv, Consistent, MotorFollowsState
  <1>2. Lawful(n)
    <2>1. CASE fsm.obstructed
      BY <1>1, <2>1 DEF onDoorTimeout, ElevatorStates, Lawful, Called
    <2>2. CASE ~fsm.obstructed /\ fsm.state # ST_DoorOpen
      <3>1. /\ n.orders = fsm.orders /\ n.motor = fsm.motor /\ n.doorLamp = FALSE
        BY <1>1, <2>2 DEF onDoorTimeout, ElevatorStates
      <3>2. fsm.doorLamp \in BOOLEAN
        BY <1>1 DEF ElevatorStates
      <3> HIDE DEF n
      <3>3. QED
        BY <1>1, <3>1, <3>2 DEF Lawful, Called
    <2>3. CASE ~fsm.obstructed /\ fsm.state = ST_DoorOpen
      <3> DEFINE shut == [[fsm EXCEPT !.doorTimer = FALSE, !.doorLamp = FALSE]
                             EXCEPT !.state = ST_Idle]
      <3>1. /\ shut \in ElevatorStates /\ shut.lamps = shut.orders
            /\ shut.doorLamp = FALSE /\ shut.orders = fsm.orders
            /\ shut.floor = fsm.floor /\ shut.lastDir = fsm.lastDir
        BY <1>1 DEF ElevatorStates
      <3>2. n = startOrStayIdle(shut)
        BY <2>3 DEF onDoorTimeout
      <3> HIDE DEF shut, n
      <3>3. QED
        BY <1>1, <2>3, <3>1, <3>2, RestartOutcome DEF Lawful, Called
    <2>4. QED
      BY <2>1, <2>2, <2>3
  <1>3. Consistent(n)
    BY DoorTimeoutConsistent DEF LocatedInv, Inv
  <1>4. QED
    BY <1>1, <1>2, <1>3, ControllerStep, LawfulStep DEF HandleDoorTimeout

\* A floor event is the stop that serves the floor's calls, or no step of Lift.
LEMMA FloorStepOfLift ==
    ASSUME LocatedInv, HandleFloor
    PROVE  Promise!Next \/ UNCHANGED Promise!vars
  <1>1. Inv /\ prevFloor' = prevFloor /\ departDirn' = departDirn /\ departDirn = 0
    BY FloorStep DEF LocatedInv, HandleFloor, shaft
  <1>2. /\ Consistent(fsm) /\ Consistent(fsm') /\ fsm'.lastDir = fsm.lastDir
    BY <1>1, FloorStep DEF Inv
  <1>3. CASE /\ fsm'.state = fsm.state /\ fsm'.orders = fsm.orders
             /\ fsm'.doorLamp = fsm.doorLamp
    <2>1. fsm'.motor = fsm.motor
      BY <1>2, <1>3 DEF Consistent, MotorFollowsState
    <2>2. QED
      BY <1>1, <1>3, <2>1 DEF Promise!vars
  <1>4. CASE fsm.state = ST_Moving /\ fsm.orders = {}
    BY <1>4 DEF LocatedInv, Headed, WorkIn, hasOrdersAbove, hasOrdersBelow
  <1>5. CASE /\ fsm.state = ST_Moving /\ fsm'.state = ST_DoorOpen
             /\ shouldStop(fsm, prevFloor)
             /\ fsm'.orders = fsm.orders \ ordersAt(fsm, prevFloor)
    <2>1. fsm.motor # 0 /\ fsm'.motor = 0 /\ fsm'.doorLamp = TRUE
      BY <1>2, <1>5 DEF Consistent, MotorFollowsState, DoorHasTimer, ElevatorStates
    <2>2. \E c \in fsm.orders : c[1] = prevFloor
      BY <1>5 DEF shouldStop, anyOrderAtFloor, ordersAt
    <2>3. /\ {c \in fsm.orders : c[1] = prevFloor} # {}
          /\ fsm'.orders = fsm.orders \ {c \in fsm.orders : c[1] = prevFloor}
      BY <1>5, <2>2 DEF ordersAt
    <2>4. Promise!Serve
      BY <1>1, <2>1, <2>3 DEF Promise!Serve
    <2>5. QED
      BY <2>4 DEF Promise!Next
  <1>6. QED
    BY <1>1, <1>3, <1>4, <1>5, FloorStep

LEMMA CabStep ==
    ASSUME LocatedInv, CabMoves
    PROVE  Promise!Next
  <1>1. /\ fsm.state = ST_Moving /\ fsm.motor = fsm.lastDir /\ fsm.motor = fsm.dir
        /\ fsm.motor \in {-1, 1} /\ fsm.doorLamp = FALSE
    BY DEF LocatedInv, Inv, Consistent, MotorFollowsState, CabMoves, Cab!Move, ElevatorStates
  <1>2. fsm.floor = prevFloor /\ departDirn \in {0, fsm.motor}
    BY <1>1 DEF LocatedInv, Tracked, Inv, TypeOK, CabMoves, SensorSeen, GetFloor,
                NoFloor, Floors
  <1>3. WorkIn(fsm, fsm.motor, prevFloor)
    BY <1>1, <1>2 DEF LocatedInv, Headed
  <1>4. \E c \in fsm.orders : Promise!Toward(c, fsm.motor)
    BY <1>3 DEF Promise!Toward, WorkIn, hasOrdersAbove, hasOrdersBelow
  <1>5. CASE departDirn = 0
    <2>1. departDirn' = fsm.motor /\ prevFloor' = prevFloor /\ fsm' = fsm
      BY <1>5 DEF CabMoves, Cab!Move, Cab!Depart, Cab!Arrive
    <2>2. Promise!Move
      BY <1>1, <1>4, <1>5, <2>1 DEF Promise!Move
    <2>3. QED
      BY <2>2 DEF Promise!Next
  <1>6. CASE departDirn # 0
    <2>1. departDirn = fsm.motor
      BY <1>2, <1>6
    <2>2. departDirn' = 0 /\ prevFloor' = prevFloor + fsm.motor /\ fsm' = fsm
      BY <1>6, <2>1 DEF CabMoves, Cab!Move, Cab!Depart, Cab!Arrive
    <2>3. Promise!Move
      BY <1>1, <1>4, <1>6, <2>1, <2>2 DEF Promise!Move
    <2>4. QED
      BY <2>3 DEF Promise!Next
  <1>7. QED
    BY <1>5, <1>6

\* The elevator keeps the promise of Lift: every behaviour of main.go's wiring
\* that starts at floor 0 is, seen from the cab, one that Lift allows.
THEOREM Refinement == SpecAtFloorZero => ImplementsLift
  <1>1. InitAtFloorZero => Promise!Init
    <2> SUFFICES ASSUME InitAtFloorZero PROVE Promise!Init
      OBVIOUS
    <2>1. prevFloor \in Floors /\ departDirn = 0
      BY InitInv DEF InitAtFloorZero, Inv, TypeOK
    <2>2. fsm.orders = {} /\ fsm.motor = 0 /\ fsm.doorLamp = FALSE
      BY <2>1 DEF InitAtFloorZero, Init, startup
    <2>3. QED
      BY <2>1, <2>2 DEF Promise!Init
  <1>2. LocatedInv /\ [Next]_vars => [Promise!Next]_(Promise!vars)
    <2> SUFFICES ASSUME LocatedInv, [Next]_vars
                 PROVE  Promise!Next \/ UNCHANGED Promise!vars
      OBVIOUS
    <2>1. CASE UNCHANGED <<fsm, shaft>>
      BY <2>1 DEF Promise!vars, shaft
    <2>2. QED
      BY <2>1, ButtonStep, OrderStep, ObstructionStep, TimeoutStep,
         FloorStepOfLift, CabStep
         DEF Next, PollFloorSensor, PollObstructionSwitch, FlipObstruction, vars
  <1>3. QED
    BY <1>1, <1>2, LocatedHolds, PTL DEF SpecAtFloorZero, ImplementsLift, Promise!Spec
=============================================================================
