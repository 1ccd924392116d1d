------------------------------- MODULE Elevator -------------------------------
(***************************************************************************)
(* One elevator as heis/main.go wires it: the controller goroutine         *)
(* (Fsm.tla), the goroutines that poll the hardware (elevio), and the cab, *)
(* sensor and switch they drive and read (the simulator).                  *)
(*                                                                         *)
(* main.go makes drvFloors and drvObstr without a buffer, so a poller that *)
(* has something to send stands still until the controller takes it; the   *)
(* controller picks any channel that is ready.  fsmStateUpdates is         *)
(* buffered and nobody reads it.                                           *)
(*                                                                         *)
(* Timing.  A poller samples every 20 ms and the controller never blocks,  *)
(* while the cab needs 500 ms to pass a floor and 2 s to the next: the cab *)
(* moves only after its last position has been sampled and handled         *)
(* (SensorSeen).  The switch and the buttons have no such bound.           *)
(***************************************************************************)
EXTENDS Fsm

CONSTANTS
    StartPositions,   \* where the cab may be when the program starts, as
                      \*   <<prevFloor, departDirn>>
    StartObstructed,  \* positions of the obstruction switch at that time
    PanelButtons,     \* the buttons people press
    ExternalOrders,   \* what an order assigner may put on drvOrders
    MaxToggles,       \* bound: how often the switch is flipped
    StateChCap        \* capacity of fsmStateUpdates (10 in main.go)

NoFloor == -1         \* GetFloor() between floors; nothing on drvFloors

ASSUME ConstantsAssumption ==
    /\ StartPositions \subseteq Floors \X Dirs
    /\ \A p \in StartPositions : p[1] + p[2] \in Floors
    /\ StartObstructed \subseteq BOOLEAN
    /\ PanelButtons \subseteq Orders
    /\ ExternalOrders \subseteq Int \X Buttons
    /\ MaxToggles \in Nat
    /\ StateChCap \in Nat

VARIABLES
    fsm,          \* the controller: a record of Fsm!ElevatorStates
    stateCh,      \* how many updates lie in fsmStateUpdates
    prevFloor,    \* the floor the cab is at or was at last
    departDirn,   \* the way it left that floor, DIR_Stop while it is there
    floorPrev,    \* PollFloorSensor: prev
    floorCh,      \* the floor it is blocked sending, or NoFloor
    obstruction,  \* the switch
    obstrPrev,    \* PollObstructionSwitch: prev
    obstrCh,      \* is it blocked sending obstrPrev
    toggles       \* how often the switch has been flipped

shaft    == <<prevFloor, departDirn>>
floorSensor == <<floorPrev, floorCh>>
obstrSensor == <<obstrPrev, obstrCh>>
switch   == <<obstruction, toggles>>
vars     == <<fsm, stateCh, shaft, floorSensor, obstrSensor, switch>>

\* The cab obeys the last motor command: the controller's writes reach it
\* in order, and at once on the scale of its movements.
Cab == INSTANCE Shaft WITH
    floor <- prevFloor, off <- departDirn, motor <- fsm.motor

GetFloor   == IF departDirn = DIR_Stop THEN prevFloor ELSE NoFloor
SensorSeen == floorCh = NoFloor /\ floorPrev = GetFloor

TypeOK ==
    /\ fsm \in ElevatorStates
    /\ fsm.sent = {}
    /\ stateCh \in 0 .. StateChCap
    /\ prevFloor \in Floors
    /\ departDirn \in Dirs
    /\ floorPrev \in Floors \cup {NoFloor}
    /\ floorCh \in Floors \cup {NoFloor}
    /\ obstruction \in BOOLEAN
    /\ obstrPrev \in BOOLEAN
    /\ obstrCh \in BOOLEAN
    /\ toggles \in 0 .. MaxToggles

-----------------------------------------------------------------------------
(* The program starts with the cab anywhere: on first start, and again     *)
(* after every crash, since the controller keeps nothing.                  *)

Init ==
    /\ \E p \in StartPositions : prevFloor = p[1] /\ departDirn = p[2]
    /\ obstruction \in StartObstructed
    /\ fsm = startup(obstruction, departDirn # DIR_Stop)
    /\ stateCh = 0
    /\ floorPrev = NoFloor
    /\ floorCh = NoFloor
    /\ obstrPrev = FALSE
    /\ obstrCh = FALSE
    /\ toggles = 0

-----------------------------------------------------------------------------
(* The controller goroutine: one action per case of Run's select.          *)

\* Mutant: a plain send, which waits for room.
ControllerBlocks(e) ==
    /\ e.sent # {} => stateCh < StateChCap
    /\ fsm' = [e EXCEPT !.sent = {}]
    /\ stateCh' = IF e.sent # {} THEN stateCh + 1 ELSE stateCh

\* The handler's result becomes the state; the update it offers to stateCh
\* is kept if there is room and dropped if not, and never blocks.
Controller(e) ==
    /\ fsm' = [e EXCEPT !.sent = {}]
    /\ stateCh' = IF e.sent # {} /\ stateCh < StateChCap
                  THEN stateCh + 1 ELSE stateCh

\* A pressed button: PollButtons sends it and the controller takes it.
HandleButton ==
    /\ \E o \in PanelButtons : Controller(onButton(fsm, o))
    /\ UNCHANGED <<shaft, floorSensor, obstrSensor, switch>>

HandleFloor ==
    /\ floorCh # NoFloor
    /\ Controller(onFloor(fsm, floorCh))
    /\ floorCh' = NoFloor
    /\ UNCHANGED <<shaft, floorPrev, obstrSensor, switch>>

HandleObstruction ==
    /\ obstrCh
    /\ Controller(onObstruction(fsm, obstrPrev))
    /\ obstrCh' = FALSE
    /\ UNCHANGED <<shaft, floorSensor, obstrPrev, switch>>

HandleOrder ==
    /\ \E o \in ExternalOrders : Controller(onExternalOrder(fsm, o))
    /\ UNCHANGED <<shaft, floorSensor, obstrSensor, switch>>

HandleDoorTimeout ==
    /\ fsm.doorTimer
    /\ Controller(onDoorTimeout(fsm))
    /\ UNCHANGED <<shaft, floorSensor, obstrSensor, switch>>

-----------------------------------------------------------------------------
(* The polling goroutines.  A sample that changes nothing is no step.      *)

PollFloorSensor ==
    /\ floorCh = NoFloor
    /\ floorPrev # GetFloor
    /\ floorPrev' = GetFloor
    /\ floorCh' = GetFloor             \* NoFloor, which is not sent, included
    /\ UNCHANGED <<fsm, stateCh, shaft, obstrSensor, switch>>

\* Mutant: a send that gives up when the controller is busy.
PollObstructionLossy ==
    /\ ~obstrCh
    /\ obstrPrev # obstruction
    /\ obstrPrev' = obstruction
    /\ obstrCh' \in BOOLEAN
    /\ UNCHANGED <<fsm, stateCh, shaft, floorSensor, switch>>

PollObstructionSwitch ==
    /\ ~obstrCh
    /\ obstrPrev # obstruction
    /\ obstrPrev' = obstruction
    /\ obstrCh' = TRUE
    /\ UNCHANGED <<fsm, stateCh, shaft, floorSensor, switch>>

-----------------------------------------------------------------------------
(* The cab and the switch *)

CabMoves ==
    /\ SensorSeen
    /\ Cab!Move
    /\ UNCHANGED <<fsm, stateCh, floorSensor, obstrSensor, switch>>

FlipObstruction ==
    /\ toggles < MaxToggles
    /\ toggles' = toggles + 1
    /\ obstruction' = ~obstruction
    /\ UNCHANGED <<fsm, stateCh, shaft, floorSensor, obstrSensor>>

Next ==
    \/ HandleButton \/ HandleFloor \/ HandleObstruction
    \/ HandleOrder \/ HandleDoorTimeout
    \/ PollFloorSensor \/ PollObstructionSwitch
    \/ CabMoves \/ FlipObstruction

Spec == Init /\ [][Next]_vars

(* The pollers loop for ever, select takes every ready channel sooner or   *)
(* later, an armed timer fires, and a powered cab moves.  Nobody need      *)
(* press a button, flip the switch or send an order.                       *)
Fairness ==
    /\ WF_vars(HandleFloor)
    /\ WF_vars(HandleObstruction)
    /\ WF_vars(HandleDoorTimeout)
    /\ WF_vars(PollFloorSensor)
    /\ WF_vars(PollObstructionSwitch)
    /\ WF_vars(CabMoves)

FairSpec == Spec /\ Fairness

(* The cab starts at floor 0, where the controller believes it is.         *)
InitAtFloorZero == Init /\ prevFloor = 0 /\ departDirn = DIR_Stop
SpecAtFloorZero == InitAtFloorZero /\ [][Next]_vars

-----------------------------------------------------------------------------
(* Safety *)

\* The cab never leaves the shaft: the controller's idea of where the cab is,
\* and of which way there is work, is never so stale that it drives the cab
\* past the last floor.
InShaft == ~Cab!outOfBounds

\* The door is shut while the cab moves (project description, "door"): the
\* motor has power only while the controller believes it is moving, the door
\* light is off and the controller knows of no obstruction.
MotorOnlyWhenClosed ==
    fsm.motor # DIR_Stop =>
        fsm.state = ST_Moving /\ ~fsm.doorLamp /\ ~fsm.obstructed

\* A button is lit exactly while its order is queued, whatever order buttons,
\* floors, obstructions and timeouts arrive in.
LampsMatchOrders == fsm.lamps = fsm.orders

\* A lit door light is never forgotten: a timer is armed that will look after
\* it, or an obstruction holds it; and an open door always has its timer.
DoorIsLookedAfter ==
    /\ fsm.doorLamp => fsm.doorTimer \/ fsm.obstructed
    /\ fsm.state = ST_DoorOpen => fsm.doorTimer /\ fsm.doorLamp

\* While the door cycle of a stop runs, the cab stands at the floor the
\* controller serves, although the switch, the buttons and the sensor go on
\* sending.
DoorCycleAtFloor ==
    fsm.state = ST_DoorOpen =>
        departDirn = DIR_Stop /\ fsm.floor = prevFloor

\* A cab that an obstruction stopped between two floors goes on the way it was
\* going (fsm.go:335, "fortsett i samme retning hvis mulig"): what is queued
\* and which events arrive meanwhile never carries its passengers back.
NeverTurnsBetweenFloors ==
    departDirn # DIR_Stop => fsm.motor # -departDirn

\* The motor drives the cab toward a queued order, counting the order of the
\* floor whose sensor event is still on its way to the controller.
DrivesTowardWork ==
    fsm.motor # DIR_Stop =>
        \E o \in fsm.orders :
            \/ fsm.motor = DIR_Up /\ o[1] > prevFloor
            \/ fsm.motor = DIR_Down /\ o[1] < prevFloor
            \/ o[1] = prevFloor /\ departDirn = DIR_Stop /\ ~SensorSeen

-----------------------------------------------------------------------------
(* What a step may never do *)

\* An order leaves the queue only when it is served: the cab stands at its
\* floor, the motor is off and the door light comes on.
ClearedOnlyWhenServed ==
    [][\A o \in fsm.orders \ fsm'.orders :
          /\ departDirn = DIR_Stop /\ prevFloor = o[1]
          /\ fsm'.motor = DIR_Stop /\ fsm'.doorLamp]_vars

\* The door of a stop never closes over an obstruction the controller knows
\* of, and closes only by the timer.
DoorNotShutOnObstruction ==
    [][fsm.state = ST_DoorOpen /\ fsm'.state # ST_DoorOpen =>
          ~fsm.obstructed /\ fsm.doorTimer /\ ~fsm'.doorTimer]_vars

\* Once the controller has heard of a floor it never loses the cab again:
\* its floor is the last one the cab was at, or that floor's event is on the
\* way.
Located ==
    \/ fsm.floor = prevFloor
    \/ departDirn = DIR_Stop /\ (floorCh = prevFloor \/ floorPrev # prevFloor)
StaysLocated == [][Located => Located']_vars

-----------------------------------------------------------------------------
(* Liveness *)

\* What the controller believes of the switch is what the poller sampled last,
\* or is about to be.  Not so only at first: when start-up reads an obstruction
\* (fsm.go:83) that is gone before the poller's first sample.
InStep == obstrCh \/ obstrPrev = fsm.obstructed

\* The controller learns of every change of the switch that lasts.
ObstructionTracked ==
    \A b \in BOOLEAN :
        obstruction = b /\ InStep ~> (fsm.obstructed = b \/ obstruction # b)

\* The door of a stop closes unless something obstructs it.
DoorCloses == fsm.state = ST_DoorOpen ~> (fsm.state # ST_DoorOpen \/ obstruction)

\* The button lights are a service guarantee: unless the cab is obstructed for
\* good, an order is served.
OrderServed ==
    (<>[]~obstruction) =>
        \A o \in Orders : o \in fsm.orders ~> o \notin fsm.orders

\* What the code gives: the same, except that an order placed at the floor
\* where the cab stands idle waits until the cab has been somewhere else.
OrderServedOrAtHand ==
    (<>[](~obstruction /\ InStep)) =>
        \A o \in Orders :
            o \in fsm.orders ~>
                \/ o \notin fsm.orders
                \/ fsm.state = ST_Idle /\ fsm.floor = o[1]

-----------------------------------------------------------------------------
(* The promise of Lift, seen through the cab, the queue and the lamps. *)

Promise == INSTANCE Lift WITH
    calls <- fsm.orders, floor <- prevFloor, off <- departDirn,
    motion <- fsm.motor, door <- fsm.doorLamp

\* From floor 0 the elevator does nothing that Lift does not allow: whatever
\* order floor events, switch events, buttons and timeouts are handled in, the
\* cab moves shut and toward a call and a call ends only where it is served.
ImplementsLift == Promise!Spec
===============================================================================
