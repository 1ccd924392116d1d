------------------------------- MODULE ElevAlgo -------------------------------
(***************************************************************************)
(* The single-elevator reference in C that came with the project           *)
(* (heis/Project-resources/elev_algo): one thread that polls buttons,      *)
(* floor sensor and timer in turn and calls a handler for what has         *)
(* changed.  A handler is an operator from the Elevator struct, with what  *)
(* it has written to the hardware, to the set of its next values: one      *)
(* value, except where the code reads and writes outside the requests      *)
(* array, which the program may not survive.                               *)
(*                                                                         *)
(* The switch and the stop button are never read.  The loop takes 25 ms,   *)
(* so the cab, which needs 500 ms to pass a floor, moves only after its    *)
(* last position has been polled.                                          *)
(***************************************************************************)
EXTENDS Integers

CONSTANTS
    NumFloors,        \* elevator.h: N_FLOORS
    StartPositions,   \* where the cab may be at the start, <<floor, off>>
    PanelButtons      \* the buttons people press

D_Up   == 1
D_Down == -1
D_Stop == 0
Dirns  == {D_Up, D_Down, D_Stop}

Floors   == 0 .. NumFloors - 1
Buttons  == {"HallUp", "HallDown", "Cab"}
Requests == Floors \X Buttons
Nowhere  == -1         \* the floor of an elevator that has seen none

ASSUME ReferenceAssumption ==
    /\ NumFloors \in Nat \ {0}
    /\ StartPositions \subseteq Floors \X Dirns
    /\ \A p \in StartPositions : p[1] + p[2] \in Floors
    /\ PanelButtons \subseteq Requests

VARIABLES
    elevator,    \* main.c: elevator, and what it has written to the hardware
    timer,       \* "off", "set", or "due": its end has passed
    poll,        \* what the loop polls next
    prev,        \* the floor sensor's last value
    prevFloor,   \* the cab: the floor it is at or was at last
    departDirn   \* the way it left that floor, D_Stop while it is there

shaft == <<prevFloor, departDirn>>
vars  == <<elevator, timer, poll, prev, shaft>>

Cab == INSTANCE Shaft WITH
    floor <- prevFloor, off <- departDirn, motor <- elevator.motor

floorSensor == IF departDirn = D_Stop THEN prevFloor ELSE Nowhere

Elevators ==
    [floor     : Floors \cup {Nowhere},
     dirn      : Dirns,
     requests  : SUBSET Requests,
     behaviour : {"Idle", "DoorOpen", "Moving"},
     crashed   : BOOLEAN,             \* a write has ended the program
     lights    : SUBSET Requests,      \* the button lamps
     doorLight : BOOLEAN,
     motor     : Dirns]

TypeOK ==
    /\ elevator \in Elevators
    /\ timer \in {"off", "set", "due"}
    /\ poll \in {"buttons", "floor", "timer"}
    /\ prev \in Floors \cup {Nowhere}
    /\ prevFloor \in Floors
    /\ departDirn \in Dirns

elevator_uninitialized ==
    [floor |-> Nowhere, dirn |-> D_Stop, requests |-> {}, behaviour |-> "Idle",
     crashed |-> FALSE, lights |-> {}, doorLight |-> FALSE, motor |-> D_Stop]

fsm_onInitBetweenFloors(e) ==
    [e EXCEPT !.motor = D_Down, !.dirn = D_Down, !.behaviour = "Moving"]

Init ==
    /\ \E p \in StartPositions : prevFloor = p[1] /\ departDirn = p[2]
    /\ elevator = IF floorSensor = Nowhere
                  THEN fsm_onInitBetweenFloors(elevator_uninitialized)
                  ELSE elevator_uninitialized
    /\ timer = "off"
    /\ poll = "buttons"
    /\ prev = Nowhere

-----------------------------------------------------------------------------
(* requests.c *)

requests_above(e) == \E r \in e.requests : r[1] > e.floor
requests_below(e) == \E r \in e.requests : r[1] < e.floor

\* What it may answer.  With no floor seen yet the code reads requests[-1].
requests_here(e) ==
    IF e.floor = Nowhere THEN BOOLEAN
    ELSE {\E r \in e.requests : r[1] = e.floor}

\* On in the same direction; else what is here, the other way; else turn.
directionWith(e, here) ==
    LET above == requests_above(e)
        below == requests_below(e)
    IN  CASE e.dirn = D_Up /\ above    -> <<D_Up, "Moving">>
          [] e.dirn = D_Down /\ below  -> <<D_Down, "Moving">>
          [] ~(e.dirn = D_Up /\ above) /\ ~(e.dirn = D_Down /\ below) ->
                IF here THEN <<-e.dirn, "DoorOpen">>
                ELSE IF above THEN <<D_Up, "Moving">>
                ELSE IF below THEN <<D_Down, "Moving">> ELSE <<D_Stop, "Idle">>

requests_chooseDirection(e) == {directionWith(e, here) : here \in requests_here(e)}

\* Mutant: the run does not end where the last request is.
shouldStopOnlyHere(e) ==
    \/ <<e.floor, "Cab">> \in e.requests
    \/ e.dirn = D_Down /\ <<e.floor, "HallDown">> \in e.requests
    \/ e.dirn = D_Up /\ <<e.floor, "HallUp">> \in e.requests
    \/ e.dirn = D_Stop

requests_shouldStop(e) ==
    \/ e.dirn = D_Stop
    \/ <<e.floor, "Cab">> \in e.requests
    \/ e.dirn = D_Down /\ (<<e.floor, "HallDown">> \in e.requests \/ ~requests_below(e))
    \/ e.dirn = D_Up /\ (<<e.floor, "HallUp">> \in e.requests \/ ~requests_above(e))

requests_shouldClearImmediately(e, r) ==
    /\ e.floor = r[1]
    /\ \/ r[2] = "Cab"
       \/ e.dirn = D_Stop
       \/ e.dirn = D_Up /\ r[2] = "HallUp"
       \/ e.dirn = D_Down /\ r[2] = "HallDown"

\* Mutant: all of the floor.
servedAll(e) == {r \in e.requests : r[1] = e.floor}

\* The requests of its floor that a stop in the elevator's direction serves.
served(e) ==
    LET up   == <<e.floor, "HallUp">>
        down == <<e.floor, "HallDown">>
    IN  e.requests \cap ({<<e.floor, "Cab">>} \cup
            CASE e.dirn = D_Stop -> {up, down}
              [] e.dirn = D_Up   -> IF requests_above(e) \/ up \in e.requests
                                    THEN {up} ELSE {up, down}
              [] e.dirn = D_Down -> IF requests_below(e) \/ down \in e.requests
                                    THEN {down} ELSE {up, down})

\* With no floor seen yet it writes requests[-1]: its own floor and direction,
\* and the word before the struct.  The struct is a parameter by value, so that
\* word may be part of the return address: then nothing comes back.
requests_clearAtCurrentFloor(e) ==
    IF e.floor = Nowhere
    THEN {[e EXCEPT !.floor = f, !.dirn = D_Stop] : f \in {Nowhere, 0}}
         \cup {[e EXCEPT !.crashed = TRUE]}
    ELSE {[e EXCEPT !.requests = @ \ served(e)]}

-----------------------------------------------------------------------------
(* fsm.c.  Which timer_start they call is in the actions below. *)

setAllLights(e) == [e EXCEPT !.lights = IF e.crashed THEN @ ELSE e.requests]

decided(e, pair) == [e EXCEPT !.dirn = pair[1], !.behaviour = pair[2]]

\* What a press makes of an idle elevator that has chosen pair.
startedBy(e, pair) ==
    CASE pair[2] = "DoorOpen" ->
            requests_clearAtCurrentFloor([decided(e, pair) EXCEPT !.doorLight = TRUE])
      [] pair[2] = "Moving"   -> {[decided(e, pair) EXCEPT !.motor = pair[1]]}
      [] pair[2] = "Idle"     -> {decided(e, pair)}

fsm_onRequestButtonPress(e, r) ==
    LET asked == [e EXCEPT !.requests = @ \cup {r}]
        next  == CASE e.behaviour = "DoorOpen" ->
                        IF requests_shouldClearImmediately(e, r) THEN {e} ELSE {asked}
                   [] e.behaviour = "Moving"   -> {asked}
                   [] e.behaviour = "Idle"     ->
                        UNION {startedBy(asked, pair) : pair \in requests_chooseDirection(asked)}
    IN  {setAllLights(n) : n \in next}

fsm_onFloorArrival(e, newFloor) ==
    LET at == [e EXCEPT !.floor = newFloor]
    IN  IF e.behaviour = "Moving" /\ requests_shouldStop(at)
        THEN {[setAllLights(n) EXCEPT !.motor = D_Stop, !.doorLight = TRUE,
                                      !.behaviour = "DoorOpen"] :
                 n \in requests_clearAtCurrentFloor(at)}
        ELSE {at}

fsm_onDoorTimeout(e) ==
    IF e.behaviour # "DoorOpen" THEN {e}
    ELSE UNION {IF pair[2] = "DoorOpen"
                THEN {setAllLights(n) : n \in requests_clearAtCurrentFloor(decided(e, pair))}
                ELSE {[decided(e, pair) EXCEPT !.doorLight = FALSE, !.motor = pair[1]]} :
                   pair \in requests_chooseDirection(e)}

-----------------------------------------------------------------------------
(* main.c: the loop *)

\* A press also starts the timer when it opens the door, or keeps it open.
Press ==
    /\ poll = "buttons" /\ ~elevator.crashed
    /\ \E r \in PanelButtons :
          /\ elevator' \in fsm_onRequestButtonPress(elevator, r)
          /\ timer' = IF \/ elevator'.behaviour = "DoorOpen" /\ elevator.behaviour = "Idle"
                         \/ /\ elevator.behaviour = "DoorOpen"
                            /\ requests_shouldClearImmediately(elevator, r)
                      THEN "set" ELSE timer
    /\ UNCHANGED <<poll, prev, shaft>>

\* No other button has changed.
ButtonsPolled ==
    /\ poll = "buttons" /\ ~elevator.crashed
    /\ poll' = "floor"
    /\ UNCHANGED <<elevator, timer, prev, shaft>>

PollFloor ==
    /\ poll = "floor" /\ ~elevator.crashed
    /\ poll' = "timer"
    /\ prev' = floorSensor
    /\ IF floorSensor \notin {Nowhere, prev}
       THEN /\ elevator' \in fsm_onFloorArrival(elevator, floorSensor)
            /\ timer' = IF elevator'.behaviour = "DoorOpen" /\ elevator.behaviour = "Moving"
                        THEN "set" ELSE timer
       ELSE UNCHANGED <<elevator, timer>>
    /\ UNCHANGED shaft

\* Mutant: the timer is not started again for the next requests of the floor.
PollTimerOnce ==
    /\ poll = "timer" /\ ~elevator.crashed
    /\ poll' = "buttons"
    /\ IF timer = "due"
       THEN elevator' \in fsm_onDoorTimeout(elevator) /\ timer' = "off"
       ELSE UNCHANGED <<elevator, timer>>
    /\ UNCHANGED <<prev, shaft>>

PollTimer ==
    /\ poll = "timer" /\ ~elevator.crashed
    /\ poll' = "buttons"
    /\ IF timer = "due"
       THEN /\ elevator' \in fsm_onDoorTimeout(elevator)
            /\ timer' = IF elevator'.behaviour = "DoorOpen" THEN "set" ELSE "off"
       ELSE UNCHANGED <<elevator, timer>>
    /\ UNCHANGED <<prev, shaft>>

TimePasses ==
    /\ timer = "set"
    /\ timer' = "due"
    /\ UNCHANGED <<elevator, poll, prev, shaft>>

CabMoves ==
    /\ prev = floorSensor
    /\ Cab!Move
    /\ UNCHANGED <<elevator, timer, poll, prev>>

Next ==
    \/ Press \/ ButtonsPolled \/ PollFloor \/ PollTimer
    \/ TimePasses \/ CabMoves

Spec == Init /\ [][Next]_vars

\* The loop goes round, time passes, and a powered cab moves.
Fairness ==
    /\ WF_vars(ButtonsPolled) /\ WF_vars(PollFloor) /\ WF_vars(PollTimer)
    /\ WF_vars(TimePasses)
    /\ WF_vars(CabMoves)

FairSpec == Spec /\ Fairness

-----------------------------------------------------------------------------
(* Properties *)

\* From any start, homing included and whatever is pressed meanwhile, the cab
\* stays in the shaft, the motor runs only while the door is shut, an open door
\* has its timer, and the lamps are the requests: through every order of polls,
\* also where the first press comes before the first floor.  If that press ends
\* the program, it leaves a cab that stands at a floor.
Coherent ==
    /\ TypeOK
    /\ ~Cab!outOfBounds
    /\ elevator.motor # D_Stop => elevator.behaviour = "Moving" /\ ~elevator.doorLight
    /\ elevator.behaviour = "DoorOpen" => elevator.doorLight /\ timer # "off"
    /\ IF elevator.crashed
       THEN elevator.motor = D_Stop /\ departDirn = D_Stop
       ELSE elevator.lights = elevator.requests

\* A request goes only where the cab is, with the motor off and the door open;
\* and never both hall requests of a floor at once, since the one that goes says
\* which way the cab will; unless it has no way to go (an elevator that was
\* asked before it had seen a floor can have both of them to serve).
ServedOneWay ==
    [][LET gone == elevator.requests \ elevator'.requests
       IN  /\ \A r \in gone : /\ r[1] = prevFloor /\ departDirn = D_Stop
                              /\ elevator'.motor = D_Stop /\ elevator'.doorLight
           /\ {"HallUp", "HallDown"} \subseteq {r[2] : r \in gone} =>
                elevator.dirn = D_Stop]_vars

\* A press while the door's time is up keeps the door open.  (One that comes
\* earlier starts the time anew; that it nevertheless ends, WF(TimePasses), is
\* to say that people leave the button alone for the door's three seconds.)
HeldOpen == poll = "buttons" /\ timer = "due" /\ timer' = "set"

\* Every request is served, unless somebody keeps the door open for ever or a
\* press before the first floor ends the program; and a request at the floor
\* where the cab stands idle is no exception.
RequestServed ==
    <>[][~HeldOpen]_vars /\ []~elevator.crashed =>
        \A r \in PanelButtons : r \in elevator.requests ~> r \notin elevator.requests
================================================================================
