----------------------------- MODULE ElevAlgoProofs -----------------------------
(***************************************************************************)
(* What holds of the C reference for every number of floors, every panel   *)
(* and every start position, homing and the reads before the first floor   *)
(* included.                                                               *)
(***************************************************************************)
EXTENDS ElevAlgo, TLAPS

\* What the handlers keep to, whatever the cab does.
Consistent(e) ==
    /\ e.behaviour = "Moving" <=> e.motor # D_Stop
    /\ e.behaviour = "Moving" => e.motor = e.dirn
    /\ e.behaviour = "Idle" => e.dirn = D_Stop
    /\ e.doorLight <=> e.behaviour = "DoorOpen"
    /\ IF e.crashed THEN e.behaviour = "DoorOpen" ELSE e.lights = e.requests

\* There is a reason to go the way the motor turns.
Ahead(e) ==
    /\ e.motor = D_Up => requests_above(e)
    /\ e.motor = D_Down => requests_below(e)

gone(e, n) == e.requests \ n.requests

\* The requests that leave do so at floor f, at an open door, and not both hall
\* requests with a direction to go.
ServedAt(e, n, f) ==
    /\ gone(e, n) # {} => n.motor = D_Stop /\ n.doorLight
    /\ \A r \in gone(e, n) : r[1] = f
    /\ {"HallUp", "HallDown"} \subseteq {r[2] : r \in gone(e, n)} => e.dirn = D_Stop

LEMMA FloorTypes ==
    /\ NumFloors \in Nat /\ NumFloors >= 1 /\ 0 \in Floors /\ Nowhere \notin Floors
    /\ Floors \subseteq Int /\ Nowhere = -1
    /\ D_Up = 1 /\ D_Down = -1 /\ D_Stop = 0 /\ Dirns = {1, -1, 0}
  BY ReferenceAssumption DEF Floors, Nowhere, D_Up, D_Down, D_Stop, Dirns

LEMMA ServedHere ==
    ASSUME NEW e \in Elevators
    PROVE  /\ served(e) \subseteq e.requests
           /\ \A r \in served(e) : r[1] = e.floor
           /\ {"HallUp", "HallDown"} \subseteq {r[2] : r \in served(e)} => e.dirn = D_Stop
  <1>1. e.dirn \in {D_Up, D_Down, D_Stop}
    BY DEF Elevators, Dirns
  <1>2. served(e) \subseteq e.requests /\ \A r \in served(e) : r[1] = e.floor
    BY <1>1, FloorTypes DEF served
  <1>3. ASSUME NEW r \in served(e), NEW q \in served(e), r[2] = "HallUp", q[2] = "HallDown"
        PROVE  e.dirn = D_Stop
    <2>1. r = <<e.floor, "HallUp">> /\ q = <<e.floor, "HallDown">>
      BY <1>1, <1>3, FloorTypes DEF served
    <2> QED
      BY <1>1, <1>2, <2>1, FloorTypes DEF served
  <1> QED
    BY <1>2, <1>3

\* A direction is chosen for a reason, and the door opens for one.
LEMMA DirectionChosen ==
    ASSUME NEW e \in Elevators, NEW pair \in requests_chooseDirection(e)
    PROVE  \/ pair = <<D_Up, "Moving">> /\ requests_above(e)
           \/ pair = <<D_Down, "Moving">> /\ requests_below(e)
           \/ pair = <<D_Stop, "Idle">>
           \/ pair = <<-e.dirn, "DoorOpen">>
  <1>1. PICK here \in BOOLEAN : pair = directionWith(e, here)
    BY DEF requests_chooseDirection, requests_here
  <1>2. e.dirn \in {D_Up, D_Down, D_Stop}
    BY DEF Elevators, Dirns
  <1> QED
    BY <1>1, <1>2, FloorTypes DEF directionWith

LEMMA Cleared ==
    ASSUME NEW e \in Elevators, NEW n \in requests_clearAtCurrentFloor(e)
    PROVE  /\ n \in Elevators
           /\ n.behaviour = e.behaviour /\ n.motor = e.motor
           /\ n.doorLight = e.doorLight /\ n.lights = e.lights
           /\ n.requests \subseteq e.requests
           /\ e.floor # Nowhere => /\ n.floor = e.floor /\ n.dirn = e.dirn
                                   /\ n.crashed = e.crashed
                                   /\ gone(e, n) = served(e)
           /\ e.floor = Nowhere => n.requests = e.requests /\ n.floor \in {Nowhere, 0}
  <1>1. CASE e.floor = Nowhere
    <2>1. CASE n = [e EXCEPT !.crashed = TRUE]
      BY <1>1, <2>1, FloorTypes DEF Elevators
    <2>2. ASSUME NEW f \in {Nowhere, 0}, n = [e EXCEPT !.floor = f, !.dirn = D_Stop]
          PROVE  /\ n \in Elevators /\ n.behaviour = e.behaviour /\ n.motor = e.motor
                 /\ n.doorLight = e.doorLight /\ n.lights = e.lights
                 /\ n.requests = e.requests /\ n.floor \in {Nowhere, 0}
      BY <1>1, <2>2, FloorTypes DEF Elevators
    <2> QED
      BY <1>1, <2>1, <2>2 DEF requests_clearAtCurrentFloor
  <1>2. CASE e.floor # Nowhere
    <2>1. n = [e EXCEPT !.requests = e.requests \ served(e)]
      BY <1>2 DEF requests_clearAtCurrentFloor
    <2>2. gone(e, n) = served(e)
      BY <2>1, ServedHere DEF gone, Elevators
    <2> QED
      BY <1>2, <2>1, <2>2 DEF Elevators
  <1> QED
    BY <1>1, <1>2

-----------------------------------------------------------------------------
(* The handlers *)

LEMMA LightsSet ==
    ASSUME NEW e \in Elevators
    PROVE  /\ setAllLights(e) \in Elevators
           /\ setAllLights(e).crashed = e.crashed
           /\ ~e.crashed => setAllLights(e).lights = e.requests
           /\ setAllLights(e).floor = e.floor /\ setAllLights(e).dirn = e.dirn
           /\ setAllLights(e).requests = e.requests
           /\ setAllLights(e).behaviour = e.behaviour
           /\ setAllLights(e).doorLight = e.doorLight /\ setAllLights(e).motor = e.motor
  BY DEF setAllLights, Elevators

\* What a press of r at e may give: n.
AfterPress(e, n) ==
    /\ n \in Elevators /\ Consistent(n)
    /\ e.behaviour # "Idle" => n.behaviour = e.behaviour /\ n.floor = e.floor
    /\ n.behaviour # "DoorOpen" => n.floor = e.floor
    /\ e.floor # Nowhere => n.floor = e.floor
    /\ n.behaviour = "Moving" /\ (e.behaviour = "Moving" => Ahead(e)) => Ahead(n)
    /\ gone(e, n) # {} => e.behaviour = "Idle" /\ e.floor # Nowhere
    /\ ServedAt(e, n, e.floor)

LEMMA PressStartsIdle ==
    ASSUME NEW e \in Elevators, Consistent(e), ~e.crashed, e.behaviour = "Idle",
           NEW r \in Requests,
           NEW n \in fsm_onRequestButtonPress(e, r)
    PROVE  AfterPress(e, n)
  <1> DEFINE asked == [e EXCEPT !.requests = e.requests \cup {r}]
  <1>1. asked \in Elevators /\ asked.behaviour = "Idle" /\ asked.motor = D_Stop
        /\ asked.doorLight = FALSE /\ asked.dirn = D_Stop /\ asked.floor = e.floor
        /\ e.requests \subseteq asked.requests /\ ~asked.crashed
    BY DEF Elevators, Consistent
  <1>8. PICK pair \in requests_chooseDirection(asked) :
            \E next \in startedBy(asked, pair) : n = setAllLights(next)
    BY DEF fsm_onRequestButtonPress
  <1>2. PICK next \in startedBy(asked, pair) : n = setAllLights(next)
    BY <1>8
  <1> HIDE DEF asked
  <1>3. asked.dirn = D_Stop /\ e.dirn = D_Stop
    BY <1>1 DEF Consistent
  <1>4. CASE pair = <<D_Up, "Moving">> /\ requests_above(asked)
    <2>1. next = [asked EXCEPT !.dirn = D_Up, !.behaviour = "Moving", !.motor = D_Up]
      BY <1>1, <1>2, <1>4, FloorTypes DEF startedBy, decided, Elevators
    <2>2. next \in Elevators /\ requests_above(next)
      BY <1>1, <1>4, <2>1, FloorTypes DEF Elevators, requests_above
    <2>5. next.floor = e.floor /\ next.behaviour = "Moving" /\ next.dirn = D_Up
          /\ next.motor = D_Up /\ next.doorLight = FALSE /\ next.requests = asked.requests
          /\ ~next.crashed
      BY <1>1, <2>1 DEF Elevators
    <2>3. n \in Elevators /\ n.floor = e.floor /\ n.behaviour = "Moving" /\ n.dirn = D_Up
          /\ n.motor = D_Up /\ n.doorLight = FALSE /\ n.lights = n.requests
          /\ n.requests = asked.requests /\ ~n.crashed
      BY <1>2, <2>2, <2>5, LightsSet
    <2>4. gone(e, n) = {} /\ requests_above(n)
      BY <1>1, <1>2, <2>2, <2>3, LightsSet DEF gone, requests_above
    <2> QED
      BY <1>1, <2>3, <2>4, FloorTypes DEF AfterPress, Consistent, Ahead, ServedAt
  <1>5. CASE pair = <<D_Down, "Moving">> /\ requests_below(asked)
    <2>1. next = [asked EXCEPT !.dirn = D_Down, !.behaviour = "Moving", !.motor = D_Down]
      BY <1>1, <1>2, <1>5, FloorTypes DEF startedBy, decided, Elevators
    <2>2. next \in Elevators /\ requests_below(next)
      BY <1>1, <1>5, <2>1, FloorTypes DEF Elevators, requests_below
    <2>5. next.floor = e.floor /\ next.behaviour = "Moving" /\ next.dirn = D_Down
          /\ next.motor = D_Down /\ next.doorLight = FALSE /\ next.requests = asked.requests
          /\ ~next.crashed
      BY <1>1, <2>1 DEF Elevators
    <2>3. n \in Elevators /\ n.floor = e.floor /\ n.behaviour = "Moving" /\ n.dirn = D_Down
          /\ n.motor = D_Down /\ n.doorLight = FALSE /\ n.lights = n.requests
          /\ n.requests = asked.requests /\ ~n.crashed
      BY <1>2, <2>2, <2>5, LightsSet
    <2>4. gone(e, n) = {} /\ requests_below(n)
      BY <1>1, <1>2, <2>2, <2>3, LightsSet DEF gone, requests_below
    <2> QED
      BY <1>1, <2>3, <2>4, FloorTypes DEF AfterPress, Consistent, Ahead, ServedAt
  <1>6. CASE pair = <<D_Stop, "Idle">>
    <2>1. next = [asked EXCEPT !.dirn = D_Stop, !.behaviour = "Idle"]
      BY <1>1, <1>2, <1>6 DEF startedBy, decided
    <2>2. /\ next \in Elevators /\ next.floor = e.floor /\ next.behaviour = "Idle"
          /\ next.dirn = D_Stop /\ next.motor = D_Stop /\ next.doorLight = FALSE
          /\ next.requests = asked.requests /\ ~next.crashed
      BY <1>1, <2>1, FloorTypes DEF Elevators
    <2>3. n \in Elevators /\ n.floor = e.floor /\ n.behaviour = "Idle" /\ n.dirn = D_Stop
          /\ n.motor = D_Stop /\ n.doorLight = FALSE /\ n.lights = n.requests
          /\ n.requests = asked.requests /\ ~n.crashed
      BY <1>2, <2>2, LightsSet
    <2>4. gone(e, n) = {}
      BY <1>1, <2>3 DEF gone
    <2> QED
      BY <1>1, <2>3, <2>4, FloorTypes DEF AfterPress, Consistent, ServedAt
  <1>7. CASE pair = <<-asked.dirn, "DoorOpen">>
    <2> DEFINE open == [asked EXCEPT !.dirn = D_Stop, !.behaviour = "DoorOpen", !.doorLight = TRUE]
    <2>9. pair[1] = D_Stop /\ pair[2] = "DoorOpen"
      <3>2. asked.dirn \in Int
        BY <1>3, FloorTypes
      <3>3. \A d \in Int : -d = 0 - d
        OBVIOUS
      <3>1. pair[1] = 0 - asked.dirn /\ pair[2] = "DoorOpen"
        BY <1>7, <3>2, <3>3
      <3> QED
        BY <1>3, <3>1, FloorTypes
    <2>8. decided(asked, pair) = [asked EXCEPT !.dirn = D_Stop, !.behaviour = "DoorOpen"]
      BY <2>9 DEF decided
    <2>1. next \in requests_clearAtCurrentFloor(open)
      <3>1. [decided(asked, pair) EXCEPT !.doorLight = TRUE] = open
        BY <1>1, <2>8 DEF Elevators
      <3> QED
        BY <1>2, <2>9, <3>1 DEF startedBy
    <2>2. open \in Elevators /\ open.floor = e.floor /\ open.behaviour = "DoorOpen"
          /\ open.motor = D_Stop /\ open.doorLight = TRUE /\ open.requests = asked.requests
      BY <1>1, FloorTypes DEF Elevators
    <2> HIDE DEF open
    <2>3. /\ next \in Elevators /\ next.behaviour = "DoorOpen" /\ next.motor = D_Stop
          /\ next.doorLight = TRUE
          /\ e.floor # Nowhere => next.floor = e.floor /\ gone(open, next) = served(open)
          /\ e.floor = Nowhere => next.requests = open.requests
      BY <2>1, <2>2, Cleared
    <2>4. /\ n \in Elevators /\ n.behaviour = "DoorOpen" /\ n.motor = D_Stop
          /\ n.doorLight = TRUE
          /\ ~n.crashed => n.lights = n.requests
          /\ n.requests = next.requests /\ n.floor = next.floor
      BY <1>2, <2>3, LightsSet
    <2>5. gone(e, n) \subseteq gone(open, next)
      BY <1>1, <2>2, <2>4 DEF gone
    <2>6. gone(e, n) # {} => e.floor # Nowhere
      BY <1>1, <2>2, <2>3, <2>5 DEF gone
    <2>7. \A q \in gone(e, n) : q[1] = e.floor
      BY <2>2, <2>3, <2>5, <2>6, ServedHere
    <2> QED
      BY <1>3, <2>3, <2>4, <2>6, <2>7, FloorTypes DEF AfterPress, Consistent, ServedAt
  <1> QED
    BY <1>1, <1>2, <1>4, <1>5, <1>6, <1>7, DirectionChosen

LEMMA PressHandled ==
    ASSUME NEW e \in Elevators, Consistent(e), ~e.crashed, NEW r \in Requests,
           NEW n \in fsm_onRequestButtonPress(e, r)
    PROVE  AfterPress(e, n)
  <1> DEFINE asked == [e EXCEPT !.requests = e.requests \cup {r}]
  <1>1. CASE e.behaviour = "Idle"
    BY <1>1, PressStartsIdle
  <1>2. CASE e.behaviour \in {"DoorOpen", "Moving"}
    <2>1. PICK next \in {e, asked} : n = setAllLights(next)
      BY <1>2 DEF fsm_onRequestButtonPress
    <2>2. next \in Elevators /\ next.floor = e.floor /\ next.behaviour = e.behaviour
          /\ next.dirn = e.dirn /\ next.motor = e.motor /\ next.doorLight = e.doorLight
          /\ e.requests \subseteq next.requests /\ ~next.crashed
      BY DEF Elevators
    <2>3. n \in Elevators /\ n.floor = e.floor /\ n.behaviour = e.behaviour
          /\ n.dirn = e.dirn /\ n.motor = e.motor /\ n.doorLight = e.doorLight
          /\ n.lights = n.requests /\ n.requests = next.requests /\ ~n.crashed
      BY <2>1, <2>2, LightsSet
    <2>4. Consistent(n)
      BY <2>3 DEF Consistent
    <2>5. Ahead(e) => Ahead(n)
      BY <2>2, <2>3 DEF Ahead, requests_above, requests_below
    <2>6. gone(e, n) = {}
      BY <2>2, <2>3 DEF gone
    <2> QED
      BY <1>2, <2>3, <2>4, <2>5, <2>6 DEF AfterPress, ServedAt
  <1> QED
    BY <1>1, <1>2 DEF Elevators

\* What the cab's arrival at floor f may give.
AfterArrival(e, n, f) ==
    /\ n \in Elevators /\ Consistent(n) /\ n.floor = f
    /\ n.behaviour \in {e.behaviour, "DoorOpen"}
    /\ n.behaviour # e.behaviour => e.behaviour = "Moving"
    /\ n.behaviour = "Moving" => Ahead(n)
    /\ ServedAt(e, n, f)

LEMMA ArrivalHandled ==
    ASSUME NEW e \in Elevators, Consistent(e), ~e.crashed, NEW f \in Floors,
           NEW n \in fsm_onFloorArrival(e, f)
    PROVE  AfterArrival(e, n, f)
  <1> DEFINE at == [e EXCEPT !.floor = f]
  <1>1. at \in Elevators /\ at.floor = f /\ f # Nowhere /\ at.dirn = e.dirn
        /\ at.requests = e.requests /\ at.behaviour = e.behaviour /\ at.motor = e.motor
        /\ at.doorLight = e.doorLight /\ at.lights = e.lights /\ ~at.crashed
    BY FloorTypes DEF Elevators
  <1>2. e.dirn \in {D_Up, D_Down, D_Stop}
    BY DEF Elevators, Dirns
  <1>3. CASE ~(e.behaviour = "Moving" /\ requests_shouldStop(at))
    <2>1. n = at
      BY <1>3 DEF fsm_onFloorArrival
    <2> HIDE DEF at
    <2>2. Consistent(n) /\ gone(e, n) = {}
      BY <1>1, <2>1 DEF Consistent, gone
    <2>3. n.behaviour = "Moving" => Ahead(n)
      BY <1>1, <1>3, <2>1, FloorTypes DEF Ahead, requests_shouldStop, Consistent
    <2>4. ServedAt(e, n, f)
      BY <2>2 DEF ServedAt
    <2>5. n \in Elevators /\ n.floor = f /\ n.behaviour = e.behaviour
      BY <1>1, <2>1
    <2> QED
      BY <2>2, <2>3, <2>4, <2>5 DEF AfterArrival
  <1>4. CASE e.behaviour = "Moving" /\ requests_shouldStop(at)
    <2>1. PICK next \in requests_clearAtCurrentFloor(at) :
              n = [setAllLights(next) EXCEPT !.motor = D_Stop, !.doorLight = TRUE,
                                             !.behaviour = "DoorOpen"]
      BY <1>4 DEF fsm_onFloorArrival
    <2> HIDE DEF at
    <2>2. next \in Elevators /\ next.floor = f /\ next.dirn = e.dirn
          /\ next.requests \subseteq e.requests /\ gone(at, next) = served(at) /\ ~next.crashed
      BY <1>1, Cleared
    <2>3. n \in Elevators /\ n.floor = f /\ n.behaviour = "DoorOpen" /\ n.motor = D_Stop
          /\ n.doorLight = TRUE /\ n.requests = next.requests /\ n.lights = n.requests
          /\ ~n.crashed
      <3> DEFINE lit == setAllLights(next)
      <3>1. lit \in Elevators /\ lit.floor = f /\ lit.requests = next.requests
            /\ lit.lights = next.requests /\ ~lit.crashed
        BY <2>2, LightsSet
      <3>2. n = [lit EXCEPT !.motor = D_Stop, !.doorLight = TRUE, !.behaviour = "DoorOpen"]
        BY <2>1
      <3> HIDE DEF lit
      <3> QED
        BY <3>1, <3>2, FloorTypes DEF Elevators
    <2>4. gone(e, n) = served(at)
      BY <1>1, <2>2, <2>3 DEF gone
    <2>5. ServedAt(e, n, f)
      BY <1>1, <2>3, <2>4, ServedHere DEF ServedAt
    <2>6. Consistent(n)
      BY <2>3 DEF Consistent
    <2> QED
      BY <1>4, <2>3, <2>5, <2>6 DEF AfterArrival
  <1> QED
    BY <1>3, <1>4

\* What the end of the door's time may give, at a floor the elevator knows.
AfterTimeout(e, n) ==
    /\ n \in Elevators /\ Consistent(n) /\ n.floor = e.floor
    /\ e.behaviour # "DoorOpen" => n = e
    /\ n.behaviour = "Moving" /\ e.behaviour = "DoorOpen" => Ahead(n)
    /\ ServedAt(e, n, e.floor)

LEMMA TimeoutHandled ==
    ASSUME NEW e \in Elevators, Consistent(e), ~e.crashed,
           e.behaviour = "DoorOpen" => e.floor # Nowhere,
           NEW n \in fsm_onDoorTimeout(e)
    PROVE  AfterTimeout(e, n)
  <1>1. CASE e.behaviour # "DoorOpen"
    <2>1. n = e
      BY <1>1 DEF fsm_onDoorTimeout
    <2> QED
      BY <1>1, <2>1 DEF AfterTimeout, ServedAt, gone
  <1>2. CASE e.behaviour = "DoorOpen"
    <2>1. PICK pair \in requests_chooseDirection(e) :
              n \in IF pair[2] = "DoorOpen"
                    THEN {setAllLights(next) : next \in requests_clearAtCurrentFloor(decided(e, pair))}
                    ELSE {[decided(e, pair) EXCEPT !.doorLight = FALSE, !.motor = pair[1]]}
      BY <1>2 DEF fsm_onDoorTimeout
    <2>2. e.motor = D_Stop /\ e.doorLight = TRUE /\ e.lights = e.requests
          /\ e.dirn \in {D_Up, D_Down, D_Stop}
      BY <1>2 DEF Consistent, Elevators, Dirns
    <2>3. ASSUME NEW d \in Dirns, NEW b \in {"Idle", "Moving"}, pair = <<d, b>>,
                 b = "Moving" <=> d # D_Stop,
                 d = D_Up => requests_above(e), d = D_Down => requests_below(e)
          PROVE  AfterTimeout(e, n)
      <3>1. n = [e EXCEPT !.dirn = d, !.behaviour = b, !.doorLight = FALSE, !.motor = d]
        BY <2>1, <2>3 DEF decided, Elevators
      <3>2. n \in Elevators /\ n.floor = e.floor /\ n.behaviour = b /\ n.dirn = d
            /\ n.motor = d /\ n.doorLight = FALSE /\ n.requests = e.requests
            /\ n.lights = n.requests /\ ~n.crashed
        BY <2>2, <3>1 DEF Elevators
      <3>3. Consistent(n)
        BY <2>3, <3>2 DEF Consistent
      <3>4. Ahead(n)
        BY <2>3, <3>2 DEF Ahead, requests_above, requests_below
      <3>5. ServedAt(e, n, e.floor)
        BY <3>2 DEF ServedAt, gone
      <3> QED
        BY <1>2, <3>2, <3>3, <3>4, <3>5 DEF AfterTimeout
    <2>4. CASE pair = <<-e.dirn, "DoorOpen">>
      <3> DEFINE turned == decided(e, pair)
      <3>1. turned \in Elevators /\ turned.floor = e.floor /\ turned.dirn = -e.dirn
            /\ turned.behaviour = "DoorOpen" /\ turned.motor = D_Stop
            /\ turned.doorLight = TRUE /\ turned.requests = e.requests /\ ~turned.crashed
        <4>1. -e.dirn \in Dirns /\ pair[1] = -e.dirn /\ pair[2] = "DoorOpen"
          BY <2>2, <2>4, FloorTypes
        <4>2. turned = [e EXCEPT !.dirn = -e.dirn, !.behaviour = "DoorOpen"]
          BY <4>1 DEF decided
        <4> QED
          BY <1>2, <2>2, <4>1, <4>2 DEF Elevators
      <3>2. PICK next \in requests_clearAtCurrentFloor(turned) : n = setAllLights(next)
        BY <2>1, <2>4
      <3> HIDE DEF turned
      <3>3. next \in Elevators /\ next.floor = e.floor /\ next.behaviour = "DoorOpen"
            /\ next.motor = D_Stop /\ next.doorLight = TRUE /\ gone(turned, next) = served(turned)
            /\ ~next.crashed
        BY <1>2, <3>1, Cleared
      <3>4. n \in Elevators /\ n.floor = e.floor /\ n.behaviour = "DoorOpen"
            /\ n.motor = D_Stop /\ n.doorLight = TRUE /\ n.requests = next.requests
            /\ n.lights = n.requests /\ ~n.crashed
        BY <3>2, <3>3, LightsSet
      <3>5. gone(e, n) = served(turned)
        BY <3>1, <3>3, <3>4 DEF gone
      <3>6. ServedAt(e, n, e.floor)
        <4>1. \A r \in served(turned) : r[1] = e.floor
          BY <3>1, ServedHere
        <4>2. {"HallUp", "HallDown"} \subseteq {r[2] : r \in served(turned)} => e.dirn = D_Stop
          BY <2>2, <3>1, ServedHere, FloorTypes
        <4> QED
          BY <3>4, <3>5, <4>1, <4>2 DEF ServedAt
      <3>7. Consistent(n)
        BY <3>4 DEF Consistent
      <3> QED
        BY <1>2, <3>4, <3>6, <3>7 DEF AfterTimeout
    <2> QED
      BY <2>3, <2>4, DirectionChosen, FloorTypes
  <1> QED
    BY <1>1, <1>2

-----------------------------------------------------------------------------
(***************************************************************************)
(* The invariant.  Between two floors the elevator is moving; once the      *)
(* floor sensor has been polled at a floor the elevator knows that floor,   *)
(* and leaves it only where a request is further on.                        *)
(***************************************************************************)
Known ==
    /\ prev \in {prevFloor, Nowhere}
    /\ prev = prevFloor => elevator.floor = prevFloor
    /\ elevator.behaviour = "Idle" => elevator.floor \in {prevFloor, Nowhere}
    /\ poll = "timer" /\ elevator.behaviour # "Moving" => prev = prevFloor

Inv ==
    /\ TypeOK
    /\ Consistent(elevator)
    /\ elevator.behaviour = "DoorOpen" => timer # "off"
    /\ prevFloor + departDirn \in Floors
    /\ elevator.behaviour # "Moving" => departDirn = D_Stop
    /\ Known
    /\ elevator.behaviour = "Moving" /\ prev = prevFloor => Ahead(elevator)

LEMMA InitInv == Init => Inv
  <1> SUFFICES ASSUME Init PROVE Inv
    OBVIOUS
  <1>1. PICK p \in StartPositions : prevFloor = p[1] /\ departDirn = p[2]
    BY DEF Init
  <1>2. prevFloor \in Floors /\ departDirn \in Dirns /\ prevFloor + departDirn \in Floors
    BY <1>1, ReferenceAssumption
  <1>3. timer = "off" /\ poll = "buttons" /\ prev = Nowhere
        /\ elevator = IF floorSensor = Nowhere
                      THEN fsm_onInitBetweenFloors(elevator_uninitialized)
                      ELSE elevator_uninitialized
    BY DEF Init
  <1>4. CASE departDirn = D_Stop
    <2>1. elevator = elevator_uninitialized
      BY <1>2, <1>3, <1>4, FloorTypes DEF floorSensor
    <2>2. elevator.behaviour = "Idle" /\ elevator.floor = Nowhere /\ elevator.motor = D_Stop
          /\ elevator.dirn = D_Stop /\ ~elevator.doorLight /\ elevator.lights = {}
          /\ elevator.requests = {} /\ elevator \in Elevators /\ ~elevator.crashed
      BY <2>1, FloorTypes DEF elevator_uninitialized, Elevators
    <2> QED
      BY <1>2, <1>3, <1>4, <2>2, FloorTypes DEF Inv, TypeOK, Consistent, Known
  <1>5. CASE departDirn # D_Stop
    <2>1. elevator = fsm_onInitBetweenFloors(elevator_uninitialized)
      BY <1>3, <1>5 DEF floorSensor
    <2>2. elevator.behaviour = "Moving" /\ elevator.floor = Nowhere /\ elevator.motor = D_Down
          /\ elevator.dirn = D_Down /\ ~elevator.doorLight /\ elevator.lights = {}
          /\ elevator.requests = {} /\ elevator \in Elevators /\ ~elevator.crashed
      BY <2>1, FloorTypes DEF fsm_onInitBetweenFloors, elevator_uninitialized, Elevators
    <2> QED
      BY <1>2, <1>3, <2>2, FloorTypes DEF Inv, TypeOK, Consistent, Known
  <1> QED
    BY <1>4, <1>5

\* What a step takes away from the requests.
ServedOnly ==
    /\ \A r \in gone(elevator, elevator') :
          /\ r[1] = prevFloor /\ departDirn = D_Stop
          /\ elevator'.motor = D_Stop /\ elevator'.doorLight
    /\ {"HallUp", "HallDown"} \subseteq {r[2] : r \in gone(elevator, elevator')} =>
          elevator.dirn = D_Stop

LEMMA PressStep == ASSUME Inv, Press PROVE Inv' /\ ServedOnly
  <1> USE DEF Inv
  <1>1. PICK r \in PanelButtons :
            /\ elevator' \in fsm_onRequestButtonPress(elevator, r)
            /\ timer' = IF \/ elevator'.behaviour = "DoorOpen" /\ elevator.behaviour = "Idle"
                           \/ /\ elevator.behaviour = "DoorOpen"
                              /\ requests_shouldClearImmediately(elevator, r)
                        THEN "set" ELSE timer
    BY DEF Press
  <1>2. poll = "buttons" /\ ~elevator.crashed /\ UNCHANGED <<poll, prev, prevFloor, departDirn>>
    BY DEF Press, shaft
  <1>3. elevator \in Elevators /\ r \in Requests
    BY ReferenceAssumption DEF TypeOK
  <1>4. AfterPress(elevator, elevator')
    BY <1>1, <1>2, <1>3, PressHandled
  <1>5. elevator.behaviour \in {"Idle", "DoorOpen", "Moving"}
        /\ elevator'.behaviour \in {"Idle", "DoorOpen", "Moving"}
    BY <1>3, <1>4 DEF AfterPress, Elevators
  <1>6. TypeOK' /\ Consistent(elevator)'
    BY <1>1, <1>2, <1>4 DEF AfterPress, TypeOK, Consistent
  <1>7. elevator'.behaviour = "DoorOpen" => timer' # "off"
    BY <1>1, <1>4, <1>5 DEF AfterPress
  <1>8. elevator'.behaviour # "Moving" => departDirn' = D_Stop
    BY <1>2, <1>4, <1>5 DEF AfterPress
  <1>9. Known'
    <2>1. prev = prevFloor => elevator'.floor = prevFloor
      BY <1>4, FloorTypes DEF AfterPress, Known, TypeOK
    <2>2. elevator'.behaviour = "Idle" => elevator'.floor \in {prevFloor, Nowhere}
      BY <1>4, <1>5 DEF AfterPress, Known
    <2> QED
      BY <1>2, <2>1, <2>2 DEF Known
  <1>10. elevator'.behaviour = "Moving" /\ prev = prevFloor => Ahead(elevator')
    BY <1>4 DEF AfterPress
  <1>11. ServedOnly
    <2>1. gone(elevator, elevator') # {} =>
              elevator.floor = prevFloor /\ departDirn = D_Stop
      BY <1>4 DEF AfterPress, Known
    <2> QED
      BY <1>4, <2>1 DEF AfterPress, ServedAt, ServedOnly
  <1> QED
    BY <1>2, <1>6, <1>7, <1>8, <1>9, <1>10, <1>11

LEMMA PollFloorStep == ASSUME Inv, PollFloor PROVE Inv' /\ ServedOnly
  <1> USE DEF Inv
  <1>1. /\ ~elevator.crashed /\ poll' = "timer" /\ prev' = floorSensor
        /\ IF floorSensor \notin {Nowhere, prev}
           THEN /\ elevator' \in fsm_onFloorArrival(elevator, floorSensor)
                /\ timer' = IF elevator'.behaviour = "DoorOpen" /\ elevator.behaviour = "Moving"
                            THEN "set" ELSE timer
           ELSE UNCHANGED <<elevator, timer>>
        /\ UNCHANGED <<prevFloor, departDirn>>
    BY DEF PollFloor, shaft
  <1>2. CASE floorSensor \notin {Nowhere, prev}
    <2>1. departDirn = D_Stop /\ floorSensor = prevFloor /\ prevFloor \in Floors
      BY <1>2 DEF floorSensor, TypeOK
    <2>2. AfterArrival(elevator, elevator', prevFloor)
      BY <1>1, <1>2, <2>1, ArrivalHandled DEF TypeOK
    <2>3. elevator'.behaviour = "DoorOpen" => timer' # "off"
      BY <1>1, <1>2, <2>2 DEF AfterArrival
    <2>4. TypeOK'
      BY <1>1, <1>2, <2>1, <2>2 DEF AfterArrival, TypeOK
    <2>5. Known'
      BY <1>1, <2>1, <2>2 DEF AfterArrival, Known
    <2>6. ServedOnly
      BY <2>1, <2>2 DEF AfterArrival, ServedAt, ServedOnly
    <2> QED
      BY <1>1, <2>1, <2>2, <2>3, <2>4, <2>5, <2>6 DEF AfterArrival, Consistent, Ahead
  <1>3. CASE floorSensor \in {Nowhere, prev}
    <2>1. elevator' = elevator /\ timer' = timer
      BY <1>1, <1>3
    <2>2. prev' \in {Nowhere, prev} /\ prev' \in {prevFloor, Nowhere}
          /\ (departDirn = D_Stop => prev' = prevFloor)
      BY <1>1, <1>3 DEF floorSensor
    <2>3. prevFloor # Nowhere
      BY FloorTypes DEF TypeOK
    <2>4. TypeOK'
      BY <1>1, <2>1, <2>2 DEF TypeOK
    <2>5. Known'
      BY <1>1, <2>1, <2>2, <2>3 DEF Known
    <2>6. ServedOnly
      BY <2>1 DEF ServedOnly, gone
    <2>7. elevator'.behaviour = "Moving" /\ prev' = prevFloor' => Ahead(elevator)
      BY <1>1, <2>1, <2>2, <2>3
    <2> QED
      BY <1>1, <2>1, <2>4, <2>5, <2>6, <2>7
  <1> QED
    BY <1>2, <1>3

LEMMA PollTimerStep == ASSUME Inv, PollTimer PROVE Inv' /\ ServedOnly
  <1> USE DEF Inv
  <1>1. /\ ~elevator.crashed /\ poll = "timer" /\ poll' = "buttons"
        /\ IF timer = "due"
           THEN /\ elevator' \in fsm_onDoorTimeout(elevator)
                /\ timer' = IF elevator'.behaviour = "DoorOpen" THEN "set" ELSE "off"
           ELSE UNCHANGED <<elevator, timer>>
        /\ UNCHANGED <<prev, prevFloor, departDirn>>
    BY DEF PollTimer, shaft
  <1>2. CASE timer = "due"
    <2>1. elevator.behaviour # "Moving" =>
              elevator.floor = prevFloor /\ prev = prevFloor /\ departDirn = D_Stop
      BY <1>1 DEF Known
    <2>2. elevator.behaviour = "DoorOpen" => elevator.floor # Nowhere
      BY <2>1, FloorTypes DEF TypeOK
    <2>3. AfterTimeout(elevator, elevator')
      BY <1>1, <1>2, <2>2, TimeoutHandled DEF TypeOK
    <2>4. TypeOK' /\ Consistent(elevator)' /\ (elevator'.behaviour = "DoorOpen" => timer' # "off")
      BY <1>1, <1>2, <2>3 DEF AfterTimeout, TypeOK, Consistent
    <2>5. elevator.behaviour \in {"Idle", "DoorOpen", "Moving"}
      BY DEF TypeOK, Elevators
    <2>6. elevator.behaviour = "DoorOpen" \/ elevator' = elevator
      BY <2>3 DEF AfterTimeout
    <2>7. elevator'.behaviour # "Moving" => departDirn' = D_Stop
      BY <1>1, <2>1, <2>6
    <2>8. Known'
      BY <1>1, <2>1, <2>3, <2>6 DEF AfterTimeout, Known
    <2>9. elevator'.behaviour = "Moving" /\ prev' = prevFloor' => Ahead(elevator')
      BY <1>1, <2>3, <2>6 DEF AfterTimeout
    <2>10. ServedOnly
      <3>1. gone(elevator, elevator') # {} => elevator.behaviour = "DoorOpen"
        BY <2>6 DEF gone
      <3> QED
        BY <2>1, <2>3, <3>1 DEF AfterTimeout, ServedAt, ServedOnly
    <2> QED
      BY <1>1, <2>4, <2>7, <2>8, <2>9, <2>10
  <1>3. CASE timer # "due"
    <2>1. elevator' = elevator /\ timer' = timer
      BY <1>1, <1>3
    <2>2. ServedOnly
      BY <2>1 DEF ServedOnly, gone
    <2> QED
      BY <1>1, <2>1, <2>2 DEF TypeOK, Known, Consistent, Ahead
  <1> QED
    BY <1>2, <1>3

\* The cab leaves a floor for a request further on, and that one is in the shaft.
LEMMA CabStep == ASSUME Inv, CabMoves PROVE Inv' /\ ServedOnly
  <1> USE DEF Inv
  <1>1. /\ prev = floorSensor /\ UNCHANGED <<elevator, timer, poll, prev>>
        /\ elevator.motor # 0
        /\ \/ /\ departDirn = 0 /\ departDirn' = elevator.motor /\ prevFloor' = prevFloor
           \/ /\ departDirn # 0 /\ departDirn' = 0
              /\ prevFloor' = IF departDirn = elevator.motor
                              THEN prevFloor + elevator.motor ELSE prevFloor
    BY DEF CabMoves, Cab!Move, Cab!Depart, Cab!Arrive
  <1>2. elevator.behaviour = "Moving" /\ elevator.motor \in {1, -1, 0}
    BY <1>1, FloorTypes DEF Consistent, TypeOK, Elevators
  <1>3. ServedOnly
    BY <1>1 DEF ServedOnly, gone
  <1>4. prevFloor \in Floors /\ departDirn \in {1, -1, 0}
    BY FloorTypes DEF TypeOK
  <1>5. CASE departDirn = 0
    <2>1. prev = prevFloor /\ elevator.floor = prevFloor /\ Ahead(elevator)
      BY <1>1, <1>2, <1>5, FloorTypes DEF floorSensor, Known
    <2>2. \A r \in elevator.requests : r[1] \in Floors
      BY DEF TypeOK, Elevators, Requests
    <2>3. prevFloor + elevator.motor \in Floors
      <3>1. CASE elevator.motor = 1
        <4>1. PICK r \in elevator.requests : r[1] > prevFloor
          BY <2>1, <3>1, FloorTypes DEF Ahead, requests_above
        <4> QED
          BY <1>4, <2>2, <3>1, <4>1, FloorTypes DEF Floors
      <3>2. CASE elevator.motor = -1
        <4>1. PICK r \in elevator.requests : r[1] < prevFloor
          BY <2>1, <3>2, FloorTypes DEF Ahead, requests_below
        <4> QED
          BY <1>4, <2>2, <3>2, <4>1, FloorTypes DEF Floors
      <3> QED
        BY <1>1, <1>2, <3>1, <3>2
    <2>4. departDirn' = elevator.motor /\ prevFloor' = prevFloor
      BY <1>1, <1>5
    <2>5. TypeOK'
      BY <1>1, <1>2, <1>4, <2>4, FloorTypes DEF TypeOK
    <2> QED
      BY <1>1, <1>2, <1>3, <2>1, <2>3, <2>4, <2>5 DEF Known, Consistent, Ahead
  <1>6. CASE departDirn # 0
    <2>1. prev = Nowhere
      BY <1>1, <1>6, FloorTypes DEF floorSensor
    <2>2. departDirn' = 0 /\ prevFloor' \in Floors
      BY <1>1, <1>4, <1>6
    <2>3. prev' # prevFloor' /\ prevFloor' + departDirn' \in Floors
      BY <1>1, <2>1, <2>2, FloorTypes
    <2>4. TypeOK'
      BY <1>1, <2>2, FloorTypes DEF TypeOK
    <2> QED
      BY <1>1, <1>2, <1>3, <2>1, <2>2, <2>3, <2>4 DEF Known, Consistent
  <1> QED
    BY <1>5, <1>6

LEMMA NextInv == ASSUME Inv, [Next]_vars PROVE Inv' /\ ServedOnly
  <1>1. CASE ButtonsPolled \/ TimePasses \/ UNCHANGED vars
    <2>1. /\ elevator' = elevator /\ prev' = prev
          /\ prevFloor' = prevFloor /\ departDirn' = departDirn
          /\ poll' = poll \/ poll' = "floor"
          /\ timer' = timer \/ timer' = "due"
      BY <1>1 DEF ButtonsPolled, TimePasses, vars, shaft
    <2>2. ServedOnly
      BY <2>1 DEF ServedOnly, gone
    <2> QED
      BY <2>1, <2>2 DEF Inv, TypeOK, Known, Consistent, Ahead
  <1> QED
    BY <1>1, PressStep, PollFloorStep, PollTimerStep, CabStep DEF Next

-----------------------------------------------------------------------------
(* The theorems *)

\* From every start, homing included, the cab stays in the shaft, and motor, door,
\* timer and lamps stay together (elev_algo/main.c, fsm.c, requests.c), for every
\* number of floors; and where a press before the first floor, which writes outside
\* the requests array (requests.c:90, 108-109), ends the program, the cab stands.
THEOREM AlwaysCoherent == Spec => []Coherent
  <1>1. Inv => Coherent
    <2> SUFFICES ASSUME Inv PROVE Coherent
      OBVIOUS
    <2>1. ~Cab!outOfBounds
      BY DEF Inv, Cab!outOfBounds, Floors
    <2> QED
      BY <2>1 DEF Inv, Consistent, Coherent
  <1>2. Inv /\ [Next]_vars => Inv'
    BY NextInv
  <1> QED
    BY <1>1, <1>2, InitInv, PTL DEF Spec

\* A stop serves the requests of the floor where the cab stands, and of the two hall
\* requests only the one that it goes on with (requests.c:88-113).
THEOREM OneWayServed == Spec => ServedOneWay
  <1>1. Inv /\ [Next]_vars => Inv'
    BY NextInv
  <1>2. Inv /\ [Next]_vars => ServedOnly
    BY NextInv
  <1>3. ServedOnly =>
            [LET left == elevator.requests \ elevator'.requests
             IN  /\ \A r \in left : /\ r[1] = prevFloor /\ departDirn = D_Stop
                                    /\ elevator'.motor = D_Stop /\ elevator'.doorLight
                 /\ {"HallUp", "HallDown"} \subseteq {r[2] : r \in left} =>
                      elevator.dirn = D_Stop]_vars
    BY DEF ServedOnly, gone
  <1> QED
    BY <1>1, <1>2, <1>3, InitInv, PTL DEF Spec, ServedOneWay
================================================================================
