------------------------------- MODULE Simulator -------------------------------
(***************************************************************************)
(* The simulator's cab (simulator/src/sim_server.d, timer_event.d): a main *)
(* thread that takes one message after the other from its mailbox, timed   *)
(* events that a timer thread sends to that mailbox when they are due, and *)
(* a client (the controller) and a keyboard that send to it too.  The      *)
(* timer thread sorts its array: what counts is how many of each event are *)
(* in it.                                                                  *)
(*                                                                         *)
(* The cab moves by events only: FloorDeparture is pending while a powered *)
(* cab is at a floor, FloorArrival while it is between two.  Buttons,      *)
(* lamps and the switch are plain variables and are left out.              *)
(*                                                                         *)
(* A client may also ask for the configuration to be loaded again, at any  *)
(* time.  Spec is the simulator with any client; the controller of this    *)
(* repository never asks for it, nor does its model in Driver.             *)
(***************************************************************************)
EXTENDS Integers, Sequences

CONSTANTS
    NumFloors,               \* cfg.numFloors
    StopMotorOnDisconnect,   \* cfg.stopMotorOnDisconnect
    MaxMail,                 \* bound: messages that wait in the mailbox
    Racing                   \* may an event become due while a command that
                             \*   turns the motor waits

ASSUME SimulatorAssumption ==
    /\ NumFloors \in 2 .. 9
    /\ StopMotorOnDisconnect \in BOOLEAN
    /\ MaxMail \in Nat \ {0}
    /\ Racing \in BOOLEAN

Up   == 1
Down == -1
Stop == 0

Floors  == 0 .. NumFloors - 1
Between == -1                      \* currFloor between two floors

VARIABLES
    currDirn,     \* the motor
    currFloor,    \* the floor the cab is at, or Between
    departDirn,   \* the way the cab leaves or left prevFloor: Up or Down, never Stop
    prevFloor,    \* the floor the cab is at or was at last
    events,       \* timer_event.d: [e]: how often e, <<type, floor>>, is due later
    mailbox       \* what the main thread has not received yet

state == <<currDirn, currFloor, departDirn, prevFloor>>
vars  == <<state, events, mailbox>>

FloorArrival(f)   == <<"FloorArrival", f>>
FloorDeparture(f) == <<"FloorDeparture", f>>

\* One floor beyond the shaft, and the next: as far as the assertions allow.
Events == {"FloorArrival", "FloorDeparture"} \X (-1 .. NumFloors + 1)

\* What the operator's keys send: the motor's three and the way back into the
\* shaft.
Keys ==
    {<<"MotorDirection", d>> : d \in {Up, Down, Stop}} \cup
    {<<"ManualMoveWithinBounds", 0>>}

\* What the client, the operator and the connection send.
Commands == Keys \cup {<<"ClientDisconnected", 0>>}

outOfShaft(floor, dirn, prev) ==
    /\ floor = Between
    /\ \/ dirn = Down /\ prev = 0
       \/ dirn = Up /\ prev = NumFloors - 1

isOutOfBounds == outOfShaft(currFloor, departDirn, prevFloor)

\* A random start: at a floor, or between two; <<floor, dirn, prev>>.
Places ==
    {p \in (Floors \cup {Between}) \X {Up, Down} \X Floors :
        p[1] \in {p[3], Between} /\ ~outOfShaft(p[1], p[2], p[3])}

Init ==
    /\ \E p \in Places : currFloor = p[1] /\ departDirn = p[2] /\ prevFloor = p[3]
    /\ currDirn = Stop
    /\ events = [e \in Events |-> 0]
    /\ mailbox = <<>>

-----------------------------------------------------------------------------
(* The main thread: one action per message it handles. *)

received(type) == mailbox # <<>> /\ Head(mailbox)[1] = type
argument == Head(mailbox)[2]

\* deleteEvent and addEvent.
without(type) == [e \in Events |-> IF e[1] = type THEN 0 ELSE events[e]]
with(pending, added) == [e \in Events |-> pending[e] + (IF e \in added THEN 1 ELSE 0)]

\* Before a new direction counts, what was pending for the old one goes.
kept ==
    IF currFloor = Between THEN without("FloorArrival")
                           ELSE without("FloorDeparture")

\* Mutant: between floors the cab always goes on.
dueOnward(md) ==
    IF md = Stop THEN {}
    ELSE IF currFloor # Between THEN {FloorDeparture(currFloor)}
    ELSE {FloorArrival(prevFloor + md)}

\* Mutant: a command between floors starts no timer.
dueAtFloor(md) ==
    IF md # Stop /\ currFloor # Between THEN {FloorDeparture(currFloor)} ELSE {}

\* What the motor's new direction makes pending.
due(md) ==
    IF md = Stop THEN {}
    ELSE IF currFloor # Between THEN {FloorDeparture(currFloor)}
    ELSE {FloorArrival(IF departDirn = md THEN prevFloor + md ELSE prevFloor)}

setMotor(md) ==
    IF currDirn # md /\ ~isOutOfBounds
    THEN /\ currDirn' = md
         /\ events' = with(kept, due(md))
         /\ departDirn' = IF md # Stop /\ currFloor # Between
                          THEN md ELSE departDirn
         /\ UNCHANGED <<currFloor, prevFloor>>
    ELSE UNCHANGED <<state, events>>

OnMotorDirection ==
    /\ received("MotorDirection")
    /\ mailbox' = Tail(mailbox)
    /\ setMotor(argument)

\* What the handler of FloorArrival asserts.
ArrivalAsserts(f) ==
    /\ currDirn # Stop
    /\ f \in 0 .. NumFloors
    /\ \/ currDirn = Up /\ f >= prevFloor
       \/ currDirn = Down /\ f <= prevFloor
    /\ f - prevFloor \in -1 .. 1

OnFloorArrival ==
    /\ received("FloorArrival")
    /\ ArrivalAsserts(argument)
    /\ mailbox' = Tail(mailbox)
    /\ currFloor' = argument
    /\ prevFloor' = argument
    /\ events' = with(events, {FloorDeparture(argument)})
    /\ UNCHANGED <<currDirn, departDirn>>

OnFloorDeparture ==
    /\ received("FloorDeparture")
    /\ mailbox' = Tail(mailbox)
    /\ events' = IF \/ currDirn = Down /\ argument <= 0
                    \/ currDirn = Up /\ argument >= NumFloors - 1
                 THEN events                    \* out of the shaft
                 ELSE with(events, {FloorArrival(prevFloor + currDirn)})
    /\ currFloor' = Between
    /\ departDirn' = currDirn
    /\ UNCHANGED <<currDirn, prevFloor>>

OnManualMoveWithinBounds ==
    /\ received("ManualMoveWithinBounds")
    /\ mailbox' = Tail(mailbox)
    /\ IF isOutOfBounds
       THEN currFloor' = prevFloor /\ currDirn' = Stop
       ELSE UNCHANGED <<currFloor, currDirn>>
    /\ UNCHANGED <<departDirn, prevFloor, events>>

\* Mutant: the motor goes on.
OnClientDisconnectedOnly ==
    /\ received("ClientDisconnected")
    /\ mailbox' = Tail(mailbox)
    /\ UNCHANGED <<state, events>>

OnClientDisconnected ==
    /\ received("ClientDisconnected")
    /\ mailbox' = IF StopMotorOnDisconnect
                  THEN Append(Tail(mailbox), <<"MotorDirection", Stop>>)
                  ELSE Tail(mailbox)
    /\ UNCHANGED <<state, events>>

\* A new state, with the cab anywhere in a shaft of as many floors.  The pending
\* events stay.
OnReloadConfig ==
    /\ received("ReloadConfig")
    /\ mailbox' = Tail(mailbox)
    /\ \E p \in Places :
          currFloor' = p[1] /\ departDirn' = p[2] /\ prevFloor' = p[3]
    /\ currDirn' = Stop
    /\ UNCHANGED events

Receive ==
    \/ OnMotorDirection \/ OnFloorArrival \/ OnFloorDeparture
    \/ OnManualMoveWithinBounds \/ OnClientDisconnected

-----------------------------------------------------------------------------
(* The other threads *)

\* A command that will turn the motor, or a reload, has not been handled yet.  The
\* main thread handles it within a millisecond, a motion takes 500 or 2000.
MotorTurning ==
    \E i \in DOMAIN mailbox :
        \/ mailbox[i] \in {<<"ClientDisconnected", 0>>, <<"ReloadConfig", 0>>}
        \/ mailbox[i] \in {<<"MotorDirection", d>> : d \in {Up, Down, Stop} \ {currDirn}}

\* An event is due: the timer thread moves it to the mailbox.
Fire ==
    /\ Len(mailbox) < MaxMail
    /\ Racing \/ ~MotorTurning
    /\ \E e \in Events :
          /\ events[e] > 0
          /\ events' = [events EXCEPT ![e] = @ - 1]
          /\ mailbox' = Append(mailbox, e)
    /\ UNCHANGED state

Command ==
    /\ Len(mailbox) < MaxMail
    /\ \E c \in Commands : mailbox' = Append(mailbox, c)
    /\ UNCHANGED <<state, events>>

Reload ==
    /\ Len(mailbox) < MaxMail
    /\ mailbox' = Append(mailbox, <<"ReloadConfig", 0>>)
    /\ UNCHANGED <<state, events>>

Next == Receive \/ OnReloadConfig \/ Fire \/ Command \/ Reload

Spec == Init /\ [][Next]_vars

-----------------------------------------------------------------------------
(* Properties *)

\* What the invariant of SimulationState asserts, around every public call.
StateInvariant ==
    /\ currFloor \in -1 .. NumFloors - 1
    /\ prevFloor \in 0 .. NumFloors - 1
    /\ departDirn # Stop

\* No assertion about the cab fails (one that fails ends the main thread, and
\* the elevator with it): the cab never arrives at a floor with the motor off,
\* against its motor, or further than the next floor, and never leaves a floor
\* with the motor off, however motor commands, timed events, disconnections and
\* reloads interleave.
AssertsHold ==
    /\ received("FloorArrival") => ArrivalAsserts(argument)
    /\ StateInvariant

\* Whether the timer thread or the mailbox has it, e is on its way just once.
OnItsWay(e) ==
    LET inMailbox == {i \in DOMAIN mailbox : mailbox[i] = e}
    IN  \/ events[e] = 1 /\ inMailbox = {}
        \/ events[e] = 0 /\ \E i \in DOMAIN mailbox : inMailbox = {i}

\* The motion that the cab's place calls for: none without power or out of the
\* shaft.
NextMotion == IF currDirn = Stop \/ isOutOfBounds THEN {} ELSE due(currDirn)

\* A powered cab in the shaft has exactly one motion to come, a cab without
\* power or out of the shaft none, and that motion is the one that the cab's
\* place calls for: no command loses or doubles the timer that moves the cab.
OneMotion ==
    \A e \in Events :
        IF e \in NextMotion
        THEN OnItsWay(e)
        ELSE events[e] = 0 /\ e \notin {mailbox[i] : i \in DOMAIN mailbox}

\* Seen from the controller the simulator is a cab in a shaft: it goes from
\* floor to floor the way the motor turns, back to the floor it left when it is
\* turned round between two, and gets on while the motor runs.
Cab == INSTANCE Shaft WITH
    floor <- prevFloor,
    off   <- IF currFloor = Between THEN departDirn ELSE Stop,
    motor <- currDirn
ImplementsShaft == Cab!Spec
================================================================================
