# TLA+ for the elevators of TTK4145-Heis-G77

A formal model of the elevator program in `src/heis`, of the simulator it drives
(`src/simulator`) and of the fleet logic around it. Modules are model-checked with TLC on
small instances; the theorems are proved with TLAPS for every value of the constants.
Two programs that came with or before it are modelled too: the C reference for one
elevator (`elev_algo`) and the process pair of Exercise 4.

    tlc -workers 2 -config Located.cfg MCElevator.tla     # a run: see "Runs"
    tlapm ElevatorProofs.tla                              # a proof: see "Proofs"

Contents: [the system](#the-system), [modules](#modules), [runs](#runs),
[bounds](#bounds), [timing and fairness](#timing-and-fairness), [proofs](#proofs),
[disagreements](#where-code-and-words-disagree), [not modelled](#not-modelled),
[plan](#plan).

## The system

One elevator is a Go program (`heis/main.go`) that talks TCP to an elevator server, here
the D simulator. Several elevators are meant to share their hall calls: the parts for that
(state manager, assigners, peers, broadcast) are written, and not wired into `main.go` yet.

| Component | State | Operations | What it has to get right |
|---|---|---|---|
| Controller, `heis/fsm/fsm.go` | floor, direction, last direction, `Idle`/`Moving`/`DoorOpen`, queue, obstruction, one door timer; the lamps and the motor it writes | start-up (homing), and a `select` over button, floor, obstruction, external order, door timeout | never lose the cab, never leave the shaft, move with a shut door, toward work; lamps = queue; serve every order; a door neither shuts on an obstruction nor stays open for ever |
| Driver and pollers, `heis/elevio` | one TCP connection and its mutex; each poller's last sample and the value it is blocked sending | a write is sent and forgotten, a read waits for its answer; sample every 20 ms, send a change | every call gets its own answer, in time; every lasting change reaches the controller |
| Simulator, `simulator/src/sim_server.d`, `timer_event.d` | motor, floor, departure direction, previous floor; the array of timed events; the mailbox | messages of the client, the keyboard and the timer thread, taken one at a time | one pending motion per moving cab, no failing assertion, the motor as it was told last, an answer to every question |
| State manager, `heis/state_manager.go` | own state, the orders of its last report, the map of known elevators with their timestamps | FSM update, network state, broadcast tick, timeout tick | forget who is down, never who runs; converge to what the others are; signal what was served, once |
| Deterministic assigner, `heis/det_order_assigner.go` | its order; the map it ranges over (the state manager's own) | hall order in, cost of every known elevator, choice, send | everybody names the same elevator, a nearest one, and the right one once the views agree |
| Order assigner, `heis/orderassigner` | own state, the others' states, pending hall orders | FSM update, hall order, other's update, mark dead | no order lost or kept twice, none left waiting for nobody; no deadlock with the controller |
| Peers and broadcast, `heis/Network-go` | last heartbeat of every peer; the update or message that waits for its reader | heartbeat every 15 ms, read with a timeout, new, lost; broadcast, decode, hand over | report every change of who is alive, and nobody alive as lost; no message twice |
| Process pair, `Exercises/Exercise4` | count, missed heartbeats, who has bound the port | heartbeat, timeout, takeover, spawning | one primary that goes on counting, and a successor that stands by |
| C reference, `Project-resources/elev_algo` | floor, direction, behaviour, requests, one timer; the last polled values | one loop: buttons, floor sensor, timer; a handler for each | the cab stays in the shaft, a stop clears one direction, every request is served |

How they interact:

- *Channels.* `drvButtons`, `drvFloors` and `drvObstr` have no buffer: a poller that has
  something to send waits, and does not sample, until the controller takes it. The
  controller takes any channel that is ready. `fsmStateUpdates` has ten places, a send
  that drops when they are full, and no reader.
- *TCP.* Controller and pollers share one connection. An answer does not say which question
  it answers; the mutex, held from question to answer, is what tells.
- *Mailbox.* The simulator's main thread owns the cab. Its network thread, keyboard thread
  and timer thread only send it messages; the network thread waits for the reply to a question.
- *Shared memory.* The state manager publishes its map, not a copy: it goes on changing
  the map while the assigner ranges over it, and has every later change without a hand-over.
- *Broadcast.* States go out over UDP twice a second: lost, late or overtaken.
- *Hand-over.* `peers.Receiver` and `bcast.Receiver` send to the main loop on channels without
  a buffer, and read nothing while they wait.

What is hard: the interleaving of sensor events, buttons, obstructions and timeouts; a controller
whose idea of the floor is older than the cab; commands that cross timed events in the simulator's
mailbox, also those of a client that is gone; failure detectors that compare clocks, or that do
not listen while they wait; iteration over a map that changes; decisions from views that differ.
`PROJECT.json` lists each hazard at its line with the properties that would catch it.

## Modules

| Module | Models | Correspondence |
|---|---|---|
| `Fsm` | the handlers of `fsm.go` | no variables: a handler is an operator from the controller's record (the `Elevator` struct and what it has written to the hardware) to the next record, with the names of the code |
| `Elevator` | `main.go`: controller, pollers, cab, switch | one action per case of `select` (`HandleButton`, `HandleFloor`, `HandleObstruction`, `HandleOrder`, `HandleDoorTimeout`), per poller, for the cab and for the switch |
| `Shaft` | a cab in its shaft, as a controller sees it (abstract) | implemented by `Simulator`, driven by `Elevator` (`Cab == INSTANCE Shaft`) |
| `Lift` | what one elevator promises (abstract) | implemented by `Elevator` (`Promise == INSTANCE Lift`) |
| `Simulator` | main thread, timer thread, mailbox, timed events | one action per message handled, plus `Fire` (timer thread), `Command` (client, keyboard, connection) and `Reload` (a client) |
| `Driver` | `elevio` and the simulator together: goroutines, mutex, TCP, network thread | extends `Simulator` with `Write`, `Ask`, `Read` (a goroutine's calls), `ServerReceives`, `ServerAnswers` (network thread), `OnRequest` (main thread), `Reconnect` |
| `StateManager` | a fleet of state managers, their network, clocks and crashes | one action per case of `Run`'s `select`; `Tick`, `Lose`, `Crash`, `Restart` around them |
| `Cost` | `calculateCost` and who is the least by it | pure |
| `Fleet` | managers and assigners together | no state of its own: whom an assigner would name is a function of its manager's map |
| `Assigner` | a fleet of deterministic assigners | `OnNewHallOrder`, `Visit` (one iteration of the `range`), `Assign`, `TakeOrder`; `ViewChanges` is the state manager at the same time |
| `OrderAssigner` | one order assigner and its two channels to the controller | one action per handler and per call, `ConsiderOrder` (one round of the first loop, with its send), `RemoveAssigned` (one round of the second), `LeaveLoop`; `ControllerHandles` and `sendStateUpdate` are the controller |
| `Network` | peers and broadcast, up to the program's main loop | `Enable`, `Disable` (transmitter), `ReadFrom`, `ReadTimesOut` (once round the receiver's loop), `HelloArrives`, `ReadHello`, `TakePeerUpdate`, `TakeHello` (main loop), `Tick` |
| `Pairs` | primary, backup and those they start | `PrintNext`, `Send` (primary), `Bind`, `Read`, `Miss`, `TakeOver` (backup), `Tick`, `Kill` |
| `ElevAlgo` | the C reference, driving a `Shaft` | `Press`, `ButtonsPolled`, `PollFloor`, `PollTimer` are the loop; `TimePasses` the clock; `CabMoves` the cab. Handlers are operators, as in `Fsm` |
| `MCElevator`, `MCFleet`, `MCAssigner`, `MCOrderAssigner`, `MCElevAlgo` | constants of the runs | |
| `ElevatorProofs`, `DriverProofs`, `AssignerProofs`, `OrderAssignerProofs`, `StateManagerProofs`, `NetworkProofs`, `PairsProofs`, `ElevAlgoProofs` | theorems | |

Definitions that begin with "Mutant:" in their comment are not part of the model. Each is
a plausible bug in the definition below it; put in its place it breaks the property that
`PROJECT.json` names with it.

**Fsm.** Orders are pairs `<<floor, button>>`, and the queue and the lamps are sets of
them. `sent` is the update that the handler offers to `stateCh`; `Elevator!Controller`
puts it into the buffer or drops it. A handler is one step: the controller is the only
goroutine that touches this state.

**Elevator.** The cab's position is a floor (`prevFloor`) and the way it has left it
(`departDirn`, 0 at the floor). `floorPrev`/`floorCh` and `obstrPrev`/`obstrCh` are a
poller's last sample and its blocked send. `Init` has run the start-up code of `fsm.Run`:
homing, or idle.

**Simulator.** `events` counts how often each event is in the array of timed events, which the
timer thread sorts by time before it looks: the order in which they were added is of no
consequence. `mailbox` is what the main thread has not received. What a motor command deletes from
that array and adds to it is `kept` and `due`. A client may ask for the configuration to be loaded
again at any time, with the cab moving or not; the handler makes a new state and leaves the timed
events. `Simulator`'s own `Spec` is the simulator with any client. The Go driver has no call that
reloads, so `Driver` has no such step: its theorems hold for this client, not for any.
`AssertsHold` is every assertion about the cab: those of the arrival's handler
(`sim_server.d:618-627`) and the invariant of its state (`288-295`).

**Driver.** Of the writes only the motor's is kept, of the questions the floor sensor's and the
switch's; the other calls of `elevio` go the same way. A message of four bytes arrives whole. The
operator's keys (`sim_server.d:754-765`: the motor's three, and the way back into the shaft) go
straight to the mailbox. When a client is gone, the network thread sends the main thread
`ClientDisconnected`, and that handler sends a stop to its own mailbox, behind whatever is there
(`sim_server.d:657-662`). `written`, `overruled` and `truth` are not state of the program: what
the motor was told last, whether the operator has pressed a key since the last command of a client
came into the mailbox, and what a sensor has shown since somebody asked.

**StateManager.** Time is counted in half seconds, the period of both tickers, and a
timestamp is kept as its age. An age of k by this count is somewhere between k-1 and k+1
half seconds, so an entry of age `Timeout` may or may not be over the limit, and the model
tries both. `missed` is not state of the program: it counts a link's losses in a row, to
bound them and to state `NoFalseTimeout`. `detectClearedHallOrders` may send any part of what it
finds: each send is dropped when the channel is full.

**Fleet.** What a manager publishes is its map itself. A hand-over that the assigner misses
because it is busy does no harm: it has the map already, with every change (first hand-over
apart, before which it takes every order itself).

**Assigner.** `seen` is what the `range` has produced so far. Go may produce the entries
in any order, leaves out what has been removed, and may or may not produce what has been
added; all of it is a choice of `Visit` and `Assign`. The view is arbitrary and changes
arbitrarily, so that nothing here depends on what the state manager gets right.

**OrderAssigner.** The loop of `tryAssignHallOrders` is not one step: it waits at its send,
and the controller runs meanwhile. `offering` is the update that the controller is about to
send and keeps it from taking an order. `came` and `passed` count orders to state
`NoneLost`; they are not state of the program. `UpdateOtherElevatorState` and
`MarkElevatorDead` have no caller in the program. They change the map and the queue of `Run`
without a lock; the model lets them happen while `Run` waits, so what it shows holds for
callers that see to that.

**Network.** One receiver, and all processes, itself included, as transmitters. Time is counted
in intervals of 15 ms; what arrives while the receiver waits lies in its socket. A receiver
that does not wait has emptied the socket before the next interval. `interrupted` and
`followed` are not state of the program: who has stopped since it was read last, and what New
and Lost add up to. A transmitter that is enabled again sends at once (`peers.go:27-33`); the model
counts that heartbeat with the next interval's. `main.go` never does it. Hellos are numbered as
they arrive, so the network may lose, double and reorder what any number of processes send;
`HelloOnce` is about the reader: what it skips, what it hands on, and how long that waits. The
contents are left out: when only they cannot be decoded, a zero value is handed on
(`bcast.go:71`), and it counts like any other.

**Pairs.** Time is counted in units of 300 ms: a heartbeat every 2, a read deadline of 3.
A process that is killed stays gone; `role` also says who has not been started. A datagram
to a port that nobody has bound is lost, one to a bound port on the same machine is not. The
refusal of a lost one stays at the sender's socket (`refused`), and the next `Write` returns it
instead of sending (`pairs.go:63`): the first heartbeat after the backup has bound may be missing.
A backup starts from 0: when its primary is killed before it has heard a heartbeat, the
count begins again at 1 (`pairs.go:83`), and `CountGoesOn` says no more than that.

**ElevAlgo.** With no floor seen yet, `requests[e.floor]` is `requests[-1]`, which in C has
no meaning. What is read there is a choice (`requests_here`). What is written
(`requests_clearAtCurrentFloor`) are the elevator's own floor and direction, which lie before the
array, and the word before the struct (`requests.c:108`). The struct is a parameter by value, on
the stack next to the return address: with the makefile's flags that word is harmless in an
executable at a low address, and in a position-independent one it ends the program. The model tries
both (`crashed`). It happens when somebody presses before the first poll of the floor sensor, at a
floor; `Coherent` says that the cab stands then, and holds throughout where the program goes on.

## Runs

Passing:

| Run | Question | States |
|---|---|---|
| `located` | From floor 0, does the controller always know the cab (`InShaft`, `NeverTurnsBetweenFloors`, `DrivesTowardWork`), does it do only what `Lift` allows, do switch changes reach it, do doors close, are orders served? | 33 308 |
| `any_start` | From any position (first start or restart) and with an assigner that also sends orders outside the building, do door, motor, lamps and queue agree? Seven properties | 100 030 |
| `driver` | With goroutines that share the connection, a client that is killed, another that follows, and an operator at the keys: does every call get its own answer, does the motor obey, has the cab the right timer, does no assertion fail, and is it a `Shaft`, progress included? | 214 784 |
| `fleet` | Is nobody forgotten who runs, everybody who is down, do the views converge and the assigners agree on the right elevator, and is only what was served signalled, with losses, delays, a crash and a restart? | 113 131 |
| `network` | Do New and Lost add up, is nobody reported lost who is there, does the list become right, and does no hello come twice or late, with losses, processes that come and go and a main loop that stays away? | 101 906 |
| `assigner` | Do assigners that saw the same name the same elevator, a nearest one? | 1 867 672 |
| `order_assigner` | Is no hall order lost, kept after it was sent, or left waiting for nobody, and do assigner and controller never wait for each other? | 41 600 |
| `pairs` | With processes killed anywhere, a late primary and refused heartbeats, does at most one process count, without a gap, and is there always a successor that takes over? | 8 379 |
| `elev_algo` | From any start, does the C reference keep cab, door, timer and lamps together, clear one direction at a stop, and serve every request? | 14 907 |

Violations, each a statement of a document, comment or assertion that the code breaks (see
[below](#where-code-and-words-disagree)): `order_at_hand`, `homing`, `simulator_race`.

What the properties are about:

- `DrivesTowardWork` and `InShaft` relate the queue to where the cab *really* is, not to
  where the controller believes it is. `onFloor` decides to pass a floor because of orders
  further on; the properties say that no button, order, obstruction or timeout between two
  floor events can leave a powered cab without a reason to move.
- `NeverTurnsBetweenFloors` is about `lastDir`, the only memory of the side of the floor
  on which an obstruction stopped the cab.
- `ClearedOnlyWhenServed` ties the removal of an order to the cab's place, the motor and
  the door; `LampsMatchOrders` ties the lamps to the queue through every handler.
- `DoorIsLookedAfter`, `DoorNotShutOnObstruction`, `DoorCycleAtFloor` and `DoorCloses` are
  the door cycle against obstructions that come and go between two firings of its timer.
- `StaysLocated` holds from every start: once the floor is known it is never lost.
- `AnswerWasTrue` is what the mutex is for: without it a poller gets the answer to an older
  question. `CallsReturn` crosses three queues: a goroutine holds the mutex while the network
  thread waits for the main thread, which has its mailbox to see to. `MotorObeys` is about the
  commands of a client that is gone, the stop that its disconnection causes and the commands
  of the next, in that order.
- `OneMotion` says of the simulator that no command loses or doubles the timer that moves
  the cab; `ImplementsShaft` that the timers together are a cab.
- `ObstructionTracked`: a change of the switch that lasts reaches the controller although the
  poller may be blocked with an older one, if the two were in step at the start.
- `NoFalseTimeout` and `DownIsForgotten` are the failure detector's accuracy and completeness;
  `ViewsConverge` is what remains of "same global state" when the newest broadcast can be
  overtaken by an older one, and `RightOnceQuiet` what it gives the assigners: agreement on
  the elevator that should be named. `ClearedWasServed` ties the signal that cancels an order
  elsewhere to two reports of the controller.
- `ChangesAddUp`, `NoFalseLoss` and `PeersConverge` are the same for `Network-go`, where the
  hazard is another: the detector is deaf while it waits for its reader.
- `SameSeenSameResult` needs the tie-break by ID: Go's order of iteration is random.
- `NoneLost` counts equal orders one by one through a loop that sends first and removes by
  value afterwards; `PendingForAnother` says that every event which could leave an order
  waiting for nobody looks at it again; `SendsEnd` is the reason for the controller's send
  that does not wait.
- `OnePrimary` is the arithmetic of heartbeat, deadline and missed limit against lateness
  that never stops; `SuccessorStands` the order in which a takeover frees the port and
  starts its own backup.
- `ServedOneWay` and `RequestServed` are what the project description asks of a stop and of
  a lit button. The C reference gives both, the Go controller neither (see below).
- `ImplementsLift` (of `located`) and `ImplementsShaft` (of `driver`) are refinements:
  every step of the detailed specification is a step or a stutter of the abstract one.

## Bounds

- *Floors*: 4 where position matters (first, last and two between, as `main.go` has it),
  3 elsewhere. The proofs hold for every number.
- *Buttons*: all that the panel has (`Panel`); in `located` six of them, every kind and both
  sides of floor 1 (`SomeButtons`), since each order is a liveness formula of its own. The
  safety properties of `located` are proved for every panel.
- `MaxToggles = 2`: the switch goes on and off (or off and on). It counts so that
  obstructions end; every property of one obstruction is reached with two flips from
  either position.
- `StateChCap = 1` for ten: the buffer is empty, then full for good. Nobody reads it, so
  only the change from room to none matters.
- `ExternalOrders`: both ends of the building, the middle, and one floor outside at either
  end.
- Driver: `MaxMail = 2` and `MaxSent = 1`: a command, a timed event and a third message can wait
  together. The mailbox and the connection of the program have no such bound.
- Fleet: two managers, because a view of one elevator depends on no third; one
  reports changes (`Reporting`), one crash. `Networks`: either two broadcasts in a row get
  lost, or each is up to half a second late so that they overtake each other. The
  assumption `loss + 2 * delay + Skew + 2 <= Timeout` is the largest network that 2 s
  allow: with one more loss, or half a second more of delay, `NoFalseTimeout` fails.
- Network: two processes, a timeout of 4 intervals for 33, one loss in a row and a main loop
  that is away for one interval. `NetworkAssumption`, `Loss + 2 * (N - 1) * MaxStall < Timeout`, is
  sharp: between two heartbeats that are read of one process every other may be reported lost
  and new again, and the main loop be away each time; at the limit `NoFalseLoss` fails. It also
  takes `MaxStall` to be at least 1: a main loop that is never away for an interval leaves no
  leeway, and with `Loss + 1 = Timeout` the losses alone reach the limit. With 33
  intervals, three processes and no losses the main loop may be away for 8 intervals, 120 ms.
- Assigner: two assigners, three states (there but busy, approaching, moving away),
  `MaxChanges = 3` changes of the maps. Agreement is a statement about pairs, and the
  proof is for any fleet.
- Order assigner: one other elevator, since an order waits for any that is nearer; three
  positions, of which one moves away; two floors to serve, each asked for twice, so that
  equal orders are pending together; both channels with one place for ten, so that both are
  full at the same time.
- Pairs: `Late = 2` (600 ms), five processes, numbers up to 8. The last process is not
  killed, and time stops at the last number, so the system ends: deadlock is not checked.
  Five processes are three takeovers in a row. `PairsAssumption` says how late a primary may
  be in general: with two heartbeats (one may fail after a refusal), less than the missed limit's
  read deadlines.
- `ElevAlgo`: three floors, the whole panel, the cab anywhere. The program may end, so deadlock
  is not checked.

## Timing and fairness

Where the code relies on durations, the model has an assumption:

- `SensorSeen` (`Elevator`): the floor poller samples every 20 ms and the controller never
  waits, while the cab needs 500 ms to pass a floor and 2 s to reach the next. So the cab
  moves only after its last position has been sampled and handled. Nothing is assumed of
  buttons, the switch, or the door timer.
- `InStep` (`Elevator`): the controller's first look at the switch and the poller's agree. The
  properties that need it say so; where they do not agree, see
  [below](#where-code-and-words-disagree).
- `Racing = FALSE` (`Simulator`, `Driver`): no motion falls due while a command that turns the
  motor waits; the main thread handles a message within a millisecond, a
  motion takes 500 or 2000. `simulator_race` shows what happens without it. Commands themselves,
  and in `Simulator` reloads, come at any time.
- `Connected` (`Driver`): the next client starts to send only after the last one's disconnection
  has been handled. A Go program needs longer to start than the simulator for a few messages.
- `Tick` (`StateManager`): a manager has handled its tickers before the next half second
  is over.
- `Tick` (`Network`): a receiver that does not wait has read its socket before the next interval;
  the main loop is away for at most `MaxStall` at a time.
- `CabMoves` (`ElevAlgo`): the loop polls the floor sensor every 25 ms, so the cab moves
  only after its last position has been polled.
- `Tick` (`Pairs`): a primary gets to its ticker up to `Late` late, and a backup reads and
  times out when it is time. How long a process takes to start is not bounded.

Fairness:

- `Elevator`: weak fairness of the `select` cases whose channel stays ready, of the pollers,
  the armed timer and the powered cab. Nobody has to press, flip or send. Nothing else is
  needed, because a case that is ready stays ready until it is taken.
- `Driver`: weak fairness of the goroutine that waits for its answer, of the network thread's
  answers and of the main thread. The timer thread and the network thread's receiving have
  strong fairness: their sends never wait in the program, and only the bound of the mailbox in
  the model can block them. Nobody has to write, ask, reconnect or press.
- `Shaft`: `Spec` is `Safety`, the initial states and the steps, with `MotorWorks`, one weak
  fairness per direction: a motor that keeps running one way moves the cab. It is what `Driver` is
  shown to give.
- `StateManager`, `Fleet`: weak fairness of time and of the tick handlers; strong fairness of
  `OnState`, a link that does not lose everything for ever.
- `Network`: weak fairness of time, of both receivers' loops and of each case of the main loop's
  `select`. What a link may lose is bounded by `Loss`.
- `OrderAssigner`: weak fairness of the assigner's loop and of the controller's send, which
  never waits. The controller's `select` chooses at random among what is ready, so an order
  that waits is taken some day however many other events there are: strong fairness of
  `ControllerHandles` taking an order. Nobody has to send or move.
- `Pairs`: weak fairness of time and of what each process does. Nobody has to be killed.
- `ElevAlgo`: weak fairness of the loop, time and the powered cab. A passenger may hold the
  door open by pressing whenever its time is up; `RequestServed` is for runs in which that
  ends and the program does not. A press before the time is up starts it anew in C and
  changes nothing here: weak fairness of time says that presses at an open door are at some time
  more than its 3 s apart.

## Proofs

All of them are safety, for every value of the constants under the named assumptions of the
modules: `NumFloorsAssumption` (at least one floor), `ConstantsAssumption` (start positions lie in
the shaft, buttons exist; external orders may be of any floor, inside or not),
`AssignerAssumption` (IDs are naturals, at most 11 floors), `FleetAssumption` (what the network
may lose and delay, against the timeout), `PairsAssumption` (how late a primary may be, against
the backup's patience), `NetworkAssumption` (how long the main loop may stay away, against the
timeout; only `NobodyLostWhoIsThere` needs it), `SimulatorAssumption` (two to nine floors, as
`sim_server.d:235` asserts), `DriverAssumption`, `OrderAssignerAssumption` (states and orders lie
in the building), `ReferenceAssumption`. What a theorem assumes beyond those is in its statement:
`Racing = FALSE` in `DriverProofs`.

Every invariant and every safety property of a passing run is the conclusion of a theorem.

**`ElevatorProofs`.** The module has two inductive invariants, and a refinement on top of them.

1. `Inv`, from *every* start: types; `Consistent(fsm)` (motor, direction and state go
   together; a motor that runs has a dark door and no known obstruction; a lit door has a
   timer or an obstruction; lamps = queue); `SensorInv` (a blocked floor event is of the
   floor where the cab stands, as `SensorSeen` keeps it there) and `DoorCycleAtFloor`.
   `Consistent` alone is not enough for `DoorCycleAtFloor`: a late event could open the
   door elsewhere, hence `SensorInv`. Each handler has a lemma (`ButtonConsistent`,
   `FloorConsistent`, ...) that is independent of the surroundings. From `Inv`:
   `TypeCorrect`, `MotorSafe`, `LampsSafe`, `DoorSafe`, `DoorCycleSafe`,
   `DoorShutsSafely`, `OrdersServed`, `NeverLost`.
2. `LocatedInv`, from floor 0: `Inv`, `Headed` (a moving controller has an order ahead of
   its floor) and `Tracked`: the cab is at the controller's floor; or it has left that
   floor in the direction of `lastDir`, with an order that way; or it has come to the next
   floor that way and the event has not been handled. `InShaft` is not inductive without
   them: the cab may pass a floor only because of an order further on, and that order is
   in the building. The heart is `StopsForLastOrder`: at a floor, `shouldStop` says yes or
   there is still work beyond. `Tracked` keeps the work although the controller may be
   idle: that is why an obstruction between floors does no harm. From it:
   `ShaftSafe`, `NeverTurns`, `AlwaysTowardWork`.
3. `Refinement`: `SpecAtFloorZero => ImplementsLift`. One lemma per action shows a step or a
   stutter of `Lift`, with `LocatedInv` for what the controller knows. Polls and flips
   stutter; a handler's result is classified once (`Lawful`), and `LawfulStep` turns it
   into the abstract step.

**`DriverProofs`.** Three invariants, each about messages by their place in a queue.

1. `CabInv`, the cab and its timer. `OneMotion` counts over the array and the mailbox; its
   inductive form (`MotionInv`) says place by place that the motion which is to come is in one
   of them, once, and no other is in either. It is not inductive alone: a command that stands
   before an arrival in the mailbox would turn the cab and make the arrival the wrong one
   (`NotOvertaken`: those that stand there change nothing). That holds because nothing falls due
   while a command waits that turns the motor (`Racing = FALSE` in the theorems that use `CabInv`),
   and because the client of `Driver` is `elevio`, which asks for no reload; without the first
   condition (`simulator_race`), or without the second, an assertion of the simulator fails. The
   operator's keys are among the commands. From it: `OneMotionToCome`, `NoAssertionFails` (the
   next arrival is the one that the assertions of `sim_server.d:618` expect, and the state keeps
   its invariant) and `ImplementsShaftSafety`, step by step.
2. `LineInv`, questions and answers, with or without the race: at most one goroutine waits for an
   answer, and what it asked, or the answer to it, is in one place between it and the main thread;
   a disconnection stands behind everything of the old client and before everything of the new
   one (`GoneInv`), so no answer to a dead client's question reaches its successor. An answer on
   its way is something that the sensor has shown since the question (`TruthInv`).
   From it: `AnswersWereTrue`.
3. `ObeysInv`, the motor: of the commands under way the last one tells what was `written` last. It
   is looked for first in the connection, then in the mailbox; where there is none, the motor does
   as told, the cab has left the shaft, or the operator has pressed a key since. It uses `CabInv`:
   a cab that has left the shaft stays out until it is told something else. From it:
   `MotorObeysLastCommand`.

**`AssignerProofs`.** The loop invariant: `best` is the least of the elevators seen, by
cost and then by ID, and `bestCost` its cost. The least is unique (`LeastUnique`), so equal
`seen` give equal results whatever the order and the changes (`SameResult`). For
`NearestServes`, `CostBounds` shows that the cost of an elevator d floors away lies between
100 d - 10 and 100 d + 86: three orders a floor at 2 points each, and 20 for moving away,
stay below what a floor of distance is worth as long as there are at most 11 floors.

**`OrderAssignerProofs`.** The lemmas on `occurrences` say what appending, taking the head and
deleting an element do to the number of times an order occurs; each counts places, by a bijection
between those before and those after, so no induction is needed. `CountInv`: an
order came as often as it was passed on or is pending, less those that were sent and are still
pending until the second loop removes them. It is inductive only with `LoopInv`: the
orders best served here that are pending are those sent and those the first loop still has to look
at, so the second loop finds each one that it looks for. At rest none is best served
here (`RestInv`). From them: `OrdersNotLost`, `OrdersWaitForAnother`.

**`StateManagerProofs`.** `TypeInv`: types, a manager that is down knows nobody, and what it
compares the next report with are the orders of the last; `ClearedIsServed` follows from it.
`NobodyForgotten` needs more, because the age of an entry says nothing of the broadcasts that
could still renew it. `FleetInv` bounds it: the age is at most `delay` (how old the broadcast was
on arrival) + the broadcasts lost in a row + the different ages of those under way + one when the
next has not been sent yet. At most `delay + 1` ages are under way and at most `loss` were lost,
so an entry of a running elevator is younger than `Timeout - Skew` by `FleetAssumption`. Each
action moves one summand into another: `Tick` ages the entry and adds a broadcast to be sent,
sending makes it one under way, `Lose` one that was lost, `OnState` takes it off and sets the age.
An elevator that has been down counts as lost beyond the limit until it is heard again.

**`NetworkProofs`.** `PeersInv`: the main loop's list is the receiver's table, or becomes it with
the one update under way. `HelloInv`: a hello is numbered as it arrives, and those between socket
and main loop rise and lie between the last one heard and the last one that arrived.

`LossInv` bounds how long ago a process that is there was read. With nothing of it in the socket
that is what the network lost in a row. With a heartbeat in the socket the receiver has only to
read on, and the process gets older only while an update waits for the main loop (`AgeInv`). How
many updates can there be before it gets to that heartbeat? Each brings a change, of some other
process, that cannot come again before then unless another does: a process that is reported new
has been read since, one that is reported lost is gone from the table. `Changed` and `ReadSince`
are those processes, and `updates` counts the first kind once and those that are back twice: it
rises with every update and never exceeds two for each other process. The interval in which the
heartbeat arrives belongs to the first of these waits, which is where `MaxStall` of at least 1
comes in. That every heartbeat of an interval does arrive, whatever the order, is a counting
argument too (`AllInOrder`). From it, with `NetworkAssumption`: `NobodyLostWhoIsThere`.

**`PairsProofs`.** A backup's `patience` is how long it will wait if it hears nothing: what is
left of its deadline and the deadlines until the missed limit. `OnlyOnePrimary`: with no heartbeat
in its inbox, the living primary's clock plus `Late`, and another `heartbeatEvery` if its socket
holds a refusal, is below that patience, so the heartbeat comes first. `SuccessorAlwaysStands`:
the one process that waits is the one started last, and the port is its own or nobody's.
`CountNeverSkips`: the numbers in the inbox rise from what the backup has heard to what the
primary has said.

**`ElevAlgoProofs`.** `Consistent` (motor, direction, behaviour, door and lamps go together),
`Known` (once the sensor has been polled at a floor the elevator knows that floor), between floors
the elevator is moving, and it leaves a floor only toward a request further on. A press before the
first floor can make up any floor and direction (`requests[-1]`); the invariant holds because only
an elevator at a floor can be made idle or open by it, and the next poll corrects the floor. It
can also end the program, with the door just opened and the motor off. A lemma per handler says
what it leaves (`AfterPress`, `AfterArrival`, `AfterTimeout`).

Only model-checked:

- the liveness properties, out of this prover's reach: `ObstructionTracked`, `DoorCloses`,
  `OrderServedOrAtHand`; `CallsReturn`; `DownIsForgotten`, `ViewsConverge`, `RightOnceQuiet`;
  `PeersConverge`; `SendsEnd`; `TakenOver`; `RequestServed`;
- the liveness part of `ImplementsShaft`: that the simulator's fairness gives `MotorWorks`;
- what happens with `Racing`, and the other two counterexamples.

## Where code and words disagree

Three have a run that ends in a counterexample.

- `order_at_hand`: an order for the floor where the cab stands idle is queued, lit and not
  served until the cab has been elsewhere (`fsm.go:361`). The C reference opens the door
  (`requests.c:48`).
- `homing`: homing ends at the first floor only while no order is queued (`fsm.go:145`). With a
  call to a floor above, taken while the cab drives down from between floors 0 and 1, floor 0 is a
  floor without an order like any other: `shouldStop` (`fsm.go:309-333`) says no, the motor goes
  on down, and the cab leaves the shaft. The comment promises to drive down to the first floor
  (`fsm.go:88`).
- `simulator_race`: a stop removes a pending arrival from the array, and not the one that
  is already in the mailbox; the assertion on arrival fails (`sim_server.d:618`).

Plain from the code, so without a run:

- A released obstruction is said to turn the door light off after 3 s; with an order
  queued, `startOrStayIdle` turns it off and starts the cab in the same handler
  (`fsm.go:205`, `fsm.go:213`).
- A stop clears the up and the down call together (`fsm.go:371`); the project description
  says that it should not.
- The controller reads the switch once at its start and the poller reports changes from
  "released": an obstruction that the first sees and that is gone before the second looks is
  never released for the controller, and the elevator stands still until the switch is
  on and off once more (`fsm.go:83`, `elevator_io.go:117`).
- Every elevator runs the same algorithm "slik at alle får samme resultat"
  (`det_order_assigner.go:9-10`): not while their views differ. `RightOnceQuiet` is what holds.
- "Same state = same result" (`det_order_assigner.go:81`) is not so when the state is empty:
  every assigner takes the order itself (`det_order_assigner.go:87`).
- `sim_server.d:620` asserts `floor <= numFloors`, one too many.
- A reload of the configuration while the cab moves makes a new state, motor off, and leaves the
  pending arrival in the array (`sim_server.d:487-493`); it arrives at the new cab, and the
  assertion of `simulator_race` fails. The simulator's README offers the reload without a
  condition (`simulator/README.md:101`). No client here asks for it; with `Racing = FALSE` in
  `SimulatorRace.cfg`, TLC finds this one instead.
- `bcast.Receiver` "sends the decoded value" (`bcast.go:47-48`): also when the contents could not be
  decoded, and then it is a zero or partly filled value (`bcast.go:71` drops the error).
- In the C reference `floor` is -1 until the first poll, and a press before it, at a floor,
  writes `requests[-1]` (`requests.c:90`, `requests.c:108`), which the program may not survive.

## Not modelled

- The floor indicator, the stop button and its lamp: nothing depends on them.
- The order of writes within one handler: handlers are atomic. For the time of one write,
  `onObstruction` has the door light on and the motor not yet off.
- Lamps left lit by an earlier process: a restart has all lamps dark in the model.
- The crash with which Go's runtime may answer the race on the map: it ends the assigner.
- What becomes of a cleared signal: nothing reads that channel. `lastPrintedState` steers a log
  line. A state update that `onFloor` sends
  before it clears the orders it serves (`fsm.go:142`) has no reader either.
- The failures of the process pair's own calls (no executable, no socket), and of `elev_algo`
  its printing, floor indicator and config file.
- Sockets, JSON, reflection and the check of arguments in `bcast`, `conn` and `localip`; consoles,
  key bindings, config files: pure I/O. What matters of the network, loss, delay and reordering,
  is in the models.
- The D hall request assigner: a handed-out program that nothing calls yet.
- The exercises with a single socket (`tcp.go`, `udp.go`), the packet loss scripts, and
  `config.go`, whose constants nobody uses.

## Plan

In this order, the most important behaviour first.

Done:

1. `Fsm`, `Elevator`: one elevator, with `located` (safety and liveness) and `any_start`.
2. `Lift`, and `Elevator` as its implementation.
3. `ElevatorProofs`, with the refinement of `Lift`.
4. `Shaft`, `Simulator`, and `Driver`: the simulator with the connection and its client.
   `DriverProofs`.
5. `StateManager`, and `Fleet`: managers with their assigners. `StateManagerProofs`.
6. `Cost`, `Assigner`, `AssignerProofs`.
7. `OrderAssigner`, `OrderAssignerProofs`.
8. `Network`, `NetworkProofs`, `NoFalseLoss` included.
9. `Pairs`, `PairsProofs`; `ElevAlgo`, `ElevAlgoProofs`.

Next:

10. `Driver` with the controller of `Elevator` in place of the arbitrary client.
11. The write order within a handler (`fsm.go:192`), as steps of the controller.
12. An abstract failure detector that `StateManager`, `Network` and `Pairs` implement, and
    `ElevAlgo` as a second implementation of `Lift`.
13. The D hall request assigner, as a pure function against a reference definition.
14. Proofs of what 10 to 12 add: the controller's invariants over the connection, and each
    detector's steps as steps of the abstract one.
