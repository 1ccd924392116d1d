------------------------------ MODULE StateManager ------------------------------
(***************************************************************************)
(* The state managers of a fleet (heis/state_manager.go): each elevator    *)
(* broadcasts its own state twice a second, keeps the last state it heard  *)
(* of every other, and forgets an elevator whose state is more than two    *)
(* seconds old.  Its map is what the order assigner decides from, and it   *)
(* tells the fleet which hall orders its own elevator has served.          *)
(* Broadcasts get lost, are delayed and overtake each other; elevators     *)
(* crash and come back with nothing.                                       *)
(*                                                                         *)
(* Time is counted in half seconds, the period of both tickers, and a      *)
(* timestamp is kept as its age.  A state that is k half seconds old by    *)
(* this count is between k-1 and k+1 of them old, so that one of age       *)
(* Timeout may or may not be over the limit.                               *)
(***************************************************************************)
EXTENDS Integers

CONSTANTS
    Node,         \* the elevators' IDs
    Updates,      \* what an FSM may report: [floor, direction, orders],
                  \*   its orders as a set of <<floor, button>>
    Start,        \* what a manager broadcasts before its FSM has reported
    Timeout,      \* 2 s: 4
    Skew,         \* bound: how far two clocks differ
    Networks,     \* bounds: how many broadcasts in a row a link loses, and
                  \*   how long one is under way, as [loss, delay]
    MaxCrashes,   \* bound: how often elevators crash
    Reporting     \* bound: the elevators whose FSM reports

ASSUME FleetAssumption ==
    /\ Timeout \in Nat /\ Skew \in Nat /\ MaxCrashes \in Nat
    /\ Networks \subseteq [loss : Nat, delay : Nat]
    /\ Updates \subseteq
          [floor : Int, direction : {-1, 0, 1},
           orders : SUBSET (Int \X {"HallUp", "HallDown", "Cab"})]
    /\ Start \in Updates /\ Start.orders = {}
    /\ Reporting \subseteq Node
    /\ \A w \in Networks : w.loss + 2 * w.delay + Skew + 2 <= Timeout

Old  == Timeout + Skew + 1         \* surely over the limit; ages stop here
Ages == 0 .. Old
Entries == [state : Updates, age : Ages]

HallOrders(update) == {o \in update.orders : o[2] # "Cab"}

VARIABLES
    up,              \* the elevators that run
    myState,         \* Run: myState
    knownElevators,  \* ID -> the last state heard, and how old it is
    previousOrders,  \* the orders of the own elevator at its last report
    clearedTx,       \* the hall orders that report made it signal as cleared
    broadcastTick,   \* the managers whose broadcastTicker has fired
    timeoutTick,     \* the managers whose timeoutTicker has fired
    network,         \* the network they share, one of Networks
    net,             \* the broadcasts under way
    missed,          \* [n][m]: m's broadcasts in a row that n did not get,
                     \*   Timeout after m has been down
    crashes          \* how often elevators have crashed

reports == <<myState, previousOrders, clearedTx>>
manager == <<reports, knownElevators>>
tickers == <<broadcastTick, timeoutTick>>
vars == <<up, manager, tickers, network, net, missed, crashes>>

Messages == [to : Node, from : Node, state : Updates, age : Ages]

TypeOK ==
    /\ up \subseteq Node
    /\ myState \in [Node -> Updates]
    /\ DOMAIN knownElevators = Node
    /\ \A n \in Node :
          /\ DOMAIN knownElevators[n] \subseteq Node
          /\ \A m \in DOMAIN knownElevators[n] :
                knownElevators[n][m] \in Entries
    /\ previousOrders \in [Node -> {u.orders : u \in Updates}]
    /\ clearedTx \in [Node -> SUBSET UNION {u.orders : u \in Updates}]
    /\ broadcastTick \subseteq up
    /\ timeoutTick \subseteq up
    /\ net \subseteq Messages
    /\ network \in Networks
    /\ missed \in [Node -> [Node -> 0 .. Timeout]]
    /\ crashes \in 0 .. MaxCrashes

nobody == [m \in {} |-> [state |-> Start, age |-> 0]]

Init ==
    /\ up = Node
    /\ myState = [n \in Node |-> Start]
    /\ knownElevators = [n \in Node |-> nobody]
    /\ previousOrders = [n \in Node |-> {}]
    /\ clearedTx = [n \in Node |-> {}]
    /\ broadcastTick = {}
    /\ timeoutTick = {}
    /\ network \in Networks
    /\ net = {}
    /\ missed = [n \in Node |-> [m \in Node |-> 0]]
    /\ crashes = 0

-----------------------------------------------------------------------------
(* The manager of elevator n.  After every change it publishes the map: it *)
(* hands the map itself to the assigner, not a copy, so that the assigner  *)
(* has every later change too, although the hand-over fails when it is busy.*)

\* n keeps state s of age a as m's last one.
stored(n, m, s, a) ==
    [knownElevators EXCEPT ![n] =
        [k \in DOMAIN @ \cup {m} |->
            IF k = m THEN [state |-> s, age |-> a] ELSE @[k]]]

\* Mutant: what was cleared is compared with the first report for ever.
detectClearedHallOrdersOnce(n, update) ==
    /\ previousOrders' = [previousOrders EXCEPT ![n] =
          IF @ = {} THEN update.orders ELSE @]
    /\ \E sent \in SUBSET (previousOrders[n] \ update.orders) :
          clearedTx' = [clearedTx EXCEPT ![n] = {o \in sent : o[2] # "Cab"}]

\* Hall orders that are gone since the last report are signalled, unless the
\* channel is full at that moment.  (No report yet counts as no orders.)
detectClearedHallOrders(n, update) ==
    /\ previousOrders' = [previousOrders EXCEPT ![n] = update.orders]
    /\ \E sent \in SUBSET (previousOrders[n] \ update.orders) :
          clearedTx' = [clearedTx EXCEPT ![n] = {o \in sent : o[2] # "Cab"}]

OnFsmUpdate(n) ==
    /\ n \in up \cap Reporting
    /\ \E update \in Updates :
          /\ myState' = [myState EXCEPT ![n] = update]
          /\ detectClearedHallOrders(n, update)
          /\ knownElevators' = stored(n, n, update, 0)
    /\ UNCHANGED <<up, tickers, network, net, missed, crashes>>

\* Mutant: what is known already is refreshed, but not replaced.
OnStateRefreshed(n, m) ==
    /\ n \in up
    /\ \E rcvd \in net :
          /\ rcvd.to = n /\ rcvd.from = m
          /\ net' = net \ {rcvd}
          /\ knownElevators' = stored(n, m,
                IF m \in DOMAIN knownElevators[n]
                THEN knownElevators[n][m].state ELSE rcvd.state, rcvd.age)
    /\ missed' = [missed EXCEPT ![n][m] = 0]
    /\ UNCHANGED <<up, reports, tickers, network, crashes>>

\* A broadcast of m comes in.
OnState(n, m) ==
    /\ n \in up
    /\ \E rcvd \in net :
          /\ rcvd.to = n /\ rcvd.from = m
          /\ net' = net \ {rcvd}
          /\ knownElevators' = stored(n, m, rcvd.state, rcvd.age)
    /\ missed' = [missed EXCEPT ![n][m] = 0]
    /\ UNCHANGED <<up, reports, tickers, network, crashes>>

\* Mutant: the own entry is left as it is.
OnBroadcastTickOnly(n) ==
    /\ n \in broadcastTick
    /\ broadcastTick' = broadcastTick \ {n}
    /\ net' = net \cup
          {[to |-> m, from |-> n, state |-> myState[n], age |-> 0] : m \in up \ {n}}
    /\ UNCHANGED <<up, manager, timeoutTick, network, missed, crashes>>

\* Mutant: the timestamp is that of the last change, and the older the state
\* the older the message.
OnBroadcastTickUnstamped(n) ==
    /\ n \in broadcastTick
    /\ broadcastTick' = broadcastTick \ {n}
    /\ net' = net \cup
          {[to |-> m, from |-> n, state |-> myState[n],
            age |-> IF n \in DOMAIN knownElevators[n]
                    THEN knownElevators[n][n].age ELSE 0] : m \in up \ {n}}
    /\ UNCHANGED <<up, manager, timeoutTick, network, missed, crashes>>

\* It broadcasts its state (which it ignores when it comes back); a send that
\* finds the channel full is a lost one.
OnBroadcastTick(n) ==
    /\ n \in broadcastTick
    /\ broadcastTick' = broadcastTick \ {n}
    /\ net' = net \cup
          {[to |-> m, from |-> n, state |-> myState[n], age |-> 0] : m \in up \ {n}}
    /\ knownElevators' = stored(n, n, myState[n], 0)
    /\ UNCHANGED <<up, reports, timeoutTick, network, missed, crashes>>

\* Mutant: the limit is never reached by an elevator that was heard once.
timedOutNever(e) == {FALSE}

\* Is e over the limit: no, yes, or by a fraction of a tick either.
timedOut(e) ==
    IF e.age < Timeout - Skew THEN {FALSE}
    ELSE IF e.age = Old THEN {TRUE} ELSE BOOLEAN

checkForTimeouts(n) ==
    \E lost \in SUBSET DOMAIN knownElevators[n] :
        /\ \A m \in DOMAIN knownElevators[n] :
              (m \in lost) \in timedOut(knownElevators[n][m])
        /\ knownElevators' = [knownElevators EXCEPT ![n] =
              [m \in DOMAIN @ \ lost |-> @[m]]]

OnTimeoutTick(n) ==
    /\ n \in timeoutTick
    /\ timeoutTick' = timeoutTick \ {n}
    /\ checkForTimeouts(n)
    /\ UNCHANGED <<up, reports, broadcastTick, network, net, missed, crashes>>

-----------------------------------------------------------------------------
(* Time, the network and failures *)

older(e) == [e EXCEPT !.age = IF @ = Old THEN Old ELSE @ + 1]

\* Half a second passes.  A manager handles a tick in far less, and a
\* broadcast that is under way for too long counts as lost.
Tick ==
    /\ broadcastTick = {} /\ timeoutTick = {}
    /\ \A b \in net : b.age < network.delay
    /\ broadcastTick' = up
    /\ timeoutTick' = up
    /\ knownElevators' = [n \in Node |->
          [m \in DOMAIN knownElevators[n] |-> older(knownElevators[n][m])]]
    /\ net' = {older(b) : b \in net}
    /\ missed' = [n \in Node |-> [m \in Node |->
          IF m \in up THEN missed[n][m] ELSE Timeout]]
    /\ UNCHANGED <<up, reports, network, crashes>>

Lose ==
    /\ \E b \in net :
          /\ missed[b.to][b.from] # network.loss
          /\ net' = net \ {b}
          /\ missed' = [missed EXCEPT ![b.to][b.from] =
                IF @ = Timeout THEN @ ELSE @ + 1]
    /\ UNCHANGED <<up, manager, tickers, network, crashes>>

Crash(n) ==
    /\ n \in up
    /\ crashes < MaxCrashes
    /\ crashes' = crashes + 1
    /\ up' = up \ {n}
    /\ myState' = [myState EXCEPT ![n] = Start]
    /\ previousOrders' = [previousOrders EXCEPT ![n] = {}]
    /\ clearedTx' = [clearedTx EXCEPT ![n] = {}]
    /\ knownElevators' = [knownElevators EXCEPT ![n] = nobody]
    /\ broadcastTick' = broadcastTick \ {n}
    /\ timeoutTick' = timeoutTick \ {n}
    /\ net' = {b \in net : b.to # n}
    /\ missed' = [missed EXCEPT ![n] = [m \in Node |-> 0]]
    /\ UNCHANGED network

Restart(n) ==
    /\ n \notin up
    /\ up' = up \cup {n}
    /\ missed' = [m \in Node |-> [missed[m] EXCEPT ![n] = Timeout]]
    /\ UNCHANGED <<manager, tickers, network, net, crashes>>

Next ==
    \/ \E n \in Node :
          \/ OnFsmUpdate(n)
          \/ \E m \in Node : OnState(n, m)
          \/ OnBroadcastTick(n) \/ OnTimeoutTick(n)
          \/ Crash(n) \/ Restart(n)
    \/ Tick \/ Lose

Spec == Init /\ [][Next]_vars

\* A running manager gets to every ticker and channel of its select, time
\* passes, and a link does not lose everything.
Fairness ==
    /\ WF_vars(Tick)
    /\ \A n \in Node :
          /\ WF_vars(OnBroadcastTick(n))
          /\ WF_vars(OnTimeoutTick(n))
          /\ \A m \in Node \ {n} : SF_vars(OnState(n, m))

FairSpec == Spec /\ Fairness

-----------------------------------------------------------------------------
(* Properties *)

\* The fleet is told of a hall order as cleared only if the last report had it
\* and this one has not: no signal for an order that is still queued, and none
\* a second time (it would cancel the order of the next passenger).
ClearedWasServed ==
    [][\A n \in up \cap up' :
          clearedTx'[n] # clearedTx[n] =>
              clearedTx'[n] \subseteq HallOrders(myState[n]) \ HallOrders(myState'[n])]_vars

\* Nobody is forgotten who runs and whose broadcasts, but for as many in a row as
\* the network may lose, come through: not even when an old one overtakes a new one.
NoFalseTimeout ==
    [][\A n \in up \cap up', m \in Node :
          m \in DOMAIN knownElevators[n] \ DOMAIN knownElevators'[n] =>
              m \notin up \/ missed[n][m] > network.loss]_vars

\* An elevator that stays down is forgotten by every other, for good.
DownIsForgotten ==
    \A n \in Node : \A m \in Node \ {n} :
        <>[](n \in up /\ m \notin up) => <>[](m \notin DOMAIN knownElevators[n])

\* Once nothing changes, every elevator comes to know every other as it is,
\* although any broadcast may be lost, late or overtaken by an older one.
ViewsConverge ==
    \A n \in Node : \A m \in Node \ {n} : \A s \in Updates :
        <>[](n \in up /\ m \in up /\ myState[m] = s) =>
            <>[](m \in DOMAIN knownElevators[n] /\ knownElevators[n][m].state = s)
================================================================================
