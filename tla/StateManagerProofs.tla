--------------------------- MODULE StateManagerProofs ---------------------------
(***************************************************************************)
(* What holds of StateManager for every fleet, every clock skew, and every *)
(* network that FleetAssumption allows: nobody who runs is forgotten, and  *)
(* the fleet is told of an order as cleared only when it was.              *)
(***************************************************************************)
EXTENDS StateManager, FiniteSetTheorems, TLAPS

LEMMA ConstantTypes ==
    /\ Timeout \in Nat /\ Skew \in Nat /\ MaxCrashes \in Nat
    /\ Old \in Nat /\ Old = Timeout + Skew + 1
    /\ Start \in Updates /\ Start.orders = {}
    /\ \A w \in Networks :
          /\ w.loss \in Nat /\ w.delay \in Nat
          /\ w.loss + 2 * w.delay + Skew + 2 <= Timeout
  BY FleetAssumption DEF Old

\* n has stored state s of age a as m's, and nothing else changed in any map.
HasStored(n, m, s, a) ==
    /\ DOMAIN knownElevators' = Node
    /\ \A k \in Node \ {n} : knownElevators'[k] = knownElevators[k]
    /\ DOMAIN knownElevators'[n] = DOMAIN knownElevators[n] \cup {m}
    /\ knownElevators'[n][m] = [state |-> s, age |-> a]
    /\ \A k \in DOMAIN knownElevators[n] \ {m} :
          knownElevators'[n][k] = knownElevators[n][k]

LEMMA StoredEntries ==
    ASSUME TypeOK, NEW n \in Node, NEW m \in Node, NEW s, NEW a,
           knownElevators' = stored(n, m, s, a)
    PROVE  HasStored(n, m, s, a)
  <1> DEFINE map == [k \in DOMAIN knownElevators[n] \cup {m} |->
                        IF k = m THEN [state |-> s, age |-> a] ELSE knownElevators[n][k]]
  <1>1. knownElevators' = [knownElevators EXCEPT ![n] = map]
    BY DEF stored
  <1>2. DOMAIN knownElevators = Node
    BY DEF TypeOK
  <1>3. DOMAIN knownElevators' = Node /\ knownElevators'[n] = map
        /\ \A k \in Node \ {n} : knownElevators'[k] = knownElevators[k]
    <2> HIDE DEF map
    <2> QED
      BY <1>1, <1>2
  <1> QED
    BY <1>3 DEF HasStored

\* The conjunct of TypeOK about the maps.
MapOK ==
    /\ DOMAIN knownElevators = Node
    /\ \A n \in Node :
          /\ DOMAIN knownElevators[n] \subseteq Node
          /\ \A m \in DOMAIN knownElevators[n] : knownElevators[n][m] \in Entries

LEMMA StoredKeepsMap ==
    ASSUME TypeOK, NEW n \in Node, NEW m \in Node, NEW s \in Updates, NEW a \in Ages,
           HasStored(n, m, s, a)
    PROVE  MapOK'
  <1>1. [state |-> s, age |-> a] \in Entries
    BY DEF Entries
  <1>2. \A k \in DOMAIN knownElevators'[n] : knownElevators'[n][k] \in Entries
    BY <1>1 DEF TypeOK, HasStored
  <1> QED
    BY <1>2 DEF TypeOK, MapOK, HasStored

LEMMA OlderEntry == ASSUME NEW e \in Entries
                    PROVE  /\ older(e) \in Entries /\ older(e).state = e.state
                           /\ older(e).age <= e.age + 1
  BY ConstantTypes DEF older, Entries, Ages

LEMMA OlderMessage == ASSUME NEW b \in Messages
                      PROVE  /\ older(b) \in Messages
                             /\ older(b).to = b.to /\ older(b).from = b.from
                             /\ b.age < Old => older(b).age = b.age + 1
  BY ConstantTypes DEF older, Messages, Ages

(***************************************************************************)
(* Types, and what a manager that is down knows: nothing.                  *)
(***************************************************************************)
DownInv == \A n \in Node \ up : DOMAIN knownElevators[n] = {}

\* What a manager compares the next report with are the orders of the last.
OrdersInv == \A n \in Node : previousOrders[n] = myState[n].orders

TypeInv == TypeOK /\ DownInv /\ OrdersInv

LEMMA TypeInit == Init => TypeInv
  <1> SUFFICES ASSUME Init PROVE TypeInv
    OBVIOUS
  <1>1. \A n \in Node : knownElevators[n] = nobody /\ DOMAIN nobody = {}
    BY DEF Init, nobody
  <1>2. {} \in {u.orders : u \in Updates}
    BY ConstantTypes
  <1> QED
    BY <1>1, <1>2, ConstantTypes DEF Init, TypeInv, TypeOK, DownInv, OrdersInv

LEMMA FsmUpdateKeepsTypes == ASSUME TypeInv, NEW n \in Node, OnFsmUpdate(n) PROVE TypeInv'
  <1> USE DEF TypeInv
  <1>1. PICK update \in Updates :
            /\ myState' = [myState EXCEPT ![n] = update]
            /\ detectClearedHallOrders(n, update)
            /\ knownElevators' = stored(n, n, update, 0)
    BY DEF OnFsmUpdate
  <1>2. n \in up /\ UNCHANGED <<up, tickers, network, net, missed, crashes>>
    BY DEF OnFsmUpdate
  <1>3. PICK sent \in SUBSET (previousOrders[n] \ update.orders) :
            /\ previousOrders' = [previousOrders EXCEPT ![n] = update.orders]
            /\ clearedTx' = [clearedTx EXCEPT ![n] = {o \in sent : o[2] # "Cab"}]
    BY <1>1 DEF detectClearedHallOrders
  <1>4. 0 \in Ages
    BY ConstantTypes DEF Ages
  <1>11. HasStored(n, n, update, 0)
    BY <1>1, StoredEntries
  <1>5. MapOK'
    BY <1>4, <1>11, StoredKeepsMap
  <1>6. DownInv'
    BY <1>2, <1>11 DEF DownInv, HasStored
  <1>7. OrdersInv'
    BY <1>1, <1>3 DEF TypeOK, OrdersInv
  <1>8. previousOrders' \in [Node -> {u.orders : u \in Updates}]
    BY <1>3 DEF TypeOK
  <1>9. clearedTx' \in [Node -> SUBSET UNION {u.orders : u \in Updates}]
    <2>1. {o \in sent : o[2] # "Cab"} \subseteq UNION {u.orders : u \in Updates}
      BY DEF TypeOK
    <2> QED
      BY <1>3, <2>1 DEF TypeOK
  <1>10. TypeOK'
    BY <1>1, <1>2, <1>5, <1>8, <1>9 DEF TypeOK, MapOK, tickers
  <1> QED
    BY <1>6, <1>7, <1>10

LEMMA StateKeepsTypes ==
    ASSUME TypeInv, NEW n \in Node, NEW m \in Node, OnState(n, m) PROVE TypeInv'
  <1> USE DEF TypeInv
  <1>1. PICK rcvd \in net :
            /\ net' = net \ {rcvd}
            /\ knownElevators' = stored(n, m, rcvd.state, rcvd.age)
    BY DEF OnState
  <1>2. /\ n \in up /\ missed' = [missed EXCEPT ![n][m] = 0]
        /\ UNCHANGED <<up, reports, tickers, network, crashes>>
    BY DEF OnState
  <1>3. rcvd.state \in Updates /\ rcvd.age \in Ages
    BY DEF TypeOK, Messages
  <1>7. HasStored(n, m, rcvd.state, rcvd.age)
    BY <1>1, StoredEntries
  <1>4. MapOK'
    BY <1>3, <1>7, StoredKeepsMap
  <1>5. DownInv' /\ OrdersInv'
    BY <1>2, <1>7 DEF DownInv, OrdersInv, reports, HasStored
  <1>6. missed' \in [Node -> [Node -> 0 .. Timeout]]
    BY <1>2, ConstantTypes DEF TypeOK
  <1> QED
    BY <1>1, <1>2, <1>4, <1>5, <1>6 DEF TypeOK, MapOK, tickers, reports

LEMMA BroadcastKeepsTypes ==
    ASSUME TypeInv, NEW n \in Node, OnBroadcastTick(n) PROVE TypeInv'
  <1> USE DEF TypeInv
  <1>1. /\ n \in broadcastTick
        /\ broadcastTick' = broadcastTick \ {n}
        /\ net' = net \cup
              {[to |-> m, from |-> n, state |-> myState[n], age |-> 0] : m \in up \ {n}}
        /\ knownElevators' = stored(n, n, myState[n], 0)
        /\ UNCHANGED <<up, reports, timeoutTick, network, missed, crashes>>
    BY DEF OnBroadcastTick
  <1>2. 0 \in Ages /\ myState[n] \in Updates
    BY ConstantTypes DEF Ages, TypeOK
  <1>6. HasStored(n, n, myState[n], 0)
    BY <1>1, StoredEntries
  <1>3. MapOK'
    BY <1>2, <1>6, StoredKeepsMap
  <1>4. DownInv' /\ OrdersInv'
    BY <1>1, <1>6 DEF TypeOK, DownInv, OrdersInv, reports, HasStored
  <1>5. net' \subseteq Messages
    BY <1>1, <1>2 DEF TypeOK, Messages
  <1> QED
    BY <1>1, <1>3, <1>4, <1>5 DEF TypeOK, MapOK, reports

LEMMA TimeoutTickKeepsTypes ==
    ASSUME TypeInv, NEW n \in Node, OnTimeoutTick(n) PROVE TypeInv'
  <1> USE DEF TypeInv
  <1>1. /\ timeoutTick' = timeoutTick \ {n}
        /\ UNCHANGED <<up, reports, broadcastTick, network, net, missed, crashes>>
    BY DEF OnTimeoutTick
  <1>2. PICK lost \in SUBSET DOMAIN knownElevators[n] :
            knownElevators' = [knownElevators EXCEPT ![n] =
                [m \in DOMAIN @ \ lost |-> @[m]]]
    BY DEF OnTimeoutTick, checkForTimeouts
  <1>3. MapOK' /\ DownInv'
    BY <1>1, <1>2 DEF TypeOK, MapOK, DownInv
  <1> QED
    BY <1>1, <1>3 DEF TypeOK, MapOK, OrdersInv, reports

LEMMA TickKeepsTypes == ASSUME TypeInv, Tick PROVE TypeInv'
  <1> USE DEF TypeInv
  <1>1. /\ broadcastTick' = up /\ timeoutTick' = up
        /\ knownElevators' = [n \in Node |->
              [m \in DOMAIN knownElevators[n] |-> older(knownElevators[n][m])]]
        /\ net' = {older(b) : b \in net}
        /\ missed' = [n \in Node |-> [m \in Node |->
              IF m \in up THEN missed[n][m] ELSE Timeout]]
        /\ UNCHANGED <<up, reports, network, crashes>>
    BY DEF Tick
  <1>2. MapOK' /\ DownInv'
    BY <1>1, OlderEntry DEF TypeOK, MapOK, DownInv
  <1>3. net' \subseteq Messages
    BY <1>1, OlderMessage DEF TypeOK
  <1>4. missed' \in [Node -> [Node -> 0 .. Timeout]]
    BY <1>1, ConstantTypes DEF TypeOK
  <1> QED
    BY <1>1, <1>2, <1>3, <1>4 DEF TypeOK, MapOK, OrdersInv, reports

LEMMA LoseKeepsTypes == ASSUME TypeInv, Lose PROVE TypeInv'
  <1> USE DEF TypeInv
  <1>1. PICK b \in net :
            /\ net' = net \ {b}
            /\ missed' = [missed EXCEPT ![b.to][b.from] =
                  IF @ = Timeout THEN @ ELSE @ + 1]
    BY DEF Lose
  <1>2. UNCHANGED <<up, manager, tickers, network, crashes>>
    BY DEF Lose
  <1>3. b.to \in Node /\ b.from \in Node
    BY DEF TypeOK, Messages
  <1>4. missed' \in [Node -> [Node -> 0 .. Timeout]]
    <2>1. missed[b.to][b.from] \in 0 .. Timeout
      BY <1>3 DEF TypeOK
    <2>2. ASSUME NEW k \in 0 .. Timeout
          PROVE  (IF k = Timeout THEN k ELSE k + 1) \in 0 .. Timeout
      BY ConstantTypes
    <2> QED
      BY <1>1, <1>3, <2>1, <2>2 DEF TypeOK
  <1> QED
    BY <1>1, <1>2, <1>4 DEF TypeOK, DownInv, OrdersInv, manager, reports, tickers

LEMMA CrashKeepsTypes == ASSUME TypeInv, NEW n \in Node, Crash(n) PROVE TypeInv'
  <1> USE DEF TypeInv
  <1>1. /\ crashes < MaxCrashes /\ crashes' = crashes + 1
        /\ up' = up \ {n}
        /\ myState' = [myState EXCEPT ![n] = Start]
        /\ previousOrders' = [previousOrders EXCEPT ![n] = {}]
        /\ clearedTx' = [clearedTx EXCEPT ![n] = {}]
        /\ knownElevators' = [knownElevators EXCEPT ![n] = nobody]
        /\ broadcastTick' = broadcastTick \ {n}
        /\ timeoutTick' = timeoutTick \ {n}
        /\ net' = {b \in net : b.to # n}
        /\ missed' = [missed EXCEPT ![n] = [m \in Node |-> 0]]
        /\ network' = network
    BY DEF Crash
  <1>2. DOMAIN nobody = {}
    BY DEF nobody
  <1>3. MapOK' /\ DownInv'
    BY <1>1, <1>2 DEF TypeOK, MapOK, DownInv
  <1>4. OrdersInv' /\ {} \in {u.orders : u \in Updates}
    BY <1>1, ConstantTypes DEF TypeOK, OrdersInv
  <1>5. missed' \in [Node -> [Node -> 0 .. Timeout]]
    BY <1>1, ConstantTypes DEF TypeOK
  <1>6. crashes' \in 0 .. MaxCrashes
    BY <1>1, ConstantTypes DEF TypeOK
  <1>7. /\ myState' \in [Node -> Updates]
        /\ previousOrders' \in [Node -> {u.orders : u \in Updates}]
        /\ clearedTx' \in [Node -> SUBSET UNION {u.orders : u \in Updates}]
    BY <1>1, <1>4, ConstantTypes DEF TypeOK
  <1> QED
    BY <1>1, <1>3, <1>4, <1>5, <1>6, <1>7 DEF TypeOK, MapOK

LEMMA RestartKeepsTypes == ASSUME TypeInv, NEW n \in Node, Restart(n) PROVE TypeInv'
  <1> USE DEF TypeInv
  <1>1. /\ up' = up \cup {n}
        /\ missed' = [m \in Node |-> [missed[m] EXCEPT ![n] = Timeout]]
        /\ UNCHANGED <<manager, tickers, network, net, crashes>>
    BY DEF Restart
  <1>2. missed' \in [Node -> [Node -> 0 .. Timeout]]
    BY <1>1, ConstantTypes DEF TypeOK
  <1> QED
    BY <1>1, <1>2 DEF TypeOK, DownInv, OrdersInv, manager, reports, tickers

LEMMA TypesInductive == TypeInv /\ [Next]_vars => TypeInv'
  <1> SUFFICES ASSUME TypeInv, [Next]_vars PROVE TypeInv'
    OBVIOUS
  <1>1. ASSUME NEW n \in Node, OnFsmUpdate(n) \/ OnBroadcastTick(n) \/ OnTimeoutTick(n)
        PROVE  TypeInv'
    BY <1>1, FsmUpdateKeepsTypes, BroadcastKeepsTypes, TimeoutTickKeepsTypes
  <1>2. ASSUME NEW n \in Node, NEW m \in Node, OnState(n, m) PROVE TypeInv'
    BY <1>2, StateKeepsTypes
  <1>3. ASSUME NEW n \in Node, Crash(n) \/ Restart(n) PROVE TypeInv'
    BY <1>3, CrashKeepsTypes, RestartKeepsTypes
  <1>4. CASE Tick \/ Lose
    BY <1>4, TickKeepsTypes, LoseKeepsTypes
  <1>5. CASE UNCHANGED vars
    BY <1>5 DEF TypeInv, TypeOK, DownInv, OrdersInv, vars, manager, reports, tickers
  <1> QED
    BY <1>1, <1>2, <1>3, <1>4, <1>5 DEF Next

\* Every variable of the fleet keeps its type, a manager that is down knows
\* nobody, and what it compares reports with is the last report.
THEOREM TypesHold == Spec => []TypeInv
  BY TypeInit, TypesInductive, PTL DEF Spec

\* What is signalled as cleared was in the report before and is not in this one
\* (state_manager.go:158-197), whatever reports come and however often the
\* elevator crashes.
THEOREM ClearedIsServed == Spec => ClearedWasServed
  <1> DEFINE A == \A n \in up \cap up' :
                    clearedTx'[n] # clearedTx[n] =>
                        clearedTx'[n] \subseteq HallOrders(myState[n]) \ HallOrders(myState'[n])
  <1>1. TypeInv /\ [Next]_vars => [A]_vars
    <2> SUFFICES ASSUME TypeInv, Next, NEW n \in up \cap up', clearedTx'[n] # clearedTx[n]
                 PROVE  clearedTx'[n] \subseteq HallOrders(myState[n]) \ HallOrders(myState'[n])
      OBVIOUS
    <2>1. n \in Node /\ clearedTx \in [Node -> SUBSET UNION {u.orders : u \in Updates}]
      BY DEF TypeInv, TypeOK
    <2>2. PICK k \in Node : OnFsmUpdate(k) \/ Crash(k)
      BY DEF Next, OnState, OnBroadcastTick, OnTimeoutTick, Restart, Tick, Lose, manager, reports
    <2>3. CASE Crash(k)
      BY <2>1, <2>3 DEF Crash
    <2>4. CASE OnFsmUpdate(k)
      <3>1. PICK update \in Updates :
                /\ myState' = [myState EXCEPT ![k] = update]
                /\ detectClearedHallOrders(k, update)
        BY <2>4 DEF OnFsmUpdate
      <3>2. PICK sent \in SUBSET (previousOrders[k] \ update.orders) :
                clearedTx' = [clearedTx EXCEPT ![k] = {o \in sent : o[2] # "Cab"}]
        BY <3>1 DEF detectClearedHallOrders
      <3>3. k = n
        BY <2>1, <3>2
      <3>4. clearedTx'[n] = {o \in sent : o[2] # "Cab"} /\ myState'[n] = update
        BY <2>1, <3>1, <3>2, <3>3 DEF TypeInv, TypeOK
      <3>5. previousOrders[n] = myState[n].orders
        BY <2>1 DEF TypeInv, OrdersInv
      <3> QED
        BY <3>2, <3>3, <3>4, <3>5 DEF HallOrders
    <2> QED
      BY <2>2, <2>3, <2>4
  <1> QED
    BY <1>1, TypesHold, PTL DEF Spec, ClearedWasServed

(***************************************************************************)
(* Nobody who runs is forgotten.  Since n heard of m, every half second has *)
(* brought a broadcast of m that was lost, or is still under way, or is     *)
(* about to be sent: the entry is no older than all of them together.  The  *)
(* ones under way differ in age, so there are no more than network.delay    *)
(* allows.                                                                  *)
(***************************************************************************)
ages(messages, n, m) == {b.age : b \in {x \in messages : x.to = n /\ x.from = m}}

LEMMA AgesBetween ==
    ASSUME NEW messages, NEW n, NEW m, NEW first \in 0 .. 1, NEW last \in Nat,
           \A b \in messages : b.from = m => b.age \in first .. last
    PROVE  /\ ages(messages, n, m) \subseteq first .. last
           /\ IsFiniteSet(ages(messages, n, m))
           /\ Cardinality(ages(messages, n, m)) \in Nat
           /\ Cardinality(ages(messages, n, m)) + first <= last + 1
  <1>1. ages(messages, n, m) \subseteq first .. last
    BY DEF ages
  <1>2. first \in Int /\ last \in Int /\ ~(first > last + 1)
    OBVIOUS
  <1>3. IsFiniteSet(first .. last) /\ Cardinality(first .. last) = last - first + 1
    <2>1. /\ IsFiniteSet(first .. last)
          /\ Cardinality(first .. last) = IF first > last THEN 0 ELSE last - first + 1
      BY <1>2, FS_Interval
    <2> QED
      BY <1>2, <2>1
  <1>4. /\ IsFiniteSet(ages(messages, n, m))
        /\ Cardinality(ages(messages, n, m)) <= last - first + 1
    BY <1>1, <1>3, FS_Subset
  <1>5. Cardinality(ages(messages, n, m)) \in Nat
    BY <1>4, FS_CardinalityType
  <1> QED
    BY <1>1, <1>4, <1>5

underWay(n, m) == Cardinality(ages(net, n, m))

toBeSent(m) == IF m \in broadcastTick THEN 1 ELSE 0

\* A broadcast is not late, and was not sent after the last tick by a manager
\* that has yet to broadcast.
NetInv ==
    \A b \in net : b.age <= network.delay /\ (b.from \in broadcastTick => b.age >= 1)

AgeBound(n, m) ==
    m \in DOMAIN knownElevators[n] /\ missed[n][m] <= network.loss =>
        knownElevators[n][m].age <=
            network.delay + missed[n][m] + underWay(n, m) + toBeSent(m)

AgeInv == \A n, m \in up : AgeBound(n, m)

Quantities(n, m) ==
    /\ network.delay \in Nat /\ network.loss \in Nat
    /\ missed[n][m] \in Nat
    /\ toBeSent(m) \in 0 .. 1
    /\ IsFiniteSet(ages(net, n, m)) /\ underWay(n, m) \in Nat
    /\ underWay(n, m) + toBeSent(m) <= network.delay + 1

LEMMA QuantitiesHold ==
    ASSUME TypeInv, NetInv, NEW n \in Node, NEW m \in Node
    PROVE  Quantities(n, m)
  <1>1. network.delay \in Nat /\ network.loss \in Nat /\ toBeSent(m) \in 0 .. 1
    BY ConstantTypes DEF TypeInv, TypeOK, toBeSent
  <1>2. missed[n][m] \in Nat
    BY ConstantTypes DEF TypeInv, TypeOK
  <1>3. \A b \in net : b.from = m => b.age \in toBeSent(m) .. network.delay
    <2>1. \A b \in net : b.age \in Nat
      BY ConstantTypes DEF TypeInv, TypeOK, Messages, Ages
    <2> QED
      BY <1>1, <2>1 DEF NetInv, toBeSent
  <1> QED
    BY <1>1, <1>2, <1>3, AgesBetween DEF Quantities, underWay

LEMMA QuantitiesHoldNext ==
    ASSUME TypeInv', NetInv', NEW n \in Node, NEW m \in Node
    PROVE  Quantities(n, m)'
  <1>1. network'.delay \in Nat /\ network'.loss \in Nat /\ toBeSent(m)' \in 0 .. 1
    BY ConstantTypes DEF TypeInv, TypeOK, toBeSent
  <1>2. missed'[n][m] \in Nat
    BY ConstantTypes DEF TypeInv, TypeOK
  <1>3. \A b \in net' : b.from = m => b.age \in toBeSent(m)' .. network'.delay
    <2>1. \A b \in net' : b.age \in Nat
      BY ConstantTypes DEF TypeInv, TypeOK, Messages, Ages
    <2> QED
      BY <1>1, <2>1 DEF NetInv, toBeSent
  <1> QED
    BY <1>1, <1>2, <1>3, AgesBetween DEF Quantities, underWay

\* Nothing changes between n and m.
SameLink(n, m) ==
    /\ network' = network /\ toBeSent(m)' = toBeSent(m)
    /\ m \in DOMAIN knownElevators'[n] =>
          /\ m \in DOMAIN knownElevators[n]
          /\ knownElevators'[n][m] = knownElevators[n][m]
    /\ missed'[n][m] = missed[n][m]
    /\ ages(net', n, m) = ages(net, n, m)

LEMMA SameLinkKeepsBound ==
    ASSUME NEW n \in Node, NEW m \in Node, AgeBound(n, m), SameLink(n, m)
    PROVE  AgeBound(n, m)'
  BY DEF AgeBound, SameLink, underWay

\* An entry that n has just made is within the bound.
LEMMA NewEntryBound ==
    ASSUME NEW n \in Node, NEW m \in Node, Quantities(n, m)',
           knownElevators'[n][m].age \in 0 .. network'.delay
    PROVE  AgeBound(n, m)'
  BY DEF AgeBound, Quantities

LEMMA AgeInit == Init => NetInv /\ AgeInv
  BY DEF Init, NetInv, AgeInv, AgeBound, nobody

FleetInv == TypeInv /\ NetInv /\ AgeInv

LEMMA FsmUpdateKeepsAges ==
    ASSUME FleetInv, TypeInv', NEW k \in Node, OnFsmUpdate(k) PROVE FleetInv'
  <1> USE DEF FleetInv
  <1>1. PICK update \in Updates : knownElevators' = stored(k, k, update, 0)
    BY DEF OnFsmUpdate
  <1>2. UNCHANGED <<up, tickers, network, net, missed, crashes>>
    BY DEF OnFsmUpdate
  <1>3. HasStored(k, k, update, 0)
    BY <1>1, StoredEntries DEF TypeInv
  <1>4. NetInv'
    BY <1>2 DEF NetInv, tickers
  <1>5. ASSUME NEW n \in up', NEW m \in up' PROVE AgeBound(n, m)'
    <2>1. n \in Node /\ m \in Node /\ AgeBound(n, m)
      BY <1>2, <1>5 DEF TypeInv, TypeOK, AgeInv
    <2>2. CASE n = k /\ m = k
      <3>1. Quantities(n, m)' /\ knownElevators'[n][m].age = 0
        BY <1>3, <1>4, <2>1, <2>2, QuantitiesHoldNext DEF HasStored
      <3> QED
        BY <2>1, <3>1, NewEntryBound DEF Quantities
    <2>3. CASE ~(n = k /\ m = k)
      <3>1. SameLink(n, m)
        BY <1>2, <1>3, <2>1, <2>3 DEF HasStored, SameLink, toBeSent, tickers
      <3> QED
        BY <2>1, <3>1, SameLinkKeepsBound
    <2> QED
      BY <2>2, <2>3
  <1> QED
    BY <1>4, <1>5 DEF AgeInv

LEMMA StateKeepsAges ==
    ASSUME FleetInv, TypeInv', NEW k \in Node, NEW l \in Node, OnState(k, l)
    PROVE  FleetInv'
  <1> USE DEF FleetInv
  <1>1. PICK rcvd \in net :
            /\ rcvd.to = k /\ rcvd.from = l
            /\ net' = net \ {rcvd}
            /\ knownElevators' = stored(k, l, rcvd.state, rcvd.age)
    BY DEF OnState
  <1>2. /\ missed' = [missed EXCEPT ![k][l] = 0]
        /\ UNCHANGED <<up, reports, tickers, network, crashes>>
    BY DEF OnState
  <1>3. HasStored(k, l, rcvd.state, rcvd.age)
    BY <1>1, StoredEntries DEF TypeInv
  <1>4. NetInv'
    BY <1>1, <1>2 DEF NetInv, tickers
  <1>5. ASSUME NEW n \in up', NEW m \in up' PROVE AgeBound(n, m)'
    <2>1. n \in Node /\ m \in Node /\ AgeBound(n, m)
      BY <1>2, <1>5 DEF TypeInv, TypeOK, AgeInv
    <2>2. CASE n = k /\ m = l
      <3>1. rcvd.age \in 0 .. network.delay
        BY ConstantTypes DEF TypeInv, TypeOK, Messages, Ages, NetInv
      <3>2. Quantities(n, m)' /\ knownElevators'[n][m].age \in 0 .. network'.delay
        BY <1>2, <1>3, <1>4, <2>1, <2>2, <3>1, QuantitiesHoldNext DEF HasStored
      <3> QED
        BY <2>1, <3>2, NewEntryBound
    <2>3. CASE ~(n = k /\ m = l)
      <3>1. ages(net', n, m) = ages(net, n, m)
        BY <1>1, <2>3 DEF ages
      <3>2. missed'[n][m] = missed[n][m]
        BY <1>2, <2>1, <2>3 DEF TypeInv, TypeOK
      <3>3. SameLink(n, m)
        BY <1>2, <1>3, <2>1, <2>3, <3>1, <3>2 DEF HasStored, SameLink, toBeSent, tickers
      <3> QED
        BY <2>1, <3>3, SameLinkKeepsBound
    <2> QED
      BY <2>2, <2>3
  <1> QED
    BY <1>4, <1>5 DEF AgeInv

\* What k is about to send becomes what is under way.
LEMMA BroadcastKeepsAges ==
    ASSUME FleetInv, TypeInv', NEW k \in Node, OnBroadcastTick(k) PROVE FleetInv'
  <1> USE DEF FleetInv
  <1> DEFINE sent == {[to |-> m, from |-> k, state |-> myState[k], age |-> 0] : m \in up \ {k}}
  <1>1. /\ k \in broadcastTick
        /\ broadcastTick' = broadcastTick \ {k}
        /\ net' = net \cup sent
        /\ knownElevators' = stored(k, k, myState[k], 0)
        /\ UNCHANGED <<up, reports, timeoutTick, network, missed, crashes>>
    BY DEF OnBroadcastTick
  <1>2. HasStored(k, k, myState[k], 0)
    BY <1>1, StoredEntries DEF TypeInv
  <1>3. network.delay \in Nat
    BY ConstantTypes DEF TypeInv, TypeOK
  <1>4. NetInv'
    BY <1>1, <1>3 DEF NetInv
  <1>5. ASSUME NEW n \in up', NEW m \in up' PROVE AgeBound(n, m)'
    <2>1. n \in Node /\ m \in Node /\ AgeBound(n, m) /\ n \in up
      BY <1>1, <1>5 DEF TypeInv, TypeOK, AgeInv
    <2>2. CASE n = k /\ m = k
      <3>1. Quantities(n, m)' /\ knownElevators'[n][m].age = 0
        BY <1>2, <1>4, <2>1, <2>2, QuantitiesHoldNext DEF HasStored
      <3> QED
        BY <2>1, <3>1, NewEntryBound DEF Quantities
    <2>3. CASE m # k
      <3>1. ages(net', n, m) = ages(net, n, m)
        BY <1>1, <2>3 DEF ages
      <3>2. SameLink(n, m)
        BY <1>1, <1>2, <2>1, <2>3, <3>1 DEF HasStored, SameLink, toBeSent
      <3> QED
        BY <2>1, <3>2, SameLinkKeepsBound
    <2>4. CASE n # k /\ m = k
      <3>1. [to |-> n, from |-> k, state |-> myState[k], age |-> 0] \in sent
        BY <2>1, <2>4
      <3>2. ages(net', n, m) = ages(net, n, m) \cup {0}
        BY <1>1, <2>4, <3>1 DEF ages
      <3>3. 0 \notin ages(net, n, m)
        BY <1>1, <2>4 DEF ages, NetInv
      <3>4. Quantities(n, m) /\ Quantities(n, m)'
        BY <1>4, <2>1, QuantitiesHold, QuantitiesHoldNext
      <3>5. underWay(n, m)' = underWay(n, m) + 1
        BY <3>2, <3>3, <3>4, FS_AddElement DEF Quantities, underWay
      <3>6. toBeSent(m) = 1 /\ toBeSent(m)' = 0
        BY <1>1, <2>4 DEF toBeSent
      <3>7. DOMAIN knownElevators'[n] = DOMAIN knownElevators[n]
            /\ knownElevators'[n][m] = knownElevators[n][m]
        BY <1>2, <2>1, <2>4 DEF HasStored
      <3> QED
        BY <1>1, <2>1, <3>4, <3>5, <3>6, <3>7 DEF AgeBound, Quantities
    <2> QED
      BY <2>2, <2>3, <2>4
  <1> QED
    BY <1>4, <1>5 DEF AgeInv

LEMMA TimeoutTickKeepsAges ==
    ASSUME FleetInv, TypeInv', NEW k \in Node, OnTimeoutTick(k) PROVE FleetInv'
  <1> USE DEF FleetInv
  <1>1. UNCHANGED <<up, reports, broadcastTick, network, net, missed, crashes>>
    BY DEF OnTimeoutTick
  <1>2. PICK lost \in SUBSET DOMAIN knownElevators[k] :
            knownElevators' = [knownElevators EXCEPT ![k] =
                [m \in DOMAIN @ \ lost |-> @[m]]]
    BY DEF OnTimeoutTick, checkForTimeouts
  <1>3. NetInv'
    BY <1>1 DEF NetInv
  <1>4. ASSUME NEW n \in up', NEW m \in up' PROVE AgeBound(n, m)'
    <2>1. n \in Node /\ m \in Node /\ AgeBound(n, m)
      BY <1>1, <1>4 DEF TypeInv, TypeOK, AgeInv
    <2>2. m \in DOMAIN knownElevators'[n] =>
              /\ m \in DOMAIN knownElevators[n]
              /\ knownElevators'[n][m] = knownElevators[n][m]
      BY <1>2, <2>1 DEF TypeInv, TypeOK
    <2>3. SameLink(n, m)
      BY <1>1, <2>2 DEF SameLink, toBeSent
    <2> QED
      BY <2>1, <2>3, SameLinkKeepsBound
  <1> QED
    BY <1>3, <1>4 DEF AgeInv

\* A half second makes the entry older, and lets its owner send one more.
LEMMA TickKeepsAges == ASSUME FleetInv, TypeInv', Tick PROVE FleetInv'
  <1> USE DEF FleetInv
  <1>1. /\ broadcastTick = {} /\ broadcastTick' = up
        /\ \A b \in net : b.age < network.delay
        /\ knownElevators' = [n \in Node |->
              [m \in DOMAIN knownElevators[n] |-> older(knownElevators[n][m])]]
        /\ net' = {older(b) : b \in net}
        /\ missed' = [n \in Node |-> [m \in Node |->
              IF m \in up THEN missed[n][m] ELSE Timeout]]
        /\ UNCHANGED <<up, reports, network, crashes>>
    BY DEF Tick
  <1>2. network.delay \in Nat /\ network.delay < Old
    BY ConstantTypes DEF TypeInv, TypeOK
  <1>3. \A b \in net : /\ b.age \in Nat /\ older(b).age = b.age + 1
                       /\ older(b).to = b.to /\ older(b).from = b.from
    <2> SUFFICES ASSUME NEW b \in net
                 PROVE  /\ b.age \in Nat /\ older(b).age = b.age + 1
                        /\ older(b).to = b.to /\ older(b).from = b.from
      OBVIOUS
    <2>1. b \in Messages /\ b.age < network.delay
      BY <1>1 DEF TypeInv, TypeOK
    <2>2. b.age \in Nat /\ b.age < Old
      BY <1>2, <2>1, ConstantTypes DEF Messages, Ages
    <2> QED
      BY <2>1, <2>2, OlderMessage
  <1>4. NetInv'
    <2> SUFFICES ASSUME NEW b \in net PROVE older(b).age <= network.delay /\ older(b).age >= 1
      BY <1>1 DEF NetInv
    <2> QED
      BY <1>1, <1>2, <1>3
  <1>5. ASSUME NEW n \in up', NEW m \in up' PROVE AgeBound(n, m)'
    <2>1. n \in Node /\ m \in Node /\ AgeBound(n, m) /\ m \in up
      BY <1>1, <1>5 DEF TypeInv, TypeOK, AgeInv
    <2>2. Quantities(n, m) /\ Quantities(n, m)'
      BY <1>4, <2>1, QuantitiesHold, QuantitiesHoldNext
    <2>3. \A a \in ages(net, n, m) : a \in Nat /\ a + 1 \in ages(net', n, m)
      BY <1>1, <1>3 DEF ages
    <2>4. [a \in ages(net, n, m) |-> a + 1] \in Injection(ages(net, n, m), ages(net', n, m))
      BY <2>3 DEF Injection, IsInjective
    <2>5. underWay(n, m) <= underWay(n, m)'
      BY <2>2, <2>4, FS_Injection DEF underWay, Quantities
    <2>6. toBeSent(m) = 0 /\ toBeSent(m)' = 1
      BY <1>1, <2>1 DEF toBeSent
    <2>7. missed'[n][m] = missed[n][m]
      BY <1>1, <2>1
    <2>8. ASSUME m \in DOMAIN knownElevators'[n]
          PROVE  /\ m \in DOMAIN knownElevators[n]
                 /\ knownElevators[n][m].age \in Nat /\ knownElevators'[n][m].age \in Nat
                 /\ knownElevators'[n][m].age <= knownElevators[n][m].age + 1
      <3>1. m \in DOMAIN knownElevators[n]
            /\ knownElevators'[n][m] = older(knownElevators[n][m])
        BY <1>1, <2>1, <2>8
      <3>2. knownElevators[n][m] \in Entries
        BY <2>1, <3>1 DEF TypeInv, TypeOK
      <3>3. older(knownElevators[n][m]) \in Entries
            /\ older(knownElevators[n][m]).age <= knownElevators[n][m].age + 1
        BY <3>2, OlderEntry
      <3> QED
        BY <3>1, <3>2, <3>3, ConstantTypes DEF Entries, Ages
    <2> QED
      BY <1>1, <2>1, <2>2, <2>5, <2>6, <2>7, <2>8 DEF AgeBound, Quantities
  <1> QED
    BY <1>4, <1>5 DEF AgeInv

\* What was under way is missed.
LEMMA LoseKeepsAges == ASSUME FleetInv, TypeInv', Lose PROVE FleetInv'
  <1> USE DEF FleetInv
  <1>1. PICK b \in net :
            /\ net' = net \ {b}
            /\ missed' = [missed EXCEPT ![b.to][b.from] =
                  IF @ = Timeout THEN @ ELSE @ + 1]
    BY DEF Lose
  <1>2. UNCHANGED <<up, manager, tickers, network, crashes>>
    BY DEF Lose
  <1>3. NetInv'
    BY <1>1, <1>2 DEF NetInv, tickers
  <1>4. ASSUME NEW n \in up', NEW m \in up' PROVE AgeBound(n, m)'
    <2>1. n \in Node /\ m \in Node /\ AgeBound(n, m)
      BY <1>2, <1>4 DEF TypeInv, TypeOK, AgeInv
    <2>2. CASE ~(b.to = n /\ b.from = m)
      <3>1. ages(net', n, m) = ages(net, n, m)
        BY <1>1, <2>2 DEF ages
      <3>2. b.to \in Node /\ b.from \in Node
        BY DEF TypeInv, TypeOK, Messages
      <3>3. missed'[n][m] = missed[n][m]
        BY <1>1, <2>1, <2>2, <3>2 DEF TypeInv, TypeOK
      <3>4. SameLink(n, m)
        BY <1>2, <3>1, <3>3 DEF SameLink, toBeSent, tickers, manager
      <3> QED
        BY <2>1, <3>4, SameLinkKeepsBound
    <2>3. CASE b.to = n /\ b.from = m
      <3>1. missed'[n][m] = IF missed[n][m] = Timeout THEN Timeout ELSE missed[n][m] + 1
        BY <1>1, <2>1, <2>3 DEF TypeInv, TypeOK
      <3>2. network.loss < Timeout
        <4>1. network \in Networks
          BY DEF TypeInv, TypeOK
        <4> QED
          BY <4>1, ConstantTypes
      <3>3. Quantities(n, m) /\ Quantities(n, m)'
        BY <1>3, <2>1, QuantitiesHold, QuantitiesHoldNext
      <3>4. ages(net, n, m) \subseteq ages(net', n, m) \cup {b.age}
        BY <1>1 DEF ages
      <3>5. underWay(n, m) <= underWay(n, m)' + 1
        <4> DEFINE left == ages(net', n, m)
        <4>4. IsFiniteSet(left) /\ Cardinality(left) \in Nat /\ underWay(n, m)' = Cardinality(left)
          BY <3>3 DEF Quantities, underWay
        <4>1. /\ IsFiniteSet(left \cup {b.age})
              /\ Cardinality(left \cup {b.age}) <= underWay(n, m)' + 1
          <5> HIDE DEF left
          <5> QED
            BY <4>4, FS_AddElement
        <4>2. Cardinality(ages(net, n, m)) <= Cardinality(ages(net', n, m) \cup {b.age})
          BY <3>4, <4>1, FS_Subset
        <4>3. Cardinality(ages(net', n, m) \cup {b.age}) \in Nat
          BY <4>1, FS_CardinalityType
        <4> QED
          BY <3>3, <4>1, <4>2, <4>3 DEF Quantities, underWay
      <3>6. knownElevators' = knownElevators /\ toBeSent(m)' = toBeSent(m) /\ network' = network
        BY <1>2 DEF manager, tickers, toBeSent
      <3>7. m \in DOMAIN knownElevators[n] => knownElevators[n][m].age \in Nat
        BY <2>1, ConstantTypes DEF TypeInv, TypeOK, Entries, Ages
      <3> QED
        BY <2>1, <3>1, <3>2, <3>3, <3>5, <3>6, <3>7 DEF AgeBound, Quantities
    <2> QED
      BY <2>2, <2>3
  <1> QED
    BY <1>3, <1>4 DEF AgeInv

LEMMA CrashKeepsAges ==
    ASSUME FleetInv, TypeInv', NEW k \in Node, Crash(k) PROVE FleetInv'
  <1> USE DEF FleetInv
  <1>1. /\ up' = up \ {k}
        /\ knownElevators' = [knownElevators EXCEPT ![k] = nobody]
        /\ broadcastTick' = broadcastTick \ {k}
        /\ net' = {b \in net : b.to # k}
        /\ missed' = [missed EXCEPT ![k] = [m \in Node |-> 0]]
        /\ network' = network
    BY DEF Crash
  <1>2. NetInv'
    BY <1>1 DEF NetInv
  <1>3. ASSUME NEW n \in up', NEW m \in up' PROVE AgeBound(n, m)'
    <2>1. n \in Node /\ m \in Node /\ AgeBound(n, m) /\ n # k /\ m # k
      BY <1>1, <1>3 DEF TypeInv, TypeOK, AgeInv
    <2>2. ages(net', n, m) = ages(net, n, m)
      BY <1>1, <2>1 DEF ages
    <2>3. knownElevators'[n] = knownElevators[n] /\ missed'[n][m] = missed[n][m]
      BY <1>1, <2>1 DEF TypeInv, TypeOK
    <2>4. SameLink(n, m)
      BY <1>1, <2>1, <2>2, <2>3 DEF SameLink, toBeSent
    <2> QED
      BY <2>1, <2>4, SameLinkKeepsBound
  <1> QED
    BY <1>2, <1>3 DEF AgeInv

\* Of the one that comes back nothing is claimed until it has been heard, and it
\* knows nobody itself.
LEMMA RestartKeepsAges ==
    ASSUME FleetInv, TypeInv', NEW k \in Node, Restart(k) PROVE FleetInv'
  <1> USE DEF FleetInv
  <1>1. /\ k \notin up /\ up' = up \cup {k}
        /\ missed' = [n \in Node |-> [missed[n] EXCEPT ![k] = Timeout]]
        /\ UNCHANGED <<manager, tickers, network, net, crashes>>
    BY DEF Restart
  <1>2. NetInv'
    BY <1>1 DEF NetInv, tickers
  <1>3. ASSUME NEW n \in up', NEW m \in up' PROVE AgeBound(n, m)'
    <2>1. n \in Node /\ m \in Node
      BY <1>1, <1>3 DEF TypeInv, TypeOK
    <2>2. CASE m = k
      <3>1. missed'[n][m] = Timeout
        BY <1>1, <2>1, <2>2 DEF TypeInv, TypeOK
      <3>2. network.loss < Timeout /\ network.loss \in Nat /\ network' = network
        BY <1>1, ConstantTypes DEF TypeInv, TypeOK
      <3> QED
        BY <3>1, <3>2, ConstantTypes DEF AgeBound
    <2>3. CASE n = k
      <3>1. DOMAIN knownElevators'[n] = {}
        BY <1>1, <2>1, <2>3 DEF TypeInv, DownInv, manager
      <3> QED
        BY <3>1 DEF AgeBound
    <2>4. CASE n # k /\ m # k
      <3>1. AgeBound(n, m)
        BY <1>1, <1>3, <2>4 DEF AgeInv
      <3>2. missed'[n][m] = missed[n][m]
        BY <1>1, <2>1, <2>4 DEF TypeInv, TypeOK
      <3>3. SameLink(n, m)
        BY <1>1, <3>2 DEF SameLink, toBeSent, manager, tickers
      <3> QED
        BY <2>1, <3>1, <3>3, SameLinkKeepsBound
    <2> QED
      BY <2>2, <2>3, <2>4
  <1> QED
    BY <1>2, <1>3 DEF AgeInv

LEMMA FleetInvInductive == FleetInv /\ [Next]_vars => FleetInv'
  <1> SUFFICES ASSUME FleetInv, [Next]_vars PROVE FleetInv'
    OBVIOUS
  <1>1. TypeInv'
    BY TypesInductive DEF FleetInv
  <1>2. ASSUME NEW n \in Node, OnFsmUpdate(n) \/ OnBroadcastTick(n) \/ OnTimeoutTick(n)
        PROVE  FleetInv'
    BY <1>1, <1>2, FsmUpdateKeepsAges, BroadcastKeepsAges, TimeoutTickKeepsAges
  <1>3. ASSUME NEW n \in Node, NEW m \in Node, OnState(n, m) PROVE FleetInv'
    BY <1>1, <1>3, StateKeepsAges
  <1>4. ASSUME NEW n \in Node, Crash(n) \/ Restart(n) PROVE FleetInv'
    BY <1>1, <1>4, CrashKeepsAges, RestartKeepsAges
  <1>5. CASE Tick \/ Lose
    BY <1>1, <1>5, TickKeepsAges, LoseKeepsAges
  <1>6. CASE UNCHANGED vars
    <2>1. NetInv'
      BY <1>6 DEF FleetInv, NetInv, vars, tickers
    <2>2. ASSUME NEW n \in up', NEW m \in up' PROVE AgeBound(n, m)'
      BY <1>6, <2>2 DEF FleetInv, AgeInv, AgeBound, underWay, toBeSent, vars, manager, tickers
    <2> QED
      BY <1>1, <2>1, <2>2 DEF FleetInv, AgeInv
  <1> QED
    BY <1>2, <1>3, <1>4, <1>5, <1>6 DEF Next

\* The ages of entries and broadcasts stay within what the network allows: an entry
\* of a running elevator is no older than the broadcasts still on their way to it
\* and those that were lost in a row make it.
THEOREM FleetInvHolds == Spec => []FleetInv
  <1>1. Init => FleetInv
    BY TypeInit, AgeInit DEF FleetInv
  <1> QED
    BY <1>1, FleetInvInductive, PTL DEF Spec

\* An entry of somebody who runs, and whose broadcasts were not lost more often
\* than the network may lose them, is under the limit for certain.
LEMMA NotOverTheLimit ==
    ASSUME FleetInv, NEW n \in up, NEW m \in up, m \in DOMAIN knownElevators[n],
           ~(missed[n][m] > network.loss)
    PROVE  timedOut(knownElevators[n][m]) = {FALSE}
  <1>1. n \in Node /\ m \in Node /\ AgeBound(n, m)
    BY DEF FleetInv, TypeInv, TypeOK, AgeInv
  <1>2. Quantities(n, m)
    BY <1>1, QuantitiesHold DEF FleetInv
  <1>3. knownElevators[n][m].age \in Nat
    BY <1>1, ConstantTypes DEF FleetInv, TypeInv, TypeOK, Entries, Ages
  <1>4. network.loss + 2 * network.delay + Skew + 2 <= Timeout
    BY ConstantTypes DEF FleetInv, TypeInv, TypeOK
  <1>5. knownElevators[n][m].age < Timeout - Skew
    BY <1>1, <1>2, <1>3, <1>4, ConstantTypes DEF AgeBound, Quantities
  <1> QED
    BY <1>5 DEF timedOut

\* Nobody is forgotten who runs (state_manager.go:128-142), for every fleet, skew
\* and network within FleetAssumption.
THEOREM NobodyForgotten == Spec => NoFalseTimeout
  <1> DEFINE A == \A n \in up \cap up', m \in Node :
                    m \in DOMAIN knownElevators[n] \ DOMAIN knownElevators'[n] =>
                        m \notin up \/ missed[n][m] > network.loss
  <1>1. FleetInv /\ [Next]_vars => [A]_vars
    <2> SUFFICES ASSUME FleetInv, Next, NEW n \in up \cap up', NEW m \in up,
                        m \in DOMAIN knownElevators[n] \ DOMAIN knownElevators'[n],
                        ~(missed[n][m] > network.loss)
                 PROVE  FALSE
      BY DEF FleetInv, TypeInv, TypeOK
    <2>1. n \in Node /\ m \in Node /\ TypeOK
      BY DEF FleetInv, TypeInv, TypeOK
    <2>2. ASSUME NEW k \in Node, NEW l \in Node, NEW s, NEW a,
                 knownElevators' = stored(k, l, s, a)
          PROVE  FALSE
      <3>1. HasStored(k, l, s, a)
        BY <2>1, <2>2, StoredEntries
      <3> QED
        BY <2>1, <3>1 DEF HasStored
    <2>3. ASSUME NEW k \in Node, OnFsmUpdate(k) \/ OnBroadcastTick(k) PROVE FALSE
      BY <2>2, <2>3 DEF OnFsmUpdate, OnBroadcastTick
    <2>4. ASSUME NEW k \in Node, NEW l \in Node, OnState(k, l) PROVE FALSE
      BY <2>2, <2>4 DEF OnState
    <2>5. ASSUME NEW k \in Node, OnTimeoutTick(k) PROVE FALSE
      <3>1. PICK lost \in SUBSET DOMAIN knownElevators[k] :
                /\ \A j \in DOMAIN knownElevators[k] :
                      (j \in lost) \in timedOut(knownElevators[k][j])
                /\ knownElevators' = [knownElevators EXCEPT ![k] =
                      [j \in DOMAIN @ \ lost |-> @[j]]]
        BY <2>5 DEF OnTimeoutTick, checkForTimeouts
      <3>2. k = n /\ m \in lost
        BY <2>1, <3>1 DEF TypeOK
      <3>3. timedOut(knownElevators[n][m]) = {FALSE}
        BY NotOverTheLimit
      <3> QED
        BY <3>1, <3>2, <3>3
    <2>6. ASSUME NEW k \in Node, Crash(k) PROVE FALSE
      BY <2>1, <2>6 DEF Crash, TypeOK
    <2>7. ASSUME NEW k \in Node, Restart(k) PROVE FALSE
      BY <2>7 DEF Restart, manager
    <2>8. CASE Tick
      BY <2>1, <2>8 DEF Tick
    <2>9. CASE Lose
      BY <2>9 DEF Lose, manager
    <2> QED
      BY <2>3, <2>4, <2>5, <2>6, <2>7, <2>8, <2>9 DEF Next
  <1> QED
    BY <1>1, FleetInvHolds, PTL DEF Spec, NoFalseTimeout
================================================================================
