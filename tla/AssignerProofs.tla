----------------------------- MODULE AssignerProofs -----------------------------
(***************************************************************************)
(* The order assigners agree for every fleet, every building of up to 11   *)
(* floors and every way the maps change while they range over them.        *)
(*                                                                         *)
(* The argument: at every point of the loop the best elevator is the least *)
(* of those seen so far, by cost and then by ID, and that one is unique.   *)
(***************************************************************************)
EXTENDS Assigner, TLAPS

\* What the loop of n has found.
LoopInv(n) ==
    /\ DOMAIN seen[n] = {} => best[n] = Nobody /\ bestCost[n] = MaxInt32
    /\ DOMAIN seen[n] # {} =>
          /\ Least(best[n], call[n], seen[n])
          /\ bestCost[n] = calculateCost(call[n], seen[n][best[n]])

\* What n has made of it.
ResultInv(n) ==
    result[n] # Nobody => result[n] = IF best[n] = Nobody THEN n ELSE best[n]

Inv ==
    /\ TypeOK
    /\ \A n \in Node : LoopInv(n) /\ ResultInv(n)

-----------------------------------------------------------------------------

\* A view is a function from some of the elevators to states.
LEMMA ViewIsFunction ==
    ASSUME NEW v \in Views
    PROVE  /\ DOMAIN v \subseteq Node
           /\ \A m \in DOMAIN v : v[m] \in Known
           /\ v \in [DOMAIN v -> Known]
  <1>1. PICK S \in SUBSET Node : v \in [S -> Known]
    BY DEF Views
  <1>2. QED
    BY <1>1

\* One more entry makes a view again.
LEMMA OneMore ==
    ASSUME NEW v \in Views, NEW m \in Node, NEW s \in Known
    PROVE  [k \in DOMAIN v \cup {m} |-> IF k = m THEN s ELSE v[k]] \in Views
  <1>1. DOMAIN v \cup {m} \in SUBSET Node
    BY ViewIsFunction
  <1>2. [k \in DOMAIN v \cup {m} |-> IF k = m THEN s ELSE v[k]]
            \in [DOMAIN v \cup {m} -> Known]
    BY ViewIsFunction
  <1>3. QED
    BY <1>1, <1>2 DEF Views

\* A cost is a number the loop's first comparison is below, and a floor more of
\* distance costs more than any queue and direction.
LEMMA CostBounds ==
    ASSUME NEW f \in 0 .. NumFloors - 1, NEW s \in Known
    PROVE  /\ distance(f, s) \in 0 .. NumFloors
           /\ calculateCost(f, s) \in Int
           /\ calculateCost(f, s) < MaxInt32
           /\ calculateCost(f, s) >= 100 * distance(f, s) - 10
           /\ calculateCost(f, s) <= 100 * distance(f, s) + 86
           /\ distance(f, s) = 0 => calculateCost(f, s) >= 0
  <1>1. /\ s.floor \in 0 .. NumFloors - 1 /\ s.direction \in {-1, 0, 1}
        /\ s.orders \in 0 .. 33 /\ NumFloors \in 1 .. 11
    BY AssignerAssumption
  <1>2. /\ distance(f, s) \in 0 .. NumFloors
        /\ distance(f, s) = 0 => s.floor = f
    BY <1>1 DEF distance, abs
  <1>3. awayFrom(f, s) => ~towards(f, s)
    BY <1>1 DEF awayFrom, towards
  <1>4. towards(f, s) => s.floor # f
    BY <1>1 DEF towards
  <1>5. QED
    BY <1>1, <1>2, <1>3, <1>4 DEF calculateCost, MaxInt32

\* The least of a view is unique.
LEMMA LeastUnique ==
    ASSUME NEW f \in 0 .. NumFloors - 1, NEW v \in Views, NEW a, NEW b,
           Least(a, f, v), Least(b, f, v)
    PROVE  a = b
  <1>1. a \in DOMAIN v /\ b \in DOMAIN v
    BY DEF Least
  <1>2. a \in Int /\ b \in Int /\ v[a] \in Known /\ v[b] \in Known
    BY <1>1, ViewIsFunction, AssignerAssumption
  <1>3. calculateCost(f, v[a]) \in Int /\ calculateCost(f, v[b]) \in Int
    BY <1>2, CostBounds
  <1>4. QED
    BY <1>1, <1>2, <1>3 DEF Least

-----------------------------------------------------------------------------

LEMMA InitInv == Init => Inv
  <1> SUFFICES ASSUME Init PROVE Inv
    OBVIOUS
  <1>1. nothing \in Views
    <2>1. nothing \in [{} -> Known]
      BY DEF nothing
    <2>2. QED
      BY <2>1 DEF Views
  <1>2. TypeOK
    BY <1>1, AssignerAssumption DEF Init, TypeOK, Nobody, MaxInt32
  <1>3. ASSUME NEW n \in Node PROVE LoopInv(n) /\ ResultInv(n)
    <2>1. DOMAIN seen[n] = {}
      BY DEF Init, nothing
    <2>2. QED
      BY <2>1 DEF Init, LoopInv, ResultInv
  <1>4. QED
    BY <1>2, <1>3 DEF Inv

\* A new order starts a new loop.
LEMMA NewOrderInv ==
    ASSUME Inv, NEW n \in Node, OnNewHallOrder(n)
    PROVE  Inv'
  <1>1. nothing \in Views /\ DOMAIN nothing = {}
    <2>1. nothing \in [{} -> Known]
      BY DEF nothing
    <2>2. QED
      BY <2>1 DEF Views, nothing
  <1>2. DOMAIN view[n] \subseteq Node
    BY ViewIsFunction DEF Inv, TypeOK
  <1>3. TypeOK'
    BY <1>1, <1>2, AssignerAssumption DEF Inv, TypeOK, OnNewHallOrder, Nobody, MaxInt32
  <1>4. ASSUME NEW k \in Node PROVE LoopInv(k)' /\ ResultInv(k)'
    <2>1. CASE k = n
      BY <1>1, <2>1 DEF Inv, TypeOK, OnNewHallOrder, LoopInv, ResultInv
    <2>2. CASE k # n
      <3>1. /\ call'[k] = call[k] /\ seen'[k] = seen[k] /\ best'[k] = best[k]
            /\ bestCost'[k] = bestCost[k] /\ result'[k] = result[k]
        BY <2>2 DEF Inv, TypeOK, OnNewHallOrder
      <3>2. QED
        BY <3>1 DEF Inv, LoopInv, ResultInv, Least
    <2>3. QED
      BY <2>1, <2>2
  <1>5. QED
    BY <1>3, <1>4 DEF Inv

\* The loop keeps the least of what it has seen.
LEMMA VisitInv ==
    ASSUME Inv, NEW n \in Node, NEW m \in Node, Visit(n, m)
    PROVE  Inv'
  <1> DEFINE s == view[n][m]
             cost == calculateCost(call[n], s)
             old == seen[n]
             new == [k \in DOMAIN old \cup {m} |-> IF k = m THEN s ELSE old[k]]
  <1>1. /\ view[n] \in Views /\ old \in Views
        /\ m \in DOMAIN view[n] /\ m \notin DOMAIN old
    BY DEF Inv, TypeOK, Visit
  <1>2. s \in Known
    BY <1>1, ViewIsFunction
  <1>3. call[n] \in 0 .. NumFloors - 1 /\ result[n] = Nobody
    BY AssignerAssumption DEF Inv, TypeOK, Visit, Busy
  <1>4. cost \in Int /\ cost < MaxInt32
    BY <1>2, <1>3, CostBounds
  <1>5. new \in Views
    BY <1>1, <1>2, OneMore
  <1>6. seen' = [seen EXCEPT ![n] = new]
    BY DEF Visit
  <1>7. \/ /\ better(n, m, cost)
           /\ best' = [best EXCEPT ![n] = m]
           /\ bestCost' = [bestCost EXCEPT ![n] = cost]
        \/ ~better(n, m, cost) /\ UNCHANGED <<best, bestCost>>
    BY DEF Visit
  <1>8. TypeOK'
    BY <1>4, <1>5, <1>6, <1>7 DEF Inv, TypeOK, Visit
  <1>9. LoopInv(n)'
    <2>1. seen'[n] = new /\ call'[n] = call[n] /\ DOMAIN new = DOMAIN old \cup {m}
      BY <1>6 DEF Inv, TypeOK, Visit
    <2>2. new[m] = s /\ \A k \in DOMAIN old : new[k] = old[k]
      BY <1>1
    <2>3. m \in Int
      BY AssignerAssumption
    <2>4. CASE DOMAIN old = {}
      <3>1. better(n, m, cost)
        BY <1>4, <2>4 DEF Inv, LoopInv, better
      <3>2. best'[n] = m /\ bestCost'[n] = cost
        BY <1>7, <3>1 DEF Inv, TypeOK
      <3>3. QED
        BY <1>4, <2>1, <2>2, <2>3, <2>4, <3>2 DEF LoopInv, Least
    <2>5. CASE DOMAIN old # {}
      <3> DEFINE b == best[n]
      <3>1. Least(b, call[n], old) /\ bestCost[n] = calculateCost(call[n], old[b])
        BY <2>5 DEF Inv, LoopInv
      <3>2. b \in DOMAIN old /\ b \in Int
        BY <1>1, <3>1, ViewIsFunction, AssignerAssumption DEF Least
      <3>3. \A k \in DOMAIN old : calculateCost(call[n], old[k]) \in Int
        BY <1>1, <1>3, ViewIsFunction, CostBounds
      <3>4. \A k \in DOMAIN old : k \in Int
        BY <1>1, ViewIsFunction, AssignerAssumption
      <3>5. bestCost[n] \in Int
        BY <3>1, <3>2, <3>3
      <3>6. CASE better(n, m, cost)
        <4>1. best'[n] = m /\ bestCost'[n] = cost
          BY <1>7, <3>6 DEF Inv, TypeOK
        <4>2. \A k \in DOMAIN old :
                 \/ cost < calculateCost(call[n], old[k])
                 \/ cost = calculateCost(call[n], old[k]) /\ m <= k
          BY <1>4, <2>3, <3>1, <3>2, <3>3, <3>4, <3>5, <3>6 DEF Least, better
        <4>3. Least(m, call[n], new)
          BY <1>4, <2>1, <2>2, <2>3, <4>2 DEF Least
        <4>4. QED
          BY <2>1, <2>2, <4>1, <4>3 DEF LoopInv, Least
      <3>7. CASE ~better(n, m, cost)
        <4>1. best'[n] = b /\ bestCost'[n] = bestCost[n]
          BY <1>7, <3>7
        <4>2. \/ bestCost[n] < cost
              \/ bestCost[n] = cost /\ b <= m
          BY <1>4, <2>3, <3>2, <3>5, <3>7 DEF better
        <4>3. Least(b, call[n], new)
          BY <2>1, <2>2, <3>1, <3>2, <4>2 DEF Least
        <4>4. QED
          BY <2>1, <2>2, <3>1, <3>2, <4>1, <4>3 DEF LoopInv, Least
      <3>8. QED
        BY <3>6, <3>7
    <2>6. QED
      BY <2>4, <2>5
  <1>10. ASSUME NEW k \in Node PROVE LoopInv(k)' /\ ResultInv(k)'
    <2>1. CASE k = n
      BY <1>3, <1>9, <2>1 DEF ResultInv, Visit
    <2>2. CASE k # n
      <3>1. /\ call'[k] = call[k] /\ seen'[k] = seen[k] /\ best'[k] = best[k]
            /\ bestCost'[k] = bestCost[k] /\ result'[k] = result[k]
        BY <1>6, <1>7, <2>2 DEF Inv, TypeOK, Visit
      <3>2. QED
        BY <3>1 DEF Inv, LoopInv, ResultInv, Least
    <2>3. QED
      BY <2>1, <2>2
  <1>11. QED
    BY <1>8, <1>10 DEF Inv

LEMMA AssignInv ==
    ASSUME Inv, NEW n \in Node, Assign(n)
    PROVE  Inv'
  <1> DEFINE assigned == IF best[n] = Nobody THEN n ELSE best[n]
  <1>1. result' = [result EXCEPT ![n] = assigned] /\ assigned \in Node
    BY DEF Inv, TypeOK, Assign
  <1>2. orderCh' \in [Node -> 0 .. OrderChCap]
    <2>1. CASE assigned = n /\ orderCh[n] < OrderChCap
      BY <2>1, AssignerAssumption DEF Inv, TypeOK, Assign
    <2>2. CASE ~(assigned = n /\ orderCh[n] < OrderChCap)
      BY <2>2 DEF Inv, TypeOK, Assign
    <2>3. QED
      BY <2>1, <2>2
  <1>3. TypeOK'
    BY <1>1, <1>2 DEF Inv, TypeOK, Assign, loop
  <1>4. ASSUME NEW k \in Node PROVE LoopInv(k)' /\ ResultInv(k)'
    <2>1. /\ LoopInv(k) /\ ResultInv(k)
          /\ UNCHANGED loop
      BY DEF Inv, Assign
    <2>2. ResultInv(k)'
      BY <1>1, <2>1 DEF Inv, TypeOK, ResultInv, loop
    <2>3. QED
      BY <2>1, <2>2 DEF LoopInv, Least, loop
  <1>5. QED
    BY <1>3, <1>4 DEF Inv

LEMMA NextInv == Inv /\ [Next]_vars => Inv'
  <1> SUFFICES ASSUME Inv, [Next]_vars PROVE Inv'
    OBVIOUS
  <1>1. ASSUME NEW n \in Node, OnNewHallOrder(n) PROVE Inv'
    BY <1>1, NewOrderInv
  <1>2. ASSUME NEW n \in Node, NEW m \in Node, Visit(n, m) PROVE Inv'
    BY <1>2, VisitInv
  <1>3. ASSUME NEW n \in Node, Assign(n) PROVE Inv'
    BY <1>3, AssignInv
  <1>4. ASSUME NEW n \in Node, TakeOrder(n) PROVE Inv'
    BY <1>4, AssignerAssumption
       DEF TakeOrder, Inv, TypeOK, LoopInv, ResultInv, Least, loop
  <1>5. ASSUME NEW n \in Node, ViewChanges(n) PROVE Inv'
    BY <1>5, AssignerAssumption
       DEF ViewChanges, Inv, TypeOK, LoopInv, ResultInv, Least, loop
  <1>6. CASE UNCHANGED vars
    BY <1>6 DEF vars, Inv, TypeOK, LoopInv, ResultInv, Least, loop
  <1>7. QED
    BY <1>1, <1>2, <1>3, <1>4, <1>5, <1>6 DEF Next

\* The loop's invariant holds throughout.
THEOREM AssignerInv == Spec => []Inv
  BY InitInv, NextInv, PTL DEF Spec

-----------------------------------------------------------------------------

LEMMA ResultIsLeast ==
    ASSUME Inv, NEW n \in Node, Done(n), DOMAIN seen[n] # {}
    PROVE  Least(result[n], call[n], seen[n])
  <1>1. Least(best[n], call[n], seen[n])
    BY DEF Inv, LoopInv
  <1>2. best[n] \in Node
    BY <1>1, ViewIsFunction DEF Least, Inv, TypeOK
  <1>3. best[n] # Nobody
    BY <1>2, AssignerAssumption DEF Nobody
  <1>4. QED
    BY <1>1, <1>3 DEF Inv, ResultInv, Done

\* Every variable keeps its type: no more orders wait for a controller than its
\* channel holds.
THEOREM AssignerTypes == Spec => []TypeOK
  <1>1. Inv => TypeOK
    BY DEF Inv
  <1>2. QED
    BY <1>1, AssignerInv, PTL

\* Elevators that have come upon the same states name the same elevator,
\* however their maps were ranged over.
THEOREM SameResult == Spec => []SameSeenSameResult
  <1>1. Inv => SameSeenSameResult
    <2> SUFFICES ASSUME Inv, NEW n \in Node, NEW m \in Node,
                        Done(n), Done(m), call[n] = call[m], seen[n] = seen[m],
                        DOMAIN seen[n] # {}
                 PROVE  result[n] = result[m]
      BY DEF SameSeenSameResult
    <2>1. Least(result[n], call[n], seen[n]) /\ Least(result[m], call[n], seen[n])
      BY ResultIsLeast
    <2>2. call[n] \in 0 .. NumFloors - 1 /\ seen[n] \in Views
      BY AssignerAssumption DEF Inv, TypeOK, Done
    <2>3. QED
      BY <2>1, <2>2, LeastUnique
  <1>2. QED
    BY <1>1, AssignerInv, PTL

\* The elevator named is a nearest one.
THEOREM NearestServes == Spec => []NearestTakesIt
  <1>1. Inv => NearestTakesIt
    <2> SUFFICES ASSUME Inv, NEW n \in Node, Done(n), NEW m \in DOMAIN seen[n]
                 PROVE  /\ result[n] \in DOMAIN seen[n]
                        /\ distance(call[n], seen[n][result[n]])
                              <= distance(call[n], seen[n][m])
      BY DEF NearestTakesIt
    <2> DEFINE r == result[n]
               f == call[n]
    <2>1. Least(r, f, seen[n])
      BY ResultIsLeast
    <2>2. f \in 0 .. NumFloors - 1 /\ seen[n] \in Views
      BY AssignerAssumption DEF Inv, TypeOK, Done
    <2>3. seen[n][r] \in Known /\ seen[n][m] \in Known /\ r \in DOMAIN seen[n]
      BY <2>1, <2>2, ViewIsFunction DEF Least
    <2>4. calculateCost(f, seen[n][r]) <= calculateCost(f, seen[n][m])
      BY <2>1, <2>2, <2>3, CostBounds DEF Least
    <2>5. /\ calculateCost(f, seen[n][r]) >= 100 * distance(f, seen[n][r]) - 10
          /\ distance(f, seen[n][r]) \in Int
      BY <2>2, <2>3, CostBounds
    <2>6. /\ calculateCost(f, seen[n][m]) <= 100 * distance(f, seen[n][m]) + 86
          /\ distance(f, seen[n][m]) \in Int
      BY <2>2, <2>3, CostBounds
    <2>7. calculateCost(f, seen[n][m]) \in Int /\ calculateCost(f, seen[n][r]) \in Int
      BY <2>2, <2>3, CostBounds
    <2>8. QED
      BY <2>3, <2>4, <2>5, <2>6, <2>7
  <1>2. QED
    BY <1>1, AssignerInv, PTL
================================================================================
