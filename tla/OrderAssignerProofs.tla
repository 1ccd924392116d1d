-------------------------- MODULE OrderAssignerProofs --------------------------
(***************************************************************************)
(* What holds of OrderAssigner for any number of floors, orders and other  *)
(* elevators, and any capacity of its two channels.                        *)
(***************************************************************************)
EXTENDS OrderAssigner, SequenceTheorems, FiniteSetTheorems, TLAPS

-----------------------------------------------------------------------------
(* How often an order occurs in a sequence *)

\* The places of o in s are finite in number.
LEMMA OccurrencesType ==
    ASSUME NEW S, NEW s \in Seq(S), NEW o
    PROVE  /\ IsFiniteSet(places(s, o)) /\ places(s, o) \in SUBSET (1 .. Len(s))
           /\ occurrences(s, o) \in Nat
           /\ occurrences(s, o) = 0 <=> places(s, o) = {}
           /\ \A i \in 1 .. Len(s) : i \in places(s, o) <=> s[i] = o
           /\ Len(s) \in Nat
  <1>1. DOMAIN s = 1 .. Len(s) /\ Len(s) \in Nat
    BY LenProperties
  <1>2. IsFiniteSet(1 .. Len(s)) /\ places(s, o) \in SUBSET (1 .. Len(s))
    BY <1>1, FS_Interval DEF places
  <1>3. IsFiniteSet(places(s, o))
    BY <1>2, FS_Subset
  <1>4. /\ occurrences(s, o) \in Nat
        /\ occurrences(s, o) = 0 <=> places(s, o) = {}
    BY <1>3, FS_CardinalityType, FS_EmptySet DEF occurrences
  <1> QED
    BY <1>1, <1>2, <1>3, <1>4 DEF places

LEMMA OccurrencesOfEmpty == \A o : occurrences(<<>>, o) = 0
  <1> SUFFICES ASSUME NEW o PROVE occurrences(<<>>, o) = 0
    OBVIOUS
  <1>1. places(<<>>, o) = {}
    BY DEF places
  <1> QED
    BY <1>1, FS_EmptySet DEF occurrences

\* An element that is appended occurs once more.
LEMMA OccurrencesAppend ==
    ASSUME NEW S, NEW s \in Seq(S), NEW e \in S, NEW o
    PROVE  /\ Append(s, e) \in Seq(S)
           /\ occurrences(Append(s, e), o)
                  = occurrences(s, o) + (IF e = o THEN 1 ELSE 0)
  <1> DEFINE t == Append(s, e)
  <1>1. /\ t \in Seq(S) /\ Len(t) = Len(s) + 1 /\ Len(s) \in Nat
        /\ \A i \in 1 .. Len(s) : t[i] = s[i]
        /\ t[Len(s) + 1] = e
        /\ DOMAIN t = 1 .. Len(s) + 1 /\ DOMAIN s = 1 .. Len(s)
    BY AppendProperties, LenProperties
  <1> HIDE DEF t
  <1>2. IsFiniteSet(places(s, o)) /\ Cardinality(places(s, o)) \in Nat
    BY OccurrencesType, FS_CardinalityType
  <1>3. Len(s) + 1 \notin places(s, o)
    BY <1>1 DEF places
  <1>4. CASE e = o
    <2>1. places(t, o) = places(s, o) \cup {Len(s) + 1}
      BY <1>1, <1>4 DEF places
    <2>2. Cardinality(places(t, o)) = Cardinality(places(s, o)) + 1
      BY <1>2, <1>3, <2>1, FS_AddElement
    <2> QED
      BY <1>1, <1>2, <1>4, <2>2 DEF occurrences, t
  <1>5. CASE e # o
    <2>1. places(t, o) = places(s, o)
      BY <1>1, <1>5 DEF places
    <2> QED
      BY <1>1, <1>2, <1>5, <2>1 DEF occurrences, t
  <1> QED
    BY <1>4, <1>5

\* t is s without its i-th element.
Without(s, i, t) ==
    /\ Len(t) = Len(s) - 1
    /\ \A k \in 1 .. Len(t) : t[k] = IF k < i THEN s[k] ELSE s[k + 1]

\* An element that is taken out occurs once less.
LEMMA OccurrencesWithout ==
    ASSUME NEW S, NEW s \in Seq(S), NEW i \in 1 .. Len(s), NEW t \in Seq(S),
           Without(s, i, t), NEW o
    PROVE  occurrences(t, o) = occurrences(s, o) - (IF s[i] = o THEN 1 ELSE 0)
  <1> DEFINE left == places(s, o) \ {i}
             f == [k \in places(t, o) |-> IF k < i THEN k ELSE k + 1]
  <1>1. /\ Len(s) \in Nat /\ Len(t) = Len(s) - 1 /\ i \in Nat
        /\ IsFiniteSet(places(s, o)) /\ IsFiniteSet(places(t, o))
        /\ places(s, o) \subseteq 1 .. Len(s) /\ places(t, o) \subseteq 1 .. Len(t)
        /\ \A k \in 1 .. Len(s) : k \in places(s, o) <=> s[k] = o
        /\ \A k \in 1 .. Len(t) : k \in places(t, o) <=> t[k] = o
    BY OccurrencesType DEF Without
  <1>2. \A k \in 1 .. Len(t) : t[k] = IF k < i THEN s[k] ELSE s[k + 1]
    BY DEF Without
  <1>3. ASSUME NEW k \in places(t, o) PROVE f[k] \in left
    <2>1. k \in 1 .. Len(t) /\ t[k] = o
      BY <1>1
    <2>2. CASE k < i
      BY <1>1, <1>2, <2>1, <2>2
    <2>3. CASE ~(k < i)
      <3>1. k + 1 \in 1 .. Len(s) /\ s[k + 1] = o /\ k + 1 # i
        BY <1>1, <1>2, <2>1, <2>3
      <3> QED
        BY <1>1, <2>3, <3>1
    <2> QED
      BY <2>2, <2>3
  <1>4. ASSUME NEW k \in places(t, o), NEW l \in places(t, o), f[k] = f[l]
        PROVE  k = l
    <2>1. k \in Nat /\ l \in Nat
      BY <1>1
    <2> QED
      BY <1>1, <1>4, <2>1
  <1>5. ASSUME NEW l \in left PROVE \E k \in places(t, o) : f[k] = l
    <2>1. l \in 1 .. Len(s) /\ l # i /\ s[l] = o
      BY <1>1
    <2>2. CASE l < i
      <3>1. l \in 1 .. Len(t) /\ t[l] = o
        BY <1>1, <1>2, <2>1, <2>2
      <3> QED
        BY <1>1, <2>2, <3>1
    <2>3. CASE l > i
      <3>1. l - 1 \in 1 .. Len(t) /\ ~(l - 1 < i) /\ l - 1 + 1 = l
        BY <1>1, <2>1, <2>3
      <3>2. t[l - 1] = o
        BY <1>2, <2>1, <3>1
      <3> QED
        BY <1>1, <3>1, <3>2
    <2> QED
      BY <1>1, <2>1, <2>2, <2>3
  <1>6. f \in Bijection(places(t, o), left)
    <2>1. f \in [places(t, o) -> left]
      BY <1>3
    <2>2. f \in Injection(places(t, o), left)
      BY <2>1, <1>4 DEF Injection, IsInjective
    <2>3. f \in Surjection(places(t, o), left)
      BY <2>1, <1>5 DEF Surjection
    <2> QED
      BY <2>2, <2>3 DEF Bijection
  <1> HIDE DEF f
  <1>7. Cardinality(places(t, o)) = Cardinality(left)
    BY <1>1, <1>6, FS_Bijection DEF ExistsBijection
  <1>8. Cardinality(left) = IF i \in places(s, o) THEN Cardinality(places(s, o)) - 1
                            ELSE Cardinality(places(s, o))
    BY <1>1, FS_RemoveElement
  <1>9. Cardinality(places(s, o)) \in Nat
    BY <1>1, FS_CardinalityType
  <1> QED
    BY <1>1, <1>7, <1>8, <1>9 DEF occurrences

LEMMA OccurrencesTail ==
    ASSUME NEW S, NEW s \in Seq(S), s # <<>>, NEW o
    PROVE  /\ Tail(s) \in Seq(S) /\ Head(s) \in S
           /\ occurrences(Tail(s), o)
                  = occurrences(s, o) - (IF Head(s) = o THEN 1 ELSE 0)
  <1> DEFINE t == Tail(s)
             i == 1
  <1>1. /\ t \in Seq(S) /\ Head(s) \in S /\ Head(s) = s[i]
        /\ Len(t) = Len(s) - 1 /\ i \in 1 .. Len(s)
        /\ \A k \in 1 .. Len(t) : t[k] = s[k + 1]
    BY HeadTailProperties, EmptySeq
  <1>2. Without(s, i, t)
    BY <1>1 DEF Without
  <1> HIDE DEF t, i
  <1>3. occurrences(t, o) = occurrences(s, o) - (IF s[i] = o THEN 1 ELSE 0)
    BY <1>1, <1>2, OccurrencesWithout
  <1> QED
    BY <1>1, <1>3 DEF t

\* A set of numbers has a least one.
LEMMA LeastOfSome ==
    ASSUME NEW T \in SUBSET Nat, T # {}
    PROVE  Min(T) \in T
  <1>1. \E x \in T : \A y \in T : ~ (<<y, x>> \in OpToRel(<, Nat))
    BY NatLessThanWellFounded, WFMin, Zenon
  <1>2. PICK x \in T : \A y \in T : ~ (<<y, x>> \in OpToRel(<, Nat))
    BY <1>1, Zenon
  <1>3. ASSUME NEW y \in T PROVE x <= y
    <2>1. x \in Nat /\ y \in Nat
      OBVIOUS
    <2>2. y < x => <<y, x>> \in OpToRel(<, Nat)
      BY <2>1 DEF OpToRel
    <2>3. ~(y < x)
      BY <1>2, <2>2, Zenon
    <2> QED
      BY <2>1, <2>3
  <1> QED
    BY <1>3 DEF Min

\* What removed takes away occurs once less.
LEMMA OccurrencesRemoved ==
    ASSUME NEW S, NEW s \in Seq(S), NEW e, occurrences(s, e) > 0, NEW o
    PROVE  /\ removed(s, e) \in Seq(S)
           /\ occurrences(removed(s, e), o)
                  = occurrences(s, o) - (IF e = o THEN 1 ELSE 0)
  <1> DEFINE at == {k \in 1 .. Len(s) : s[k] = e}
             i == Min(at)
             a == SubSeq(s, 1, i - 1)
             b == SubSeq(s, i + 1, Len(s))
             t == a \o b
  <1>1. /\ Len(s) \in Nat /\ places(s, e) # {} /\ places(s, e) \subseteq 1 .. Len(s)
        /\ \A k \in 1 .. Len(s) : k \in places(s, e) <=> s[k] = e
    BY OccurrencesType
  <1>2. at # {} /\ at \in SUBSET Nat /\ at \subseteq 1 .. Len(s)
    BY <1>1
  <1>3. (\E k \in 1 .. Len(s) : s[k] = e) /\ \A k \in at : s[k] = e
    BY <1>1
  <1>4. i \in at
    <2> HIDE DEF at
    <2> QED
      BY <1>2, LeastOfSome
  <1>5. i \in 1 .. Len(s) /\ s[i] = e
    BY <1>2, <1>3, <1>4
  <1>6. removed(s, e) = t
    BY <1>2, <1>3 DEF removed, RemoveFirst, RemoveAt, SelectInSeq
  <1> HIDE DEF i
  <1>7. /\ a \in Seq(S) /\ Len(a) = i - 1
        /\ \A k \in 1 .. i - 1 : a[k] = s[k]
    <2>1. \A k \in 1 .. i - 1 : s[k] \in S
      BY <1>1, <1>5, ElementOfSeq
    <2> QED
      BY <1>1, <1>5, <2>1, SubSeqProperties
  <1>8. /\ b \in Seq(S) /\ Len(b) = Len(s) - i
        /\ \A k \in 1 .. Len(s) - i : b[k] = s[k + i]
    <2>1. \A k \in i + 1 .. Len(s) : s[k] \in S
      BY <1>1, <1>5, ElementOfSeq
    <2> QED
      BY <1>1, <1>5, <2>1, SubSeqProperties
  <1> HIDE DEF a, b
  <1>9. /\ t \in Seq(S) /\ Len(t) = Len(s) - 1
        /\ \A k \in 1 .. Len(s) - 1 : t[k] = IF k <= i - 1 THEN a[k] ELSE b[k - (i - 1)]
    <2>1. /\ t \in Seq(S) /\ Len(t) = Len(a) + Len(b)
          /\ \A k \in 1 .. Len(a) + Len(b) : t[k] = IF k <= Len(a) THEN a[k] ELSE b[k - Len(a)]
      BY <1>7, <1>8, ConcatProperties
    <2> HIDE DEF t
    <2> QED
      BY <1>1, <1>5, <1>7, <1>8, <2>1
  <1> HIDE DEF t
  <1>10. ASSUME NEW k \in 1 .. Len(t)
         PROVE  t[k] = IF k < i THEN s[k] ELSE s[k + 1]
    <2>1. CASE k < i
      BY <1>1, <1>5, <1>7, <1>9, <2>1
    <2>2. CASE ~(k < i)
      <3>1. k - (i - 1) \in 1 .. Len(s) - i /\ k - (i - 1) + i = k + 1
        BY <1>1, <1>5, <1>9, <2>2
      <3> QED
        BY <1>1, <1>5, <1>8, <1>9, <2>2, <3>1
    <2> QED
      BY <2>1, <2>2
  <1>11. Without(s, i, t)
    BY <1>9, <1>10 DEF Without
  <1>12. occurrences(t, o) = occurrences(s, o) - (IF s[i] = o THEN 1 ELSE 0)
    BY <1>5, <1>9, <1>11, OccurrencesWithout
  <1> QED
    BY <1>5, <1>6, <1>9, <1>12

-----------------------------------------------------------------------------
(* The invariant *)

TypeOK ==
    /\ myState \in States /\ offering \subseteq States /\ myStateCh \in Seq(States)
    /\ \A n \in DOMAIN otherElevs :
          otherElevs[n].Floor \in 0 .. numFloors - 1 /\ otherElevs[n].Direction \in {-1, 0, 1}
    /\ hallOrders \in Seq(HallOrders) /\ rest \in Seq(HallOrders)
    /\ assigned \in Seq(HallOrders) /\ trying \in BOOLEAN
    /\ came \in [HallOrders -> Nat] /\ passed \in [HallOrders -> Nat]

\* What has been sent is still pending until the second loop takes it away.
CountInv ==
    \A o \in HallOrders :
        came[o] = passed[o] + occurrences(hallOrders, o) - occurrences(assigned, o)

\* In the loops, the pending orders that are best served here are those that
\* were sent and those that are still to be looked at.  No other is sent.
LoopInv ==
    trying =>
        \A o \in HallOrders :
            IF isBestCandidateForOrder(o)
            THEN occurrences(assigned, o) + occurrences(rest, o) = occurrences(hallOrders, o)
            ELSE occurrences(assigned, o) = 0

\* Outside of them, no pending order is best served here.
RestInv ==
    ~trying =>
        /\ rest = <<>> /\ assigned = <<>>
        /\ \A o \in HallOrders :
              isBestCandidateForOrder(o) => occurrences(hallOrders, o) = 0

Inv == TypeOK /\ CountInv /\ LoopInv /\ RestInv

\* Who is best for an order does not change while the assigner is in its loops.
BestKept == \A o : isBestCandidateForOrder(o)' <=> isBestCandidateForOrder(o)

LEMMA BestUnchanged == UNCHANGED <<myState, otherElevs>> => BestKept
  BY DEF BestKept, isBestCandidateForOrder, costToReachFloor, movesAway

\* Looking at the pending orders anew, whoever is best for them now.
LEMMA StartKeeps ==
    ASSUME Inv, ~trying, TypeOK', tryAssignHallOrders(hallOrders'), passed' = passed,
           NEW T \in SUBSET HallOrders,
           \A o \in HallOrders :
               /\ came'[o] = came[o] + (IF o \in T THEN 1 ELSE 0)
               /\ occurrences(hallOrders', o)
                      = occurrences(hallOrders, o) + (IF o \in T THEN 1 ELSE 0)
    PROVE  Inv'
  <1>1. /\ rest' = hallOrders' /\ assigned' = <<>> /\ assigned = <<>>
        /\ trying' = (hallOrders' # <<>>)
    BY DEF tryAssignHallOrders, Inv, RestInv
  <1>2. \A o \in HallOrders :
            /\ occurrences(assigned, o) = 0 /\ occurrences(assigned', o) = 0
            /\ occurrences(hallOrders, o) \in Nat /\ occurrences(hallOrders', o) \in Nat
            /\ came[o] \in Nat /\ passed[o] \in Nat
    BY <1>1, OccurrencesOfEmpty, OccurrencesType DEF Inv, TypeOK
  <1>3. CountInv'
    <2> SUFFICES ASSUME NEW o \in HallOrders
                 PROVE  came'[o] = passed'[o] + occurrences(hallOrders', o)
                                   - occurrences(assigned', o)
      BY DEF CountInv, occurrences, places
    <2>1. came[o] = passed[o] + occurrences(hallOrders, o) - occurrences(assigned, o)
      BY DEF Inv, CountInv
    <2> QED
      BY <1>2, <2>1
  <1>4. LoopInv'
    <2> SUFFICES ASSUME NEW o \in HallOrders
                 PROVE  IF isBestCandidateForOrder(o)'
                        THEN occurrences(assigned', o) + occurrences(rest', o)
                                 = occurrences(hallOrders', o)
                        ELSE occurrences(assigned', o) = 0
      BY DEF LoopInv, occurrences, places
    <2> QED
      BY <1>1, <1>2
  <1>5. RestInv'
    <2>1. CASE hallOrders' = <<>>
      BY <1>1, <2>1, OccurrencesOfEmpty DEF RestInv, occurrences, places
    <2> QED
      BY <1>1, <2>1 DEF RestInv
  <1> QED
    BY <1>3, <1>4, <1>5 DEF Inv

\* A step that touches neither the orders nor the loops nor who is best.
LEMMA ElsewhereKeeps ==
    ASSUME Inv, TypeOK', UNCHANGED <<myState, otherElevs, hallOrders, loop, counts>>
    PROVE  Inv'
  <1>1. BestKept
    BY BestUnchanged
  <1>2. UNCHANGED <<hallOrders, rest, assigned, trying, came, passed>>
    BY DEF loop, counts
  <1>3. CountInv'
    BY <1>2 DEF Inv, CountInv, occurrences, places
  <1>4. LoopInv'
    BY <1>1, <1>2 DEF Inv, LoopInv, occurrences, places, BestKept
  <1>5. RestInv'
    BY <1>1, <1>2 DEF Inv, RestInv, occurrences, places, BestKept
  <1> QED
    BY <1>3, <1>4, <1>5 DEF Inv

-----------------------------------------------------------------------------
(* The steps *)

LEMMA TypeInductive == TypeOK /\ [Next]_vars => TypeOK'
  <1> SUFFICES ASSUME TypeOK, [Next]_vars PROVE TypeOK'
    OBVIOUS
  <1> USE DEF TypeOK
  <1>1. CASE ConsiderOrder
    <2>1. /\ Head(rest) \in HallOrders /\ rest' \in Seq(HallOrders)
      BY <1>1, HeadTailProperties DEF ConsiderOrder
    <2>2. \/ assigned' = Append(assigned, Head(rest))
             /\ passed' = [passed EXCEPT ![Head(rest)] = @ + 1]
          \/ UNCHANGED <<assigned, passed>>
      BY <1>1 DEF ConsiderOrder
    <2>3. assigned' \in Seq(HallOrders) /\ passed' \in [HallOrders -> Nat]
      <3> DEFINE o == Head(rest)
      <3>1. o \in HallOrders
        BY <2>1
      <3> HIDE DEF o
      <3>2. Append(assigned, o) \in Seq(HallOrders)
        BY <3>1, AppendProperties
      <3>3. [passed EXCEPT ![o] = @ + 1] \in [HallOrders -> Nat]
        BY <3>1
      <3> QED
        BY <2>2, <3>2, <3>3 DEF o
    <2> QED
      BY <1>1, <2>1, <2>2, <2>3 DEF ConsiderOrder
  <1>2. CASE RemoveAssigned
    <2>1. assigned' \in Seq(HallOrders)
      BY <1>2, HeadTailProperties DEF RemoveAssigned
    <2>2. hallOrders' \in Seq(HallOrders)
      <3>1. hallOrders' = RemoveFirst(hallOrders, Head(assigned))
        BY <1>2 DEF RemoveAssigned, removed
      <3>2. CASE occurrences(hallOrders, Head(assigned)) > 0
        BY <3>1, <3>2, OccurrencesRemoved DEF removed
      <3>3. CASE ~(occurrences(hallOrders, Head(assigned)) > 0)
        <4>1. occurrences(hallOrders, Head(assigned)) = 0
          BY <3>3, OccurrencesType
        <4>2. ~ \E i \in 1 .. Len(hallOrders) : hallOrders[i] = Head(assigned)
          BY <4>1, OccurrencesType
        <4> QED
          BY <3>1, <4>2 DEF RemoveFirst
      <3> QED
        BY <3>2, <3>3
    <2> QED
      BY <1>2, <2>1, <2>2 DEF RemoveAssigned, channels, counts
  <1>3. CASE LeaveLoop
    BY <1>3 DEF LeaveLoop, channels, counts
  <1>4. CASE onMyStateUpdate
    <2>1. myState' \in States /\ myStateCh' \in Seq(States)
      BY <1>4, HeadTailProperties DEF onMyStateUpdate
    <2> QED
      BY <1>4, <2>1, EmptySeq DEF onMyStateUpdate, tryAssignHallOrders, counts
  <1>5. CASE onNewHallOrder
    <2>1. PICK o \in HallOrders :
              /\ came' = [came EXCEPT ![o] = @ + 1]
              /\ hallOrders' = Append(hallOrders, o)
              /\ tryAssignHallOrders(Append(hallOrders, o))
      BY <1>5 DEF onNewHallOrder
    <2>2. hallOrders' \in Seq(HallOrders) /\ came' \in [HallOrders -> Nat]
      BY <2>1, AppendProperties
    <2> QED
      BY <1>5, <2>1, <2>2, EmptySeq DEF onNewHallOrder, tryAssignHallOrders, channels
  <1>6. CASE UpdateOtherElevatorState
    <2>1. PICK n \in Others, s \in States, alive \in BOOLEAN :
              otherElevs' = [k \in DOMAIN otherElevs \cup {n} |->
                  IF k = n THEN [Floor |-> s.Floor, Direction |-> s.Direction, Alive |-> alive]
                  ELSE otherElevs[k]]
      BY <1>6 DEF UpdateOtherElevatorState
    <2>2. s.Floor \in 0 .. numFloors - 1 /\ s.Direction \in {-1, 0, 1}
      BY OrderAssignerAssumption
    <2>3. \A k \in DOMAIN otherElevs' :
              otherElevs'[k].Floor \in 0 .. numFloors - 1 /\ otherElevs'[k].Direction \in {-1, 0, 1}
      BY <2>1, <2>2
    <2> QED
      BY <1>6, <2>3, EmptySeq
      DEF UpdateOtherElevatorState, tryAssignHallOrders, channels, counts
  <1>7. CASE MarkElevatorDead
    <2>1. \A k \in DOMAIN otherElevs' :
              otherElevs'[k].Floor \in 0 .. numFloors - 1 /\ otherElevs'[k].Direction \in {-1, 0, 1}
      <3>1. PICK n \in DOMAIN otherElevs :
                otherElevs' = [otherElevs EXCEPT ![n].Alive = FALSE]
        BY <1>7 DEF MarkElevatorDead
      <3>2. ASSUME NEW k \in DOMAIN otherElevs'
            PROVE  /\ otherElevs'[k].Floor = otherElevs[k].Floor
                   /\ otherElevs'[k].Direction = otherElevs[k].Direction
                   /\ k \in DOMAIN otherElevs
        BY <3>1
      <3> QED
        BY <3>2
    <2> QED
      BY <1>7, <2>1, EmptySeq DEF MarkElevatorDead, tryAssignHallOrders, channels, counts
  <1>8. CASE ControllerHandles
    BY <1>8 DEF ControllerHandles, loop, counts
  <1>9. CASE sendStateUpdate
    <2>1. myStateCh' \in Seq(States)
      BY <1>9, AppendProperties DEF sendStateUpdate
    <2> QED
      BY <1>9, <2>1 DEF sendStateUpdate, loop, counts
  <1>10. CASE UNCHANGED vars
    BY <1>10 DEF vars, loop, channels, counts
  <1> QED
    BY <1>1, <1>2, <1>3, <1>4, <1>5, <1>6, <1>7, <1>8, <1>9, <1>10 DEF Next

\* An order that is best served here goes from rest to assigned and is sent.
LEMMA ConsiderKeeps == Inv /\ TypeOK' /\ ConsiderOrder => Inv'
  <1> SUFFICES ASSUME Inv, TypeOK', ConsiderOrder PROVE Inv'
    OBVIOUS
  <1> DEFINE o == Head(rest)
  <1>1. /\ trying /\ trying' /\ UNCHANGED <<myState, otherElevs, hallOrders, came>>
        /\ rest # <<>> /\ rest' = Tail(rest)
        /\ IF isBestCandidateForOrder(o)
           THEN assigned' = Append(assigned, o) /\ passed' = [passed EXCEPT ![o] = @ + 1]
           ELSE UNCHANGED <<assigned, passed>>
    BY DEF ConsiderOrder, Inv, TypeOK
  <1>2. /\ rest \in Seq(HallOrders) /\ assigned \in Seq(HallOrders)
        /\ hallOrders \in Seq(HallOrders)
        /\ came \in [HallOrders -> Nat] /\ passed \in [HallOrders -> Nat]
    BY DEF Inv, TypeOK
  <1>3. o \in HallOrders
    BY <1>1, <1>2, OccurrencesTail
  <1>4. BestKept
    BY <1>1, BestUnchanged
  <1> HIDE DEF o
  <1>5. ASSUME NEW p \in HallOrders
        PROVE  /\ occurrences(rest', p) = occurrences(rest, p) - (IF o = p THEN 1 ELSE 0)
               /\ occurrences(assigned', p) = occurrences(assigned, p)
                      + (IF isBestCandidateForOrder(o) /\ o = p THEN 1 ELSE 0)
               /\ passed'[p] = passed[p]
                      + (IF isBestCandidateForOrder(o) /\ o = p THEN 1 ELSE 0)
               /\ occurrences(hallOrders', p) = occurrences(hallOrders, p)
               /\ occurrences(rest, p) \in Nat /\ occurrences(assigned, p) \in Nat
               /\ occurrences(hallOrders, p) \in Nat
               /\ came[p] \in Nat /\ passed[p] \in Nat
    <2>1. /\ occurrences(rest, p) \in Nat /\ occurrences(assigned, p) \in Nat
          /\ occurrences(hallOrders, p) \in Nat
          /\ came[p] \in Nat /\ passed[p] \in Nat
      BY <1>2, OccurrencesType
    <2>2. occurrences(rest', p) = occurrences(rest, p) - (IF o = p THEN 1 ELSE 0)
      BY <1>1, <1>2, OccurrencesTail DEF o
    <2>3. occurrences(assigned', p) = occurrences(assigned, p)
              + (IF isBestCandidateForOrder(o) /\ o = p THEN 1 ELSE 0)
      <3>1. CASE isBestCandidateForOrder(o)
        <4>1. occurrences(Append(assigned, o), p)
                  = occurrences(assigned, p) + (IF o = p THEN 1 ELSE 0)
          BY <1>2, <1>3, OccurrencesAppend
        <4> QED
          BY <1>1, <3>1, <4>1
      <3>2. CASE ~isBestCandidateForOrder(o)
        BY <1>1, <2>1, <3>2
      <3> QED
        BY <3>1, <3>2
    <2>4. passed'[p] = passed[p] + (IF isBestCandidateForOrder(o) /\ o = p THEN 1 ELSE 0)
      BY <1>1, <1>2, <1>3, <2>1
    <2> QED
      BY <1>1, <2>1, <2>2, <2>3, <2>4
  <1>6. CountInv'
    <2> SUFFICES ASSUME NEW p \in HallOrders
                 PROVE  came'[p] = passed'[p] + occurrences(hallOrders', p)
                                   - occurrences(assigned', p)
      BY DEF CountInv, occurrences, places
    <2>1. came[p] = passed[p] + occurrences(hallOrders, p) - occurrences(assigned, p)
      BY DEF Inv, CountInv
    <2> QED
      BY <1>1, <1>5, <2>1
  <1>7. LoopInv'
    <2> SUFFICES ASSUME NEW p \in HallOrders
                 PROVE  IF isBestCandidateForOrder(p)
                        THEN occurrences(assigned', p) + occurrences(rest', p)
                                 = occurrences(hallOrders', p)
                        ELSE occurrences(assigned', p) = 0
      BY <1>4 DEF LoopInv, occurrences, places, BestKept
    <2>1. IF isBestCandidateForOrder(p)
          THEN occurrences(assigned, p) + occurrences(rest, p) = occurrences(hallOrders, p)
          ELSE occurrences(assigned, p) = 0
      BY <1>1 DEF Inv, LoopInv
    <2> QED
      BY <1>5, <2>1
  <1> QED
    BY <1>1, <1>6, <1>7 DEF Inv, RestInv

\* An order that was sent is taken off the pending ones, where it still is.
LEMMA RemoveKeeps == Inv /\ TypeOK' /\ RemoveAssigned => Inv'
  <1> SUFFICES ASSUME Inv, TypeOK', RemoveAssigned PROVE Inv'
    OBVIOUS
  <1> DEFINE o == Head(assigned)
  <1>1. /\ trying /\ trying' /\ UNCHANGED <<myState, otherElevs, came, passed>>
        /\ rest = <<>> /\ rest' = <<>> /\ assigned # <<>> /\ assigned' = Tail(assigned)
        /\ hallOrders' = removed(hallOrders, o)
    BY DEF RemoveAssigned, counts, Inv, TypeOK
  <1>2. /\ assigned \in Seq(HallOrders) /\ hallOrders \in Seq(HallOrders)
        /\ came \in [HallOrders -> Nat] /\ passed \in [HallOrders -> Nat]
    BY DEF Inv, TypeOK
  <1>3. o \in HallOrders
    BY <1>1, <1>2, OccurrencesTail
  <1>4. BestKept
    BY <1>1, BestUnchanged
  <1>5. \A p \in HallOrders :
            /\ occurrences(assigned', p) = occurrences(assigned, p) - (IF o = p THEN 1 ELSE 0)
            /\ occurrences(assigned', p) \in Nat /\ occurrences(assigned, p) \in Nat
            /\ occurrences(hallOrders, p) \in Nat
            /\ occurrences(rest, p) = 0 /\ occurrences(rest', p) = 0
            /\ came[p] \in Nat /\ passed[p] \in Nat
    <2>1. assigned' \in Seq(HallOrders)
      BY DEF TypeOK
    <2>2. ASSUME NEW p \in HallOrders
          PROVE  occurrences(assigned', p)
                     = occurrences(assigned, p) - (IF o = p THEN 1 ELSE 0)
      BY <1>1, <1>2, OccurrencesTail
    <2>3. ASSUME NEW p \in HallOrders
          PROVE  /\ occurrences(assigned', p) \in Nat /\ occurrences(assigned, p) \in Nat
                 /\ occurrences(hallOrders, p) \in Nat
      BY <1>2, <2>1, OccurrencesType
    <2> HIDE DEF o
    <2> QED
      BY <1>1, <1>2, <2>2, <2>3, OccurrencesOfEmpty
  <1> HIDE DEF o
  <1>6. \A p \in HallOrders :
            IF isBestCandidateForOrder(p)
            THEN occurrences(assigned, p) = occurrences(hallOrders, p)
            ELSE occurrences(assigned, p) = 0
    BY <1>1, <1>5 DEF Inv, LoopInv
  <1>7. occurrences(hallOrders, o) > 0
    BY <1>3, <1>5, <1>6
  <1>8. \A p \in HallOrders :
            occurrences(hallOrders', p) = occurrences(hallOrders, p) - (IF o = p THEN 1 ELSE 0)
    BY <1>1, <1>2, <1>7, OccurrencesRemoved
  <1>9. CountInv'
    <2> SUFFICES ASSUME NEW p \in HallOrders
                 PROVE  came'[p] = passed'[p] + occurrences(hallOrders', p)
                                   - occurrences(assigned', p)
      BY DEF CountInv, occurrences, places
    <2>1. came[p] = passed[p] + occurrences(hallOrders, p) - occurrences(assigned, p)
      BY DEF Inv, CountInv
    <2> QED
      BY <1>1, <1>5, <1>8, <2>1
  <1>10. LoopInv'
    <2> SUFFICES ASSUME NEW p \in HallOrders
                 PROVE  IF isBestCandidateForOrder(p)
                        THEN occurrences(assigned', p) + occurrences(rest', p)
                                 = occurrences(hallOrders', p)
                        ELSE occurrences(assigned', p) = 0
      BY <1>4 DEF LoopInv, occurrences, places, BestKept
    <2> QED
      BY <1>5, <1>6, <1>8
  <1> QED
    BY <1>1, <1>9, <1>10 DEF Inv, RestInv

\* When both loops are done, nothing pending is best served here.
LEMMA LeaveKeeps == Inv /\ TypeOK' /\ LeaveLoop => Inv'
  <1> SUFFICES ASSUME Inv, TypeOK', LeaveLoop PROVE Inv'
    OBVIOUS
  <1>1. /\ trying /\ ~trying' /\ rest = <<>> /\ assigned = <<>>
        /\ UNCHANGED <<myState, otherElevs, hallOrders, rest, assigned, came, passed>>
    BY DEF LeaveLoop, counts
  <1>2. BestKept
    BY <1>1, BestUnchanged
  <1>3. CountInv'
    BY <1>1 DEF Inv, CountInv, occurrences, places
  <1>4. \A o \in HallOrders : isBestCandidateForOrder(o) => occurrences(hallOrders, o) = 0
    BY <1>1, OccurrencesOfEmpty DEF Inv, LoopInv
  <1>5. RestInv'
    BY <1>1, <1>2, <1>4 DEF RestInv, BestKept, occurrences, places
  <1> QED
    BY <1>1, <1>3, <1>5 DEF Inv, LoopInv

LEMMA InvInductive == Inv /\ [Next]_vars => Inv'
  <1> SUFFICES ASSUME Inv, [Next]_vars PROVE Inv'
    OBVIOUS
  <1>1. TypeOK'
    BY TypeInductive DEF Inv
  <1>2. CASE ConsiderOrder \/ RemoveAssigned \/ LeaveLoop
    BY <1>1, <1>2, ConsiderKeeps, RemoveKeeps, LeaveKeeps
  <1>3. ASSUME ~trying, UNCHANGED <<hallOrders, came, passed>>,
               tryAssignHallOrders(hallOrders)
        PROVE  Inv'
    <2>1. /\ hallOrders' = hallOrders /\ passed' = passed
          /\ \A o \in HallOrders :
                /\ came'[o] = came[o] + (IF o \in {} THEN 1 ELSE 0)
                /\ occurrences(hallOrders', o)
                       = occurrences(hallOrders, o) + (IF o \in {} THEN 1 ELSE 0)
      BY <1>3, OccurrencesType DEF Inv, TypeOK
    <2>2. tryAssignHallOrders(hallOrders')
      BY <1>3 DEF tryAssignHallOrders
    <2> DEFINE T == {}
    <2>3. /\ T \in SUBSET HallOrders
          /\ \A o \in HallOrders :
                /\ came'[o] = came[o] + (IF o \in T THEN 1 ELSE 0)
                /\ occurrences(hallOrders', o)
                       = occurrences(hallOrders, o) + (IF o \in T THEN 1 ELSE 0)
      BY <2>1
    <2> HIDE DEF T
    <2> QED
      BY <1>1, <1>3, <2>1, <2>2, <2>3, StartKeeps
  <1>4. CASE onMyStateUpdate \/ UpdateOtherElevatorState \/ MarkElevatorDead
    BY <1>3, <1>4 DEF onMyStateUpdate, UpdateOtherElevatorState, MarkElevatorDead, counts
  <1>5. CASE onNewHallOrder
    <2>1. PICK p \in HallOrders :
              /\ came' = [came EXCEPT ![p] = @ + 1]
              /\ hallOrders' = Append(hallOrders, p)
              /\ tryAssignHallOrders(Append(hallOrders, p))
      BY <1>5 DEF onNewHallOrder
    <2>2. ~trying /\ passed' = passed
      BY <1>5 DEF onNewHallOrder
    <2>3. \A o \in HallOrders :
              /\ came'[o] = came[o] + (IF o \in {p} THEN 1 ELSE 0)
              /\ occurrences(hallOrders', o)
                     = occurrences(hallOrders, o) + (IF o \in {p} THEN 1 ELSE 0)
      <3>1. came \in [HallOrders -> Nat] /\ hallOrders \in Seq(HallOrders)
        BY DEF Inv, TypeOK
      <3>2. \A o \in HallOrders : came'[o] = came[o] + (IF o \in {p} THEN 1 ELSE 0)
        BY <2>1, <3>1
      <3>3. \A o \in HallOrders :
                occurrences(hallOrders', o)
                    = occurrences(hallOrders, o) + (IF p = o THEN 1 ELSE 0)
        BY <2>1, <3>1, OccurrencesAppend
      <3> QED
        BY <3>2, <3>3
    <2>4. {p} \in SUBSET HallOrders /\ tryAssignHallOrders(hallOrders')
      BY <2>1 DEF tryAssignHallOrders
    <2> QED
      BY <1>1, <2>2, <2>3, <2>4, StartKeeps
  <1>6. CASE ControllerHandles \/ sendStateUpdate \/ UNCHANGED vars
    BY <1>1, <1>6, ElsewhereKeeps DEF ControllerHandles, sendStateUpdate, vars
  <1> QED
    BY <1>2, <1>4, <1>5, <1>6 DEF Next

LEMMA InvInvariant == Spec => []Inv
  <1>1. Init => Inv
    <2> SUFFICES ASSUME Init PROVE Inv
      OBVIOUS
    <2>1. TypeOK
      BY OrderAssignerAssumption, EmptySeq DEF Init, TypeOK
    <2> QED
      BY <2>1, OccurrencesOfEmpty DEF Init, Inv, CountInv, LoopInv, RestInv
  <1> QED
    BY <1>1, InvInductive, PTL DEF Spec

-----------------------------------------------------------------------------
(* The theorems *)

\* Every hall order that came in has been sent to the controller or is pending,
\* however many of a kind there are and however often tryAssignHallOrders
\* (orderassigner.go:105-138) runs into a full channel.
THEOREM OrdersNotLost == Spec => []NoneLost
  <1>1. Inv => NoneLost
    <2> SUFFICES ASSUME Inv, ~trying, NEW o \in HallOrders
                 PROVE  came[o] = passed[o] + occurrences(hallOrders, o)
      BY DEF NoneLost
    <2>1. occurrences(assigned, o) = 0
      BY OccurrencesOfEmpty DEF Inv, RestInv
    <2>2. /\ came[o] = passed[o] + occurrences(hallOrders, o) - occurrences(assigned, o)
          /\ passed[o] \in Nat /\ occurrences(hallOrders, o) \in Nat
      BY OccurrencesType DEF Inv, CountInv, TypeOK
    <2> QED
      BY <2>1, <2>2
  <1> QED
    BY <1>1, InvInvariant, PTL

\* Whatever is pending, another elevator that is alive serves better: every
\* change of a state and every death has been answered (orderassigner.go:82-208).
THEOREM OrdersWaitForAnother == Spec => []PendingForAnother
  <1>1. Inv => PendingForAnother
    <2> SUFFICES ASSUME Inv, ~trying, NEW o \in ToSet(hallOrders)
                 PROVE  \E n \in DOMAIN otherElevs :
                            /\ otherElevs[n].Alive
                            /\ costToReachFloor(o[1], otherElevs[n])
                                   < costToReachFloor(o[1], myState)
      BY DEF PendingForAnother
    <2>1. hallOrders \in Seq(HallOrders)
      BY DEF Inv, TypeOK
    <2>2. PICK i \in 1 .. Len(hallOrders) : hallOrders[i] = o
      BY <2>1, LenProperties DEF ToSet
    <2>3. o \in HallOrders /\ occurrences(hallOrders, o) # 0
      BY <2>1, <2>2, OccurrencesType, ElementOfSeq
    <2>4. ~isBestCandidateForOrder(o)
      BY <2>3 DEF Inv, RestInv
    <2>5. PICK n \in DOMAIN otherElevs :
              /\ otherElevs[n].Alive
              /\ ~(costToReachFloor(o[1], otherElevs[n]) >= costToReachFloor(o[1], myState))
      BY <2>4 DEF isBestCandidateForOrder
    <2>6. o[1] \in Int /\ numFloors \in Nat
      BY <2>3, OrderAssignerAssumption
    <2>7. otherElevs[n].Floor \in Int /\ myState.Floor \in Int
      BY OrderAssignerAssumption DEF Inv, TypeOK
    <2>8. costToReachFloor(o[1], otherElevs[n]) \in Int
      BY <2>6, <2>7 DEF costToReachFloor
    <2>9. costToReachFloor(o[1], myState) \in Int
      BY <2>6, <2>7 DEF costToReachFloor
    <2> QED
      BY <2>5, <2>8, <2>9
  <1> QED
    BY <1>1, InvInvariant, PTL
================================================================================
