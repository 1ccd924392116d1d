------------------------------ MODULE DriverProofs ------------------------------
(***************************************************************************)
(* What holds of the driver and the simulator for any number of floors and *)
(* any bounds on what is under way, whether or not a disconnection stops   *)
(* the motor.  What is said of the cab and its motor holds as long as      *)
(* nothing falls due while a command that turns the motor waits            *)
(* (Racing = FALSE): with the race an assertion of the simulator fails.    *)
(* What is said of answers holds with the race too.  The client is elevio, *)
(* which asks for no reload of the configuration.                          *)
(***************************************************************************)
EXTENDS Driver, SequenceTheorems, TLAPS

Messages ==
    Events \cup Commands \cup (Questions \X {0})

-----------------------------------------------------------------------------
(* Queues: what stays where *)

\* t is s with m at its end.
LEMMA AppendPlaces ==
    ASSUME NEW S, NEW s \in Seq(S), NEW m \in S, NEW t, t = Append(s, m)
    PROVE  /\ t \in Seq(S) /\ t # <<>> /\ Len(s) \in Nat
           /\ Len(t) = Len(s) + 1 /\ t[Len(s) + 1] = m
           /\ DOMAIN s = 1 .. Len(s) /\ DOMAIN t = 1 .. Len(s) + 1
           /\ \A i \in 1 .. Len(s) : t[i] = s[i] /\ s[i] \in S
  BY AppendProperties, LenProperties, ElementOfSeq

\* t is s without its head.
LEMMA TailPlaces ==
    ASSUME NEW S, NEW s \in Seq(S), s # <<>>, NEW t, t = Tail(s)
    PROVE  /\ t \in Seq(S) /\ Len(s) \in Nat \ {0}
           /\ Len(t) = Len(s) - 1 /\ Head(s) = s[1] /\ s[1] \in S
           /\ DOMAIN s = 1 .. Len(s) /\ DOMAIN t = 1 .. Len(s) - 1
           /\ \A i \in 1 .. Len(t) : t[i] = s[i + 1] /\ i + 1 \in 1 .. Len(s)
           /\ \A i \in 1 .. Len(s) : i = 1 \/ (i - 1 \in 1 .. Len(t) /\ s[i] = t[i - 1])
  <1>1. /\ t \in Seq(S) /\ Len(s) \in Nat \ {0}
        /\ Len(t) = Len(s) - 1 /\ Head(s) = s[1] /\ s[1] \in S
        /\ DOMAIN s = 1 .. Len(s) /\ DOMAIN t = 1 .. Len(t)
        /\ \A i \in 1 .. Len(t) : t[i] = s[i + 1]
    BY HeadTailProperties, LenProperties, EmptySeq
  <1>2. ASSUME NEW i \in 1 .. Len(s), i # 1
        PROVE  i - 1 \in 1 .. Len(t) /\ s[i] = t[i - 1]
    <2>1. i - 1 \in 1 .. Len(t) /\ (i - 1) + 1 = i
      BY <1>1, <1>2
    <2> QED
      BY <1>1, <2>1
  <1> QED
    BY <1>1, <1>2

-----------------------------------------------------------------------------
(* The cab: the invariant *)

TypeInv ==
    /\ currDirn \in {Up, Down, Stop} /\ departDirn \in {Up, Down}
    /\ prevFloor \in Floors /\ currFloor \in {prevFloor, Between}
    /\ events \in [Events -> Nat]

InBox(e, box) == \E i \in 1 .. Len(box) : box[i] = e

\* OneMotion, place by place.
MotionInv(box) ==
    \A e \in Events :
        /\ events[e] > 0 => e \in NextMotion /\ events[e] = 1 /\ ~InBox(e, box)
        /\ InBox(e, box) => e \in NextMotion
        /\ e \in NextMotion => events[e] > 0 \/ InBox(e, box)
        /\ \A i, k \in 1 .. Len(box) : box[i] = e /\ box[k] = e => i = k

\* A motion that waits to be handled is not overtaken by a command that turns
\* the motor: those that wait before it change nothing.
NotOvertaken(box) ==
    \A i, k \in 1 .. Len(box) :
        k < i /\ box[i] \in Events /\ box[k][1] = "MotorDirection" => box[k][2] = currDirn

BoxInv(box) ==
    box \in Seq(Messages) /\ MotionInv(box) /\ NotOvertaken(box)

CabInv == TypeInv /\ BoxInv(mailbox)

LEMMA CabInvImpliesOneMotion == CabInv => OneMotion
  <1> SUFFICES ASSUME CabInv, NEW e \in Events
               PROVE  IF e \in NextMotion
                      THEN OnItsWay(e)
                      ELSE events[e] = 0 /\ e \notin {mailbox[i] : i \in DOMAIN mailbox}
    BY DEF OneMotion
  <1>1. DOMAIN mailbox = 1 .. Len(mailbox) /\ events[e] \in Nat
    BY LenProperties DEF CabInv, BoxInv, TypeInv
  <1>2. CASE e \in NextMotion
    <2>1. CASE events[e] > 0
      BY <1>1, <2>1, <1>2 DEF CabInv, BoxInv, MotionInv, OnItsWay, InBox
    <2>2. CASE events[e] = 0
      <3>1. InBox(e, mailbox)
        BY <1>2, <2>2 DEF CabInv, BoxInv, MotionInv
      <3>2. PICK i \in 1 .. Len(mailbox) : mailbox[i] = e
        BY <3>1 DEF InBox
      <3>3. {k \in DOMAIN mailbox : mailbox[k] = e} = {i}
        BY <1>1, <3>2 DEF CabInv, BoxInv, MotionInv
      <3> QED
        BY <1>1, <1>2, <2>2, <3>2, <3>3 DEF OnItsWay
    <2> QED
      BY <1>1, <2>1, <2>2
  <1>3. CASE e \notin NextMotion
    BY <1>1, <1>3 DEF CabInv, BoxInv, MotionInv, InBox
  <1> QED
    BY <1>2, <1>3

-----------------------------------------------------------------------------
(* The cab: lemmas *)

\* The kinds of messages.
LEMMA Kinds ==
    \A m \in Messages :
        /\ m \in Events <=> m[1] \in {"FloorArrival", "FloorDeparture"}
        /\ m[1] = "MotorDirection" => m[2] \in {Up, Down, Stop} /\ m = <<"MotorDirection", m[2]>>
        /\ m[1] = "ClientDisconnected" => m = <<"ClientDisconnected", 0>>
        /\ m[1] \in Questions => m \notin Events
  BY DEF Messages, Events, Commands, Keys, Questions

\* What NextMotion is, and that it is a message.
LEMMA NextMotionIs ==
    ASSUME TypeInv
    PROVE  /\ NextMotion \subseteq Events
           /\ isOutOfBounds => currFloor = Between
           /\ currDirn = Stop \/ isOutOfBounds => NextMotion = {}
           /\ currDirn # Stop /\ currFloor # Between
                 => NextMotion = {<<"FloorDeparture", prevFloor>>}
           /\ currDirn # Stop /\ currFloor = Between /\ ~isOutOfBounds
                 => LET f == IF departDirn = currDirn THEN prevFloor + currDirn ELSE prevFloor
                    IN  NextMotion = {<<"FloorArrival", f>>} /\ f \in Floors
  <1>1. NumFloors \in Nat /\ NumFloors >= 2
    BY SimulatorAssumption
  <1>2. prevFloor \in 0 .. NumFloors - 1 /\ prevFloor # -1 /\ prevFloor \in Int
    BY <1>1 DEF TypeInv, Floors
  <1>3. isOutOfBounds <=> currFloor = -1 /\ \/ departDirn = -1 /\ prevFloor = 0
                                            \/ departDirn = 1 /\ prevFloor = NumFloors - 1
    BY DEF isOutOfBounds, outOfShaft, Between, Up, Down
  <1>4. CASE currDirn = Stop \/ isOutOfBounds
    BY <1>3, <1>4 DEF NextMotion, Between
  <1>5. CASE currDirn # Stop /\ currFloor # Between
    <2>1. NextMotion = {<<"FloorDeparture", prevFloor>>}
      <3>1. ~isOutOfBounds /\ currFloor = prevFloor
        BY <1>3, <1>5 DEF TypeInv, Between
      <3>2. due(currDirn) = {FloorDeparture(currFloor)}
        BY <1>5 DEF due
      <3> QED
        BY <1>5, <3>1, <3>2 DEF NextMotion, FloorDeparture
    <2>2. <<"FloorDeparture", prevFloor>> \in Events
      BY <1>1, <1>2 DEF Events
    <2> QED
      BY <1>3, <1>5, <2>1, <2>2 DEF Between
  <1>6. CASE currDirn # Stop /\ currFloor = Between /\ ~isOutOfBounds
    <2> DEFINE f == IF departDirn = currDirn THEN prevFloor + currDirn ELSE prevFloor
    <2>1. NextMotion = {<<"FloorArrival", f>>}
      BY <1>6 DEF NextMotion, due, FloorArrival, TypeInv
    <2>2. f \in Floors
      BY <1>1, <1>2, <1>3, <1>6 DEF TypeInv, Floors, Up, Down, Stop, Between
    <2>3. <<"FloorArrival", f>> \in Events
      BY <1>1, <2>2 DEF Events, Floors
    <2> QED
      BY <1>6, <2>1, <2>2, <2>3
  <1> QED
    BY <1>4, <1>5, <1>6

\* What is handled and is no motion leaves the rest of the queue as it is.
LEMMA TailKeeps ==
    ASSUME NEW s, BoxInv(s), s # <<>>, Head(s) \notin Events
    PROVE  BoxInv(Tail(s))
  <1> DEFINE t == Tail(s)
  <1>1. s \in Seq(Messages)
    BY DEF BoxInv
  <1>2. /\ t \in Seq(Messages) /\ Len(s) \in Nat \ {0}
        /\ Len(t) = Len(s) - 1 /\ Head(s) = s[1]
        /\ \A i \in 1 .. Len(t) : t[i] = s[i + 1] /\ i + 1 \in 1 .. Len(s)
        /\ \A i \in 1 .. Len(s) : i = 1 \/ (i - 1 \in 1 .. Len(t) /\ s[i] = t[i - 1])
    BY <1>1, TailPlaces
  <1> HIDE DEF t
  <1>3. MotionInv(t)
    <2> SUFFICES ASSUME NEW e \in Events
                 PROVE  /\ InBox(e, t) <=> InBox(e, s)
                        /\ \A i, k \in 1 .. Len(t) : t[i] = e /\ t[k] = e => i = k
      BY DEF MotionInv, BoxInv
    <2>1. InBox(e, t) <=> InBox(e, s)
      BY <1>2 DEF InBox
    <2>2. ASSUME NEW i \in 1 .. Len(t), NEW k \in 1 .. Len(t), t[i] = e, t[k] = e
          PROVE  i = k
      <3>1. /\ i + 1 \in 1 .. Len(s) /\ s[i + 1] = e
            /\ k + 1 \in 1 .. Len(s) /\ s[k + 1] = e
        BY <1>2, <2>2
      <3>2. i + 1 = k + 1
        BY <3>1 DEF MotionInv, BoxInv
      <3> QED
        BY <3>2
    <2> QED
      BY <2>1, <2>2
  <1>4. NotOvertaken(t)
    <2> SUFFICES ASSUME NEW i \in 1 .. Len(t), NEW k \in 1 .. Len(t), k < i,
                        t[i] \in Events, t[k][1] = "MotorDirection"
                 PROVE  t[k][2] = currDirn
      BY DEF NotOvertaken
    <2>1. k + 1 < i + 1
      BY <1>2
    <2> QED
      BY <1>2, <2>1 DEF NotOvertaken, BoxInv
  <1> QED
    BY <1>2, <1>3, <1>4 DEF BoxInv, t

\* A command or a question that comes in waits behind everything.
LEMMA AppendKeeps ==
    ASSUME NEW s, BoxInv(s), NEW m \in Messages, m \notin Events
    PROVE  BoxInv(Append(s, m))
  <1> DEFINE t == Append(s, m)
  <1>1. s \in Seq(Messages)
    BY DEF BoxInv
  <1>2. /\ t \in Seq(Messages) /\ Len(s) \in Nat
        /\ Len(t) = Len(s) + 1 /\ t[Len(s) + 1] = m
        /\ \A i \in 1 .. Len(s) : t[i] = s[i]
    BY <1>1, AppendPlaces
  <1> HIDE DEF t
  <1>3. \A i \in 1 .. Len(t) : t[i] \in Events => i \in 1 .. Len(s)
    BY <1>2
  <1>4. \A e \in Events : InBox(e, t) <=> InBox(e, s)
    BY <1>2, <1>3 DEF InBox
  <1>5. MotionInv(t)
    BY <1>2, <1>3, <1>4 DEF MotionInv, BoxInv
  <1>6. \A i, k \in 1 .. Len(t) : i \in 1 .. Len(s) /\ k < i => k \in 1 .. Len(s)
    BY <1>2
  <1>7. NotOvertaken(t)
    BY <1>2, <1>3, <1>6 DEF NotOvertaken, BoxInv
  <1> QED
    BY <1>2, <1>5, <1>7 DEF BoxInv, t

\* A step of the mailbox alone.
LEMMA CabUnchanged ==
    ASSUME TypeInv, BoxInv(mailbox'), UNCHANGED <<state, events>>
    PROVE  CabInv'
  <1>1. UNCHANGED <<currDirn, currFloor, departDirn, prevFloor, events>>
    BY DEF state
  <1>2. NextMotion' = NextMotion
    BY <1>1 DEF NextMotion, due, isOutOfBounds, FloorArrival, FloorDeparture
  <1>3. TypeInv'
    BY <1>1 DEF TypeInv
  <1>4. MotionInv(mailbox)'
    BY <1>1, <1>2 DEF BoxInv, MotionInv, InBox
  <1>5. NotOvertaken(mailbox)'
    BY <1>1 DEF BoxInv, NotOvertaken
  <1> QED
    BY <1>3, <1>4, <1>5 DEF CabInv, BoxInv

-----------------------------------------------------------------------------
(* The cab: the main thread *)

LEMMA MotorDirectionKeeps == CabInv /\ OnMotorDirection => CabInv'
  <1> SUFFICES ASSUME CabInv, OnMotorDirection PROVE CabInv'
    OBVIOUS
  <1> DEFINE md == Head(mailbox)[2]
  <1>1. /\ mailbox # <<>> /\ Head(mailbox)[1] = "MotorDirection"
        /\ mailbox' = Tail(mailbox) /\ setMotor(md)
    BY DEF OnMotorDirection, received, argument
  <1>2. /\ mailbox \in Seq(Messages) /\ BoxInv(mailbox) /\ TypeInv
    BY DEF CabInv, BoxInv
  <1>3. /\ Len(mailbox) \in Nat \ {0} /\ Head(mailbox) = mailbox[1] /\ mailbox[1] \in Messages
        /\ \A i \in 1 .. Len(mailbox) :
              i = 1 \/ (i - 1 \in 1 .. Len(mailbox') /\ mailbox[i] = mailbox'[i - 1])
        /\ \A i \in 1 .. Len(mailbox') :
              mailbox'[i] = mailbox[i + 1] /\ i + 1 \in 1 .. Len(mailbox) /\ 1 < i + 1
        /\ Len(mailbox') \in Nat
    BY <1>1, <1>2, TailPlaces
  <1>4. md \in {Up, Down, Stop} /\ mailbox[1][2] = md /\ mailbox[1][1] = "MotorDirection"
        /\ Head(mailbox) \notin Events
    BY <1>1, <1>3, Kinds
  <1>5. BoxInv(mailbox')
    BY <1>1, <1>2, <1>4, TailKeeps
  <1> HIDE DEF md
  <1>6. CASE ~(currDirn # md /\ ~isOutOfBounds)
    BY <1>1, <1>2, <1>5, <1>6, CabUnchanged DEF setMotor
  <1>7. CASE currDirn # md /\ ~isOutOfBounds
    <2>1. /\ currDirn' = md /\ events' = with(kept, due(md))
          /\ departDirn' = IF md # Stop /\ currFloor # Between THEN md ELSE departDirn
          /\ currFloor' = currFloor /\ prevFloor' = prevFloor
      BY <1>1, <1>7 DEF setMotor
    <2>2. \A i \in 1 .. Len(mailbox) :
              mailbox[i] \notin Events
      <3> SUFFICES ASSUME NEW i \in 1 .. Len(mailbox), mailbox[i] \in Events
                   PROVE  FALSE
        OBVIOUS
      <3>1. 1 < i /\ 1 \in 1 .. Len(mailbox)
        BY <1>1, <1>3, <1>4
      <3> QED
        BY <1>2, <1>4, <1>7, <3>1 DEF BoxInv, NotOvertaken
    <2>3. \A i \in 1 .. Len(mailbox') :
              mailbox'[i] \notin Events
      BY <1>3, <2>2
    <2>4. TypeInv'
      <3>1. events' \in [Events -> Nat]
        BY <1>2, <2>1 DEF TypeInv, with, kept, without
      <3> QED
        BY <1>2, <1>4, <2>1, <3>1 DEF TypeInv
    <2>5. \A e \in Events : events[e] \in Nat /\ (events[e] > 0 => e \in NextMotion)
      BY <1>2 DEF BoxInv, MotionInv, TypeInv
    <2>6. \A e \in Events : kept[e] = 0
      <3>1. \A e \in NextMotion :
                e[1] = IF currFloor = Between THEN "FloorArrival" ELSE "FloorDeparture"
        BY <1>2, NextMotionIs
      <3> QED
        BY <2>5, <3>1 DEF kept, without
    <2>7. NextMotion' = due(md)
      <3>1. ~isOutOfBounds'
        BY <1>7, <2>1 DEF isOutOfBounds, outOfShaft
      <3> QED
        BY <2>1, <3>1 DEF NextMotion, due, FloorArrival, FloorDeparture
    <2>8. \A e \in Events : events'[e] = IF e \in NextMotion' THEN 1 ELSE 0
      BY <2>1, <2>6, <2>7 DEF with
    <2>9. MotionInv(mailbox)'
      BY <2>3, <2>8 DEF MotionInv, InBox
    <2>10. NotOvertaken(mailbox)'
      BY <2>3 DEF NotOvertaken
    <2> QED
      BY <1>5, <2>4, <2>9, <2>10 DEF CabInv, BoxInv
  <1> QED
    BY <1>6, <1>7

\* What holds when a motion is at the head of the mailbox: it is the one that is
\* expected, and there is no other.
LEMMA MotionAtHead ==
    ASSUME CabInv, mailbox # <<>>, Head(mailbox) \in Events, mailbox' = Tail(mailbox)
    PROVE  /\ NextMotion = {Head(mailbox)}
           /\ currDirn \in {Up, Down} /\ ~isOutOfBounds
           /\ \A e \in Events : events[e] = 0
           /\ mailbox' \in Seq(Messages)
           /\ \A i \in 1 .. Len(mailbox') :
                 mailbox'[i] \notin Events
  <1> DEFINE h == Head(mailbox)
  <1>1. /\ mailbox \in Seq(Messages) /\ BoxInv(mailbox) /\ TypeInv
    BY DEF CabInv, BoxInv
  <1>2. /\ Len(mailbox) \in Nat \ {0} /\ h = mailbox[1] /\ mailbox' \in Seq(Messages)
        /\ \A i \in 1 .. Len(mailbox') :
              mailbox'[i] = mailbox[i + 1] /\ i + 1 \in 1 .. Len(mailbox) /\ 1 # i + 1
    BY <1>1, TailPlaces
  <1> HIDE DEF h
  <1>3. InBox(h, mailbox) /\ h \in Events
    BY <1>2 DEF InBox, h
  <1>4. h \in NextMotion
    BY <1>1, <1>3 DEF BoxInv, MotionInv
  <1>5. currDirn # Stop /\ ~isOutOfBounds /\ NextMotion = {h}
    BY <1>1, <1>4, NextMotionIs
  <1>6. \A e \in Events : events[e] = 0
    <2> SUFFICES ASSUME NEW e \in Events, events[e] # 0 PROVE FALSE
      OBVIOUS
    <2>1. events[e] > 0
      BY <1>1 DEF TypeInv
    <2>2. e = h
      BY <1>1, <1>5, <2>1 DEF BoxInv, MotionInv
    <2> QED
      BY <1>1, <1>3, <2>1, <2>2 DEF BoxInv, MotionInv
  <1>7. ASSUME NEW i \in 1 .. Len(mailbox') PROVE mailbox'[i] \notin Events
    <2>1. CASE mailbox'[i] \in Events
      <3>1. mailbox[i + 1] \in Events /\ InBox(mailbox[i + 1], mailbox)
        BY <1>2, <2>1 DEF InBox
      <3>2. mailbox[i + 1] = h
        BY <1>1, <1>5, <3>1 DEF BoxInv, MotionInv
      <3>3. i + 1 = 1
        BY <1>1, <1>2, <1>3, <3>2 DEF BoxInv, MotionInv
      <3> QED
        BY <1>2, <3>3
    <2> QED
      BY <2>1
  <1> QED
    BY <1>1, <1>2, <1>5, <1>6, <1>7 DEF TypeInv, h

LEMMA FloorArrivalKeeps == CabInv /\ OnFloorArrival => CabInv'
  <1> SUFFICES ASSUME CabInv, OnFloorArrival PROVE CabInv'
    OBVIOUS
  <1> DEFINE f == Head(mailbox)[2]
  <1>1. /\ mailbox # <<>> /\ Head(mailbox)[1] = "FloorArrival" /\ mailbox' = Tail(mailbox)
        /\ currFloor' = f /\ prevFloor' = f /\ events' = with(events, {FloorDeparture(f)})
        /\ currDirn' = currDirn /\ departDirn' = departDirn
    BY DEF OnFloorArrival, received, argument
  <1>2. TypeInv /\ Head(mailbox) \in Events
    <2>1. Head(mailbox) \in Messages
      BY <1>1, TailPlaces DEF CabInv, BoxInv
    <2> QED
      BY <1>1, <2>1, Kinds DEF CabInv
  <1>3. /\ NextMotion = {Head(mailbox)} /\ currDirn \in {Up, Down} /\ ~isOutOfBounds
        /\ \A e \in Events : events[e] = 0
        /\ mailbox' \in Seq(Messages)
        /\ \A i \in 1 .. Len(mailbox') :
              mailbox'[i] \notin Events
    BY <1>1, <1>2, MotionAtHead
  <1>4. f \in Floors
    <2>1. currFloor = Between
      BY <1>1, <1>2, <1>3, NextMotionIs DEF Up, Down, Stop
    <2> QED
      BY <1>1, <1>2, <1>3, <2>1, NextMotionIs DEF Up, Down, Stop
  <1> HIDE DEF f
  <1>5. f # Between /\ FloorDeparture(f) \in Events
    BY <1>4, SimulatorAssumption DEF Floors, Between, FloorDeparture, Events
  <1>6. events' \in [Events -> Nat]
        /\ \A e \in Events : events'[e] = IF e = FloorDeparture(f) THEN 1 ELSE 0
    BY <1>1, <1>3 DEF with
  <1>7. TypeInv'
    BY <1>1, <1>2, <1>4, <1>6 DEF TypeInv
  <1>8. NextMotion' = {FloorDeparture(f)}
    <2>1. ~isOutOfBounds' /\ currDirn' # Stop /\ currFloor' # Between
      BY <1>1, <1>3, <1>5 DEF isOutOfBounds, outOfShaft, Up, Down, Stop
    <2>2. due(currDirn)' = {FloorDeparture(f)}
      BY <1>1, <2>1 DEF due, FloorDeparture
    <2> QED
      BY <2>1, <2>2 DEF NextMotion
  <1>9. MotionInv(mailbox)'
    BY <1>3, <1>6, <1>8 DEF MotionInv, InBox
  <1>10. NotOvertaken(mailbox)'
    BY <1>3 DEF NotOvertaken
  <1> QED
    BY <1>3, <1>7, <1>9, <1>10 DEF CabInv, BoxInv

LEMMA FloorDepartureKeeps == CabInv /\ OnFloorDeparture => CabInv'
  <1> SUFFICES ASSUME CabInv, OnFloorDeparture PROVE CabInv'
    OBVIOUS
  <1> DEFINE f == Head(mailbox)[2]
             gone == \/ currDirn = Down /\ f <= 0
                     \/ currDirn = Up /\ f >= NumFloors - 1
             next == FloorArrival(prevFloor + currDirn)
  <1>1. /\ mailbox # <<>> /\ Head(mailbox)[1] = "FloorDeparture" /\ mailbox' = Tail(mailbox)
        /\ events' = IF gone THEN events ELSE with(events, {next})
        /\ currFloor' = Between /\ departDirn' = currDirn
        /\ currDirn' = currDirn /\ prevFloor' = prevFloor
    BY DEF OnFloorDeparture, received, argument
  <1>2. TypeInv /\ Head(mailbox) \in Events
    <2>1. Head(mailbox) \in Messages
      BY <1>1, TailPlaces DEF CabInv, BoxInv
    <2> QED
      BY <1>1, <2>1, Kinds DEF CabInv
  <1>3. /\ NextMotion = {Head(mailbox)} /\ currDirn \in {Up, Down} /\ ~isOutOfBounds
        /\ \A e \in Events : events[e] = 0
        /\ mailbox' \in Seq(Messages)
        /\ \A i \in 1 .. Len(mailbox') :
              mailbox'[i] \notin Events
    BY <1>1, <1>2, MotionAtHead
  <1>4. f = prevFloor
    <2>1. currFloor # Between
      BY <1>1, <1>2, <1>3, NextMotionIs DEF Up, Down, Stop
    <2> QED
      BY <1>2, <1>3, <2>1, NextMotionIs DEF Up, Down, Stop
  <1>5. NumFloors \in Nat /\ prevFloor \in 0 .. NumFloors - 1
    BY <1>2, SimulatorAssumption DEF TypeInv, Floors
  <1>6. gone <=> isOutOfBounds'
    BY <1>1, <1>3, <1>4, <1>5 DEF isOutOfBounds, outOfShaft, Between, Up, Down, Stop
  <1> HIDE DEF f, gone
  <1>7. next \in Events
    <2>1. prevFloor + currDirn \in -1 .. NumFloors + 1
      BY <1>3, <1>5 DEF Up, Down
    <2> QED
      BY <2>1 DEF Events, FloorArrival
  <1>8. NextMotion' = IF gone THEN {} ELSE {next}
    <2>1. ~isOutOfBounds' => due(currDirn)' = {next}
      BY <1>1, <1>3 DEF due, FloorArrival, Up, Down, Stop
    <2> QED
      BY <1>1, <1>3, <1>6, <2>1 DEF NextMotion, Up, Down, Stop
  <1> HIDE DEF next
  <1>9. events' \in [Events -> Nat]
        /\ \A e \in Events : events'[e] = IF ~gone /\ e = next THEN 1 ELSE 0
    BY <1>1, <1>2, <1>3 DEF with, TypeInv
  <1>10. TypeInv'
    BY <1>1, <1>2, <1>3, <1>9 DEF TypeInv
  <1>11. MotionInv(mailbox)'
    BY <1>3, <1>8, <1>9 DEF MotionInv, InBox
  <1>12. NotOvertaken(mailbox)'
    BY <1>3 DEF NotOvertaken
  <1> QED
    BY <1>3, <1>10, <1>11, <1>12 DEF CabInv, BoxInv

\* A cab that is put somewhere else with its motor off has nothing pending.
LEMMA CabAtRest ==
    ASSUME TypeInv', BoxInv(mailbox'), currDirn' = Stop, events' = events,
           currDirn = Stop \/ isOutOfBounds, TypeInv
    PROVE  CabInv'
  <1>1. NextMotion = {} /\ NextMotion' = {}
    BY NextMotionIs DEF NextMotion
  <1>2. \A e \in Events : events'[e] = 0 /\ ~InBox(e, mailbox')
    BY <1>1 DEF BoxInv, MotionInv, TypeInv
  <1>3. MotionInv(mailbox)'
    BY <1>1, <1>2 DEF MotionInv, InBox
  <1>4. \A i \in 1 .. Len(mailbox') : mailbox'[i] \notin Events
    BY <1>2 DEF InBox
  <1>5. NotOvertaken(mailbox)'
    BY <1>4 DEF NotOvertaken
  <1> QED
    BY <1>3, <1>5 DEF CabInv, BoxInv

LEMMA ManualMoveKeeps == CabInv /\ OnManualMoveWithinBounds => CabInv'
  <1> SUFFICES ASSUME CabInv, OnManualMoveWithinBounds PROVE CabInv'
    OBVIOUS
  <1>1. /\ mailbox # <<>> /\ Head(mailbox)[1] = "ManualMoveWithinBounds"
        /\ mailbox' = Tail(mailbox)
        /\ IF isOutOfBounds
           THEN currFloor' = prevFloor /\ currDirn' = Stop
           ELSE UNCHANGED <<currFloor, currDirn>>
        /\ UNCHANGED <<departDirn, prevFloor, events>>
    BY DEF OnManualMoveWithinBounds, received
  <1>2. TypeInv /\ BoxInv(mailbox) /\ Head(mailbox) \notin Events
    <2>1. Head(mailbox) \in Messages
      BY <1>1, TailPlaces DEF CabInv, BoxInv
    <2> QED
      BY <1>1, <2>1, Kinds DEF CabInv
  <1>3. BoxInv(mailbox')
    BY <1>1, <1>2, TailKeeps
  <1>4. CASE isOutOfBounds
    <2>1. TypeInv'
      BY <1>1, <1>2, <1>4 DEF TypeInv
    <2> QED
      BY <1>1, <1>2, <1>3, <1>4, <2>1, CabAtRest
  <1>5. CASE ~isOutOfBounds
    BY <1>1, <1>2, <1>3, <1>5, CabUnchanged DEF state
  <1> QED
    BY <1>4, <1>5

LEMMA ClientDisconnectedKeeps == CabInv /\ OnClientDisconnected => CabInv'
  <1> SUFFICES ASSUME CabInv, OnClientDisconnected PROVE CabInv'
    OBVIOUS
  <1> DEFINE stop == <<"MotorDirection", Stop>>
  <1>1. /\ mailbox # <<>> /\ Head(mailbox)[1] = "ClientDisconnected"
        /\ mailbox' \in {Tail(mailbox), Append(Tail(mailbox), stop)}
        /\ UNCHANGED <<state, events>>
    BY DEF OnClientDisconnected, received
  <1>2. TypeInv /\ BoxInv(mailbox) /\ Head(mailbox) \notin Events
    <2>1. Head(mailbox) \in Messages
      BY <1>1, TailPlaces DEF CabInv, BoxInv
    <2> QED
      BY <1>1, <2>1, Kinds DEF CabInv
  <1>3. BoxInv(Tail(mailbox))
    BY <1>1, <1>2, TailKeeps
  <1>4. BoxInv(Append(Tail(mailbox), stop))
    <2>1. stop \in Messages /\ stop \notin Events
      BY DEF Messages, Commands, Keys, Events
    <2> HIDE DEF stop
    <2> QED
      BY <1>3, <2>1, AppendKeeps
  <1> HIDE DEF stop
  <1> QED
    BY <1>1, <1>2, <1>3, <1>4, CabUnchanged

LEMMA ReceiveKeeps == CabInv /\ Receive => CabInv'
  BY MotorDirectionKeeps, FloorArrivalKeeps, FloorDepartureKeeps, ManualMoveKeeps,
     ClientDisconnectedKeeps DEF Receive

-----------------------------------------------------------------------------
(* The cab: the other threads *)

\* What is not a command that turns the motor, while none waits.
LEMMA NotTurning ==
    ASSUME CabInv, ~MotorTurning, NEW i \in 1 .. Len(mailbox), mailbox[i][1] = "MotorDirection"
    PROVE  mailbox[i][2] = currDirn
  <1>1. mailbox \in Seq(Messages) /\ DOMAIN mailbox = 1 .. Len(mailbox)
    BY LenProperties DEF CabInv, BoxInv
  <1>2. mailbox[i] \in Messages
    BY <1>1, ElementOfSeq
  <1>3. mailbox[i][2] \in {Up, Down, Stop} /\ mailbox[i] = <<"MotorDirection", mailbox[i][2]>>
    BY <1>2, Kinds
  <1> QED
    BY <1>1, <1>3 DEF MotorTurning

LEMMA FireKeeps ==
    ASSUME CabInv, Fire, Racing = FALSE
    PROVE  CabInv'
  <1>1. PICK e \in Events :
            /\ events[e] > 0
            /\ events' = [events EXCEPT ![e] = @ - 1]
            /\ mailbox' = Append(mailbox, e)
    BY DEF Fire
  <1>2. ~MotorTurning /\ UNCHANGED <<currDirn, currFloor, departDirn, prevFloor>>
    BY DEF Fire, state
  <1>3. TypeInv /\ MotionInv(mailbox) /\ NotOvertaken(mailbox)
        /\ mailbox \in Seq(Messages)
    BY DEF CabInv, BoxInv
  <1>4. e \in NextMotion /\ events[e] = 1 /\ ~InBox(e, mailbox)
    BY <1>1, <1>3 DEF MotionInv
  <1>5. e \in Messages /\ e[1] # "MotorDirection"
    BY DEF Messages, Events
  <1>6. /\ mailbox' \in Seq(Messages) /\ Len(mailbox) \in Nat
        /\ Len(mailbox') = Len(mailbox) + 1 /\ mailbox'[Len(mailbox) + 1] = e
        /\ \A i \in 1 .. Len(mailbox) : mailbox'[i] = mailbox[i]
    BY <1>1, <1>3, <1>5, AppendPlaces
  <1>7. NextMotion' = NextMotion
    BY <1>2 DEF NextMotion, due, isOutOfBounds, FloorArrival, FloorDeparture
  <1>8. events'[e] = 0 /\ events' \in [Events -> Nat]
        /\ \A o \in Events : o # e => events'[o] = events[o]
    BY <1>1, <1>3, <1>4 DEF TypeInv
  <1>9. TypeInv'
    BY <1>2, <1>3, <1>8 DEF TypeInv
  <1>10. \A i, k \in 1 .. Len(mailbox') :
            /\ i # Len(mailbox) + 1 => i \in 1 .. Len(mailbox)
            /\ k < i => k \in 1 .. Len(mailbox)
    BY <1>6
  <1>11. /\ InBox(e, mailbox')
         /\ \A o \in Events : o # e => (InBox(o, mailbox') <=> InBox(o, mailbox))
    BY <1>6, <1>10 DEF InBox
  <1>12. \A o \in Events : \A i, k \in 1 .. Len(mailbox') :
            mailbox'[i] = o /\ mailbox'[k] = o => i = k
    <2> SUFFICES ASSUME NEW o \in Events, NEW i \in 1 .. Len(mailbox'),
                        NEW k \in 1 .. Len(mailbox'), mailbox'[i] = o, mailbox'[k] = o
                 PROVE  i = k
      OBVIOUS
    <2>1. CASE o = e
      BY <1>4, <1>6, <1>10, <2>1 DEF InBox
    <2>2. CASE o # e
      <3>1. i \in 1 .. Len(mailbox) /\ k \in 1 .. Len(mailbox)
        BY <1>6, <1>10, <2>2
      <3> QED
        BY <1>3, <1>6, <3>1 DEF MotionInv
    <2> QED
      BY <2>1, <2>2
  <1>13. MotionInv(mailbox)'
    <2> SUFFICES ASSUME NEW o \in Events
                 PROVE  /\ events'[o] > 0
                              => o \in NextMotion /\ events'[o] = 1 /\ ~InBox(o, mailbox')
                        /\ InBox(o, mailbox') => o \in NextMotion
                        /\ o \in NextMotion => events'[o] > 0 \/ InBox(o, mailbox')
      BY <1>7, <1>12 DEF MotionInv, InBox
    <2>1. CASE o = e
      BY <1>4, <1>8, <1>11, <2>1
    <2>2. CASE o # e
      BY <1>3, <1>8, <1>11, <2>2 DEF MotionInv
    <2> QED
      BY <2>1, <2>2
  <1>14. NotOvertaken(mailbox)'
    BY <1>2, <1>6, <1>10, NotTurning DEF NotOvertaken
  <1> QED
    BY <1>6, <1>9, <1>13, <1>14 DEF CabInv, BoxInv

-----------------------------------------------------------------------------
(* The cab: the driver's and the server's steps *)

\* What a client sends.
Sent ==
    {<<"MotorDirection", d>> : d \in {Up, Down, Stop}} \cup
    {<<"ClientDisconnected", 0>>} \cup (Questions \X {0})

DriverCabInv == CabInv /\ toServer \in Seq(Sent)

LEMMA SentAreMessages ==
    \A m \in Sent : m \in Messages /\ m \notin Events
  BY DEF Sent, Messages, Commands, Keys, Questions, Events

\* A step of the connection leaves the cab alone.
LEMMA CabKept ==
    ASSUME CabInv, UNCHANGED vars
    PROVE  CabInv'
  <1>1. UNCHANGED <<state, events>> /\ mailbox' = mailbox
    BY DEF vars
  <1> QED
    BY <1>1, CabUnchanged DEF CabInv

LEMMA DriverCabKept ==
    ASSUME DriverCabInv, [DriverNext]_allVars, Racing = FALSE
    PROVE  DriverCabInv'
  <1> USE DEF DriverCabInv
  <1>1. ASSUME NEW d \in {Up, Down, Stop}, Write(d) PROVE DriverCabInv'
    <2>1. <<"MotorDirection", d>> \in Sent
      BY DEF Sent
    <2> QED
      BY <1>1, <2>1, CabKept, AppendProperties DEF Write
  <1>2. ASSUME NEW q \in Questions, Ask(q) PROVE DriverCabInv'
    <2>1. <<q, 0>> \in Sent
      BY DEF Sent
    <2> QED
      BY <1>2, <2>1, CabKept, AppendProperties DEF Ask
  <1>3. ASSUME NEW q \in Questions, Read(q) PROVE DriverCabInv'
    BY <1>3, CabKept DEF Read
  <1>4. CASE Reconnect
    <2>1. <<"ClientDisconnected", 0>> \in Sent
      BY DEF Sent
    <2> QED
      BY <1>4, <2>1, CabKept, AppendProperties DEF Reconnect
  <1>5. CASE ServerReceives
    <2> DEFINE m == Head(toServer)
    <2>1. toServer # <<>> /\ toServer' = Tail(toServer) /\ mailbox' = Append(mailbox, m)
          /\ UNCHANGED <<state, events>>
      BY <1>5 DEF ServerReceives
    <2>2. m \in Sent /\ Tail(toServer) \in Seq(Sent)
      BY <2>1, HeadTailProperties
    <2> HIDE DEF m
    <2>3. BoxInv(Append(mailbox, m))
      BY <2>2, SentAreMessages, AppendKeeps DEF CabInv
    <2> QED
      BY <2>1, <2>2, <2>3, CabUnchanged DEF CabInv
  <1>6. CASE ServerAnswers
    BY <1>6, CabKept DEF ServerAnswers
  <1>7. CASE OnRequest
    <2>1. mailbox # <<>> /\ Head(mailbox)[1] \in Questions /\ mailbox' = Tail(mailbox)
          /\ UNCHANGED <<state, events>> /\ toServer' = toServer
      BY <1>7 DEF OnRequest
    <2>2. Head(mailbox) \notin Events
      <3>1. Head(mailbox) \in Messages
        BY <2>1, TailPlaces DEF CabInv, BoxInv
      <3> QED
        BY <2>1, <3>1, Kinds
    <2>3. BoxInv(mailbox')
      BY <2>1, <2>2, TailKeeps DEF CabInv
    <2> QED
      BY <2>1, <2>3, CabUnchanged DEF CabInv
  <1>8. CASE Handle
    BY <1>8, ReceiveKeeps DEF Handle, stream
  <1>9. CASE TimedEvent
    BY <1>9, FireKeeps DEF TimedEvent, stream
  <1>10. CASE Keyboard
    <2>1. PICK key \in Keys : mailbox' = Append(mailbox, key)
      BY <1>10 DEF Keyboard
    <2>2. key \in Messages /\ key \notin Events
      BY DEF Messages, Commands, Keys, Events
    <2>3. BoxInv(mailbox')
      BY <2>1, <2>2, AppendKeeps DEF CabInv
    <2>4. toServer' = toServer /\ UNCHANGED <<state, events>>
      BY <1>10 DEF Keyboard, stream
    <2> QED
      BY <2>3, <2>4, CabUnchanged DEF CabInv
  <1>11. CASE FlipObstruction
    BY <1>11, CabKept DEF FlipObstruction, stream
  <1>12. CASE UNCHANGED allVars
    BY <1>12, CabKept DEF allVars, stream
  <1> QED
    BY <1>1, <1>2, <1>3, <1>4, <1>5, <1>6, <1>7, <1>8, <1>9, <1>10, <1>11, <1>12
       DEF DriverNext

LEMMA DriverCabInit == DriverInit => DriverCabInv
  <1> SUFFICES ASSUME DriverInit PROVE DriverCabInv
    OBVIOUS
  <1>1. /\ currDirn = Stop /\ events = [e \in Events |-> 0] /\ mailbox = <<>>
        /\ toServer = <<>>
    BY DEF DriverInit, Init
  <1>2. PICK p \in Places : currFloor = p[1] /\ departDirn = p[2] /\ prevFloor = p[3]
    BY DEF DriverInit, Init
  <1>3. TypeInv
    <2>1. p \in (Floors \cup {Between}) \X {Up, Down} \X Floors /\ p[1] \in {p[3], Between}
      BY DEF Places
    <2> QED
      BY <1>1, <1>2, <2>1 DEF TypeInv
  <1>4. NextMotion = {}
    BY <1>1 DEF NextMotion
  <1>5. Len(mailbox) = 0 /\ mailbox \in Seq(Messages) /\ toServer \in Seq(Sent)
    BY <1>1, EmptySeq
  <1>6. MotionInv(mailbox) /\ NotOvertaken(mailbox)
    BY <1>1, <1>4, <1>5 DEF MotionInv, NotOvertaken, InBox
  <1> QED
    BY <1>3, <1>5, <1>6 DEF DriverCabInv, CabInv, BoxInv

\* No command and no disconnection loses or doubles the timer that moves the cab,
\* whatever elevio and the operator's keys send.
THEOREM OneMotionToCome ==
    ASSUME Racing = FALSE
    PROVE  DriverSpec => []OneMotion
  <1>1. DriverCabInv /\ [DriverNext]_allVars => DriverCabInv'
    BY DriverCabKept
  <1>2. DriverCabInv => OneMotion
    BY CabInvImpliesOneMotion DEF DriverCabInv
  <1> QED
    BY DriverCabInit, <1>1, <1>2, PTL DEF DriverSpec

\* What the handler of FloorArrival asserts holds of the motion that comes.
LEMMA CabInvImpliesAsserts == CabInv => AssertsHold
  <1>0. CabInv => StateInvariant
    BY SimulatorAssumption
       DEF CabInv, TypeInv, StateInvariant, Floors, Between, Up, Down, Stop
  <1> SUFFICES ASSUME CabInv, mailbox # <<>>, Head(mailbox)[1] = "FloorArrival"
               PROVE  ArrivalAsserts(Head(mailbox)[2])
    BY <1>0 DEF AssertsHold, received, argument
  <1>1. /\ mailbox \in Seq(Messages) /\ TypeInv /\ MotionInv(mailbox)
    BY DEF CabInv, BoxInv
  <1>2. 1 \in 1 .. Len(mailbox) /\ Head(mailbox) = mailbox[1] /\ mailbox[1] \in Messages
    BY <1>1, TailPlaces
  <1>3. Head(mailbox) \in Events
    BY <1>2, Kinds
  <1>4. Head(mailbox) \in NextMotion
    BY <1>1, <1>2, <1>3 DEF MotionInv, InBox
  <1>5. currDirn # Stop /\ currFloor = Between /\ ~isOutOfBounds
    BY <1>1, <1>4, NextMotionIs
  <1> DEFINE f == Head(mailbox)[2]
  <1>6. f = (IF departDirn = currDirn THEN prevFloor + currDirn ELSE prevFloor) /\ f \in Floors
    BY <1>1, <1>4, <1>5, NextMotionIs
  <1> HIDE DEF f
  <1>7. prevFloor \in Int /\ f \in 0 .. NumFloors /\ currDirn \in {1, -1}
    BY <1>1, <1>5, <1>6, SimulatorAssumption DEF TypeInv, Floors, Up, Down, Stop
  <1>8. ArrivalAsserts(f)
    <2>1. CASE f = prevFloor
      BY <1>5, <1>7, <2>1 DEF ArrivalAsserts, Up, Down
    <2>2. CASE departDirn = currDirn /\ f = prevFloor + currDirn
      BY <1>5, <1>7, <2>2 DEF ArrivalAsserts, Up, Down
    <2> QED
      BY <1>6, <2>1, <2>2
  <1> QED
    BY <1>8 DEF f

\* No assertion about the cab fails, neither those of an arrival nor those about
\* the state, unless an event falls due while a command that turns the motor waits
\* (or a client asks for a reload, which elevio does not).
THEOREM NoAssertionFails ==
    ASSUME Racing = FALSE
    PROVE  DriverSpec => []AssertsHold
  <1>1. DriverCabInv /\ [DriverNext]_allVars => DriverCabInv'
    BY DriverCabKept
  <1>2. DriverCabInv => AssertsHold
    BY CabInvImpliesAsserts DEF DriverCabInv
  <1> QED
    BY DriverCabInit, <1>1, <1>2, PTL DEF DriverSpec

-----------------------------------------------------------------------------
(* The cab in its shaft *)

LEMMA ShaftBounds == TypeInv => (Cab!outOfBounds <=> isOutOfBounds)
  <1> SUFFICES ASSUME TypeInv PROVE Cab!outOfBounds <=> isOutOfBounds
    OBVIOUS
  <1>1. NumFloors \in Nat /\ NumFloors >= 2 /\ prevFloor \in 0 .. NumFloors - 1
        /\ departDirn \in {1, -1}
    BY SimulatorAssumption DEF TypeInv, Floors, Up, Down
  <1>2. CASE currFloor = Between
    <2>1. Cab!outOfBounds <=> prevFloor + departDirn \notin 0 .. NumFloors - 1
      BY <1>2 DEF Cab!outOfBounds
    <2> QED
      BY <1>1, <1>2, <2>1 DEF isOutOfBounds, outOfShaft, Up, Down
  <1>3. CASE currFloor # Between
    BY <1>1, <1>3 DEF Cab!outOfBounds, isOutOfBounds, outOfShaft, Stop
  <1> QED
    BY <1>2, <1>3

LEMMA ShaftInit == DriverInit => Cab!Init
  <1> SUFFICES ASSUME DriverInit PROVE Cab!Init
    OBVIOUS
  <1>1. TypeInv
    BY DriverCabInit DEF DriverCabInv, CabInv
  <1>2. PICK p \in Places : currFloor = p[1] /\ departDirn = p[2] /\ prevFloor = p[3]
    BY DEF DriverInit, Init
  <1>3. ~isOutOfBounds
    BY <1>2 DEF isOutOfBounds, Places
  <1> QED
    BY <1>1, <1>3, ShaftBounds
       DEF DriverInit, Init, Cab!Init, Cab!Place, TypeInv, Floors, Up, Down, Stop

\* A step that moves neither the cab nor the motor.
LEMMA ShaftStutters == UNCHANGED state => UNCHANGED Cab!vars
  BY DEF state, Cab!vars, Cab!position

LEMMA ShaftSteps ==
    ASSUME CabInv, Receive
    PROVE  [Cab!Next]_(Cab!vars)
  <1> DEFINE off == IF currFloor = Between THEN departDirn ELSE Stop
  <1>1. mailbox \in Seq(Messages) /\ TypeInv /\ (Cab!outOfBounds <=> isOutOfBounds)
    BY ShaftBounds DEF CabInv, BoxInv
  <1>2. mailbox # <<>> => Head(mailbox) \in Messages
    BY <1>1, TailPlaces
  <1>3. /\ currDirn \in {1, -1, 0} /\ departDirn \in {1, -1}
        /\ prevFloor \in Floors /\ prevFloor # Between /\ currFloor \in {prevFloor, Between}
    BY <1>1, SimulatorAssumption DEF TypeInv, Floors, Up, Down, Stop, Between
  <1>4. CASE OnMotorDirection
    <2> DEFINE md == Head(mailbox)[2]
    <2>1. md \in {1, -1, 0} /\ setMotor(md)
      BY <1>2, <1>4, Kinds DEF OnMotorDirection, received, argument, Up, Down, Stop
    <2> HIDE DEF md
    <2>2. CASE currDirn # md /\ ~isOutOfBounds
      <3>1. /\ currDirn' = md /\ currFloor' = currFloor /\ prevFloor' = prevFloor
            /\ currFloor = Between => departDirn' = departDirn
        BY <2>1, <2>2 DEF setMotor
      <3>2. Cab!SetMotor
        BY <1>1, <2>1, <2>2, <3>1 DEF Cab!SetMotor, Cab!position
      <3> QED
        BY <3>2 DEF Cab!Next
    <2>3. CASE ~(currDirn # md /\ ~isOutOfBounds)
      BY <2>1, <2>3, ShaftStutters DEF setMotor
    <2> QED
      BY <2>2, <2>3
  <1>5. CASE OnFloorArrival \/ OnFloorDeparture
    <2> DEFINE f == Head(mailbox)[2]
    <2>1. mailbox # <<>> /\ Head(mailbox) \in Events /\ mailbox' = Tail(mailbox)
      BY <1>2, <1>5, Kinds DEF OnFloorArrival, OnFloorDeparture, received
    <2>2. NextMotion = {Head(mailbox)} /\ currDirn \in {Up, Down} /\ ~isOutOfBounds
      BY <2>1, MotionAtHead
    <2>3. currDirn # 0 /\ ~Cab!outOfBounds
      BY <1>1, <2>2 DEF Up, Down
    <2>4. CASE OnFloorArrival
      <3>1. /\ Head(mailbox)[1] = "FloorArrival"
            /\ currFloor' = f /\ prevFloor' = f
            /\ currDirn' = currDirn /\ departDirn' = departDirn
        BY <2>4 DEF OnFloorArrival, received, argument
      <3>2. currFloor = Between
        BY <1>1, <2>2, <3>1, NextMotionIs DEF Up, Down, Stop
      <3>3. /\ f = IF departDirn = currDirn THEN prevFloor + currDirn ELSE prevFloor
            /\ f \in Floors
        BY <1>1, <2>2, <3>1, <3>2, NextMotionIs DEF Up, Down, Stop
      <3> HIDE DEF f
      <3>4. f # Between
        BY <3>3, SimulatorAssumption DEF Floors, Between
      <3>5. Cab!Arrive
        BY <1>3, <3>1, <3>2, <3>3, <3>4 DEF Cab!Arrive, Stop
      <3> QED
        BY <2>3, <3>1, <3>5 DEF Cab!Move, Cab!Next
    <2>5. CASE OnFloorDeparture
      <3>1. /\ Head(mailbox)[1] = "FloorDeparture"
            /\ currFloor' = Between /\ departDirn' = currDirn
            /\ currDirn' = currDirn /\ prevFloor' = prevFloor
        BY <2>5 DEF OnFloorDeparture, received
      <3>2. currFloor # Between
        BY <1>1, <2>2, <3>1, NextMotionIs DEF Up, Down, Stop
      <3>3. Cab!Depart
        BY <3>1, <3>2 DEF Cab!Depart, Stop
      <3> QED
        BY <2>3, <3>1, <3>3 DEF Cab!Move, Cab!Next
    <2> QED
      BY <1>5, <2>4, <2>5
  <1>6. CASE OnManualMoveWithinBounds
    <2>1. CASE isOutOfBounds
      <3>1. currFloor' = prevFloor /\ currDirn' = Stop /\ prevFloor' = prevFloor
        BY <1>6, <2>1 DEF OnManualMoveWithinBounds
      <3>2. Cab!MoveInbounds
        BY <1>1, <1>3, <2>1, <3>1 DEF Cab!MoveInbounds, Stop
      <3> QED
        BY <3>2 DEF Cab!Next
    <2>2. CASE ~isOutOfBounds
      BY <1>6, <2>2, ShaftStutters DEF OnManualMoveWithinBounds, state
    <2> QED
      BY <2>1, <2>2
  <1>7. CASE OnClientDisconnected
    BY <1>7, ShaftStutters DEF OnClientDisconnected
  <1> QED
    BY <1>4, <1>5, <1>6, <1>7 DEF Receive

\* Every step of the driver and the simulator is one of the cab in its shaft.
LEMMA ShaftKept ==
    ASSUME DriverCabInv, [DriverNext]_allVars
    PROVE  [Cab!Next]_(Cab!vars)
  <1>1. CASE Receive
    BY <1>1, ShaftSteps DEF DriverCabInv
  <1>2. CASE UNCHANGED state
    BY <1>2, ShaftStutters
  <1> QED
    BY <1>1, <1>2 DEF DriverNext, Write, Ask, Read, Reconnect, ServerReceives,
       ServerAnswers, OnRequest, Handle, TimedEvent, Fire, Keyboard,
       FlipObstruction, allVars, vars

\* Seen from the controller the simulator is a cab in a shaft, for any number of
\* floors: it goes from floor to floor the way the motor turns, and back to the
\* floor it left when it is turned round between two.
THEOREM ImplementsShaftSafety ==
    ASSUME Racing = FALSE
    PROVE  DriverSpec => Cab!Safety
  <1>1. DriverCabInv /\ [DriverNext]_allVars => DriverCabInv'
    BY DriverCabKept
  <1>2. DriverCabInv /\ [DriverNext]_allVars => [Cab!Next]_(Cab!vars)
    BY ShaftKept
  <1> QED
    BY DriverCabInit, ShaftInit, <1>1, <1>2, PTL DEF DriverSpec, Cab!Safety

-----------------------------------------------------------------------------
(* Questions and answers: which kinds of messages wait where *)

Has(type, box) == \E i \in 1 .. Len(box) : box[i][1] = type

Once(types, box) ==
    \A i, k \in 1 .. Len(box) : box[i][1] \in types /\ box[k][1] \in types => i = k

LEMMA HasAppend ==
    ASSUME NEW S, NEW s \in Seq(S), NEW m \in S, NEW t, t = Append(s, m), NEW type
    PROVE  Has(type, t) <=> Has(type, s) \/ m[1] = type
  BY AppendPlaces DEF Has

LEMMA HasTail ==
    ASSUME NEW S, NEW s \in Seq(S), s # <<>>, NEW t, t = Tail(s), NEW type
    PROVE  Has(type, s) <=> Has(type, t) \/ Head(s)[1] = type
  <1>1. /\ Len(s) \in Nat \ {0} /\ Head(s) = s[1]
        /\ \A i \in 1 .. Len(t) : t[i] = s[i + 1] /\ i + 1 \in 1 .. Len(s)
        /\ \A i \in 1 .. Len(s) : i = 1 \/ (i - 1 \in 1 .. Len(t) /\ s[i] = t[i - 1])
    BY TailPlaces
  <1> QED
    BY <1>1 DEF Has

LEMMA OnceAppend ==
    ASSUME NEW S, NEW s \in Seq(S), NEW m \in S, NEW t, t = Append(s, m), NEW types,
           Once(types, s), m[1] \in types => \A type \in types : ~Has(type, s)
    PROVE  Once(types, t)
  <1>1. /\ Len(s) \in Nat /\ Len(t) = Len(s) + 1 /\ t[Len(s) + 1] = m
        /\ \A i \in 1 .. Len(s) : t[i] = s[i]
    BY AppendPlaces
  <1>2. \A i \in 1 .. Len(t) : i = Len(s) + 1 \/ i \in 1 .. Len(s)
    BY <1>1
  <1> QED
    BY <1>1, <1>2 DEF Once, Has

LEMMA OnceTail ==
    ASSUME NEW S, NEW s \in Seq(S), s # <<>>, NEW t, t = Tail(s), NEW types, Once(types, s)
    PROVE  /\ Once(types, t)
           /\ Head(s)[1] \in types => \A type \in types : ~Has(type, t)
  <1>1. /\ Len(s) \in Nat \ {0} /\ Head(s) = s[1] /\ Len(t) = Len(s) - 1
        /\ \A i \in 1 .. Len(t) : t[i] = s[i + 1] /\ i + 1 \in 1 .. Len(s)
    BY TailPlaces
  <1>2. Once(types, t)
    <2> SUFFICES ASSUME NEW i \in 1 .. Len(t), NEW k \in 1 .. Len(t),
                        t[i][1] \in types, t[k][1] \in types
                 PROVE  i = k
      BY DEF Once
    <2>1. i + 1 = k + 1
      BY <1>1 DEF Once
    <2> QED
      BY <2>1
  <1>3. ASSUME Head(s)[1] \in types, NEW i \in 1 .. Len(t) PROVE t[i][1] \notin types
    <2>1. 1 \in 1 .. Len(s) /\ i + 1 # 1
      BY <1>1
    <2> QED
      BY <1>1, <1>3, <2>1 DEF Once
  <1> QED
    BY <1>2, <1>3 DEF Has

\* The client is connected when no disconnection waits anywhere.
LEMMA ConnectedIs ==
    toServer \in Seq(Sent) /\ mailbox \in Seq(Messages) =>
        (Connected <=> /\ ~Has("ClientDisconnected", toServer)
                       /\ ~Has("ClientDisconnected", mailbox))
  <1> SUFFICES ASSUME toServer \in Seq(Sent), mailbox \in Seq(Messages)
               PROVE  Connected <=> /\ ~Has("ClientDisconnected", toServer)
                                    /\ ~Has("ClientDisconnected", mailbox)
    OBVIOUS
  <1> DEFINE all == toServer \o mailbox
             k == Len(toServer)
             n == Len(mailbox)
  <1>1. toServer \in Seq(Messages)
    <2>1. \A i \in 1 .. Len(toServer) : toServer[i] \in Messages
      BY SentAreMessages, ElementOfSeq
    <2> QED
      BY <2>1, SeqDef, LenProperties
  <1>2. k \in Nat /\ n \in Nat /\ all \in Seq(Messages) /\ DOMAIN all = 1 .. k + n
        /\ \A i \in 1 .. k + n : all[i] = IF i <= k THEN toServer[i] ELSE mailbox[i - k]
    BY <1>1, ConcatProperties, LenProperties
  <1> HIDE DEF all, k, n
  <1>3. Connected <=> \A i \in 1 .. k + n : all[i][1] # "ClientDisconnected"
    BY <1>2 DEF Connected, all
  <1>4. ASSUME NEW i \in 1 .. n PROVE i + k \in 1 .. k + n /\ all[i + k] = mailbox[i]
    BY <1>2
  <1>5. ASSUME NEW i \in 1 .. k PROVE i \in 1 .. k + n /\ all[i] = toServer[i]
    BY <1>2
  <1>6. ASSUME NEW i \in 1 .. k + n
        PROVE  \/ i \in 1 .. k /\ all[i] = toServer[i]
               \/ i - k \in 1 .. n /\ all[i] = mailbox[i - k]
    BY <1>2
  <1>7. Has("ClientDisconnected", toServer)
            <=> \E i \in 1 .. k : toServer[i][1] = "ClientDisconnected"
    BY DEF Has, k
  <1>8. Has("ClientDisconnected", mailbox)
            <=> \E i \in 1 .. n : mailbox[i][1] = "ClientDisconnected"
    BY DEF Has, n
  <1> QED
    BY <1>3, <1>4, <1>5, <1>6, <1>7, <1>8

-----------------------------------------------------------------------------
(* Questions and answers: the invariant *)

Asked(box) == {q \in Questions : Has(q, box)}

\* At most one question waits in each queue, and one answer.
QueuesInv ==
    /\ toServer \in Seq(Sent) /\ mailbox \in Seq(Messages) /\ obstruction \in BOOLEAN
    /\ Once(Questions, toServer) /\ Once(Questions, mailbox)
    /\ Once({"ClientDisconnected"}, mailbox)
    /\ reply # <<>> => reply = <<Head(reply)>>
    /\ toClient # <<>> => toClient = <<Head(toClient)>>
    /\ Asked(mailbox) # {} => reply = <<>>

\* A disconnection comes after all that the old client sent, and before all that
\* the new one sends.
GoneInv ==
    /\ Has("ClientDisconnected", toServer) => ~Has("ClientDisconnected", mailbox)
    /\ \A i \in 1 .. Len(toServer) :
          toServer[i][1] = "ClientDisconnected" => i = Len(toServer)
    /\ Has("ClientDisconnected", mailbox) =>
          toServer = <<>> /\ Asked(mailbox) = {} /\ reply = <<>>
    /\ ~Connected => calling = {} /\ toClient = <<>>

\* One goroutine at most waits for an answer, and what it asked is in one place.
CallInv ==
    /\ calling \subseteq Questions
    /\ \A p, q \in calling : p = q
    /\ Connected =>
          /\ Asked(toServer) \cup Asked(mailbox) \subseteq calling
          /\ reply # <<>> \/ toClient # <<>> => calling # {}
          /\ Asked(toServer) # {} => Asked(mailbox) = {} /\ reply = <<>>
          /\ Asked(toServer) \cup Asked(mailbox) # {} => toClient = <<>>
          /\ reply # <<>> => toClient = <<>>

\* An answer, wherever it is, has been true since the question was asked.
TruthInv ==
    \A q \in calling :
        /\ sensor(q) \in truth[q]
        /\ reply # <<>> => value(q, Head(reply)) \in truth[q]
        /\ toClient # <<>> => value(q, Head(toClient)) \in truth[q]

LineInv == QueuesInv /\ GoneInv /\ CallInv /\ TruthInv

LEMMA NotedGrows ==
    ASSUME Noted, calling' \subseteq Questions
    PROVE  \A q \in calling' : sensor(q)' \in truth'[q] /\ truth[q] \subseteq truth'[q]
  BY DEF Noted

LEMMA TruthKept ==
    ASSUME TruthInv, Noted, calling \subseteq Questions, calling' \subseteq calling,
           reply' # <<>> => reply' = reply,
           toClient' # <<>> => toClient' = toClient
    PROVE  TruthInv'
  <1>1. \A q \in calling' : sensor(q)' \in truth'[q] /\ truth[q] \subseteq truth'[q]
    BY NotedGrows
  <1> QED
    BY <1>1 DEF TruthInv, value

LEMMA ConnectedNext ==
    (toServer \in Seq(Sent) /\ mailbox \in Seq(Messages) =>
        (Connected <=> /\ ~Has("ClientDisconnected", toServer)
                       /\ ~Has("ClientDisconnected", mailbox)))'
  BY ConnectedIs, PTL

\* A step of the mailbox that neither a question nor a disconnection is part of.
LEMMA MailKept ==
    ASSUME LineInv, Noted, mailbox' \in Seq(Messages), obstruction' \in BOOLEAN,
           \A type \in Questions \cup {"ClientDisconnected"} :
              Has(type, mailbox') <=> Has(type, mailbox),
           Once(Questions, mailbox'), Once({"ClientDisconnected"}, mailbox'),
           UNCHANGED <<calling, toServer, reply, toClient>>
    PROVE  LineInv'
  <1>1. Connected' <=> Connected
    BY ConnectedIs, ConnectedNext DEF LineInv, QueuesInv
  <1>2. Asked(mailbox') = Asked(mailbox) /\ Asked(toServer') = Asked(toServer)
    BY DEF Asked
  <1>3. QueuesInv'
    BY <1>2 DEF LineInv, QueuesInv
  <1>4. GoneInv'
    BY <1>1, <1>2 DEF LineInv, GoneInv
  <1>5. CallInv'
    BY <1>1, <1>2 DEF LineInv, CallInv
  <1>6. TruthInv'
    BY TruthKept DEF LineInv, CallInv
  <1> QED
    BY <1>3, <1>4, <1>5, <1>6 DEF LineInv

\* Its three cases: nothing happens, something comes, something is handled.
LEMMA MailAppendKept ==
    ASSUME LineInv, Noted, NEW m \in Messages, mailbox' = Append(mailbox, m),
           m[1] \notin Questions \cup {"ClientDisconnected"},
           UNCHANGED <<obstruction, calling, toServer, reply, toClient>>
    PROVE  LineInv'
  <1>1. mailbox \in Seq(Messages) /\ obstruction \in BOOLEAN
        /\ Once(Questions, mailbox) /\ Once({"ClientDisconnected"}, mailbox)
    BY DEF LineInv, QueuesInv
  <1>2. mailbox' \in Seq(Messages)
    BY <1>1, AppendProperties
  <1>3. \A type \in Questions \cup {"ClientDisconnected"} :
            Has(type, mailbox') <=> Has(type, mailbox)
    BY <1>1, HasAppend
  <1>4. Once(Questions, mailbox') /\ Once({"ClientDisconnected"}, mailbox')
    BY <1>1, OnceAppend
  <1> QED
    BY <1>1, <1>2, <1>3, <1>4, MailKept

LEMMA MailTailKept ==
    ASSUME LineInv, Noted, mailbox # <<>>, mailbox' = Tail(mailbox),
           Head(mailbox)[1] \notin Questions \cup {"ClientDisconnected"},
           UNCHANGED <<obstruction, calling, toServer, reply, toClient>>
    PROVE  LineInv'
  <1>1. mailbox \in Seq(Messages) /\ obstruction \in BOOLEAN
        /\ Once(Questions, mailbox) /\ Once({"ClientDisconnected"}, mailbox)
    BY DEF LineInv, QueuesInv
  <1>2. mailbox' \in Seq(Messages)
    BY <1>1, HeadTailProperties
  <1>3. \A type \in Questions \cup {"ClientDisconnected"} :
            Has(type, mailbox') <=> Has(type, mailbox)
    BY <1>1, HasTail
  <1>4. Once(Questions, mailbox') /\ Once({"ClientDisconnected"}, mailbox')
    BY <1>1, OnceTail
  <1> QED
    BY <1>1, <1>2, <1>3, <1>4, MailKept

LEMMA MailUnchangedKept ==
    ASSUME LineInv, Noted, obstruction' \in BOOLEAN,
           UNCHANGED <<mailbox, calling, toServer, reply, toClient>>
    PROVE  LineInv'
  BY MailKept DEF LineInv, QueuesInv

-----------------------------------------------------------------------------
(* Questions and answers: the client's steps *)

LEMMA WriteKeepsLine ==
    ASSUME LineInv, NEW d \in {Up, Down, Stop}, Write(d), Noted
    PROVE  LineInv'
  <1> DEFINE m == <<"MotorDirection", d>>
  <1>1. /\ calling = {} /\ Connected /\ toServer' = Append(toServer, m)
        /\ mailbox' = mailbox
        /\ UNCHANGED <<obstruction, calling, reply, toClient>>
    BY DEF Write, unlocked, vars
  <1>2. m \in Sent /\ m[1] \notin Questions /\ m[1] # "ClientDisconnected"
    BY DEF Sent, Questions
  <1> HIDE DEF m
  <1>3. toServer \in Seq(Sent) /\ mailbox \in Seq(Messages) /\ Once(Questions, toServer)
    BY DEF LineInv, QueuesInv
  <1>4. /\ toServer' \in Seq(Sent) /\ Once(Questions, toServer')
        /\ \A type : Has(type, toServer') <=> Has(type, toServer) \/ m[1] = type
    BY <1>1, <1>2, <1>3, HasAppend, OnceAppend, AppendProperties
  <1>5. /\ Connected' /\ ~Has("ClientDisconnected", toServer')
        /\ ~Has("ClientDisconnected", mailbox)
    BY <1>1, <1>2, <1>3, <1>4, ConnectedIs, ConnectedNext
  <1>6. Asked(toServer') = Asked(toServer)
    BY <1>2, <1>4 DEF Asked
  <1>7. QueuesInv'
    BY <1>1, <1>4 DEF LineInv, QueuesInv
  <1>8. GoneInv'
    BY <1>1, <1>5 DEF GoneInv, Has
  <1>9. CallInv'
    BY <1>1, <1>5, <1>6 DEF LineInv, CallInv
  <1>10. TruthInv'
    BY <1>1, TruthKept DEF LineInv, CallInv
  <1> QED
    BY <1>7, <1>8, <1>9, <1>10 DEF LineInv

LEMMA AskKeepsLine ==
    ASSUME LineInv, NEW q \in Questions, Ask(q), Noted
    PROVE  LineInv'
  <1> DEFINE m == <<q, 0>>
  <1>1. /\ calling = {} /\ Connected /\ toServer' = Append(toServer, m)
        /\ calling' = {q} /\ mailbox' = mailbox
        /\ UNCHANGED <<obstruction, reply, toClient>>
    BY DEF Ask, unlocked, vars
  <1>2. m \in Sent /\ m[1] = q /\ q # "ClientDisconnected"
    BY DEF Sent, Questions
  <1> HIDE DEF m
  <1>3. toServer \in Seq(Sent) /\ mailbox \in Seq(Messages) /\ Once(Questions, toServer)
    BY DEF LineInv, QueuesInv
  <1>4. Asked(toServer) = {} /\ Asked(mailbox) = {} /\ reply = <<>> /\ toClient = <<>>
    BY <1>1 DEF LineInv, CallInv
  <1>5. /\ toServer' \in Seq(Sent)
        /\ \A type : Has(type, toServer') <=> Has(type, toServer) \/ q = type
    BY <1>1, <1>2, <1>3, HasAppend, AppendProperties
  <1>6. Once(Questions, toServer')
    <2>1. \A type \in Questions : ~Has(type, toServer)
      BY <1>4 DEF Asked
    <2> QED
      BY <1>1, <1>2, <1>3, <2>1, OnceAppend
  <1>7. /\ Connected' /\ ~Has("ClientDisconnected", toServer')
        /\ ~Has("ClientDisconnected", mailbox)
    BY <1>1, <1>2, <1>3, <1>5, ConnectedIs, ConnectedNext
  <1>8. Asked(toServer') = {q}
    BY <1>4, <1>5 DEF Asked
  <1>9. QueuesInv'
    BY <1>1, <1>5, <1>6 DEF LineInv, QueuesInv
  <1>10. GoneInv'
    BY <1>1, <1>7 DEF GoneInv, Has
  <1>11. CallInv'
    BY <1>1, <1>4, <1>7, <1>8 DEF CallInv
  <1>12. TruthInv'
    BY <1>1, <1>4, NotedGrows DEF TruthInv
  <1> QED
    BY <1>9, <1>10, <1>11, <1>12 DEF LineInv

LEMMA ReadKeepsLine ==
    ASSUME LineInv, NEW q \in Questions, Read(q), Noted
    PROVE  LineInv'
  <1>1. /\ q \in calling /\ toClient # <<>> /\ toClient' = Tail(toClient)
        /\ calling' = calling \ {q} /\ mailbox' = mailbox
        /\ UNCHANGED <<obstruction, toServer, reply>>
    BY DEF Read, vars
  <1>2. toClient' = <<>>
    <2>1. PICK a : toClient = <<a>>
      BY <1>1 DEF LineInv, QueuesInv
    <2>2. toClient \in Seq({a}) /\ Len(toClient) = 1
      BY <2>1
    <2>3. Tail(toClient) \in Seq({a}) /\ Len(Tail(toClient)) = 0
      BY <1>1, <2>2, HeadTailProperties
    <2> QED
      BY <1>1, <2>3, EmptySeq
  <1>3. calling' = {}
    BY <1>1 DEF LineInv, CallInv
  <1>4. Connected /\ Asked(toServer) = {} /\ Asked(mailbox) = {} /\ reply = <<>>
    BY <1>1 DEF LineInv, CallInv, GoneInv
  <1>5. Connected'
    BY <1>1, <1>4, ConnectedIs, ConnectedNext DEF LineInv, QueuesInv
  <1>6. QueuesInv'
    BY <1>1, <1>2 DEF LineInv, QueuesInv
  <1>7. GoneInv'
    BY <1>1, <1>5 DEF LineInv, GoneInv
  <1>8. CallInv'
    BY <1>1, <1>2, <1>3, <1>4 DEF CallInv
  <1>9. TruthInv'
    BY <1>3 DEF TruthInv
  <1> QED
    BY <1>6, <1>7, <1>8, <1>9 DEF LineInv

LEMMA ReconnectKeepsLine ==
    ASSUME LineInv, Reconnect, Noted
    PROVE  LineInv'
  <1> DEFINE m == <<"ClientDisconnected", 0>>
  <1>1. /\ Connected /\ toServer' = Append(toServer, m)
        /\ calling' = {} /\ toClient' = <<>> /\ mailbox' = mailbox
        /\ UNCHANGED <<obstruction, reply>>
    BY DEF Reconnect, vars
  <1>2. m \in Sent /\ m[1] = "ClientDisconnected" /\ m[1] \notin Questions
    BY DEF Sent, Questions
  <1> HIDE DEF m
  <1>3. toServer \in Seq(Sent) /\ mailbox \in Seq(Messages) /\ Once(Questions, toServer)
    BY DEF LineInv, QueuesInv
  <1>4. /\ ~Has("ClientDisconnected", toServer)
        /\ ~Has("ClientDisconnected", mailbox)
    BY <1>1, <1>3, ConnectedIs
  <1>5. /\ toServer' \in Seq(Sent) /\ Once(Questions, toServer')
        /\ Has("ClientDisconnected", toServer')
    BY <1>1, <1>2, <1>3, HasAppend, OnceAppend, AppendProperties
  <1>6. ~Connected'
    BY <1>1, <1>3, <1>5, ConnectedNext
  <1>7. QueuesInv'
    BY <1>1, <1>5 DEF LineInv, QueuesInv
  <1>8. ASSUME NEW i \in 1 .. Len(toServer'), toServer'[i][1] = "ClientDisconnected"
        PROVE  i = Len(toServer')
    <2>1. i = Len(toServer) + 1 \/ (i \in 1 .. Len(toServer) /\ toServer'[i] = toServer[i])
      BY <1>1, <1>2, <1>3, AppendPlaces
    <2>2. Len(toServer') = Len(toServer) + 1
      BY <1>1, <1>2, <1>3, AppendPlaces
    <2> QED
      BY <1>4, <1>8, <2>1, <2>2 DEF Has
  <1>9. GoneInv'
    BY <1>1, <1>4, <1>6, <1>8 DEF GoneInv
  <1>10. CallInv'
    BY <1>1, <1>6 DEF CallInv
  <1>11. TruthInv'
    BY <1>1 DEF TruthInv
  <1> QED
    BY <1>7, <1>9, <1>10, <1>11 DEF LineInv

-----------------------------------------------------------------------------
(* Questions and answers: the server's steps *)

LEMMA ServerReceivesKeepsLine ==
    ASSUME LineInv, ServerReceives, Noted
    PROVE  LineInv'
  <1> DEFINE m == Head(toServer)
  <1>1. /\ ~awaiting /\ toServer # <<>> /\ toServer' = Tail(toServer)
        /\ mailbox' = Append(mailbox, m)
        /\ UNCHANGED <<obstruction, calling, reply, toClient>>
    BY DEF ServerReceives
  <1>2. /\ toServer \in Seq(Sent) /\ mailbox \in Seq(Messages) /\ Once(Questions, toServer)
        /\ Once(Questions, mailbox) /\ Once({"ClientDisconnected"}, mailbox)
    BY DEF LineInv, QueuesInv
  <1>3. reply = <<>> /\ Asked(mailbox) = {}
    <2>1. DOMAIN mailbox = 1 .. Len(mailbox)
      BY <1>2, LenProperties
    <2> QED
      BY <1>1, <2>1 DEF awaiting, Asked, Has
  <1>4. m \in Sent /\ m \in Messages
    BY <1>1, <1>2, HeadTailProperties, SentAreMessages
  <1>5. ~Has("ClientDisconnected", mailbox)
    BY <1>1 DEF LineInv, GoneInv
  <1>6. /\ toServer' \in Seq(Sent) /\ Once(Questions, toServer')
        /\ m[1] \in Questions => Asked(toServer') = {}
        /\ \A type : Has(type, toServer) <=> Has(type, toServer') \/ m[1] = type
    <2>1. /\ Once(Questions, toServer')
          /\ m[1] \in Questions => \A type \in Questions : ~Has(type, toServer')
      BY <1>1, <1>2, OnceTail
    <2>2. \A type : Has(type, toServer) <=> Has(type, toServer') \/ m[1] = type
      BY <1>1, <1>2, HasTail
    <2> QED
      BY <1>1, <1>2, <2>1, <2>2, HeadTailProperties DEF Asked
  <1> HIDE DEF m
  <1>7. /\ mailbox' \in Seq(Messages) /\ Once(Questions, mailbox')
        /\ Once({"ClientDisconnected"}, mailbox')
        /\ \A type : Has(type, mailbox') <=> Has(type, mailbox) \/ m[1] = type
    <2>1. Once(Questions, mailbox')
      <3>1. m[1] \in Questions => \A type \in Questions : ~Has(type, mailbox)
        BY <1>3 DEF Asked
      <3> QED
        BY <1>1, <1>2, <1>4, <3>1, OnceAppend
    <2>2. Once({"ClientDisconnected"}, mailbox')
      BY <1>1, <1>2, <1>4, <1>5, OnceAppend
    <2> QED
      BY <1>1, <1>2, <1>4, <2>1, <2>2, HasAppend, AppendProperties
  <1>8. Connected' <=> Connected
    BY <1>2, <1>5, <1>6, <1>7, ConnectedIs, ConnectedNext
  <1>9. /\ \A i \in 1 .. Len(toServer') :
              toServer'[i][1] = "ClientDisconnected" => i = Len(toServer')
        /\ m[1] = "ClientDisconnected" => toServer' = <<>>
    <2>1. /\ Len(toServer) \in Nat \ {0} /\ Len(toServer') = Len(toServer) - 1
          /\ m = toServer[1]
          /\ \A i \in 1 .. Len(toServer') :
                toServer'[i] = toServer[i + 1] /\ i + 1 \in 1 .. Len(toServer)
      BY <1>1, <1>2, TailPlaces DEF m
    <2>2. \A i \in 1 .. Len(toServer) :
              toServer[i][1] = "ClientDisconnected" => i = Len(toServer)
      BY DEF LineInv, GoneInv
    <2>3. \A i \in 1 .. Len(toServer') :
              toServer'[i][1] = "ClientDisconnected" => i = Len(toServer')
      BY <2>1, <2>2
    <2>4. m[1] = "ClientDisconnected" => Len(toServer') = 0
      BY <2>1, <2>2
    <2> QED
      BY <1>6, <2>3, <2>4, EmptySeq
  <1>10. Asked(mailbox') = {q \in Questions : m[1] = q}
         /\ Asked(toServer) = Asked(toServer') \cup Asked(mailbox')
    BY <1>3, <1>6, <1>7 DEF Asked
  <1>11. QueuesInv'
    BY <1>1, <1>3, <1>6, <1>7 DEF LineInv, QueuesInv
  <1>12. GoneInv'
    <2>1. m[1] = "ClientDisconnected" => Asked(mailbox') = {}
      BY <1>10 DEF Questions
    <2>2. Has("ClientDisconnected", mailbox') => m[1] = "ClientDisconnected"
      BY <1>5, <1>7
    <2>3. ~Has("ClientDisconnected", <<>>)
      BY DEF Has
    <2> QED
      BY <1>1, <1>3, <1>8, <1>9, <2>1, <2>2, <2>3 DEF LineInv, GoneInv
  <1>13. CallInv'
    <2>1. Asked(toServer') # {} => Asked(mailbox') = {}
      BY <1>6, <1>10
    <2> QED
      BY <1>1, <1>3, <1>8, <1>10, <2>1 DEF LineInv, CallInv
  <1>14. TruthInv'
    BY <1>1, TruthKept DEF LineInv, CallInv
  <1> QED
    BY <1>11, <1>12, <1>13, <1>14 DEF LineInv

LEMMA ServerAnswersKeepsLine ==
    ASSUME LineInv, ServerAnswers, Noted
    PROVE  LineInv'
  <1>1. /\ reply # <<>> /\ reply' = <<>>
        /\ toClient' = IF Connected THEN Append(toClient, Head(reply)) ELSE toClient
        /\ mailbox' = mailbox
        /\ UNCHANGED <<obstruction, calling, toServer>>
    BY DEF ServerAnswers, vars
  <1>2. Connected' <=> Connected
    BY <1>1, ConnectedIs, ConnectedNext DEF LineInv, QueuesInv
  <1>3. Connected => toClient' = <<Head(reply)>>
    BY <1>1 DEF LineInv, CallInv
  <1>4. ~Connected => toClient' = <<>> /\ calling = {}
    BY <1>1 DEF LineInv, GoneInv
  <1>5. toClient' # <<>> => toClient' = <<Head(reply)>> /\ Head(toClient') = Head(reply)
    BY <1>3, <1>4
  <1>6. QueuesInv'
    BY <1>1, <1>5 DEF LineInv, QueuesInv
  <1>7. GoneInv'
    BY <1>1, <1>2, <1>4 DEF LineInv, GoneInv
  <1>8. CallInv'
    BY <1>1, <1>2 DEF LineInv, CallInv, QueuesInv
  <1>9. TruthInv'
    <2>1. \A q \in calling' : sensor(q)' \in truth'[q] /\ truth[q] \subseteq truth'[q]
      BY <1>1, NotedGrows DEF LineInv, CallInv
    <2> QED
      BY <1>1, <1>5, <2>1 DEF LineInv, TruthInv, value
  <1> QED
    BY <1>6, <1>7, <1>8, <1>9 DEF LineInv

\* The driver makes of an answer what the sensor showed.
LEMMA AnswerIsSensor ==
    ASSUME NEW q \in Questions, obstruction \in BOOLEAN
    PROVE  value(q, bytes(q)) = sensor(q)
  BY DEF value, bytes, sensor, Questions, Between

LEMMA OnRequestKeepsLine ==
    ASSUME LineInv, OnRequest, Noted
    PROVE  LineInv'
  <1> DEFINE h == Head(mailbox)[1]
  <1>1. /\ mailbox # <<>> /\ h \in Questions /\ mailbox' = Tail(mailbox)
        /\ reply' = <<bytes(h)>>
        /\ UNCHANGED <<state, obstruction, calling, toServer, toClient>>
    BY DEF OnRequest
  <1>2. /\ mailbox \in Seq(Messages) /\ Once(Questions, mailbox) /\ obstruction \in BOOLEAN
        /\ Once({"ClientDisconnected"}, mailbox) /\ toServer \in Seq(Sent)
    BY DEF LineInv, QueuesInv
  <1>3. /\ mailbox' \in Seq(Messages) /\ Once(Questions, mailbox')
        /\ Once({"ClientDisconnected"}, mailbox') /\ Asked(mailbox') = {}
    <2>1. /\ Once(Questions, mailbox')
          /\ \A type \in Questions : ~Has(type, mailbox')
      BY <1>1, <1>2, OnceTail
    <2>2. Once({"ClientDisconnected"}, mailbox')
      BY <1>1, <1>2, OnceTail
    <2> QED
      BY <1>1, <1>2, <2>1, <2>2, HeadTailProperties DEF Asked
  <1>4. \A type : Has(type, mailbox) <=> Has(type, mailbox') \/ h = type
    BY <1>1, <1>2, HasTail
  <1> HIDE DEF h
  <1>5. h \in Asked(mailbox) /\ ~Has("ClientDisconnected", mailbox)
    <2>1. h \in Asked(mailbox)
      BY <1>1, <1>4 DEF Asked
    <2> QED
      BY <2>1 DEF LineInv, GoneInv
  <1>6. ~Has("ClientDisconnected", mailbox') /\ (Connected' <=> Connected)
    BY <1>1, <1>2, <1>3, <1>4, <1>5, ConnectedIs, ConnectedNext
  <1>7. reply' # <<>> /\ Head(reply') = bytes(h) /\ reply' = <<Head(reply')>>
    BY <1>1
  <1>8. Connected => h \in calling /\ Asked(toServer) = {} /\ toClient = <<>>
    BY <1>5 DEF LineInv, CallInv
  <1>9. QueuesInv'
    BY <1>1, <1>2, <1>3, <1>7 DEF LineInv, QueuesInv
  <1>10. GoneInv'
    BY <1>1, <1>6 DEF LineInv, GoneInv
  <1>11. CallInv'
    BY <1>1, <1>3, <1>6, <1>8 DEF LineInv, CallInv
  <1>12. TruthInv'
    <2> SUFFICES ASSUME NEW q \in calling'
                 PROVE  /\ sensor(q)' \in truth'[q]
                        /\ value(q, Head(reply')) \in truth'[q]
                        /\ toClient' = <<>>
      BY DEF TruthInv, value
    <2>1. q \in calling /\ Connected
      BY <1>1 DEF LineInv, GoneInv
    <2>2. q = h /\ toClient' = <<>>
      BY <1>1, <1>8, <2>1 DEF LineInv, CallInv
    <2>3. sensor(q) \in truth[q] /\ truth[q] \subseteq truth'[q] /\ sensor(q)' \in truth'[q]
      BY <1>1, <2>1, NotedGrows DEF LineInv, TruthInv, CallInv
    <2>4. value(q, bytes(q)) = sensor(q)
      BY <1>1, <1>2, <2>2, AnswerIsSensor
    <2> QED
      BY <1>7, <2>2, <2>3, <2>4
  <1> QED
    BY <1>9, <1>10, <1>11, <1>12 DEF LineInv

LEMMA ClientDisconnectedKeepsLine ==
    ASSUME LineInv, OnClientDisconnected, Noted,
           UNCHANGED <<obstruction, calling, toServer, reply, toClient>>
    PROVE  LineInv'
  <1> DEFINE t == Tail(mailbox)
             m == <<"MotorDirection", Stop>>
  <1>1. /\ mailbox # <<>> /\ Head(mailbox)[1] = "ClientDisconnected"
        /\ mailbox' \in {t, Append(t, m)}
    BY DEF OnClientDisconnected, received
  <1>2. /\ mailbox \in Seq(Messages) /\ toServer \in Seq(Sent) /\ obstruction \in BOOLEAN
        /\ Once(Questions, mailbox) /\ Once({"ClientDisconnected"}, mailbox)
    BY DEF LineInv, QueuesInv
  <1>3. m \in Messages /\ m[1] \notin Questions /\ m[1] # "ClientDisconnected"
    BY DEF Messages, Commands, Keys, Questions
  <1>4. /\ t \in Seq(Messages) /\ Once(Questions, t) /\ Once({"ClientDisconnected"}, t)
        /\ ~Has("ClientDisconnected", t)
        /\ \A type : Has(type, mailbox) <=> Has(type, t) \/ Head(mailbox)[1] = type
    <2>1. t \in Seq(Messages) /\ Once(Questions, t)
      BY <1>1, <1>2, OnceTail, HeadTailProperties
    <2>2. Once({"ClientDisconnected"}, t) /\ ~Has("ClientDisconnected", t)
      BY <1>1, <1>2, OnceTail
    <2>3. \A type : Has(type, mailbox) <=> Has(type, t) \/ Head(mailbox)[1] = type
      BY <1>1, <1>2, HasTail
    <2> QED
      BY <2>1, <2>2, <2>3
  <1> HIDE DEF t, m
  <1>5. Has("ClientDisconnected", mailbox)
    BY <1>1, <1>4
  <1>6. toServer = <<>> /\ Asked(mailbox) = {} /\ reply = <<>>
    BY <1>5 DEF LineInv, GoneInv
  <1>7. calling = {} /\ toClient = <<>>
    BY <1>2, <1>5, ConnectedIs DEF LineInv, GoneInv
  <1>8. \A type \in Questions : ~Has(type, t)
    BY <1>4, <1>6 DEF Asked
  <1>9. /\ mailbox' \in Seq(Messages) /\ Once(Questions, mailbox')
        /\ Once({"ClientDisconnected"}, mailbox') /\ ~Has("ClientDisconnected", mailbox')
        /\ \A type \in Questions : ~Has(type, mailbox')
    <2> DEFINE u == Append(t, m)
    <2>1. u \in Seq(Messages) /\ Once(Questions, u) /\ Once({"ClientDisconnected"}, u)
      BY <1>3, <1>4, OnceAppend, AppendProperties
    <2>2. \A type : Has(type, u) <=> Has(type, t) \/ m[1] = type
      BY <1>3, <1>4, HasAppend
    <2> HIDE DEF u
    <2>3. mailbox' = t \/ mailbox' = u
      BY <1>1 DEF u
    <2> QED
      BY <1>3, <1>4, <1>8, <2>1, <2>2, <2>3
  <1>10. Asked(mailbox') = {}
    BY <1>9 DEF Asked
  <1>11. Len(toServer') = 0 /\ ~Has("ClientDisconnected", toServer') /\ Asked(toServer') = {}
    BY <1>6 DEF Has, Asked
  <1>12. Connected'
    BY <1>2, <1>9, <1>11, ConnectedNext
  <1>13. QueuesInv'
    BY <1>9, <1>10 DEF LineInv, QueuesInv
  <1>14. GoneInv'
    BY <1>9, <1>11, <1>12 DEF GoneInv
  <1>15. CallInv'
    BY <1>6, <1>7, <1>10, <1>11 DEF CallInv
  <1>16. TruthInv'
    BY <1>7 DEF TruthInv
  <1> QED
    BY <1>13, <1>14, <1>15, <1>16 DEF LineInv

LEMMA HandleKeepsLine ==
    ASSUME LineInv, Handle, Noted
    PROVE  LineInv'
  <1>1. Receive /\ UNCHANGED <<obstruction, calling, toServer, reply, toClient>>
    BY DEF Handle, stream
  <1>2. CASE OnClientDisconnected
    BY <1>1, <1>2, ClientDisconnectedKeepsLine
  <1>3. CASE OnMotorDirection
    BY <1>1, <1>3, MailTailKept DEF OnMotorDirection, received, Questions
  <1>4. CASE OnFloorArrival
    BY <1>1, <1>4, MailTailKept DEF OnFloorArrival, received, Questions
  <1>5. CASE OnFloorDeparture
    BY <1>1, <1>5, MailTailKept DEF OnFloorDeparture, received, Questions
  <1>6. CASE OnManualMoveWithinBounds
    BY <1>1, <1>6, MailTailKept DEF OnManualMoveWithinBounds, received, Questions
  <1> QED
    BY <1>1, <1>2, <1>3, <1>4, <1>5, <1>6 DEF Receive

LEMMA LineKept == LineInv /\ [DriverNext]_allVars => LineInv'
  <1> SUFFICES ASSUME LineInv, [DriverNext]_allVars PROVE LineInv'
    OBVIOUS
  <1>1. CASE UNCHANGED allVars
    <2>1. UNCHANGED <<toServer, mailbox, obstruction, reply, toClient, calling, truth, currFloor>>
      BY <1>1 DEF allVars, vars, client, stream, state
    <2>2. Connected' <=> Connected
      BY <2>1 DEF Connected
    <2> QED
      BY <2>1, <2>2 DEF LineInv, QueuesInv, GoneInv, CallInv, TruthInv, Asked, sensor, value
  <1>2. CASE DriverNext
    <2>1. Noted
      BY <1>2 DEF DriverNext
    <2>2. ASSUME NEW d \in {Up, Down, Stop}, Write(d) PROVE LineInv'
      BY <2>1, <2>2, WriteKeepsLine
    <2>3. ASSUME NEW q \in Questions, Ask(q) \/ Read(q) PROVE LineInv'
      BY <2>1, <2>3, AskKeepsLine, ReadKeepsLine
    <2>4. CASE Reconnect
      BY <2>1, <2>4, ReconnectKeepsLine
    <2>5. CASE ServerReceives \/ ServerAnswers \/ OnRequest \/ Handle
      BY <2>1, <2>5, ServerReceivesKeepsLine, ServerAnswersKeepsLine, OnRequestKeepsLine,
         HandleKeepsLine
    <2>6. CASE TimedEvent
      <3>1. PICK e \in Events : mailbox' = Append(mailbox, e)
        BY <2>6 DEF TimedEvent, Fire
      <3>2. e \in Messages /\ e[1] \notin Questions \cup {"ClientDisconnected"}
        BY DEF Messages, Events, Questions
      <3> QED
        BY <2>1, <2>6, <3>1, <3>2, MailAppendKept DEF TimedEvent, stream
    <2>7. CASE Keyboard
      <3>1. PICK key \in Keys : mailbox' = Append(mailbox, key)
        BY <2>7 DEF Keyboard
      <3>2. key \in Messages /\ key[1] \notin Questions \cup {"ClientDisconnected"}
        BY DEF Messages, Commands, Keys, Questions
      <3> QED
        BY <2>1, <2>7, <3>1, <3>2, MailAppendKept DEF Keyboard, stream
    <2>8. CASE FlipObstruction
      BY <2>1, <2>8, MailUnchangedKept DEF FlipObstruction, vars, stream
    <2> QED
      BY <1>2, <2>2, <2>3, <2>4, <2>5, <2>6, <2>7, <2>8 DEF DriverNext
  <1> QED
    BY <1>1, <1>2

LEMMA LineInit == DriverInit => LineInv
  <1> SUFFICES ASSUME DriverInit PROVE LineInv
    OBVIOUS
  <1>1. /\ mailbox = <<>> /\ toServer = <<>> /\ reply = <<>> /\ toClient = <<>>
        /\ calling = {} /\ obstruction = FALSE
    BY DEF DriverInit, Init
  <1>2. /\ toServer \in Seq(Sent) /\ mailbox \in Seq(Messages)
        /\ Len(toServer) = 0 /\ Len(mailbox) = 0
    BY <1>1, EmptySeq
  <1>3. \A type : ~Has(type, toServer) /\ ~Has(type, mailbox)
    BY <1>2 DEF Has
  <1>4. Connected
    BY <1>2, <1>3, ConnectedIs
  <1>5. Asked(toServer) = {} /\ Asked(mailbox) = {}
    BY <1>3 DEF Asked
  <1>6. QueuesInv
    <2>1. /\ Once(Questions, toServer) /\ Once(Questions, mailbox)
          /\ Once({"ClientDisconnected"}, mailbox)
      BY <1>2 DEF Once
    <2> QED
      BY <1>1, <1>2, <1>5, <2>1 DEF QueuesInv
  <1>7. GoneInv /\ CallInv /\ TruthInv
    BY <1>1, <1>2, <1>3, <1>4, <1>5 DEF GoneInv, CallInv, TruthInv
  <1> QED
    BY <1>6, <1>7 DEF LineInv

\* Every goroutine gets the answer to its own question, and one that was true at
\* some moment while it waited, whatever falls due, is typed or disconnected.
THEOREM AnswersWereTrue == DriverSpec => []AnswerWasTrue
  <1>1. LineInv => AnswerWasTrue
    BY DEF LineInv, TruthInv, AnswerWasTrue
  <1> QED
    BY LineInit, LineKept, <1>1, PTL DEF DriverSpec

-----------------------------------------------------------------------------
(* The motor: commands under way *)

\* What turns the motor once it is handled, and whether it is told to turn d.
turning(m) ==
    m[1] = "MotorDirection" \/ (StopMotorOnDisconnect /\ m[1] = "ClientDisconnected")
tells(m, d) ==
    \/ m[1] = "MotorDirection" /\ m[2] = d
    \/ m[1] = "ClientDisconnected" /\ d = Stop

\* The operator's way back into the shaft stops the motor too.
touching(m) == turning(m) \/ m[1] = "ManualMoveWithinBounds"

Quiet(box) == \A i \in 1 .. Len(box) : ~turning(box[i])

\* The last message in a queue that has to do with the motor tells it to turn d.
LastTells(box, d) ==
    \A i \in 1 .. Len(box) :
        touching(box[i]) =>
            tells(box[i], d) \/ \E k \in 1 .. Len(box) : i < k /\ turning(box[k])

Obeyed == currDirn = written \/ isOutOfBounds \/ overruled

ObeysInv ==
    /\ LastTells(toServer, written)
    /\ Quiet(toServer) => LastTells(mailbox, written) \/ overruled
    /\ Quiet(toServer) /\ Quiet(mailbox) => Obeyed
    /\ /\ StopMotorOnDisconnect
       /\ Has("ClientDisconnected", toServer) \/ Has("ClientDisconnected", mailbox)
       => written = Stop

LEMMA CommandAppended ==
    ASSUME NEW S, NEW s \in Seq(S), NEW m \in S, NEW t, t = Append(s, m), NEW d
    PROVE  /\ Quiet(t) <=> Quiet(s) /\ ~turning(m)
           /\ turning(m) /\ tells(m, d) => LastTells(t, d)
           /\ ~touching(m) /\ LastTells(s, d) => LastTells(t, d)
  <1>1. /\ Len(s) \in Nat /\ Len(t) = Len(s) + 1 /\ t[Len(s) + 1] = m
        /\ \A i \in 1 .. Len(s) : t[i] = s[i]
    BY AppendPlaces
  <1>2. \A i \in 1 .. Len(t) : i = Len(s) + 1 \/ (i \in 1 .. Len(s) /\ i < Len(s) + 1)
    BY <1>1
  <1>3. /\ Len(s) + 1 \in 1 .. Len(t)
        /\ \A i \in 1 .. Len(s) : i \in 1 .. Len(t)
    BY <1>1
  <1> HIDE DEF turning, tells, touching
  <1>4. Quiet(t) <=> Quiet(s) /\ ~turning(m)
    BY <1>1, <1>2, <1>3 DEF Quiet
  <1>5. turning(m) /\ tells(m, d) => LastTells(t, d)
    BY <1>1, <1>2, <1>3 DEF LastTells
  <1>6. ~touching(m) /\ LastTells(s, d) => LastTells(t, d)
    BY <1>1, <1>2, <1>3 DEF LastTells
  <1> QED
    BY <1>4, <1>5, <1>6

LEMMA CommandTaken ==
    ASSUME NEW S, NEW s \in Seq(S), s # <<>>, NEW t, t = Tail(s), NEW d
    PROVE  /\ Quiet(s) <=> Quiet(t) /\ ~turning(Head(s))
           /\ LastTells(s, d) => LastTells(t, d)
           /\ LastTells(s, d) /\ Quiet(t) /\ touching(Head(s)) => tells(Head(s), d)
  <1>1. /\ Len(s) \in Nat \ {0} /\ Head(s) = s[1] /\ Len(t) \in Nat
        /\ \A i \in 1 .. Len(t) : t[i] = s[i + 1] /\ i + 1 \in 1 .. Len(s)
        /\ \A i \in 1 .. Len(s) : i = 1 \/ (i - 1 \in 1 .. Len(t) /\ s[i] = t[i - 1])
    BY TailPlaces
  <1>2. 1 \in 1 .. Len(s)
    BY <1>1
  <1> HIDE DEF turning, tells, touching
  <1>3. Quiet(s) <=> Quiet(t) /\ ~turning(Head(s))
    BY <1>1, <1>2 DEF Quiet
  <1>4. ASSUME LastTells(s, d), NEW i \in 1 .. Len(t), touching(t[i]), ~tells(t[i], d)
        PROVE  \E k \in 1 .. Len(t) : i < k /\ turning(t[k])
    <2>1. PICK k \in 1 .. Len(s) : i + 1 < k /\ turning(s[k])
      BY <1>1, <1>4 DEF LastTells
    <2>2. k - 1 \in 1 .. Len(t) /\ s[k] = t[k - 1] /\ i < k - 1
      BY <1>1, <2>1
    <2> QED
      BY <2>1, <2>2
  <1>5. ASSUME LastTells(s, d), Quiet(t), touching(Head(s)), ~tells(Head(s), d)
        PROVE  FALSE
    <2>1. PICK k \in 1 .. Len(s) : 1 < k /\ turning(s[k])
      BY <1>1, <1>2, <1>5 DEF LastTells
    <2>2. k - 1 \in 1 .. Len(t) /\ s[k] = t[k - 1]
      BY <1>1, <2>1
    <2> QED
      BY <1>5, <2>1, <2>2 DEF Quiet
  <1> QED
    BY <1>3, <1>4, <1>5 DEF LastTells

-----------------------------------------------------------------------------
(* The motor: what keeps the invariant *)

\* A message that has nothing to do with the motor comes into the mailbox.
LEMMA OtherMailKeepsObeys ==
    ASSUME ObeysInv, mailbox \in Seq(Messages), NEW m \in Messages,
           mailbox' = Append(mailbox, m), ~touching(m), m[1] # "ClientDisconnected",
           UNCHANGED <<state, toServer, written, overruled>>
    PROVE  ObeysInv'
  <1>1. /\ Quiet(mailbox') <=> Quiet(mailbox)
        /\ LastTells(mailbox, written) => LastTells(mailbox', written)
        /\ Has("ClientDisconnected", mailbox') <=> Has("ClientDisconnected", mailbox)
    BY CommandAppended, HasAppend DEF touching
  <1>2. Obeyed' <=> Obeyed
    BY DEF Obeyed, state, isOutOfBounds
  <1> QED
    BY <1>1, <1>2 DEF ObeysInv

\* A message that does not turn the motor is handled.
LEMMA OtherHandledKeepsObeys ==
    ASSUME ObeysInv, mailbox \in Seq(Messages), mailbox # <<>>, mailbox' = Tail(mailbox),
           ~turning(Head(mailbox)), Obeyed => Obeyed', overruled => overruled',
           UNCHANGED <<toServer, written>>
    PROVE  ObeysInv'
  <1>1. /\ Quiet(mailbox) <=> Quiet(mailbox')
        /\ LastTells(mailbox, written) => LastTells(mailbox', written)
        /\ Has("ClientDisconnected", mailbox') => Has("ClientDisconnected", mailbox)
    BY CommandTaken, HasTail
  <1> QED
    BY <1>1 DEF ObeysInv

\* The client sends something.
LEMMA SendKeepsObeys ==
    ASSUME ObeysInv, toServer \in Seq(Sent), NEW m \in Sent, toServer' = Append(toServer, m),
           \/ turning(m) /\ tells(m, written')
           \/ ~touching(m) /\ written' = written,
           m[1] = "ClientDisconnected" /\ StopMotorOnDisconnect => written' = Stop,
           m[1] # "ClientDisconnected" =>
              \/ written' = written
              \/ /\ ~Has("ClientDisconnected", toServer)
                 /\ ~Has("ClientDisconnected", mailbox),
           UNCHANGED <<state, mailbox, overruled>>
    PROVE  ObeysInv'
  <1>1. /\ Quiet(toServer') <=> Quiet(toServer) /\ ~turning(m)
        /\ turning(m) /\ tells(m, written') => LastTells(toServer', written')
        /\ ~touching(m) /\ LastTells(toServer, written') => LastTells(toServer', written')
        /\ Has("ClientDisconnected", toServer')
              <=> Has("ClientDisconnected", toServer) \/ m[1] = "ClientDisconnected"
    BY CommandAppended, HasAppend
  <1>2. CASE turning(m) /\ tells(m, written')
    BY <1>1, <1>2 DEF ObeysInv
  <1>3. CASE ~touching(m) /\ written' = written
    <2>1. Obeyed' <=> Obeyed
      BY <1>3 DEF Obeyed, state, isOutOfBounds
    <2> QED
      BY <1>1, <1>3, <2>1 DEF ObeysInv, touching
  <1> QED
    BY <1>2, <1>3

-----------------------------------------------------------------------------
(* The motor: the steps *)

LEMMA ServerReceivesKeepsObeys ==
    ASSUME ObeysInv, ServerReceives, toServer \in Seq(Sent), mailbox \in Seq(Messages)
    PROVE  ObeysInv'
  <1> DEFINE m == Head(toServer)
  <1>1. /\ toServer # <<>> /\ toServer' = Tail(toServer) /\ mailbox' = Append(mailbox, m)
        /\ overruled' = (overruled /\ m[1] # "MotorDirection")
        /\ UNCHANGED <<state, written>>
    BY DEF ServerReceives
  <1>2. m \in Sent /\ m \in Messages
    BY <1>1, HeadTailProperties, SentAreMessages
  <1>3. /\ Quiet(toServer) <=> Quiet(toServer') /\ ~turning(m)
        /\ LastTells(toServer, written) => LastTells(toServer', written)
        /\ LastTells(toServer, written) /\ Quiet(toServer') /\ touching(m)
              => tells(m, written)
    BY <1>1, CommandTaken
  <1>4. Has("ClientDisconnected", toServer)
            <=> Has("ClientDisconnected", toServer') \/ m[1] = "ClientDisconnected"
    BY <1>1, HasTail
  <1> HIDE DEF m
  <1>5. /\ Quiet(mailbox') <=> Quiet(mailbox) /\ ~turning(m)
        /\ turning(m) /\ tells(m, written) => LastTells(mailbox', written)
        /\ ~touching(m) /\ LastTells(mailbox, written) => LastTells(mailbox', written)
        /\ Has("ClientDisconnected", mailbox')
              <=> Has("ClientDisconnected", mailbox) \/ m[1] = "ClientDisconnected"
    BY <1>1, <1>2, CommandAppended, HasAppend
  <1>6. CASE turning(m)
    BY <1>1, <1>3, <1>4, <1>5, <1>6 DEF ObeysInv, touching
  <1>7. CASE ~turning(m)
    <2>1. ~touching(m) /\ m[1] # "MotorDirection"
      BY <1>2, <1>7 DEF Sent, Questions, touching, turning
    <2>2. (overruled' <=> overruled) /\ (Obeyed' <=> Obeyed)
      BY <1>1, <2>1 DEF Obeyed, state, isOutOfBounds
    <2> QED
      BY <1>1, <1>3, <1>4, <1>5, <1>7, <2>1, <2>2 DEF ObeysInv
  <1> QED
    BY <1>6, <1>7

LEMMA MotorDirectionKeepsObeys ==
    ASSUME ObeysInv, OnMotorDirection, mailbox \in Seq(Messages),
           UNCHANGED <<toServer, written>>, overruled' <=> overruled
    PROVE  ObeysInv'
  <1> DEFINE h == Head(mailbox)
  <1>1. /\ mailbox # <<>> /\ h[1] = "MotorDirection" /\ mailbox' = Tail(mailbox)
        /\ setMotor(h[2])
    BY DEF OnMotorDirection, received, argument
  <1>2. /\ Quiet(mailbox) <=> Quiet(mailbox') /\ ~turning(h)
        /\ LastTells(mailbox, written) => LastTells(mailbox', written)
        /\ LastTells(mailbox, written) /\ Quiet(mailbox') /\ touching(h)
              => tells(h, written)
        /\ Has("ClientDisconnected", mailbox') => Has("ClientDisconnected", mailbox)
    BY <1>1, CommandTaken, HasTail
  <1> HIDE DEF h
  <1>3. touching(h) /\ (tells(h, written) => h[2] = written)
    BY <1>1 DEF turning, touching, tells
  <1>4. h[2] = written => Obeyed'
    BY <1>1 DEF setMotor, Obeyed, state, isOutOfBounds
  <1>5. overruled => Obeyed'
    BY DEF Obeyed
  <1> QED
    BY <1>2, <1>3, <1>4, <1>5 DEF ObeysInv

LEMMA ClientDisconnectedKeepsObeys ==
    ASSUME ObeysInv, OnClientDisconnected, mailbox \in Seq(Messages),
           UNCHANGED <<toServer, written>>,
           ~StopMotorOnDisconnect => (overruled' <=> overruled)
    PROVE  ObeysInv'
  <1> DEFINE t == Tail(mailbox)
             m == <<"MotorDirection", Stop>>
  <1>1. /\ mailbox # <<>> /\ Head(mailbox)[1] = "ClientDisconnected"
        /\ mailbox' = IF StopMotorOnDisconnect THEN Append(t, m) ELSE t
        /\ UNCHANGED state
    BY DEF OnClientDisconnected, received
  <1>2. m \in Messages /\ turning(m) /\ tells(m, Stop) /\ m[1] # "ClientDisconnected"
    BY DEF Messages, Commands, Keys, turning, tells
  <1> HIDE DEF m
  <1>3. CASE StopMotorOnDisconnect
    <2>1. t \in Seq(Messages)
      BY <1>1, HeadTailProperties
    <2>2. Has("ClientDisconnected", mailbox)
      BY <1>1, HasTail
    <2>3. Has("ClientDisconnected", t) => Has("ClientDisconnected", mailbox)
      BY <1>1, HasTail
    <2> HIDE DEF t
    <2>4. written = Stop
      BY <1>3, <2>2 DEF ObeysInv
    <2>5. ~Quiet(mailbox') /\ LastTells(mailbox', written)
      BY <1>1, <1>2, <1>3, <2>1, <2>4, CommandAppended
    <2> QED
      BY <2>4, <2>5 DEF ObeysInv
  <1>4. CASE ~StopMotorOnDisconnect
    <2>1. ~turning(Head(mailbox))
      BY <1>1, <1>4 DEF turning
    <2>2. Obeyed' <=> Obeyed
      BY <1>1, <1>4 DEF Obeyed, state, isOutOfBounds
    <2> QED
      BY <1>1, <1>4, <2>1, <2>2, OtherHandledKeepsObeys
  <1> QED
    BY <1>3, <1>4

\* The operator's way back into the shaft: after a command that still waits, or
\* with the cab overruled.
LEMMA ManualMoveKeepsObeys ==
    ASSUME ObeysInv, OnManualMoveWithinBounds, mailbox \in Seq(Messages),
           UNCHANGED <<toServer, written>>, overruled' <=> overruled
    PROVE  ObeysInv'
  <1> DEFINE h == Head(mailbox)
  <1>1. mailbox # <<>> /\ h[1] = "ManualMoveWithinBounds" /\ mailbox' = Tail(mailbox)
    BY DEF OnManualMoveWithinBounds, received
  <1>2. /\ LastTells(mailbox, written) => LastTells(mailbox', written)
        /\ LastTells(mailbox, written) /\ Quiet(mailbox') /\ touching(h)
              => tells(h, written)
        /\ Has("ClientDisconnected", mailbox') => Has("ClientDisconnected", mailbox)
    BY <1>1, CommandTaken, HasTail
  <1> HIDE DEF h
  <1>3. touching(h) /\ ~tells(h, written)
    BY <1>1 DEF touching, tells
  <1>4. overruled => Obeyed'
    BY DEF Obeyed
  <1> QED
    BY <1>2, <1>3, <1>4 DEF ObeysInv

LEMMA HandleKeepsObeys ==
    ASSUME ObeysInv, CabInv, Handle
    PROVE  ObeysInv'
  <1>1. /\ Receive /\ UNCHANGED <<toServer, written>>
        /\ overruled' = (overruled /\ ~(StopMotorOnDisconnect /\ received("ClientDisconnected")))
    BY DEF Handle, stream
  <1>2. mailbox \in Seq(Messages)
    BY DEF CabInv, BoxInv
  <1>3. CASE OnMotorDirection
    <2>1. overruled' <=> overruled
      BY <1>1, <1>3 DEF OnMotorDirection, received
    <2> QED
      BY <1>1, <1>2, <1>3, <2>1, MotorDirectionKeepsObeys
  <1>4. CASE OnFloorArrival \/ OnFloorDeparture
    <2>1. mailbox # <<>> /\ mailbox' = Tail(mailbox) /\ currDirn' = currDirn
          /\ Head(mailbox)[1] \in {"FloorArrival", "FloorDeparture"}
      BY <1>4 DEF OnFloorArrival, OnFloorDeparture, received
    <2>2. Head(mailbox) \in Events
      BY <1>2, <2>1, TailPlaces, Kinds
    <2>3. ~isOutOfBounds
      BY <2>1, <2>2, MotionAtHead
    <2>4. overruled' <=> overruled
      BY <1>1, <2>1 DEF received
    <2>5. Obeyed => Obeyed'
      BY <1>1, <2>1, <2>3, <2>4 DEF Obeyed
    <2>6. ~turning(Head(mailbox))
      BY <2>1 DEF turning
    <2> QED
      BY <1>1, <1>2, <2>1, <2>4, <2>5, <2>6, OtherHandledKeepsObeys
  <1>5. CASE OnManualMoveWithinBounds
    <2>1. overruled' <=> overruled
      BY <1>1, <1>5 DEF OnManualMoveWithinBounds, received
    <2> QED
      BY <1>1, <1>2, <1>5, <2>1, ManualMoveKeepsObeys
  <1>6. CASE OnClientDisconnected
    <2>1. ~StopMotorOnDisconnect => (overruled' <=> overruled)
      BY <1>1
    <2> QED
      BY <1>1, <1>2, <1>6, <2>1, ClientDisconnectedKeepsObeys
  <1> QED
    BY <1>1, <1>3, <1>4, <1>5, <1>6 DEF Receive

LEMMA ObeysKept ==
    ASSUME ObeysInv, DriverCabInv, [DriverNext]_allVars
    PROVE  ObeysInv'
  <1>1. mailbox \in Seq(Messages) /\ toServer \in Seq(Sent)
    BY DEF DriverCabInv, CabInv, BoxInv
  <1>2. ASSUME NEW d \in {Up, Down, Stop}, Write(d) PROVE ObeysInv'
    <2> DEFINE m == <<"MotorDirection", d>>
    <2>1. m \in Sent /\ turning(m) /\ tells(m, d) /\ m[1] # "ClientDisconnected"
      BY DEF Sent, turning, tells
    <2>2. toServer' = Append(toServer, m) /\ written' = d
          /\ UNCHANGED <<state, mailbox, overruled>>
          /\ Connected
      BY <1>2 DEF Write, vars
    <2> HIDE DEF m
    <2>3. /\ ~Has("ClientDisconnected", toServer)
          /\ ~Has("ClientDisconnected", mailbox)
      BY <1>1, <2>2, ConnectedIs
    <2> QED
      BY <1>1, <2>1, <2>2, <2>3, SendKeepsObeys
  <1>3. ASSUME NEW q \in Questions, Ask(q) PROVE ObeysInv'
    <2> DEFINE m == <<q, 0>>
    <2>1. m \in Sent /\ ~touching(m) /\ m[1] # "ClientDisconnected"
      BY DEF Sent, Questions, turning, touching
    <2>2. toServer' = Append(toServer, m) /\ UNCHANGED <<state, mailbox, written, overruled>>
      BY <1>3 DEF Ask, vars
    <2> HIDE DEF m
    <2> QED
      BY <1>1, <2>1, <2>2, SendKeepsObeys
  <1>4. CASE Reconnect
    <2> DEFINE m == <<"ClientDisconnected", 0>>
    <2>1. /\ m \in Sent /\ m[1] = "ClientDisconnected" /\ tells(m, Stop)
          /\ turning(m) <=> StopMotorOnDisconnect
          /\ touching(m) <=> turning(m)
      BY DEF Sent, turning, touching, tells
    <2>2. /\ toServer' = Append(toServer, m) /\ UNCHANGED <<state, mailbox, overruled>>
          /\ written' = IF StopMotorOnDisconnect THEN Stop ELSE written
      BY <1>4 DEF Reconnect, vars
    <2> HIDE DEF m
    <2>3. CASE StopMotorOnDisconnect
      BY <1>1, <2>1, <2>2, <2>3, SendKeepsObeys
    <2>4. CASE ~StopMotorOnDisconnect
      BY <1>1, <2>1, <2>2, <2>4, SendKeepsObeys
    <2> QED
      BY <2>3, <2>4
  <1>5. CASE ServerReceives
    BY <1>1, <1>5, ServerReceivesKeepsObeys
  <1>6. CASE OnRequest
    <2>1. /\ mailbox # <<>> /\ Head(mailbox)[1] \in Questions /\ mailbox' = Tail(mailbox)
          /\ UNCHANGED <<state, toServer, written, overruled>>
      BY <1>6 DEF OnRequest
    <2>2. ~turning(Head(mailbox))
      BY <2>1 DEF turning, Questions
    <2>3. Obeyed' <=> Obeyed
      BY <2>1 DEF Obeyed, state, isOutOfBounds
    <2> QED
      BY <1>1, <2>1, <2>2, <2>3, OtherHandledKeepsObeys
  <1>7. CASE Handle
    BY <1>7, HandleKeepsObeys DEF DriverCabInv
  <1>8. CASE TimedEvent
    <2>1. PICK e \in Events : mailbox' = Append(mailbox, e)
      BY <1>8 DEF TimedEvent, Fire
    <2>2. e \in Messages /\ ~touching(e) /\ e[1] # "ClientDisconnected"
      BY DEF Messages, Events, turning, touching
    <2>3. UNCHANGED <<state, toServer, written, overruled>>
      BY <1>8 DEF TimedEvent, Fire, stream
    <2> QED
      BY <1>1, <2>1, <2>2, <2>3, OtherMailKeepsObeys
  <1>9. CASE Keyboard
    <2>1. PICK key \in Keys : mailbox' = Append(mailbox, key)
      BY <1>9 DEF Keyboard
    <2>2. key \in Messages /\ key[1] # "ClientDisconnected"
      BY DEF Messages, Commands, Keys
    <2>3. Has("ClientDisconnected", mailbox') <=> Has("ClientDisconnected", mailbox)
      BY <1>1, <2>1, <2>2, HasAppend
    <2>4. overruled' /\ Obeyed' /\ UNCHANGED <<toServer, written>>
      BY <1>9 DEF Keyboard, stream, Obeyed
    <2> QED
      BY <2>3, <2>4 DEF ObeysInv
  <1>10. ASSUME UNCHANGED <<state, mailbox, toServer, written, overruled>> PROVE ObeysInv'
    <2>1. Obeyed' <=> Obeyed
      BY <1>10 DEF Obeyed, state, isOutOfBounds
    <2> QED
      BY <1>10, <2>1 DEF ObeysInv
  <1>11. ASSUME NEW q \in Questions, Read(q) PROVE ObeysInv'
    BY <1>10, <1>11 DEF Read, vars
  <1>12. CASE ServerAnswers \/ FlipObstruction \/ UNCHANGED allVars
    BY <1>10, <1>12 DEF ServerAnswers, FlipObstruction, allVars, vars, client, stream
  <1> QED
    BY <1>2, <1>3, <1>4, <1>5, <1>6, <1>7, <1>8, <1>9, <1>11, <1>12 DEF DriverNext

LEMMA ObeysInit == DriverInit => ObeysInv
  <1> SUFFICES ASSUME DriverInit PROVE ObeysInv
    OBVIOUS
  <1>1. mailbox = <<>> /\ toServer = <<>> /\ currDirn = Stop /\ written = Stop
    BY DEF DriverInit, Init
  <1>2. Len(mailbox) = 0 /\ Len(toServer) = 0
    BY <1>1
  <1> QED
    BY <1>1, <1>2 DEF ObeysInv, LastTells, Has, Obeyed

LEMMA ObeysInvImpliesMotorObeys == ObeysInv /\ DriverCabInv => MotorObeys
  <1> SUFFICES ASSUME ObeysInv, DriverCabInv, toServer = <<>>,
                      \A i \in DOMAIN mailbox :
                         mailbox[i][1] \notin {"MotorDirection", "ClientDisconnected"}
               PROVE  Obeyed
    BY DEF MotorObeys, Obeyed
  <1>1. DOMAIN mailbox = 1 .. Len(mailbox) /\ Len(toServer) = 0
    BY LenProperties DEF DriverCabInv, CabInv, BoxInv
  <1>2. Quiet(toServer) /\ Quiet(mailbox)
    BY <1>1 DEF Quiet, turning
  <1> QED
    BY <1>2 DEF ObeysInv

\* Whatever questions, timed events, disconnections and keys of the operator come
\* between its commands, the motor ends up doing what it was told last, unless the
\* cab has left the shaft or the operator has used the keys after that command.
THEOREM MotorObeysLastCommand ==
    ASSUME Racing = FALSE
    PROVE  DriverSpec => []MotorObeys
  <1>1. DriverCabInv /\ [DriverNext]_allVars => DriverCabInv'
    BY DriverCabKept
  <1>2. ObeysInv /\ DriverCabInv /\ [DriverNext]_allVars => ObeysInv'
    BY ObeysKept
  <1> QED
    BY DriverCabInit, ObeysInit, ObeysInvImpliesMotorObeys, <1>1, <1>2, PTL DEF DriverSpec
================================================================================
