------------------------------ MODULE PairsProofs ------------------------------
(***************************************************************************)
(* What holds of Pairs for every heartbeat, timeout, limit and lateness    *)
(* that PairsAssumption allows, and for any number of processes.           *)
(***************************************************************************)
EXTENDS Pairs, FiniteSetTheorems, SequenceTheorems, TLAPS

(***************************************************************************)
(* Sequences of numbers that rise: what heartbeats that are numbered, sent *)
(* in order and read in order look like on their way.                      *)
(***************************************************************************)
\* Each element is above low and all before it, and none is above high.
Rising(s, low, high) ==
    /\ \A i \in 1 .. Len(s) : low < s[i] /\ s[i] <= high
    /\ \A i, k \in 1 .. Len(s) : k < i => s[k] < s[i]

LEMMA RisingAppend ==
    ASSUME NEW s \in Seq(Nat), NEW low \in Nat, NEW high \in Nat,
           NEW e \in Nat, low <= high, high < e, Rising(s, low, high)
    PROVE  /\ Rising(Append(s, e), low, e)
           /\ Append(s, e) \in Seq(Nat) /\ Append(s, e) # <<>>
           /\ Len(Append(s, e)) \in Nat /\ Append(s, e)[Len(Append(s, e))] = e
  <1> DEFINE t == Append(s, e)
  <1>1. /\ Len(t) = Len(s) + 1 /\ Len(s) \in Nat /\ t \in Seq(Nat) /\ t # <<>>
        /\ \A i \in 1 .. Len(s) : t[i] = s[i] /\ s[i] \in Nat
        /\ t[Len(s) + 1] = e
    BY AppendProperties, LenProperties, ElementOfSeq
  <1> HIDE DEF t
  <1>2. \A i \in 1 .. Len(t) : i \in 1 .. Len(s) \/ i = Len(s) + 1
    BY <1>1
  <1>3. ASSUME NEW i \in 1 .. Len(t)
        PROVE  low < t[i] /\ t[i] <= e
    <2>1. CASE i \in 1 .. Len(s)
      <3>1. t[i] \in Nat /\ low < t[i] /\ t[i] <= high
        BY <1>1, <2>1 DEF Rising
      <3> QED
        BY <3>1
    <2>2. CASE i = Len(s) + 1
      BY <1>1, <2>2
    <2> QED
      BY <1>2, <2>1, <2>2
  <1>4. ASSUME NEW i \in 1 .. Len(t), NEW k \in 1 .. Len(t), k < i
        PROVE  t[k] < t[i]
    <2>1. k \in 1 .. Len(s)
      BY <1>1, <1>4
    <2>2. CASE i \in 1 .. Len(s)
      BY <1>1, <1>4, <2>1, <2>2 DEF Rising
    <2>3. CASE i = Len(s) + 1
      <3>1. t[k] \in Nat /\ t[k] <= high /\ t[i] = e
        BY <1>1, <2>1, <2>3 DEF Rising
      <3> QED
        BY <3>1
    <2> QED
      BY <1>2, <2>2, <2>3
  <1> QED
    BY <1>1, <1>3, <1>4 DEF t, Rising

LEMMA RisingTail ==
    ASSUME NEW s \in Seq(Nat), NEW low \in Nat, NEW high \in Nat,
           s # <<>>, Rising(s, low, high)
    PROVE  /\ low < Head(s) /\ Head(s) <= high /\ Head(s) \in Nat
           /\ Tail(s) \in Seq(Nat) /\ Rising(Tail(s), Head(s), high)
           /\ IF Tail(s) = <<>> THEN s[Len(s)] = Head(s)
              ELSE Tail(s)[Len(Tail(s))] = s[Len(s)]
  <1> DEFINE t == Tail(s)
  <1>1. /\ Len(s) \in Nat \ {0} /\ Len(t) = Len(s) - 1 /\ t \in Seq(Nat)
        /\ \A i \in 1 .. Len(t) : t[i] = s[i + 1]
    BY HeadTailProperties, EmptySeq
  <1>2. \A i \in 1 .. Len(s) : s[i] \in Nat
    BY ElementOfSeq
  <1> HIDE DEF t
  <1>3. low < s[1] /\ s[1] <= high /\ s[1] \in Nat
    BY <1>1, <1>2 DEF Rising
  <1>4. Head(s) = s[1]
    OBVIOUS
  <1>5. ASSUME NEW i \in 1 .. Len(t)
        PROVE  /\ s[1] < t[i] /\ t[i] <= high
               /\ \A k \in 1 .. Len(t) : k < i => t[k] < t[i]
    <2>1. i + 1 \in 1 .. Len(s) /\ 1 \in 1 .. Len(s) /\ 1 < i + 1 /\ t[i] = s[i + 1]
      BY <1>1
    <2>2. s[1] < t[i] /\ t[i] <= high
      BY <2>1 DEF Rising
    <2>3. ASSUME NEW k \in 1 .. Len(t), k < i PROVE t[k] < t[i]
      <3>1. k + 1 \in 1 .. Len(s) /\ k + 1 < i + 1 /\ t[k] = s[k + 1]
        BY <1>1, <2>3
      <3> QED
        BY <2>1, <3>1 DEF Rising
    <2> QED
      BY <2>2, <2>3
  <1>6. IF t = <<>> THEN s[Len(s)] = s[1] ELSE t[Len(t)] = s[Len(s)]
    <2>1. CASE t = <<>>
      <3>1. Len(t) = 0
        BY <2>1
      <3>2. Len(s) = 1
        BY <1>1, <3>1
      <3> QED
        BY <2>1, <3>2
    <2>2. CASE t # <<>>
      <3>1. Len(t) \in 1 .. Len(t)
        BY <1>1, <2>2, EmptySeq
      <3> QED
        BY <1>1, <2>2, <3>1
    <2> QED
      BY <2>1, <2>2
  <1>7. Rising(t, s[1], high)
    BY <1>5 DEF Rising
  <1> QED
    BY <1>1, <1>3, <1>4, <1>6, <1>7 DEF t

-----------------------------------------------------------------------------

(***************************************************************************)
(* How long a backup will still wait if it hears nothing.  The argument    *)
(* rests on it: a primary that lives, however late, is always due for its  *)
(* next heartbeat before its backup's patience ends.                       *)
(***************************************************************************)
patience(b) == clock[b] + (missedLimit - 1 - missed[b]) * readTimeout

\* When p sends next at the latest, if nothing is printed and unsent: with a
\* refusal at its socket the first heartbeat does not count.
nextHeard(p) ==
    clock[p] + Late + IF refused /\ ~unsent THEN heartbeatEvery ELSE 0

Backups == {b \in Procs : role[b] = "backup"}

\* The port is the one backup's.
PortInv ==
    /\ \A b \in Backups : port = b
    /\ port # Nobody => port \in Backups

ClockInv ==
    /\ \A q \in Procs : role[q] \in {"none", "starting"} => missed[q] = 0
    /\ \A b \in Backups : missed[b] < missedLimit /\ clock[b] >= 0
    /\ \A p \in primaries : clock[p] >= -Late /\ clock[p] <= heartbeatEvery

PatienceInv ==
    \A b \in Backups :
        /\ inbox[b] # <<>> => patience(b) >= 1
        /\ \A p \in primaries :
              /\ patience(b) >= 1
              /\ inbox[b] = <<>> /\ (unsent => refused) => nextHeard(p) < patience(b)

Inv == TypeOK /\ OnePrimary /\ PortInv /\ ClockInv /\ PatienceInv

LEMMA ConstantTypes ==
    /\ heartbeatEvery \in Nat /\ heartbeatEvery >= 1
    /\ readTimeout \in Nat /\ readTimeout >= 1
    /\ missedLimit \in Nat /\ missedLimit >= 1
    /\ Late \in Nat /\ Late <= heartbeatEvery
    /\ missedLimit * readTimeout \in Nat
    /\ 2 * heartbeatEvery + Late < missedLimit * readTimeout
    /\ MaxProcs \in Nat /\ MaxProcs >= 2
    /\ Nobody \notin Procs
  BY PairsAssumption DEF Procs, Nobody

\* A backup that has just heard something, or bound its port, has patience.
LEMMA FullPatience ==
    missedLimit - 1 \in Int /\ readTimeout + (missedLimit - 1 - 0) * readTimeout = missedLimit * readTimeout
  BY ConstantTypes

\* A missed heartbeat costs none: it is time that does.
LEMMA MissKeepsPatience ==
    ASSUME NEW m \in Nat
    PROVE  readTimeout + (missedLimit - 1 - (m + 1)) * readTimeout
               = 0 + (missedLimit - 1 - m) * readTimeout
  BY ConstantTypes

LEMMA NoPatience ==
    ASSUME NEW m \in Nat, m < missedLimit, m + 1 >= missedLimit
    PROVE  0 + (missedLimit - 1 - m) * readTimeout = 0
  <1>1. missedLimit - 1 - m = 0
    BY ConstantTypes
  <1> QED
    BY <1>1, ConstantTypes

LEMMA PatienceType ==
    ASSUME TypeOK, NEW b \in Procs PROVE patience(b) \in Int
  BY ConstantTypes DEF TypeOK, patience

\* What promoted makes of the roles: q is started, or nothing but p changes.
LEMMA PromotedRoles ==
    ASSUME NEW r \in [Procs -> {"none", "starting", "backup", "primary", "gone"}],
           NEW p \in Procs
    PROVE  /\ promoted(r, p) \in [Procs -> {"none", "starting", "backup", "primary", "gone"}]
           /\ promoted(r, p)[p] = "primary"
           /\ \A q \in Procs \ {p} :
                 promoted(r, p)[q] = r[q] \/ (r[q] = "none" /\ promoted(r, p)[q] = "starting")
  BY DEF promoted

-----------------------------------------------------------------------------
LEMMA InvInit == Init => Inv
  <1> SUFFICES ASSUME Init PROVE Inv
    OBVIOUS
  <1> DEFINE first == [p \in Procs |-> IF p = 1 THEN "starting" ELSE "none"]
  <1>1. 1 \in Procs /\ first \in [Procs -> {"none", "starting", "backup", "primary", "gone"}]
    BY ConstantTypes DEF Procs
  <1>2. role = promoted(first, 1)
    BY DEF Init
  <1> HIDE DEF first
  <1>3. /\ role \in [Procs -> {"none", "starting", "backup", "primary", "gone"}]
        /\ role[1] = "primary"
        /\ \A q \in Procs \ {1} : role[q] = first[q] \/ role[q] = "starting"
    BY <1>1, <1>2, PromotedRoles
  <1>4. \A q \in Procs \ {1} : role[q] \in {"none", "starting"}
    BY <1>3 DEF first
  <1>5. TypeOK
    <2>1. inbox \in [Procs -> Seq(Nat)]
      <3>1. <<>> \in Seq(Nat)
        BY EmptySeq
      <3> QED
        BY <3>1 DEF Init
    <2>2. clock \in [Procs -> Int]
      BY ConstantTypes DEF Init
    <2> QED
      BY <1>3, <2>1, <2>2 DEF Init, TypeOK
  <1>6. primaries = {1} /\ Backups = {}
    BY <1>1, <1>3, <1>4 DEF primaries, Backups
  <1>7. ClockInv
    BY <1>6, <1>1, ConstantTypes DEF Init, ClockInv
  <1> QED
    BY <1>5, <1>6, <1>7 DEF Init, Inv, OnePrimary, PortInv, PatienceInv

LEMMA PrintNextKeepsInv == ASSUME Inv, NEW p \in Procs, PrintNext(p) PROVE Inv'
  <1> USE DEF Inv
  <1>1. /\ role[p] = "primary" /\ ~unsent /\ clock[p] <= 0
        /\ acked' = [acked EXCEPT ![p] = @ + 1] /\ printed' = acked[p] + 1
        /\ clock' = [clock EXCEPT ![p] = @ + heartbeatEvery]
        /\ unsent' = TRUE /\ UNCHANGED <<role, missed, inbox, refused, port>>
    BY DEF PrintNext
  <1>2. TypeOK'
    BY <1>1, ConstantTypes DEF TypeOK
  <1>3. primaries' = primaries /\ Backups' = Backups /\ p \notin Backups
    BY <1>1 DEF primaries, Backups
  <1>4. ClockInv'
    BY <1>1, <1>3, ConstantTypes DEF ClockInv, TypeOK, primaries, Backups
  <1>5. \A b \in Backups : patience(b)' = patience(b)
    BY <1>1, <1>3 DEF patience, TypeOK, Backups
  <1>7. ASSUME refused, NEW q \in primaries PROVE nextHeard(q)' = nextHeard(q)
    <2>1. q = p /\ clock[p] \in Int /\ clock'[p] = clock[p] + heartbeatEvery
      BY <1>1, <1>7 DEF primaries, OnePrimary, TypeOK
    <2> QED
      BY <1>1, <1>7, <2>1, ConstantTypes DEF nextHeard
  <1>6. PatienceInv'
    BY <1>1, <1>3, <1>5, <1>7 DEF PatienceInv
  <1> QED
    BY <1>1, <1>2, <1>3, <1>4, <1>6 DEF OnePrimary, PortInv

LEMMA SendKeepsInv == ASSUME Inv, NEW p \in Procs, Send(p) PROVE Inv'
  <1> USE DEF Inv
  <1>1. /\ role[p] = "primary" /\ unsent /\ unsent' = FALSE
        /\ refused' = (port = Nobody /\ ~refused)
        /\ inbox' = IF port = Nobody \/ refused THEN inbox
                    ELSE [inbox EXCEPT ![port] = Append(@, acked[p])]
        /\ UNCHANGED <<role, acked, missed, clock, port, printed>>
    BY DEF Send
  <1>2. port # Nobody => Append(inbox[port], acked[p]) \in Seq(Nat)
                         /\ Append(inbox[port], acked[p]) # <<>>
    <2>1. acked[p] \in Nat /\ (port # Nobody => inbox[port] \in Seq(Nat))
      BY DEF TypeOK
    <2> QED
      BY <2>1, AppendProperties
  <1>3. TypeOK'
    BY <1>1, <1>2 DEF TypeOK
  <1>4. primaries' = primaries /\ Backups' = Backups /\ p \in primaries
    BY <1>1 DEF primaries, Backups
  <1>5. ClockInv'
    BY <1>1, <1>4 DEF ClockInv
  <1>6. \A b \in Backups : /\ patience(b)' = patience(b) /\ ~refused'
                           /\ IF refused THEN inbox'[b] = inbox[b] ELSE inbox'[b] # <<>>
    BY <1>1, <1>2, ConstantTypes DEF patience, TypeOK, PortInv, Backups
  <1>8. ~refused' => \A q \in primaries : nextHeard(q)' = nextHeard(q)
    BY <1>1 DEF nextHeard
  <1>7. PatienceInv'
    BY <1>1, <1>4, <1>6, <1>8 DEF PatienceInv
  <1> QED
    BY <1>1, <1>3, <1>4, <1>5, <1>7 DEF OnePrimary, PortInv

LEMMA BindKeepsInv == ASSUME Inv, NEW b \in Procs, Bind(b) PROVE Inv'
  <1> USE DEF Inv
  <1>1. role[b] = "starting" /\ UNCHANGED <<acked, missed, inbox, unsent, refused, printed>>
    BY DEF Bind
  <1>2. CASE port = Nobody
    <2>1. /\ port' = b /\ role' = [role EXCEPT ![b] = "backup"]
          /\ clock' = [clock EXCEPT ![b] = readTimeout]
      BY <1>2 DEF Bind
    <2>2. TypeOK'
      BY <1>1, <2>1, ConstantTypes DEF TypeOK
    <2>3. primaries' = primaries /\ Backups = {} /\ Backups' = {b} /\ b \notin primaries
      BY <1>1, <1>2, <2>1, ConstantTypes DEF primaries, Backups, TypeOK, PortInv
    <2>4. missed'[b] = 0 /\ clock'[b] = readTimeout
      BY <1>1, <2>1 DEF ClockInv, TypeOK
    <2>5. ClockInv'
      BY <1>1, <2>1, <2>3, <2>4, ConstantTypes DEF ClockInv, TypeOK, primaries
    <2>6. patience(b)' = missedLimit * readTimeout
      BY <2>4, FullPatience DEF patience
    <2>7. \A p \in primaries : clock'[p] = clock[p] /\ clock[p] \in Int
      BY <2>1, <2>3 DEF TypeOK, primaries
    <2>8. PatienceInv'
      BY <2>3, <2>6, <2>7, ConstantTypes DEF PatienceInv, ClockInv, nextHeard
    <2> QED
      BY <2>1, <2>2, <2>3, <2>5, <2>8, ConstantTypes DEF OnePrimary, PortInv
  <1>3. CASE port # Nobody
    <2>1. role' = [role EXCEPT ![b] = "gone"] /\ UNCHANGED <<port, clock>>
      BY <1>3 DEF Bind
    <2>2. TypeOK'
      BY <1>1, <2>1 DEF TypeOK
    <2>3. primaries' = primaries /\ Backups' = Backups
      BY <1>1, <2>1 DEF primaries, Backups, TypeOK
    <2>4. ClockInv'
      BY <1>1, <2>1, <2>3 DEF ClockInv, TypeOK
    <2>5. \A c \in Backups : patience(c)' = patience(c)
      BY <1>1, <2>1 DEF patience
    <2>6. PatienceInv'
      BY <1>1, <2>1, <2>3, <2>5 DEF PatienceInv, nextHeard
    <2> QED
      BY <2>1, <2>2, <2>3, <2>4, <2>6 DEF OnePrimary, PortInv
  <1> QED
    BY <1>2, <1>3

LEMMA ReadKeepsInv == ASSUME Inv, NEW b \in Procs, Read(b) PROVE Inv'
  <1> USE DEF Inv
  <1>1. /\ role[b] = "backup" /\ inbox[b] # <<>>
        /\ acked' = [acked EXCEPT ![b] = IF Head(inbox[b]) > @ THEN Head(inbox[b]) ELSE @]
        /\ inbox' = [inbox EXCEPT ![b] = Tail(@)]
        /\ missed' = [missed EXCEPT ![b] = 0]
        /\ clock' = [clock EXCEPT ![b] = readTimeout]
        /\ UNCHANGED <<role, unsent, refused, port, printed>>
    BY DEF Read
  <1>2. Head(inbox[b]) \in Nat /\ Tail(inbox[b]) \in Seq(Nat)
    BY <1>1, HeadTailProperties DEF TypeOK
  <1>3. TypeOK'
    BY <1>1, <1>2, ConstantTypes DEF TypeOK
  <1>4. primaries' = primaries /\ Backups' = Backups /\ Backups = {b} /\ b \notin primaries
    BY <1>1 DEF primaries, Backups, PortInv
  <1>5. missed'[b] = 0 /\ clock'[b] = readTimeout
    BY <1>1 DEF TypeOK
  <1>6. ClockInv'
    <2>1. \A q \in Procs : role'[q] = role[q] /\ (q # b => missed'[q] = missed[q])
      BY <1>1 DEF TypeOK
    <2>2. \A q \in Procs : role'[q] \in {"none", "starting"} => missed'[q] = 0
      BY <1>5, <2>1 DEF ClockInv
    <2>3. \A q \in Backups' : missed'[q] < missedLimit /\ clock'[q] >= 0
      BY <1>4, <1>5, ConstantTypes
    <2>4. \A p \in primaries' : clock'[p] = clock[p]
      BY <1>1, <1>4 DEF TypeOK, primaries
    <2>5. \A p \in primaries' : clock'[p] >= -Late /\ clock'[p] <= heartbeatEvery
      BY <1>1, <1>4, <2>4 DEF ClockInv
    <2> QED
      BY <2>2, <2>3, <2>5 DEF ClockInv
  <1>7. patience(b)' = missedLimit * readTimeout
    BY <1>5, FullPatience DEF patience
  <1>8. \A p \in primaries : clock'[p] = clock[p] /\ clock[p] \in Int
    BY <1>1, <1>4 DEF TypeOK, primaries
  <1>9. PatienceInv'
    BY <1>4, <1>7, <1>8, ConstantTypes DEF PatienceInv, ClockInv, nextHeard
  <1> QED
    BY <1>1, <1>3, <1>4, <1>6, <1>9 DEF OnePrimary, PortInv

LEMMA MissKeepsInv == ASSUME Inv, NEW b \in Procs, Miss(b) PROVE Inv'
  <1> USE DEF Inv
  <1>1. /\ role[b] = "backup" /\ clock[b] = 0 /\ missed[b] + 1 < missedLimit
        /\ missed' = [missed EXCEPT ![b] = @ + 1]
        /\ clock' = [clock EXCEPT ![b] = readTimeout]
        /\ UNCHANGED <<role, acked, inbox, unsent, refused, port, printed>>
    BY DEF Miss
  <1>2. TypeOK'
    BY <1>1, ConstantTypes DEF TypeOK
  <1>3. primaries' = primaries /\ Backups' = Backups /\ Backups = {b} /\ b \notin primaries
    BY <1>1 DEF primaries, Backups, PortInv
  <1>4. missed'[b] = missed[b] + 1 /\ clock'[b] = readTimeout /\ missed[b] \in Nat
    BY <1>1 DEF TypeOK
  <1>5. ClockInv'
    BY <1>1, <1>3, <1>4, ConstantTypes DEF ClockInv, TypeOK, primaries
  <1>6. patience(b)' = patience(b)
    BY <1>1, <1>4, MissKeepsPatience DEF patience
  <1>7. \A p \in primaries : clock'[p] = clock[p]
    BY <1>1, <1>3 DEF TypeOK, primaries
  <1>8. PatienceInv'
    BY <1>1, <1>3, <1>6, <1>7 DEF PatienceInv, nextHeard
  <1> QED
    BY <1>1, <1>2, <1>3, <1>5, <1>8 DEF OnePrimary, PortInv

\* A backup takes over only when it has no patience left: there is no primary,
\* and nothing that it has not read.
LEMMA TakeOverAlone ==
    ASSUME Inv, NEW b \in Procs, TakeOver(b)
    PROVE  primaries = {} /\ inbox[b] = <<>> /\ Backups = {b}
  <1>1. role[b] = "backup" /\ clock[b] = 0 /\ missed[b] + 1 >= missedLimit
    BY DEF TakeOver
  <1>2. missed[b] \in Nat /\ missed[b] < missedLimit /\ Backups = {b}
    BY <1>1 DEF Inv, TypeOK, ClockInv, Backups, PortInv
  <1>3. patience(b) = 0
    BY <1>1, <1>2, NoPatience DEF patience
  <1> QED
    BY <1>2, <1>3 DEF Inv, PatienceInv

LEMMA TakeOverKeepsInv == ASSUME Inv, NEW b \in Procs, TakeOver(b) PROVE Inv'
  <1>1. /\ missed' = [missed EXCEPT ![b] = @ + 1] /\ port' = Nobody
        /\ role' = promoted(role, b)
        /\ clock' = [clock EXCEPT ![b] = heartbeatEvery]
        /\ inbox' = [inbox EXCEPT ![b] = <<>>] /\ unsent' = FALSE /\ refused' = FALSE
        /\ UNCHANGED <<acked, printed>>
    BY DEF TakeOver
  <1>2. primaries = {} /\ Backups = {b}
    BY TakeOverAlone
  <1>3. /\ role' \in [Procs -> {"none", "starting", "backup", "primary", "gone"}]
        /\ role'[b] = "primary"
        /\ \A q \in Procs \ {b} :
              role'[q] = role[q] \/ (role[q] = "none" /\ role'[q] = "starting")
    BY <1>1, PromotedRoles DEF Inv, TypeOK
  <1>4. TypeOK'
    <2>1. <<>> \in Seq(Nat)
      BY EmptySeq
    <2>2. inbox' \in [Procs -> Seq(Nat)]
      BY <1>1, <2>1 DEF Inv, TypeOK
    <2>3. missed' \in [Procs -> Nat] /\ clock' \in [Procs -> Int]
      BY <1>1, ConstantTypes DEF Inv, TypeOK
    <2> QED
      BY <1>1, <1>3, <2>2, <2>3 DEF Inv, TypeOK
  <1>5. primaries' = {b} /\ Backups' = {}
    BY <1>2, <1>3 DEF primaries, Backups
  <1>6. ClockInv'
    <2>1. ASSUME NEW q \in Procs, role'[q] \in {"none", "starting"} PROVE missed'[q] = 0
      BY <1>1, <1>3, <2>1 DEF Inv, TypeOK, ClockInv
    <2>2. clock'[b] = heartbeatEvery
      BY <1>1 DEF Inv, TypeOK
    <2> QED
      BY <1>5, <2>1, <2>2, ConstantTypes DEF ClockInv
  <1> QED
    BY <1>1, <1>4, <1>5, <1>6 DEF Inv, OnePrimary, PortInv, PatienceInv

LEMMA TickKeepsInv == ASSUME Inv, Tick PROVE Inv'
  <1> USE DEF Inv
  <1>1. /\ ~unsent
        /\ \A p \in primaries : clock[p] > -Late
        /\ \A b \in Backups : clock[b] > 0 /\ inbox[b] = <<>>
        /\ clock' = [p \in Procs |->
              IF role[p] \in {"primary", "backup"} THEN clock[p] - 1 ELSE clock[p]]
        /\ UNCHANGED <<role, acked, missed, inbox, unsent, refused, port, printed>>
    BY DEF Tick, Backups
  <1>2. TypeOK'
    BY <1>1 DEF TypeOK
  <1>3. primaries' = primaries /\ Backups' = Backups
    BY <1>1 DEF primaries, Backups
  <1>4. \A q \in primaries \cup Backups : clock'[q] = clock[q] - 1 /\ clock[q] \in Int
    BY <1>1 DEF primaries, Backups, TypeOK
  <1>5. ClockInv'
    <2>1. \A p \in primaries : clock'[p] >= -Late /\ clock'[p] <= heartbeatEvery
      BY <1>1, <1>4, ConstantTypes DEF ClockInv
    <2>2. \A b \in Backups : missed'[b] < missedLimit /\ clock'[b] >= 0
      BY <1>1, <1>4 DEF ClockInv
    <2> QED
      BY <1>1, <1>3, <2>1, <2>2 DEF ClockInv
  <1>6. ASSUME NEW b \in Backups PROVE patience(b)' = patience(b) - 1 /\ patience(b) \in Int
    <2>1. b \in Procs /\ missed[b] \in Nat /\ (missedLimit - 1 - missed[b]) * readTimeout \in Int
      BY ConstantTypes DEF Backups, TypeOK
    <2> QED
      BY <1>1, <1>4, <2>1 DEF patience
  <1>7. PatienceInv'
    <2>1. \A b \in Backups : inbox'[b] = <<>>
      BY <1>1
    <2>2. ASSUME NEW b \in Backups, NEW p \in primaries
          PROVE  patience(b)' >= 1 /\ nextHeard(p)' < patience(b)'
      <3>1. nextHeard(p) < patience(b) /\ clock[p] > -Late
        BY <1>1 DEF PatienceInv
      <3>2. clock'[p] = clock[p] - 1 /\ clock[p] \in Int
        BY <1>4
      <3>3. patience(b)' = patience(b) - 1 /\ patience(b) \in Int
        BY <1>6
      <3>4. nextHeard(p)' = nextHeard(p) - 1 /\ nextHeard(p) \in Int /\ nextHeard(p) >= 1
        BY <1>1, <3>1, <3>2, ConstantTypes DEF nextHeard
      <3> HIDE DEF patience
      <3> QED
        BY <3>1, <3>3, <3>4
    <2> QED
      BY <1>3, <2>1, <2>2 DEF PatienceInv
  <1> QED
    BY <1>1, <1>2, <1>3, <1>5, <1>7 DEF OnePrimary, PortInv

LEMMA KillKeepsInv == ASSUME Inv, NEW p \in Procs, Kill(p) PROVE Inv'
  <1> USE DEF Inv
  <1>1. /\ role[p] \in {"starting", "backup", "primary"}
        /\ role' = [role EXCEPT ![p] = "gone"]
        /\ port' = IF port = p THEN Nobody ELSE port
        /\ acked' = [acked EXCEPT ![p] = 0]
        /\ missed' = [missed EXCEPT ![p] = 0]
        /\ clock' = [clock EXCEPT ![p] = 0]
        /\ inbox' = [inbox EXCEPT ![p] = <<>>]
        /\ unsent' = (unsent /\ role[p] # "primary")
        /\ refused' = (refused /\ role[p] # "primary")
        /\ UNCHANGED printed
    BY DEF Kill
  <1>2. TypeOK'
    BY <1>1, EmptySeq DEF TypeOK
  <1>3. primaries' = primaries \ {p} /\ Backups' = Backups \ {p}
    BY <1>1 DEF primaries, Backups, TypeOK
  <1>4. \A q \in Procs \ {p} : /\ clock'[q] = clock[q] /\ missed'[q] = missed[q]
                               /\ inbox'[q] = inbox[q] /\ role'[q] = role[q]
                               /\ patience(q)' = patience(q)
    BY <1>1 DEF TypeOK, patience
  <1>5. primaries' # {} => unsent' = unsent /\ refused' = refused
    BY <1>1, <1>3 DEF OnePrimary, primaries, TypeOK
  <1>6. ClockInv'
    BY <1>1, <1>3, <1>4 DEF ClockInv, primaries, Backups, TypeOK
  <1>7. PatienceInv'
    <2>1. Backups' \subseteq Procs \ {p} /\ primaries' \subseteq Procs \ {p}
      BY <1>3 DEF Backups, primaries
    <2> QED
      BY <1>3, <1>4, <1>5, <2>1 DEF PatienceInv, nextHeard
  <1>8. PortInv'
    BY <1>1, <1>3, ConstantTypes DEF PortInv, Backups
  <1> QED
    BY <1>2, <1>3, <1>6, <1>7, <1>8 DEF OnePrimary

LEMMA InvInductive == Inv /\ [Next]_vars => Inv'
  <1> SUFFICES ASSUME Inv, [Next]_vars PROVE Inv'
    OBVIOUS
  <1>1. CASE UNCHANGED vars
    BY <1>1 DEF vars, procs, Inv, TypeOK, OnePrimary, PortInv, ClockInv, PatienceInv,
                primaries, Backups, patience, nextHeard
  <1> QED
    BY <1>1, PrintNextKeepsInv, SendKeepsInv, BindKeepsInv, ReadKeepsInv, MissKeepsInv,
       TakeOverKeepsInv, TickKeepsInv, KillKeepsInv DEF Next

\* However late a primary is, up to Late and again and again, and whoever is
\* killed when, a backup that misses five heartbeats (pairs.go:94) never takes
\* over from a primary that lives: for all timeouts with
\* 2 * heartbeatEvery + Late < missedLimit * readTimeout.
THEOREM OnlyOnePrimary == Spec => []OnePrimary
  <1>1. Inv => OnePrimary
    BY DEF Inv
  <1> QED
    BY <1>1, InvInit, InvInductive, PTL DEF Spec

(***************************************************************************)
(* The successor.  Processes are started one after the other, m being the  *)
(* last; once all are started nobody is killed any more (the bound of      *)
(* Kill), so the last primary stays.                                       *)
(***************************************************************************)
LastStarted(m) ==
    /\ \A q \in Procs : role[q] = "none" <=> q > m
    /\ ~spareKilled => waiting = {m}

SuccessorInv ==
    /\ role[MaxProcs] # "none" => primaries # {}
    /\ \E m \in Procs : LastStarted(m)

LEMMA SuccessorInit == Init => SuccessorInv
  <1> SUFFICES ASSUME Init PROVE SuccessorInv
    OBVIOUS
  <1>1. 1 \in Procs /\ 2 \in Procs /\ MaxProcs \in Procs
    BY ConstantTypes DEF Procs
  <1>2. \A q \in Procs : role[q] = IF q = 1 THEN "primary"
                                    ELSE IF q = 2 THEN "starting" ELSE "none"
    <2> DEFINE first == [p \in Procs |-> IF p = 1 THEN "starting" ELSE "none"]
    <2>1. \A q \in Procs : role[q] =
             IF q = 1 THEN "primary"
             ELSE IF first[q] = "none" /\ \A k \in 1 .. q - 1 : first[k] # "none" THEN "starting"
             ELSE first[q]
      BY DEF Init, promoted
    <2>2. \A q \in Procs : first[q] = IF q = 1 THEN "starting" ELSE "none"
      OBVIOUS
    <2> HIDE DEF first
    <2>3. ASSUME NEW q \in Procs, q # 1, q # 2 PROVE role[q] = "none"
      <3>1. 2 \in 1 .. q - 1 /\ first[2] = "none" /\ first[q] = "none"
        BY <1>1, <2>2, <2>3 DEF Procs
      <3> QED
        BY <2>1, <2>3, <3>1
    <2>4. role[2] = "starting"
      <3>1. first[2] = "none" /\ \A k \in 1 .. 2 - 1 : first[k] # "none"
        BY <1>1, <2>2 DEF Procs
      <3> QED
        BY <1>1, <2>1, <3>1
    <2> QED
      BY <1>1, <2>1, <2>3, <2>4
  <1>3. waiting = {2} /\ primaries # {}
    BY <1>1, <1>2 DEF waiting, primaries
  <1>4. LastStarted(2)
    BY <1>2, <1>3 DEF LastStarted, Procs
  <1> QED
    BY <1>1, <1>3, <1>4 DEF SuccessorInv

LEMMA SuccessorInductive == Inv /\ SuccessorInv /\ [Next]_vars => SuccessorInv'
  <1> SUFFICES ASSUME Inv, SuccessorInv, [Next]_vars PROVE SuccessorInv'
    OBVIOUS
  <1>1. PICK m \in Procs : LastStarted(m)
    BY DEF SuccessorInv
  <1>2. MaxProcs \in Procs /\ (role[MaxProcs] # "none" => primaries # {})
    BY ConstantTypes DEF SuccessorInv, Procs
  <1>3. ASSUME UNCHANGED <<role, spareKilled>> PROVE SuccessorInv'
    BY <1>1, <1>2, <1>3 DEF SuccessorInv, LastStarted, waiting, primaries
  <1>4. ASSUME NEW b \in Procs, Bind(b) PROVE SuccessorInv'
    <2>1. /\ role[b] = "starting" /\ role' \in {[role EXCEPT ![b] = "backup"], [role EXCEPT ![b] = "gone"]}
          /\ UNCHANGED spareKilled
      BY <1>4 DEF Bind
    <2>2. /\ \A q \in Procs : role'[q] = "none" <=> role[q] = "none"
          /\ primaries' = primaries
      BY <2>1 DEF Inv, TypeOK, primaries
    <2>3. ~spareKilled => waiting' = waiting
      <3>1. CASE port = Nobody
        <4>1. role' = [role EXCEPT ![b] = "backup"]
          BY <1>4, <3>1 DEF Bind
        <4> QED
          BY <2>1, <4>1 DEF waiting, Inv, TypeOK
      <3>2. CASE port # Nobody
        <4>1. port \in waiting /\ port # b /\ b \in waiting
          BY <2>1, <3>2 DEF Inv, PortInv, Backups, waiting
        <4> QED
          BY <1>1, <4>1 DEF LastStarted
      <3> QED
        BY <3>1, <3>2
    <2>4. LastStarted(m)'
      BY <1>1, <2>1, <2>2, <2>3 DEF LastStarted
    <2> QED
      BY <1>1, <1>2, <2>2, <2>4 DEF SuccessorInv
  <1>5. ASSUME NEW b \in Procs, TakeOver(b) PROVE SuccessorInv'
    <2>1. role' = promoted(role, b) /\ UNCHANGED spareKilled /\ role[b] = "backup"
      BY <1>5 DEF TakeOver
    <2>2. primaries = {} /\ Backups = {b}
      BY <1>5, TakeOverAlone
    <2>3. role[MaxProcs] = "none"
      BY <1>2, <2>2
    <2>4. m + 1 \in Procs /\ m \in Nat /\ m >= 1
      BY <1>1, <1>2, <2>3, ConstantTypes DEF LastStarted, Procs
    <2>5. b <= m /\ b \in Nat
      BY <1>1, <2>1, <2>4 DEF LastStarted, Procs
    <2>6. /\ role'[b] = "primary"
          /\ role'[m + 1] = "starting"
          /\ \A q \in Procs \ {b, m + 1} : role'[q] = role[q]
      <3>1. ASSUME NEW q \in Procs, q # b
            PROVE  role'[q] = IF role[q] = "none" /\ \A k \in 1 .. q - 1 : role[k] # "none"
                              THEN "starting" ELSE role[q]
        BY <2>1, <3>1 DEF promoted
      <3>2. role[m + 1] = "none" /\ \A k \in 1 .. (m + 1) - 1 : role[k] # "none"
        <4>1. m + 1 > m
          BY <2>4
        <4>2. \A k \in 1 .. (m + 1) - 1 : k \in Procs /\ ~(k > m)
          BY <2>4, ConstantTypes DEF Procs
        <4> QED
          BY <1>1, <2>4, <4>1, <4>2 DEF LastStarted
      <3>3. ASSUME NEW q \in Procs, role[q] = "none", q # m + 1
            PROVE  ~ \A k \in 1 .. q - 1 : role[k] # "none"
        <4>1. q > m /\ q \in Nat
          BY <1>1, <3>3 DEF LastStarted, Procs
        <4>2. m + 1 \in 1 .. q - 1
          BY <2>4, <3>3, <4>1
        <4> QED
          BY <3>2, <4>2
      <3>4. role'[b] = "primary"
        BY <2>1 DEF promoted
      <3> QED
        BY <2>4, <2>5, <3>1, <3>2, <3>3, <3>4
    <2>7. \A q \in Procs : role'[q] = "none" <=> q > m + 1
      BY <1>1, <2>1, <2>4, <2>5, <2>6 DEF LastStarted, Procs
    <2>8. ~spareKilled => waiting' = {m + 1}
      <3>1. ~spareKilled => waiting = {m} /\ b = m
        BY <1>1, <2>1 DEF LastStarted, waiting
      <3> QED
        BY <2>4, <2>6, <3>1 DEF waiting
    <2>9. LastStarted(m + 1)'
      BY <2>1, <2>7, <2>8 DEF LastStarted
    <2>10. primaries' # {}
      BY <2>6 DEF primaries
    <2> QED
      BY <2>4, <2>9, <2>10 DEF SuccessorInv
  <1>6. ASSUME NEW p \in Procs, Kill(p) PROVE SuccessorInv'
    <2>1. /\ role[p] \in {"starting", "backup", "primary"} /\ role[MaxProcs] = "none"
          /\ role' = [role EXCEPT ![p] = "gone"]
          /\ spareKilled' = (spareKilled \/ role[p] # "primary")
      BY <1>6 DEF Kill
    <2>2. /\ \A q \in Procs : role'[q] = "none" <=> role[q] = "none"
          /\ role'[MaxProcs] = "none"
      BY <1>2, <2>1 DEF Inv, TypeOK
    <2>3. ~spareKilled' => ~spareKilled /\ waiting' = waiting
      BY <2>1 DEF waiting, Inv, TypeOK
    <2>4. LastStarted(m)'
      BY <1>1, <2>2, <2>3 DEF LastStarted
    <2> QED
      BY <2>2, <2>4 DEF SuccessorInv
  <1>7. ASSUME NEW p \in Procs, PrintNext(p) \/ Send(p) \/ Read(p) \/ Miss(p)
        PROVE  SuccessorInv'
    BY <1>3, <1>7 DEF PrintNext, Send, Read, Miss
  <1>8. CASE Tick
    BY <1>3, <1>8 DEF Tick
  <1>9. CASE UNCHANGED vars
    BY <1>3, <1>9 DEF vars, procs
  <1> QED
    BY <1>4, <1>5, <1>6, <1>7, <1>8, <1>9 DEF Next

\* As long as only primaries are killed, exactly one process waits to take over:
\* it never finds the port taken (pairs.go:98).
THEOREM SuccessorAlwaysStands == Spec => []SuccessorStands
  <1>1. SuccessorInv => SuccessorStands
    <2> SUFFICES ASSUME SuccessorInv, ~spareKilled PROVE Cardinality(waiting) = 1
      BY DEF SuccessorStands
    <2>1. PICK m \in Procs : waiting = {m}
      BY DEF SuccessorInv, LastStarted
    <2> QED
      BY <2>1, FS_Singleton
  <1> QED
    BY <1>1, InvInit, InvInductive, SuccessorInit, SuccessorInductive, PTL DEF Spec

(***************************************************************************)
(* The count.  What a backup knows or has lying at its socket is 0 or the  *)
(* last number printed, or one less while that one has not been sent.      *)
(***************************************************************************)
last(b) == IF inbox[b] = <<>> THEN acked[b] ELSE inbox[b][Len(inbox[b])]

FreshInv ==
    \A q \in Procs :
        role[q] \in {"none", "starting"} => acked[q] = 0 /\ inbox[q] = <<>>

PrimaryCount ==
    \A p \in primaries :
        /\ acked[p] = 0 \/ acked[p] = printed \/ acked[p] + 1 = printed
        /\ unsent => acked[p] = printed /\ printed >= 1

BackupCount ==
    \A b \in Backups :
        /\ last(b) \in Nat /\ acked[b] <= last(b)
        /\ Rising(inbox[b], acked[b], last(b))
        /\ last(b) # 0 =>
              /\ printed = last(b) \/ printed = last(b) + 1
              /\ \A p \in primaries :
                    /\ acked[p] = printed /\ ~refused
                    /\ printed = IF unsent THEN last(b) + 1 ELSE last(b)

CountInv == FreshInv /\ PrimaryCount /\ BackupCount

LEMMA CountInit == Init => CountInv
  <1> SUFFICES ASSUME Init PROVE CountInv
    OBVIOUS
  <1>1. Backups = {}
    BY DEF Init, promoted, Backups
  <1>2. \A q \in Procs : acked[q] = 0 /\ inbox[q] = <<>>
    BY DEF Init
  <1>3. ~unsent /\ primaries \subseteq Procs
    BY DEF Init, primaries
  <1> QED
    BY <1>1, <1>2, <1>3 DEF CountInv, FreshInv, PrimaryCount, BackupCount

\* What a backup b has is not touched by a step that leaves acked[b], inbox[b].
LEMMA LastKept ==
    ASSUME NEW b \in Procs, acked'[b] = acked[b], inbox'[b] = inbox[b]
    PROVE  /\ last(b)' = last(b)
           /\ Rising(inbox[b], acked[b], last(b))' <=> Rising(inbox[b], acked[b], last(b))
  BY DEF last, Rising

LEMMA PrintNextKeepsCount ==
    ASSUME Inv, CountInv, NEW p \in Procs, PrintNext(p)
    PROVE  CountInv' /\ (acked[p] = 0 \/ printed' = printed \/ printed' = printed + 1)
  <1>1. /\ role[p] = "primary" /\ ~unsent /\ printed' = acked[p] + 1
        /\ acked' = [acked EXCEPT ![p] = @ + 1] /\ unsent' = TRUE
        /\ UNCHANGED <<role, inbox, refused>>
    BY DEF PrintNext
  <1>2. /\ primaries' = primaries /\ Backups' = Backups
        /\ primaries = {p} /\ p \notin Backups
    BY <1>1 DEF primaries, Backups, Inv, OnePrimary
  <1>3. acked'[p] = printed' /\ printed' >= 1 /\ acked[p] \in Nat /\ printed \in Nat
    BY <1>1 DEF Inv, TypeOK
  <1>4. FreshInv'
    BY <1>1 DEF CountInv, FreshInv, Inv, TypeOK
  <1>5. PrimaryCount'
    BY <1>2, <1>3 DEF PrimaryCount
  <1>6. ASSUME NEW b \in Backups
        PROVE  acked'[b] = acked[b] /\ inbox'[b] = inbox[b] /\ b \in Procs
    BY <1>1, <1>2, <1>6 DEF Backups, Inv, TypeOK
  <1>7. BackupCount'
    BY <1>1, <1>2, <1>3, <1>6, LastKept DEF CountInv, BackupCount
  <1> QED
    BY <1>1, <1>2, <1>3, <1>4, <1>5, <1>7 DEF CountInv, PrimaryCount

LEMMA SendKeepsCount ==
    ASSUME Inv, CountInv, NEW p \in Procs, Send(p) PROVE CountInv'
  <1>1. /\ role[p] = "primary" /\ unsent /\ unsent' = FALSE
        /\ refused' = (port = Nobody /\ ~refused)
        /\ inbox' = IF port = Nobody \/ refused THEN inbox
                    ELSE [inbox EXCEPT ![port] = Append(@, acked[p])]
        /\ UNCHANGED <<role, acked, printed>>
    BY DEF Send
  <1>2. /\ primaries' = primaries /\ Backups' = Backups
        /\ primaries = {p} /\ acked[p] = printed /\ printed >= 1 /\ printed \in Nat
    BY <1>1 DEF primaries, Backups, Inv, OnePrimary, CountInv, PrimaryCount, TypeOK
  <1>3. FreshInv'
    BY <1>1 DEF CountInv, FreshInv, Inv, TypeOK, PortInv, Backups
  <1>4. PrimaryCount'
    BY <1>1, <1>2 DEF PrimaryCount
  <1>5. ASSUME ~refused, NEW b \in Backups
        PROVE  /\ last(b)' = printed /\ ~refused'
               /\ Rising(inbox[b], acked[b], last(b))'
               /\ acked'[b] = acked[b] /\ acked[b] <= printed
    <2>1. port = b /\ b \in Procs /\ b # Nobody
      BY ConstantTypes DEF Inv, PortInv, Backups
    <2>2. inbox'[b] = Append(inbox[b], printed)
      BY <1>1, <1>2, <1>5, <2>1 DEF Inv, TypeOK
    <2>3. /\ inbox[b] \in Seq(Nat) /\ acked[b] \in Nat /\ last(b) \in Nat
          /\ acked[b] <= last(b) /\ Rising(inbox[b], acked[b], last(b))
      BY <2>1 DEF Inv, TypeOK, CountInv, BackupCount
    <2>4. last(b) < printed
      BY <1>1, <1>2, <2>3 DEF CountInv, BackupCount
    <2>5. /\ Rising(inbox'[b], acked[b], printed)
          /\ inbox'[b] # <<>> /\ inbox'[b][Len(inbox'[b])] = printed
      BY <1>2, <2>2, <2>3, <2>4, RisingAppend
    <2>6. last(b)' = printed
      BY <2>5 DEF last
    <2>7. ~refused'
      BY <1>1, <2>1
    <2>8. Rising(inbox[b], acked[b], last(b))'
      BY <1>1, <2>5, <2>6 DEF Rising
    <2>9. acked'[b] = acked[b] /\ acked[b] <= printed
      BY <1>1, <1>2, <2>3, <2>4
    <2> QED
      BY <2>6, <2>7, <2>8, <2>9
  <1>7. ASSUME refused, NEW b \in Backups
        PROVE  /\ last(b)' = last(b) /\ acked'[b] = acked[b] /\ last(b) = 0
               /\ Rising(inbox[b], acked[b], last(b))'
    <2>1. b \in Procs /\ inbox' = inbox /\ acked' = acked
      BY <1>1, <1>7 DEF Backups
    <2>2. last(b) = 0 /\ Rising(inbox[b], acked[b], last(b))
      BY <1>2, <1>7 DEF CountInv, BackupCount
    <2> QED
      BY <2>1, <2>2, LastKept
  <1>6. BackupCount'
    <2>1. CASE refused
      BY <1>2, <1>7, <2>1 DEF CountInv, BackupCount
    <2>2. CASE ~refused
      BY <1>1, <1>2, <1>5, <2>2 DEF BackupCount
    <2> QED
      BY <2>1, <2>2
  <1> QED
    BY <1>3, <1>4, <1>6 DEF CountInv

LEMMA BindKeepsCount ==
    ASSUME Inv, CountInv, NEW b \in Procs, Bind(b) PROVE CountInv'
  <1>1. /\ role[b] = "starting" /\ UNCHANGED <<acked, inbox, unsent, refused, printed>>
        /\ role' \in {[role EXCEPT ![b] = "backup"], [role EXCEPT ![b] = "gone"]}
    BY DEF Bind
  <1>2. primaries' = primaries /\ Backups' \subseteq Backups \cup {b}
    BY <1>1 DEF primaries, Backups, Inv, TypeOK
  <1>3. FreshInv'
    BY <1>1 DEF CountInv, FreshInv, Inv, TypeOK
  <1>4. PrimaryCount'
    BY <1>1, <1>2 DEF CountInv, PrimaryCount
  <1>5. acked[b] = 0 /\ inbox[b] = <<>> /\ last(b) = 0
    BY <1>1 DEF CountInv, FreshInv, last
  <1>6. Rising(inbox[b], acked[b], last(b))
    BY <1>5 DEF Rising
  <1>7. \A c \in Procs : last(c)' = last(c) /\
           (Rising(inbox[c], acked[c], last(c))' <=> Rising(inbox[c], acked[c], last(c)))
    BY <1>1, LastKept
  <1>8. Backups \subseteq Procs
    BY DEF Backups
  <1>9. BackupCount'
    BY <1>1, <1>2, <1>5, <1>6, <1>7, <1>8 DEF CountInv, BackupCount
  <1> QED
    BY <1>3, <1>4, <1>9 DEF CountInv

LEMMA ReadKeepsCount ==
    ASSUME Inv, CountInv, NEW b \in Procs, Read(b) PROVE CountInv'
  <1>1. /\ role[b] = "backup" /\ inbox[b] # <<>>
        /\ acked' = [acked EXCEPT ![b] = IF Head(inbox[b]) > @ THEN Head(inbox[b]) ELSE @]
        /\ inbox' = [inbox EXCEPT ![b] = Tail(@)]
        /\ UNCHANGED <<role, unsent, refused, printed>>
    BY DEF Read
  <1>2. /\ primaries' = primaries /\ Backups' = Backups /\ Backups = {b}
        /\ b \notin primaries
    BY <1>1 DEF primaries, Backups, Inv, PortInv
  <1>3. /\ inbox[b] \in Seq(Nat) /\ acked[b] \in Nat /\ last(b) \in Nat
        /\ Rising(inbox[b], acked[b], last(b))
    BY <1>2 DEF Inv, TypeOK, CountInv, BackupCount
  <1>4. /\ acked[b] < Head(inbox[b]) /\ Head(inbox[b]) <= last(b)
        /\ Head(inbox[b]) \in Nat
        /\ Rising(Tail(inbox[b]), Head(inbox[b]), last(b))
        /\ IF Tail(inbox[b]) = <<>> THEN inbox[b][Len(inbox[b])] = Head(inbox[b])
           ELSE Tail(inbox[b])[Len(Tail(inbox[b]))] = inbox[b][Len(inbox[b])]
    BY <1>1, <1>3, RisingTail
  <1>5. acked'[b] = Head(inbox[b]) /\ inbox'[b] = Tail(inbox[b])
    BY <1>1, <1>4 DEF Inv, TypeOK
  <1>6. last(b)' = last(b)
    BY <1>1, <1>4, <1>5 DEF last
  <1>7. Rising(inbox[b], acked[b], last(b))'
    BY <1>4, <1>5, <1>6 DEF Rising
  <1>8. FreshInv'
    BY <1>1 DEF CountInv, FreshInv, Inv, TypeOK
  <1>9. PrimaryCount'
    BY <1>1, <1>2 DEF CountInv, PrimaryCount, Inv, TypeOK, primaries
  <1>10. \A p \in primaries : acked'[p] = acked[p]
    BY <1>1, <1>2 DEF primaries, Inv, TypeOK
  <1>11. BackupCount'
    BY <1>1, <1>2, <1>3, <1>4, <1>5, <1>6, <1>7, <1>10 DEF CountInv, BackupCount
  <1> QED
    BY <1>8, <1>9, <1>11 DEF CountInv

LEMMA TakeOverKeepsCount ==
    ASSUME Inv, CountInv, NEW b \in Procs, TakeOver(b) PROVE CountInv'
  <1>1. /\ role' = promoted(role, b) /\ unsent' = FALSE
        /\ inbox' = [inbox EXCEPT ![b] = <<>>] /\ UNCHANGED <<acked, printed>>
    BY DEF TakeOver
  <1>2. inbox[b] = <<>> /\ Backups = {b} /\ primaries = {}
    BY TakeOverAlone
  <1>3. /\ role'[b] = "primary"
        /\ \A q \in Procs \ {b} :
              role'[q] = role[q] \/ (role[q] = "none" /\ role'[q] = "starting")
    BY <1>1, PromotedRoles DEF Inv, TypeOK
  <1>4. primaries' = {b} /\ Backups' = {}
    BY <1>2, <1>3 DEF primaries, Backups
  <1>5. acked[b] = 0 \/ acked[b] = printed \/ acked[b] + 1 = printed
    BY <1>2 DEF CountInv, BackupCount, last
  <1>6. FreshInv'
    BY <1>1, <1>3 DEF CountInv, FreshInv, Inv, TypeOK
  <1> QED
    BY <1>1, <1>4, <1>5, <1>6 DEF CountInv, PrimaryCount, BackupCount

LEMMA KillKeepsCount ==
    ASSUME Inv, CountInv, NEW p \in Procs, Kill(p) PROVE CountInv'
  <1>1. /\ role[p] \in {"starting", "backup", "primary"}
        /\ role' = [role EXCEPT ![p] = "gone"]
        /\ acked' = [acked EXCEPT ![p] = 0]
        /\ inbox' = [inbox EXCEPT ![p] = <<>>]
        /\ unsent' = (unsent /\ role[p] # "primary")
        /\ refused' = (refused /\ role[p] # "primary")
        /\ UNCHANGED printed
    BY DEF Kill
  <1>2. primaries' = primaries \ {p} /\ Backups' = Backups \ {p}
    BY <1>1 DEF primaries, Backups, Inv, TypeOK
  <1>3. \A q \in Procs \ {p} : /\ acked'[q] = acked[q] /\ inbox'[q] = inbox[q]
                               /\ role'[q] = role[q]
    BY <1>1 DEF Inv, TypeOK
  <1>4. /\ Backups' \subseteq Procs \ {p} /\ primaries' \subseteq Procs \ {p}
        /\ Backups' \subseteq Backups /\ primaries' \subseteq primaries
    BY <1>2 DEF Backups, primaries
  <1>5. primaries' # {} => unsent' = unsent /\ refused' = refused
    BY <1>1, <1>2 DEF Inv, OnePrimary, primaries, TypeOK
  <1>6. FreshInv'
    BY <1>1, <1>3 DEF CountInv, FreshInv, Inv, TypeOK
  <1>7. PrimaryCount'
    BY <1>1, <1>3, <1>4, <1>5 DEF CountInv, PrimaryCount
  <1>8. BackupCount'
    BY <1>1, <1>3, <1>4, <1>5, LastKept DEF CountInv, BackupCount
  <1> QED
    BY <1>6, <1>7, <1>8 DEF CountInv

\* A step that leaves the processes' roles and counts as they are.
LEMMA OtherStepKeepsCount ==
    ASSUME CountInv, UNCHANGED <<role, acked, inbox, unsent, refused, printed>>
    PROVE  CountInv'
  <1>1. primaries' = primaries /\ Backups' = Backups /\ Backups \subseteq Procs
    BY DEF primaries, Backups
  <1>2. FreshInv' /\ PrimaryCount'
    BY <1>1 DEF CountInv, FreshInv, PrimaryCount
  <1>3. BackupCount'
    BY <1>1, LastKept DEF CountInv, BackupCount
  <1> QED
    BY <1>2, <1>3 DEF CountInv

LEMMA CountStep ==
    ASSUME Inv, CountInv, [Next]_vars
    PROVE  /\ CountInv'
           /\ printed' # printed /\ printed' # 1 => printed' = printed + 1
  <1>1. ASSUME NEW p \in Procs, PrintNext(p)
        PROVE  /\ CountInv'
               /\ printed' # printed /\ printed' # 1 => printed' = printed + 1
    <2>1. printed' = acked[p] + 1
      BY <1>1 DEF PrintNext
    <2> QED
      BY <1>1, <2>1, PrintNextKeepsCount
  <1>2. ASSUME NEW p \in Procs, Send(p) \/ Bind(p) \/ Read(p) \/ TakeOver(p) \/ Kill(p)
        PROVE  CountInv' /\ printed' = printed
    <2>1. printed' = printed
      BY <1>2 DEF Send, Bind, Read, TakeOver, Kill
    <2> QED
      BY <1>2, <2>1, SendKeepsCount, BindKeepsCount, ReadKeepsCount, TakeOverKeepsCount,
         KillKeepsCount
  <1>3. ASSUME NEW p \in Procs, Miss(p) PROVE CountInv' /\ printed' = printed
    BY <1>3, OtherStepKeepsCount DEF Miss
  <1>4. CASE Tick
    BY <1>4, OtherStepKeepsCount DEF Tick
  <1>5. CASE UNCHANGED vars
    BY <1>5, OtherStepKeepsCount DEF vars, procs
  <1> QED
    BY <1>1, <1>2, <1>3, <1>4, <1>5 DEF Next

\* Whoever is killed when, the next number printed is the last one, the one after
\* it, or 1: no number is skipped (pairs.go:53-64, 94-102).
THEOREM CountNeverSkips == Spec => CountGoesOn
  <1>1. Inv /\ CountInv /\ [Next]_vars =>
            [printed' # printed /\ printed' # 1 => printed' = printed + 1]_vars
    BY CountStep
  <1>2. Inv /\ CountInv /\ [Next]_vars => CountInv'
    BY CountStep
  <1> QED
    BY <1>1, <1>2, InvInit, InvInductive, CountInit, PTL DEF Spec, CountGoesOn
================================================================================
