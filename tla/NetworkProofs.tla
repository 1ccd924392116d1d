----------------------------- MODULE NetworkProofs -----------------------------
(***************************************************************************)
(* What holds of Network for any fleet, any limits and any bounds: the     *)
(* changes add up to the list, and no hello comes twice or out of order.   *)
(* Neither rests on NetworkAssumption: both hold with a main loop that is  *)
(* away for as long as it likes and a network that loses what it likes.    *)
(* That nobody is lost who is there does rest on it.                       *)
(***************************************************************************)
EXTENDS Network, SequenceTheorems, FiniteSetTheorems, TLAPS

(***************************************************************************)
(* Peers.  The list that the main loop has is the receiver's table, or     *)
(* becomes it with the one update that the receiver waits to hand over.    *)
(***************************************************************************)
PeersInv ==
    /\ followed = peers
    /\ peerUpdateCh = <<>> => peers = DOMAIN lastSeen
    /\ peerUpdateCh # <<>> =>
          LET p == Head(peerUpdateCh)
          IN  /\ p.peers = DOMAIN lastSeen
              /\ p.peers = (peers \cup p.new) \ p.lost

\* Once round the receiver's loop keeps it, whatever was read.
LEMMA IterateKeepsPeers ==
    ASSUME PeersInv, peerUpdateCh = <<>>, UNCHANGED mainLoop,
           NEW id, Iterate(id)
    PROVE  PeersInv'
  <1> DEFINE new == id \ DOMAIN lastSeen
  <1>1. PICK lost \in SUBSET DOMAIN seen(id) :
            /\ lastSeen' = [n \in DOMAIN seen(id) \ lost |-> seen(id)[n]]
            /\ IF new # {} \/ lost # {}
               THEN offered([peers |-> DOMAIN seen(id) \ lost, new |-> new, lost |-> lost])
               ELSE UNCHANGED peerUpdateCh
    BY DEF Iterate
  <1>2. DOMAIN seen(id) = DOMAIN lastSeen \cup id
    BY DEF seen
  <1>3. DOMAIN lastSeen' = (DOMAIN lastSeen \cup id) \ lost
    BY <1>1, <1>2
  <1>4. peers = DOMAIN lastSeen /\ followed' = peers' /\ peers' = peers
    BY DEF PeersInv, mainLoop
  <1>5. CASE new # {} \/ lost # {}
    <2>1. peerUpdateCh' =
            <<[peers |-> DOMAIN seen(id) \ lost, new |-> new, lost |-> lost]>>
      BY <1>1, <1>5 DEF offered
    <2>2. DOMAIN lastSeen' = (peers' \cup new) \ lost
      BY <1>3, <1>4
    <2> QED
      BY <1>2, <1>3, <1>4, <2>1, <2>2 DEF PeersInv
  <1>6. CASE new = {} /\ lost = {}
    <2>1. DOMAIN lastSeen' = DOMAIN lastSeen
      BY <1>3, <1>6
    <2> QED
      BY <1>1, <1>4, <1>6, <2>1 DEF PeersInv
  <1> QED
    BY <1>5, <1>6

LEMMA PeersInvInductive == PeersInv /\ [Next]_vars => PeersInv'
  <1> SUFFICES ASSUME PeersInv, [Next]_vars PROVE PeersInv'
    OBVIOUS
  <1>1. ASSUME NEW n \in Node, Enable(n) \/ Disable(n) PROVE PeersInv'
    BY <1>1 DEF PeersInv, Enable, Disable, receiver, mainLoop
  <1>2. CASE ReadFrom
    BY <1>2, IterateKeepsPeers DEF ReadFrom
  <1>3. CASE ReadTimesOut
    BY <1>3, IterateKeepsPeers DEF ReadTimesOut
  <1>4. CASE HelloArrives \/ ReadHello \/ TakeHello
    BY <1>4 DEF PeersInv, HelloArrives, ReadHello, TakeHello, receiver, mainLoop
  <1>5. CASE TakePeerUpdate
    BY <1>5 DEF PeersInv, TakePeerUpdate, receiver
  <1>6. CASE Tick
    <2>1. DOMAIN lastSeen' = DOMAIN lastSeen
      BY <1>6 DEF Tick
    <2> QED
      BY <1>6, <2>1 DEF PeersInv, Tick, mainLoop
  <1>7. CASE UNCHANGED vars
    BY <1>7 DEF PeersInv, vars, receiver, mainLoop
  <1> QED
    BY <1>1, <1>2, <1>3, <1>4, <1>5, <1>6, <1>7 DEF Next

\* A main loop that only follows New and Lost (Network-go/main.go:69-76) has the
\* right list of peers, however long it lets the receiver wait.
THEOREM ChangesFollowed == Spec => []ChangesAddUp
  <1>1. Init => PeersInv
    BY DEF Init, PeersInv, nobody
  <1>2. PeersInv => ChangesAddUp
    BY DEF PeersInv, ChangesAddUp
  <1> QED
    BY <1>1, <1>2, PeersInvInductive, PTL DEF Spec

(***************************************************************************)
(* Hellos.  What lies in the socket is in the order it arrived in, and     *)
(* newer than what was taken.                                              *)
(***************************************************************************)
\* The newest hello that the main loop has or is about to get.
newest == IF helloRx = <<>> THEN heard ELSE Head(helloRx)

HelloInv ==
    /\ arrived \in Nat /\ heard \in Nat /\ newest \in heard .. arrived
    /\ datagrams \in Seq(Nat)
    /\ \A i \in 1 .. Len(datagrams) :
          /\ newest < datagrams[i] /\ datagrams[i] <= arrived
          /\ \A k \in 1 .. Len(datagrams) : k < i => datagrams[k] < datagrams[i]
    /\ helloRx # <<>> => newest > heard

\* A hello that arrives is read after all those that have arrived.
LEMMA HelloArrivesKeeps == HelloInv /\ HelloArrives => HelloInv'
  <1> SUFFICES ASSUME HelloInv, HelloArrives PROVE HelloInv'
    OBVIOUS
  <1>1. /\ arrived' = arrived + 1 /\ UNCHANGED <<helloRx, heard>>
        /\ datagrams' = Append(datagrams, arrived + 1)
    BY DEF HelloArrives
  <1>2. /\ newest' = newest /\ newest \in Nat /\ newest <= arrived /\ newest >= heard
        /\ arrived \in Nat /\ heard \in Nat /\ newest' \in heard' .. arrived'
        /\ helloRx' # <<>> => newest' > heard'
    BY <1>1 DEF newest, HelloInv
  <1>3. /\ datagrams \in Seq(Nat) /\ Len(datagrams) \in Nat
        /\ \A i \in 1 .. Len(datagrams) : datagrams[i] \in Nat
    BY ElementOfSeq, LenProperties DEF HelloInv
  <1>4. /\ datagrams' \in Seq(Nat) /\ Len(datagrams') = Len(datagrams) + 1
        /\ \A i \in 1 .. Len(datagrams) : datagrams'[i] = datagrams[i]
        /\ datagrams'[Len(datagrams) + 1] = arrived + 1
    BY <1>1, <1>2, <1>3, AppendProperties
  <1>5. ASSUME NEW i \in 1 .. Len(datagrams')
        PROVE  /\ newest < datagrams'[i] /\ datagrams'[i] <= arrived + 1
               /\ \A k \in 1 .. Len(datagrams') : k < i => datagrams'[k] < datagrams'[i]
    <2>1. CASE i \in 1 .. Len(datagrams)
      <3>1. /\ datagrams'[i] = datagrams[i] /\ datagrams[i] \in Nat
            /\ newest < datagrams[i] /\ datagrams[i] <= arrived
        BY <1>3, <1>4, <2>1 DEF HelloInv
      <3>2. ASSUME NEW k \in 1 .. Len(datagrams'), k < i
            PROVE  datagrams'[k] < datagrams'[i]
        <4>1. k \in 1 .. Len(datagrams)
          BY <1>3, <1>4, <2>1, <3>2
        <4> QED
          BY <1>4, <2>1, <3>2, <4>1 DEF HelloInv
      <3> QED
        BY <1>2, <3>1, <3>2
    <2>2. CASE i = Len(datagrams) + 1
      <3>1. ASSUME NEW k \in 1 .. Len(datagrams'), k < i
            PROVE  datagrams'[k] \in Nat /\ datagrams'[k] <= arrived
        BY <1>2, <1>3, <1>4, <2>2, <3>1 DEF HelloInv
      <3> QED
        BY <1>2, <1>4, <2>2, <3>1
    <2> QED
      BY <1>3, <1>4, <2>1, <2>2
  <1> QED
    BY <1>1, <1>2, <1>4, <1>5 DEF HelloInv

\* The hello that is read is older than all the others in the socket.
LEMMA ReadHelloKeeps == HelloInv /\ ReadHello => HelloInv'
  <1> SUFFICES ASSUME HelloInv, ReadHello PROVE HelloInv'
    OBVIOUS
  <1>1. /\ helloRx = <<>> /\ datagrams # <<>> /\ UNCHANGED <<arrived, heard>>
        /\ helloRx' \in {<<>>, <<Head(datagrams)>>}
        /\ datagrams' = Tail(datagrams)
    BY DEF ReadHello
  <1>2. newest = heard /\ heard \in Nat /\ arrived \in Nat /\ heard <= arrived
    BY <1>1 DEF newest, HelloInv
  <1>3. /\ datagrams \in Seq(Nat) /\ Len(datagrams) \in Nat \ {0}
        /\ \A i \in 1 .. Len(datagrams) : datagrams[i] \in Nat
        /\ Head(datagrams) = datagrams[1]
    BY <1>1, ElementOfSeq, LenProperties, EmptySeq DEF HelloInv
  <1>4. /\ datagrams' \in Seq(Nat) /\ Len(datagrams') = Len(datagrams) - 1
        /\ \A i \in 1 .. Len(datagrams') : datagrams'[i] = datagrams[i + 1]
    BY <1>1, <1>3, HeadTailProperties
  <1>5. heard < datagrams[1] /\ datagrams[1] <= arrived
    BY <1>2, <1>3 DEF HelloInv
  <1>6. /\ newest' \in {heard, datagrams[1]}
        /\ helloRx' # <<>> => newest' = datagrams[1]
    BY <1>1, <1>3 DEF newest
  <1>7. ASSUME NEW i \in 1 .. Len(datagrams')
        PROVE  /\ newest' < datagrams'[i] /\ datagrams'[i] <= arrived
               /\ \A k \in 1 .. Len(datagrams') : k < i => datagrams'[k] < datagrams'[i]
    <2>1. i + 1 \in 1 .. Len(datagrams) /\ 1 \in 1 .. Len(datagrams) /\ 1 < i + 1
      BY <1>3, <1>4
    <2>2. datagrams'[i] = datagrams[i + 1] /\ datagrams[i + 1] \in Nat
      BY <1>3, <1>4, <2>1
    <2>3. datagrams[1] < datagrams[i + 1] /\ datagrams[i + 1] <= arrived
      BY <2>1 DEF HelloInv
    <2>4. newest' < datagrams'[i]
      BY <1>2, <1>3, <1>5, <1>6, <2>1, <2>2, <2>3
    <2>5. ASSUME NEW k \in 1 .. Len(datagrams'), k < i PROVE datagrams'[k] < datagrams'[i]
      <3>1. k + 1 \in 1 .. Len(datagrams) /\ k + 1 < i + 1
        BY <1>3, <1>4, <2>5
      <3> QED
        BY <1>4, <2>1, <3>1 DEF HelloInv
    <2> QED
      BY <2>2, <2>3, <2>4, <2>5
  <1>8. newest' \in heard .. arrived /\ (helloRx' # <<>> => newest' > heard)
    BY <1>2, <1>3, <1>5, <1>6
  <1> QED
    BY <1>1, <1>2, <1>4, <1>7, <1>8 DEF HelloInv

LEMMA HelloInvInductive == HelloInv /\ [Next]_vars => HelloInv'
  <1> SUFFICES ASSUME HelloInv, [Next]_vars PROVE HelloInv'
    OBVIOUS
  <1>1. ASSUME UNCHANGED hello PROVE HelloInv'
    BY <1>1 DEF hello, HelloInv, newest
  <1>2. CASE HelloArrives \/ ReadHello
    BY <1>2, HelloArrivesKeeps, ReadHelloKeeps
  <1>3. CASE TakeHello
    <2>1. /\ helloRx # <<>> /\ heard' = Head(helloRx) /\ helloRx' = <<>>
          /\ UNCHANGED <<arrived, datagrams>>
      BY <1>3 DEF TakeHello
    <2>2. newest' = newest /\ heard' = newest
      BY <2>1 DEF newest
    <2> QED
      BY <2>1, <2>2 DEF HelloInv
  <1>4. ASSUME NEW n \in Node, Enable(n) \/ Disable(n) PROVE HelloInv'
    BY <1>1, <1>4 DEF Enable, Disable
  <1>5. CASE ReadFrom \/ ReadTimesOut \/ TakePeerUpdate \/ Tick
    BY <1>1, <1>5 DEF ReadFrom, ReadTimesOut, TakePeerUpdate, Tick
  <1>6. CASE UNCHANGED vars
    BY <1>1, <1>6 DEF vars
  <1> QED
    BY <1>2, <1>3, <1>4, <1>5, <1>6 DEF Next

\* The main loop never gets a datagram again, or after one that arrived later
\* (bcast.go:58-77): whoever sends them, in whatever order they arrive, however
\* many reads fail or are skipped, and however late it takes them.
THEOREM HellosInOrder == Spec => []HelloOnce
  <1>1. Init => HelloInv
    BY EmptySeq DEF Init, HelloInv, newest
  <1>2. HelloInv => HelloOnce
    BY DEF HelloInv, HelloOnce, newest
  <1> QED
    BY <1>1, <1>2, HelloInvInductive, PTL DEF Spec

(***************************************************************************)
(* Losses.  A process that is there is read before the limit.  What lies   *)
(* in the socket gets older only while an update waits for the main loop,  *)
(* and every update brings a change that cannot come again before the      *)
(* process is read: another one goes, or is read.                          *)
(***************************************************************************)
Present == DOMAIN lastSeen
InSocket(n) == \E i \in 1 .. Len(socket) : socket[i] = n

\* Who has been read since n was, and who has been read or gone.
ReadSince(n) == {m \in Present \ {n} : lastSeen[m] <= lastSeen[n]}
Changed(n)   == (Node \ (Present \cup {n})) \cup ReadSince(n)

\* The updates there may have been since, and how often the main loop was away.
updates(n) == Cardinality(Changed(n)) + Cardinality(ReadSince(n))
stalls(n)  == IF updates(n) = 0 THEN 1 ELSE updates(n)

\* How long the main loop may still be away.
toCome == IF peerUpdateCh = <<>> THEN 0 ELSE MaxStall - waited

TypeInv ==
    /\ transmitting \subseteq Node /\ socket \in Seq(Node)
    /\ Present \subseteq Node /\ \A n \in Present : lastSeen[n] \in Nat
    /\ missed \in [Node -> 0 .. Loss]
    /\ waited \in 0 .. MaxStall /\ (peerUpdateCh = <<>> => waited = 0)

HeardInv ==
    \A n \in Node \ transmitting : n \in interrupted \/ (n \notin Present /\ ~InSocket(n))

AgeInv ==
    \A n \in Present \ interrupted :
        IF InSocket(n)
        THEN lastSeen[n] + toCome <= Loss + MaxStall * stalls(n)
        ELSE lastSeen[n] <= missed[n]

LossInv == TypeInv /\ HeardInv /\ AgeInv

\* What arrives in an interval arrives in some order, all of it.
LEMMA AllInOrder ==
    ASSUME NEW S, IsFiniteSet(S), NEW s \in SetToSeqs(S)
    PROVE  s \in Seq(S) /\ \A x \in S : \E i \in 1 .. Len(s) : s[i] = x
  <1> DEFINE D == 1 .. Cardinality(S)
  <1>1. Cardinality(S) \in Nat
    BY FS_CardinalityType
  <1>2. s \in [D -> S] /\ \A i, j \in D : i # j => s[i] # s[j]
    BY DEF SetToSeqs
  <1>3. s \in Injection(D, S)
    BY <1>2 DEF Injection, IsInjective
  <1>4. Cardinality(D) = Cardinality(S)
    BY <1>1, FS_Interval
  <1>5. s \in Surjection(D, S)
    BY <1>3, <1>4, FS_Injection
  <1>6. \A x \in S : \E i \in D : s[i] = x
    BY <1>5 DEF Surjection
  <1>7. s \in Seq(S) /\ Len(s) = Cardinality(S)
    BY <1>1, <1>2, SeqDef, LenProperties
  <1> QED
    BY <1>6, <1>7

\* A finite set that grows.
LEMMA CountGrows ==
    ASSUME NEW B, IsFiniteSet(B), NEW A, A \subseteq B
    PROVE  /\ Cardinality(A) \in Nat /\ Cardinality(B) \in Nat
           /\ Cardinality(A) <= Cardinality(B)
           /\ A # B => Cardinality(A) + 1 <= Cardinality(B)
  <1>1. IsFiniteSet(A) /\ Cardinality(A) <= Cardinality(B)
        /\ (Cardinality(B) = Cardinality(A) => B = A)
    BY FS_Subset
  <1>2. Cardinality(A) \in Nat /\ Cardinality(B) \in Nat
    BY <1>1, FS_CardinalityType
  <1> QED
    BY <1>1, <1>2

LEMMA Products ==
    ASSUME NEW a \in Nat, NEW b \in Nat, NEW c \in Nat, a <= b
    PROVE  /\ c * a \in Nat /\ c * b \in Nat /\ c * a <= c * b
           /\ c * (a + 1) = c * a + c
  OBVIOUS

LEMMA StallsBound ==
    ASSUME TypeInv, NEW n \in Node
    PROVE  /\ IsFiniteSet(Changed(n)) /\ IsFiniteSet(ReadSince(n))
           /\ updates(n) \in Nat /\ updates(n) <= 2 * (Cardinality(Node) - 1)
           /\ stalls(n) \in Nat \ {0} /\ Cardinality(Node) \in Nat \ {0}
  <1> DEFINE others == Node \ {n}
  <1>1. IsFiniteSet(Node)
    BY NetworkAssumption
  <1>2. IsFiniteSet(others) /\ Cardinality(others) = Cardinality(Node) - 1
        /\ Cardinality(Node) \in Nat /\ Cardinality(others) \in Nat
    BY <1>1, FS_RemoveElement, FS_CardinalityType
  <1>3. ReadSince(n) \subseteq others /\ Changed(n) \subseteq others
    BY DEF TypeInv, ReadSince, Changed
  <1> HIDE DEF others
  <1>4. IsFiniteSet(Changed(n)) /\ IsFiniteSet(ReadSince(n))
    BY <1>2, <1>3, FS_Subset
  <1>5. /\ Cardinality(Changed(n)) \in Nat /\ Cardinality(Changed(n)) <= Cardinality(others)
        /\ Cardinality(ReadSince(n)) \in Nat
        /\ Cardinality(ReadSince(n)) <= Cardinality(others)
    BY <1>2, <1>3, CountGrows
  <1>6. updates(n) \in Nat /\ updates(n) <= 2 * (Cardinality(Node) - 1)
    BY <1>2, <1>5 DEF updates
  <1> QED
    BY <1>2, <1>4, <1>6 DEF stalls

LEMMA StallsType ==
    TypeInv => \A k \in Node : /\ IsFiniteSet(Changed(k)) /\ IsFiniteSet(ReadSince(k))
                               /\ stalls(k) \in Nat \ {0}
  BY StallsBound

LEMMA StallsTypeNext ==
    (TypeInv => \A k \in Node : /\ IsFiniteSet(Changed(k)) /\ IsFiniteSet(ReadSince(k))
                                /\ stalls(k) \in Nat \ {0})'
  BY StallsType, PTL

\* Who is there has not reached the limit when another one is read, or when the
\* read times out.
LEMMA BelowLimit ==
    ASSUME TypeInv, AgeInv, NEW n \in Present \ interrupted,
           ~InSocket(n) \/ (\E h \in Node : h # n)
    PROVE  lastSeen[n] < Timeout
  <1> DEFINE N == Cardinality(Node)
  <1>1. n \in Node /\ lastSeen[n] \in Nat /\ missed[n] \in 0 .. Loss /\ toCome \in Nat
    BY NetworkAssumption DEF TypeInv, toCome
  <1>2. /\ Loss \in Nat /\ Timeout \in Nat /\ MaxStall \in Nat
        /\ Loss + 2 * (N - 1) * MaxStall < Timeout
    BY NetworkAssumption
  <1>3. N \in Nat \ {0} /\ stalls(n) \in Nat \ {0} /\ updates(n) <= 2 * (N - 1)
    BY <1>1, StallsBound
  <1>4. CASE ~InSocket(n)
    <2>1. lastSeen[n] <= Loss
      BY <1>1, <1>2, <1>4 DEF AgeInv
    <2>2. N - 1 \in Nat /\ 2 * (N - 1) \in Nat /\ (2 * (N - 1)) * MaxStall \in Nat
      BY <1>2, <1>3
    <2> QED
      BY <1>1, <1>2, <2>1, <2>2
  <1>5. CASE InSocket(n) /\ \E h \in Node : h # n
    <2>1. N >= 2
      <3>1. PICK h \in Node : h # n
        BY <1>5
      <3>2. N # 1
        BY <1>1, <3>1, FS_Singleton, NetworkAssumption
      <3> QED
        BY <1>3, <3>2
    <2> DEFINE most == 2 * (N - 1)
    <2>2. most \in Nat /\ most >= 1 /\ stalls(n) <= most
      BY <1>3, <2>1 DEF stalls
    <2> HIDE DEF most
    <2>3. /\ MaxStall * stalls(n) \in Nat /\ MaxStall * most \in Nat
          /\ MaxStall * stalls(n) <= MaxStall * most
      BY <1>2, <1>3, <2>2, Products
    <2>4. MaxStall * most = most * MaxStall
      BY <1>2, <2>2
    <2>5. lastSeen[n] + toCome <= Loss + MaxStall * stalls(n)
      BY <1>5 DEF AgeInv
    <2>6. Loss + most * MaxStall < Timeout
      BY <1>2 DEF most
    <2> QED
      BY <1>1, <1>2, <2>3, <2>4, <2>5, <2>6
  <1> QED
    BY <1>4, <1>5

\* What can be said of the table after once round the receiver's loop.
LEMMA IterateIs ==
    ASSUME NEW id, Iterate(id)
    PROVE  \E lost \in SUBSET (Present \cup id) :
              /\ Present' = (Present \cup id) \ lost
              /\ \A n \in Present' : lastSeen'[n] = IF n \in id THEN 0 ELSE lastSeen[n]
              /\ \A n \in lost : ~((IF n \in id THEN 0 ELSE lastSeen[n]) < Timeout)
              /\ peerUpdateCh' # peerUpdateCh => lost # {} \/ \E n \in id : n \notin Present
  <1>1. DOMAIN seen(id) = Present \cup id
        /\ \A n \in DOMAIN seen(id) : seen(id)[n] = IF n \in id THEN 0 ELSE lastSeen[n]
    BY DEF seen, Present
  <1>2. PICK lost \in SUBSET DOMAIN seen(id) :
            /\ \A n \in DOMAIN seen(id) : (n \in lost) \in expired(seen(id)[n])
            /\ lastSeen' = [n \in DOMAIN seen(id) \ lost |-> seen(id)[n]]
            /\ id \ DOMAIN lastSeen # {} \/ lost # {} \/ UNCHANGED peerUpdateCh
    BY DEF Iterate
  <1>3. ASSUME NEW n \in lost, seen(id)[n] < Timeout PROVE FALSE
    <2>1. expired(seen(id)[n]) = {FALSE}
      BY <1>3 DEF expired
    <2>2. (n \in lost) = FALSE
      BY <1>2, <2>1
    <2> QED
      BY <2>2
  <1>4. Present' = (Present \cup id) \ lost
        /\ \A n \in Present' : lastSeen'[n] = IF n \in id THEN 0 ELSE lastSeen[n]
    BY <1>1, <1>2 DEF Present
  <1> QED
    BY <1>1, <1>2, <1>3, <1>4 DEF Present

\* Reading another one keeps the tally of a process that still waits in the
\* socket, and an update adds to it.
LEMMA ReadGrows ==
    ASSUME TypeInv, AgeInv, TypeInv', NEW h \in Node, Iterate({h}),
           NEW n \in Present \ interrupted, n # h, n \in Present'
    PROVE  /\ stalls(n) <= stalls(n)'
           /\ peerUpdateCh' # peerUpdateCh => stalls(n) + 1 <= stalls(n)'
  <1>1. PICK lost \in SUBSET (Present \cup {h}) :
            /\ Present' = (Present \cup {h}) \ lost
            /\ \A m \in Present' : lastSeen'[m] = IF m \in {h} THEN 0 ELSE lastSeen[m]
            /\ \A m \in lost : ~((IF m \in {h} THEN 0 ELSE lastSeen[m]) < Timeout)
            /\ peerUpdateCh' # peerUpdateCh => lost # {} \/ h \notin Present
    BY IterateIs
  <1>2. /\ lastSeen[n] < Timeout /\ Timeout \in Nat /\ n \in Node
        /\ \A m \in Present : lastSeen[m] \in Nat
    BY BelowLimit, NetworkAssumption DEF TypeInv
  <1>3. h \notin lost /\ h \in Present' /\ lastSeen'[h] = 0 /\ lastSeen'[n] = lastSeen[n]
    BY <1>1, <1>2
  <1>4. \A m \in ReadSince(n) : m \notin lost
    BY <1>1, <1>2, <1>3 DEF ReadSince
  <1>5. ReadSince(n) \subseteq ReadSince(n)'
    BY <1>1, <1>2, <1>3, <1>4 DEF ReadSince
  <1>6. h \in ReadSince(n)' /\ h \in Changed(n)'
    BY <1>2, <1>3 DEF ReadSince, Changed
  <1>7. Changed(n) \subseteq Changed(n)'
    BY <1>1, <1>5, <1>6 DEF Changed
  <1>8. ASSUME peerUpdateCh' # peerUpdateCh
        PROVE  Changed(n) # Changed(n)' \/ ReadSince(n) # ReadSince(n)'
    <2>1. CASE h \notin Present
      BY <1>6, <2>1 DEF ReadSince
    <2>2. CASE lost # {}
      <3>1. PICK p \in lost : TRUE
        BY <2>2
      <3>2. p # h /\ p # n /\ p \in Present /\ ~(lastSeen[p] < Timeout) /\ p \notin Present'
        BY <1>1, <1>3, <3>1
      <3>3. p \in Node /\ p \notin Changed(n)
        BY <1>2, <3>2 DEF TypeInv, Changed, ReadSince
      <3>4. p \in Changed(n)'
        BY <3>2, <3>3 DEF Changed
      <3> QED
        BY <3>3, <3>4
    <2> QED
      BY <1>1, <1>8, <2>1, <2>2
  <1>9. /\ IsFiniteSet(Changed(n)') /\ IsFiniteSet(ReadSince(n)')
        /\ stalls(n) \in Nat \ {0} /\ stalls(n)' \in Nat \ {0}
    BY <1>2, StallsType, StallsTypeNext
  <1> DEFINE c == Cardinality(Changed(n))
             d == Cardinality(Changed(n)')
             r == Cardinality(ReadSince(n))
             s == Cardinality(ReadSince(n)')
  <1>10. /\ c \in Nat /\ d \in Nat /\ c <= d /\ (Changed(n) # Changed(n)' => c + 1 <= d)
         /\ r \in Nat /\ s \in Nat /\ r <= s /\ (ReadSince(n) # ReadSince(n)' => r + 1 <= s)
    BY <1>5, <1>7, <1>9, CountGrows
  <1>11. d >= 1 /\ s >= 1
    BY <1>6, <1>9, <1>10, FS_EmptySet
  <1>12. updates(n) = c + r /\ updates(n)' = d + s
    BY DEF updates
  <1> HIDE DEF c, d, r, s
  <1>13. CASE peerUpdateCh' # peerUpdateCh
    <2>1. c + r + 1 <= d + s
      BY <1>8, <1>10, <1>13
    <2> QED
      BY <1>10, <1>11, <1>12, <2>1 DEF stalls
  <1>14. CASE peerUpdateCh' = peerUpdateCh
    BY <1>10, <1>11, <1>12, <1>14 DEF stalls
  <1> QED
    BY <1>13, <1>14

\* The socket without its head.
LEMMA SocketTail ==
    ASSUME socket \in Seq(Node), socket # <<>>, socket' = Tail(socket)
    PROVE  /\ Head(socket) \in Node /\ socket' \in Seq(Node)
           /\ \A n : InSocket(n)' => InSocket(n)
           /\ \A n : InSocket(n) /\ n # Head(socket) => InSocket(n)'
           /\ InSocket(Head(socket))
  <1>1. /\ Head(socket) \in Node /\ Head(socket) = socket[1] /\ socket' \in Seq(Node)
        /\ Len(socket) \in Nat \ {0} /\ Len(socket') = Len(socket) - 1
        /\ \A i \in 1 .. Len(socket') : socket'[i] = socket[i + 1]
    BY HeadTailProperties, EmptySeq, LenProperties
  <1>2. ASSUME NEW n, InSocket(n)' PROVE InSocket(n)
    <2>1. PICK i \in 1 .. Len(socket') : socket'[i] = n
      BY <1>2 DEF InSocket
    <2>2. i + 1 \in 1 .. Len(socket) /\ socket[i + 1] = n
      BY <1>1, <2>1
    <2> QED
      BY <2>2 DEF InSocket
  <1>3. ASSUME NEW n, InSocket(n), n # Head(socket) PROVE InSocket(n)'
    <2>1. PICK i \in 1 .. Len(socket) : socket[i] = n
      BY <1>3 DEF InSocket
    <2>2. i # 1
      BY <1>1, <1>3, <2>1
    <2>3. i - 1 \in 1 .. Len(socket') /\ (i - 1) + 1 = i
      BY <1>1, <2>2
    <2>4. socket'[i - 1] = n
      BY <1>1, <2>1, <2>3
    <2> QED
      BY <2>3, <2>4 DEF InSocket
  <1>4. InSocket(Head(socket))
    BY <1>1 DEF InSocket
  <1> QED
    BY <1>1, <1>2, <1>3, <1>4

LEMMA ReadFromKeepsLoss == LossInv /\ ReadFrom => LossInv'
  <1> SUFFICES ASSUME LossInv, ReadFrom PROVE LossInv'
    OBVIOUS
  <1> DEFINE h == Head(socket)
  <1>1. /\ peerUpdateCh = <<>> /\ socket # <<>> /\ socket' = Tail(socket) /\ Iterate({h})
        /\ interrupted' = interrupted \ ({h} \cap transmitting)
        /\ UNCHANGED <<transmitting, missed, waited>>
    BY DEF ReadFrom
  <1>2. TypeInv /\ HeardInv /\ AgeInv
    BY DEF LossInv
  <1>3. /\ h \in Node /\ socket' \in Seq(Node) /\ InSocket(h)
        /\ \A n : InSocket(n)' => InSocket(n)
        /\ \A n : InSocket(n) /\ n # h => InSocket(n)'
    BY <1>1, <1>2, SocketTail DEF TypeInv
  <1> HIDE DEF h
  <1>4. /\ Present' \subseteq Present \cup {h}
        /\ \A n \in Present' : lastSeen'[n] = IF n \in {h} THEN 0 ELSE lastSeen[n]
    BY <1>1, IterateIs
  <1>5. /\ Loss \in Nat /\ MaxStall \in Nat \ {0} /\ waited = 0
        /\ missed \in [Node -> 0 .. Loss]
    BY <1>1, <1>2, NetworkAssumption DEF TypeInv
  <1>6. TypeInv'
    <2>1. Present' \subseteq Node
      BY <1>2, <1>3, <1>4 DEF TypeInv
    <2>2. ASSUME NEW n \in Present' PROVE lastSeen'[n] \in Nat
      <3>1. CASE n = h
        BY <1>4, <3>1
      <3>2. CASE n # h
        BY <1>2, <1>4, <3>2 DEF TypeInv
      <3> QED
        BY <3>1, <3>2
    <2> QED
      BY <1>1, <1>2, <1>3, <1>5, <2>1, <2>2 DEF TypeInv
  <1>7. HeardInv'
    BY <1>1, <1>2, <1>3, <1>4 DEF HeardInv
  <1>8. AgeInv'
    <2> SUFFICES ASSUME NEW n \in Present', n \notin interrupted'
                 PROVE  IF InSocket(n)'
                        THEN lastSeen'[n] + toCome' <= Loss + MaxStall * stalls(n)'
                        ELSE lastSeen'[n] <= missed'[n]
      BY DEF AgeInv
    <2>1. n \in Node /\ stalls(n)' \in Nat \ {0} /\ toCome' \in {0, MaxStall}
      BY <1>1, <1>5, <1>6, StallsTypeNext DEF TypeInv, toCome
    <2>2. CASE n = h
      <3>1. MaxStall * 1 <= MaxStall * stalls(n)' /\ MaxStall * stalls(n)' \in Nat
        BY <1>5, <2>1, Products
      <3> QED
        BY <1>1, <1>4, <1>5, <2>1, <2>2, <3>1
    <2>3. CASE n # h
      <3>1. n \in Present \ interrupted /\ lastSeen'[n] = lastSeen[n]
            /\ (InSocket(n)' <=> InSocket(n)) /\ lastSeen[n] \in Nat
        BY <1>1, <1>2, <1>3, <1>4, <2>3 DEF TypeInv
      <3>2. CASE ~InSocket(n)
        BY <1>1, <1>2, <3>1, <3>2 DEF AgeInv
      <3>3. CASE InSocket(n)
        <4>1. lastSeen[n] <= Loss + MaxStall * stalls(n) /\ stalls(n) \in Nat \ {0}
          BY <1>1, <1>2, <2>1, <3>1, <3>3, StallsType DEF AgeInv, toCome
        <4>2. /\ stalls(n) <= stalls(n)'
              /\ peerUpdateCh' # peerUpdateCh => stalls(n) + 1 <= stalls(n)'
          BY <1>1, <1>2, <1>3, <1>6, <2>3, <3>1, ReadGrows
        <4> DEFINE a == stalls(n)
                   b == stalls(n)'
        <4>3. a \in Nat /\ b \in Nat /\ a + 1 \in Nat
          BY <2>1, <4>1
        <4> HIDE DEF a, b
        <4>4. CASE peerUpdateCh' # peerUpdateCh
          <5>1. MaxStall * (a + 1) = MaxStall * a + MaxStall
                /\ MaxStall * (a + 1) <= MaxStall * b
                /\ MaxStall * a \in Nat /\ MaxStall * b \in Nat
            BY <1>5, <4>2, <4>3, <4>4, Products DEF a, b
          <5> QED
            BY <1>5, <2>1, <3>1, <3>3, <4>1, <5>1 DEF a, b
        <4>5. CASE peerUpdateCh' = peerUpdateCh
          <5>1. toCome' = 0
            BY <1>1, <4>5 DEF toCome
          <5>2. MaxStall * a <= MaxStall * b /\ MaxStall * a \in Nat /\ MaxStall * b \in Nat
            BY <1>5, <4>2, <4>3, Products DEF a, b
          <5> QED
            BY <1>5, <3>1, <3>3, <4>1, <5>1, <5>2 DEF a, b
        <4> QED
          BY <4>4, <4>5
      <3> QED
        BY <3>2, <3>3
    <2> QED
      BY <2>2, <2>3
  <1> QED
    BY <1>6, <1>7, <1>8 DEF LossInv

LEMMA ReadTimesOutKeepsLoss == LossInv /\ ReadTimesOut => LossInv'
  <1> SUFFICES ASSUME LossInv, ReadTimesOut PROVE LossInv'
    OBVIOUS
  <1>1. /\ peerUpdateCh = <<>> /\ socket = <<>> /\ socket' = socket /\ Iterate({})
        /\ UNCHANGED <<transmitting, missed, interrupted, waited>>
    BY DEF ReadTimesOut, sending
  <1>2. TypeInv /\ HeardInv /\ AgeInv
    BY DEF LossInv
  <1>3. Present' \subseteq Present /\ \A n \in Present' : lastSeen'[n] = lastSeen[n]
    BY <1>1, IterateIs
  <1>4. \A n : ~InSocket(n) /\ ~InSocket(n)'
    <2>1. Len(socket) = 0
      BY <1>1
    <2> QED
      BY <1>1, <2>1 DEF InSocket
  <1>5. TypeInv'
    <2>1. Present' \subseteq Node /\ \A n \in Present' : lastSeen'[n] \in Nat
      BY <1>2, <1>3 DEF TypeInv
    <2>2. waited' \in 0 .. MaxStall /\ waited' = 0 /\ missed' \in [Node -> 0 .. Loss]
      BY <1>1, <1>2 DEF TypeInv
    <2> QED
      BY <1>1, <1>2, <2>1, <2>2 DEF TypeInv
  <1>6. HeardInv'
    BY <1>1, <1>2, <1>3, <1>4 DEF HeardInv
  <1>7. AgeInv'
    BY <1>1, <1>2, <1>3, <1>4 DEF AgeInv
  <1> QED
    BY <1>5, <1>6, <1>7 DEF LossInv

\* Steps that read nothing and let no time pass: only the wait may end.
LEMMA QuietKeepsLoss ==
    ASSUME LossInv, UNCHANGED <<socket, lastSeen, transmitting, missed, interrupted>>,
           \/ UNCHANGED <<peerUpdateCh, waited>>
           \/ peerUpdateCh' = <<>> /\ waited' = 0
    PROVE  LossInv'
  <1>1. MaxStall \in Nat /\ TypeInv
    BY NetworkAssumption DEF LossInv
  <1>2. toCome' <= toCome /\ toCome \in Nat /\ toCome' \in Nat
    BY <1>1 DEF TypeInv, toCome
  <1>3. TypeInv'
    BY <1>1 DEF TypeInv, Present
  <1>4. /\ Present' = Present /\ \A n : InSocket(n)' <=> InSocket(n)
        /\ \A n : stalls(n)' = stalls(n)
    BY DEF Present, InSocket, stalls, updates, Changed, ReadSince
  <1>5. HeardInv'
    BY <1>4 DEF LossInv, HeardInv
  <1>6. AgeInv'
    <2> SUFFICES ASSUME NEW n \in Present \ interrupted, InSocket(n)
                 PROVE  lastSeen[n] + toCome' <= Loss + MaxStall * stalls(n)
      BY <1>4 DEF LossInv, AgeInv
    <2>1. lastSeen[n] \in Nat /\ Loss \in Nat /\ stalls(n) \in Nat
      BY <1>1, StallsType, NetworkAssumption DEF TypeInv
    <2>2. MaxStall * stalls(n) \in Nat
      BY <1>1, <2>1
    <2>3. lastSeen[n] + toCome <= Loss + MaxStall * stalls(n)
      BY DEF LossInv, AgeInv
    <2> QED
      BY <1>2, <2>1, <2>2, <2>3
  <1> QED
    BY <1>3, <1>5, <1>6 DEF LossInv

\* The socket after an interval in which arriving have arrived.
LEMMA SocketGrows ==
    ASSUME socket \in Seq(Node), NEW arriving \in SUBSET Node,
           NEW ids \in SetToSeqs(arriving), socket' = socket \o ids
    PROVE  /\ socket' \in Seq(Node)
           /\ \A n : InSocket(n)' <=> InSocket(n) \/ n \in arriving
  <1>1. IsFiniteSet(arriving)
    BY NetworkAssumption, FS_Subset
  <1>2. ids \in Seq(arriving) /\ \A n \in arriving : \E i \in 1 .. Len(ids) : ids[i] = n
    BY <1>1, AllInOrder
  <1>3. Len(ids) \in Nat /\ \A i \in 1 .. Len(ids) : ids[i] \in arriving
    BY <1>2, LenProperties, ElementOfSeq
  <1>4. ids \in Seq(Node)
    BY <1>2, <1>3, SeqDef, LenProperties
  <1> DEFINE k == Len(socket)
             j == Len(ids)
  <1>5. /\ socket' \in Seq(Node) /\ k \in Nat /\ Len(socket') = k + j
        /\ \A i \in 1 .. k + j : socket'[i] = IF i <= k THEN socket[i] ELSE ids[i - k]
    BY <1>4, ConcatProperties, LenProperties
  <1> HIDE DEF k, j
  <1>6. ASSUME NEW n, InSocket(n)' PROVE InSocket(n) \/ n \in arriving
    <2>1. PICK i \in 1 .. k + j : socket'[i] = n
      BY <1>5, <1>6 DEF InSocket
    <2>2. CASE i <= k
      <3>1. i \in 1 .. k /\ socket[i] = n
        BY <1>5, <2>1, <2>2
      <3> QED
        BY <3>1 DEF InSocket, k
    <2>3. CASE ~(i <= k)
      <3>1. i - k \in 1 .. j /\ ids[i - k] = n
        BY <1>3, <1>5, <2>1, <2>3 DEF j
      <3> QED
        BY <1>3, <3>1 DEF j
    <2> QED
      BY <2>2, <2>3
  <1>7. ASSUME NEW n, InSocket(n) PROVE InSocket(n)'
    <2>1. PICK i \in 1 .. k : socket[i] = n
      BY <1>7 DEF InSocket, k
    <2>2. i \in 1 .. k + j /\ socket'[i] = n
      BY <1>3, <1>5, <2>1 DEF j
    <2> QED
      BY <1>5, <2>2 DEF InSocket
  <1>8. ASSUME NEW n \in arriving PROVE InSocket(n)'
    <2>1. PICK i \in 1 .. j : ids[i] = n
      BY <1>2 DEF j
    <2>2. j \in Nat
      BY <1>3 DEF j
    <2>3. k + i \in 1 .. k + j /\ ~(k + i <= k) /\ (k + i) - k = i
      BY <1>5, <2>1, <2>2
    <2>4. socket'[k + i] = n
      BY <1>5, <2>1, <2>3
    <2> QED
      BY <1>5, <2>3, <2>4 DEF InSocket
  <1> QED
    BY <1>5, <1>6, <1>7, <1>8

\* Time passes for all alike, so nobody leaves the tally.
LEMMA TickGrows ==
    ASSUME TypeInv, TypeInv', NEW n \in Present, Present' = Present,
           \A m \in Present : lastSeen'[m] = IF lastSeen[m] > Timeout THEN lastSeen[m]
                                             ELSE lastSeen[m] + 1
    PROVE  stalls(n) <= stalls(n)'
  <1>1. n \in Node /\ Timeout \in Nat /\ \A m \in Present : lastSeen[m] \in Nat
    BY NetworkAssumption DEF TypeInv
  <1>2. ReadSince(n) \subseteq ReadSince(n)'
    <2> SUFFICES ASSUME NEW m \in Present \ {n}, lastSeen[m] <= lastSeen[n]
                 PROVE  lastSeen'[m] <= lastSeen'[n]
      BY DEF ReadSince
    <2> QED
      BY <1>1
  <1>3. Changed(n) \subseteq Changed(n)'
    BY <1>2 DEF Changed
  <1>4. /\ IsFiniteSet(Changed(n)') /\ IsFiniteSet(ReadSince(n)')
        /\ stalls(n) \in Nat \ {0} /\ stalls(n)' \in Nat \ {0}
    BY <1>1, StallsType, StallsTypeNext
  <1> DEFINE c == Cardinality(Changed(n))
             d == Cardinality(Changed(n)')
             r == Cardinality(ReadSince(n))
             s == Cardinality(ReadSince(n)')
  <1>5. c \in Nat /\ d \in Nat /\ c <= d /\ r \in Nat /\ s \in Nat /\ r <= s
    BY <1>2, <1>3, <1>4, CountGrows
  <1>6. updates(n) = c + r /\ updates(n)' = d + s
    BY DEF updates
  <1> HIDE DEF c, d, r, s
  <1> QED
    BY <1>5, <1>6 DEF stalls

LEMMA TickKeepsLoss == LossInv /\ Tick => LossInv'
  <1> SUFFICES ASSUME LossInv, Tick PROVE LossInv'
    OBVIOUS
  <1>1. TypeInv /\ HeardInv /\ AgeInv
    BY DEF LossInv
  <1>2. PICK arriving \in SUBSET transmitting :
            /\ \A n \in transmitting \ arriving : missed[n] < Loss
            /\ missed' = [n \in Node |->
                  IF n \in transmitting \ arriving THEN missed[n] + 1 ELSE 0]
            /\ \E ids \in SetToSeqs(arriving) : socket' = socket \o ids
    BY DEF Tick
  <1>3. /\ IF peerUpdateCh = <<>> THEN socket = <<>> ELSE waited < MaxStall
        /\ waited' = IF peerUpdateCh = <<>> THEN 0 ELSE waited + 1
        /\ lastSeen' = [n \in DOMAIN lastSeen |->
              IF lastSeen[n] > Timeout THEN lastSeen[n] ELSE lastSeen[n] + 1]
        /\ UNCHANGED <<transmitting, interrupted, peerUpdateCh>>
    BY DEF Tick
  <1>4. arriving \in SUBSET Node /\ socket \in Seq(Node)
    BY <1>1, <1>2 DEF TypeInv
  <1>5. /\ socket' \in Seq(Node)
        /\ \A n : InSocket(n)' <=> InSocket(n) \/ n \in arriving
    BY <1>2, <1>4, SocketGrows
  <1>6. Present' = Present
        /\ \A n \in Present : lastSeen'[n] = IF lastSeen[n] > Timeout THEN lastSeen[n]
                                             ELSE lastSeen[n] + 1
    BY <1>3 DEF Present
  <1>7. /\ Loss \in Nat /\ Timeout \in Nat /\ MaxStall \in Nat \ {0} /\ waited \in 0 .. MaxStall
        /\ \A n \in Node : missed[n] \in 0 .. Loss
        /\ \A n \in Present : lastSeen[n] \in Nat /\ n \in Node
        /\ transmitting \subseteq Node
    BY <1>1, NetworkAssumption DEF TypeInv
  <1>8. TypeInv'
    <2>1. \A n \in Present' : lastSeen'[n] \in Nat
      BY <1>6, <1>7
    <2>2. missed' \in [Node -> 0 .. Loss]
      <3> SUFFICES ASSUME NEW n \in Node
                   PROVE  (IF n \in transmitting \ arriving THEN missed[n] + 1 ELSE 0)
                             \in 0 .. Loss
        BY <1>2
      <3> QED
        BY <1>2, <1>7
    <2>3. waited' \in 0 .. MaxStall /\ (peerUpdateCh' = <<>> => waited' = 0)
      BY <1>3, <1>7
    <2> QED
      BY <1>1, <1>3, <1>5, <1>6, <2>1, <2>2, <2>3 DEF TypeInv
  <1>9. HeardInv'
    BY <1>1, <1>2, <1>3, <1>5, <1>6 DEF HeardInv
  <1>10. AgeInv'
    <2> SUFFICES ASSUME NEW n \in Present \ interrupted
                 PROVE  IF InSocket(n)'
                        THEN lastSeen'[n] + toCome' <= Loss + MaxStall * stalls(n)'
                        ELSE lastSeen'[n] <= missed'[n]
      BY <1>3, <1>6 DEF AgeInv
    <2> DEFINE age == lastSeen[n]
               a == stalls(n)
               b == stalls(n)'
    <2>1. /\ n \in Node /\ n \in transmitting /\ age \in Nat
          /\ lastSeen'[n] \in Nat /\ lastSeen'[n] <= age + 1
      BY <1>1, <1>6, <1>7 DEF HeardInv
    <2>2. a <= b /\ a \in Nat \ {0} /\ b \in Nat \ {0}
      BY <1>1, <1>6, <1>8, <2>1, TickGrows, StallsType, StallsTypeNext
    <2> HIDE DEF age, a, b
    <2>3. /\ MaxStall * a \in Nat /\ MaxStall * b \in Nat /\ MaxStall * a <= MaxStall * b
          /\ MaxStall <= MaxStall * b
      <3>1. MaxStall * 1 <= MaxStall * b
        BY <1>7, <2>2, Products
      <3> QED
        BY <1>7, <2>2, <3>1, Products
    <2>4. CASE InSocket(n)
      <3>1. peerUpdateCh # <<>>
        <4>1. Len(socket) \in Nat /\ Len(socket) # 0
          BY <1>4, <2>4, LenProperties DEF InSocket
        <4> QED
          BY <1>3, <4>1
      <3>2. toCome = MaxStall - waited /\ toCome' = MaxStall - (waited + 1)
        BY <1>3, <3>1 DEF toCome
      <3>3. age + toCome <= Loss + MaxStall * a
        BY <1>1, <2>4 DEF AgeInv, age, a
      <3>4. lastSeen'[n] + toCome' <= Loss + MaxStall * b
        BY <1>7, <2>1, <2>3, <3>2, <3>3
      <3> QED
        BY <1>5, <2>4, <3>4 DEF b
    <2>5. CASE ~InSocket(n) /\ n \in arriving
      <3>1. age <= Loss
        BY <1>1, <1>7, <2>1, <2>5 DEF AgeInv, age
      <3>2. toCome' \in Nat /\ toCome' <= MaxStall - 1
        BY <1>3, <1>7 DEF toCome
      <3>3. lastSeen'[n] + toCome' <= Loss + MaxStall * b
        BY <1>7, <2>1, <2>3, <3>1, <3>2
      <3> QED
        BY <1>5, <2>5, <3>3 DEF b
    <2>6. CASE ~InSocket(n) /\ n \notin arriving
      <3>1. age <= missed[n] /\ missed'[n] = missed[n] + 1
        BY <1>1, <1>2, <2>1, <2>6 DEF AgeInv, age
      <3>2. lastSeen'[n] <= missed'[n]
        BY <1>7, <2>1, <3>1
      <3> QED
        BY <1>5, <2>6, <3>2
    <2> QED
      BY <2>4, <2>5, <2>6
  <1> QED
    BY <1>8, <1>9, <1>10 DEF LossInv

LEMMA LossInvInductive == LossInv /\ [Next]_vars => LossInv'
  <1> SUFFICES ASSUME LossInv, [Next]_vars PROVE LossInv'
    OBVIOUS
  <1>1. ASSUME NEW n \in Node, Enable(n) PROVE LossInv'
    <2>1. /\ n \notin transmitting /\ transmitting' = transmitting \cup {n}
          /\ missed' = [missed EXCEPT ![n] = 0]
          /\ UNCHANGED <<interrupted, socket, lastSeen, peerUpdateCh, waited>>
      BY <1>1 DEF Enable, receiver
    <2>2. /\ Present' = Present /\ \A k : InSocket(k)' <=> InSocket(k)
          /\ toCome' = toCome /\ \A k : stalls(k)' = stalls(k)
      BY <2>1 DEF Present, InSocket, toCome, stalls, updates, Changed, ReadSince
    <2>3. TypeInv'
      BY <2>1, <2>2, NetworkAssumption DEF LossInv, TypeInv
    <2>4. HeardInv'
      BY <2>1, <2>2 DEF LossInv, HeardInv
    <2>5. AgeInv'
      <3>1. \A k \in Present \ interrupted : k # n \/ InSocket(k)
        BY <2>1 DEF LossInv, HeardInv
      <3>2. \A k \in Present : k \in Node /\ (k # n => missed'[k] = missed[k])
        BY <2>1 DEF LossInv, TypeInv
      <3> QED
        BY <2>1, <2>2, <3>1, <3>2 DEF LossInv, AgeInv
    <2> QED
      BY <2>3, <2>4, <2>5 DEF LossInv
  <1>2. ASSUME NEW n \in Node, Disable(n) PROVE LossInv'
    <2>1. /\ transmitting' = transmitting \ {n} /\ interrupted' = interrupted \cup {n}
          /\ UNCHANGED <<missed, socket, lastSeen, peerUpdateCh, waited>>
      BY <1>2 DEF Disable, receiver
    <2>2. /\ Present' = Present /\ \A k : InSocket(k)' <=> InSocket(k)
          /\ toCome' = toCome /\ \A k : stalls(k)' = stalls(k)
      BY <2>1 DEF Present, InSocket, toCome, stalls, updates, Changed, ReadSince
    <2>3. TypeInv'
      BY <2>1, <2>2 DEF LossInv, TypeInv
    <2>4. HeardInv'
      BY <2>1, <2>2 DEF LossInv, HeardInv
    <2>5. AgeInv'
      BY <2>1, <2>2 DEF LossInv, AgeInv
    <2> QED
      BY <2>3, <2>4, <2>5 DEF LossInv
  <1>3. CASE ReadFrom \/ ReadTimesOut \/ Tick
    BY <1>3, ReadFromKeepsLoss, ReadTimesOutKeepsLoss, TickKeepsLoss
  <1>4. CASE TakePeerUpdate
    BY <1>4, QuietKeepsLoss DEF TakePeerUpdate, sending, receiver
  <1>5. CASE HelloArrives \/ ReadHello \/ TakeHello
    BY <1>5, QuietKeepsLoss DEF HelloArrives, ReadHello, TakeHello, sending, receiver
  <1>6. CASE UNCHANGED vars
    BY <1>6, QuietKeepsLoss DEF vars, sending, receiver
  <1> QED
    BY <1>1, <1>2, <1>3, <1>4, <1>5, <1>6 DEF Next

LEMMA LossInit == Init => LossInv
  <1> SUFFICES ASSUME Init PROVE LossInv
    OBVIOUS
  <1>1. /\ transmitting \subseteq Node /\ missed = [n \in Node |-> 0] /\ socket = <<>>
        /\ lastSeen = nobody /\ peerUpdateCh = <<>> /\ waited = 0
    BY DEF Init
  <1>2. Present = {}
    BY <1>1 DEF Present, nobody
  <1>3. \A n : ~InSocket(n)
    <2>1. Len(socket) = 0
      BY <1>1
    <2> QED
      BY <2>1 DEF InSocket
  <1>4. TypeInv
    <2>1. missed \in [Node -> 0 .. Loss] /\ waited \in 0 .. MaxStall
      BY <1>1, NetworkAssumption
    <2> QED
      BY <1>1, <1>2, <2>1, EmptySeq DEF TypeInv
  <1>5. HeardInv /\ AgeInv
    BY <1>2, <1>3 DEF HeardInv, AgeInv
  <1> QED
    BY <1>4, <1>5 DEF LossInv

\* Who is there is never over the limit when the receiver looks for it.
LEMMA NobodyLost ==
    ASSUME LossInv, [Next]_vars, NEW n \in Present, n \notin Present'
    PROVE  n \in interrupted
  <1> SUFFICES ASSUME n \notin interrupted PROVE FALSE
    OBVIOUS
  <1>1. TypeInv /\ AgeInv /\ Timeout \in Nat /\ 0 < Timeout
    <2>1. Timeout \in Nat /\ Loss \in Nat /\ MaxStall \in Nat
          /\ Loss + 2 * (Cardinality(Node) - 1) * MaxStall < Timeout
      BY NetworkAssumption
    <2>2. n \in Node /\ Cardinality(Node) \in Nat \ {0}
      BY StallsBound DEF LossInv, TypeInv
    <2>3. Cardinality(Node) - 1 \in Nat /\ 2 * (Cardinality(Node) - 1) \in Nat
          /\ (2 * (Cardinality(Node) - 1)) * MaxStall \in Nat
      BY <2>1, <2>2
    <2> QED
      BY <2>1, <2>3 DEF LossInv
  <1>2. CASE ReadFrom
    <2> DEFINE h == Head(socket)
    <2>1. Iterate({h}) /\ h \in Node
      BY <1>1, <1>2, SocketTail DEF ReadFrom, TypeInv
    <2> HIDE DEF h
    <2>2. ~((IF n \in {h} THEN 0 ELSE lastSeen[n]) < Timeout)
      BY <2>1, IterateIs
    <2>3. n # h /\ ~(lastSeen[n] < Timeout)
      BY <1>1, <2>2
    <2> QED
      BY <1>1, <2>1, <2>3, BelowLimit
  <1>3. CASE ReadTimesOut
    <2>1. Iterate({}) /\ socket = <<>>
      BY <1>3 DEF ReadTimesOut
    <2>2. ~(lastSeen[n] < Timeout)
      BY <2>1, IterateIs
    <2>3. Len(socket) = 0
      BY <2>1
    <2>4. ~InSocket(n)
      BY <2>3 DEF InSocket
    <2> QED
      BY <1>1, <2>2, <2>4, BelowLimit
  <1>4. CASE DOMAIN lastSeen' = DOMAIN lastSeen
    BY <1>4 DEF Present
  <1> QED
    BY <1>2, <1>3, <1>4 DEF Next, Enable, Disable, HelloArrives, ReadHello, TakePeerUpdate,
       TakeHello, Tick, receiver, vars

\* Nobody is reported lost (peers.go:65-72) who has been there since it was read
\* last, for every fleet and every number of heartbeats lost in a row, although
\* the receiver reads nothing while the main loop is away.
THEOREM NobodyLostWhoIsThere == Spec => NoFalseLoss
  <1>1. LossInv /\ [Next]_vars =>
            [\A n \in Node : n \in DOMAIN lastSeen \ DOMAIN lastSeen' => n \in interrupted]_vars
    BY NobodyLost DEF Present
  <1> QED
    BY LossInit, LossInvInductive, <1>1, PTL DEF Spec, NoFalseLoss
================================================================================
