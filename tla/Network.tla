-------------------------------- MODULE Network --------------------------------
(***************************************************************************)
(* Who is alive (heis/Network-go): every process sends its ID every 15 ms; *)
(* peers.Receiver keeps when it read each ID last, forgets one after       *)
(* 500 ms, and hands every change to the program's main loop, on a channel *)
(* without a buffer: it waits until the main loop takes it, and reads no   *)
(* ID meanwhile.  The main loop also takes what bcast.Receiver hands it,   *)
(* which waits the same way.                                               *)
(*                                                                         *)
(* One process is modelled as a receiver and all, itself included, as      *)
(* transmitters.  Time is counted in intervals of 15 ms.  What arrives     *)
(* while a receiver waits lies in its socket; a heartbeat is small and the *)
(* socket holds some seconds of them.                                      *)
(***************************************************************************)
EXTENDS Integers, Sequences, SequencesExt, FiniteSets

CONSTANTS
    Node,        \* the IDs
    Timeout,     \* 500 ms: 33
    Loss,        \* bound: heartbeats in a row that get lost
    MaxStall,    \* bound: how long the main loop leaves an update untaken
    MaxHello     \* bound: hello messages that arrive

(* How long may the main loop stay away?  Between two heartbeats that are  *)
(* read of one process every other may be reported lost and then new, and  *)
(* the main loop may be away each time.  It may be away for an interval at *)
(* least: without any leeway the limit is reached by losses alone.         *)
ASSUME NetworkAssumption ==
    /\ IsFiniteSet(Node)
    /\ Timeout \in Nat /\ Loss \in Nat /\ MaxStall \in Nat \ {0} /\ MaxHello \in Nat
    /\ Loss + 2 * (Cardinality(Node) - 1) * MaxStall < Timeout

VARIABLES
    transmitting,   \* the processes that run, with their transmitter enabled
    missed,         \* [n]: heartbeats of n in a row that got lost
    interrupted,    \* the processes that have stopped since they were read last
    socket,         \* the IDs that peers.Receiver has not read yet
    lastSeen,       \* ID -> how long ago it was read
    iterated,       \* has peers.Receiver been round its loop in this interval
    peerUpdateCh,   \* the update it waits to hand over, if any
    waited,         \* for how long it has been waiting
    peers,          \* main loop: Peers of the last update
    followed,       \* what New and Lost of all updates so far add up to
    arrived,        \* hello: messages that have arrived, numbered as they come
    datagrams,      \* what bcast.Receiver has not read yet
    helloRx,        \* the message it waits to hand over, if any
    heard           \* main loop: the last hello it took

sending  == <<transmitting, missed, interrupted>>
receiver == <<socket, lastSeen, iterated>>
mainLoop == <<peers, followed>>
hello    == <<arrived, datagrams, helloRx, heard>>
vars     == <<sending, receiver, peerUpdateCh, waited, mainLoop, hello>>

nobody == [n \in {} |-> 0]

Init ==
    /\ transmitting \in SUBSET Node
    /\ missed = [n \in Node |-> 0]
    /\ interrupted = {}
    /\ socket = <<>>
    /\ lastSeen = nobody
    /\ iterated = FALSE
    /\ peerUpdateCh = <<>>
    /\ waited = 0
    /\ peers = {}
    /\ followed = {}
    /\ arrived = 0
    /\ datagrams = <<>>
    /\ helloRx = <<>>
    /\ heard = 0

-----------------------------------------------------------------------------
(* peers.Transmitter *)

\* A process starts, or is made available again.  (One made available sends at
\* once, and then every interval; here its first heartbeat comes with the next
\* Tick, as that of a process that starts.  main.go makes none available.)
Enable(n) ==
    /\ n \notin transmitting
    /\ transmitting' = transmitting \cup {n}
    /\ missed' = [missed EXCEPT ![n] = 0]
    /\ UNCHANGED <<interrupted, receiver, peerUpdateCh, waited, mainLoop, hello>>

\* It crashes, or is made unavailable.
Disable(n) ==
    /\ n \in transmitting
    /\ transmitting' = transmitting \ {n}
    /\ interrupted' = interrupted \cup {n}
    /\ UNCHANGED <<missed, receiver, peerUpdateCh, waited, mainLoop, hello>>

-----------------------------------------------------------------------------
(* peers.Receiver *)

\* Mutant: an ID is stamped when it is new, and never again.
seenFirst(id) ==
    [n \in DOMAIN lastSeen \cup id |->
        IF n \in DOMAIN lastSeen THEN lastSeen[n] ELSE 0]

\* id is the ID that was read, as a set: empty when the read timed out.
seen(id) ==
    [n \in DOMAIN lastSeen \cup id |-> IF n \in id THEN 0 ELSE lastSeen[n]]

\* Mutant: the limit is forgotten.
expiredNever(age) == {FALSE}

\* Is an ID of that age over the limit: no, yes, or by a fraction either.
expired(age) ==
    IF age < Timeout THEN {FALSE} ELSE IF age > Timeout THEN {TRUE} ELSE BOOLEAN

\* Mutant: an update that finds the main loop away is dropped.
offeredOrDropped(update) == peerUpdateCh' \in {<<>>, <<update>>}

offered(update) == peerUpdateCh' = <<update>>

\* Once round the loop of Receiver.
Iterate(id) ==
    \E lost \in SUBSET DOMAIN seen(id) :
        LET new  == id \ DOMAIN lastSeen
            left == DOMAIN seen(id) \ lost
        IN  /\ \A n \in DOMAIN seen(id) : (n \in lost) \in expired(seen(id)[n])
            /\ lastSeen' = [n \in left |-> seen(id)[n]]
            /\ IF new # {} \/ lost # {}
               THEN offered([peers |-> left, new |-> new, lost |-> lost])
               ELSE UNCHANGED peerUpdateCh
            /\ iterated' = TRUE

ReadFrom ==
    /\ peerUpdateCh = <<>>
    /\ socket # <<>>
    /\ socket' = Tail(socket)
    /\ Iterate({Head(socket)})
    /\ interrupted' = interrupted \ ({Head(socket)} \cap transmitting)
    /\ UNCHANGED <<transmitting, missed, waited, mainLoop, hello>>

ReadTimesOut ==
    /\ peerUpdateCh = <<>>
    /\ socket = <<>> /\ ~iterated
    /\ Iterate({})
    /\ UNCHANGED <<sending, socket, waited, mainLoop, hello>>

-----------------------------------------------------------------------------
(* bcast.Transmitter and bcast.Receiver *)

\* A datagram that some process has broadcast arrives: in whatever order they
\* were sent, once more if the network doubles it, and never if it gets lost.
HelloArrives ==
    /\ arrived < MaxHello
    /\ arrived' = arrived + 1
    /\ datagrams' = Append(datagrams, arrived + 1)
    /\ UNCHANGED <<sending, receiver, peerUpdateCh, waited, mainLoop, helloRx, heard>>

\* Mutant: what was decoded last is handed on again when a read fails.
ReadHelloAgain ==
    /\ helloRx = <<>>
    /\ \/ datagrams # <<>> /\ helloRx' = <<Head(datagrams)>> /\ datagrams' = Tail(datagrams)
       \/ heard # 0 /\ helloRx' = <<heard>> /\ UNCHANGED datagrams
    /\ UNCHANGED <<sending, receiver, peerUpdateCh, waited, mainLoop, arrived, heard>>

\* What cannot be read, or is of a type nobody asked for, is skipped.  The rest is
\* handed on, and is a zero HelloMsg if only its contents could not be decoded:
\* contents are left out.
ReadHello ==
    /\ helloRx = <<>> /\ datagrams # <<>>
    /\ helloRx' \in {<<>>, <<Head(datagrams)>>}
    /\ datagrams' = Tail(datagrams)
    /\ UNCHANGED <<sending, receiver, peerUpdateCh, waited, mainLoop, arrived, heard>>

-----------------------------------------------------------------------------
(* The main loop's select, and time *)

TakePeerUpdate ==
    /\ peerUpdateCh # <<>>
    /\ LET p == Head(peerUpdateCh)
       IN  /\ peers' = p.peers
           /\ followed' = (followed \cup p.new) \ p.lost
    /\ peerUpdateCh' = <<>>
    /\ waited' = 0
    /\ UNCHANGED <<sending, receiver, hello>>

TakeHello ==
    /\ helloRx # <<>>
    /\ heard' = Head(helloRx)
    /\ helloRx' = <<>>
    /\ UNCHANGED <<sending, receiver, peerUpdateCh, waited, mainLoop, arrived, datagrams>>

\* An interval passes and every transmitter sends.  A receiver that does not
\* wait has read all there was and been round its loop.
Tick ==
    /\ IF peerUpdateCh = <<>> THEN socket = <<>> /\ iterated ELSE waited < MaxStall
    /\ waited' = IF peerUpdateCh = <<>> THEN 0 ELSE waited + 1
    /\ \E arriving \in SUBSET transmitting :
          /\ \A n \in transmitting \ arriving : missed[n] < Loss
          /\ missed' = [n \in Node |->
                IF n \in transmitting \ arriving THEN missed[n] + 1 ELSE 0]
          /\ \E ids \in SetToSeqs(arriving) : socket' = socket \o ids
    /\ lastSeen' = [n \in DOMAIN lastSeen |->
          IF lastSeen[n] > Timeout THEN lastSeen[n] ELSE lastSeen[n] + 1]
    /\ iterated' = FALSE
    /\ UNCHANGED <<transmitting, interrupted, peerUpdateCh, mainLoop, hello>>

Next ==
    \/ \E n \in Node : Enable(n) \/ Disable(n)
    \/ ReadFrom \/ ReadTimesOut
    \/ HelloArrives \/ ReadHello
    \/ TakePeerUpdate \/ TakeHello
    \/ Tick

Spec == Init /\ [][Next]_vars

\* Time passes, the receivers loop for ever, and the main loop comes back to its
\* select, which takes each of two ready channels sooner or later.
Fairness ==
    /\ WF_vars(Tick)
    /\ WF_vars(ReadFrom) /\ WF_vars(ReadTimesOut) /\ WF_vars(ReadHello)
    /\ WF_vars(TakePeerUpdate) /\ WF_vars(TakeHello)

FairSpec == Spec /\ Fairness

-----------------------------------------------------------------------------
(* Properties *)

\* New and Lost add up to Peers: a main loop that only follows the changes knows
\* who is there.  It is what the receiver's waiting is for: no update is dropped.
ChangesAddUp == followed = peers

\* Nobody is reported lost who is there, as long as the main loop comes back in
\* time, although the receiver reads nothing while it is away.
NoFalseLoss ==
    [][\A n \in Node :
          n \in DOMAIN lastSeen \ DOMAIN lastSeen' => n \in interrupted]_vars

\* The main loop comes to know of everybody who stays and of nobody who does not.
PeersConverge ==
    \A n \in Node :
        /\ <>[](n \in transmitting) => <>[](n \in peers)
        /\ <>[](n \notin transmitting) => <>[](n \notin peers)

\* The main loop gets no datagram twice, and none after one that arrived later: a
\* read that fails, a message that is skipped, or a main loop that is long away
\* does not bring back an earlier one.
HelloOnce == helloRx # <<>> => Head(helloRx) > heard
================================================================================
