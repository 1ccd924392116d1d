--------------------------------- MODULE Driver ---------------------------------
(***************************************************************************)
(* The driver (heis/elevio) and the simulator it talks to over one TCP     *)
(* connection.  The controller and the pollers are goroutines that share   *)
(* the connection under a mutex: a write is sent and forgotten, a read     *)
(* sends a question and waits for the answer, four bytes that do not say   *)
(* which question they belong to.  At the other end the network thread     *)
(* passes writes on to the main thread's mailbox and questions too, and    *)
(* waits for the main thread's reply before it reads on.                   *)
(*                                                                         *)
(* Of the writes only the motor's is kept, of the questions the floor      *)
(* sensor's and the obstruction switch's: all are handled alike.  elevio   *)
(* has no call that asks for a reload.  The simulator's operator has keys  *)
(* that go straight to the mailbox.                                        *)
(***************************************************************************)
EXTENDS Simulator

CONSTANT MaxSent         \* bound: messages under way in the connection

ASSUME DriverAssumption == MaxSent \in Nat \ {0}

VARIABLES
    obstruction,   \* the switch
    calling,       \* the questions that goroutines wait to have answered
    toServer,      \* what the network thread has not received yet
    reply,         \* what the main thread has replied to the network thread
    toClient,      \* the answers that no goroutine has read yet
    written,       \* what the motor was told last
    overruled,     \* has the operator had a hand on the cab since the last
                   \*   command came into the mailbox
    truth          \* [q]: what the sensor has shown since q was asked

client  == <<calling, written, truth>>
stream  == <<toServer, reply, toClient>>
allVars == <<vars, obstruction, client, stream, overruled>>

Questions == {"FloorSensor", "Obstruction"}

sensor(q) == IF q = "FloorSensor" THEN currFloor ELSE obstruction

\* The bytes the server makes of a sensor's value, and the value that the driver
\* makes of an answer (GetFloor, GetObstruction).
bytes(q) ==
    IF q = "Obstruction" THEN <<IF obstruction THEN 1 ELSE 0, 0>>
    ELSE IF currFloor = Between THEN <<0, 0>> ELSE <<1, currFloor>>
value(q, answer) ==
    IF q = "Obstruction" THEN answer[1] # 0
    ELSE IF answer[1] = 0 THEN Between ELSE answer[2]

DriverInit ==
    /\ Init
    /\ obstruction = FALSE
    /\ calling = {}
    /\ toServer = <<>>
    /\ reply = <<>>
    /\ toClient = <<>>
    /\ written = Stop
    /\ overruled = FALSE
    /\ truth = [q \in Questions |-> {}]

\* What the sensors show after a step is noted for whoever is asking.
Noted ==
    truth' = [q \in Questions |->
                 IF q \in calling' THEN truth[q] \cup {sensor(q)'} ELSE {}]

-----------------------------------------------------------------------------
(* The client: elevio *)

\* A disconnection has been dealt with: the next client needs longer to start.
Connected ==
    \A i \in DOMAIN (toServer \o mailbox) :
        (toServer \o mailbox)[i][1] # "ClientDisconnected"

\* Mutant: no mutex.
unlockedAlways == TRUE

\* The mutex is free: nobody waits for an answer.
unlocked == calling = {}

Write(d) ==
    /\ unlocked /\ Connected
    /\ Len(toServer) < MaxSent
    /\ toServer' = Append(toServer, <<"MotorDirection", d>>)
    /\ written' = d
    /\ UNCHANGED <<vars, obstruction, calling, reply, toClient, overruled>>

Ask(q) ==
    /\ unlocked /\ Connected
    /\ q \notin calling
    /\ Len(toServer) < MaxSent
    /\ toServer' = Append(toServer, <<q, 0>>)
    /\ calling' = calling \cup {q}
    /\ UNCHANGED <<vars, obstruction, reply, toClient, written, overruled>>

Read(q) ==
    /\ q \in calling
    /\ toClient # <<>>
    /\ toClient' = Tail(toClient)
    /\ calling' = calling \ {q}
    /\ UNCHANGED <<vars, obstruction, toServer, reply, written, overruled>>

\* The client's process ends, and another one connects.
Reconnect ==
    /\ Connected
    /\ calling' = {}
    /\ toClient' = <<>>
    /\ toServer' = Append(toServer, <<"ClientDisconnected", 0>>)
    /\ written' = IF StopMotorOnDisconnect THEN Stop ELSE written
    /\ UNCHANGED <<vars, obstruction, reply, overruled>>

-----------------------------------------------------------------------------
(* The simulator: network thread, main thread and the rest *)

\* The network thread waits for a reply.
awaiting ==
    \/ reply # <<>>
    \/ \E i \in DOMAIN mailbox : mailbox[i][1] \in Questions

ServerReceives ==
    /\ ~awaiting
    /\ toServer # <<>>
    /\ Len(mailbox) < MaxMail
    /\ toServer' = Tail(toServer)
    /\ mailbox' = Append(mailbox, Head(toServer))
    /\ overruled' = (overruled /\ Head(toServer)[1] # "MotorDirection")
    /\ UNCHANGED <<state, events, obstruction, calling, reply, toClient, written>>

\* An answer to a client that is gone goes nowhere.
ServerAnswers ==
    /\ reply # <<>>
    /\ reply' = <<>>
    /\ toClient' = IF Connected THEN Append(toClient, Head(reply)) ELSE toClient
    /\ UNCHANGED <<vars, obstruction, calling, toServer, written, overruled>>

\* Mutant: there is no answer while the cab is between floors.
OnRequestAtFloor ==
    /\ mailbox # <<>> /\ Head(mailbox)[1] \in Questions
    /\ reply' = IF currFloor = Between THEN <<>> ELSE <<bytes(Head(mailbox)[1])>>
    /\ mailbox' = Tail(mailbox)
    /\ UNCHANGED <<state, events, obstruction, calling, toServer, toClient, written, overruled>>

OnRequest ==
    /\ mailbox # <<>> /\ Head(mailbox)[1] \in Questions
    /\ reply' = <<bytes(Head(mailbox)[1])>>
    /\ mailbox' = Tail(mailbox)
    /\ UNCHANGED <<state, events, obstruction, calling, toServer, toClient, written, overruled>>

\* That a disconnection stops the motor is a command too.
Handle ==
    /\ Receive
    /\ overruled' = (overruled /\ ~(StopMotorOnDisconnect /\ received("ClientDisconnected")))
    /\ UNCHANGED <<obstruction, calling, written, stream>>

TimedEvent == Fire /\ UNCHANGED <<obstruction, calling, written, stream, overruled>>

\* The operator presses a key that moves or stops the cab.
Keyboard ==
    /\ Len(mailbox) < MaxMail
    /\ \E key \in Keys : mailbox' = Append(mailbox, key)
    /\ overruled' = TRUE
    /\ UNCHANGED <<state, events, obstruction, calling, written, stream>>

FlipObstruction ==
    /\ obstruction' = ~obstruction
    /\ UNCHANGED <<vars, calling, written, stream, overruled>>

DriverNext ==
    /\ \/ \E d \in {Up, Down, Stop} : Write(d)
       \/ \E q \in Questions : Ask(q) \/ Read(q)
       \/ Reconnect
       \/ ServerReceives \/ ServerAnswers \/ OnRequest
       \/ Handle \/ TimedEvent
       \/ Keyboard \/ FlipObstruction
    /\ Noted

\* A goroutine that waits for its answer gets to it, and the simulator's threads
\* run for ever.  That a thread has to find room in the mailbox again and again is
\* the bound's doing, hence SF.
DriverFairness ==
    /\ WF_allVars((\E q \in Questions : Read(q)) /\ Noted)
    /\ SF_allVars(ServerReceives /\ Noted) /\ WF_allVars(ServerAnswers /\ Noted)
    /\ WF_allVars((OnRequest \/ Handle) /\ Noted)
    /\ SF_allVars(TimedEvent /\ Noted)

DriverSpec == DriverInit /\ [][DriverNext]_allVars /\ DriverFairness
-----------------------------------------------------------------------------
(* Properties *)

\* Every goroutine gets the answer to its own question, and an answer that was
\* true at some moment while it waited: what it learns of the cab or the switch
\* is never older than its call, however the other goroutines use the connection.
AnswerWasTrue ==
    \A q \in calling :
        toClient # <<>> => value(q, Head(toClient)) \in truth[q]

\* Once all that was written has arrived, the motor does what it was told last,
\* unless the cab has left the shaft or the operator has used the keys since.
MotorObeys ==
    /\ toServer = <<>>
    /\ \A i \in DOMAIN mailbox : mailbox[i][1] \notin {"MotorDirection", "ClientDisconnected"}
    => currDirn = written \/ isOutOfBounds \/ overruled

\* No call waits for ever: the goroutine that asks holds the mutex while the
\* network thread waits for the main thread, which has its mailbox to see to, and
\* timed events, the keyboard and lost connections come in between.
CallsReturn == \A q \in Questions : q \in calling ~> q \notin calling
================================================================================
