--------------------------------- MODULE Pairs ---------------------------------
(***************************************************************************)
(* The process pair of Exercise 4 (Exercises/Exercise4/pairs.go): a        *)
(* primary counts aloud and tells its backup, over UDP on this machine,    *)
(* how far it has come; a backup that misses five heartbeats in a row      *)
(* becomes primary itself and starts a backup of its own.                  *)
(*                                                                         *)
(* Time is counted in 300 ms: heartbeatEvery is 2 of them, readTimeout 3.  *)
(* A primary gets to its ticker up to Late of them late; a datagram to a   *)
(* bound port on the same machine arrives at once.  One to a port that     *)
(* nobody has bound is lost, and the sender's socket keeps the refusal for *)
(* its next Write, which fails with it and sends nothing.                  *)
(***************************************************************************)
EXTENDS Integers, Sequences, FiniteSets

CONSTANTS
    heartbeatEvery, readTimeout,   \* in 300 ms
    missedLimit,
    Late,         \* bound: how late a primary gets to its ticker
    MaxProcs,     \* bound: processes that are started
    MaxCount      \* bound: the number at which time stands still

ASSUME PairsAssumption ==
    /\ heartbeatEvery \in Nat \ {0} /\ readTimeout \in Nat \ {0}
    /\ missedLimit \in Nat \ {0}
    /\ Late \in 0 .. heartbeatEvery
    /\ 2 * heartbeatEvery + Late < missedLimit * readTimeout
    /\ MaxProcs \in Nat \ {0, 1} /\ MaxCount \in Nat

Procs  == 1 .. MaxProcs
Nobody == 0

VARIABLES
    role,         \* [p]: "none" before it is started, "starting", "backup",
                  \*   "primary", or "gone"
    acked,        \* [p]: acked
    missed,       \* [p]: the backup's missed
    clock,        \* [p]: time to the next tick or read deadline
    inbox,        \* [p]: datagrams at its socket
    unsent,       \* the primary has printed acked and not sent it
    refused,      \* its socket holds the refusal of its last heartbeat
    port,         \* who has bound udpAddr, or Nobody
    printed,      \* the last number printed
    spareKilled   \* was a process killed that was not primary

procs == <<role, acked, missed, clock, inbox>>
vars  == <<procs, unsent, refused, port, printed, spareKilled>>

primaries == {p \in Procs : role[p] = "primary"}
waiting   == {p \in Procs : role[p] \in {"starting", "backup"}}

TypeOK ==
    /\ role \in [Procs -> {"none", "starting", "backup", "primary", "gone"}]
    /\ acked \in [Procs -> Nat]
    /\ missed \in [Procs -> Nat]
    /\ clock \in [Procs -> Int]
    /\ inbox \in [Procs -> Seq(Nat)]
    /\ unsent \in BOOLEAN /\ refused \in BOOLEAN
    /\ port \in Procs \cup {Nobody}
    /\ printed \in Nat

\* p becomes primary with a new ticker, and starts the next process.
promoted(r, p) ==
    [q \in Procs |->
        IF q = p THEN "primary"
        ELSE IF r[q] = "none" /\ \A k \in 1 .. q - 1 : r[k] # "none" THEN "starting"
        ELSE r[q]]

Init ==
    /\ role = promoted([p \in Procs |-> IF p = 1 THEN "starting" ELSE "none"], 1)
    /\ acked = [p \in Procs |-> 0]
    /\ missed = [p \in Procs |-> 0]
    /\ clock = [p \in Procs |-> IF p = 1 THEN heartbeatEvery ELSE 0]
    /\ inbox = [p \in Procs |-> <<>>]
    /\ unsent = FALSE /\ refused = FALSE
    /\ port = Nobody
    /\ printed = 0
    /\ spareKilled = FALSE

-----------------------------------------------------------------------------
(* The primary *)

PrintNext(p) ==
    /\ role[p] = "primary" /\ ~unsent
    /\ clock[p] <= 0 /\ acked[p] < MaxCount
    /\ printed' = acked[p] + 1
    /\ acked' = [acked EXCEPT ![p] = @ + 1]
    /\ clock' = [clock EXCEPT ![p] = @ + heartbeatEvery]
    /\ unsent' = TRUE
    /\ UNCHANGED <<role, missed, inbox, refused, port, spareKilled>>

Send(p) ==
    /\ role[p] = "primary" /\ unsent
    /\ unsent' = FALSE
    /\ refused' = (port = Nobody /\ ~refused)
    /\ inbox' = IF port = Nobody \/ refused THEN inbox
                ELSE [inbox EXCEPT ![port] = Append(@, acked[p])]
    /\ UNCHANGED <<role, acked, missed, clock, port, printed, spareKilled>>

-----------------------------------------------------------------------------
(* The backup *)

\* The port is its own, or it ends.
Bind(b) ==
    /\ role[b] = "starting"
    /\ IF port = Nobody
       THEN /\ port' = b
            /\ role' = [role EXCEPT ![b] = "backup"]
            /\ clock' = [clock EXCEPT ![b] = readTimeout]
       ELSE /\ role' = [role EXCEPT ![b] = "gone"]
            /\ UNCHANGED <<port, clock>>
    /\ UNCHANGED <<acked, missed, inbox, unsent, refused, printed, spareKilled>>

\* Mutant: a heartbeat does not make up for the ones missed.
ReadStillMissed(b) ==
    /\ role[b] = "backup" /\ inbox[b] # <<>>
    /\ acked' = [acked EXCEPT ![b] = IF Head(inbox[b]) > @ THEN Head(inbox[b]) ELSE @]
    /\ inbox' = [inbox EXCEPT ![b] = Tail(@)]
    /\ clock' = [clock EXCEPT ![b] = readTimeout]
    /\ UNCHANGED <<role, missed, unsent, refused, port, printed, spareKilled>>

\* Mutant: only the first heartbeat counts.
ReadFirst(b) ==
    /\ role[b] = "backup" /\ inbox[b] # <<>>
    /\ acked' = [acked EXCEPT ![b] = IF @ = 0 THEN Head(inbox[b]) ELSE @]
    /\ inbox' = [inbox EXCEPT ![b] = Tail(@)]
    /\ missed' = [missed EXCEPT ![b] = 0]
    /\ clock' = [clock EXCEPT ![b] = readTimeout]
    /\ UNCHANGED <<role, unsent, refused, port, printed, spareKilled>>

Read(b) ==
    /\ role[b] = "backup" /\ inbox[b] # <<>>
    /\ acked' = [acked EXCEPT ![b] = IF Head(inbox[b]) > @ THEN Head(inbox[b]) ELSE @]
    /\ inbox' = [inbox EXCEPT ![b] = Tail(@)]
    /\ missed' = [missed EXCEPT ![b] = 0]
    /\ clock' = [clock EXCEPT ![b] = readTimeout]
    /\ UNCHANGED <<role, unsent, refused, port, printed, spareKilled>>

\* Mutant: the count of misses lives for one read only.
MissAnew(b) ==
    /\ role[b] = "backup" /\ clock[b] = 0
    /\ missed' = [missed EXCEPT ![b] = 1]
    /\ clock' = [clock EXCEPT ![b] = readTimeout]
    /\ UNCHANGED <<role, acked, inbox, unsent, refused, port, printed, spareKilled>>

\* The read times out, not yet for the last time.
Miss(b) ==
    /\ role[b] = "backup" /\ clock[b] = 0
    /\ missed[b] + 1 < missedLimit
    /\ missed' = [missed EXCEPT ![b] = @ + 1]
    /\ clock' = [clock EXCEPT ![b] = readTimeout]
    /\ UNCHANGED <<role, acked, inbox, unsent, refused, port, printed, spareKilled>>

\* Mutant: the socket stays open.
TakeOverBound(b) ==
    /\ role[b] = "backup" /\ clock[b] = 0
    /\ missed[b] + 1 >= missedLimit
    /\ missed' = [missed EXCEPT ![b] = @ + 1]
    /\ role' = promoted(role, b)
    /\ clock' = [clock EXCEPT ![b] = heartbeatEvery]
    /\ inbox' = [inbox EXCEPT ![b] = <<>>]
    /\ unsent' = FALSE /\ refused' = FALSE
    /\ UNCHANGED <<acked, port, printed, spareKilled>>

\* It times out for the last time: the backup closes its socket and goes on
\* counting as the primary.
TakeOver(b) ==
    /\ role[b] = "backup" /\ clock[b] = 0
    /\ missed[b] + 1 >= missedLimit
    /\ missed' = [missed EXCEPT ![b] = @ + 1]
    /\ port' = Nobody
    /\ role' = promoted(role, b)
    /\ clock' = [clock EXCEPT ![b] = heartbeatEvery]
    /\ inbox' = [inbox EXCEPT ![b] = <<>>]
    /\ unsent' = FALSE /\ refused' = FALSE
    /\ UNCHANGED <<acked, printed, spareKilled>>

-----------------------------------------------------------------------------
(* Time and failures *)

\* 300 ms pass.  A backup that has something to do does it at once, and a
\* primary that has printed sends.
Tick ==
    /\ printed < MaxCount \/ primaries = {}
    /\ ~unsent
    /\ \A p \in primaries : clock[p] > -Late
    /\ \A p \in Procs : role[p] = "backup" => clock[p] > 0 /\ inbox[p] = <<>>
    /\ clock' = [p \in Procs |->
          IF role[p] \in {"primary", "backup"} THEN clock[p] - 1 ELSE clock[p]]
    /\ UNCHANGED <<role, acked, missed, inbox, unsent, refused, port, printed, spareKilled>>

\* Somebody kills a process, anywhere in what it does.
Kill(p) ==
    /\ role[p] \in {"starting", "backup", "primary"}
    /\ role[MaxProcs] = "none"
    /\ role' = [role EXCEPT ![p] = "gone"]
    /\ port' = IF port = p THEN Nobody ELSE port
    /\ acked' = [acked EXCEPT ![p] = 0]
    /\ missed' = [missed EXCEPT ![p] = 0]
    /\ clock' = [clock EXCEPT ![p] = 0]
    /\ inbox' = [inbox EXCEPT ![p] = <<>>]
    /\ unsent' = (unsent /\ role[p] # "primary")
    /\ refused' = (refused /\ role[p] # "primary")
    /\ spareKilled' = (spareKilled \/ role[p] # "primary")
    /\ UNCHANGED printed

Next ==
    \/ \E p \in Procs :
          \/ PrintNext(p) \/ Send(p)
          \/ Bind(p) \/ Read(p) \/ Miss(p) \/ TakeOver(p)
          \/ Kill(p)
    \/ Tick

Spec == Init /\ [][Next]_vars

\* Time passes, a started process gets to its bind, and the running ones to
\* what is due.
Fairness ==
    /\ WF_vars(Tick)
    /\ \A p \in Procs :
          /\ WF_vars(PrintNext(p)) /\ WF_vars(Send(p))
          /\ WF_vars(Bind(p)) /\ WF_vars(Read(p))
          /\ WF_vars(Miss(p)) /\ WF_vars(TakeOver(p))

FairSpec == Spec /\ Fairness

-----------------------------------------------------------------------------
(* Properties *)

\* There is never more than one primary: a primary that is late with its
\* heartbeats, again and again, is not taken for dead.
OnePrimary == \A p, q \in primaries : p = q

\* A killed primary's successor goes on where the count was, or says its last
\* number once more; unless it had not heard of it at all and begins with 1
\* (pairs.go:29).
CountGoesOn ==
    [][printed' # printed /\ printed' # 1 => printed' = printed + 1]_vars

\* As long as only primaries are killed there is exactly one successor: every
\* takeover frees the port in time for the backup it starts.
SuccessorStands == ~spareKilled => Cardinality(waiting) = 1

\* When the primary is gone its successor takes over.
TakenOver ==
    (primaries = {} /\ waiting # {}) ~> (primaries # {} \/ waiting = {})
================================================================================
