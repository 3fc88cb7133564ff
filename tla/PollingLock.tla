---------------------------- MODULE PollingLock ----------------------------
(***************************************************************************)
(* PollingLock: the lease in redis that is to keep two instances of the    *)
(* bot from polling Telegram with one token.                               *)
(*                                                                         *)
(* An instance takes the lease before it starts, renews it in a task of    *)
(* its own, and gives it back at the very end.  The renewal stops for good *)
(* at its first error, of which polling hears nothing.  Time passes in     *)
(* seconds; redis drops the lease by itself.                               *)
(***************************************************************************)
EXTENDS Integers

CONSTANTS
    Instances, None,
    TTL           \* polling_lock_ttl

VARIABLES
    running,      \* [Instances -> "off", "polling" or "stopping"]
    renewal,      \* [Instances -> seconds until the next extend, or None]
    owner, left,  \* the lease: an instance or None, and the seconds it lasts
    troubled      \* history: the instances whose renewal has failed or came late

vars == <<running, renewal, owner, left, troubled>>

Interval == IF TTL \div 3 < 5 THEN 5 ELSE TTL \div 3

TypeOK ==
    /\ running \in [Instances -> {"off", "polling", "stopping"}]
    /\ renewal \in [Instances -> 0..Interval \cup {None}]
    /\ owner \in Instances \cup {None} /\ left \in 0..TTL
    /\ troubled \subseteq Instances

Init ==
    /\ running = [i \in Instances |-> "off"]
    /\ renewal = [i \in Instances |-> None]
    /\ owner = None /\ left = 0 /\ troubled = {}

-----------------------------------------------------------------------------
\* The lease is free: a task renews it from now on.  Else main raises, and the
\* process is as it was.
Acquire(i) ==
    /\ running[i] = "off" /\ owner = None
    /\ owner' = i /\ left' = TTL
    /\ running' = [running EXCEPT ![i] = "polling"]
    /\ renewal' = [renewal EXCEPT ![i] = Interval]
    /\ troubled' = troubled \ {i}

\* extend: the lease must still be the instance's own.
Renew(i) ==
    /\ renewal[i] = 0
    /\ IF owner = i
       THEN /\ left' = TTL /\ renewal' = [renewal EXCEPT ![i] = Interval]
            /\ UNCHANGED troubled
       ELSE /\ renewal' = [renewal EXCEPT ![i] = None] /\ troubled' = troubled \cup {i}
            /\ UNCHANGED left
    /\ UNCHANGED <<running, owner>>

\* extend raises: the task logs it and ends.
RenewFails(i) ==
    /\ renewal[i] = 0 /\ renewal' = [renewal EXCEPT ![i] = None]
    /\ troubled' = troubled \cup {i} /\ UNCHANGED <<running, owner, left>>

\* Polling has ended, or has never begun; the rest of main's finally is under way.
Stop(i) ==
    /\ running[i] = "polling" /\ running' = [running EXCEPT ![i] = "stopping"]
    /\ UNCHANGED <<renewal, owner, left, troubled>>

\* Mutant of Release: the key is deleted, whoever holds it.
ReleaseAny(i) ==
    /\ running[i] = "stopping"
    /\ running' = [running EXCEPT ![i] = "off"] /\ renewal' = [renewal EXCEPT ![i] = None]
    /\ owner' = None /\ left' = 0 /\ UNCHANGED troubled

\* release: the task ends, and the lease goes if it still is the instance's own.
\* Any error is suppressed, and then the lease stays.
Release(i) ==
    /\ running[i] = "stopping"
    /\ running' = [running EXCEPT ![i] = "off"] /\ renewal' = [renewal EXCEPT ![i] = None]
    /\ \/ owner = i /\ owner' = None /\ left' = 0
       \/ UNCHANGED <<owner, left>>
    /\ UNCHANGED troubled

\* The process dies; so it does when main fails before its try, or inside finally.
Crash(i) ==
    /\ running[i] # "off"
    /\ running' = [running EXCEPT ![i] = "off"] /\ renewal' = [renewal EXCEPT ![i] = None]
    /\ UNCHANGED <<owner, left, troubled>>

\* A second.  Instances that are due and did not renew are late.
Tick ==
    /\ renewal' = [i \in Instances |->
          IF renewal[i] \in {None, 0} THEN renewal[i] ELSE renewal[i] - 1]
    /\ troubled' = troubled \cup {i \in Instances : renewal[i] = 0}
    /\ left' = IF left = 0 THEN 0 ELSE left - 1
    /\ owner' = IF left <= 1 THEN None ELSE owner
    /\ UNCHANGED running

Next ==
    \/ Tick
    \/ \E i \in Instances :
         \/ Acquire(i) \/ Renew(i) \/ RenewFails(i)
         \/ Stop(i) \/ Release(i) \/ Crash(i)

Spec == Init /\ [][Next]_vars

-----------------------------------------------------------------------------
\* Two instances poll at once only when the renewal of one of them has failed or
\* come late: whatever the order of starts, stops and deaths, and for every TTL
\* that outlasts the interval of the renewal.  (PollingLock._renew, release)
OnePoller ==
    TTL > Interval =>
      \A i, j \in Instances :
        running[i] = "polling" /\ running[j] = "polling" /\ i \notin troubled /\ j \notin troubled
          => i = j
=============================================================================
