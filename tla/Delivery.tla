------------------------------ MODULE Delivery ------------------------------
(***************************************************************************)
(* What the bot's senders promise together: a message is sent, and noted   *)
(* as sent afterwards, so that it reaches its addressee again only where a *)
(* fault came between the two.                                             *)
(*                                                                         *)
(* This is the abstract specification that the broadcasts implement.  A    *)
(* message is whatever the sender's notes can tell apart: a page of a run  *)
(* for one user, a giveaway on its terms for one user.                     *)
(***************************************************************************)
EXTENDS Integers, FiniteSets

CONSTANT Messages

VARIABLES
    got,      \* messages that reached their addressee
    noted,    \* messages that are not to be sent any more
    flight,   \* messages that were sent, the note is still to come
    repeats,  \* copies that reached an addressee who had the message
    faults    \* hidden deliveries, lost notes and other failures

vars == <<got, noted, flight, repeats, faults>>

Init == got = {} /\ noted = {} /\ flight = {} /\ repeats = 0 /\ faults = 0

\* Send m: any number of copies arrive, at most one of them, the one that the
\* sender saw succeed, without a fault.
Send(m) ==
    /\ m \notin noted \cup flight
    /\ faults' \in Nat /\ faults' >= faults
    /\ \E ok \in BOOLEAN, copies \in 0..(faults' - faults) + 1 :
          /\ copies <= (faults' - faults) + (IF ok THEN 1 ELSE 0)
          /\ ok => copies > 0
          /\ got' = IF copies > 0 THEN got \cup {m} ELSE got
          /\ repeats' = repeats + copies - (IF copies > 0 /\ m \notin got THEN 1 ELSE 0)
          /\ flight' = IF ok THEN flight \cup {m} ELSE flight
    /\ UNCHANGED noted

\* Messages that are noted as sent, left to another sender, or whose addressee
\* is gone.
Note ==
    /\ noted' \in SUBSET Messages /\ noted \subseteq noted'
    /\ flight' \in SUBSET flight /\ flight \ noted' \subseteq flight'
    /\ UNCHANGED <<got, repeats, faults>>

\* A fault, which may lose the note of a message in flight.
Fault ==
    /\ faults' \in Nat /\ faults' > faults
    /\ noted' \in SUBSET Messages /\ noted \subseteq noted'
    /\ \/ UNCHANGED flight
       \/ \E m \in flight : flight' = flight \ {m}
    /\ UNCHANGED <<got, repeats>>

Next == (\E m \in Messages : Send(m)) \/ Note \/ Fault

Spec == Init /\ [][Next]_vars

\* No addressee gets more repeated copies than there were faults.
AtMostOncePerFault == repeats <= faults
=============================================================================
