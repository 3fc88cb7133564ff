-------------------------- MODULE Delivery_proofs --------------------------
(***************************************************************************)
(* Whatever the messages are: repeated copies need faults.                 *)
(***************************************************************************)
EXTENDS Delivery, FiniteSetTheorems, TLAPS

\* Messages that arrived without the sender's knowledge: the next Send of one
\* of them repeats it.  Each of them owes its being to a fault not used up yet.
Doubtful == (got \ noted) \ flight

TypeOK ==
    /\ got \subseteq Messages /\ noted \subseteq Messages /\ flight \subseteq got
    /\ IsFiniteSet(got)
    /\ repeats \in Nat /\ faults \in Nat

IInv == TypeOK /\ repeats + Cardinality(Doubtful) <= faults

LEMMA DoubtfulFinite ==
    ASSUME TypeOK
    PROVE  IsFiniteSet(Doubtful) /\ Cardinality(Doubtful) \in Nat
<1>1. Doubtful \in SUBSET got
    BY DEF Doubtful
<1> QED BY <1>1, FS_Subset, FS_CardinalityType DEF TypeOK

\* Fewer doubts, as many faults or more, no repeats: the balance is kept.
LEMMA FewerDoubts ==
    ASSUME IInv, TypeOK', Doubtful' \subseteq Doubtful, repeats' = repeats, faults' >= faults
    PROVE  IInv'
<1>1. Cardinality(Doubtful') <= Cardinality(Doubtful)
    BY DoubtfulFinite, FS_Subset DEF IInv
<1>2. Cardinality(Doubtful) \in Nat /\ Cardinality(Doubtful') \in Nat
    <2>1. Cardinality(Doubtful) \in Nat
        BY DoubtfulFinite DEF IInv
    <2>2. IsFiniteSet(Doubtful')
        BY DoubtfulFinite, FS_Subset DEF IInv
    <2> QED BY <2>1, <2>2, FS_CardinalityType
<1> QED BY <1>1, <1>2 DEF IInv, TypeOK

LEMMA Initially == Init => IInv
<1> SUFFICES ASSUME Init PROVE IInv
    OBVIOUS
<1>1. Doubtful = {}
    BY DEF Init, Doubtful
<1>2. IsFiniteSet({}) /\ Cardinality({}) = 0
    BY FS_EmptySet
<1> QED BY <1>1, <1>2 DEF Init, IInv, TypeOK

\* The balance after copies of which at most one came without a fault (b = 1).
LEMMA Balance ==
    ASSUME NEW r \in Nat, NEW d \in Nat, NEW f \in Nat, NEW f2 \in Nat, NEW c \in Nat,
           r + d <= f,
           NEW a \in {0, 1}, NEW b \in {0, 1}, c <= f2 - f + b
    PROVE  (r + c - a) + (d + a - b) <= f2
OBVIOUS

LEMMA SendKeeps ==
    ASSUME IInv, NEW m \in Messages, Send(m)
    PROVE  IInv'
<1>0. TypeOK /\ Cardinality(Doubtful) \in Nat /\ IsFiniteSet(Doubtful)
    BY DoubtfulFinite DEF IInv
<1>1. PICK ok \in BOOLEAN, copies \in 0..(faults' - faults) + 1 :
         /\ copies <= (faults' - faults) + (IF ok THEN 1 ELSE 0)
         /\ ok => copies > 0
         /\ got' = IF copies > 0 THEN got \cup {m} ELSE got
         /\ repeats' = repeats + copies - (IF copies > 0 /\ m \notin got THEN 1 ELSE 0)
         /\ flight' = IF ok THEN flight \cup {m} ELSE flight
    BY Zenon DEF Send
<1>2. faults' \in Nat /\ faults' >= faults /\ noted' = noted /\ m \notin noted /\ m \notin flight
    BY DEF Send
<1>3. copies \in Nat /\ repeats' \in Nat
    BY <1>0, <1>1, <1>2 DEF TypeOK
<1>n. /\ repeats \in Nat /\ faults \in Nat /\ Cardinality(Doubtful) \in Nat
      /\ repeats + Cardinality(Doubtful) <= faults
    BY <1>0 DEF IInv, TypeOK
<1>4. TypeOK'
    <2>1. IsFiniteSet(got')
        BY <1>0, <1>1, FS_AddElement DEF TypeOK
    <2>2. got' \subseteq Messages /\ flight' \subseteq got'
        BY <1>0, <1>1 DEF TypeOK
    <2> QED BY <1>0, <1>2, <1>3, <2>1, <2>2 DEF TypeOK
<1>5. CASE copies = 0
    <2>1. Doubtful' = Doubtful
        BY <1>1, <1>2, <1>5 DEF Doubtful
    <2> QED BY <1>1, <1>2, <1>4, <1>5, <2>1, FewerDoubts DEF IInv, TypeOK
<1>6. CASE copies > 0 /\ m \notin got
    <2>1. CASE ok
        <3>1. repeats' = repeats + copies - 1 /\ copies <= faults' - faults + 1
            BY <1>1, <1>6, <2>1
        <3>2. (repeats + copies - 1) + (Cardinality(Doubtful) + 1 - 1) <= faults'
            BY <1>2, <1>3, <1>n, <3>1, Balance
        <3>3. Doubtful' = Doubtful
            BY <1>1, <1>2, <1>6, <2>1 DEF Doubtful
        <3> QED BY <1>n, <1>4, <3>1, <3>2, <3>3 DEF IInv
    <2>2. CASE ~ok
        <3>1. repeats' = repeats + copies - 1 /\ copies <= faults' - faults + 0
            BY <1>1, <1>6, <2>2
        <3>2. (repeats + copies - 1) + (Cardinality(Doubtful) + 1 - 0) <= faults'
            BY <1>2, <1>3, <1>n, <3>1, Balance
        <3>3. Doubtful' = Doubtful \cup {m} /\ m \notin Doubtful
            BY <1>1, <1>2, <1>6, <2>2 DEF Doubtful
        <3>4. Cardinality(Doubtful') = Cardinality(Doubtful) + 1
            BY <1>0, <3>3, FS_AddElement
        <3> QED BY <1>n, <1>4, <3>1, <3>2, <3>4 DEF IInv
    <2> QED BY <2>1, <2>2
<1>7. CASE copies > 0 /\ m \in got
    <2>0. m \in Doubtful
        BY <1>2, <1>7 DEF Doubtful
    <2>1. CASE ok
        <3>1. repeats' = repeats + copies - 0 /\ copies <= faults' - faults + 1
            BY <1>1, <1>7, <2>1
        <3>2. (repeats + copies - 0) + (Cardinality(Doubtful) + 0 - 1) <= faults'
            BY <1>2, <1>3, <1>n, <3>1, Balance
        <3>3. Doubtful' = Doubtful \ {m}
            BY <1>1, <1>2, <1>7, <2>1 DEF Doubtful
        <3>4. Cardinality(Doubtful') = Cardinality(Doubtful) - 1
            BY <1>0, <2>0, <3>3, FS_RemoveElement
        <3> QED BY <1>n, <1>4, <3>1, <3>2, <3>4 DEF IInv
    <2>2. CASE ~ok
        <3>1. repeats' = repeats + copies - 0 /\ copies <= faults' - faults + 0
            BY <1>1, <1>7, <2>2
        <3>2. (repeats + copies - 0) + (Cardinality(Doubtful) + 0 - 0) <= faults'
            BY <1>2, <1>3, <1>n, <3>1, Balance
        <3>3. Doubtful' = Doubtful
            BY <1>1, <1>2, <1>7, <2>2 DEF Doubtful
        <3> QED BY <1>n, <1>4, <3>1, <3>2, <3>3 DEF IInv
    <2> QED BY <2>1, <2>2
<1> QED BY <1>3, <1>5, <1>6, <1>7

LEMMA FaultKeeps ==
    ASSUME IInv, Fault
    PROVE  IInv'
<1>0. TypeOK /\ Cardinality(Doubtful) \in Nat /\ IsFiniteSet(Doubtful)
    BY DoubtfulFinite DEF IInv
<1>1. /\ faults' \in Nat /\ faults' > faults /\ got' = got /\ repeats' = repeats
      /\ noted' \in SUBSET Messages /\ noted \subseteq noted'
    BY DEF Fault
<1>2. CASE UNCHANGED flight
    <2>1. Doubtful' \subseteq Doubtful /\ TypeOK'
        BY <1>0, <1>1, <1>2 DEF Doubtful, TypeOK
    <2> QED BY <1>0, <1>1, <2>1, FewerDoubts DEF TypeOK
<1>3. ASSUME NEW m \in flight, flight' = flight \ {m} PROVE IInv'
    <2>1. TypeOK'
        BY <1>0, <1>1, <1>3 DEF TypeOK
    <2>2. Doubtful' \subseteq Doubtful \cup {m} /\ m \notin Doubtful
        BY <1>0, <1>1, <1>3 DEF Doubtful, TypeOK
    <2>3. IsFiniteSet(Doubtful \cup {m}) /\ Cardinality(Doubtful \cup {m}) = Cardinality(Doubtful) + 1
        BY <1>0, <2>2, FS_AddElement
    <2>4. Cardinality(Doubtful') <= Cardinality(Doubtful) + 1 /\ IsFiniteSet(Doubtful')
        BY <2>2, <2>3, FS_Subset
    <2>5. Cardinality(Doubtful') \in Nat
        BY <2>4, FS_CardinalityType
    <2>6. repeats \in Nat /\ faults \in Nat /\ repeats + Cardinality(Doubtful) <= faults
        BY <1>0 DEF IInv, TypeOK
    <2> QED BY <1>0, <1>1, <2>1, <2>4, <2>5, <2>6 DEF IInv
<1> QED BY <1>2, <1>3 DEF Fault

LEMMA Inductive == IInv /\ [Next]_vars => IInv'
<1> SUFFICES ASSUME IInv, [Next]_vars PROVE IInv'
    OBVIOUS
<1>0. TypeOK
    BY DEF IInv
<1>1. ASSUME NEW m \in Messages, Send(m) PROVE IInv'
    BY <1>1, SendKeeps
<1>2. CASE Note
    <2>1. TypeOK' /\ Doubtful' \subseteq Doubtful
        BY <1>0, <1>2 DEF Note, TypeOK, Doubtful
    <2> QED BY <1>0, <1>2, <2>1, FewerDoubts DEF Note, TypeOK
<1>3. CASE Fault
    BY <1>3, FaultKeeps
<1>4. CASE UNCHANGED vars
    <2>1. TypeOK' /\ Doubtful' = Doubtful
        BY <1>0, <1>4 DEF vars, TypeOK, Doubtful
    <2> QED BY <1>0, <1>4, <2>1, FewerDoubts DEF vars, TypeOK
<1> QED BY <1>1, <1>2, <1>3, <1>4 DEF Next

\* For every set of messages: what Delivery's implementations do never repeats
\* a message without a fault.
THEOREM RepeatsOweToFaults == Spec => []AtMostOncePerFault
<1>1. IInv => AtMostOncePerFault
    <2> SUFFICES ASSUME IInv PROVE AtMostOncePerFault
        OBVIOUS
    <2> QED BY DoubtfulFinite DEF IInv, TypeOK, AtMostOncePerFault
<1> QED BY Initially, Inductive, <1>1, PTL DEF Spec
=============================================================================
