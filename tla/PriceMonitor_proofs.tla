------------------------ MODULE PriceMonitor_proofs ------------------------
(***************************************************************************)
(* For any rules, prices, quiet hours and bounds: types, the protection    *)
(* against repeated alerts, and the queue that loses nothing.              *)
(***************************************************************************)
EXTENDS PriceMonitor, FiniteSetTheorems, TLAPS

-----------------------------------------------------------------------------
(* The types.                                                              *)

\* A row is one with another value in one of its columns, and so in several.
LEMMA Column ==
    ASSUME NEW row \in RuleType
    PROVE  /\ \A age \in Nat : [row EXCEPT !.age = age] \in RuleType
           /\ \A fp \in Fingerprints \cup {NoValue} : [row EXCEPT !.fp = fp] \in RuleType
           /\ \A met \in BOOLEAN : [row EXCEPT !.met = met] \in RuleType
           /\ \A notified \in BOOLEAN : [row EXCEPT !.notified = notified] \in RuleType
           /\ \A on \in BOOLEAN : [row EXCEPT !.on = on] \in RuleType
           /\ \A there \in BOOLEAN : [row EXCEPT !.there = there] \in RuleType
           /\ \A drop \in BOOLEAN : [row EXCEPT !.anyDrop = drop] \in RuleType
           /\ \A low_ \in BOOLEAN : [row EXCEPT !.knownLow = low_] \in RuleType
           /\ \A price \in Amounts : [row EXCEPT !.maxPrice = price] \in RuleType
           /\ \A price \in Amounts : [row EXCEPT !.minDiscount = price] \in RuleType
           /\ \A policy \in Policies : [row EXCEPT !.policy = policy] \in RuleType
<1>1. \A age \in Nat : [row EXCEPT !.age = age] \in RuleType
    BY SMT DEF RuleType
<1>2. \A fp \in Fingerprints \cup {NoValue} : [row EXCEPT !.fp = fp] \in RuleType
    BY SMT DEF RuleType
<1>3. /\ \A met \in BOOLEAN : [row EXCEPT !.met = met] \in RuleType
      /\ \A notified \in BOOLEAN : [row EXCEPT !.notified = notified] \in RuleType
    BY SMT DEF RuleType
<1>4. /\ \A on \in BOOLEAN : [row EXCEPT !.on = on] \in RuleType
      /\ \A there \in BOOLEAN : [row EXCEPT !.there = there] \in RuleType
    BY SMT DEF RuleType
<1>5. /\ \A drop \in BOOLEAN : [row EXCEPT !.anyDrop = drop] \in RuleType
      /\ \A low_ \in BOOLEAN : [row EXCEPT !.knownLow = low_] \in RuleType
    BY SMT DEF RuleType
<1>6. /\ \A price \in Amounts : [row EXCEPT !.maxPrice = price] \in RuleType
      /\ \A price \in Amounts : [row EXCEPT !.minDiscount = price] \in RuleType
    BY SMT DEF RuleType
<1>7. \A policy \in Policies : [row EXCEPT !.policy = policy] \in RuleType
    BY SMT DEF RuleType
<1> QED BY <1>1, <1>2, <1>3, <1>4, <1>5, <1>6, <1>7, Zenon

LEMMA TypeInit == Init => TypeOK
<1> SUFFICES ASSUME Init PROVE TypeOK
    OBVIOUS
<1>1. ASSUME NEW r \in Rules, NEW s \in SettingType
      PROVE  NewRule(r, s) \in RuleType /\ NewRule(r, s).age <= CheckHours[r]
    <2>1. CheckHours[r] \in Nat
        BY ConstantsAssumption
    <2> QED BY <2>1, SMT DEF NewRule, RuleType, SettingType
<1>2. PICK s \in [Rules -> UNION {Settings0[r] : r \in Rules}] :
          /\ \A r \in Rules : s[r] \in Settings0[r]
          /\ rule = [r \in Rules |-> NewRule(r, s[r])]
    BY DEF Init
<1>3. \A r \in Rules : s[r] \in SettingType
    BY <1>2, ConstantsAssumption
<1>4. rule \in [Rules -> RuleType] /\ \A r \in Rules : rule[r].age <= CheckHours[r]
    BY <1>1, <1>2, <1>3
<1>5. 0 \in Hours
    BY DayLengthAssumption, SMT DEF Hours
<1>6. 0 \in 0..MaxFaults /\ 0 \in 0..MaxEdits /\ 0 \in 0..MaxFaults + 1
    BY ConstantsAssumption, SMT
<1> QED BY <1>4, <1>5, <1>6, Zenon DEF Init, TypeOK

-----------------------------------------------------------------------------
\* A transaction is about a rule of a run that has a price; it queues in quiet hours.
Turn ==
    tx # NoValue => /\ run.on /\ run.price \in Prices /\ tx.rule \in run.todo
                    /\ tx.way = "queue" => QuietNow(tx.rule)

\* What send_deferred has still to send is stored, what it has sent has arrived.
JobFits ==
    job.on => /\ job.todo \cap job.sent = {}
              /\ \A s \in job.todo \cup job.sent : queue[s] # NoValue
              /\ \A s \in job.sent : queue[s].reached

LEMMA Transaction ==
    ASSUME TypeOK, tx # NoValue
    PROVE  /\ tx.rule \in Rules /\ tx.read \in RuleType /\ tx.sent \in BOOLEAN
           /\ tx.way = "read" => tx \in Reading /\ tx.sent = FALSE
           /\ tx.way # "read" => tx \in Decided
<1>1. tx \in Reading \cup Decided
    BY DEF TypeOK
<1> QED BY <1>1 DEF Reading, Decided

LEMMA Running == TypeOK /\ run.on => run \in RunType
BY DEF TypeOK, Idle

LEMMA Sending == TypeOK /\ job.on => job \in JobType
BY DEF TypeOK, Idle

\* The cap of repeats.
LEMMA Capped ==
    ASSUME TypeOK, NEW n \in Nat, Repeated(n)
    PROVE  repeats' \in 0..MaxFaults + 1 /\ repeats' <= repeats + n
<1>1. repeats \in Nat /\ MaxFaults \in Nat
    BY ConstantsAssumption, SMT DEF TypeOK
<1>2. Min({repeats + n, MaxFaults + 1}) =
          IF repeats + n <= MaxFaults + 1 THEN repeats + n ELSE MaxFaults + 1
    <2> DEFINE IsMin(x) == \A y \in {repeats + n, MaxFaults + 1} : x <= y
    <2>1. \E x \in {repeats + n, MaxFaults + 1} : IsMin(x)
        BY <1>1, SMT
    <2>2. Min({repeats + n, MaxFaults + 1}) = CHOOSE x \in {repeats + n, MaxFaults + 1} : IsMin(x)
        BY Zenon DEF Min
    <2>3. /\ Min({repeats + n, MaxFaults + 1}) \in {repeats + n, MaxFaults + 1}
          /\ IsMin(Min({repeats + n, MaxFaults + 1}))
        BY <2>1, <2>2, Zenon
    <2> QED BY <1>1, <2>3, SMT
<1> QED BY <1>1, <1>2, SMT DEF Repeated

\* What a send costs in faults, and what it repeats.
LEMMA Outcome ==
    ASSUME NEW o \in SendOutcomes, NEW before \in BOOLEAN
    PROVE  /\ o.ok \in BOOLEAN /\ o.copies \in 0..2 /\ (o.ok => o.copies # 0)
           /\ FaultsOf(o) = (IF o.ok THEN o.copies - 1 ELSE IF o.copies > 0 THEN o.copies ELSE 1)
           /\ RepeatsOf(o, before) =
                  (IF o.copies = 0 THEN 0 ELSE IF before THEN o.copies ELSE o.copies - 1)
           /\ FaultsOf(o) \in Nat /\ RepeatsOf(o, before) \in Nat
<1>1. o.ok \in BOOLEAN /\ o.copies \in 0..2 /\ (o.ok => o.copies # 0)
    BY SMT DEF SendOutcomes
<1>2. FaultsOf(o) = (IF o.ok THEN o.copies - 1 ELSE IF o.copies > 0 THEN o.copies ELSE 1)
    BY <1>1, SMT DEF FaultsOf
<1>3. RepeatsOf(o, before) = (IF o.copies = 0 THEN 0 ELSE IF before THEN o.copies ELSE o.copies - 1)
    BY Zenon DEF RepeatsOf
<1> QED BY <1>1, <1>2, <1>3, SMT

LEMMA ReasonsAreNames ==
    ASSUME NEW row, NEW premium, NEW price, NEW before, NEW lowest, NEW rate
    PROVE  Reasons(row, premium, price, before, lowest, rate) \subseteq ReasonNames
<1>1. ReasonNames = {"target", "discount", "new_low", "known_low", "any_drop", "drop_amount",
                     "drop_percent", "rule"}
    BY SMT DEF ReasonNames, ReasonLength
<1>2. BasicReasons(row, price, lowest, rate) \subseteq {"target", "discount"}
    BY Zenon DEF BasicReasons
<1>3. LowReasons(row, price, lowest) \subseteq {"new_low", "known_low"}
    BY Zenon DEF LowReasons
<1>4. DropReasons(row, price, before, rate) \subseteq {"any_drop", "drop_amount", "drop_percent"}
    BY Zenon DEF DropReasons
<1> QED BY <1>1, <1>2, <1>3, <1>4, Zenon DEF Reasons

LEMMA DecisionType ==
    ASSUME TypeOK, run.on, run.price \in Prices, NEW r \in Rules, NEW read \in RuleType
    PROVE  Decision(r, read) \in Decided
<1> DEFINE reasons == Reasons(read, r \in Premium, run.price, latest, run.low, 1)
<1>1. reasons \in SUBSET ReasonNames
    BY ReasonsAreNames, Zenon
<1>2. Fingerprint(reasons, run.price) \in Fingerprints
    BY <1>1, SMT DEF Fingerprints
<1> HIDE DEF reasons
<1>3. PICK way \in {"skip", "queue", "send"} :
          Decision(r, read) =
              [rule |-> r, read |-> read, reasons |-> reasons,
               fp |-> Fingerprint(reasons, run.price), changed |-> PriceChanged(latest, run.price),
               sent |-> FALSE, way |-> way]
    BY Zenon DEF Decision, reasons
<1>4. PriceChanged(latest, run.price) \in BOOLEAN
    BY Zenon DEF PriceChanged
<1> QED BY <1>1, <1>2, <1>3, <1>4 DEF Decided

LEMMA RowUpdate ==
    ASSUME TypeOK, NEW r \in Rules, NEW row \in RuleType, row.age <= CheckHours[r],
           rule' = [rule EXCEPT ![r] = row]
    PROVE  rule' \in [Rules -> RuleType] /\ \A q \in Rules : rule'[q].age <= CheckHours[q]
BY DEF TypeOK

LEMMA AgeFits ==
    ASSUME TypeOK, run.on, NEW r \in Rules
    PROVE  AgeNow \in Nat /\ AgeNow <= CheckHours[r]
<1>1. CheckHours[r] \in Nat \ {0}
    BY ConstantsAssumption
<1> QED BY <1>1, SMT DEF AgeNow

\* The end of a transaction.
Ends == tx' = NoValue /\ run' \in RunType \cup {Idle}

LEMMA EndTxType == TypeOK /\ run.on /\ EndTx => Ends
<1> SUFFICES ASSUME TypeOK, run.on, EndTx PROVE Ends
    OBVIOUS
<1>1. run \in RunType /\ run.todo \ {tx.rule} \in SUBSET Rules
    BY Running DEF RunType
<1>2. run' = [run EXCEPT !.todo = run.todo \ {tx.rule}] /\ tx' = NoValue
    BY Zenon DEF EndTx
<1>3. run' \in RunType
    BY <1>1, <1>2 DEF RunType
<1> QED BY <1>2, <1>3, Zenon DEF Ends

\* The steps of a run that store nothing.
LEMMA TypeRun ==
    ASSUME TypeOK, Turn,
           RunStart \/ Fetch \/ FetchFails \/ LockRule \/ CommitTooWide \/ CommitFails \/ RunEnd
    PROVE  TypeOK'
<1>1. CASE RunStart
    <2>1. run' \in RunType
        BY <1>1 DEF RunStart, RunType, TypeOK
    <2>2. locked' \in BOOLEAN
        BY <1>1, Zenon DEF RunStart
    <2>3. UNCHANGED <<hour, latest, low, rule, queue, tx, job, told, repeats, wide, faults, edits>>
        BY <1>1, Zenon DEF RunStart, db, history
    <2> QED BY <2>1, <2>2, <2>3, Zenon DEF TypeOK
<1>2. CASE Fetch
    <2>1. run' \in RunType
        BY <1>2, Running DEF Fetch, RunType
    <2>3. UNCHANGED <<hour, latest, low, rule, queue, locked, tx, job, told, repeats, wide, faults, edits>>
        BY <1>2, Zenon DEF Fetch, db, history
    <2> QED BY <2>1, <2>3, Zenon DEF TypeOK
<1>3. CASE FetchFails
    <2>1. run' \in RunType
        BY <1>3, Running DEF FetchFails, RunType
    <2>2. faults' \in 0..MaxFaults
        BY <1>3, ConstantsAssumption, SMT DEF FetchFails, TypeOK
    <2>3. UNCHANGED <<hour, latest, low, rule, queue, locked, tx, job, told, repeats, wide, edits>>
        BY <1>3, Zenon DEF FetchFails, db
    <2> QED BY <2>1, <2>2, <2>3, Zenon DEF TypeOK
<1>4. CASE LockRule
    <2>1. tx' \in Decided \cup {NoValue} /\ run' \in RunType \cup {Idle}
        <3>1. CASE rule[tx.rule].there
            <4>1. tx' = Decision(tx.rule, tx.read) /\ run' = run
                BY <1>4, <3>1, Zenon DEF LockRule
            <4>2. Decision(tx.rule, tx.read) \in Decided
                BY <1>4, Transaction, DecisionType, Zenon DEF LockRule, Turn
            <4> QED BY <4>1, <4>2, Zenon DEF TypeOK
        <3>2. CASE ~rule[tx.rule].there
            <4>1. EndTx /\ run.on
                BY <1>4, <3>2, Zenon DEF LockRule, Turn
            <4> QED BY <4>1, EndTxType, Zenon DEF Ends
        <3> QED BY <3>1, <3>2
    <2>2. UNCHANGED <<hour, latest, low, rule, queue, locked, job, told, repeats, wide, faults, edits>>
        BY <1>4, Zenon DEF LockRule, db, history
    <2> QED BY <2>1, <2>2, Zenon DEF TypeOK
<1>5. CASE CommitTooWide \/ CommitFails
    <2>1. Ends
        BY <1>5, EndTxType, Zenon DEF CommitTooWide, CommitFails, Ready, Turn
    <2>2. wide' \in BOOLEAN /\ faults' \in 0..MaxFaults
        <3>1. CASE CommitTooWide
            BY <3>1, Zenon DEF CommitTooWide, TypeOK
        <3>2. CASE CommitFails
            <4>1. wide' = wide /\ faults < MaxFaults /\ faults' = faults + 1
                BY <3>2, Zenon DEF CommitFails
            <4>2. faults' \in 0..MaxFaults
                BY <4>1, ConstantsAssumption, SMT DEF TypeOK
            <4> QED BY <4>1, <4>2, Zenon DEF TypeOK
        <3> QED BY <1>5, <3>1, <3>2
    <2>3. UNCHANGED <<hour, latest, low, rule, queue, locked, job, told, repeats, edits>>
        BY <1>5, Zenon DEF CommitTooWide, CommitFails, db
    <2> QED BY <2>1, <2>2, <2>3, Zenon DEF TypeOK, Ends
<1>6. CASE RunEnd
    <2>1. run' = Idle /\ locked' \in BOOLEAN
        BY <1>6, Zenon DEF RunEnd
    <2>2. UNCHANGED <<hour, latest, low, rule, queue, tx, job, told, repeats, wide, faults, edits>>
        BY <1>6, Zenon DEF RunEnd, db, history
    <2> QED BY <2>1, <2>2, Zenon DEF TypeOK
<1> QED BY <1>1, <1>2, <1>3, <1>4, <1>5, <1>6

LEMMA TypeBegin == TypeOK /\ Begin => TypeOK'
<1> SUFFICES ASSUME TypeOK, Begin PROVE TypeOK'
    OBVIOUS
<1>1. PICK r \in run.todo :
          IF ~rule[r].there
          THEN run' = [run EXCEPT !.todo = @ \ {r}] /\ UNCHANGED <<rule, tx>>
          ELSE IF run.price = NoValue
          THEN run' = [run EXCEPT !.todo = @ \ {r}] /\ rule' = Checked(r) /\ UNCHANGED tx
          ELSE /\ tx' = [rule |-> r, read |-> rule[r], way |-> "read", sent |-> FALSE]
               /\ UNCHANGED <<rule, run>>
    BY Zenon DEF Begin
<1>2. run \in RunType /\ r \in Rules /\ rule[r] \in RuleType
    BY Running DEF Begin, RunType, TypeOK
<1>3. run' \in RunType
    <2>1. run' = run \/ run' = [run EXCEPT !.todo = @ \ {r}]
        BY <1>1, Zenon
    <2> QED BY <1>2, <2>1 DEF RunType
<1>4. rule' \in [Rules -> RuleType] /\ \A q \in Rules : rule'[q].age <= CheckHours[q]
    <2>1. CASE rule' = Checked(r)
        <3>1. AgeNow \in Nat /\ AgeNow <= CheckHours[r]
            BY <1>2, AgeFits DEF Begin
        <3>2. [rule[r] EXCEPT !.age = AgeNow] \in RuleType
            BY <1>2, <3>1, Column
        <3>3. rule' = [rule EXCEPT ![r] = [rule[r] EXCEPT !.age = AgeNow]]
            BY <2>1, Zenon DEF Checked
        <3>4. [rule[r] EXCEPT !.age = AgeNow].age = AgeNow
            BY <1>2 DEF RuleType
        <3> QED BY <1>2, <3>1, <3>2, <3>3, <3>4, RowUpdate, Zenon
    <2>2. CASE rule' = rule
        BY <2>2, Zenon DEF TypeOK
    <2> QED BY <1>1, <2>1, <2>2, Zenon
<1>5. tx' \in Reading \cup Decided \cup {NoValue}
    <2>1. [rule |-> r, read |-> rule[r], way |-> "read", sent |-> FALSE] \in Reading
        BY <1>2 DEF Reading
    <2> QED BY <1>1, <2>1, Zenon DEF TypeOK
<1>6. UNCHANGED <<hour, latest, low, queue, locked, job, told, repeats, wide, faults, edits>>
    BY Zenon DEF Begin, history
<1> QED BY <1>3, <1>4, <1>5, <1>6, Zenon DEF TypeOK

LEMMA TypeSend == TypeOK /\ Turn /\ Send => TypeOK'
<1> SUFFICES ASSUME TypeOK, Turn, Send PROVE TypeOK'
    OBVIOUS
<1>1. PICK o \in SendOutcomes :
          /\ faults + FaultsOf(o) <= MaxFaults
          /\ faults' = faults + FaultsOf(o)
          /\ Repeated(RepeatsOf(o, AlreadyTold(tx.rule, tx.fp)))
          /\ told' = IF o.copies = 0 THEN told ELSE [told EXCEPT ![tx.rule] = tx.fp]
          /\ IF o.ok THEN tx' = [tx EXCEPT !.sent = TRUE] /\ UNCHANGED run ELSE EndTx
    BY Zenon DEF Send
<1>2. tx \in Decided /\ run.on /\ tx.rule \in Rules /\ tx.fp \in Fingerprints
    BY Transaction DEF Send, Turn, Decided
<1>3. AlreadyTold(tx.rule, tx.fp) \in BOOLEAN
    BY Zenon DEF AlreadyTold
<1>4. FaultsOf(o) \in Nat /\ RepeatsOf(o, AlreadyTold(tx.rule, tx.fp)) \in Nat
    BY <1>3, Outcome
<1>5. faults' \in 0..MaxFaults /\ repeats' \in 0..MaxFaults + 1
    BY <1>1, <1>4, Capped, ConstantsAssumption DEF TypeOK
<1>6. told' \in [Rules -> Fingerprints \cup {NoValue}]
    BY <1>1, <1>2 DEF TypeOK
<1>7. tx' \in Reading \cup Decided \cup {NoValue} /\ run' \in RunType \cup {Idle}
    <2>1. CASE o.ok
        <3>1. [tx EXCEPT !.sent = TRUE] \in Decided
            BY <1>2 DEF Decided
        <3> QED BY <1>1, <2>1, <3>1, Zenon DEF TypeOK
    <2>2. CASE ~o.ok
        BY <1>1, <1>2, <2>2, EndTxType, Zenon DEF Ends
    <2> QED BY <2>1, <2>2
<1>8. UNCHANGED <<hour, latest, low, rule, queue, locked, job, wide, edits>>
    BY Zenon DEF Send, db
<1> QED BY <1>5, <1>6, <1>7, <1>8, Zenon DEF TypeOK

\* The rows that a check without reasons and an alert leave behind.
UnmetRow(r) ==
    [[[rule[r] EXCEPT !.age = AgeNow]
         EXCEPT !.met = Written(r, "met", FALSE)]
         EXCEPT !.fp = IF tx.read.policy = "once" THEN @ ELSE Written(r, "fp", NoValue)]

NotifiedRow(r) ==
    [[[[rule[r] EXCEPT !.age = AgeNow]
          EXCEPT !.fp = Written(r, "fp", tx.fp)]
          EXCEPT !.met = Written(r, "met", TRUE)]
          EXCEPT !.notified = TRUE]

LEMMA CommittedRows ==
    ASSUME TypeOK, tx # NoValue, tx.way # "read", run.on
    PROVE  LET r == tx.rule IN
           /\ Checked(r) = [rule EXCEPT ![r] = [rule[r] EXCEPT !.age = AgeNow]]
           /\ Unmet(r) = [rule EXCEPT ![r] = UnmetRow(r)]
           /\ Notified(r) = [rule EXCEPT ![r] = NotifiedRow(r)]
           /\ \A row \in {[rule[r] EXCEPT !.age = AgeNow], UnmetRow(r), NotifiedRow(r)} :
                 row \in RuleType /\ row.age <= CheckHours[r]
<1> DEFINE r == tx.rule
           aged == [rule[r] EXCEPT !.age = AgeNow]
<1>1. r \in Rules /\ tx.read \in RuleType /\ rule[r] \in RuleType /\ tx.fp \in Fingerprints
      /\ rule \in [Rules -> RuleType]
    BY Transaction DEF TypeOK, Decided
<1>2. AgeNow \in Nat /\ AgeNow <= CheckHours[r]
    BY <1>1, AgeFits
<1>3. aged \in RuleType /\ aged.age = AgeNow
    BY <1>1, <1>2, Column DEF RuleType
<1>4. /\ Written(r, "met", FALSE) \in BOOLEAN /\ Written(r, "met", TRUE) \in BOOLEAN
      /\ Written(r, "fp", NoValue) \in Fingerprints \cup {NoValue}
      /\ Written(r, "fp", tx.fp) \in Fingerprints \cup {NoValue}
    <2>1. rule[r]["met"] \in BOOLEAN /\ rule[r]["fp"] \in Fingerprints \cup {NoValue}
        BY <1>1 DEF RuleType
    <2> QED BY <1>1, <2>1, Zenon DEF Written
<1>5. Checked(r) = [rule EXCEPT ![r] = aged]
    BY Zenon DEF Checked
<1>6. Unmet(r) = [rule EXCEPT ![r] = UnmetRow(r)]
    BY <1>1, Zenon DEF Unmet, UnmetRow, Checked
<1>7. Notified(r) = [rule EXCEPT ![r] = NotifiedRow(r)]
    BY <1>1, Zenon DEF Notified, NotifiedRow, Checked
<1>8. UnmetRow(r) \in RuleType /\ UnmetRow(r).age = AgeNow
    <2>1. [aged EXCEPT !.met = Written(r, "met", FALSE)] \in RuleType
        BY <1>3, <1>4, Column
    <2>2. [aged EXCEPT !.met = Written(r, "met", FALSE)].fp \in Fingerprints \cup {NoValue}
        BY <2>1 DEF RuleType
    <2>3. UnmetRow(r) \in RuleType
        BY <1>4, <2>1, <2>2, Column, Zenon DEF UnmetRow
    <2>4. UnmetRow(r).age = aged.age
        BY <1>3 DEF UnmetRow, RuleType
    <2> QED BY <1>3, <2>3, <2>4
<1>9. NotifiedRow(r) \in RuleType /\ NotifiedRow(r).age = AgeNow
    <2>1. [aged EXCEPT !.fp = Written(r, "fp", tx.fp)] \in RuleType
        BY <1>3, <1>4, Column
    <2>2. [[aged EXCEPT !.fp = Written(r, "fp", tx.fp)] EXCEPT !.met = Written(r, "met", TRUE)] \in RuleType
        BY <1>4, <2>1, Column
    <2>3. NotifiedRow(r) \in RuleType
        BY <2>2, Column, Zenon DEF NotifiedRow
    <2>4. NotifiedRow(r).age = aged.age
        BY <1>3 DEF NotifiedRow, RuleType
    <2> QED BY <1>3, <2>3, <2>4
<1> QED BY <1>2, <1>3, <1>5, <1>6, <1>7, <1>8, <1>9, Zenon

LEMMA QueueRowType ==
    ASSUME TypeOK, Turn, tx # NoValue, tx.way = "queue"
    PROVE  QueueRow(tx.rule) \in QueueType
<1> DEFINE r == tx.rule
           wait == QuietWait(run.hour, Quiet[r].start, Quiet[r].end)
<1>1. r \in Rules /\ tx.fp \in Fingerprints /\ run.hour \in Hours
    BY Transaction, Running DEF Decided, RunType, Turn
<1>2. Quiet[r].start \in Hours /\ Quiet[r].end \in Hours
    BY <1>1, ConstantsAssumption
<1>3. IsQuiet(run.hour, Quiet[r].start, Quiet[r].end)
    BY Zenon DEF Turn, QuietNow
<1>4. wait \in 1..DayLength
    BY <1>1, <1>2, <1>3, DayLengthAssumption, SMT DEF QuietWait, IsQuiet, Hours
<1> HIDE DEF wait
<1>5. (IF hour = run.hour THEN wait ELSE wait - 1) \in 0..DayLength
    BY <1>4, DayLengthAssumption, SMT
<1>6. QueueRow(r) = [rule |-> r, fp |-> tx.fp, reached |-> FALSE,
                     wait |-> IF hour = run.hour THEN wait ELSE wait - 1]
    BY Zenon DEF QueueRow, wait
<1> QED BY <1>1, <1>5, <1>6 DEF QueueType

LEMMA TypeCommit == TypeOK /\ Turn /\ Commit => TypeOK'
<1> SUFFICES ASSUME TypeOK, Turn, Commit PROVE TypeOK'
    OBVIOUS
<1> DEFINE r == tx.rule
<1>1. tx # NoValue /\ tx.way # "read" /\ run.on /\ run.price \in Prices
    BY Zenon DEF Commit, Ready, Turn
<1>2. r \in Rules /\ tx.fp \in Fingerprints /\ tx \in Decided
    BY <1>1, Transaction DEF Decided
<1>3. Ends
    BY <1>1, EndTxType, Zenon DEF Commit
<1>4. latest' \in Prices \cup {NoValue} /\ low' \in {p.final : p \in Prices} \cup {NoValue}
    BY <1>1, Zenon DEF Commit, AddSnapshot, TypeOK
<1>5. \/ rule' = Unmet(r) /\ (told' = told \/ told' = [told EXCEPT ![r] = NoValue])
         /\ UNCHANGED <<queue, repeats>>
      \/ rule' = Checked(r) /\ UNCHANGED <<queue, told, repeats>>
      \/ rule' = Notified(r) /\ UNCHANGED <<queue, told, repeats>>
      \/ /\ tx.way = "queue" /\ rule' = Notified(r)
         /\ queue' = [queue EXCEPT ![FreeSlot] = QueueRow(r)]
         /\ Repeated(IF AlreadyTold(r, tx.fp) THEN 1 ELSE 0)
         /\ told' = [told EXCEPT ![r] = tx.fp]
    <2>1. tx.way \in {"skip", "queue", "send"}
        BY <1>2 DEF Decided
    <2> QED BY <2>1 DEF Commit
<1>6. rule' \in [Rules -> RuleType] /\ \A q \in Rules : rule'[q].age <= CheckHours[q]
    <2>1. rule' \in {Unmet(r), Checked(r), Notified(r)}
        BY <1>5, Zenon
    <2>2. PICK row \in {[rule[r] EXCEPT !.age = AgeNow], UnmetRow(r), NotifiedRow(r)} :
              rule' = [rule EXCEPT ![r] = row]
        BY <1>1, <2>1, CommittedRows, Zenon
    <2>3. row \in RuleType /\ row.age <= CheckHours[r]
        BY <1>1, CommittedRows, Zenon
    <2> QED BY <1>2, <2>2, <2>3, RowUpdate, Zenon
<1>7. told' \in [Rules -> Fingerprints \cup {NoValue}]
    <2>1. told' = told \/ told' = [told EXCEPT ![r] = NoValue] \/ told' = [told EXCEPT ![r] = tx.fp]
        BY <1>5, Zenon
    <2> QED BY <1>2, <2>1 DEF TypeOK
<1>8. queue' \in [Slots -> QueueType \cup {NoValue}] /\ repeats' \in 0..MaxFaults + 1
    <2>1. CASE UNCHANGED <<queue, repeats>>
        BY <2>1, Zenon DEF TypeOK
    <2>2. CASE /\ tx.way = "queue" /\ queue' = [queue EXCEPT ![FreeSlot] = QueueRow(r)]
               /\ Repeated(IF AlreadyTold(r, tx.fp) THEN 1 ELSE 0)
        <3>1. QueueRow(r) \in QueueType
            BY <1>1, <2>2, QueueRowType
        <3>2. (IF AlreadyTold(r, tx.fp) THEN 1 ELSE 0) \in Nat
            BY SMT
        <3>3. repeats' \in 0..MaxFaults + 1
            BY <2>2, <3>2, Capped, Zenon
        <3>4. queue' \in [Slots -> QueueType \cup {NoValue}]
            BY <2>2, <3>1 DEF TypeOK
        <3> QED BY <3>3, <3>4
    <2> QED BY <1>5, <2>1, <2>2, Zenon
<1>9. UNCHANGED <<hour, locked, job, faults, wide, edits>>
    BY Zenon DEF Commit
<1> QED BY <1>3, <1>4, <1>6, <1>7, <1>8, <1>9, Zenon DEF TypeOK, Ends

LEMMA TypeDeferred ==
    ASSUME TypeOK, JobFits, JobStart \/ JobSend \/ JobCommit
    PROVE  TypeOK'
<1>1. CASE JobStart
    <2>1. PICK due \in SUBSET Slots : job' = [on |-> TRUE, todo |-> due, sent |-> {}]
        BY <1>1, Zenon DEF JobStart
    <2>2. job' \in JobType
        BY <2>1 DEF JobType
    <2>3. UNCHANGED <<hour, latest, low, rule, queue, locked, run, tx, told, repeats, wide, faults, edits>>
        BY <1>1, Zenon DEF JobStart, db, history
    <2> QED BY <2>2, <2>3, Zenon DEF TypeOK
<1>2. CASE JobSend
    <2>1. job \in JobType
        BY <1>2, Sending DEF JobSend
    <2>2. PICK s \in job.todo, o \in SendOutcomes :
              /\ faults + FaultsOf(o) <= MaxFaults
              /\ faults' = faults + FaultsOf(o)
              /\ Repeated(RepeatsOf(o, queue[s].reached))
              /\ queue' = [queue EXCEPT ![s].reached = @ \/ o.copies > 0]
              /\ job' = [job EXCEPT !.todo = @ \ {s}, !.sent = IF o.ok THEN @ \cup {s} ELSE @]
        BY <1>2, Zenon DEF JobSend
    <2>3. s \in Slots /\ job' \in JobType
        BY <2>1, <2>2 DEF JobType
    <2>4. FaultsOf(o) \in Nat
        BY Outcome
    <2>5. RepeatsOf(o, queue[s].reached) \in Nat
        <3>1. o.copies \in 0..2
            BY Outcome
        <3> QED BY <3>1, SMT DEF RepeatsOf
    <2>6. faults' \in 0..MaxFaults /\ repeats' \in 0..MaxFaults + 1
        BY <2>2, <2>4, <2>5, Capped, ConstantsAssumption DEF TypeOK
    <2>7. queue' \in [Slots -> QueueType \cup {NoValue}]
        <3>1. queue[s] \in QueueType
            BY <1>2, <2>2, <2>3, Zenon DEF TypeOK, JobFits, JobSend
        <3>2. (queue[s].reached \/ o.copies > 0) \in BOOLEAN
            OBVIOUS
        <3>3. [queue[s] EXCEPT !.reached = queue[s].reached \/ o.copies > 0] \in QueueType
            BY <3>1, <3>2 DEF QueueType
        <3> QED BY <2>2, <3>3 DEF TypeOK
    <2>8. UNCHANGED <<hour, latest, low, rule, locked, run, tx, told, wide, edits>>
        BY <1>2, Zenon DEF JobSend
    <2> QED BY <2>3, <2>6, <2>7, <2>8, Zenon DEF TypeOK
<1>3. CASE JobCommit
    <2>1. queue' \in [Slots -> QueueType \cup {NoValue}] /\ job' = Idle
        BY <1>3 DEF JobCommit, TypeOK
    <2>2. UNCHANGED <<hour, latest, low, rule, locked, run, tx, told, repeats, wide, faults, edits>>
        BY <1>3, Zenon DEF JobCommit, history
    <2> QED BY <2>1, <2>2, Zenon DEF TypeOK
<1> QED BY <1>1, <1>2, <1>3

\* What an edit writes to its rule.
LEMMA Edits ==
    ASSUME TypeOK, NEW r \in Rules,
           \/ WatchEditValue(r) \/ FilterToggle(r) \/ FilterRepeat(r)
           \/ WatchNotifications(r) \/ WatchDelete(r)
    PROVE  /\ rule' \in [Rules -> RuleType] /\ \A q \in Rules : rule'[q].age <= CheckHours[q]
           /\ Editable(r)
           /\ told' \in {told, [told EXCEPT ![r] = NoValue]}
           /\ UNCHANGED <<hour, latest, low, queue, locked, run, tx, job, repeats, wide>>
           /\ \A q \in Rules \ {r} : rule'[q] = rule[q]
<1>0. rule[r] \in RuleType /\ rule[r].policy \in Policies /\ rule[r].anyDrop \in BOOLEAN
      /\ rule[r].knownLow \in BOOLEAN /\ rule[r].on \in BOOLEAN /\ rule \in [Rules -> RuleType]
      /\ rule[r].age <= CheckHours[r]
    BY DEF TypeOK, RuleType
<1>1. ASSUME NEW row \in RuleType, row.age = rule[r].age, rule' = [rule EXCEPT ![r] = row]
      PROVE  /\ rule' \in [Rules -> RuleType] /\ \A q \in Rules : rule'[q].age <= CheckHours[q]
             /\ \A q \in Rules \ {r} : rule'[q] = rule[q]
    BY <1>0, <1>1, RowUpdate
<1>2. CASE WatchEditValue(r)
    <2>1. PICK p \in EditPrices :
              rule' = [rule EXCEPT ![r].maxPrice = p, ![r].minDiscount = NoValue,
                                   ![r].fp = NoValue, ![r].met = FALSE]
        BY <1>2, Zenon DEF WatchEditValue
    <2> DEFINE row == [[[[rule[r] EXCEPT !.maxPrice = p] EXCEPT !.minDiscount = NoValue]
                           EXCEPT !.fp = NoValue] EXCEPT !.met = FALSE]
    <2>2. p \in Amounts /\ NoValue \in Amounts
        BY ConstantsAssumption DEF Amounts
    <2>3. [[rule[r] EXCEPT !.maxPrice = p] EXCEPT !.minDiscount = NoValue] \in RuleType
        BY <1>0, <2>2, Column
    <2>4. row \in RuleType
        BY <2>3, Column
    <2>5. row.age = rule[r].age
        BY <1>0 DEF RuleType
    <2>6. rule' = [rule EXCEPT ![r] = row]
        BY <1>0, <2>1, Zenon
    <2> QED BY <1>1, <1>2, <2>4, <2>5, <2>6, Zenon DEF WatchEditValue, KeepOnce
<1>3. CASE FilterToggle(r)
    <2>1. \/ rule' = [rule EXCEPT ![r].anyDrop = ~@, ![r].fp = NoValue,
                                  ![r].met = FALSE, ![r].notified = FALSE]
          \/ rule' = [rule EXCEPT ![r].knownLow = ~@, ![r].fp = NoValue,
                                  ![r].met = FALSE, ![r].notified = FALSE]
        BY <1>3, Zenon DEF FilterToggle
    <2>2. PICK old \in {[rule[r] EXCEPT !.anyDrop = ~@], [rule[r] EXCEPT !.knownLow = ~@]} :
              rule' = [rule EXCEPT ![r] =
                          [[[old EXCEPT !.fp = NoValue] EXCEPT !.met = FALSE] EXCEPT !.notified = FALSE]]
        BY <1>0, <2>1, Zenon
    <2>3. (~rule[r].anyDrop) \in BOOLEAN /\ (~rule[r].knownLow) \in BOOLEAN
        OBVIOUS
    <2>4. old \in RuleType /\ old.age = rule[r].age
        <3>1. [rule[r] EXCEPT !.anyDrop = ~@] \in RuleType /\ [rule[r] EXCEPT !.knownLow = ~@] \in RuleType
            BY <1>0, <2>3, Column, Zenon
        <3>2. /\ [rule[r] EXCEPT !.anyDrop = ~@].age = rule[r].age
              /\ [rule[r] EXCEPT !.knownLow = ~@].age = rule[r].age
            BY <1>0 DEF RuleType
        <3> QED BY <2>2, <3>1, <3>2, Zenon
    <2> DEFINE row == [[[old EXCEPT !.fp = NoValue] EXCEPT !.met = FALSE] EXCEPT !.notified = FALSE]
    <2>5. row \in RuleType
        BY <2>4, Column
    <2>6. row.age = rule[r].age
        BY <2>4 DEF RuleType
    <2> QED BY <1>1, <1>3, <2>2, <2>5, <2>6, Zenon DEF FilterToggle
<1>4. CASE FilterRepeat(r)
    <2> DEFINE row == [[[[rule[r] EXCEPT !.policy = NextPolicy[@]] EXCEPT !.fp = NoValue]
                           EXCEPT !.met = FALSE] EXCEPT !.notified = FALSE]
    <2>1. NextPolicy[rule[r].policy] \in Policies
        BY <1>0 DEF NextPolicy, Policies
    <2>2. [rule[r] EXCEPT !.policy = NextPolicy[@]] \in RuleType
        BY <1>0, <2>1, Column, Zenon
    <2>3. row \in RuleType
        BY <2>2, Column
    <2>4. row.age = rule[r].age
        BY <1>0 DEF RuleType
    <2>5. rule' = [rule EXCEPT ![r] = row]
        BY <1>0, <1>4, Zenon DEF FilterRepeat
    <2> QED BY <1>1, <1>4, <2>3, <2>4, <2>5, Zenon DEF FilterRepeat
<1>5. CASE WatchNotifications(r) \/ WatchDelete(r)
    <2>1. PICK row \in {[rule[r] EXCEPT !.on = ~@], [rule[r] EXCEPT !.there = FALSE]} :
              rule' = [rule EXCEPT ![r] = row]
        BY <1>0, <1>5, Zenon DEF WatchNotifications, WatchDelete
    <2>2. (~rule[r].on) \in BOOLEAN
        OBVIOUS
    <2>3. [rule[r] EXCEPT !.on = ~@] \in RuleType /\ [rule[r] EXCEPT !.there = FALSE] \in RuleType
        BY <1>0, <2>2, Column, Zenon
    <2>4. /\ [rule[r] EXCEPT !.on = ~@].age = rule[r].age
          /\ [rule[r] EXCEPT !.there = FALSE].age = rule[r].age
        BY <1>0 DEF RuleType
    <2>5. row \in RuleType /\ row.age = rule[r].age
        BY <2>1, <2>3, <2>4, Zenon
    <2> QED BY <1>1, <1>5, <2>1, <2>5, Zenon DEF WatchNotifications, WatchDelete
<1> QED BY <1>2, <1>3, <1>4, <1>5

LEMMA TypeUsers ==
    ASSUME TypeOK, NEW r \in Rules,
           \/ WatchEditValue(r) \/ FilterToggle(r) \/ FilterRepeat(r)
           \/ WatchNotifications(r) \/ WatchDelete(r) \/ WatchRefresh(r)
    PROVE  TypeOK'
<1>1. CASE WatchRefresh(r)
    <2>1. latest' \in Prices \cup {NoValue} /\ low' \in {p.final : p \in Prices} \cup {NoValue}
        BY <1>1, Zenon DEF WatchRefresh, TypeOK
    <2>2. run' \in RunType \cup {Idle}
        <3>1. CASE run.on
            <4>1. run' = [run EXCEPT !.refreshed = TRUE] /\ run \in RunType
                BY <1>1, <3>1, Running, Zenon DEF WatchRefresh
            <4> QED BY <4>1 DEF RunType
        <3>2. CASE ~run.on
            BY <1>1, <3>2, Zenon DEF WatchRefresh, TypeOK
        <3> QED BY <3>1, <3>2
    <2>3. edits' \in 0..MaxEdits
        BY <1>1, ConstantsAssumption, SMT DEF WatchRefresh, TypeOK
    <2>4. UNCHANGED <<hour, rule, queue, locked, tx, job, told, repeats, wide, faults>>
        BY <1>1, Zenon DEF WatchRefresh
    <2> QED BY <2>1, <2>2, <2>3, <2>4, Zenon DEF TypeOK
<1>2. CASE \/ WatchEditValue(r) \/ FilterToggle(r) \/ FilterRepeat(r)
           \/ WatchNotifications(r) \/ WatchDelete(r)
    <2>1. /\ rule' \in [Rules -> RuleType] /\ \A q \in Rules : rule'[q].age <= CheckHours[q]
          /\ Editable(r)
          /\ told' \in {told, [told EXCEPT ![r] = NoValue]}
          /\ UNCHANGED <<hour, latest, low, queue, locked, run, tx, job, repeats, wide>>
        BY <1>2, Edits, Zenon
    <2>2. edits < MaxEdits /\ edits' = edits + 1
          /\ (faults' = faults \/ (faults < MaxFaults /\ faults' = faults + 1))
        BY <2>1, Zenon DEF Editable
    <2>3. edits' \in 0..MaxEdits /\ faults' \in 0..MaxFaults
        BY <2>2, ConstantsAssumption, SMT DEF TypeOK
    <2>4. told' \in [Rules -> Fingerprints \cup {NoValue}]
        BY <2>1 DEF TypeOK
    <2> QED BY <2>1, <2>3, <2>4, Zenon DEF TypeOK
<1> QED BY <1>1, <1>2

LEMMA LostCounts == TypeOK => LostByCrash \in Nat
<1> SUFFICES ASSUME TypeOK PROVE LostByCrash \in Nat
    OBVIOUS
<1>1. job.on => Cardinality(job.sent) \in Nat
    BY Sending, ConstantsAssumption, FS_Subset, FS_CardinalityType DEF JobType
<1> QED BY <1>1, SMT DEF LostByCrash

LEMMA TypeWorld ==
    ASSUME TypeOK, Tick \/ LockExpires \/ Crash
    PROVE  TypeOK'
<1>1. CASE Tick
    <2>1. hour' \in Hours
        BY <1>1, DayLengthAssumption, SMT DEF Tick, TypeOK, Hours
    <2>2. rule' \in [Rules -> RuleType] /\ \A q \in Rules : rule'[q].age <= CheckHours[q]
        <3>1. ASSUME NEW q \in Rules
              PROVE  rule'[q] \in RuleType /\ rule'[q].age <= CheckHours[q]
            <4> DEFINE age == IF rule[q].age < CheckHours[q] THEN rule[q].age + 1 ELSE rule[q].age
            <4>1. rule[q] \in RuleType /\ rule[q].age \in Nat /\ rule[q].age <= CheckHours[q]
                  /\ CheckHours[q] \in Nat
                BY ConstantsAssumption DEF TypeOK, RuleType
            <4>2. age \in Nat /\ age <= CheckHours[q]
                BY <4>1, SMT
            <4>3. rule'[q] = [rule[q] EXCEPT !.age = age]
                BY <1>1, Zenon DEF Tick
            <4> HIDE DEF age
            <4>4. [rule[q] EXCEPT !.age = age] \in RuleType
                BY <4>1, <4>2, Column
            <4>5. [rule[q] EXCEPT !.age = age].age = age
                BY <4>1 DEF RuleType
            <4> QED BY <4>2, <4>3, <4>4, <4>5
        <3>2. rule' = [q \in Rules |-> rule'[q]]
            BY <1>1, Zenon DEF Tick
        <3> QED BY <3>1, <3>2
    <2>3. queue' \in [Slots -> QueueType \cup {NoValue}]
        <3>1. ASSUME NEW s \in Slots PROVE queue'[s] \in QueueType \cup {NoValue}
            <4>1. CASE queue[s] = NoValue \/ queue[s].wait = 0
                BY <1>1, <4>1 DEF Tick, TypeOK
            <4>2. CASE ~(queue[s] = NoValue \/ queue[s].wait = 0)
                <5>1. queue[s] \in QueueType
                    BY <4>2 DEF TypeOK
                <5>2. queue[s].wait - 1 \in 0..DayLength
                    BY <4>2, <5>1, DayLengthAssumption DEF QueueType
                <5>3. queue'[s] = [queue[s] EXCEPT !.wait = queue[s].wait - 1]
                    BY <1>1, <4>2, Zenon DEF Tick
                <5> QED BY <5>1, <5>2, <5>3 DEF QueueType
            <4> QED BY <4>1, <4>2
        <3>2. queue' = [s \in Slots |-> queue'[s]]
            BY <1>1, Zenon DEF Tick
        <3> QED BY <3>1, <3>2
    <2>4. UNCHANGED <<latest, low, locked, run, tx, job, told, repeats, wide, faults, edits>>
        BY <1>1, Zenon DEF Tick, history
    <2> QED BY <2>1, <2>2, <2>3, <2>4, Zenon DEF TypeOK
<1>2. CASE LockExpires
    BY <1>2, Zenon DEF LockExpires, db, history, TypeOK
<1>3. CASE Crash
    <2>1. faults' \in 0..MaxFaults
        BY <1>3, LostCounts, ConstantsAssumption, SMT DEF Crash, TypeOK
    <2>2. run' = Idle /\ tx' = NoValue /\ job' = Idle
        BY <1>3, Zenon DEF Crash
    <2>3. UNCHANGED <<hour, latest, low, rule, queue, locked, told, repeats, wide, edits>>
        BY <1>3, Zenon DEF Crash, db
    <2> QED BY <2>1, <2>2, <2>3, Zenon DEF TypeOK
<1> QED BY <1>1, <1>2, <1>3

-----------------------------------------------------------------------------
(* The invariant that the types rest on.                                   *)

\* Every rule that a run has still to check finds a free row.
Free == {s \in Slots : queue[s] = NoValue}
Room == run.on => Cardinality(run.todo) <= Cardinality(Free)

Shape == TypeOK /\ Turn /\ JobFits /\ Room

LEMMA Finite ==
    ASSUME TypeOK
    PROVE  /\ IsFiniteSet(Free) /\ Cardinality(Free) \in Nat
           /\ run.on => run.todo \subseteq Rules /\ IsFiniteSet(run.todo) /\ Cardinality(run.todo) \in Nat
<1>1. IsFiniteSet(Free)
    <2>1. Free \subseteq Slots
        BY DEF Free
    <2> QED BY <2>1, ConstantsAssumption, FS_Subset
<1>2. run.on => run.todo \subseteq Rules
    BY Running DEF RunType
<1>3. run.on => IsFiniteSet(run.todo)
    BY <1>2, ConstantsAssumption, FS_Subset
<1> QED BY <1>1, <1>2, <1>3, FS_CardinalityType

\* A commit that queues has a row for its alert.
LEMMA FreeRow ==
    ASSUME TypeOK, Turn, Room, tx # NoValue
    PROVE  FreeSlot \in Slots /\ queue[FreeSlot] = NoValue
<1>1. run.on /\ run.todo # {}
    BY DEF Turn
<1>2. Cardinality(run.todo) # 0
    BY <1>1, Finite, FS_EmptySet
<1>3. Cardinality(Free) # 0
    BY <1>1, <1>2, Finite DEF Room
<1>4. Free # {}
    BY <1>3, FS_EmptySet
<1> QED BY <1>4, Zenon DEF Free, FreeSlot

\* A step that takes no row and gives the run nothing more to do.
LEMMA RoomStays ==
    ASSUME TypeOK, TypeOK', Room, Free \subseteq Free',
           run'.on => run.on /\ run'.todo \subseteq run.todo
    PROVE  Room'
<1> SUFFICES ASSUME run'.on PROVE Cardinality(run'.todo) <= Cardinality(Free')
    BY Zenon DEF Room
<1>1. /\ IsFiniteSet(run.todo) /\ Cardinality(run.todo) \in Nat
      /\ IsFiniteSet(Free') /\ Cardinality(Free') \in Nat /\ Cardinality(Free) \in Nat
      /\ Cardinality(run'.todo) \in Nat
    <2>1. (TypeOK => IsFiniteSet(Free) /\ Cardinality(Free) \in Nat)'
        BY Finite, PTL
    <2>2. (TypeOK => (run.on => Cardinality(run.todo) \in Nat))'
        BY Finite, PTL
    <2> QED BY <2>1, <2>2, Finite
<1>2. Cardinality(run'.todo) <= Cardinality(run.todo)
    BY <1>1, FS_Subset
<1>3. Cardinality(Free) <= Cardinality(Free')
    BY <1>1, FS_Subset
<1> QED BY <1>1, <1>2, <1>3 DEF Room

\* Steps of the jobs and of others, by what they do to the tasks and the rows.
Edit(r) ==
    \/ WatchEditValue(r) \/ FilterToggle(r) \/ FilterRepeat(r)
    \/ WatchNotifications(r) \/ WatchDelete(r)

LEMMA TypeStep ==
    ASSUME Shape, [Next]_vars
    PROVE  TypeOK'
<1>1. CASE Monitor
    BY <1>1, TypeRun, TypeBegin, TypeSend, TypeCommit, Zenon DEF Monitor, Shape
<1>2. CASE Deferred
    BY <1>2, TypeDeferred, Zenon DEF Deferred, Shape
<1>3. CASE Faults
    BY <1>3, TypeRun, TypeWorld, Zenon DEF Faults, Shape
<1>4. CASE Users
    BY <1>4, TypeUsers, Zenon DEF Users, Shape
<1>5. CASE World
    BY <1>5, TypeWorld, Zenon DEF World, Shape
<1>6. CASE UNCHANGED vars
    BY <1>6, Zenon DEF vars, db, history, TypeOK, Shape
<1> QED BY <1>1, <1>2, <1>3, <1>4, <1>5, <1>6, Zenon DEF Next

\* What an edit does not touch.
LEMMA EditLeaves ==
    ASSUME TypeOK, NEW r \in Rules, Edit(r)
    PROVE  UNCHANGED <<hour, latest, low, queue, locked, run, tx, job, repeats, wide>>
BY Edits, Zenon DEF Edit

LEMMA TurnStep ==
    ASSUME Shape, [Next]_vars
    PROVE  Turn'
<1>0. TypeOK /\ Turn
    BY Zenon DEF Shape
<1>1. ASSUME tx' = NoValue PROVE Turn'
    BY <1>1, Zenon DEF Turn
<1>2. ASSUME tx' = tx, run' = run PROVE Turn'
    BY <1>0, <1>2, Zenon DEF Turn, QuietNow
<1>3. CASE RunStart \/ Fetch \/ FetchFails \/ RunEnd
    <2>1. tx = NoValue
        BY <1>0, <1>3, Zenon DEF RunStart, Fetch, FetchFails, RunEnd, Turn
    <2>2. tx' = tx
        BY <1>3, Zenon DEF RunStart, Fetch, FetchFails, RunEnd
    <2> QED BY <1>1, <2>1, <2>2
<1>4. CASE CommitTooWide \/ CommitFails \/ Commit \/ Crash
    BY <1>1, <1>4, Zenon DEF CommitTooWide, CommitFails, Commit, EndTx, Crash
<1>5. CASE Begin
    <2>1. tx = NoValue /\ run.on /\ run.price # Unknown /\ run \in RunType
        BY <1>0, <1>5, Running, Zenon DEF Begin
    <2>2. CASE UNCHANGED tx
        BY <1>1, <2>1, <2>2
    <2>3. CASE tx' # tx
        <3>1. PICK r \in run.todo : /\ run.price # NoValue /\ run' = run
                                    /\ tx' = [rule |-> r, read |-> rule[r], way |-> "read", sent |-> FALSE]
            BY <1>5, <2>3, Zenon DEF Begin
        <3>2. run.price \in Prices
            BY <2>1, <3>1 DEF RunType
        <3>3. tx'.rule = r /\ tx'.way = "read"
            BY <3>1
        <3> QED BY <2>1, <3>1, <3>2, <3>3, Zenon DEF Turn
    <2> QED BY <2>2, <2>3
<1>6. CASE LockRule
    <2>1. CASE tx' = NoValue
        BY <1>1, <2>1
    <2>2. CASE tx' # NoValue
        <3>1. tx' = Decision(tx.rule, tx.read) /\ run' = run /\ tx # NoValue
            BY <1>6, <2>2, Zenon DEF LockRule, EndTx
        <3>2. Decision(tx.rule, tx.read).rule = tx.rule
            BY Zenon DEF Decision
        <3>3. Decision(tx.rule, tx.read).way = "queue" => QuietNow(tx.rule)
            BY Zenon DEF Decision
        <3> QED BY <1>0, <3>1, <3>2, <3>3, Zenon DEF Turn, QuietNow
    <2> QED BY <2>1, <2>2
<1>7. CASE Send
    <2>1. CASE tx' = NoValue
        BY <1>1, <2>1
    <2>2. CASE tx' # NoValue
        <3>1. tx' = [tx EXCEPT !.sent = TRUE] /\ run' = run /\ tx # NoValue /\ tx.way = "send"
            BY <1>7, <2>2, Zenon DEF Send, EndTx
        <3>2. tx \in Decided
            BY <1>0, <3>1, Transaction
        <3>3. tx'.rule = tx.rule /\ tx'.way = "send"
            BY <3>1, <3>2 DEF Decided
        <3> QED BY <1>0, <3>1, <3>3, Zenon DEF Turn
    <2> QED BY <2>1, <2>2
<1>8. CASE Deferred
    BY <1>2, <1>8, Zenon DEF Deferred, JobStart, JobSend, JobCommit
<1>9. ASSUME NEW r \in Rules, Edit(r) PROVE Turn'
    BY <1>0, <1>2, <1>9, EditLeaves, Zenon
<1>10. ASSUME NEW r \in Rules, WatchRefresh(r) PROVE Turn'
    <2>1. tx' = tx /\ (run' = run \/ (run.on /\ run' = [run EXCEPT !.refreshed = TRUE]))
        BY <1>10, Zenon DEF WatchRefresh
    <2>2. CASE run' = run
        BY <1>2, <2>1, <2>2
    <2>3. CASE run.on /\ run' = [run EXCEPT !.refreshed = TRUE]
        <3>1. /\ run'.on = run.on /\ run'.price = run.price /\ run'.todo = run.todo
              /\ run'.hour = run.hour
            BY <1>0, <2>3, Running DEF RunType
        <3> QED BY <1>0, <2>1, <3>1, Zenon DEF Turn, QuietNow
    <2> QED BY <2>1, <2>2, <2>3
<1>11. CASE World
    BY <1>2, <1>11, Zenon DEF World, Tick, LockExpires
<1>12. CASE UNCHANGED vars
    BY <1>2, <1>12, Zenon DEF vars
<1> QED BY <1>3, <1>4, <1>5, <1>6, <1>7, <1>8, <1>9, <1>10, <1>11, <1>12, Zenon
        DEF Next, Monitor, Faults, Users, Edit

\* What a commit stores in the queue.
LEMMA CommitQueues ==
    ASSUME TypeOK, Turn, Commit
    PROVE  \/ queue' = queue
           \/ tx.way = "queue" /\ queue' = [queue EXCEPT ![FreeSlot] = QueueRow(tx.rule)]
<1>1. tx \in Decided
    BY Transaction DEF Commit, Ready
<1>2. tx.way \in {"skip", "queue", "send"}
    BY <1>1 DEF Decided
<1> QED BY <1>2 DEF Commit

\* The hours that rows wait are all that a tick changes in the queue.
LEMMA TickRows ==
    ASSUME TypeOK, Tick, NEW s \in Slots
    PROVE  /\ queue'[s] = NoValue <=> queue[s] = NoValue
           /\ queue[s] # NoValue => queue'[s].reached = queue[s].reached
<1>1. CASE queue[s] = NoValue \/ queue[s].wait = 0
    BY <1>1, Zenon DEF Tick
<1>2. CASE ~(queue[s] = NoValue \/ queue[s].wait = 0)
    <2>1. queue[s] \in QueueType
        BY <1>2 DEF TypeOK
    <2>2. queue'[s] = [queue[s] EXCEPT !.wait = queue[s].wait - 1]
        BY <1>2, Zenon DEF Tick
    <2>3. queue'[s].reached = queue[s].reached
        BY <2>1, <2>2 DEF QueueType
    <2>4. queue[s].wait - 1 \in 0..DayLength
        BY <1>2, <2>1, DayLengthAssumption DEF QueueType
    <2>5. queue'[s] \in QueueType
        BY <2>1, <2>2, <2>4 DEF QueueType
    <2> QED BY <1>2, <2>3, <2>5, NoRowAssumption
<1> QED BY <1>1, <1>2

LEMMA JobFitsStep ==
    ASSUME Shape, [Next]_vars
    PROVE  JobFits'
<1>0. TypeOK /\ Turn /\ JobFits /\ Room
    BY Zenon DEF Shape
<1>1. ASSUME UNCHANGED <<job, queue>> PROVE JobFits'
    BY <1>0, <1>1, Zenon DEF JobFits
<1>2. ASSUME job' = Idle PROVE JobFits'
    BY <1>2 DEF Idle, JobFits
<1>3. CASE RunStart \/ Fetch \/ Begin \/ LockRule \/ Send \/ CommitTooWide \/ RunEnd
           \/ FetchFails \/ CommitFails \/ LockExpires
    BY <1>1, <1>3, Zenon DEF RunStart, Fetch, Begin, LockRule, Send, CommitTooWide, RunEnd,
                             FetchFails, CommitFails, LockExpires, db
<1>4. CASE Commit
    <2>1. job' = job
        BY <1>4, Zenon DEF Commit
    <2>2. CASE queue' = queue
        BY <1>1, <2>1, <2>2
    <2>3. CASE queue' = [queue EXCEPT ![FreeSlot] = QueueRow(tx.rule)]
        <3>1. FreeSlot \in Slots /\ queue[FreeSlot] = NoValue
            BY <1>0, <1>4, FreeRow DEF Commit, Ready
        <3>2. \A s \in Slots : s # FreeSlot => queue'[s] = queue[s]
            BY <1>0, <2>3 DEF TypeOK
        <3>3. job.on => job.todo \subseteq Slots /\ job.sent \subseteq Slots
            BY <1>0, Sending DEF JobType
        <3> QED BY <1>0, <2>1, <3>1, <3>2, <3>3 DEF JobFits
    <2> QED BY <1>0, <1>4, <2>2, <2>3, CommitQueues
<1>5. CASE JobStart
    <2> DEFINE due == {s \in Slots : queue[s] # NoValue /\ queue[s].wait = 0}
    <2>1. job' = [on |-> TRUE, todo |-> due, sent |-> {}] /\ queue' = queue
        BY <1>5, Zenon DEF JobStart, db
    <2>2. job'.todo = due /\ job'.sent = {}
        BY <2>1
    <2>3. \A s \in due : queue[s] # NoValue
        OBVIOUS
    <2> QED BY <2>1, <2>2, <2>3, Zenon DEF JobFits
<1>6. CASE JobSend
    <2>1. job \in JobType /\ job.on
        BY <1>0, <1>6, Sending DEF JobSend
    <2>2. PICK s \in job.todo, o \in SendOutcomes :
              /\ queue' = [queue EXCEPT ![s].reached = @ \/ o.copies > 0]
              /\ job' = [job EXCEPT !.todo = @ \ {s}, !.sent = IF o.ok THEN @ \cup {s} ELSE @]
        BY <1>6, Zenon DEF JobSend
    <2>3. s \in Slots /\ queue[s] \in QueueType /\ s \notin job.sent
        BY <1>0, <2>1, <2>2 DEF JobType, JobFits, TypeOK
    <2>4. job'.todo = job.todo \ {s} /\ job'.sent = IF o.ok THEN job.sent \cup {s} ELSE job.sent
        BY <2>1, <2>2 DEF JobType
    <2>5. o.ok => o.copies > 0
        BY Zenon DEF SendOutcomes
    <2>6. queue'[s] = [queue[s] EXCEPT !.reached = queue[s].reached \/ o.copies > 0]
        BY <1>0, <2>2, <2>3 DEF TypeOK
    <2>7. queue'[s].reached = (queue[s].reached \/ o.copies > 0) /\ queue'[s] # NoValue
        <3>1. (queue[s].reached \/ o.copies > 0) \in BOOLEAN
            OBVIOUS
        <3>2. queue'[s] \in QueueType
            BY <2>3, <2>6, <3>1 DEF QueueType
        <3> QED BY <2>3, <2>6, <3>2, NoRowAssumption DEF QueueType
    <2>8. \A t \in Slots : t # s => queue'[t] = queue[t]
        BY <1>0, <2>2 DEF TypeOK
    <2>9. job.todo \subseteq Slots /\ job.sent \subseteq Slots
        BY <2>1 DEF JobType
    <2> QED BY <1>0, <2>1, <2>3, <2>4, <2>5, <2>7, <2>8, <2>9 DEF JobFits
<1>7. CASE JobCommit \/ Crash
    BY <1>2, <1>7, Zenon DEF JobCommit, Crash
<1>8. CASE Tick
    <2>1. job' = job
        BY <1>8, Zenon DEF Tick
    <2>2. job.on => job.todo \subseteq Slots /\ job.sent \subseteq Slots
        BY <1>0, Sending DEF JobType
    <2> QED BY <1>0, <1>8, <2>1, <2>2, TickRows DEF JobFits
<1>9. ASSUME NEW r \in Rules, Edit(r) PROVE JobFits'
    BY <1>0, <1>1, <1>9, EditLeaves, Zenon
<1>10. ASSUME NEW r \in Rules, WatchRefresh(r) PROVE JobFits'
    BY <1>1, <1>10, Zenon DEF WatchRefresh
<1>11. CASE UNCHANGED vars
    BY <1>1, <1>11, Zenon DEF vars, db
<1> QED BY <1>3, <1>4, <1>5, <1>6, <1>7, <1>8, <1>9, <1>10, <1>11, Zenon
        DEF Next, Monitor, Deferred, Faults, Users, World, Edit

LEMMA RoomStep ==
    ASSUME Shape, [Next]_vars
    PROVE  Room'
<1>0. TypeOK /\ Turn /\ JobFits /\ Room /\ TypeOK'
    BY TypeStep, Zenon DEF Shape
<1>1. ASSUME Free \subseteq Free', run' = run PROVE Room'
    BY <1>0, <1>1, RoomStays
<1>2. ASSUME queue' = queue PROVE Free' = Free
    BY <1>2, Zenon DEF Free
<1>3. ASSUME Free' = Free, EndTx PROVE Room'
    <2>1. run'.on => run.on /\ run'.todo \subseteq run.todo
        <3>1. run' = [run EXCEPT !.todo = run.todo \ {tx.rule}]
            BY <1>3, Zenon DEF EndTx
        <3>2. CASE run.on
            BY <1>0, <3>1, <3>2, Running DEF RunType
        <3>3. CASE run = Idle
            BY <3>1, <3>3 DEF Idle
        <3> QED BY <1>0, <3>2, <3>3 DEF TypeOK, RunType
    <2> QED BY <1>0, <1>3, <2>1, RoomStays
<1>4. CASE RunStart
    <2>1. /\ Cardinality(Free) >= Cardinality(Rules)
          /\ Free' = Free
        BY <1>4, Zenon DEF RunStart, Free, db
    <2>2. PICK todo \in SUBSET Rules : run'.todo = todo
        BY <1>4, Zenon DEF RunStart
    <2>3. Cardinality(todo) <= Cardinality(Rules) /\ Cardinality(todo) \in Nat /\ Cardinality(Rules) \in Nat
        BY ConstantsAssumption, FS_Subset, FS_CardinalityType
    <2>4. Cardinality(run'.todo) <= Cardinality(Free')
        BY <1>0, <2>1, <2>2, <2>3, Finite
    <2> QED BY <2>4, Zenon DEF Room
<1>5. CASE Fetch \/ FetchFails \/ Begin
    <2>1. queue' = queue /\ run.on /\ run \in RunType
        BY <1>0, <1>5, Running, Zenon DEF Fetch, FetchFails, Begin, db
    <2>2. \/ run' = run \/ \E price : run' = [run EXCEPT !.price = price]
          \/ \E r : run' = [run EXCEPT !.todo = @ \ {r}]
        BY <1>5, Zenon DEF Fetch, FetchFails, Begin
    <2>3. run'.todo \subseteq run.todo
        BY <2>1, <2>2 DEF RunType
    <2> QED BY <1>0, <1>2, <2>1, <2>3, RoomStays
<1>6. CASE LockRule \/ Send \/ CommitTooWide \/ CommitFails
    <2>1. queue' = queue /\ (run' = run \/ EndTx)
        BY <1>6, Zenon DEF LockRule, Send, CommitTooWide, CommitFails, db
    <2> QED BY <1>1, <1>2, <1>3, <2>1
<1>7. CASE Commit
    <2>0. EndTx /\ tx # NoValue /\ run.on /\ tx.rule \in run.todo
        BY <1>0, <1>7, Zenon DEF Commit, Ready, Turn
    <2>1. CASE queue' = queue
        BY <1>2, <1>3, <2>0, <2>1
    <2>2. CASE tx.way = "queue" /\ queue' = [queue EXCEPT ![FreeSlot] = QueueRow(tx.rule)]
        <3>1. FreeSlot \in Slots /\ queue[FreeSlot] = NoValue
            BY <1>0, <2>0, FreeRow
        <3>2. QueueRow(tx.rule) # NoValue
            BY <1>0, <2>0, <2>2, QueueRowType, NoRowAssumption
        <3>3. Free' = Free \ {FreeSlot} /\ FreeSlot \in Free
            BY <1>0, <2>2, <3>1, <3>2 DEF Free, TypeOK
        <3>4. run' = [run EXCEPT !.todo = run.todo \ {tx.rule}]
            BY <2>0, Zenon DEF EndTx
        <3>5. run'.todo = run.todo \ {tx.rule}
            BY <1>0, <2>0, <3>4, Running DEF RunType
        <3>6. Cardinality(run'.todo) = Cardinality(run.todo) - 1
            BY <1>0, <2>0, <3>5, Finite, FS_RemoveElement
        <3>7. Cardinality(Free') = Cardinality(Free) - 1
            BY <1>0, <3>3, Finite, FS_RemoveElement
        <3>8. Cardinality(run.todo) \in Nat /\ Cardinality(Free) \in Nat
            BY <1>0, <2>0, Finite
        <3> QED BY <1>0, <2>0, <3>6, <3>7, <3>8 DEF Room
    <2> QED BY <1>0, <1>7, <2>1, <2>2, CommitQueues
<1>8. CASE RunEnd \/ Crash
    <2>1. run' = Idle
        BY <1>8, Zenon DEF RunEnd, Crash
    <2> QED BY <2>1 DEF Idle, Room
<1>9. CASE JobStart \/ LockExpires
    BY <1>1, <1>2, <1>9, Zenon DEF JobStart, LockExpires, db
<1>10. CASE JobSend \/ JobCommit
    <2>1. run' = run
        BY <1>10, Zenon DEF JobSend, JobCommit
    <2>2. Free \subseteq Free'
        <3>1. CASE JobSend
            <4>1. PICK s \in job.todo, o \in SendOutcomes :
                      queue' = [queue EXCEPT ![s].reached = @ \/ o.copies > 0]
                BY <3>1, Zenon DEF JobSend
            <4>2. queue[s] # NoValue
                BY <1>0, <3>1, <4>1, Zenon DEF JobFits, JobSend
            <4> QED BY <1>0, <4>1, <4>2 DEF Free, TypeOK
        <3>2. CASE JobCommit
            BY <3>2, Zenon DEF JobCommit, Free
        <3> QED BY <1>10, <3>1, <3>2
    <2> QED BY <1>1, <2>1, <2>2
<1>11. CASE Tick
    <2>1. run' = run /\ Free \subseteq Free'
        BY <1>0, <1>11, TickRows DEF Tick, Free
    <2> QED BY <1>1, <2>1
<1>12. ASSUME NEW r \in Rules, Edit(r) PROVE Room'
    <2>1. run' = run /\ queue' = queue
        BY <1>0, <1>12, EditLeaves, Zenon
    <2> QED BY <1>1, <1>2, <2>1
<1>13. ASSUME NEW r \in Rules, WatchRefresh(r) PROVE Room'
    <2>1. queue' = queue /\ (run' = run \/ (run.on /\ run' = [run EXCEPT !.refreshed = TRUE]))
        BY <1>13, Zenon DEF WatchRefresh
    <2>2. run'.on => run.on /\ run'.todo \subseteq run.todo
        BY <1>0, <2>1, Running DEF RunType
    <2> QED BY <1>0, <1>2, <2>1, <2>2, RoomStays
<1>14. CASE UNCHANGED vars
    BY <1>1, <1>2, <1>14, Zenon DEF vars, db
<1> QED BY <1>4, <1>5, <1>6, <1>7, <1>8, <1>9, <1>10, <1>11, <1>12, <1>13, <1>14, Zenon
        DEF Next, Monitor, Deferred, Faults, Users, World, Edit

LEMMA ShapeInit == Init => Shape
<1> SUFFICES ASSUME Init PROVE Shape
    OBVIOUS
<1>1. tx = NoValue /\ run = Idle /\ job = Idle
    BY Zenon DEF Init
<1>2. Turn /\ JobFits /\ Room
    BY <1>1 DEF Turn, JobFits, Room, Idle
<1> QED BY <1>2, TypeInit, Zenon DEF Shape

LEMMA ShapeStep == Shape /\ [Next]_vars => Shape'
BY TypeStep, TurnStep, JobFitsStep, RoomStep, Zenon DEF Shape

\* All variables keep their types, however many rules, prices and hours there
\* are: no row waits longer than a day, no rule's check is older than its plan says.
THEOREM TypeCorrect == Spec => []TypeOK
<1>1. Shape => TypeOK
    BY Zenon DEF Shape
<1> QED BY ShapeInit, ShapeStep, <1>1, PTL DEF Spec

-----------------------------------------------------------------------------
(* The queue of quiet hours.                                               *)

LEMMA SurvivesStep ==
    ASSUME Shape, [Next]_vars, NEW s \in Slots, queue[s] # NoValue, queue'[s] = NoValue
    PROVE  queue[s].reached
<1>0. TypeOK /\ Turn /\ JobFits /\ Room
    BY Zenon DEF Shape
<1>1. CASE JobCommit
    <2>1. s \in job.sent /\ job.on
        BY <1>1, Zenon DEF JobCommit
    <2> QED BY <1>0, <2>1, Zenon DEF JobFits
<1>2. CASE JobSend
    <2>1. PICK t \in job.todo, o \in SendOutcomes :
              queue' = [queue EXCEPT ![t].reached = @ \/ o.copies > 0]
        BY <1>2, Zenon DEF JobSend
    <2>2. queue[s] \in QueueType /\ (queue[s].reached \/ o.copies > 0) \in BOOLEAN
        BY <1>0 DEF TypeOK
    <2>3. queue'[s] \in QueueType
        BY <1>0, <2>1, <2>2 DEF TypeOK, QueueType
    <2> QED BY <2>3, NoRowAssumption
<1>3. CASE Commit
    <2>1. CASE queue' = queue
        BY <2>1
    <2>2. CASE tx.way = "queue" /\ queue' = [queue EXCEPT ![FreeSlot] = QueueRow(tx.rule)]
        <3>1. FreeSlot \in Slots /\ queue[FreeSlot] = NoValue
            BY <1>0, <1>3, FreeRow DEF Commit, Ready
        <3> QED BY <1>0, <2>2, <3>1 DEF TypeOK
    <2> QED BY <1>0, <1>3, <2>1, <2>2, CommitQueues
<1>4. CASE Tick
    BY <1>0, <1>4, TickRows
<1>5. ASSUME queue' = queue PROVE FALSE
    BY <1>5
<1>6. CASE \/ RunStart \/ Fetch \/ Begin \/ LockRule \/ Send \/ CommitTooWide \/ RunEnd
           \/ Faults \/ LockExpires \/ JobStart
    BY <1>5, <1>6, Zenon DEF RunStart, Fetch, Begin, LockRule, Send, CommitTooWide, RunEnd, Faults,
                             FetchFails, CommitFails, Crash, LockExpires, JobStart, db
<1>7. ASSUME NEW r \in Rules, Edit(r) \/ WatchRefresh(r) PROVE FALSE
    BY <1>0, <1>5, <1>7, EditLeaves, Zenon DEF WatchRefresh
<1>8. CASE UNCHANGED vars
    BY <1>5, <1>8, Zenon DEF vars, db
<1> QED BY <1>1, <1>2, <1>3, <1>4, <1>6, <1>7, <1>8, Zenon
        DEF Next, Monitor, Deferred, Users, World, Edit

\* No row leaves the queue before its alert reached the owner, for any rules and
\* rows, also while a run stores new ones and the process dies between a send and
\* its commit.
THEOREM QueueSurvives == Spec => QueuedAlertsSurvive
<1>1. Shape /\ [Next]_vars =>
          [\A s \in Slots : queue[s] # NoValue /\ queue'[s] = NoValue => queue[s].reached]_vars
    BY SurvivesStep, Zenon
<1> QED BY ShapeInit, ShapeStep, <1>1, PTL DEF Spec, QueuedAlertsSurvive

-----------------------------------------------------------------------------
(* Protection against repeated alerts.                                     *)

\* The row says that its owner had the alert fp.
Remembers(row, fp) ==
    IF row.policy = "once" THEN row.notified
    ELSE IF row.policy = "reentry" THEN row.met ELSE row.fp = fp

\* The open transaction has sent its alert and is about to say so.
Saying(r) == tx # NoValue /\ tx.rule = r /\ tx.sent

\* Alerts that arrived and that the database does not know of: of a rule, and of a
\* row of the queue.
Doubtful == {r \in Rules : told[r] # NoValue /\ ~Remembers(rule[r], told[r]) /\ ~Saying(r)}
Unmarked == {s \in Slots : queue[s] # NoValue /\ queue[s].reached /\ ~(job.on /\ s \in job.sent)}

SameState(row, read) ==
    /\ row.policy = read.policy /\ row.fp = read.fp
    /\ row.met = read.met /\ row.notified = read.notified

\* The rule was edited after the open transaction had read it.
Stale == IF tx # NoValue /\ ~SameState(rule[tx.rule], tx.read) THEN 1 ELSE 0

\* Every fault has caused a repeated alert, or may cause one still.
Debts == ~wide => repeats + Cardinality(Doubtful) + Cardinality(Unmarked) + Stale <= faults

\* How the alert that r's owner had last looks in the row, as far as it matters.
Agrees(row, read) ==
    /\ row.policy = read.policy /\ row.notified = read.notified
    /\ read.policy # "once" => SameState(row, read)

\* A transaction that alerts found no such alert in the row that it read; an
\* owner whose alert is not forgotten has the row that was read.
Sound ==
    tx # NoValue =>
        /\ tx.sent => tx.way = "send" /\ told[tx.rule] = tx.fp
        /\ tx.way \in {"send", "queue"} =>
              tx.reasons # {} /\ ~IsDuplicate(tx.read, tx.fp, tx.reasons)
        /\ told[tx.rule] = NoValue \/ tx.sent \/ Agrees(rule[tx.rule], tx.read)

LEMMA Sizes ==
    ASSUME TypeOK
    PROVE  /\ IsFiniteSet(Doubtful) /\ Cardinality(Doubtful) \in Nat
           /\ IsFiniteSet(Unmarked) /\ Cardinality(Unmarked) \in Nat
           /\ Stale \in {0, 1} /\ repeats \in Nat /\ faults \in Nat
<1>1. IsFiniteSet(Doubtful)
    <2>1. Doubtful \subseteq Rules
        BY Zenon DEF Doubtful
    <2> QED BY <2>1, ConstantsAssumption, FS_Subset
<1>2. IsFiniteSet(Unmarked)
    <2>1. Unmarked \subseteq Slots
        BY Zenon DEF Unmarked
    <2> QED BY <2>1, ConstantsAssumption, FS_Subset
<1>3. Stale \in {0, 1}
    BY Zenon DEF Stale
<1>4. repeats \in Nat /\ faults \in Nat
    BY ConstantsAssumption, SMT DEF TypeOK
<1> QED BY <1>1, <1>2, <1>3, <1>4, FS_CardinalityType

LEMMA SizesNext ==
    ASSUME TypeOK'
    PROVE  /\ IsFiniteSet(Doubtful') /\ Cardinality(Doubtful') \in Nat
           /\ IsFiniteSet(Unmarked') /\ Cardinality(Unmarked') \in Nat
           /\ Stale' \in {0, 1} /\ repeats' \in Nat /\ faults' \in Nat
<1>1. (TypeOK => /\ IsFiniteSet(Doubtful) /\ Cardinality(Doubtful) \in Nat
                 /\ IsFiniteSet(Unmarked) /\ Cardinality(Unmarked) \in Nat
                 /\ Stale \in {0, 1} /\ repeats \in Nat /\ faults \in Nat)'
    BY Sizes, PTL
<1> QED BY <1>1

\* A set that may gain and lose x only.
Has(S, x) == IF x \in S THEN 1 ELSE 0

LEMMA OneMore ==
    ASSUME NEW S, NEW T, IsFiniteSet(S), IsFiniteSet(T), NEW x, T \subseteq S \cup {x}
    PROVE  Cardinality(T) + Has(S, x) <= Cardinality(S) + Has(T, x)
<1>1. ASSUME NEW U, IsFiniteSet(U)
      PROVE  /\ IsFiniteSet(U \ {x}) /\ Cardinality(U) \in Nat
             /\ Cardinality(U \ {x}) \in Nat /\ Cardinality(U) = Cardinality(U \ {x}) + Has(U, x)
    <2>1. CASE x \in U
        <3>1. IsFiniteSet(U \ {x}) /\ Cardinality(U \ {x}) = Cardinality(U) - 1
            BY <1>1, <2>1, FS_RemoveElement, Zenon
        <3>2. Cardinality(U) \in Nat /\ Cardinality(U \ {x}) \in Nat
            BY <1>1, <3>1, FS_CardinalityType, Zenon
        <3>3. Has(U, x) = 1
            BY <2>1, Zenon DEF Has
        <3>4. Cardinality(U) = Cardinality(U \ {x}) + Has(U, x)
            BY <3>1, <3>2, <3>3, SMT
        <3> QED BY <3>1, <3>2, <3>4, Zenon
    <2>2. CASE x \notin U
        <3>1. U \ {x} = U
            BY <2>2, Zenon
        <3>2. Cardinality(U) \in Nat
            BY <1>1, FS_CardinalityType, Zenon
        <3>3. Has(U, x) = 0
            BY <2>2, Zenon DEF Has
        <3>4. Cardinality(U) = Cardinality(U \ {x}) + Has(U, x)
            BY <3>1, <3>2, <3>3, SMT
        <3> QED BY <1>1, <3>1, <3>2, <3>4, Zenon
    <2> QED BY <2>1, <2>2
<1>2. Cardinality(T \ {x}) <= Cardinality(S \ {x})
    <2>1. T \ {x} \subseteq S \ {x}
        OBVIOUS
    <2> QED BY <1>1, <2>1, FS_Subset
<1>3. Has(S, x) \in {0, 1} /\ Has(T, x) \in {0, 1}
    BY DEF Has
<1> QED BY <1>1, <1>2, <1>3

LEMMA AtMostBoth ==
    ASSUME NEW S, NEW T, NEW U, IsFiniteSet(S), IsFiniteSet(T), U \subseteq S \cup T
    PROVE  Cardinality(U) <= Cardinality(S) + Cardinality(T)
<1>1. IsFiniteSet(S \cup T) /\ Cardinality(S \cup T) = Cardinality(S) + Cardinality(T) - Cardinality(S \cap T)
    BY FS_Union
<1>2. IsFiniteSet(S \cap T)
    BY FS_Subset, S \cap T \subseteq S
<1>3. Cardinality(S) \in Nat /\ Cardinality(T) \in Nat /\ Cardinality(S \cap T) \in Nat
    BY <1>2, FS_CardinalityType
<1>4. Cardinality(U) <= Cardinality(S \cup T) /\ Cardinality(U) \in Nat
    BY <1>1, FS_Subset, FS_CardinalityType
<1> QED BY <1>1, <1>3, <1>4, SMT

\* The rule of a transaction that is about to alert anew is in doubt.
LEMMA AlreadyInDoubt ==
    ASSUME TypeOK, Sound, tx # NoValue, tx.way \in {"send", "queue"}, ~tx.sent,
           AlreadyTold(tx.rule, tx.fp)
    PROVE  tx.rule \in Doubtful
<1> DEFINE r == tx.rule
<1>1. r \in Rules /\ tx.fp \in Fingerprints /\ tx.read \in RuleType /\ rule[r] \in RuleType
    BY Transaction DEF Decided, TypeOK
<1>2. told[r] # NoValue
    BY <1>1, NoRowAssumption DEF AlreadyTold
<1>3. Agrees(rule[r], tx.read) /\ tx.reasons # {} /\ ~IsDuplicate(tx.read, tx.fp, tx.reasons)
    BY <1>2, Zenon DEF Sound
<1>4. CASE rule[r].policy = "once"
    <2>1. ~rule[r].notified
        BY <1>3, <1>4 DEF IsDuplicate, Agrees
    <2> QED BY <1>1, <1>2, <1>4, <2>1, Zenon DEF Doubtful, Remembers, Saying
<1>5. CASE rule[r].policy = "reentry"
    <2>1. ~rule[r].met
        BY <1>3, <1>5 DEF IsDuplicate, Agrees, SameState
    <2>2. rule[r].policy # "once"
        BY <1>5
    <2> QED BY <1>1, <1>2, <1>5, <2>1, <2>2, Zenon DEF Doubtful, Remembers, Saying
<1>6. CASE rule[r].policy = "on_change"
    <2>1. rule[r].fp # tx.fp /\ told[r] = tx.fp
        BY <1>3, <1>6 DEF IsDuplicate, Agrees, SameState, AlreadyTold
    <2>2. rule[r].policy # "once" /\ rule[r].policy # "reentry"
        BY <1>6
    <2> QED BY <1>1, <1>2, <2>1, <2>2, Zenon DEF Doubtful, Remembers, Saying
<1>7. rule[r].policy \in {"on_change", "reentry", "once"}
    BY <1>1 DEF RuleType, Policies
<1> QED BY <1>4, <1>5, <1>6, <1>7

\* An edit forgets the alert that its rule's owner had, or keeps what matters of it.
LEMMA EditForgets ==
    ASSUME TypeOK, NEW r \in Rules, Edit(r)
    PROVE  /\ told'[r] = NoValue \/ (told'[r] = told[r] /\ Agrees(rule'[r], rule[r]))
           /\ \A q \in Rules \ {r} : told'[q] = told[q] /\ rule'[q] = rule[q]
<1>1. /\ told' \in {told, [told EXCEPT ![r] = NoValue]}
      /\ \A q \in Rules \ {r} : rule'[q] = rule[q]
    BY Edits, Zenon DEF Edit
<1>2. \A q \in Rules \ {r} : told'[q] = told[q]
    BY <1>1 DEF TypeOK
<1>3. rule \in [Rules -> RuleType] /\ told \in [Rules -> Fingerprints \cup {NoValue}]
    BY Zenon DEF TypeOK
<1>4. CASE WatchEditValue(r)
    <2>1. CASE rule[r].policy = "once"
        <3>1. told' = told
            BY <1>4, <2>1, Zenon DEF WatchEditValue, KeepOnce
        <3>2. rule'[r].policy = "once" /\ rule'[r].notified = rule[r].notified
            BY <1>3, <1>4, <2>1 DEF WatchEditValue, RuleType
        <3> QED BY <1>1, <1>2, <2>1, <3>1, <3>2 DEF Agrees
    <2>2. CASE rule[r].policy # "once"
        BY <1>1, <1>2, <1>3, <1>4, <2>2 DEF WatchEditValue, KeepOnce
    <2> QED BY <2>1, <2>2
<1>5. CASE FilterToggle(r) \/ FilterRepeat(r)
    <2>1. told' = [told EXCEPT ![r] = NoValue]
        BY <1>5, Zenon DEF FilterToggle, FilterRepeat
    <2> QED BY <1>1, <1>2, <1>3, <2>1
<1>6. CASE WatchNotifications(r) \/ WatchDelete(r)
    <2>1. told' = told
        BY <1>6, Zenon DEF WatchNotifications, WatchDelete
    <2>2. /\ rule'[r].policy = rule[r].policy /\ rule'[r].fp = rule[r].fp
          /\ rule'[r].met = rule[r].met /\ rule'[r].notified = rule[r].notified
        <3>1. CASE WatchNotifications(r)
            BY <1>3, <3>1 DEF WatchNotifications, RuleType
        <3>2. CASE WatchDelete(r)
            BY <1>3, <3>2 DEF WatchDelete, RuleType
        <3> QED BY <1>6, <3>1, <3>2
    <2> QED BY <1>1, <1>2, <2>1, <2>2 DEF Agrees, SameState
<1> QED BY <1>4, <1>5, <1>6 DEF Edit

\* The columns that matter here of a rule whose age alone changes.
LEMMA AgeAlone ==
    ASSUME TypeOK, NEW r \in Rules, NEW age
    PROVE  /\ [rule[r] EXCEPT !.age = age].policy = rule[r].policy
           /\ [rule[r] EXCEPT !.age = age].fp = rule[r].fp
           /\ [rule[r] EXCEPT !.age = age].met = rule[r].met
           /\ [rule[r] EXCEPT !.age = age].notified = rule[r].notified
<1>1. rule[r] \in RuleType
    BY DEF TypeOK
<1> QED BY <1>1 DEF RuleType

\* Steps after which every rule's row is the same but for its age.
SameRows == \A q \in Rules : SameState(rule'[q], rule[q])

LEMMA SameRowsSteps ==
    ASSUME TypeOK, rule' = rule \/ Tick \/ Begin
    PROVE  SameRows
<1>1. CASE rule' = rule
    BY <1>1, Zenon DEF SameRows, SameState
<1>2. CASE Tick
    <2>1. ASSUME NEW q \in Rules PROVE SameState(rule'[q], rule[q])
        <3>1. PICK age : rule'[q] = [rule[q] EXCEPT !.age = age]
            BY <1>2, Zenon DEF Tick
        <3> QED BY <3>1, AgeAlone DEF SameState
    <2> QED BY <2>1, Zenon DEF SameRows
<1>3. CASE Begin
    <2>1. CASE rule' = rule
        BY <2>1, Zenon DEF SameRows, SameState
    <2>2. CASE rule' # rule
        <3>1. PICK r \in run.todo : rule' = [rule EXCEPT ![r].age = AgeNow]
            BY <1>3, <2>2, Zenon DEF Begin, Checked
        <3>2. r \in Rules /\ rule \in [Rules -> RuleType]
            BY <1>3, Running, Zenon DEF TypeOK, Begin, RunType
        <3>3. rule'[r] = [rule[r] EXCEPT !.age = AgeNow] /\ \A q \in Rules \ {r} : rule'[q] = rule[q]
            BY <3>1, <3>2
        <3>4. SameState(rule'[r], rule[r])
            BY <3>2, <3>3, AgeAlone DEF SameState
        <3>5. \A q \in Rules \ {r} : SameState(rule'[q], rule[q])
            BY <3>3, Zenon DEF SameState
        <3> QED BY <3>4, <3>5, Zenon DEF SameRows
    <2> QED BY <2>1, <2>2
<1> QED BY <1>1, <1>2, <1>3

LEMMA SoundStep ==
    ASSUME Shape, Sound, [Next]_vars
    PROVE  Sound'
<1>0. TypeOK /\ Turn
    BY Zenon DEF Shape
<1>1. ASSUME tx' = NoValue PROVE Sound'
    BY <1>1, Zenon DEF Sound
<1>2. ASSUME tx' = tx, told' = told, SameRows PROVE Sound'
    <2>1. tx # NoValue => tx.rule \in Rules
        BY <1>0, Transaction
    <2> QED BY <1>2, <2>1 DEF Sound, SameRows, Agrees, SameState
<1>3. CASE \/ RunStart \/ Fetch \/ FetchFails \/ RunEnd \/ Deferred \/ LockExpires \/ Tick
           \/ \E r \in Rules : WatchRefresh(r)
    <2>1. tx' = tx /\ told' = told /\ (rule' = rule \/ Tick)
        BY <1>3, Zenon DEF RunStart, Fetch, FetchFails, RunEnd, Deferred, JobStart, JobSend, JobCommit,
                           LockExpires, Tick, WatchRefresh, db, history
    <2> QED BY <1>0, <1>2, <2>1, SameRowsSteps
<1>4. CASE Commit \/ CommitTooWide \/ CommitFails \/ Crash
    BY <1>1, <1>4, Zenon DEF Commit, CommitTooWide, CommitFails, EndTx, Crash
<1>5. CASE Begin
    <2>1. CASE tx' = tx
        BY <1>1, <1>5, <2>1, Zenon DEF Begin
    <2>2. CASE tx' # tx
        <3>1. PICK r : /\ tx' = [rule |-> r, read |-> rule[r], way |-> "read", sent |-> FALSE]
                       /\ rule' = rule
            BY <1>5, <2>2, Zenon DEF Begin
        <3>2. tx'.rule = r /\ tx'.read = rule[r] /\ tx'.way = "read" /\ ~tx'.sent
            BY <3>1
        <3>3. Agrees(rule'[tx'.rule], tx'.read)
            BY <3>1, <3>2, Zenon DEF Agrees, SameState
        <3> QED BY <3>2, <3>3 DEF Sound
    <2> QED BY <2>1, <2>2
<1>6. CASE LockRule
    <2>1. CASE tx' = NoValue
        BY <1>1, <2>1
    <2>2. CASE tx' # NoValue
        <3>1. /\ tx' = Decision(tx.rule, tx.read) /\ tx # NoValue /\ tx.way = "read"
              /\ rule' = rule /\ told' = told
            BY <1>6, <2>2, Zenon DEF LockRule, EndTx, db, history
        <3>2. /\ tx'.rule = tx.rule /\ tx'.read = tx.read /\ ~tx'.sent
              /\ tx'.way \in {"send", "queue"} =>
                    tx'.reasons # {} /\ ~IsDuplicate(tx'.read, tx'.fp, tx'.reasons)
            BY <3>1 DEF Decision
        <3>3. ~tx.sent
            BY <1>0, <3>1, Transaction
        <3> QED BY <3>1, <3>2, <3>3, Zenon DEF Sound
    <2> QED BY <2>1, <2>2
<1>7. CASE Send
    <2>1. CASE tx' = NoValue
        BY <1>1, <2>1
    <2>2. CASE tx' # NoValue
        <3>1. PICK o \in SendOutcomes :
                  /\ told' = IF o.copies = 0 THEN told ELSE [told EXCEPT ![tx.rule] = tx.fp]
                  /\ o.ok /\ tx' = [tx EXCEPT !.sent = TRUE]
            BY <1>7, <2>2, Zenon DEF Send, EndTx
        <3>2. tx \in Decided /\ tx # NoValue /\ tx.way = "send" /\ tx.rule \in Rules
            BY <1>0, <1>7, Transaction DEF Send
        <3>3. /\ tx'.rule = tx.rule /\ tx'.way = tx.way /\ tx'.sent /\ tx'.fp = tx.fp
              /\ tx'.reasons = tx.reasons /\ tx'.read = tx.read
            BY <3>1, <3>2 DEF Decided
        <3>4. o.copies # 0
            BY <3>1, Outcome
        <3>5. told'[tx.rule] = tx.fp
            BY <1>0, <3>1, <3>2, <3>4 DEF TypeOK
        <3> QED BY <3>2, <3>3, <3>5, Zenon DEF Sound
    <2> QED BY <2>1, <2>2
<1>8. ASSUME NEW r \in Rules, Edit(r) PROVE Sound'
    <2>1. tx' = tx
        BY <1>0, <1>8, EditLeaves, Zenon
    <2>2. CASE tx = NoValue
        BY <1>1, <2>1, <2>2
    <2>3. CASE tx # NoValue /\ tx.rule # r
        <3>1. tx.rule \in Rules
            BY <1>0, <2>3, Transaction
        <3>2. told'[tx.rule] = told[tx.rule] /\ rule'[tx.rule] = rule[tx.rule]
            BY <1>0, <1>8, <2>3, <3>1, EditForgets
        <3> QED BY <2>1, <2>3, <3>2, Zenon DEF Sound
    <2>4. CASE tx # NoValue /\ tx.rule = r
        <3>1. Editable(r)
            BY <1>8, Zenon DEF Edit, WatchEditValue, FilterToggle, FilterRepeat,
                               WatchNotifications, WatchDelete
        <3>2. tx.way = "read" /\ ~tx.sent
            BY <1>0, <2>4, <3>1, Transaction DEF Editable
        <3>3. told'[r] = NoValue \/ (told'[r] = told[r] /\ Agrees(rule'[r], rule[r]))
            BY <1>0, <1>8, EditForgets
        <3> QED BY <2>1, <2>4, <3>2, <3>3 DEF Sound, Agrees, SameState
    <2> QED BY <2>2, <2>3, <2>4
<1>9. CASE UNCHANGED vars
    <2>1. tx' = tx /\ told' = told /\ rule' = rule
        BY <1>9, Zenon DEF vars, db, history
    <2> QED BY <1>0, <1>2, <2>1, SameRowsSteps
<1> QED BY <1>3, <1>4, <1>5, <1>6, <1>7, <1>8, <1>9, Zenon
        DEF Next, Monitor, Faults, Users, World, Edit

-----------------------------------------------------------------------------
\* The sum of what was repeated and what may be still grows with the faults only.
Owed == repeats + Cardinality(Doubtful) + Cardinality(Unmarked) + Stale

LEMMA Paid ==
    ASSUME TypeOK, TypeOK', Debts, ~wide' => ~wide /\ Owed' + faults <= Owed + faults'
    PROVE  Debts'
BY Sizes, SizesNext, SMT DEF Debts, Owed

\* Rules and rows come in doubt by a step that changes them.
LEMMA DoubtfulKept ==
    ASSUME TypeOK, TypeOK', told' = told, SameRows, \A r \in Rules : Saying(r) => Saying(r)'
    PROVE  Doubtful' \subseteq Doubtful
BY Zenon DEF Doubtful, SameRows, SameState, Remembers

LEMMA StaleKept ==
    ASSUME TypeOK, tx' = tx, SameRows
    PROVE  Stale' = Stale
<1>1. tx # NoValue => tx.rule \in Rules
    BY Transaction
<1>2. tx # NoValue => (SameState(rule'[tx.rule], tx.read) <=> SameState(rule[tx.rule], tx.read))
    BY <1>1, Zenon DEF SameRows, SameState
<1> QED BY <1>2, Zenon DEF Stale

\* Steps that leave the alerts alone.
LEMMA DebtsQuiet ==
    ASSUME Shape, TypeOK', Debts, SameRows, UNCHANGED <<told, repeats, wide>>, faults <= faults',
           tx' = tx \/ (Stale' <= Stale /\ \A r \in Rules : ~Saying(r)),
           Unmarked' \subseteq Unmarked
    PROVE  Debts'
<1>0. TypeOK
    BY Zenon DEF Shape
<1>1. \A r \in Rules : Saying(r) => Saying(r)'
    BY Zenon DEF Saying
<1>2. Doubtful' \subseteq Doubtful
    BY <1>0, <1>1, DoubtfulKept, Zenon
<1>3. Stale' <= Stale
    BY <1>0, StaleKept, Sizes
<1>4. Cardinality(Doubtful') <= Cardinality(Doubtful) /\ Cardinality(Unmarked') <= Cardinality(Unmarked)
    BY <1>0, <1>2, Sizes, FS_Subset
<1> QED BY <1>0, <1>3, <1>4, Sizes, SizesNext, Paid, SMT DEF Owed

\* A step that may bring rule r in doubt, or out of it.
LEMMA DoubtfulOne ==
    ASSUME TypeOK, TypeOK', NEW r \in Rules,
           \A q \in Rules \ {r} : /\ told'[q] = told[q] /\ SameState(rule'[q], rule[q])
                                  /\ ~Saying(q)
    PROVE  Cardinality(Doubtful') + Has(Doubtful, r) <= Cardinality(Doubtful) + Has(Doubtful', r)
<1>1. Doubtful' \subseteq Doubtful \cup {r}
    BY Zenon DEF Doubtful, SameState, Remembers
<1> QED BY <1>1, Sizes, SizesNext, OneMore

LEMMA HasOne == \A S, x : Has(S, x) \in {0, 1} /\ (x \in S => Has(S, x) = 1) /\ (x \notin S => Has(S, x) = 0)
BY DEF Has

LEMMA UnmarkedSame == UNCHANGED <<queue, job>> => Unmarked' = Unmarked
BY Zenon DEF Unmarked

LEMMA DebtsSend ==
    ASSUME Shape, TypeOK', Sound, Debts, Send
    PROVE  Debts'
<1>0. TypeOK
    BY Zenon DEF Shape
<1> DEFINE r == tx.rule
           before == AlreadyTold(r, tx.fp)
<1>1. PICK o \in SendOutcomes :
          /\ faults' = faults + FaultsOf(o)
          /\ Repeated(RepeatsOf(o, before))
          /\ told' = IF o.copies = 0 THEN told ELSE [told EXCEPT ![r] = tx.fp]
          /\ IF o.ok THEN tx' = [tx EXCEPT !.sent = TRUE] /\ UNCHANGED run ELSE EndTx
    BY Zenon DEF Send
<1>2. /\ tx # NoValue /\ tx.way = "send" /\ ~tx.sent /\ r \in Rules /\ tx \in Decided
      /\ UNCHANGED <<queue, job, rule, wide>>
    BY <1>0, Transaction DEF Send, db
<1>3. before \in BOOLEAN
    BY Zenon DEF AlreadyTold
<1>4. before => Has(Doubtful, r) = 1
    BY <1>0, <1>2, AlreadyInDoubt, HasOne
<1>5. Cardinality(Doubtful') + Has(Doubtful, r) <= Cardinality(Doubtful) + Has(Doubtful', r)
    <2>1. \A q \in Rules \ {r} : told'[q] = told[q] /\ SameState(rule'[q], rule[q]) /\ ~Saying(q)
        BY <1>0, <1>1, <1>2 DEF SameState, Saying, TypeOK
    <2> QED BY <1>0, <1>2, <2>1, DoubtfulOne
<1>6. repeats' <= repeats + RepeatsOf(o, before)
    BY <1>0, <1>1, <1>3, Outcome, Capped
<1>7. Unmarked' = Unmarked
    BY <1>2, UnmarkedSame
<1>8. CASE o.ok
    <2>1. tx' = [tx EXCEPT !.sent = TRUE]
        BY <1>1, <1>8, Zenon
    <2>2. tx'.rule = r /\ tx'.read = tx.read /\ tx'.sent
        BY <1>2, <2>1 DEF Decided
    <2>3. tx' # NoValue
        BY <1>2, <2>1, NoRowAssumption DEF Decided
    <2>4. Has(Doubtful', r) = 0
        <3>1. PICK q \in Rules : q = tx.rule
            BY <1>2
        <3>2. Saying(q)'
            BY <2>2, <2>3, <3>1, Zenon DEF Saying
        <3>3. q \notin Doubtful'
            BY <3>2, Zenon DEF Doubtful
        <3> QED BY <3>1, <3>3, HasOne, Zenon
    <2>5. Stale' = Stale
        BY <1>2, <2>2, <2>3, Zenon DEF Stale
    <2> QED BY <1>0, <1>1, <1>2, <1>3, <1>4, <1>5, <1>6, <1>7, <1>8, <2>4, <2>5,
               Outcome, Sizes, SizesNext, HasOne, Paid, SMT DEF Owed
<1>9. CASE ~o.ok
    <2>1. Stale' = 0
        BY <1>1, <1>9, Zenon DEF EndTx, Stale
    <2>2. Has(Doubtful', r) \in {0, 1} /\ Has(Doubtful, r) \in {0, 1}
        BY HasOne
    <2> QED BY <1>0, <1>1, <1>2, <1>3, <1>4, <1>5, <1>6, <1>7, <1>9, <2>1, <2>2,
               Outcome, Sizes, SizesNext, Paid, SMT DEF Owed
<1> QED BY <1>8, <1>9

\* What a commit leaves in the columns that remember an alert.
LEMMA RowsOfCommit ==
    ASSUME TypeOK, tx # NoValue, tx.way # "read", run.on, NEW r \in Rules, r = tx.rule
    PROVE  /\ Checked(r)[r].policy = rule[r].policy /\ SameState(Checked(r)[r], rule[r])
           /\ /\ Unmet(r)[r].policy = rule[r].policy
              /\ Unmet(r)[r].notified = rule[r].notified
           /\ /\ Notified(r)[r].policy = rule[r].policy
              /\ Notified(r)[r].fp = Written(r, "fp", tx.fp)
              /\ Notified(r)[r].met = Written(r, "met", TRUE)
              /\ Notified(r)[r].notified
           /\ \A q \in Rules \ {r} : /\ Checked(r)[q] = rule[q]
                                     /\ Unmet(r)[q] = rule[q] /\ Notified(r)[q] = rule[q]
<1> DEFINE aged == [rule[r] EXCEPT !.age = AgeNow]
           unmet == UnmetRow(r)
           notified == NotifiedRow(r)
<1>1. rule \in [Rules -> RuleType] /\ rule[r] \in RuleType
    BY DEF TypeOK
<1>2. /\ Checked(r) = [rule EXCEPT ![r] = aged]
      /\ Unmet(r) = [rule EXCEPT ![r] = unmet]
      /\ Notified(r) = [rule EXCEPT ![r] = notified]
    BY CommittedRows
<1>3. Checked(r)[r] = aged /\ Unmet(r)[r] = unmet /\ Notified(r)[r] = notified
    <2> HIDE DEF aged, unmet, notified
    <2> QED BY <1>1, <1>2
<1>4. \A q \in Rules \ {r} : /\ Checked(r)[q] = rule[q]
                             /\ Unmet(r)[q] = rule[q] /\ Notified(r)[q] = rule[q]
    <2> HIDE DEF aged, unmet, notified
    <2> QED BY <1>1, <1>2
<1>5. aged.policy = rule[r].policy /\ SameState(aged, rule[r])
    BY AgeAlone DEF SameState
<1>6. unmet.policy = rule[r].policy /\ unmet.notified = rule[r].notified
    BY <1>1 DEF UnmetRow, RuleType
<1>7. /\ notified.policy = rule[r].policy /\ notified.notified
      /\ notified.fp = Written(r, "fp", tx.fp) /\ notified.met = Written(r, "met", TRUE)
    BY <1>1 DEF NotifiedRow, RuleType
<1> HIDE DEF aged, unmet, notified
<1> QED BY <1>3, <1>4, <1>5, <1>6, <1>7, Zenon

\* The row of an alert whose rule was not edited since it was read remembers it.
LEMMA CommitRemembers ==
    ASSUME TypeOK, tx # NoValue, tx.way # "read", run.on, NEW r \in Rules, r = tx.rule,
           rule' = Notified(r), SameState(rule[r], tx.read)
    PROVE  Remembers(rule'[r], tx.fp)
<1>1. Written(r, "fp", tx.fp) = tx.fp /\ Written(r, "met", TRUE) = TRUE
    BY Zenon DEF Written, SameState
<1>2. rule'[r].fp = tx.fp /\ rule'[r].met /\ rule'[r].notified
    BY <1>1, RowsOfCommit
<1> QED BY <1>2, Zenon DEF Remembers

LEMMA UnmarkedShrinks ==
    ASSUME Shape, Commit
    PROVE  Unmarked' \subseteq Unmarked
<1>0. TypeOK /\ Turn /\ JobFits /\ Room
    BY Zenon DEF Shape
<1>1. job' = job
    BY Zenon DEF Commit
<1>2. CASE queue' = queue
    BY <1>1, <1>2, UnmarkedSame
<1>3. CASE queue' = [queue EXCEPT ![FreeSlot] = QueueRow(tx.rule)]
    <2>1. FreeSlot \in Slots /\ queue[FreeSlot] = NoValue
        BY <1>0, FreeRow DEF Commit, Ready
    <2>2. \A s \in Slots : s # FreeSlot => queue'[s] = queue[s]
        BY <1>0, <1>3 DEF TypeOK
    <2>3. ~queue'[FreeSlot].reached
        BY <1>0, <1>3, <2>1 DEF TypeOK, QueueRow
    <2> QED BY <1>1, <2>2, <2>3, Zenon DEF Unmarked
<1> QED BY <1>0, <1>2, <1>3, CommitQueues

\* The four ways of a commit.
LEMMA CommitCases ==
    ASSUME Commit, NEW r \in Rules, r = tx.rule
    PROVE  \/ /\ tx.reasons = {} /\ rule' = Unmet(r) /\ UNCHANGED <<queue, repeats>>
              /\ told' = IF rule[r].policy = "once" THEN told ELSE [told EXCEPT ![r] = NoValue]
           \/ /\ tx.way = "skip" /\ tx.reasons # {}
              /\ rule' = Checked(r) /\ UNCHANGED <<queue, told, repeats>>
           \/ /\ tx.way = "send"
              /\ rule' = Notified(r) /\ UNCHANGED <<queue, told, repeats>>
           \/ /\ tx.way = "queue" /\ rule' = Notified(r)
              /\ queue' = [queue EXCEPT ![FreeSlot] = QueueRow(r)]
              /\ Repeated(IF AlreadyTold(r, tx.fp) THEN 1 ELSE 0)
              /\ told' = [told EXCEPT ![r] = tx.fp]
BY Zenon DEF Commit

LEMMA DebtsCommit ==
    ASSUME Shape, TypeOK', Sound, Debts, Commit
    PROVE  Debts'
<1>0. TypeOK /\ Turn
    BY Zenon DEF Shape
<1>1. /\ tx # NoValue /\ tx.way # "read" /\ tx \in Decided /\ run.on
      /\ tx.way = "send" => tx.sent
      /\ tx' = NoValue /\ faults' = faults /\ wide' = wide
    BY <1>0, Transaction, Zenon DEF Commit, Ready, EndTx, Turn
<1>2. PICK r \in Rules : r = tx.rule
    BY <1>0, <1>1, Transaction
<1>3. /\ rule' \in {Checked(r), Unmet(r), Notified(r)}
      /\ told' \in {told, [told EXCEPT ![r] = NoValue], [told EXCEPT ![r] = tx.fp]}
    BY <1>0, <1>2, CommitCases, Zenon
<1>4. Cardinality(Doubtful') + Has(Doubtful, r) <= Cardinality(Doubtful) + Has(Doubtful', r)
    <2>1. ASSUME NEW q \in Rules \ {r}
          PROVE  told'[q] = told[q] /\ SameState(rule'[q], rule[q]) /\ ~Saying(q)
        <3>1. told'[q] = told[q]
            BY <1>0, <1>3, <2>1 DEF TypeOK
        <3>2. /\ Checked(r)[q] = rule[q] /\ Unmet(r)[q] = rule[q] /\ Notified(r)[q] = rule[q]
            BY <1>0, <1>1, <1>2, <2>1, RowsOfCommit, Zenon
        <3>3. rule'[q] = rule[q]
            BY <1>3, <3>2, Zenon
        <3> QED BY <1>2, <2>1, <3>1, <3>3, Zenon DEF SameState, Saying
    <2> QED BY <1>0, <2>1, DoubtfulOne
<1>5. Cardinality(Unmarked') <= Cardinality(Unmarked)
    BY <1>0, UnmarkedShrinks, Sizes, FS_Subset
<1>6. Stale' = 0
    BY <1>1, Zenon DEF Stale
<1>7. Has(Doubtful, r) \in {0, 1} /\ Has(Doubtful', r) \in {0, 1}
    BY HasOne
<1>8. ASSUME repeats' + Has(Doubtful', r) <= repeats + Has(Doubtful, r) + Stale
      PROVE  Debts'
    BY <1>0, <1>1, <1>4, <1>5, <1>6, <1>7, <1>8, Sizes, SizesNext, Paid, SMT DEF Owed
<1>9. ASSUME repeats' = repeats, r \in Doubtful' => r \in Doubtful PROVE Debts'
    <2>1. Has(Doubtful', r) <= Has(Doubtful, r)
        BY <1>9, HasOne
    <2> QED BY <1>0, <1>7, <1>8, <1>9, <2>1, Sizes
<1>10. CASE tx.reasons = {}
    <2>0. tx.way = "skip"
        BY <1>0, <1>1, <1>10 DEF Sound, Decided
    <2>1. /\ rule' = Unmet(r) /\ repeats' = repeats
          /\ told' = IF rule[r].policy = "once" THEN told ELSE [told EXCEPT ![r] = NoValue]
        BY <1>2, <1>10, <2>0, CommitCases, Zenon
    <2>3. CASE rule[r].policy = "once"
        <3>1. ~tx.sent
            BY <1>1, <2>0, Zenon DEF Sound
        <3>2. /\ rule'[r].policy = "once" /\ rule'[r].notified = rule[r].notified
              /\ told'[r] = told[r]
            BY <1>0, <1>1, <1>2, <2>1, <2>3, RowsOfCommit
        <3>3. ~Saying(r)
            BY <3>1, Zenon DEF Saying
        <3>4. r \in Doubtful' => r \in Doubtful
            BY <2>3, <3>2, <3>3, Zenon DEF Doubtful, Remembers
        <3> QED BY <1>9, <2>1, <3>4
    <2>4. CASE rule[r].policy # "once"
        <3>1. told'[r] = NoValue
            BY <1>0, <2>1, <2>4 DEF TypeOK
        <3>2. r \notin Doubtful'
            BY <3>1, Zenon DEF Doubtful
        <3> QED BY <1>9, <2>1, <3>2
    <2> QED BY <2>3, <2>4
<1>11. CASE tx.reasons # {} /\ tx.way = "skip"
    <2>1. rule' = Checked(r) /\ repeats' = repeats /\ told' = told
        BY <1>0, <1>2, <1>11, CommitCases, Zenon
    <2>2. ~Saying(r)
        BY <1>1, <1>11, Zenon DEF Saying, Sound
    <2>3. SameState(rule'[r], rule[r])
        BY <1>0, <1>1, <1>2, <2>1, RowsOfCommit
    <2>4. r \in Doubtful' => r \in Doubtful
        BY <2>1, <2>2, <2>3, Zenon DEF Doubtful, SameState, Remembers
    <2> QED BY <1>9, <2>1, <2>4
<1>12. CASE tx.reasons # {} /\ tx.way \in {"send", "queue"}
    <2>1. rule' = Notified(r)
        BY <1>0, <1>2, <1>12, CommitCases, Zenon
    <2>2. told'[r] = tx.fp
        <3>1. CASE tx.way = "send"
            BY <1>0, <1>1, <1>2, <1>12, <3>1, CommitCases DEF Sound
        <3>2. CASE tx.way = "queue"
            <4>1. told' = [told EXCEPT ![r] = tx.fp]
                BY <1>0, <1>2, <1>12, <3>2, CommitCases
            <4> QED BY <1>0, <4>1 DEF TypeOK
        <3> QED BY <1>12, <3>1, <3>2
    <2>3. Has(Doubtful', r) <= Stale
        <3>1. CASE SameState(rule[r], tx.read)
            <4>1. Remembers(rule'[r], told'[r])
                BY <1>0, <1>1, <1>2, <2>1, <2>2, <3>1, CommitRemembers
            <4>2. r \notin Doubtful'
                BY <4>1, Zenon DEF Doubtful
            <4> QED BY <1>0, <4>2, HasOne, Sizes
        <3>2. CASE ~SameState(rule[r], tx.read)
            <4>1. Stale = 1
                BY <1>1, <1>2, <3>2, Zenon DEF Stale
            <4> QED BY <1>7, <4>1
        <3> QED BY <3>1, <3>2
    <2>4. repeats' <= repeats + Has(Doubtful, r)
        <3>1. CASE tx.way = "send"
            <4>1. repeats' = repeats
                BY <1>0, <1>2, <1>12, <3>1, CommitCases
            <4> QED BY <1>0, <1>7, <4>1, Sizes
        <3>2. CASE tx.way = "queue"
            <4> DEFINE n == IF AlreadyTold(r, tx.fp) THEN 1 ELSE 0
            <4>1. Repeated(n)
                BY <1>0, <1>2, <1>12, <3>2, CommitCases
            <4>2. n \in Nat
                OBVIOUS
            <4>3. repeats' <= repeats + n
                BY <1>0, <4>1, <4>2, Capped
            <4>4. AlreadyTold(r, tx.fp) => Has(Doubtful, r) = 1
                <5>1. ~tx.sent
                    BY <1>1, <3>2 DEF Sound
                <5> QED BY <1>0, <1>1, <1>2, <3>2, <5>1, AlreadyInDoubt, HasOne
            <4>5. n <= Has(Doubtful, r)
                BY <1>7, <4>4
            <4> HIDE DEF n
            <4>6. repeats \in Nat /\ repeats' \in Nat
                BY <1>0, Sizes, SizesNext, Zenon
            <4> QED BY <1>7, <4>2, <4>3, <4>5, <4>6, SMT
        <3> QED BY <1>12, <3>1, <3>2
    <2> QED BY <1>0, <1>7, <1>8, <2>3, <2>4, Sizes, SizesNext
<1>13. tx.way \in {"skip", "queue", "send"}
    BY <1>1 DEF Decided
<1> QED BY <1>10, <1>11, <1>12, <1>13

LEMMA DebtsCommitFails ==
    ASSUME Shape, TypeOK', Debts, CommitFails
    PROVE  Debts'
<1>0. TypeOK
    BY Zenon DEF Shape
<1>1. /\ tx # NoValue /\ tx' = NoValue /\ faults' = faults + 1
      /\ UNCHANGED <<rule, told, queue, job, repeats, wide>>
    BY Zenon DEF CommitFails, Ready, EndTx, db
<1>2. PICK r \in Rules : r = tx.rule
    BY <1>0, <1>1, Transaction
<1>3. \A q \in Rules \ {r} : told'[q] = told[q] /\ SameState(rule'[q], rule[q]) /\ ~Saying(q)
    BY <1>1, <1>2, Zenon DEF SameState, Saying
<1>4. Cardinality(Doubtful') + Has(Doubtful, r) <= Cardinality(Doubtful) + Has(Doubtful', r)
    BY <1>0, <1>3, DoubtfulOne
<1>5. Unmarked' = Unmarked /\ Stale' = 0
    BY <1>1, UnmarkedSame, Zenon DEF Stale
<1>6. Has(Doubtful, r) \in {0, 1} /\ Has(Doubtful', r) \in {0, 1}
    BY HasOne
<1> QED BY <1>0, <1>1, <1>4, <1>5, <1>6, Sizes, SizesNext, Paid, SMT DEF Owed

LEMMA DebtsJobSend ==
    ASSUME Shape, TypeOK', Debts, JobSend
    PROVE  Debts'
<1>0. TypeOK /\ JobFits
    BY Zenon DEF Shape
<1>1. job.on /\ job \in JobType
    BY <1>0, Sending DEF JobSend
<1>2. PICK s \in job.todo, o \in SendOutcomes :
          /\ faults' = faults + FaultsOf(o)
          /\ Repeated(RepeatsOf(o, queue[s].reached))
          /\ queue' = [queue EXCEPT ![s].reached = @ \/ o.copies > 0]
          /\ job' = [job EXCEPT !.todo = @ \ {s}, !.sent = IF o.ok THEN @ \cup {s} ELSE @]
    BY Zenon DEF JobSend
<1> DEFINE before == queue[s].reached
<1>3. s \in Slots /\ queue[s] \in QueueType /\ queue[s] # NoValue /\ s \notin job.sent
      /\ before \in BOOLEAN
    BY <1>0, <1>1, <1>2 DEF JobType, JobFits, TypeOK, QueueType
<1>4. before => s \in Unmarked
    BY <1>3, Zenon DEF Unmarked
<1>5. job'.on /\ job'.sent = (IF o.ok THEN job.sent \cup {s} ELSE job.sent)
    BY <1>1, <1>2 DEF JobType
<1>6. \A t \in Slots : t # s => queue'[t] = queue[t]
    BY <1>0, <1>2 DEF TypeOK
<1>7. o.ok => s \notin Unmarked'
    BY <1>5, Zenon DEF Unmarked
<1>8. Unmarked' \subseteq Unmarked \cup {s}
    <2>1. ASSUME NEW t \in Unmarked', t # s PROVE t \in Unmarked
        <3>1. t \in Slots /\ queue'[t] = queue[t] /\ (t \in job.sent => t \in job'.sent)
            BY <1>5, <1>6, <2>1 DEF Unmarked
        <3> QED BY <1>5, <2>1, <3>1, Zenon DEF Unmarked
    <2> QED BY <2>1
<1>9. Cardinality(Unmarked') + Has(Unmarked, s) <= Cardinality(Unmarked) + Has(Unmarked', s)
    BY <1>0, <1>8, Sizes, SizesNext, OneMore
<1>10. UNCHANGED <<rule, told, tx, wide>>
    BY Zenon DEF JobSend
<1>11. Doubtful' = Doubtful /\ Stale' = Stale
    BY <1>10, Zenon DEF Doubtful, Saying, Stale
<1>12. repeats' <= repeats + RepeatsOf(o, before)
    BY <1>0, <1>2, <1>3, Outcome, Capped
<1>13. /\ Has(Unmarked, s) \in {0, 1} /\ Has(Unmarked', s) \in {0, 1}
       /\ (before => Has(Unmarked, s) = 1) /\ (o.ok => Has(Unmarked', s) = 0)
    BY <1>4, <1>7, HasOne
<1>14. /\ o.ok \in BOOLEAN /\ o.copies \in 0..2 /\ (o.ok => o.copies # 0)
       /\ FaultsOf(o) = (IF o.ok THEN o.copies - 1 ELSE IF o.copies > 0 THEN o.copies ELSE 1)
       /\ RepeatsOf(o, before) =
              (IF o.copies = 0 THEN 0 ELSE IF before THEN o.copies ELSE o.copies - 1)
    BY <1>3, Outcome
<1> HIDE DEF before
<1> QED BY <1>0, <1>2, <1>3, <1>9, <1>10, <1>11, <1>12, <1>13, <1>14, Sizes, SizesNext, Paid, SMT DEF Owed

\* The alerts that a crash makes doubtful are the ones that it counts as lost.
LEMMA DebtsCrash ==
    ASSUME Shape, TypeOK', Debts, Crash
    PROVE  Debts'
<1>0. TypeOK
    BY Zenon DEF Shape
<1>1. /\ faults' = faults + LostByCrash
      /\ tx' = NoValue /\ UNCHANGED <<rule, told, queue, repeats, wide>>
    BY Zenon DEF Crash, db
<1> DEFINE alert == IF tx # NoValue /\ tx.sent THEN {tx.rule} ELSE {}
           rows == IF job.on THEN job.sent ELSE {}
<1>2. Doubtful' \subseteq Doubtful \cup alert
    BY <1>1, Zenon DEF Doubtful, Saying
<1>3. Unmarked' \subseteq Unmarked \cup rows
    BY <1>1, Zenon DEF Unmarked
<1>4. IsFiniteSet(alert) /\ Cardinality(alert) = (IF tx # NoValue /\ tx.sent THEN 1 ELSE 0)
    BY FS_EmptySet, FS_Singleton
<1>5. IsFiniteSet(rows) /\ Cardinality(rows) \in Nat
    BY <1>0, Sending, ConstantsAssumption, FS_Subset, FS_EmptySet, FS_CardinalityType DEF JobType
<1>6. Cardinality(rows) = (IF job.on THEN Cardinality(job.sent) ELSE 0)
    BY FS_EmptySet
<1>7. Cardinality(Doubtful') <= Cardinality(Doubtful) + Cardinality(alert)
    BY <1>0, <1>2, <1>4, Sizes, SizesNext, AtMostBoth
<1>8. Cardinality(Unmarked') <= Cardinality(Unmarked) + Cardinality(rows)
    BY <1>0, <1>3, <1>5, Sizes, SizesNext, AtMostBoth
<1>9. Cardinality(alert) + Cardinality(rows) <= LostByCrash /\ LostByCrash \in Nat
    <2> HIDE DEF alert, rows
    <2> QED BY <1>0, <1>4, <1>5, <1>6, LostCounts, SMT DEF LostByCrash
<1>10. Stale' = 0
    BY <1>1, Zenon DEF Stale
<1>11. Cardinality(alert) \in Nat
    BY <1>4
<1> HIDE DEF alert, rows
<1> QED BY <1>0, <1>1, <1>5, <1>7, <1>8, <1>9, <1>10, <1>11, Sizes, SizesNext, Paid, SMT DEF Owed

LEMMA DebtsEdit ==
    ASSUME Shape, TypeOK', Debts, NEW r \in Rules, Edit(r)
    PROVE  Debts'
<1>0. TypeOK
    BY Zenon DEF Shape
<1>1. UNCHANGED <<queue, job, tx, repeats, wide>> /\ Editable(r)
    BY <1>0, Edits, Zenon DEF Edit
<1>2. /\ told'[r] = NoValue \/ (told'[r] = told[r] /\ Agrees(rule'[r], rule[r]))
      /\ \A q \in Rules \ {r} : told'[q] = told[q] /\ rule'[q] = rule[q]
    BY <1>0, EditForgets
<1>3. Doubtful' \subseteq Doubtful
    <2>1. ASSUME NEW q \in Rules, q \in Doubtful' PROVE q \in Doubtful
        <3>1. Saying(q)' <=> Saying(q)
            BY <1>1, Zenon DEF Saying
        <3>2. told'[q] # NoValue /\ ~Remembers(rule'[q], told'[q]) /\ ~Saying(q)
            BY <2>1, <3>1, Zenon DEF Doubtful
        <3>3. CASE q # r
            <4>1. told'[q] = told[q] /\ rule'[q] = rule[q]
                BY <1>2, <3>3
            <4> QED BY <3>2, <4>1, Zenon DEF Doubtful
        <3>4. CASE q = r
            <4>1. told'[q] = told[q] /\ Agrees(rule'[q], rule[q])
                BY <1>2, <3>2, <3>4
            <4>2. Remembers(rule[q], told[q]) => Remembers(rule'[q], told'[q])
                BY <4>1, Zenon DEF Agrees, SameState, Remembers
            <4> QED BY <3>2, <4>1, <4>2, Zenon DEF Doubtful
        <3> QED BY <3>3, <3>4
    <2> QED BY <2>1, Zenon DEF Doubtful
<1>4. Cardinality(Doubtful') <= Cardinality(Doubtful)
    BY <1>0, <1>3, Sizes, FS_Subset
<1>5. Unmarked' = Unmarked
    BY <1>1, UnmarkedSame
<1>6. faults <= faults' /\ Stale' + faults <= Stale + faults'
    <2>1. CASE tx # NoValue /\ tx.rule = r
        <3>1. faults' = faults + 1
            BY <1>1, <2>1, Zenon DEF Editable
        <3> QED BY <1>0, <3>1, Sizes, SizesNext
    <2>2. CASE ~(tx # NoValue /\ tx.rule = r)
        <3>1. faults' = faults
            BY <1>1, <2>2, Zenon DEF Editable
        <3>2. tx # NoValue => rule'[tx.rule] = rule[tx.rule]
            BY <1>0, <1>2, <2>2, Transaction
        <3>3. Stale' = Stale
            BY <1>1, <3>2, Zenon DEF Stale
        <3> QED BY <1>0, <3>1, <3>3, Sizes
    <2> QED BY <2>1, <2>2
<1> QED BY <1>0, <1>1, <1>4, <1>5, <1>6, Sizes, SizesNext, Paid, SMT DEF Owed

LEMMA DebtsStep ==
    ASSUME Shape, Sound, Debts, [Next]_vars
    PROVE  Debts'
<1>0. TypeOK /\ Turn
    BY Zenon DEF Shape
<1>1. TypeOK'
    BY ShapeStep, Zenon DEF Shape
<1>2. CASE Send
    BY <1>1, <1>2, DebtsSend
<1>3. CASE Commit
    BY <1>1, <1>3, DebtsCommit
<1>4. CASE CommitTooWide
    BY <1>4, Zenon DEF CommitTooWide, Debts
<1>5. CASE CommitFails
    BY <1>1, <1>5, DebtsCommitFails
<1>6. CASE Crash
    BY <1>1, <1>6, DebtsCrash
<1>7. CASE JobSend
    BY <1>1, <1>7, DebtsJobSend
<1>8. ASSUME NEW r \in Rules, Edit(r) PROVE Debts'
    BY <1>1, <1>8, DebtsEdit
<1>9. faults <= faults + 1 /\ faults <= faults
    BY <1>0, Sizes
<1>10. CASE \/ RunStart \/ Fetch \/ FetchFails \/ RunEnd \/ LockExpires \/ UNCHANGED vars
            \/ \E r \in Rules : WatchRefresh(r)
    <2>1. UNCHANGED <<rule, queue, tx, job, told, repeats, wide>> /\ faults' \in {faults, faults + 1}
        BY <1>10, Zenon DEF RunStart, Fetch, FetchFails, RunEnd, LockExpires, WatchRefresh,
                            vars, db, history
    <2>2. Unmarked' = Unmarked /\ SameRows
        BY <1>0, <2>1, UnmarkedSame, SameRowsSteps
    <2>3. faults <= faults'
        BY <1>9, <2>1
    <2> QED BY <1>1, <2>1, <2>2, <2>3, DebtsQuiet, Zenon
<1>11. CASE Tick
    <2>1. UNCHANGED <<tx, job, told, repeats, wide, faults>>
        BY <1>11, Zenon DEF Tick, history
    <2>2. Unmarked' \subseteq Unmarked
        BY <1>0, <1>11, <2>1, TickRows, Zenon DEF Unmarked
    <2>3. SameRows
        BY <1>0, <1>11, SameRowsSteps
    <2> QED BY <1>1, <1>9, <2>1, <2>2, <2>3, DebtsQuiet, Zenon
<1>12. CASE JobStart \/ JobCommit
    <2>1. UNCHANGED <<rule, tx, told, repeats, wide, faults>>
        BY <1>12, Zenon DEF JobStart, JobCommit, db, history
    <2>2. Unmarked' \subseteq Unmarked
        <3>1. CASE JobStart
            BY <3>1, Zenon DEF JobStart, Unmarked, db
        <3>2. CASE JobCommit
            <4>1. ASSUME NEW s \in Unmarked' PROVE s \in Unmarked
                <5>1. s \in Slots /\ queue'[s] # NoValue /\ queue'[s].reached
                    BY <4>1, Zenon DEF Unmarked
                <5>2. s \notin job.sent /\ queue'[s] = queue[s]
                    BY <3>2, <5>1 DEF JobCommit
                <5> QED BY <5>1, <5>2, Zenon DEF Unmarked
            <4> QED BY <4>1
        <3> QED BY <1>12, <3>1, <3>2
    <2>3. SameRows
        BY <1>0, <2>1, SameRowsSteps
    <2> QED BY <1>1, <1>9, <2>1, <2>2, <2>3, DebtsQuiet, Zenon
<1>13. CASE Begin
    <2>1. tx = NoValue /\ UNCHANGED <<queue, job, told, repeats, wide, faults>>
        BY <1>13, Zenon DEF Begin, history
    <2>2. Unmarked' = Unmarked /\ SameRows
        BY <1>0, <1>13, <2>1, UnmarkedSame, SameRowsSteps
    <2>3. \A r \in Rules : ~Saying(r)
        BY <2>1, Zenon DEF Saying
    <2>4. tx' = tx \/ Stale' <= Stale
        <3>1. CASE tx' # tx
            <4>1. PICK r : /\ tx' = [rule |-> r, read |-> rule[r], way |-> "read", sent |-> FALSE]
                           /\ rule' = rule
                BY <1>13, <3>1, Zenon DEF Begin
            <4>2. tx'.rule = r /\ tx'.read = rule[r]
                BY <4>1
            <4>3. Stale' = 0
                BY <4>1, <4>2, Zenon DEF Stale, SameState
            <4> QED BY <1>0, <4>3, Sizes
        <3> QED BY <3>1
    <2> QED BY <1>1, <1>9, <2>1, <2>2, <2>3, <2>4, DebtsQuiet, Zenon
<1>14. CASE LockRule
    <2>1. /\ tx # NoValue /\ tx.way = "read"
          /\ UNCHANGED <<rule, queue, job, told, repeats, wide, faults>>
        BY <1>14, Zenon DEF LockRule, db, history
    <2>2. Unmarked' = Unmarked /\ SameRows
        BY <1>0, <2>1, UnmarkedSame, SameRowsSteps
    <2>3. \A r \in Rules : ~Saying(r)
        BY <1>0, <2>1, Transaction DEF Saying
    <2>4. Stale' <= Stale
        <3>1. CASE tx' = NoValue
            BY <1>0, <3>1, Sizes DEF Stale
        <3>2. CASE tx' # NoValue
            <4>1. tx' = Decision(tx.rule, tx.read)
                BY <1>14, <3>2, Zenon DEF LockRule, EndTx
            <4>2. tx'.rule = tx.rule /\ tx'.read = tx.read
                BY <4>1 DEF Decision
            <4>3. Stale' = Stale
                BY <2>1, <3>2, <4>2, Zenon DEF Stale
            <4> QED BY <1>0, <4>3, Sizes
        <3> QED BY <3>1, <3>2
    <2> QED BY <1>1, <1>9, <2>1, <2>2, <2>3, <2>4, DebtsQuiet, Zenon
<1> QED BY <1>2, <1>3, <1>4, <1>5, <1>6, <1>7, <1>8, <1>10, <1>11, <1>12, <1>13, <1>14, Zenon
        DEF Next, Monitor, Deferred, Faults, Users, World, Edit

LEMMA DebtsInit ==
    ASSUME Init
    PROVE  Sound /\ Debts
<1>1. /\ tx = NoValue /\ queue = [s \in Slots |-> NoValue] /\ told = [r \in Rules |-> NoValue]
      /\ repeats = 0 /\ faults = 0
    BY Zenon DEF Init
<1>2. Doubtful = {} /\ Unmarked = {} /\ Stale = 0
    BY <1>1 DEF Doubtful, Unmarked, Stale
<1>3. Sound
    BY <1>1, Zenon DEF Sound
<1> QED BY <1>1, <1>2, <1>3, FS_EmptySet DEF Debts

\* For any rules, prices, settings and quiet hours, and however many edits: an
\* owner's alert is repeated only where a fault hid it from the database, or an
\* edit came between the monitor's read of the rule and its lock.
THEOREM RepeatsAreFaults == Spec => []RepeatsNeedFaults
<1>1. Shape /\ Debts => RepeatsNeedFaults
    BY Sizes, SMT DEF Shape, Debts, RepeatsNeedFaults
<1>2. Shape /\ Sound /\ Debts /\ [Next]_vars => Sound' /\ Debts'
    BY SoundStep, DebtsStep
<1> QED BY ShapeInit, ShapeStep, DebtsInit, <1>1, <1>2, PTL DEF Spec
=============================================================================
