--------------------------- MODULE MCJobs_proofs ---------------------------
(***************************************************************************)
(* The small jobs of the background, each for every value of its           *)
(* constants.                                                              *)
(***************************************************************************)
EXTENDS MCJobs, PriceMonitor_proofs, WellFoundedInduction

-----------------------------------------------------------------------------
(* Numbers.                                                                *)

LEMMA DivMod ==
    ASSUME NEW n \in Nat, NEW d \in Nat \ {0}
    PROVE  n = d * (n \div d) + (n % d) /\ n % d \in 0..d - 1 /\ n \div d \in Nat
BY SMT

\* There is one quotient and one remainder.
LEMMA DivModOf ==
    ASSUME NEW d \in Nat \ {0}, NEW q \in Nat, NEW r \in 0..d - 1
    PROVE  (d * q + r) % d = r /\ (d * q + r) \div d = q
<1> DEFINE n == d * q + r
           p == n \div d
           s == n % d
<1>1. n \in Nat
    BY SMT
<1>2. d * q + r = d * p + s /\ p \in Nat /\ s \in 0..d - 1
    BY <1>1, DivMod
<1> HIDE DEF n, p, s
<1>3. ~(q < p)
    <2> SUFFICES ASSUME q < p PROVE FALSE
        OBVIOUS
    <2>1. d * (p - q) >= d /\ d * p = d * q + d * (p - q)
        BY <1>2, SMT
    <2> QED BY <1>2, <2>1, SMT
<1>4. ~(p < q)
    <2> SUFFICES ASSUME p < q PROVE FALSE
        OBVIOUS
    <2>1. d * (q - p) >= d /\ d * q = d * p + d * (q - p)
        BY <1>2, SMT
    <2> QED BY <1>2, <2>1, SMT
<1>5. p = q /\ s = r
    BY <1>2, <1>3, <1>4, SMT
<1> QED BY <1>5 DEF n, p, s

-----------------------------------------------------------------------------
(* The decisions.                                                          *)

LEMMA DecisionDayIsNat == DecisionDay \in Nat \ {0}
BY JobsAssumption

\* _quiet_until: whenever quiet hours with different bounds hold, the alert is
\* held back to the first hour that is not quiet and no longer.
LEMMA QuietWaitExactly ==
    ASSUME NEW t \in 0..DecisionDay - 1, NEW start \in 0..DecisionDay - 1,
           NEW end \in 0..DecisionDay - 1
    PROVE  Decisions!QuietWaitIsExact(t, start, end)
<1> SUFFICES ASSUME start # end, Decisions!IsQuiet(t, start, end)
             PROVE  /\ Decisions!QuietWait(t, start, end) \in 1..DecisionDay - 1
                    /\ \A k \in 0..Decisions!QuietWait(t, start, end) - 1 :
                          Decisions!IsQuiet(Decisions!HourAfter(t, k), start, end)
                    /\ ~Decisions!IsQuiet(Decisions!HourAfter(t, Decisions!QuietWait(t, start, end)), start, end)
    BY Zenon DEF Decisions!QuietWaitIsExact
<1> USE DecisionDayIsNat
<1>1. CASE start < end
    <2>1. start <= t /\ t < end
        BY <1>1, SMT DEF Decisions!IsQuiet
    <2>2. Decisions!QuietWait(t, start, end) = end - t
        BY <1>1, SMT DEF Decisions!QuietWait
    <2>3. \A k \in 0..end - t - 1 : Decisions!IsQuiet(Decisions!HourAfter(t, k), start, end)
        BY <1>1, <2>1, SMT DEF Decisions!IsQuiet, Decisions!HourAfter
    <2>4. ~Decisions!IsQuiet(Decisions!HourAfter(t, end - t), start, end)
        BY <1>1, <2>1, SMT DEF Decisions!IsQuiet, Decisions!HourAfter
    <2> QED BY <2>1, <2>2, <2>3, <2>4, SMT
<1>2. CASE end < start /\ t >= start
    <2>1. Decisions!QuietWait(t, start, end) = end - t + DecisionDay
        BY <1>2, SMT DEF Decisions!QuietWait
    <2>2. \A k \in 0..end - t + DecisionDay - 1 : Decisions!IsQuiet(Decisions!HourAfter(t, k), start, end)
        BY <1>2, SMT DEF Decisions!IsQuiet, Decisions!HourAfter
    <2>3. ~Decisions!IsQuiet(Decisions!HourAfter(t, end - t + DecisionDay), start, end)
        BY <1>2, SMT DEF Decisions!IsQuiet, Decisions!HourAfter
    <2> QED BY <1>2, <2>1, <2>2, <2>3, SMT
<1>3. CASE end < start /\ t < start
    <2>1. t < end
        BY <1>3, SMT DEF Decisions!IsQuiet
    <2>2. Decisions!QuietWait(t, start, end) = end - t
        BY <1>3, SMT DEF Decisions!QuietWait
    <2>3. \A k \in 0..end - t - 1 : Decisions!IsQuiet(Decisions!HourAfter(t, k), start, end)
        BY <1>3, <2>1, SMT DEF Decisions!IsQuiet, Decisions!HourAfter
    <2>4. ~Decisions!IsQuiet(Decisions!HourAfter(t, end - t), start, end)
        BY <1>3, <2>1, SMT DEF Decisions!IsQuiet, Decisions!HourAfter
    <2> QED BY <2>1, <2>2, <2>3, <2>4, SMT
<1> QED BY <1>1, <1>2, <1>3, SMT

\* The two basic reasons are exactly the two ways to match, so that a match
\* always has one of them, the conversion failed or not.
LEMMA MatchGivesBasicReason ==
    ASSUME NEW watch, NEW price, NEW least, NEW rate, Decisions!Matches(watch, price, least, rate)
    PROVE  Decisions!BasicReasons(watch, price, least, rate) # {}
BY Zenon DEF Decisions!Matches, Decisions!BasicReasons

LEMMA RuleIsNoReason ==
    ASSUME NEW watch, NEW price, NEW newest, NEW least, NEW rate
    PROVE  "rule" \notin Decisions!BasicReasons(watch, price, least, rate)
                         \cup Decisions!LowReasons(watch, price, least)
                         \cup Decisions!DropReasons(watch, price, newest, rate)
BY Zenon DEF Decisions!BasicReasons, Decisions!LowReasons, Decisions!DropReasons

\* _matches and _notification_reasons agree: the fallback reason "rule" is
\* never given.
LEMMA FallbackReasonIsDead ==
    ASSUME NEW watch, NEW paid, NEW price, NEW newest, NEW least, NEW rate
    PROVE  Decisions!MatchHasItsReason(watch, paid, price, newest, least, rate)
<1> DEFINE found ==
        Decisions!BasicReasons(watch, price, least, rate)
        \cup (IF paid
              THEN Decisions!LowReasons(watch, price, least)
                   \cup Decisions!DropReasons(watch, price, newest, rate)
              ELSE {})
<1>1. "rule" \notin found
    BY RuleIsNoReason, Zenon
<1>2. ~(found = {} /\ Decisions!Matches(watch, price, least, rate))
    BY MatchGivesBasicReason, Zenon
<1>3. Decisions!Reasons(watch, paid, price, newest, least, rate) = found
    BY <1>2, Zenon DEF Decisions!Reasons
<1> QED BY <1>1, <1>3, Zenon DEF Decisions!MatchHasItsReason

\* With the price itself as the newest snapshot nothing has dropped.
LEMMA NoDropFromItself ==
    ASSUME NEW watch, NEW price, price.final \in Int, NEW rate
    PROVE  Decisions!DropReasons(watch, price, price, rate) = {}
BY SMT DEF Decisions!DropReasons

\* A price that is not below the low is no new low.
LEMMA NoNewLow ==
    ASSUME NEW watch, NEW price, price.final \in Int, NEW least \in Int \cup {NoValue},
           least = NoValue \/ least <= price.final
    PROVE  Decisions!LowReasons(watch, price, least) \subseteq {"known_low"}
<1>1. ~Decisions!IsNewLow(price, least)
    BY SMT DEF Decisions!IsNewLow
<1> QED BY <1>1, Zenon DEF Decisions!LowReasons

\* _process stores the price before it looks for the next one: whatever the
\* rule, the reasons about a movement do not come back for the same price.
LEMMA MovementsAreToldOnce ==
    ASSUME NEW watch, NEW paid, NEW price, price.final \in Int,
           NEW newest, newest = NoValue \/ newest.final \in Int,
           NEW least \in Int \cup {NoValue}, NEW rate
    PROVE  Decisions!MovementIsToldOnce(watch, paid, price, newest, least, rate)
<1> DEFINE differs == Decisions!PriceChanged(newest, price)
           newest_ == IF differs THEN price ELSE newest
           least_ == IF differs /\ (least = NoValue \/ price.final < least)
                   THEN price.final ELSE least
<1> SUFFICES ASSUME least = NoValue \/ (newest # NoValue /\ least <= newest.final)
             PROVE  Decisions!Reasons(watch, paid, price, newest_, least_, rate)
                    \cap Decisions!Movements = {}
    BY Zenon DEF Decisions!MovementIsToldOnce
<1>1. newest_ = price
    BY Zenon DEF Decisions!PriceChanged
<1>2. least_ \in Int \cup {NoValue} /\ (least_ = NoValue \/ least_ <= price.final)
    <2>1. CASE differs
        BY <2>1, JobsAssumption, SMT
    <2>2. CASE ~differs
        <3>1. least_ = least /\ newest = price
            BY <2>2, Zenon DEF Decisions!PriceChanged
        <3> QED BY <3>1, Zenon
    <2> QED BY <2>1, <2>2
<1> HIDE DEF newest_, least_
<1>3. Decisions!DropReasons(watch, price, newest_, rate) = {}
    BY <1>1, NoDropFromItself, Zenon
<1>4. Decisions!LowReasons(watch, price, least_) \subseteq {"known_low"}
    BY <1>2, NoNewLow, Zenon
<1>5. Decisions!BasicReasons(watch, price, least_, rate) \subseteq {"target", "discount"}
    BY Zenon DEF Decisions!BasicReasons
<1>6. Decisions!Reasons(watch, paid, price, newest_, least_, rate)
          \subseteq {"target", "discount", "known_low", "rule"}
    BY <1>3, <1>4, <1>5, Zenon DEF Decisions!Reasons
<1> QED BY <1>6, Zenon DEF Decisions!Movements

\* What the enumeration holds stays among the inputs.
DecisionsInv == input \in Decisions!QuietInputs \cup Decisions!PriceInputs

LEMMA PriceStored ==
    ASSUME NEW new \in Decisions!PriceInputs, NEW least_ \in Decisions!Amounts \cup {NoValue}
    PROVE  [new EXCEPT !.latest = new.price, !.low = least_] \in Decisions!PriceInputs
BY DEF Decisions!PriceInputs

LEMMA DecisionsNext == DecisionsInv /\ [Decisions!Next]_input => DecisionsInv'
<1> SUFFICES ASSUME DecisionsInv, [Decisions!Next]_input PROVE DecisionsInv'
    OBVIOUS
<1>1. CASE Decisions!Wait
    <2>1. input \in Decisions!QuietInputs
        BY <1>1 DEF DecisionsInv, Decisions!Wait, Decisions!PriceInputs
    <2> DEFINE wait == Decisions!QuietWait(input.t, input.start, input.end)
               end == Decisions!HourAfter(input.t, wait)
    <2>2. /\ input.t \in 0..DecisionDay - 1
          /\ input.start \in 0..DecisionDay - 1 /\ input.end \in 0..DecisionDay - 1
        BY <2>1 DEF Decisions!QuietInputs, Decisions!Hours
    <2>3. wait \in 1..DecisionDay - 1
        BY <1>1, <2>2, QuietWaitExactly, Zenon DEF Decisions!Wait, Decisions!QuietWaitIsExact
    <2>4. input' = [input EXCEPT !.t = end]
        BY <1>1 DEF Decisions!Wait
    <2> HIDE DEF wait
    <2>5. end \in 0..DecisionDay - 1
        BY <2>2, <2>3, DecisionDayIsNat, SMT DEF Decisions!HourAfter
    <2> HIDE DEF end
    <2>6. input' \in Decisions!QuietInputs
        BY <2>1, <2>4, <2>5 DEF Decisions!QuietInputs, Decisions!Hours
    <2> QED BY <2>6 DEF DecisionsInv
<1>2. CASE Decisions!CheckAgain
    <2>1. input \in Decisions!PriceInputs
        BY <1>2 DEF DecisionsInv, Decisions!CheckAgain, Decisions!QuietInputs
    <2> DEFINE less == IF input.low = NoValue \/ input.price.final < input.low
                        THEN input.price.final ELSE input.low
    <2>2. input' = [input EXCEPT !.latest = input.price, !.low = less]
        BY <1>2 DEF Decisions!CheckAgain
    <2>3. less \in Decisions!Amounts \cup {NoValue}
        BY <2>1 DEF Decisions!PriceInputs, Decisions!Observed, Decisions!Price
    <2> HIDE DEF less
    <2> QED BY <2>1, <2>2, <2>3, PriceStored DEF DecisionsInv
<1> QED BY <1>1, <1>2 DEF Decisions!Next, DecisionsInv

LEMMA DecisionsInvTells ==
    DecisionsInv => /\ Decisions!QuietWaitExact
                    /\ Decisions!MatchesHaveReasons
                    /\ Decisions!MovementsToldOnce
<1> SUFFICES ASSUME DecisionsInv
             PROVE  /\ Decisions!QuietWaitExact
                    /\ Decisions!MatchesHaveReasons
                    /\ Decisions!MovementsToldOnce
    OBVIOUS
<1>1. Decisions!QuietWaitExact
    BY QuietWaitExactly DEF DecisionsInv, Decisions!QuietWaitExact, Decisions!QuietInputs, Decisions!PriceInputs, Decisions!Hours
<1>2. Decisions!MatchesHaveReasons
    BY FallbackReasonIsDead, Zenon DEF Decisions!MatchesHaveReasons
<1>3. Decisions!MovementsToldOnce
    <2> SUFFICES ASSUME input \in Decisions!PriceInputs
                 PROVE  Decisions!MovementIsToldOnce(input.rule, input.premium, input.price, input.latest,
                                                     input.low, input.rate)
        BY DEF DecisionsInv, Decisions!MovementsToldOnce, Decisions!QuietInputs
    <2>1. /\ input.price \in Decisions!Observed /\ input.latest \in Decisions!Observed \cup {NoValue}
          /\ input.low \in Decisions!Amounts \cup {NoValue}
        BY DEF Decisions!PriceInputs
    <2>2. Decisions!Amounts \subseteq Int /\ \A p \in Decisions!Observed : p.final \in Int
        BY DEF Decisions!Amounts, Decisions!Observed, Decisions!Price
    <2> QED BY <2>1, <2>2, MovementsAreToldOnce, Zenon
<1> QED BY <1>1, <1>2, <1>3

-----------------------------------------------------------------------------
(* The polling lock.                                                       *)

Healthy(i) == running[i] = "polling" /\ i \notin troubled

Covered ==
    \A i \in Instances :
      Healthy(i) => owner = i /\ renewal[i] \in 0..Polling!Interval /\ left > renewal[i]

\* OnePoller is not inductive: it does not say why a second instance stays out.
\* Covered adds the reason, that the lease of a healthy poller lasts longer than its
\* renewal takes to come.
PollingInv == Polling!TypeOK /\ (LockTtl > Polling!Interval => Covered)

\* The interval is a number of seconds (max(5, ttl // 3) in PollingLock._renew).
LEMMA LeaseFacts ==
    LockTtl \in Nat \ {0} /\ NoValue \notin Instances \cup Nat /\ Polling!Interval \in Nat
BY JobsAssumption DEF Polling!Interval

LEMMA PollingInit == Polling!Init => PollingInv
BY LeaseFacts DEF Polling!Init, PollingInv, Polling!TypeOK, Covered, Healthy

\* A second changes no healthy poller's share: both its lease and the time to its
\* renewal are one less, and the one that is due becomes late.
LEMMA LeaseTick ==
    ASSUME PollingInv, Polling!Tick PROVE PollingInv'
<1> USE LeaseFacts DEF PollingInv, Polling!TypeOK, Polling!Tick
<1>1. Polling!TypeOK'
  <2>1. left' \in 0..LockTtl OBVIOUS
  <2>2. owner' \in Instances \cup {NoValue} OBVIOUS
  <2>3. renewal' \in [Instances -> 0..Polling!Interval \cup {NoValue}]
    <3> SUFFICES ASSUME NEW i \in Instances
                 PROVE (IF renewal[i] \in {NoValue, 0} THEN renewal[i] ELSE renewal[i] - 1)
                          \in 0..Polling!Interval \cup {NoValue}
      OBVIOUS
    <3>1. renewal[i] \in 0..Polling!Interval \cup {NoValue} OBVIOUS
    <3> QED BY <3>1
  <2> QED BY <2>1, <2>2, <2>3
<1>2. ASSUME LockTtl > Polling!Interval PROVE Covered'
  <2> SUFFICES ASSUME NEW i \in Instances, Healthy(i)'
               PROVE owner' = i /\ renewal'[i] \in 0..Polling!Interval /\ left' > renewal'[i]
    BY DEF Covered
  <2>1. Healthy(i) /\ renewal[i] # 0 BY DEF Healthy
  <2>2. owner = i /\ renewal[i] \in 0..Polling!Interval /\ left > renewal[i]
    BY <1>2, <2>1 DEF Covered
  <2>3. renewal[i] \in Nat /\ renewal[i] # NoValue BY <2>2
  <2>4. renewal'[i] = renewal[i] - 1 BY <2>1, <2>3
  <2>5. left > 1 /\ left' = left - 1 /\ owner' = owner BY <2>1, <2>2, <2>3
  <2> QED BY <2>2, <2>3, <2>4, <2>5, <2>1
<1> QED BY <1>1, <1>2

\* Who starts does so while nobody holds the lease, hence while nobody polls in
\* good health; the others touch only what is their own.
LEMMA InstanceInv ==
    ASSUME PollingInv, NEW i \in Instances,
           \/ Polling!Acquire(i) \/ Polling!Renew(i) \/ Polling!RenewFails(i) \/ Polling!Stop(i) \/ Polling!Release(i) \/ Polling!Crash(i)
    PROVE  PollingInv'
<1> USE LeaseFacts DEF PollingInv, Polling!TypeOK
<1>1. CASE Polling!Acquire(i)
  <2>1. Polling!TypeOK' BY <1>1 DEF Polling!Acquire
  <2>2. ASSUME LockTtl > Polling!Interval PROVE Covered'
    <3>1. \A j \in Instances : ~Healthy(j) BY <1>1, <2>2 DEF Covered, Polling!Acquire
    <3>2. \A j \in Instances : Healthy(j)' => j = i BY <3>1, <1>1 DEF Healthy, Polling!Acquire
    <3> QED BY <3>2, <1>1, <2>2 DEF Covered, Polling!Acquire
  <2> QED BY <2>1, <2>2
<1>2. CASE Polling!Renew(i)
  <2>1. Polling!TypeOK' BY <1>2 DEF Polling!Renew
  <2>2. ASSUME LockTtl > Polling!Interval PROVE Covered'
    <3>1. CASE owner = i
      <4>1. \A j \in Instances : Healthy(j) => j = i BY <3>1, <2>2 DEF Covered
      <4>2. \A j \in Instances : Healthy(j)' => j = i
        BY <4>1, <3>1, <1>2 DEF Healthy, Polling!Renew
      <4> QED BY <4>2, <3>1, <1>2, <2>2 DEF Covered, Polling!Renew
    <3>2. CASE owner # i
      <4>1. \A j \in Instances : Healthy(j)' => j # i /\ Healthy(j)
        BY <3>2, <1>2 DEF Healthy, Polling!Renew
      <4> QED BY <4>1, <3>2, <1>2, <2>2 DEF Covered, Polling!Renew
    <3> QED BY <3>1, <3>2
  <2> QED BY <2>1, <2>2
<1>3. CASE Polling!RenewFails(i) \/ Polling!Stop(i) \/ Polling!Crash(i)
  <2>1. Polling!TypeOK' BY <1>3 DEF Polling!RenewFails, Polling!Stop, Polling!Crash
  <2>2. \A j \in Instances : Healthy(j)' => j # i /\ Healthy(j)
    BY <1>3 DEF Healthy, Polling!RenewFails, Polling!Stop, Polling!Crash
  <2>3. owner' = owner /\ left' = left /\ \A j \in Instances \ {i} : renewal'[j] = renewal[j]
    BY <1>3 DEF Polling!RenewFails, Polling!Stop, Polling!Crash
  <2>4. ASSUME LockTtl > Polling!Interval PROVE Covered' BY <2>2, <2>3, <2>4 DEF Covered
  <2> QED BY <2>1, <2>4
<1>4. CASE Polling!Release(i)
  <2>1. Polling!TypeOK' BY <1>4 DEF Polling!Release
  <2>2. \A j \in Instances : Healthy(j)' => j # i /\ Healthy(j)
    BY <1>4 DEF Healthy, Polling!Release
  <2>3. \A j \in Instances \ {i} : renewal'[j] = renewal[j] BY <1>4 DEF Polling!Release
  <2>4. ASSUME LockTtl > Polling!Interval PROVE Covered'
    <3> SUFFICES ASSUME NEW j \in Instances, Healthy(j)'
                 PROVE owner' = j /\ renewal'[j] \in 0..Polling!Interval /\ left' > renewal'[j]
      BY DEF Covered
    <3>1. j # i /\ owner = j /\ renewal[j] \in 0..Polling!Interval /\ left > renewal[j]
      BY <2>2, <2>4 DEF Covered
    <3>2. owner' = owner /\ left' = left BY <3>1, <1>4 DEF Polling!Release
    <3> QED BY <3>1, <3>2, <2>3
  <2> QED BY <2>1, <2>4
<1> QED BY <1>1, <1>2, <1>3, <1>4

LEMMA PollingNext == PollingInv /\ [Polling!Next]_(Polling!vars) => PollingInv'
<1> SUFFICES ASSUME PollingInv, [Polling!Next]_(Polling!vars) PROVE PollingInv'
    OBVIOUS
<1>1. CASE UNCHANGED Polling!vars
    BY <1>1 DEF Polling!vars, PollingInv, Polling!TypeOK, Covered, Healthy
<1>2. CASE Polling!Next
    BY <1>2, LeaseTick, InstanceInv DEF Polling!Next
<1> QED BY <1>1, <1>2

LEMMA PollingInvTells == PollingInv => Polling!TypeOK /\ Polling!OnePoller
BY DEF PollingInv, Covered, Healthy, Polling!OnePoller

-----------------------------------------------------------------------------
(* Digests.                                                                *)

Kinds == Digest!Kinds
DayOf == Digest!Day
WeekOf == Digest!Week
PeriodOf(k) == Digest!Period[k]

\* The place of the slot of a digest, and of the present one, in its period.
Slot(k) ==
    IF k = "daily" THEN 2 * (time[k] \div 2) ELSE DayOf * weekday + 2 * (time[k] \div 2)
Place(k) == IF k = "daily" THEN now % DayOf ELSE now
IsTurn(k) == Place(k) = Slot(k)

Since(k) == Place(k) - Slot(k) + IF Place(k) >= Slot(k) THEN 0 ELSE PeriodOf(k)

\* The slots since a run last looked at the digest in its slot.
Looked(k) == IF IsTurn(k) /\ ~(ran /\ job = NoValue) THEN PeriodOf(k) ELSE Since(k)

DigestTypes ==
    /\ Digest!TypeOK
    /\ job \in [due : SUBSET Kinds, todo : SUBSET Kinds] \cup {NoValue}
    /\ lastAt \in [Kinds -> Nat \cup {NoValue}] /\ sent \in [Kinds -> Nat \cup {NoValue}]
    /\ gap \in [Kinds -> Nat \cup {NoValue}] /\ steady \in [Kinds -> Nat]

\* What a run has found due was not sent within the spacing; what it has not found
\* due, in its slot, was, unless the settings have changed since.
RunKnows ==
    job # NoValue =>
      /\ ran
      /\ \A k \in job.due :
           /\ lastAt[k] # NoValue => lastAt[k] > Digest!Spacing(k)
           /\ IsTurn(k) \/ steady[k] = 0
      /\ \A k \in Kinds \ job.due :
           enabled[k] /\ IsTurn(k) /\ steady[k] # 0 =>
             lastAt[k] # NoValue /\ lastAt[k] <= Digest!Spacing(k)

\* The last digest was sent in its slot when that was last looked at, or before the
\* last change; and once a slot was looked at since that change, in the first case,
\* or else the change came hardly a spacing before the slot.
InRhythm ==
    \A k \in Kinds : enabled[k] =>
      /\ lastAt[k] # NoValue =>
           \/ lastAt[k] \in {Looked(k), Digest!Longest(k)}
           \/ lastAt[k] >= steady[k]
      /\ steady[k] > Looked(k) =>
           /\ lastAt[k] # NoValue
           /\ lastAt[k] = Looked(k) \/ steady[k] <= Digest!Spacing(k) + Looked(k)

DigestInv == DigestTypes /\ RunKnows /\ InRhythm /\ Digest!NotTooSoon

LEMMA PeriodFacts ==
    /\ DayOf = 2 * DigestDay /\ WeekOf = DayOf * WeekDays
    /\ DayOf \in Nat \ {0} /\ WeekOf \in Nat \ {0} /\ WeekOf >= DayOf
    /\ PeriodOf("daily") = DayOf /\ PeriodOf("weekly") = WeekOf
    /\ Kinds = {"daily", "weekly"}
    /\ \A k \in Kinds : /\ PeriodOf(k) \in Nat \ {0} /\ Digest!Spacing(k) \in 0..PeriodOf(k) - 1
                        /\ Digest!Longest(k) = PeriodOf(k) + 1 /\ Digest!Steady(k) = 2 * PeriodOf(k)
<1>1. DayOf = 2 * DigestDay /\ WeekOf = DayOf * WeekDays
    BY DEF DayOf, WeekOf, Digest!Day, Digest!Week
<1>2. DigestDay \in Nat \ {0} /\ WeekDays \in Nat \ {0}
    BY JobsAssumption
<1>3. DayOf \in Nat \ {0} /\ WeekOf \in Nat \ {0} /\ WeekOf >= DayOf
    BY <1>1, <1>2, SMT
<1>4. Kinds = {"daily", "weekly"}
    BY DEF Kinds, Digest!Kinds
<1>5. PeriodOf("daily") = DayOf /\ PeriodOf("weekly") = WeekOf
    BY <1>4 DEF PeriodOf, Digest!Period, DayOf, WeekOf, Kinds
<1>6. Digest!Spacing("daily") = DayOf - 2 /\ Digest!Spacing("weekly") = WeekOf - DayOf
    BY DEF Digest!Spacing, DayOf, WeekOf
<1>7. \A k \in Kinds : Digest!Spacing(k) \in 0..PeriodOf(k) - 1
    BY <1>1, <1>2, <1>3, <1>4, <1>5, <1>6, SMT
<1>8. \A k \in Kinds : Digest!Longest(k) = PeriodOf(k) + 1 /\ Digest!Steady(k) = 2 * PeriodOf(k)
    BY DEF Digest!Longest, Digest!Steady, PeriodOf
<1> QED BY <1>1, <1>3, <1>4, <1>5, <1>7, <1>8

\* The slots of the week and of the day.
LEMMA PlaceFacts ==
    ASSUME DigestTypes, NEW k \in Kinds
    PROVE  /\ Place(k) \in 0..PeriodOf(k) - 1 /\ Slot(k) \in 0..PeriodOf(k) - 1
           /\ IsTurn(k) => now % 2 = 0
           /\ Digest!Due(k) <=> /\ enabled[k] /\ IsTurn(k)
                                /\ lastAt[k] # NoValue => lastAt[k] > Digest!Spacing(k)
<1> DEFINE D == DigestDay
           t == time[k] \div 2
           q == now \div DayOf
           r == now % DayOf
<1>1. /\ D \in Nat \ {0} /\ WeekDays \in Nat \ {0} /\ DayOf = 2 * D /\ WeekOf = DayOf * WeekDays
      /\ DayOf \in Nat \ {0} /\ WeekOf \in Nat \ {0} /\ WeekOf >= DayOf
    BY JobsAssumption, PeriodFacts
<1>2. now \in 0..WeekOf - 1 /\ time[k] \in 0..DayOf - 1 /\ weekday \in 0..WeekDays - 1
    BY DEF DigestTypes, Digest!TypeOK, Kinds, DayOf, WeekOf
<1>3. t \in 0..D - 1
    BY <1>1, <1>2, SMT
<1>4. now = DayOf * q + r /\ r \in 0..DayOf - 1 /\ q \in Nat
    <2>1. now \in Nat
        BY <1>1, <1>2, SMT
    <2> QED BY <1>1, <2>1, DivMod, Zenon
<1>5. Digest!Due(k) <=>
        /\ enabled[k] /\ r \div 2 = t /\ now % 2 = 0 /\ (k = "weekly" => q = weekday)
        /\ lastAt[k] # NoValue => lastAt[k] > Digest!Spacing(k)
    BY Zenon DEF Digest!Due, DayOf
<1>6. now % 2 = 0 /\ r \div 2 = t <=> r = 2 * t
    <2>1. PICK z \in Nat : z = D * q
        BY <1>1, <1>4, SMT
    <2>2. now = 2 * z + r
        BY <1>1, <1>4, <2>1, SMT
    <2> HIDE DEF q, t
    <2> QED BY <1>3, <1>4, <1>1, <2>1, <2>2, SMT
<1>7. q = weekday /\ r = 2 * t <=> now = DayOf * weekday + 2 * t
    <2>1. 2 * t \in 0..DayOf - 1 /\ weekday \in Nat
        BY <1>1, <1>2, <1>3, SMT
    <2>2. /\ (DayOf * weekday + 2 * t) % DayOf = 2 * t
          /\ (DayOf * weekday + 2 * t) \div DayOf = weekday
        BY <1>1, <2>1, DivModOf, Zenon
    <2> QED BY <1>4, <2>2, Zenon
<1>8. CASE k = "daily"
    <2>1. Place(k) = r /\ Slot(k) = 2 * t /\ PeriodOf(k) = DayOf
        BY <1>8, PeriodFacts DEF Place, Slot
    <2>2. IsTurn(k) <=> r = 2 * t
        BY <2>1 DEF IsTurn
    <2>3. 2 * t \in 0..DayOf - 1
        BY <1>1, <1>3, SMT
    <2>4. Place(k) \in 0..PeriodOf(k) - 1 /\ Slot(k) \in 0..PeriodOf(k) - 1
        BY <1>4, <2>1, <2>3
    <2>5. k # "weekly"
        BY <1>8
    <2> QED BY <1>5, <1>6, <2>2, <2>4, <2>5, Zenon
<1>9. CASE k = "weekly"
    <2>1. Place(k) = now /\ Slot(k) = DayOf * weekday + 2 * t /\ PeriodOf(k) = WeekOf
        BY <1>9, PeriodFacts DEF Place, Slot
    <2>2. IsTurn(k) <=> q = weekday /\ r = 2 * t
        BY <1>7, <2>1 DEF IsTurn
    <2>3. DayOf * weekday <= DayOf * (WeekDays - 1) /\ DayOf * (WeekDays - 1) = WeekOf - DayOf
        BY <1>1, <1>2, SMT
    <2>4. DayOf * weekday \in Nat
        BY <1>1, <1>2, SMT
    <2>5. Slot(k) \in 0..WeekOf - 1
        BY <1>1, <1>3, <2>1, <2>3, <2>4, SMT
    <2>6. Place(k) \in 0..PeriodOf(k) - 1 /\ Slot(k) \in 0..PeriodOf(k) - 1
        BY <1>2, <2>1, <2>5
    <2> QED BY <1>5, <1>6, <1>9, <2>2, <2>6, Zenon
<1> QED BY <1>8, <1>9, PeriodFacts

LEMMA SinceFacts ==
    ASSUME DigestTypes, NEW k \in Kinds
    PROVE  /\ Since(k) \in 0..PeriodOf(k) - 1 /\ (IsTurn(k) <=> Since(k) = 0)
           /\ Looked(k) \in 0..PeriodOf(k)
<1>1. Place(k) \in 0..PeriodOf(k) - 1 /\ Slot(k) \in 0..PeriodOf(k) - 1 /\ PeriodOf(k) \in Nat \ {0}
    BY PlaceFacts, PeriodFacts
<1>2. Since(k) \in 0..PeriodOf(k) - 1 /\ (IsTurn(k) <=> Since(k) = 0)
    BY <1>1, SMT DEF Since, IsTurn
<1> QED BY <1>1, <1>2, SMT DEF Looked

\* A slot later every digest is a slot further from its slot, or in it.
LEMMA TickSince ==
    ASSUME DigestTypes, DigestTypes', Digest!Tick, NEW k \in Kinds
    PROVE  /\ Since(k)' = IF Since(k) + 1 = PeriodOf(k) THEN 0 ELSE Since(k) + 1
           /\ IsTurn(k)' <=> Since(k)' = 0
<1> DEFINE q == now \div DayOf
           r == now % DayOf
<1>1. /\ WeekDays \in Nat \ {0} /\ WeekOf = DayOf * WeekDays
      /\ DayOf \in Nat \ {0} /\ WeekOf \in Nat \ {0} /\ WeekOf >= DayOf
    BY JobsAssumption, PeriodFacts
<1>2. now' = (now + 1) % WeekOf /\ now \in 0..WeekOf - 1
    BY DEF Digest!Tick, WeekOf, DigestTypes, Digest!TypeOK
<1>3. now' = IF now + 1 = WeekOf THEN 0 ELSE now + 1
    <2>1. CASE now + 1 = WeekOf
        <3>1. WeekOf = WeekOf * 1 + 0
            BY <1>1, SMT
        <3>2. (WeekOf * 1 + 0) % WeekOf = 0
            BY <1>1, DivModOf
        <3> QED BY <1>2, <2>1, <3>1, <3>2
    <2>2. CASE now + 1 # WeekOf
        <3>1. now + 1 \in 0..WeekOf - 1 /\ now + 1 = WeekOf * 0 + (now + 1)
            BY <1>1, <1>2, <2>2, SMT
        <3>2. (WeekOf * 0 + (now + 1)) % WeekOf = now + 1
            BY <1>1, <3>1, DivModOf
        <3> QED BY <1>2, <2>2, <3>1, <3>2
    <2> QED BY <2>1, <2>2
<1>4. now = DayOf * q + r /\ r \in 0..DayOf - 1 /\ q \in Nat
    <2>1. now \in Nat
        BY <1>1, <1>2, SMT
    <2> QED BY <1>1, <2>1, DivMod, Zenon
<1>5. now' % DayOf = IF r + 1 = DayOf THEN 0 ELSE r + 1
    <2>1. CASE now + 1 = WeekOf
        <3>1. now = DayOf * (WeekDays - 1) + (DayOf - 1) /\ WeekDays - 1 \in Nat /\ DayOf - 1 \in 0..DayOf - 1
            BY <1>1, <1>2, <2>1, SMT
        <3>2. r = DayOf - 1
            BY <1>1, <3>1, DivModOf
        <3>3. 0 = DayOf * 0 + 0 /\ 0 \in 0..DayOf - 1
            BY <1>1, SMT
        <3>4. 0 % DayOf = 0
            BY <1>1, <3>3, DivModOf
        <3>5. r + 1 = DayOf
            BY <1>1, <3>2, SMT
        <3> QED BY <1>3, <2>1, <3>4, <3>5
    <2>2. CASE now + 1 # WeekOf /\ r + 1 = DayOf
        <3>1. now + 1 = DayOf * (q + 1) + 0 /\ q + 1 \in Nat /\ 0 \in 0..DayOf - 1
            BY <1>1, <1>2, <1>4, <2>2, SMT
        <3>2. (now + 1) % DayOf = 0
            BY <1>1, <3>1, DivModOf
        <3> QED BY <1>3, <2>2, <3>2
    <2>3. CASE now + 1 # WeekOf /\ r + 1 # DayOf
        <3>1. now + 1 = DayOf * q + (r + 1) /\ r + 1 \in 0..DayOf - 1
            BY <1>1, <1>2, <1>4, <2>3, SMT
        <3>2. (now + 1) % DayOf = r + 1
            BY <1>1, <1>4, <3>1, DivModOf
        <3> QED BY <1>3, <2>3, <3>2
    <2> QED BY <2>1, <2>2, <2>3
<1>6. Place(k)' = IF Place(k) + 1 = PeriodOf(k) THEN 0 ELSE Place(k) + 1
    BY <1>3, <1>5, PeriodFacts DEF Place
<1>7. Slot(k)' = Slot(k) /\ PeriodOf(k)' = PeriodOf(k)
    BY DEF Slot, Digest!Tick, Digest!settings, PeriodOf, DayOf
<1>8. /\ Place(k) \in 0..PeriodOf(k) - 1 /\ Slot(k) \in 0..PeriodOf(k) - 1
      /\ PeriodOf(k) \in Nat \ {0}
    BY PlaceFacts, PeriodFacts
<1> QED BY <1>6, <1>7, <1>8, SMT DEF Since, IsTurn

LEMMA DigestInit == Digest!Init => DigestInv
<1> SUFFICES ASSUME Digest!Init PROVE DigestInv
    OBVIOUS
<1>1. \A k \in Kinds : lastAt[k] = NoValue /\ sent[k] = NoValue /\ gap[k] = NoValue /\ ~enabled[k] /\ steady[k] = 0
    BY DEF Digest!Init, Kinds
<1>2. 0 \in 0..WeekOf - 1 /\ 0 \in 0..WeekDays - 1 /\ 0 \in 0..MaxChanges /\ 0 \in 0..MaxFaults
    BY PeriodFacts, JobsAssumption, ConstantsAssumption, SMT
<1>3. \A k \in Kinds : 0 \in 0..Digest!Steady(k)
    BY PeriodFacts, SMT
<1>4. time \in [Kinds -> 0..DayOf - 1]
    BY PeriodFacts, JobsAssumption DEF Digest!Init
<1>5. DigestTypes
    BY <1>1, <1>2, <1>3, <1>4 DEF Digest!Init, DigestTypes, Digest!TypeOK, Kinds, DayOf, WeekOf
<1> QED BY <1>1, <1>5, Zenon DEF Digest!Init, DigestInv, RunKnows, InRhythm, Digest!NotTooSoon, Kinds

\* Counting goes on, and stops at the bound.
LEMMA LaterFacts ==
    ASSUME DigestTypes, Digest!Tick, NEW k \in Kinds
    PROVE  /\ lastAt'[k] = IF lastAt[k] = NoValue \/ lastAt[k] = Digest!Longest(k)
                           THEN lastAt[k] ELSE lastAt[k] + 1
           /\ sent'[k] = IF sent[k] = NoValue \/ sent[k] = Digest!Longest(k)
                         THEN sent[k] ELSE sent[k] + 1
           /\ steady'[k] = IF steady[k] = NoValue \/ steady[k] = Digest!Steady(k)
                           THEN steady[k] ELSE steady[k] + 1
           /\ gap'[k] = NoValue
BY DEF Digest!Tick, Kinds

LEMMA TickTypes == ASSUME DigestTypes, Digest!Tick PROVE DigestTypes'
<1>1. now' \in 0..WeekOf - 1
    <2>1. now + 1 \in Nat /\ WeekOf \in Nat \ {0}
        BY PeriodFacts DEF DigestTypes, Digest!TypeOK
    <2>2. now' = (now + 1) % WeekOf
        BY DEF Digest!Tick, WeekOf
    <2> QED BY <2>1, <2>2, DivMod
<1>2. ASSUME NEW k \in Kinds
      PROVE  /\ lastAt'[k] \in 0..Digest!Longest(k) \cup {NoValue}
             /\ sent'[k] \in 0..Digest!Longest(k) \cup {NoValue}
             /\ steady'[k] \in 0..Digest!Steady(k)
    <2>1. /\ {lastAt[k], sent[k]} \subseteq 0..Digest!Longest(k) \cup {NoValue}
          /\ steady[k] \in 0..Digest!Steady(k)
        BY DEF DigestTypes, Digest!TypeOK, Kinds
    <2>2. Digest!Longest(k) \in Nat /\ Digest!Steady(k) \in Nat /\ NoValue \notin Nat
        BY PeriodFacts, JobsAssumption, SMT
    <2> QED BY <2>1, <2>2, LaterFacts, SMT
<1>3. /\ lastAt' \in [Kinds -> Nat \cup {NoValue}] /\ sent' \in [Kinds -> Nat \cup {NoValue}]
      /\ steady' \in [Kinds -> Nat] /\ gap' = [k \in Kinds |-> NoValue]
    <2>1. \A k \in Kinds : lastAt'[k] \in Nat \cup {NoValue} /\ sent'[k] \in Nat \cup {NoValue} /\ steady'[k] \in Nat
        BY <1>2, PeriodFacts, SMT
    <2>2. /\ lastAt' = [k \in Kinds |-> lastAt'[k]] /\ sent' = [k \in Kinds |-> sent'[k]]
          /\ steady' = [k \in Kinds |-> steady'[k]] /\ gap' = [k \in Kinds |-> NoValue]
        BY DEF Digest!Tick, Kinds
    <2> QED BY <2>1, <2>2
<1>4. /\ UNCHANGED <<premium, enabled, time, weekday, job, edits, faults>> /\ ran' = FALSE
      /\ job = NoValue
    BY DEF Digest!Tick, Digest!settings
<1>5. \A k \in Kinds : gap'[k] = NoValue
    BY <1>3
<1> QED BY <1>1, <1>2, <1>3, <1>4, <1>5 DEF DigestTypes, Digest!TypeOK, Kinds, DayOf, WeekOf

\* The slot of a digest does not pass without a run, and what counts since then
\* and since the last change counts on together.
LEMMA TickInv == ASSUME DigestInv, Digest!Tick PROVE DigestInv'
<1>1. DigestTypes /\ DigestTypes'
    BY TickTypes DEF DigestInv
<1>2. job' = NoValue /\ job = NoValue /\ ran' = FALSE /\ enabled' = enabled /\ (now % 2 = 0 => ran)
    BY DEF Digest!Tick, Digest!settings
<1>3. RunKnows'
    BY <1>2 DEF RunKnows
<1>4. Digest!NotTooSoon'
    BY <1>1, LaterFacts DEF Digest!NotTooSoon, Kinds
<1>5. ASSUME NEW k \in Kinds, enabled'[k]
      PROVE  /\ lastAt'[k] # NoValue =>
                  \/ lastAt'[k] \in {Looked(k)', Digest!Longest(k)}
                  \/ lastAt'[k] >= steady'[k]
             /\ steady'[k] > Looked(k)' =>
                  /\ lastAt'[k] # NoValue
                  /\ lastAt'[k] = Looked(k)' \/ steady'[k] <= Digest!Spacing(k) + Looked(k)'
    <2> DEFINE P == PeriodOf(k)
               A == lastAt[k]
               S == steady[k]
    <2>1. /\ P \in Nat \ {0} /\ Digest!Spacing(k) \in 0..P - 1
          /\ Digest!Longest(k) = P + 1 /\ Digest!Steady(k) = 2 * P /\ PeriodOf(k)' = P
        BY PeriodFacts DEF PeriodOf
    <2>2. A \in 0..P + 1 \cup {NoValue} /\ S \in 0..2 * P /\ NoValue \notin Nat
        BY <1>1, <2>1, JobsAssumption DEF DigestTypes, Digest!TypeOK, Kinds
    <2>3. /\ lastAt'[k] = IF A = NoValue \/ A = P + 1 THEN A ELSE A + 1
          /\ steady'[k] = IF S = 2 * P THEN S ELSE S + 1
        BY <1>1, <2>1, <2>2, LaterFacts, SMT
    <2>4. Since(k) \in 0..P - 1 /\ (IsTurn(k) <=> Since(k) = 0)
        BY <1>1, SinceFacts
    <2>5. Looked(k) = Since(k)
        <3>1. IsTurn(k) => ran
            BY <1>1, <1>2, PlaceFacts
        <3> QED BY <1>2, <3>1 DEF Looked
    <2>6. Looked(k)' = Since(k) + 1
        <3>1. /\ Since(k)' = IF Since(k) + 1 = P THEN 0 ELSE Since(k) + 1
              /\ IsTurn(k)' <=> Since(k)' = 0
            BY <1>1, TickSince
        <3>2. Looked(k)' = IF IsTurn(k)' THEN P ELSE Since(k)'
            BY <1>2, <2>1 DEF Looked
        <3> QED BY <2>1, <2>4, <3>1, <3>2, SMT
    <2>7. /\ A # NoValue => A \in {Looked(k), P + 1} \/ A >= S
          /\ S > Looked(k) => A # NoValue /\ (A = Looked(k) \/ S <= Digest!Spacing(k) + Looked(k))
        BY <1>2, <1>5, <2>1 DEF DigestInv, InRhythm
    <2> HIDE DEF P, A, S
    <2> QED BY <2>1, <2>2, <2>3, <2>4, <2>5, <2>6, <2>7, SMT
<1>6. InRhythm'
    BY <1>5 DEF InRhythm, Digest!Longest, Digest!Spacing
<1> QED BY <1>1, <1>3, <1>4, <1>6 DEF DigestInv

\* Without a Tick a digest keeps its place, unless its settings change.
LEMMA SamePlace ==
    ASSUME NEW k \in Kinds, now' = now, time'[k] = time[k],
           k = "weekly" => weekday' = weekday
    PROVE  /\ Since(k)' = Since(k) /\ (IsTurn(k)' <=> IsTurn(k)) /\ PeriodOf(k)' = PeriodOf(k)
           /\ Digest!Longest(k)' = Digest!Longest(k) /\ Digest!Spacing(k)' = Digest!Spacing(k)
<1>1. Place(k)' = Place(k) /\ PeriodOf(k)' = PeriodOf(k)
    BY DEF Place, PeriodOf, DayOf
<1>2. Slot(k)' = Slot(k)
    <2>1. CASE k = "daily"
        BY <2>1 DEF Slot
    <2>2. CASE k = "weekly"
        BY <2>2 DEF Slot, DayOf
    <2> QED BY <2>1, <2>2, PeriodFacts
<1>3. Digest!Longest(k)' = Digest!Longest(k) /\ Digest!Spacing(k)' = Digest!Spacing(k)
    BY DEF Digest!Longest, Digest!Spacing
<1> QED BY <1>1, <1>2, <1>3 DEF Since, IsTurn

\* What InRhythm says of a digest holds where nothing has changed for it, and right
\* after a change.
LEMMA RhythmKept ==
    ASSUME DigestInv, DigestTypes', NEW k \in Kinds, enabled'[k],
           lastAt'[k] = lastAt[k], Looked(k)' \in Nat,
           \/ steady'[k] = 0
           \/ steady'[k] = steady[k] /\ Looked(k)' = Looked(k) /\ enabled'[k] = enabled[k]
    PROVE  /\ lastAt'[k] # NoValue =>
                \/ lastAt'[k] \in {Looked(k)', Digest!Longest(k)}
                \/ lastAt'[k] >= steady'[k]
           /\ steady'[k] > Looked(k)' =>
                /\ lastAt'[k] # NoValue
                /\ lastAt'[k] = Looked(k)' \/ steady'[k] <= Digest!Spacing(k) + Looked(k)'
<1>1. CASE steady'[k] = 0
    <2>1. lastAt'[k] # NoValue => lastAt'[k] \in Nat
        BY DEF DigestTypes
    <2> QED BY <1>1, <2>1, SMT
<1>2. CASE steady'[k] = steady[k] /\ Looked(k)' = Looked(k) /\ enabled'[k] = enabled[k]
    BY <1>2, Zenon DEF DigestInv, InRhythm
<1> QED BY <1>1, <1>2

LEMMA RunBeginsInv == ASSUME DigestInv, Digest!RunBegins PROVE DigestInv'
<1> DEFINE due == {k \in Kinds : Digest!Due(k)}
           new == [due |-> due, todo |-> due]
<1>1. /\ job = NoValue /\ ~ran /\ ran' = TRUE /\ job' = new
      /\ UNCHANGED <<now, premium, enabled, time, weekday, lastAt, edits, faults, sent, gap, steady>>
    BY DEF Digest!RunBegins, Digest!settings, Kinds
<1>2. new \in [due : SUBSET Kinds, todo : SUBSET Kinds] /\ new.due = due /\ new.todo = due
    OBVIOUS
<1>3. DigestTypes'
    BY <1>1, <1>2 DEF DigestInv, DigestTypes, Digest!TypeOK, Digest!Longest, Digest!Steady, Kinds
<1>4. job' # NoValue
    BY <1>1, <1>2, JobsAssumption, Zenon DEF Kinds
<1>5. \A k \in Kinds :
        /\ Since(k)' = Since(k) /\ (IsTurn(k)' <=> IsTurn(k)) /\ PeriodOf(k)' = PeriodOf(k)
        /\ Digest!Spacing(k)' = Digest!Spacing(k)
    BY <1>1, SamePlace
<1>6. RunKnows'
    <2>1. ASSUME NEW k \in due
          PROVE  IsTurn(k)' /\ (lastAt'[k] # NoValue => lastAt'[k] > Digest!Spacing(k)')
        BY <1>1, <1>5, PlaceFacts DEF DigestInv
    <2>2. ASSUME NEW k \in Kinds \ due, enabled'[k], IsTurn(k)'
          PROVE  lastAt'[k] # NoValue /\ lastAt'[k] <= Digest!Spacing(k)'
        <3>1. lastAt[k] # NoValue /\ ~(lastAt[k] > Digest!Spacing(k))
            BY <1>1, <1>5, <2>2, PlaceFacts DEF DigestInv
        <3>2. lastAt[k] \in Nat /\ Digest!Spacing(k) \in Nat
            BY <3>1, PeriodFacts DEF DigestInv, DigestTypes
        <3> QED BY <1>1, <1>5, <3>1, <3>2, SMT
    <2>3. job'.due = due
        BY <1>1, <1>2
    <2> HIDE DEF due, new
    <2> QED BY <1>1, <2>1, <2>2, <2>3, Zenon DEF RunKnows
<1>7. ASSUME NEW k \in Kinds PROVE Looked(k)' = Looked(k)
    BY <1>1, <1>4, <1>5 DEF Looked
<1>8. InRhythm'
    <2>1. \A k \in Kinds : Digest!Longest(k)' = Digest!Longest(k)
        BY <1>1, SamePlace
    <2> QED BY <1>1, <1>5, <1>7, <2>1, Zenon DEF DigestInv, InRhythm
<1>9. Digest!NotTooSoon'
    BY <1>1 DEF DigestInv, Digest!NotTooSoon, Digest!Spacing
<1> QED BY <1>3, <1>6, <1>8, <1>9 DEF DigestInv

LEMMA LookedNat == DigestTypes => \A k \in Kinds : Looked(k) \in Nat
BY SinceFacts, PeriodFacts

\* A failure, or a missed run: everything begins anew.
LEMMA FaultInv == ASSUME DigestInv, Digest!RunFails \/ Digest!RunMissed PROVE DigestInv'
<1>1. /\ job' = NoValue /\ steady' = [k \in Kinds |-> 0] /\ faults' = faults + 1 /\ faults < MaxFaults
      /\ UNCHANGED <<now, premium, enabled, time, weekday, lastAt, edits, sent, gap>>
      /\ ran' = ran \/ ran' = TRUE
    <2>1. CASE Digest!RunFails
        BY <2>1 DEF Digest!RunFails, Digest!settings, Kinds
    <2>2. CASE Digest!RunMissed
        <3>1. job = NoValue
            BY <2>2 DEF DigestInv, RunKnows, Digest!RunMissed
        <3> QED BY <2>2, <3>1 DEF Digest!RunMissed, Digest!settings, Kinds
    <2> QED BY <2>1, <2>2
<1>2. \A k \in Kinds : steady'[k] = 0 /\ 0 \in 0..Digest!Steady(k)
    BY <1>1, PeriodFacts, SMT
<1>3. DigestTypes'
    <2>1. faults' \in 0..MaxFaults
        BY <1>1, ConstantsAssumption, SMT DEF DigestInv, DigestTypes, Digest!TypeOK
    <2> QED BY <1>1, <1>2, <2>1
            DEF DigestInv, DigestTypes, Digest!TypeOK, Digest!Longest, Digest!Steady, Kinds
<1>4. \A k \in Kinds : Looked(k)' \in Nat
    <2>1. (DigestTypes => \A k \in Kinds : Looked(k) \in Nat)'
        BY LookedNat, PTL
    <2> QED BY <1>3, <2>1 DEF Kinds
<1>5. ASSUME NEW k \in Kinds, enabled'[k]
      PROVE  /\ lastAt'[k] # NoValue =>
                  \/ lastAt'[k] \in {Looked(k)', Digest!Longest(k)}
                  \/ lastAt'[k] >= steady'[k]
             /\ steady'[k] > Looked(k)' =>
                  /\ lastAt'[k] # NoValue
                  /\ lastAt'[k] = Looked(k)' \/ steady'[k] <= Digest!Spacing(k) + Looked(k)'
    BY <1>1, <1>2, <1>3, <1>4, <1>5, RhythmKept
<1>6. InRhythm'
    BY <1>5 DEF InRhythm, Digest!Longest, Digest!Spacing, Kinds
<1>7. RunKnows' /\ Digest!NotTooSoon'
    BY <1>1 DEF RunKnows, DigestInv, Digest!NotTooSoon, Digest!Spacing
<1> QED BY <1>3, <1>6, <1>7 DEF DigestInv

\* The settings: digests begin anew, or nothing changes for them.
LEMMA ChangeInv ==
    ASSUME DigestInv, DigestTypes', UNCHANGED <<now, lastAt, job, ran, gap>>,
           \A k \in Kinds :
             \/ steady'[k] = 0
             \/ /\ steady'[k] = steady[k] /\ enabled'[k] = enabled[k] /\ time'[k] = time[k]
                /\ k = "weekly" => weekday' = weekday
    PROVE  DigestInv'
<1> DEFINE Same(k) == /\ steady'[k] = steady[k] /\ enabled'[k] = enabled[k] /\ time'[k] = time[k]
                      /\ k = "weekly" => weekday' = weekday
<1>1. ASSUME NEW k \in Kinds, Same(k)
      PROVE  (IsTurn(k)' <=> IsTurn(k)) /\ Looked(k)' = Looked(k)
    <2>1. Since(k)' = Since(k) /\ (IsTurn(k)' <=> IsTurn(k)) /\ PeriodOf(k)' = PeriodOf(k)
        BY <1>1, SamePlace
    <2> QED BY <2>1 DEF Looked
<1>2. \A k \in Kinds : Looked(k)' \in Nat
    <2>1. (DigestTypes => \A k \in Kinds : Looked(k) \in Nat)'
        BY LookedNat, PTL
    <2> QED BY <2>1 DEF Kinds
<1>3. ASSUME NEW k \in Kinds, enabled'[k]
      PROVE  /\ lastAt'[k] # NoValue =>
                  \/ lastAt'[k] \in {Looked(k)', Digest!Longest(k)}
                  \/ lastAt'[k] >= steady'[k]
             /\ steady'[k] > Looked(k)' =>
                  /\ lastAt'[k] # NoValue
                  /\ lastAt'[k] = Looked(k)' \/ steady'[k] <= Digest!Spacing(k) + Looked(k)'
    BY <1>1, <1>2, <1>3, RhythmKept
<1>4. InRhythm'
    BY <1>3 DEF InRhythm, Digest!Longest, Digest!Spacing, Kinds
<1>5. RunKnows'
    <2> SUFFICES ASSUME job # NoValue
                 PROVE  /\ ran
                        /\ \A k \in job.due : /\ lastAt[k] # NoValue => lastAt[k] > Digest!Spacing(k)
                                              /\ IsTurn(k)' \/ steady'[k] = 0
                        /\ \A k \in Kinds \ job.due :
                             enabled'[k] /\ IsTurn(k)' /\ steady'[k] # 0 =>
                               lastAt[k] # NoValue /\ lastAt[k] <= Digest!Spacing(k)
        BY DEF RunKnows, Kinds, Digest!Spacing
    <2>1. job.due \subseteq Kinds
        BY DEF DigestInv, DigestTypes
    <2>2. ran /\ \A k \in job.due : /\ lastAt[k] # NoValue => lastAt[k] > Digest!Spacing(k)
                                    /\ IsTurn(k) \/ steady[k] = 0
        BY DEF DigestInv, RunKnows
    <2>3. \A k \in Kinds \ job.due :
            enabled[k] /\ IsTurn(k) /\ steady[k] # 0 => lastAt[k] # NoValue /\ lastAt[k] <= Digest!Spacing(k)
        BY DEF DigestInv, RunKnows
    <2>4. \A k \in Kinds : steady'[k] = 0 \/ (Same(k) /\ (IsTurn(k)' <=> IsTurn(k)))
        BY <1>1
    <2> QED BY <2>1, <2>2, <2>3, <2>4, Zenon
<1>6. Digest!NotTooSoon'
    BY DEF DigestInv, Digest!NotTooSoon, Digest!Spacing
<1> QED BY <1>4, <1>5, <1>6 DEF DigestInv

LEMMA EditInv ==
    ASSUME DigestInv,
           \/ Digest!digest_disable_all \/ Digest!PremiumChanges
           \/ \E k \in Kinds : Digest!digest_toggle(k) \/ \E t \in TimeChoices : Digest!digest_time_save(k, t)
           \/ \E d \in 0..WeekDays - 1 : Digest!digest_weekday_save(d)
    PROVE  DigestInv'
<1>1. DigestTypes /\ MaxChanges \in Nat /\ TimeChoices \subseteq 0..DayOf - 1
    BY JobsAssumption, PeriodFacts DEF DigestInv
<1>2. \A k \in Kinds : 0 \in 0..Digest!Steady(k)
    BY PeriodFacts, SMT
\* What is left to show of an edit of these kinds.
<1>3. ASSUME NEW kinds, Digest!Edit(kinds),
             enabled' \in [Kinds -> BOOLEAN], time' \in [Kinds -> 0..DayOf - 1], weekday' \in 0..WeekDays - 1,
             \A k \in Kinds \ kinds : enabled'[k] = enabled[k] /\ time'[k] = time[k],
             "weekly" \notin kinds => weekday' = weekday
      PROVE  DigestInv'
    <2>1. /\ edits < MaxChanges /\ edits' = edits + 1
          /\ steady' = [k \in Kinds |-> IF k \in kinds THEN 0 ELSE steady[k]]
          /\ UNCHANGED <<now, premium, lastAt, job, ran, faults, sent, gap>>
        BY <1>3 DEF Digest!Edit, Kinds
    <2>2. \A k \in Kinds : steady'[k] = IF k \in kinds THEN 0 ELSE steady[k]
        BY <2>1
    <2>3. edits' \in 0..MaxChanges
        BY <1>1, <2>1, SMT DEF DigestTypes, Digest!TypeOK
    <2>4. steady' \in [Kinds -> Nat] /\ \A k \in Kinds : steady'[k] \in 0..Digest!Steady(k)
        BY <1>1, <1>2, <2>1, <2>2 DEF DigestTypes, Digest!TypeOK, Kinds
    <2>5. DigestTypes'
        BY <1>1, <1>3, <2>1, <2>3, <2>4
           DEF DigestTypes, Digest!TypeOK, Digest!Longest, Digest!Steady, Kinds, DayOf
    <2> QED BY <1>3, <2>1, <2>2, <2>5, ChangeInv
<1>4. /\ enabled \in [Kinds -> BOOLEAN] /\ time \in [Kinds -> 0..DayOf - 1] /\ weekday \in 0..WeekDays - 1
    BY <1>1 DEF DigestTypes, Digest!TypeOK, Kinds, DayOf
<1>5. CASE Digest!digest_disable_all
    <2>1. Digest!Edit(Kinds) /\ enabled' = [k \in Kinds |-> FALSE] /\ UNCHANGED <<time, weekday>>
        BY <1>5 DEF Digest!digest_disable_all, Kinds
    <2>2. "weekly" \in Kinds
        BY PeriodFacts
    <2> QED BY <1>3, <1>4, <2>1, <2>2
<1>6. CASE Digest!PremiumChanges
    <2>1. /\ edits < MaxChanges /\ edits' = edits + 1 /\ premium' = ~premium
          /\ UNCHANGED <<now, enabled, time, weekday, lastAt, job, ran, faults, sent, gap, steady>>
        BY <1>6 DEF Digest!PremiumChanges, Digest!settings
    <2>2. edits' \in 0..MaxChanges
        BY <1>1, <2>1, SMT DEF DigestTypes, Digest!TypeOK
    <2>3. DigestTypes'
        BY <1>1, <2>1, <2>2 DEF DigestTypes, Digest!TypeOK, Digest!Longest, Digest!Steady
    <2> QED BY <2>1, <2>3, ChangeInv
<1>7. ASSUME NEW k \in Kinds, Digest!digest_toggle(k) PROVE DigestInv'
    <2>1. Digest!Edit({k}) /\ enabled' = [enabled EXCEPT ![k] = ~@] /\ UNCHANGED <<time, weekday>>
        BY <1>7 DEF Digest!digest_toggle
    <2>2. enabled' \in [Kinds -> BOOLEAN] /\ \A j \in Kinds \ {k} : enabled'[j] = enabled[j]
        BY <1>4, <2>1
    <2> QED BY <1>3, <1>4, <2>1, <2>2
<1>8. ASSUME NEW k \in Kinds, NEW t \in TimeChoices, Digest!digest_time_save(k, t) PROVE DigestInv'
    <2>1. /\ Digest!Edit({k}) /\ time' = [time EXCEPT ![k] = t]
          /\ enabled' = [enabled EXCEPT ![k] = TRUE] /\ weekday' = weekday
        BY <1>8 DEF Digest!digest_time_save
    <2>2. /\ enabled' \in [Kinds -> BOOLEAN] /\ time' \in [Kinds -> 0..DayOf - 1]
          /\ \A j \in Kinds \ {k} : enabled'[j] = enabled[j] /\ time'[j] = time[j]
        BY <1>1, <1>4, <2>1
    <2> QED BY <1>3, <1>4, <2>1, <2>2
<1>9. ASSUME NEW d \in 0..WeekDays - 1, Digest!digest_weekday_save(d) PROVE DigestInv'
    <2>1. Digest!Edit({"weekly"}) /\ weekday' = d /\ UNCHANGED <<enabled, time>>
        BY <1>9 DEF Digest!digest_weekday_save
    <2> QED BY <1>3, <1>4, <2>1
<1> QED BY <1>5, <1>6, <1>7, <1>8, <1>9

\* A digest of a run follows the last one by the spacing, if the last one is known.
LEMMA SendInv == ASSUME DigestInv, NEW k \in Kinds, Digest!Send(k) PROVE DigestInv'
<1>1. /\ job # NoValue /\ k \in job.todo /\ job' = [job EXCEPT !.todo = @ \ {k}]
      /\ \/ /\ sent' = [sent EXCEPT ![k] = 0]
            /\ gap' = [gap EXCEPT ![k] = IF sent[k] = lastAt[k] THEN sent[k] ELSE NoValue]
         \/ UNCHANGED <<sent, gap>>
      /\ UNCHANGED <<now, premium, enabled, time, weekday, lastAt, ran, edits, faults, steady>>
    BY DEF Digest!Send, Digest!settings
<1>2. job \in [due : SUBSET Kinds, todo : SUBSET Kinds] /\ job.todo \subseteq job.due
    BY <1>1 DEF DigestInv, DigestTypes, Digest!TypeOK
<1>3. /\ job' \in [due : SUBSET Kinds, todo : SUBSET Kinds]
      /\ job'.due = job.due /\ job'.todo \subseteq job.due
    BY <1>1, <1>2
<1>4. job' # NoValue
    BY <1>3, JobsAssumption, Zenon DEF Kinds
<1>5. ASSUME NEW j \in Kinds
      PROVE  /\ sent'[j] \in 0..Digest!Longest(j) \cup {NoValue} /\ sent'[j] \in Nat \cup {NoValue}
             /\ gap'[j] \in 0..Digest!Longest(j) \cup {NoValue} /\ gap'[j] \in Nat \cup {NoValue}
             /\ gap'[j] # NoValue => gap'[j] > Digest!Spacing(j)
    <2>1. /\ {sent[j], gap[j]} \subseteq 0..Digest!Longest(j) \cup {NoValue}
          /\ sent \in [Kinds -> Nat \cup {NoValue}] /\ gap \in [Kinds -> Nat \cup {NoValue}]
          /\ 0 \in 0..Digest!Longest(j)
        BY PeriodFacts DEF DigestInv, DigestTypes, Digest!TypeOK, Kinds
    <2>2. gap[j] # NoValue => gap[j] > Digest!Spacing(j)
        BY DEF DigestInv, Digest!NotTooSoon, Kinds
    <2>3. j = k => (lastAt[j] # NoValue => lastAt[j] > Digest!Spacing(j))
        BY <1>1, <1>2 DEF DigestInv, RunKnows
    <2> QED BY <1>1, <2>1, <2>2, <2>3
<1>6. sent' \in [Kinds -> Nat \cup {NoValue}] /\ gap' \in [Kinds -> Nat \cup {NoValue}]
    BY <1>1, <1>5 DEF DigestInv, DigestTypes
<1>7. DigestTypes'
    BY <1>1, <1>3, <1>5, <1>6 DEF DigestInv, DigestTypes, Digest!TypeOK, Digest!Longest, Digest!Steady, Kinds
<1>8. \A j \in Kinds :
        /\ Since(j)' = Since(j) /\ (IsTurn(j)' <=> IsTurn(j)) /\ PeriodOf(j)' = PeriodOf(j)
        /\ Digest!Longest(j)' = Digest!Longest(j) /\ Digest!Spacing(j)' = Digest!Spacing(j)
    BY <1>1, SamePlace
<1>9. \A j \in Kinds : Looked(j)' = Looked(j)
    BY <1>1, <1>4, <1>8 DEF Looked
<1>10. RunKnows'
    BY <1>1, <1>2, <1>3, <1>8, Zenon DEF DigestInv, RunKnows
<1>11. InRhythm'
    BY <1>1, <1>8, <1>9, Zenon DEF DigestInv, InRhythm
<1>12. Digest!NotTooSoon'
    BY <1>5 DEF Digest!NotTooSoon, Digest!Spacing, Kinds
<1> QED BY <1>7, <1>10, <1>11, <1>12 DEF DigestInv

\* The run has looked at every digest in its slot: it has remembered it now, or
\* found it sent within the spacing.
LEMMA CommitInv == ASSUME DigestInv, Digest!Commit PROVE DigestInv'
<1>1. /\ job # NoValue /\ job' = NoValue
      /\ lastAt' = [k \in Kinds |-> IF k \in job.due THEN 0 ELSE lastAt[k]]
      /\ UNCHANGED <<now, premium, enabled, time, weekday, ran, edits, faults, sent, gap, steady>>
    BY DEF Digest!Commit, Digest!settings, Kinds
<1>2. ran
    BY <1>1 DEF DigestInv, RunKnows
<1>3. \A k \in Kinds : lastAt'[k] = IF k \in job.due THEN 0 ELSE lastAt[k]
    BY <1>1
<1>4. DigestTypes'
    <2>1. \A k \in Kinds : lastAt'[k] \in 0..Digest!Longest(k) \cup {NoValue}
        BY <1>3, PeriodFacts, SMT DEF DigestInv, DigestTypes, Digest!TypeOK, Kinds
    <2>2. lastAt' \in [Kinds -> Nat \cup {NoValue}]
        BY <1>1 DEF DigestInv, DigestTypes
    <2> QED BY <1>1, <2>1, <2>2 DEF DigestInv, DigestTypes, Digest!TypeOK, Digest!Longest, Digest!Steady, Kinds
<1>5. ASSUME NEW k \in Kinds, enabled'[k]
      PROVE  /\ lastAt'[k] # NoValue =>
                  \/ lastAt'[k] \in {Looked(k)', Digest!Longest(k)}
                  \/ lastAt'[k] >= steady'[k]
             /\ steady'[k] > Looked(k)' =>
                  /\ lastAt'[k] # NoValue
                  /\ lastAt'[k] = Looked(k)' \/ steady'[k] <= Digest!Spacing(k) + Looked(k)'
    <2> DEFINE P == PeriodOf(k)
    <2>1. /\ P \in Nat \ {0} /\ Digest!Spacing(k) \in 0..P - 1 /\ Digest!Longest(k) = P + 1
          /\ Since(k) \in 0..P - 1 /\ (IsTurn(k) <=> Since(k) = 0)
        BY PeriodFacts, SinceFacts DEF DigestInv
    <2>2. Looked(k) = (IF IsTurn(k) THEN P ELSE Since(k)) /\ Looked(k)' = Since(k)
        <3>1. Since(k)' = Since(k) /\ (IsTurn(k)' <=> IsTurn(k)) /\ PeriodOf(k)' = PeriodOf(k)
            BY <1>1, SamePlace
        <3> QED BY <1>1, <1>2, <3>1 DEF Looked
    <2>3. lastAt[k] \in Nat \cup {NoValue} /\ steady[k] \in Nat /\ steady'[k] = steady[k] /\ NoValue \notin Nat
        BY <1>1, JobsAssumption DEF DigestInv, DigestTypes
    <2>4. /\ lastAt[k] # NoValue => lastAt[k] \in {Looked(k), P + 1} \/ lastAt[k] >= steady[k]
          /\ steady[k] > Looked(k) =>
               lastAt[k] # NoValue /\ (lastAt[k] = Looked(k) \/ steady[k] <= Digest!Spacing(k) + Looked(k))
        BY <1>1, <1>5, <2>1 DEF DigestInv, InRhythm
    <2>5. /\ k \in job.due => IsTurn(k) \/ steady[k] = 0
          /\ k \notin job.due /\ IsTurn(k) /\ steady[k] # 0 =>
               lastAt[k] # NoValue /\ lastAt[k] <= Digest!Spacing(k)
        BY <1>1, <1>5 DEF DigestInv, RunKnows
    <2>6. lastAt'[k] = IF k \in job.due THEN 0 ELSE lastAt[k]
        BY <1>3
    <2> HIDE DEF P
    <2>7. CASE k \in job.due
        BY <2>1, <2>2, <2>3, <2>5, <2>6, <2>7, SMT
    <2>8. CASE k \notin job.due /\ IsTurn(k)
        BY <2>1, <2>2, <2>3, <2>4, <2>5, <2>6, <2>8, SMT
    <2>9. CASE k \notin job.due /\ ~IsTurn(k)
        BY <2>1, <2>2, <2>3, <2>4, <2>6, <2>9, SMT
    <2> QED BY <2>7, <2>8, <2>9
<1>6. InRhythm'
    BY <1>5 DEF InRhythm, Digest!Longest, Digest!Spacing, Kinds
<1>7. RunKnows' /\ Digest!NotTooSoon'
    BY <1>1 DEF RunKnows, DigestInv, Digest!NotTooSoon, Digest!Spacing
<1> QED BY <1>4, <1>6, <1>7 DEF DigestInv

LEMMA DigestNext == DigestInv /\ [Digest!Next]_(Digest!vars) => DigestInv'
<1> SUFFICES ASSUME DigestInv, [Digest!Next]_(Digest!vars) PROVE DigestInv'
    OBVIOUS
<1>1. CASE UNCHANGED Digest!vars
    <2>1. UNCHANGED <<now, premium, enabled, time, weekday, lastAt, job, ran, edits, faults, sent, gap, steady>>
        BY <1>1 DEF Digest!vars, Digest!settings
    <2>2. DigestTypes'
        BY <2>1 DEF DigestInv, DigestTypes, Digest!TypeOK, Digest!Longest, Digest!Steady
    <2> QED BY <2>1, <2>2, ChangeInv
<1>2. CASE Digest!Next
    BY <1>2, TickInv, RunBeginsInv, CommitInv, FaultInv, EditInv, SendInv, Zenon DEF Digest!Next, Kinds
<1> QED BY <1>1, <1>2

LEMMA DigestInvTells == DigestInv => Digest!TypeOK /\ Digest!DigestsKeepTime
<1> SUFFICES ASSUME DigestInv PROVE Digest!TypeOK /\ Digest!NotTooSoon /\ Digest!NotTooLate
    BY DEF Digest!DigestsKeepTime
<1>1. ASSUME NEW k \in Kinds, enabled[k], steady[k] = Digest!Steady(k)
      PROVE  lastAt[k] # NoValue /\ lastAt[k] <= Digest!Period[k]
    <2>1. /\ PeriodOf(k) \in Nat \ {0} /\ Digest!Spacing(k) \in 0..PeriodOf(k) - 1
          /\ Digest!Steady(k) = 2 * PeriodOf(k) /\ Looked(k) \in 0..PeriodOf(k)
        BY PeriodFacts, SinceFacts DEF DigestInv
    <2>2. steady[k] > Looked(k) =>
            lastAt[k] # NoValue /\ (lastAt[k] = Looked(k) \/ steady[k] <= Digest!Spacing(k) + Looked(k))
        BY <1>1 DEF DigestInv, InRhythm
    <2>3. lastAt[k] # NoValue /\ lastAt[k] <= PeriodOf(k)
        BY <1>1, <2>1, <2>2, SMT
    <2> QED BY <2>3 DEF PeriodOf
<1> QED BY <1>1 DEF DigestInv, DigestTypes, Digest!NotTooLate, Kinds

-----------------------------------------------------------------------------
(* Histories.  Induction over the moments goes by the least of them.       *)

\* A set of natural numbers has a least one.
LEMMA LeastOf ==
    ASSUME NEW S, S \subseteq Nat, S # {}
    PROVE  \E n \in S : \A m \in S : n <= m
<1> DEFINE R == OpToRel(<, Nat)
<1>1. IsWellFoundedOn(R, Nat)
    BY NatLessThanWellFounded
<1>2. R = {pair \in Nat \X Nat : pair[1] < pair[2]}
    BY Zenon DEF OpToRel
<1> HIDE DEF R
<1>3. PICK x \in S : \A y \in S : ~(<<y, x>> \in R)
    BY <1>1, WFMin
<1>4. ASSUME NEW m \in S PROVE x <= m
    <2>1. m \in Nat /\ x \in Nat
        OBVIOUS
    <2>2. ~(<<m, x>> \in R)
        BY <1>3
    <2> QED BY <1>2, <2>1, <2>2
<1> QED BY <1>4

\* What is latest in a set of moments.
LEMMA LatestOf ==
    ASSUME NEW n \in Nat, NEW S, S \subseteq 0..n, S # {}
    PROVE  History!Latest(S) \in S /\ \A u \in S : u <= History!Latest(S)
<1> DEFINE Rest == {n - s : s \in S}
<1>1. Rest \subseteq Nat /\ Rest # {}
    <2>1. \A s \in S : n - s \in Nat
        BY SMT
    <2> QED BY <2>1, Zenon
<1>2. PICK r \in Rest : \A m \in Rest : r <= m
    BY <1>1, LeastOf
<1>3. PICK s \in S : r = n - s
    OBVIOUS
<1>4. \A u \in S : u <= s
    <2> TAKE u \in S
    <2>1. n - s <= n - u
        BY <1>2, <1>3
    <2> QED BY <2>1, SMT
<1>5. \E t \in S : \A u \in S : u <= t
    BY <1>4
<1> QED BY <1>5, Zenon DEF History!Latest

LEMMA LatestIs ==
    ASSUME NEW n \in Nat, NEW S, S \subseteq 0..n, NEW t \in S, \A u \in S : u <= t
    PROVE  History!Latest(S) = t
<1> DEFINE l == History!Latest(S)
<1>1. l \in S /\ t <= l
    BY LatestOf, Zenon
<1> HIDE DEF l
<1>2. l <= t /\ l \in 0..n /\ t \in 0..n
    BY <1>1
<1>3. l = t
    BY <1>1, <1>2, SMT
<1> QED BY <1>3 DEF l

\* A price holds until it changes.
LEMMA Holds ==
    ASSUME NEW p, NEW a \in Nat, NEW b \in Nat, a <= b,
           \A k \in a + 1..b : p[k] = p[k - 1]
    PROVE  p[b] = p[a]
<1> SUFFICES ASSUME p[b] # p[a] PROVE FALSE
    OBVIOUS
<1> DEFINE Other == {k \in a..b : p[k] # p[a]}
<1>1. b \in Other /\ Other \subseteq Nat
    BY SMT
<1>2. PICK k \in Other : \A m \in Other : k <= m
    BY <1>1, LeastOf
<1>3. k \in a..b /\ p[k] # p[a]
    OBVIOUS
<1> HIDE DEF Other
<1>4. k \in a + 1..b /\ k - 1 \in a..b
    BY <1>3, SMT
<1>5. k - 1 \notin Other
    BY <1>2, <1>4, SMT
<1>6. p[k - 1] = p[a]
    BY <1>4, <1>5 DEF Other
<1> QED BY <1>3, <1>4, <1>6

\* The points of a history up to a moment, and Tells for the prices p.
Until(D, t) == {u \in D : u <= t}
TellsOf(points, t, p) ==
    LET until == Until(DOMAIN points, t)
    IN until # {} /\ points[History!Latest(until)] = p[t]

LEMMA LatestUntil ==
    ASSUME NEW n \in Nat, NEW D, D \subseteq 0..n, NEW t, Until(D, t) # {}
    PROVE  LET d == History!Latest(Until(D, t))
           IN d \in D /\ d <= t /\ \A u \in D : u <= t => u <= d
<1> DEFINE until == Until(D, t)
           d == History!Latest(until)
<1>1. until \subseteq 0..n /\ until # {}
    BY DEF Until
<1> HIDE DEF until
<1>2. d \in until /\ \A u \in until : u <= d
    BY <1>1, LatestOf, Zenon
<1> HIDE DEF d
<1>3. d \in D /\ d <= t /\ \A u \in D : u <= t => u <= d
    BY <1>2, Zenon DEF until, Until
<1> QED BY <1>3, Zenon DEF d, until

LEMMA TellsIs ==
    ASSUME NEW points, NEW t PROVE History!Tells(points, t) <=> TellsOf(points, t, past)
BY Zenon DEF History!Tells, TellsOf, Until

\* _collapse leaves the price of every moment as it was.
LEMMA CollapsedTells ==
    ASSUME NEW n \in Nat, NEW points, DOMAIN points \subseteq 0..n, NEW p,
           NEW t \in Nat, TellsOf(points, t, p)
    PROVE  TellsOf(History!Collapsed(points), t, p)
<1> DEFINE D == DOMAIN points
           K == DOMAIN History!Collapsed(points)
<1>1. K = {u \in D : LET earlier == History!Before(u, D)
                     IN earlier = {} \/ points[History!Latest(earlier)] # points[u]}
    BY Zenon DEF History!Collapsed, History!At
<1>2. \A u \in K : History!Collapsed(points)[u] = points[u]
    BY Zenon DEF History!Collapsed, History!At
<1>3. K \subseteq D /\ D \subseteq 0..n /\ D \subseteq Nat
    BY <1>1, SMT
<1>4. Until(D, t) # {} /\ points[History!Latest(Until(D, t))] = p[t]
    BY Zenon DEF TellsOf
<1> HIDE DEF D, K
<1>5. PICK first \in D : \A u \in D : first <= u
    BY <1>3, <1>4, LeastOf DEF Until
<1>6. first \in K /\ first <= t
    <2>0. \A u \in D : ~(u < first)
        BY <1>3, <1>5, SMT
    <2>1. History!Before(first, D) = {}
        BY <2>0, Zenon DEF History!Before
    <2>2. PICK u \in D : u <= t
        BY <1>4 DEF Until
    <2> QED BY <1>1, <1>3, <1>5, <2>1, <2>2, SMT
<1> DEFINE c == History!Latest(Until(K, t))
           d == History!Latest(Until(D, t))
<1>7. c \in K /\ c <= t /\ \A u \in K : u <= t => u <= c
    <2>1. K \subseteq 0..n /\ Until(K, t) # {}
        BY <1>3, <1>6 DEF Until
    <2> QED BY <2>1, LatestUntil, Zenon
<1>8. d \in D /\ d <= t /\ \A u \in D : u <= t => u <= d
    BY <1>3, <1>4, LatestUntil, Zenon
<1> HIDE DEF c, d
<1>9. points[d] = points[c]
    <2> SUFFICES ASSUME points[d] # points[c] PROVE FALSE
        OBVIOUS
    <2> DEFINE Other == {u \in D : c <= u /\ u <= t /\ points[u] # points[c]}
    <2>1. d \in Other /\ Other \subseteq Nat
        BY <1>3, <1>7, <1>8
    <2>2. PICK u \in Other : \A m \in Other : u <= m
        BY <2>1, LeastOf
    <2>3. u \in D /\ c <= u /\ u <= t /\ points[u] # points[c] /\ c # u
        OBVIOUS
    <2>4. u \notin K /\ c < u
        BY <1>3, <1>7, <2>3, SMT
    <2> DEFINE earlier == History!Before(u, D)
               before == History!Latest(earlier)
    <2>5. points[before] = points[u]
        BY <1>1, <2>3, <2>4, Zenon
    <2>6. c \in earlier /\ earlier \subseteq 0..n
        BY <1>3, <1>7, <2>4 DEF History!Before
    <2>7. before \in earlier /\ c <= before
        BY <2>6, LatestOf, Zenon
    <2>8. before \in D /\ before < u
        BY <2>7, Zenon DEF History!Before
    <2> HIDE DEF earlier, before
    <2>9. before \in Nat /\ u \in Nat /\ before <= t
        BY <1>3, <2>3, <2>8, SMT
    <2>10. before \notin Other
        BY <2>2, <2>8, <2>9, SMT
    <2> QED BY <2>3, <2>5, <2>7, <2>8, <2>9, <2>10
<1>10. Until(K, t) # {}
    BY <1>7 DEF Until
<1>11. History!Collapsed(points)[c] = p[t]
    BY <1>2, <1>4, <1>7, <1>9, Zenon DEF d
<1> QED BY <1>10, <1>11, Zenon DEF TellsOf, c, K

\* _filter leaves the price of every moment of the period as it was.
LEMMA FilteredTells ==
    ASSUME NEW n \in Nat, NEW points, DOMAIN points \subseteq 0..n, NEW p,
           NEW from \in Int, NEW t \in Nat, t >= from, TellsOf(points, t, p)
    PROVE  TellsOf(History!Filtered(points, from), t, p)
<1> DEFINE D == DOMAIN points
           earlier == History!Before(from, D)
           within == D \ earlier
           cut == [u \in within \cup {from} |->
                      IF u \in within THEN points[u] ELSE points[History!Latest(earlier)]]
<1>1. CASE earlier = {}
    BY <1>1, Zenon DEF History!Filtered
<1>2. CASE earlier # {}
    <2>1. History!Filtered(points, from) = cut
        BY <1>2, Zenon DEF History!Filtered
    <2>2. DOMAIN cut = within \cup {from}
        OBVIOUS
    <2>3. \A u \in within : cut[u] = points[u]
        OBVIOUS
    <2>4. from \notin within => cut[from] = points[History!Latest(earlier)]
        OBVIOUS
    <2>5. Until(D, t) # {} /\ points[History!Latest(Until(D, t))] = p[t]
        BY Zenon DEF TellsOf
    <2>6. earlier = {u \in D : u < from} /\ within = {u \in D : u >= from} /\ from \in Nat
        BY <1>2, SMT DEF History!Before
    <2> HIDE DEF cut, earlier, within
    <2> DEFINE d == History!Latest(Until(D, t))
    <2>7. d \in D /\ d <= t /\ \A u \in D : u <= t => u <= d
        BY <2>5, LatestUntil, Zenon
    <2> HIDE DEF d
    <2>8. D \subseteq Nat
        BY SMT
    <2>9. Until(DOMAIN cut, t) \subseteq 0..t /\ from \in Until(DOMAIN cut, t)
        BY <2>2, <2>6, <2>8 DEF Until
    <2> HIDE DEF D
    <2>10. CASE d >= from
        <3>1. d \in within /\ d \in Until(DOMAIN cut, t)
            BY <2>2, <2>6, <2>7, <2>10 DEF Until
        <3>2. \A u \in Until(DOMAIN cut, t) : u <= d
            BY <2>2, <2>6, <2>7, <2>10 DEF Until
        <3>3. History!Latest(Until(DOMAIN cut, t)) = d
            BY <2>9, <3>1, <3>2, LatestIs
        <3>4. cut[d] = p[t]
            BY <2>3, <2>5, <3>1, Zenon DEF d, D
        <3> QED BY <2>1, <2>9, <3>3, <3>4, Zenon DEF TellsOf
    <2>11. CASE d < from
        <3>1. \A u \in D : u <= t => u < from
            BY <2>7, <2>8, <2>11, SMT
        <3>2. Until(D, t) = earlier
            <4>1. \A u \in D : u <= t <=> u < from
                BY <2>6, <2>8, <3>1, SMT
            <4> QED BY <2>6, <4>1, Zenon DEF Until
        <3>3. from \notin within /\ \A u \in Until(DOMAIN cut, t) : u <= from
            <4>1. \A u \in within : ~(u <= t)
                BY <2>6, <2>8, <3>1, SMT
            <4>2. from <= t /\ from <= from
                BY <2>6, SMT
            <4> QED BY <2>2, <4>1, <4>2, Zenon DEF Until
        <3>4. History!Latest(Until(DOMAIN cut, t)) = from
            BY <2>9, <3>3, LatestIs
        <3>5. cut[from] = p[t]
            BY <2>4, <2>5, <3>2, <3>3, Zenon DEF D
        <3> QED BY <2>1, <2>9, <3>4, <3>5, Zenon DEF TellsOf
    <2>12. d >= from \/ d < from
        BY <2>7, <2>8, SMT
    <2> QED BY <2>10, <2>11, <2>12
<1> QED BY <1>1, <1>2

\* What a copy knows, it tells truly.
Points == UNION {[D -> PastPrices] : D \in SUBSET History!Moments}

Known(h) ==
    /\ DOMAIN h.points \subseteq h.knows /\ h.knows \subseteq 0..clock
    /\ \A t \in h.knows : TellsOf(h.points, t, past)

Cached == [points : Points, knows : SUBSET History!Moments, kept : 0..HistoryTtl - 1]
StoredCopies == [points : Points, knows : SUBSET History!Moments]
Askings ==
    [step : {"asking", "fetched", "saved", "failed"}, period : Periods,
     points : Points, knows : SUBSET History!Moments]

\* HistoryIsTrue looks at answers only; the invariant says it of every copy an
\* answer may come from, with the age of the copy in redis.
HistoryTypes ==
    /\ clock \in History!Moments /\ past \in [0..clock -> PastPrices] /\ seen \subseteq 0..clock
    /\ cached # NoValue => cached \in Cached
    /\ stored # NoValue => stored \in StoredCopies
    /\ asking # NoValue => asking \in Askings

CachedKnown ==
    cached # NoValue => Known(cached) /\ \E t \in cached.knows : t >= clock - cached.kept

AskingKnown ==
    asking # NoValue => /\ Known(asking)
                        /\ asking.step \in {"fetched", "saved"} => clock \in asking.knows

AnswerKnown ==
    answer # NoValue =>
      /\ answer.knows \subseteq 0..clock
      /\ \A t \in answer.knows : t >= answer.from => TellsOf(answer.points, t, past)
      /\ answer.stale \/ answer.own \/ \E t \in answer.knows : t > answer.at - HistoryTtl

HistoryInv ==
    HistoryTypes /\ CachedKnown /\ (stored # NoValue => Known(stored)) /\ AskingKnown /\ AnswerKnown

LEMMA HistoryFacts ==
    HistoryTtl \in Nat \ {0} /\ Last \in Nat /\ Periods \subseteq Nat \cup {NoValue} /\ NoValue \notin Nat
BY JobsAssumption

LEMMA ClockFacts ==
    ASSUME HistoryTypes PROVE clock \in Nat /\ clock <= Last /\ 0..clock \subseteq History!Moments
BY HistoryFacts DEF HistoryTypes, History!Moments

LEMMA HistoryInit == History!Init => HistoryInv
BY HistoryFacts DEF History!Init, HistoryInv, HistoryTypes, CachedKnown, AskingKnown, AnswerKnown,
       History!Moments

\* What is told and known stays so while neither the prices nor the clock move.
LEMMA KnownKept ==
    ASSUME UNCHANGED <<clock, past>>, NEW h, Known(h)
    PROVE  /\ DOMAIN h.points \subseteq h.knows /\ h.knows \subseteq 0..clock'
           /\ \A t \in h.knows : TellsOf(h.points, t, past')
BY Zenon DEF Known

\* An answer from what is known is true.
LEMMA AnswersKnown ==
    ASSUME HistoryTypes, UNCHANGED <<clock, past>>, NEW h, Known(h),
           NEW period \in Periods, NEW stale \in BOOLEAN, NEW own \in BOOLEAN,
           stale \/ own \/ \E t \in h.knows : t > clock - HistoryTtl,
           History!Answers(h, period, stale, own)
    PROVE  AnswerKnown' /\ AskingKnown' /\ (asking # NoValue => asking \in Askings)'
<1> DEFINE from == History!From(period)
<1>1. from \in Int
    BY HistoryFacts, ClockFacts DEF History!From
<1>2. clock \in Nat /\ h.knows \subseteq 0..clock /\ DOMAIN h.points \subseteq 0..clock
    BY ClockFacts DEF Known
<1> HIDE DEF from
<1>3. \A t \in h.knows : t >= from => TellsOf(History!Filtered(h.points, from), t, past)
    <2> SUFFICES ASSUME NEW t \in h.knows, t >= from
                 PROVE  TellsOf(History!Filtered(h.points, from), t, past)
        OBVIOUS
    <2>1. t \in Nat /\ TellsOf(h.points, t, past)
        BY <1>2 DEF Known
    <2> QED BY <1>1, <1>2, <2>1, FilteredTells
<1>4. answer' = [points |-> History!Filtered(h.points, from), from |-> from, knows |-> h.knows,
                 at |-> clock, stale |-> stale, own |-> own]
      /\ asking' = NoValue
    BY DEF History!Answers, from
<1>5. /\ answer'.points = History!Filtered(h.points, from) /\ answer'.from = from
      /\ answer'.knows = h.knows /\ answer'.at = clock
      /\ answer'.stale = stale /\ answer'.own = own
    BY <1>4
<1>6. AnswerKnown'
    BY <1>2, <1>3, <1>5, Zenon DEF AnswerKnown
<1> QED BY <1>4, <1>6, Zenon DEF AskingKnown

\* A set of prices at moments is a history.
LEMMA AtPoints ==
    ASSUME HistoryTypes, NEW D, D \subseteq 0..clock
    PROVE  /\ DOMAIN History!At(past, D) = D
           /\ History!Collapsed(History!At(past, D)) \in Points
           /\ DOMAIN History!Collapsed(History!At(past, D)) \subseteq D
<1> DEFINE h == History!At(past, D)
           K == {t \in DOMAIN h : LET earlier == History!Before(t, DOMAIN h)
                                  IN earlier = {} \/ h[History!Latest(earlier)] # h[t]}
<1>1. DOMAIN h = D /\ \A t \in D : h[t] = past[t]
    BY DEF History!At
<1> HIDE DEF h
<1>2. History!Collapsed(h) = [t \in K |-> h[t]]
    BY Zenon DEF History!Collapsed, History!At
<1>3. K \subseteq D
    BY <1>1
<1> HIDE DEF K
<1>4. \A t \in K : h[t] \in PastPrices
    BY <1>1, <1>3 DEF HistoryTypes
<1>5. [t \in K |-> h[t]] \in [K -> PastPrices]
    BY <1>4
<1>6. K \in SUBSET History!Moments
    BY <1>3, ClockFacts
<1> QED BY <1>1, <1>2, <1>3, <1>5, <1>6 DEF Points, h

\* The rows and the latest snapshot tell every moment from the first row on: no
\* change of the price falls between two of them.
LEMMA RowsTell ==
    ASSUME HistoryTypes, NEW first \in History!Changes, NEW own, own \subseteq 0..clock,
           NEW t \in first..clock \cup own
    PROVE  TellsOf(History!At(past, {u \in History!Changes : u >= first} \cup own), t, past)
<1> DEFINE rows == {u \in History!Changes : u >= first}
           D == rows \cup own
           h == History!At(past, D)
           d == History!Latest(Until(D, t))
<1>1. clock \in Nat /\ History!Changes \subseteq 0..clock
    BY ClockFacts DEF History!Changes
<1>2. first \in rows /\ D \subseteq 0..clock /\ t \in 0..clock
    <2>1. first \in 0..clock /\ first >= first
        BY <1>1, SMT
    <2>2. rows \subseteq 0..clock
        BY <1>1
    <2>3. t \in 0..clock
        BY <1>1, <2>1, SMT
    <2> QED BY <2>1, <2>2, <2>3
<1>3. DOMAIN h = D /\ \A u \in D : h[u] = past[u]
    BY DEF History!At
<1>4. Until(D, t) # {}
    <2>1. CASE t \in own
        BY <2>1, <1>2 DEF Until
    <2>2. CASE t \in first..clock
        BY <2>2, <1>1, <1>2 DEF Until
    <2> QED BY <2>1, <2>2
<1> HIDE DEF h
<1>5. d \in D /\ d <= t /\ \A u \in D : u <= t => u <= d
    BY <1>1, <1>2, <1>4, LatestUntil, Zenon
<1> HIDE DEF d
<1>6. past[t] = past[d]
    <2>1. \A k \in d + 1..t : past[k] = past[k - 1]
        <3> SUFFICES ASSUME NEW k \in d + 1..t, past[k] # past[k - 1] PROVE FALSE
            OBVIOUS
        <3>1. d \in 0..clock /\ k \in 0..clock /\ d < k /\ k <= t
            BY <1>1, <1>2, <1>5
        <3>2. k \in History!Changes /\ k \notin D
            BY <1>5, <3>1 DEF History!Changes
        <3>3. k < first
            BY <1>1, <3>2
        <3>4. t \notin own
            <4>1. t \notin D
                BY <1>2, <1>5, <3>1, SMT
            <4> QED BY <4>1
        <3>5. first <= t /\ first \in D
            BY <1>1, <1>2, <3>4
        <3> QED BY <1>5, <3>1, <3>3, <3>5, <1>1, <1>2, SMT
    <2>2. d \in Nat /\ t \in Nat
        BY <1>1, <1>2, <1>5
    <2> QED BY <1>5, <2>1, <2>2, Holds
<1>7. TellsOf(h, t, past)
    BY <1>3, <1>4, <1>5, <1>6, Zenon DEF TellsOf, d
<1> QED BY <1>7 DEF h

\* So do the bot's own snapshots of the moments they were taken at.
LEMMA OwnTell ==
    ASSUME HistoryTypes, NEW D, D \subseteq 0..clock, NEW t \in D
    PROVE  TellsOf(History!At(past, D), t, past)
<1> DEFINE h == History!At(past, D)
<1>1. DOMAIN h = D /\ \A u \in D : h[u] = past[u]
    BY DEF History!At
<1>2. clock \in Nat /\ t \in Until(D, t) /\ Until(D, t) \subseteq 0..clock /\ \A u \in Until(D, t) : u <= t
    <2>1. clock \in Nat /\ D \subseteq 0..clock
        BY ClockFacts
    <2>2. t <= t
        BY <2>1, SMT
    <2> QED BY <2>1, <2>2, Zenon DEF Until
<1>3. History!Latest(Until(D, t)) = t
    BY <1>2, LatestIs
<1> HIDE DEF h
<1>4. TellsOf(h, t, past)
    BY <1>1, <1>2, <1>3, Zenon DEF TellsOf
<1> QED BY <1>4 DEF h

LEMMA AskInv ==
    ASSUME HistoryInv, NEW period \in Periods, History!Ask(period) PROVE HistoryInv'
<1> USE DEF HistoryInv
<1>1. UNCHANGED <<clock, past, seen, cached, stored>>
    BY DEF History!Ask, History!World
<1>2. (CachedKnown /\ (stored # NoValue => Known(stored)))'
    BY <1>1 DEF CachedKnown, Known
<1>3. CASE cached # NoValue
    <2>1. History!Answers(cached, period, FALSE, FALSE)
        BY <1>3 DEF History!Ask
    <2>2. Known(cached) /\ \E t \in cached.knows : t > clock - HistoryTtl
        <3>1. PICK t \in cached.knows : t >= clock - cached.kept
            BY <1>3 DEF CachedKnown
        <3>2. Known(cached) /\ t \in Nat /\ clock \in Nat /\ cached.kept \in 0..HistoryTtl - 1
            BY <1>3, ClockFacts DEF CachedKnown, Known, HistoryTypes, Cached
        <3>3. t > clock - HistoryTtl
            BY <3>1, <3>2, HistoryFacts, SMT
        <3> QED BY <3>2, <3>3
    <2>3. AnswerKnown' /\ AskingKnown' /\ (asking # NoValue => asking \in Askings)'
        BY <1>1, <2>1, <2>2, AnswersKnown
    <2> QED BY <1>1, <1>2, <2>3 DEF HistoryTypes
<1>4. CASE cached = NoValue
    <2> DEFINE call == [step |-> "asking", period |-> period, points |-> History!At(past, {}), knows |-> {}]
    <2>1. asking' = call /\ answer' = answer
        BY <1>4 DEF History!Ask, History!Nothing
    <2>2. DOMAIN History!At(past, {}) = {} /\ History!At(past, {}) \in Points
        BY DEF History!At, Points
    <2>3. call \in Askings
        BY <2>2 DEF Askings
    <2>4. AskingKnown'
        BY <2>1, <2>2 DEF AskingKnown, Known
    <2>5. AnswerKnown'
        BY <1>1, <2>1 DEF AnswerKnown
    <2> HIDE DEF call
    <2> QED BY <1>1, <1>2, <2>1, <2>3, <2>4, <2>5 DEF HistoryTypes
<1> QED BY <1>3, <1>4

LEMMA ProviderInv ==
    ASSUME HistoryInv, History!ProviderAnswers PROVE HistoryInv'
<1> USE DEF HistoryInv
<1>1. UNCHANGED <<clock, past, seen, cached, stored, answer>> /\ asking # NoValue
    BY DEF History!ProviderAnswers, History!World
<1>2. PICK rows \in History!Conversions :
        asking' = [asking EXCEPT !.step = "fetched",
            !.points = History!Collapsed(History!At(past, rows \cup (IF seen = {} THEN {} ELSE {History!Latest(seen)}))),
            !.knows = (CHOOSE t \in rows : \A u \in rows : t <= u)..clock
                      \cup (IF seen = {} THEN {} ELSE {History!Latest(seen)})]
    BY Zenon DEF History!ProviderAnswers
<1>3. PICK first \in History!Changes : rows = {t \in History!Changes : t >= first}
    BY DEF History!Conversions
<1> DEFINE own == IF seen = {} THEN {} ELSE {History!Latest(seen)}
           D == rows \cup own
           h == History!At(past, D)
<1>4. clock \in Nat /\ History!Changes \subseteq 0..clock /\ first \in 0..clock
    BY ClockFacts DEF History!Changes
<1>5. (CHOOSE t \in rows : \A u \in rows : t <= u) = first
    <2>1. first \in rows /\ \A u \in rows : first <= u
        BY <1>3, <1>4
    <2>2. \A t \in rows : (\A u \in rows : t <= u) => t = first
        BY <1>3, <1>4, <2>1
    <2> QED BY <2>1, <2>2
<1>6. own \subseteq 0..clock
    BY <1>4, LatestOf DEF HistoryTypes
<1>7. D \subseteq first..clock \cup own /\ D \subseteq 0..clock
    <2> HIDE DEF own
    <2>1. rows \subseteq first..clock /\ rows \subseteq 0..clock
        <3> SUFFICES ASSUME NEW t \in rows PROVE t \in first..clock /\ t \in 0..clock
            BY Zenon
        <3>1. t \in 0..clock /\ t >= first
            BY <1>3, <1>4, Zenon
        <3> QED BY <1>4, <3>1, SMT
    <2> QED BY <1>6, <2>1
<1>8. asking' = [asking EXCEPT !.step = "fetched", !.points = History!Collapsed(h),
                               !.knows = first..clock \cup own]
    BY <1>2, <1>5
<1> HIDE DEF own
<1>9. DOMAIN h = D /\ History!Collapsed(h) \in Points /\ DOMAIN History!Collapsed(h) \subseteq D
    BY <1>7, AtPoints
<1>10. \A t \in first..clock \cup own : TellsOf(History!Collapsed(h), t, past)
    <2> SUFFICES ASSUME NEW t \in first..clock \cup own PROVE TellsOf(History!Collapsed(h), t, past)
        OBVIOUS
    <2>1. TellsOf(h, t, past)
        BY <1>3, <1>6, RowsTell
    <2>2. t \in Nat
        BY <1>4, <1>6
    <2> HIDE DEF h, D
    <2> QED BY <1>4, <1>7, <1>9, <2>1, <2>2, CollapsedTells
<1> HIDE DEF h
<1>11. first..clock \cup own \in SUBSET History!Moments /\ clock \in first..clock \cup own
       /\ first..clock \cup own \subseteq 0..clock
    BY <1>4, <1>6, ClockFacts
<1>12. asking \in Askings
    BY <1>1 DEF HistoryTypes
<1>13. asking' \in Askings /\ asking'.points = History!Collapsed(h)
       /\ asking'.knows = first..clock \cup own
    BY <1>8, <1>9, <1>11, <1>12 DEF Askings
<1> HIDE DEF D
<1>14. AskingKnown'
    BY <1>1, <1>7, <1>9, <1>10, <1>11, <1>13, Zenon DEF AskingKnown, Known
<1>15. CachedKnown' /\ (stored # NoValue => Known(stored))' /\ AnswerKnown'
    BY <1>1 DEF CachedKnown, Known, AnswerKnown
<1> QED BY <1>1, <1>13, <1>14, <1>15 DEF HistoryTypes

LEMMA FailsInv ==
    ASSUME HistoryInv, History!ProviderFails PROVE HistoryInv'
<1> USE DEF HistoryInv
<1>1. UNCHANGED <<clock, past, seen, cached, stored, answer>> /\ asking # NoValue
    BY DEF History!ProviderFails, History!World
<1>2. asking \in Askings
    BY <1>1 DEF HistoryTypes
<1>3. asking' \in Askings /\ asking'.step = "failed" /\ asking'.points = asking.points
      /\ asking'.knows = asking.knows
    BY <1>2 DEF History!ProviderFails, Askings
<1>4. AskingKnown'
    BY <1>1, <1>3 DEF AskingKnown, Known
<1>5. CachedKnown' /\ (stored # NoValue => Known(stored))' /\ AnswerKnown'
    BY <1>1 DEF CachedKnown, Known, AnswerKnown
<1> QED BY <1>1, <1>3, <1>4, <1>5 DEF HistoryTypes

LEMMA SaveRedisInv ==
    ASSUME HistoryInv, History!SaveRedis PROVE HistoryInv'
<1> USE DEF HistoryInv
<1>1. UNCHANGED <<clock, past, seen, stored, answer>> /\ asking # NoValue /\ asking.step = "fetched"
    BY DEF History!SaveRedis, History!World
<1>2. asking \in Askings /\ Known(asking) /\ clock \in asking.knows
    BY <1>1 DEF HistoryTypes, AskingKnown
<1>3. (stored # NoValue => Known(stored))' /\ AnswerKnown'
    BY <1>1 DEF Known, AnswerKnown
<1>4. CASE asking' = NoValue /\ cached' = cached
    BY <1>1, <1>3, <1>4 DEF HistoryTypes, CachedKnown, AskingKnown, Known
<1>5. CASE /\ cached' = [points |-> asking.points, knows |-> asking.knows, kept |-> 0]
           /\ asking' = [asking EXCEPT !.step = "saved"]
    <2>1. cached' \in Cached /\ cached'.points = asking.points /\ cached'.knows = asking.knows
          /\ cached'.kept = 0
        BY <1>2, <1>5, HistoryFacts DEF Askings, Cached
    <2>2. asking' \in Askings /\ asking'.points = asking.points /\ asking'.knows = asking.knows
        BY <1>2, <1>5 DEF Askings
    <2>3. clock >= clock - 0
        BY ClockFacts
    <2>4. CachedKnown'
        BY <1>1, <1>2, <2>1, <2>3 DEF CachedKnown, Known
    <2>5. AskingKnown'
        BY <1>1, <1>2, <2>2 DEF AskingKnown, Known
    <2> QED BY <1>1, <1>3, <2>1, <2>2, <2>4, <2>5 DEF HistoryTypes
<1> QED BY <1>4, <1>5 DEF History!SaveRedis

LEMMA SaveDatabaseInv ==
    ASSUME HistoryInv, History!SaveDatabase PROVE HistoryInv'
<1> USE DEF HistoryInv
<1>1. UNCHANGED <<clock, past, seen, cached>> /\ asking # NoValue /\ asking.step = "saved"
    BY DEF History!SaveDatabase, History!World
<1>2. asking \in Askings /\ Known(asking) /\ clock \in asking.knows
    BY <1>1 DEF HistoryTypes, AskingKnown
<1>3. CachedKnown'
    BY <1>1 DEF CachedKnown, Known
<1>4. CASE asking' = NoValue /\ stored' = stored /\ answer' = answer
    BY <1>1, <1>3, <1>4 DEF HistoryTypes, AskingKnown, AnswerKnown, Known
<1>5. CASE /\ stored' = [points |-> asking.points, knows |-> asking.knows]
           /\ History!Answers(asking, asking.period, FALSE, FALSE)
    <2>1. stored' \in StoredCopies /\ stored'.points = asking.points /\ stored'.knows = asking.knows
        BY <1>2, <1>5 DEF Askings, StoredCopies
    <2>2. (stored # NoValue => Known(stored))'
        BY <1>1, <1>2, <2>1 DEF Known
    <2>3. asking.period \in Periods
        BY <1>2 DEF Askings
    <2>4. clock > clock - HistoryTtl
        BY ClockFacts, HistoryFacts, SMT
    <2>5. AnswerKnown' /\ AskingKnown' /\ (asking # NoValue => asking \in Askings)'
        BY <1>1, <1>2, <1>5, <2>3, <2>4, AnswersKnown
    <2> QED BY <1>1, <1>3, <2>1, <2>2, <2>5 DEF HistoryTypes
<1> QED BY <1>4, <1>5 DEF History!SaveDatabase

LEMMA StoredInv ==
    ASSUME HistoryInv, History!Stored PROVE HistoryInv'
<1> USE DEF HistoryInv
<1>1. UNCHANGED <<clock, past, seen, cached, stored>> /\ asking # NoValue /\ asking.period \in Periods
    BY DEF History!Stored, History!World, HistoryTypes, Askings
<1>2. CachedKnown' /\ (stored # NoValue => Known(stored))'
    BY <1>1 DEF CachedKnown, Known
<1>3. AnswerKnown' /\ AskingKnown' /\ (asking # NoValue => asking \in Askings)'
    <2>1. CASE stored # NoValue
        <3>1. History!Answers(stored, asking.period, TRUE, FALSE) /\ Known(stored)
            BY <2>1 DEF History!Stored
        <3> QED BY <1>1, <3>1, AnswersKnown
    <2>2. CASE stored = NoValue
        <3> DEFINE h == [points |-> History!Collapsed(History!At(past, seen)), knows |-> seen]
        <3>1. History!Answers(h, asking.period, FALSE, TRUE)
            BY <2>2 DEF History!Stored
        <3>2. clock \in Nat /\ seen \subseteq 0..clock
            BY ClockFacts DEF HistoryTypes
        <3>3. DOMAIN History!At(past, seen) = seen
              /\ DOMAIN History!Collapsed(History!At(past, seen)) \subseteq seen
            BY <3>2, AtPoints
        <3>4. \A t \in seen : TellsOf(History!Collapsed(History!At(past, seen)), t, past)
            <4> TAKE t \in seen
            <4>1. TellsOf(History!At(past, seen), t, past)
                BY <3>2, OwnTell
            <4>2. t \in Nat
                BY <3>2
            <4> QED BY <3>2, <3>3, <4>1, <4>2, CollapsedTells
        <3>5. Known(h)
            BY <3>2, <3>3, <3>4 DEF Known
        <3> HIDE DEF h
        <3> QED BY <1>1, <3>1, <3>5, AnswersKnown
    <2> QED BY <2>1, <2>2
<1> QED BY <1>1, <1>2, <1>3 DEF HistoryTypes

LEMMA SnapshotInv ==
    ASSUME HistoryInv, History!Snapshot PROVE HistoryInv'
<1>1. UNCHANGED <<clock, past, cached, stored, asking, answer>> /\ seen' = seen \cup {clock}
    BY DEF History!Snapshot
<1>2. seen' \subseteq 0..clock
    <2>1. clock \in 0..clock /\ seen \subseteq 0..clock
        BY ClockFacts, SMT DEF HistoryInv, HistoryTypes
    <2> QED BY <1>1, <2>1, Zenon
<1> QED BY <1>1, <1>2 DEF HistoryInv, HistoryTypes, CachedKnown, AskingKnown, AnswerKnown, Known

\* A moment passes: the past stays, and the copy in redis is a moment older.
LEMMA MomentInv ==
    ASSUME HistoryInv, History!Tick PROVE HistoryInv'
<1> USE DEF HistoryInv
<1>1. clock \in Nat /\ clock < Last /\ clock' = clock + 1 /\ asking = NoValue
      /\ UNCHANGED <<seen, stored, asking, answer>>
    BY ClockFacts DEF History!Tick
<1>2. PICK price \in PastPrices :
        past' = [t \in 0..clock' |-> IF t = clock' THEN price ELSE past[t]]
    BY DEF History!Tick
<1>3. 0..clock \subseteq 0..clock' /\ clock' \in History!Moments
    BY <1>1, HistoryFacts DEF History!Moments
<1>4. \A t \in 0..clock : past'[t] = past[t]
    BY <1>1, <1>2
<1>5. past' \in [0..clock' -> PastPrices]
    <2>1. \A t \in 0..clock' : t # clock' => t \in 0..clock
        BY <1>1
    <2> QED BY <1>2, <2>1 DEF HistoryTypes
<1>6. \A points, t : t \in 0..clock /\ TellsOf(points, t, past) => TellsOf(points, t, past')
    BY <1>4, Zenon DEF TellsOf
<1>7. \A h : Known(h) =>
        /\ DOMAIN h.points \subseteq h.knows /\ h.knows \subseteq 0..clock'
        /\ \A t \in h.knows : TellsOf(h.points, t, past')
    BY <1>3, <1>6, Zenon DEF Known
<1>8. cached' # NoValue => cached' \in Cached
    <2> SUFFICES ASSUME cached' # NoValue PROVE cached' \in Cached
        OBVIOUS
    <2>1. cached # NoValue /\ cached.kept + 1 < HistoryTtl /\ cached' = [cached EXCEPT !.kept = @ + 1]
        BY HistoryFacts DEF History!Tick, History!Expired, HistoryTypes, Cached
    <2> QED BY <2>1, HistoryFacts DEF HistoryTypes, Cached
<1>9. CachedKnown'
    <2> SUFFICES ASSUME cached' # NoValue
                 PROVE  Known(cached)' /\ \E t \in cached'.knows : t >= clock' - cached'.kept
        BY DEF CachedKnown
    <2>1. cached # NoValue /\ cached \in Cached /\ cached' = [cached EXCEPT !.kept = @ + 1]
        BY HistoryFacts DEF History!Tick, History!Expired, HistoryTypes, Cached
    <2>2. cached'.points = cached.points /\ cached'.knows = cached.knows /\ cached'.kept = cached.kept + 1
          /\ cached.kept \in Nat
        BY <2>1, HistoryFacts DEF Cached
    <2>3. Known(cached) /\ \E t \in cached.knows : t >= clock - cached.kept
        BY <2>1 DEF CachedKnown
    <2>4. Known(cached)'
        BY <1>7, <2>2, <2>3, Zenon DEF Known
    <2>5. clock' - cached'.kept = clock - cached.kept
        BY <1>1, <2>2, SMT
    <2> QED BY <2>2, <2>3, <2>4, <2>5
<1>10. (stored # NoValue => Known(stored))'
    BY <1>1, <1>7, Zenon DEF Known
<1>11. AskingKnown'
    BY <1>1 DEF AskingKnown
<1>12. AnswerKnown'
    <2> SUFFICES ASSUME answer # NoValue PROVE AnswerKnown'
        BY <1>1 DEF AnswerKnown
    <2>1. answer.knows \subseteq 0..clock
        BY DEF AnswerKnown
    <2>2. \A t \in answer.knows : t >= answer.from => TellsOf(answer.points, t, past')
        BY <1>6, <2>1, Zenon DEF AnswerKnown
    <2>3. answer.stale \/ answer.own \/ \E t \in answer.knows : t > answer.at - HistoryTtl
        BY DEF AnswerKnown
    <2> QED BY <1>1, <1>3, <2>1, <2>2, <2>3, Zenon DEF AnswerKnown
<1>13. seen' \subseteq 0..clock'
    BY <1>1, <1>3 DEF HistoryTypes
<1> QED BY <1>1, <1>3, <1>5, <1>8, <1>9, <1>10, <1>11, <1>12, <1>13 DEF HistoryTypes

LEMMA HistoryNext == HistoryInv /\ [History!Next]_(History!vars) => HistoryInv'
<1> SUFFICES ASSUME HistoryInv, [History!Next]_(History!vars) PROVE HistoryInv'
    OBVIOUS
<1>1. CASE UNCHANGED History!vars
    BY <1>1 DEF History!vars, HistoryInv, HistoryTypes, CachedKnown, AskingKnown, AnswerKnown, Known
<1>2. CASE History!Next
    BY <1>2, MomentInv, SnapshotInv, ProviderInv, FailsInv, SaveRedisInv, SaveDatabaseInv, StoredInv, AskInv
       DEF History!Next
<1> QED BY <1>1, <1>2

LEMMA HistoryInvTells == HistoryInv => History!TypeOK /\ History!HistoryIsTrue
<1> SUFFICES ASSUME HistoryInv PROVE History!TypeOK /\ History!HistoryIsTrue
    OBVIOUS
<1>1. \A h : h.points \in Points =>
        DOMAIN h.points \subseteq History!Moments /\ \A t \in DOMAIN h.points : h.points[t] \in PastPrices
    BY DEF Points
<1>2. \A h : h.points \in Points /\ Known(h) => History!IsHistory(h)
    BY <1>1, ClockFacts DEF History!IsHistory, Known, HistoryInv
<1>3. History!TypeOK
    BY <1>2, ClockFacts DEF HistoryInv, HistoryTypes, CachedKnown, AskingKnown, History!TypeOK, Cached,
       StoredCopies, Askings
<1>4. History!HistoryIsTrue
    BY TellsIs, Zenon DEF HistoryInv, AnswerKnown, History!HistoryIsTrue
<1> QED BY <1>3, <1>4

-----------------------------------------------------------------------------
(* All jobs.  A behaviour is of one of them, which JobsNext does not       *)
(* change, so that each job's invariant is one of JobsSpec.                *)

RatesFacts == INSTANCE CurrencyRates_proofs WITH None <- NoValue, Ttl <- RatesTtl, Limit <- RatesLimit

LEMMA RatesConstants == RatesFacts!Constants
<1>1. RatesFacts!Ages \subseteq Nat
    BY JobsAssumption, SMT DEF RatesFacts!Ages, RatesFacts!Oldest
<1>2. RatesFacts!CopyType \subseteq [age : Nat, kept : Nat]
    <2> SUFFICES ASSUME NEW copy \in RatesFacts!CopyType PROVE copy \in [age : Nat, kept : Nat]
        OBVIOUS
    <2>1. RatesLimit \in Nat /\ 0..RatesLimit - 1 \subseteq Nat
        BY JobsAssumption
    <2> QED BY <1>1, <2>1 DEF RatesFacts!CopyType
<1>3. RatesFacts!CallType \subseteq
        [step : {"locking", "missed", "locked", "asking", "fetched", "saving", "answered"},
         age : Nat \cup {NoValue}, stale : BOOLEAN]
    <2>1. RatesFacts!Ages \cup {NoValue} \subseteq Nat \cup {NoValue}
        BY <1>1
    <2> HIDE DEF RatesFacts!Ages
    <2> QED BY <2>1 DEF RatesFacts!CallType
<1> QED BY <1>1, <1>2, <1>3, JobsAssumption DEF RatesFacts!Constants

LEMMA JobsBegin ==
    JobsInit =>
      /\ part = "monitor" => Init
      /\ part = "decisions" => Decisions!Init
      /\ part = "polling" => Polling!Init
      /\ part = "digests" => Digest!Init
      /\ part = "history" => History!Init
      /\ RatesFacts!Init
BY DEF JobsInit, Rates!Init, RatesFacts!Init

\* A step of the rates is the same step in both instances of CurrencyRates.
LEMMA RatesSteps == Rates!Next => RatesFacts!Next
BY SMT DEF
    Rates!Oldest, RatesFacts!Oldest, Rates!Ages, RatesFacts!Ages, Rates!Call, RatesFacts!Call,
    Rates!At, RatesFacts!At, Rates!CachedAge, RatesFacts!CachedAge, Rates!Within, RatesFacts!Within,
    Rates!Goes, RatesFacts!Goes, Rates!Answers, RatesFacts!Answers, Rates!Raises, RatesFacts!Raises,
    Rates!Released, RatesFacts!Released, Rates!World, RatesFacts!World, Rates!Fallback, RatesFacts!Fallback,
    Rates!Ask, RatesFacts!Ask, Rates!Lock, RatesFacts!Lock, Rates!LockMissedFetches, RatesFacts!LockMissedFetches,
    Rates!LockMissed, RatesFacts!LockMissed, Rates!Shared, RatesFacts!Shared, Rates!Recheck, RatesFacts!Recheck,
    Rates!ProviderAnswers, RatesFacts!ProviderAnswers, Rates!ProviderFails, RatesFacts!ProviderFails, Rates!SaveRedis, RatesFacts!SaveRedis,
    Rates!SaveDatabase, RatesFacts!SaveDatabase, Rates!Done, RatesFacts!Done, Rates!LockExpires, RatesFacts!LockExpires,
    Rates!Crash, RatesFacts!Crash, Rates!Publish, RatesFacts!Publish, Rates!Older, RatesFacts!Older,
    Rates!ExpiredNever, RatesFacts!ExpiredNever, Rates!Expired, RatesFacts!Expired, Rates!Hour, RatesFacts!Hour,
    Rates!Next, RatesFacts!Next

LEMMA JobsStep ==
    [JobsNext]_jobs =>
      /\ part' = part
      /\ part = "monitor" => [Next]_vars
      /\ part = "decisions" => [Decisions!Next]_input
      /\ part = "polling" => [Polling!Next]_(Polling!vars)
      /\ part = "digests" => [Digest!Next]_(Digest!vars)
      /\ part = "history" => [History!Next]_(History!vars)
      /\ [RatesFacts!Next]_(RatesFacts!vars)
<1> SUFFICES ASSUME [JobsNext]_jobs
             PROVE  /\ part' = part
                    /\ part = "monitor" => [Next]_vars
                    /\ part = "decisions" => [Decisions!Next]_input
                    /\ part = "polling" => [Polling!Next]_(Polling!vars)
                    /\ part = "digests" => [Digest!Next]_(Digest!vars)
                    /\ part = "history" => [History!Next]_(History!vars)
                    /\ [RatesFacts!Next]_(RatesFacts!vars)
    OBVIOUS
<1>1. CASE UNCHANGED jobs
    <2>1. /\ vars' = vars /\ part' = part /\ input' = input /\ OfRates' = OfRates
          /\ OfPolling' = OfPolling /\ OfDigests' = OfDigests /\ OfHistory' = OfHistory
        BY <1>1, Zenon DEF jobs
    <2>2. UNCHANGED RatesFacts!vars /\ UNCHANGED Polling!vars /\ UNCHANGED History!vars
        BY <2>1 DEF OfRates, OfPolling, OfHistory, Polling!vars, History!vars, RatesFacts!vars
    <2>3. UNCHANGED Digest!vars
        BY <2>1 DEF vars, history, OfDigests, Digest!vars, Digest!settings
    <2> QED BY <2>1, <2>2, <2>3, Zenon
<1>2. CASE JobsNext
    <2>1. part' = part
        BY <1>2 DEF JobsNext
    <2>2. part = "rates" \/ UNCHANGED OfRates
        BY <1>2, Zenon DEF JobsNext
    <2>3. [RatesFacts!Next]_(RatesFacts!vars)
        BY <1>2, <2>2, RatesSteps DEF JobsNext, OfRates, RatesFacts!vars
    <2> QED BY <1>2, <2>1, <2>3 DEF JobsNext
<1> QED BY <1>1, <1>2

-----------------------------------------------------------------------------
(* The theorems.                                                           *)

\* One instance polls unless a renewal failed, however many instances there are, while
\* the lease is longer than the interval of its renewal. (PollingLock, run_forever)
THEOREM OnePollerHolds == JobsSpec => []OnePoller
<1> DEFINE Inv == part = "polling" => PollingInv
<1>1. JobsInit => Inv
    BY JobsBegin, PollingInit, Zenon
<1>2. Inv /\ [JobsNext]_jobs => Inv'
    BY JobsStep, PollingNext, Zenon
<1>3. Inv => OnePoller
    BY PollingInvTells, Zenon DEF OnePoller
<1> QED BY <1>1, <1>2, <1>3, PTL DEF JobsSpec

\* Every game's history is told as it was, whichever copy the answer is from and however
\* it was collapsed and cut, for any prices and any time. (PriceHistoryService)
THEOREM HistoryHolds == JobsSpec => []HistoryIsTrue
<1> DEFINE Inv == part = "history" => HistoryInv
<1>1. JobsInit => Inv
    BY JobsBegin, HistoryInit, Zenon
<1>2. Inv /\ [JobsNext]_jobs => Inv'
    BY JobsStep, HistoryNext, Zenon
<1>3. Inv => HistoryIsTrue
    BY HistoryInvTells, Zenon DEF HistoryIsTrue
<1> QED BY <1>1, <1>2, <1>3, PTL DEF JobsSpec

\* Digests keep their rhythm, for any lengths of the day and the week and any times that
\* the settings choose. (DigestService._is_due, _period_key)
THEOREM DigestsHold == JobsSpec => []DigestsKeepTime
<1> DEFINE Inv == part = "digests" => DigestInv
<1>1. JobsInit => Inv
    BY JobsBegin, DigestInit, Zenon
<1>2. Inv /\ [JobsNext]_jobs => Inv'
    BY JobsStep, DigestNext, Zenon
<1>3. Inv => DigestsKeepTime
    BY DigestInvTells, Zenon DEF DigestsKeepTime
<1> QED BY <1>1, <1>2, <1>3, PTL DEF JobsSpec

\* Quiet hours hold an alert back to their end and no longer. (_quiet_until)
THEOREM QuietWaitHolds == JobsSpec => []QuietWaitExact
<1> DEFINE Inv == part = "decisions" => DecisionsInv
<1>1. JobsInit => Inv
    BY JobsBegin, Zenon DEF DecisionsInv, Decisions!Init
<1>2. Inv /\ [JobsNext]_jobs => Inv'
    BY JobsStep, DecisionsNext, Zenon
<1>3. Inv => QuietWaitExact
    BY DecisionsInvTells, Zenon DEF QuietWaitExact
<1> QED BY <1>1, <1>2, <1>3, PTL DEF JobsSpec

\* What matches has a reason to be told, and the fallback reason is never given.
\* (_matches, _notification_reasons)
THEOREM ReasonsHold == JobsSpec => []MatchesHaveReasons
<1>1. MatchesHaveReasons
    BY FallbackReasonIsDead, Zenon DEF MatchesHaveReasons, Decisions!MatchesHaveReasons
<1> QED BY <1>1, PTL

\* A movement of the price is no reason any more once the price is stored.
\* (_notification_reasons, _process)
THEOREM MovementsHold == JobsSpec => []MovementsToldOnce
<1> DEFINE Inv == part = "decisions" => DecisionsInv
<1>1. JobsInit => Inv
    BY JobsBegin, Zenon DEF DecisionsInv, Decisions!Init
<1>2. Inv /\ [JobsNext]_jobs => Inv'
    BY JobsStep, DecisionsNext, Zenon
<1>3. Inv => MovementsToldOnce
    BY DecisionsInvTells, Zenon DEF MovementsToldOnce
<1> QED BY <1>1, <1>2, <1>3, PTL DEF JobsSpec

LEMMA RatesRun == JobsSpec => RatesFacts!Spec
<1>1. JobsInit => RatesFacts!Init
    BY JobsBegin, Zenon
<1>2. [JobsNext]_jobs => [RatesFacts!Next]_(RatesFacts!vars)
    BY JobsStep, Zenon
<1> QED BY <1>1, <1>2, PTL DEF JobsSpec, RatesFacts!Spec

\* Rates without a mark are within their bound, for any calls, limits and lag: the
\* theorem of CurrencyRates_proofs in the composition. (CurrencyRates, rates)
THEOREM RatesHold == JobsSpec => []UnmarkedWithinBound
<1>1. RatesFacts!UnmarkedWithinBound => UnmarkedWithinBound
    BY SMT DEF RatesFacts!UnmarkedWithinBound, RatesFacts!At, UnmarkedWithinBound,
           Rates!UnmarkedWithinBound, Rates!At
<1>2. RatesFacts!Spec => []RatesFacts!UnmarkedWithinBound
    BY RatesConstants, RatesFacts!UnmarkedHolds
<1> QED BY <1>1, <1>2, RatesRun, PTL

\* The shared rates only get newer while no call outlives its lock: the theorem of
\* CurrencyRates_proofs in the composition. (CurrencyRates, rates and _save)
THEOREM RatesGoForward == JobsSpec => SavesGoForward
<1>1. RatesFacts!Spec => RatesFacts!SavesGoForward
    BY RatesConstants, RatesFacts!SavesHold
<1> DEFINE Newer == overrun \/ published' > published
                    \/ (/\ redis # NoValue /\ redis' # NoValue => redis'.age <= redis.age
                        /\ database # NoValue /\ database' # NoValue => database' <= database)
<1>2. [Newer]_(RatesFacts!vars) => [Newer]_(Rates!vars)
    BY Zenon DEF RatesFacts!vars, Rates!vars
<1> QED BY <1>1, <1>2, RatesRun, PTL DEF RatesFacts!SavesGoForward, SavesGoForward, Rates!SavesGoForward

\* All parts keep their types: the state that the runs bound is all there is.
THEOREM JobsTypesHold == JobsSpec => []JobsTypeOK
<1> DEFINE Inv == /\ part = "monitor" => Shape
                  /\ part = "polling" => PollingInv
                  /\ part = "digests" => DigestInv
                  /\ part = "history" => HistoryInv
<1>1. JobsInit => Inv
    BY JobsBegin, ShapeInit, PollingInit, DigestInit, HistoryInit, Zenon
<1>2. Inv /\ [JobsNext]_jobs => Inv'
    BY JobsStep, ShapeStep, PollingNext, DigestNext, HistoryNext, Zenon
<1>3. RatesFacts!IInv => Rates!TypeOK
    <2>1. RatesFacts!Ages = Rates!Ages
        BY Zenon DEF RatesFacts!Ages, Rates!Ages, RatesFacts!Oldest, Rates!Oldest
    <2> QED BY <2>1 DEF RatesFacts!IInv, RatesFacts!Typed, RatesFacts!CopyType, RatesFacts!CallType,
                        Rates!TypeOK
<1>4. RatesFacts!Spec => []RatesFacts!IInv
    BY RatesConstants, RatesFacts!Invariance
<1>5. Inv /\ Rates!TypeOK => JobsTypeOK
    BY PollingInvTells, DigestInvTells, HistoryInvTells, Zenon DEF JobsTypeOK, Shape
<1> QED BY <1>1, <1>2, <1>3, <1>4, <1>5, RatesRun, PTL DEF JobsSpec
=============================================================================
