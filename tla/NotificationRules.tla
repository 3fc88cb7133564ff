------------------------- MODULE NotificationRules -------------------------
(***************************************************************************)
(* The decisions PriceMonitor takes about one watch rule and one observed  *)
(* price: does the price change the history, which conditions of the rule  *)
(* hold, is the alert a repeat, and how long quiet hours hold it back.     *)
(* Everything here is a function of its arguments; PriceMonitor supplies   *)
(* the state.                                                              *)
(*                                                                         *)
(* A price is [initial, final, discount, currency]; a snapshot row has the *)
(* same four fields.  Amounts are integers in minor units, NoValue stands  *)
(* for None, and times of day are hours of a day DayLength hours long.     *)
(***************************************************************************)
EXTENDS Integers, FiniteSets, FiniteSetsExt

CONSTANTS
    NoValue,    \* Python's None
    DayLength   \* hours in a day: 24 in reality, fewer in small models

ASSUME NoValueAssumption == NoValue \notin Int
ASSUME DayLengthAssumption == DayLength \in Nat \ {0}

\* The reasons an alert may give, with the length of the name under which
\* each is joined into last_notification_type.
ReasonLength ==
    [target |-> 6, discount |-> 8, new_low |-> 7, known_low |-> 9,
     any_drop |-> 8, drop_amount |-> 11, drop_percent |-> 12, rule |-> 4]

ReasonNames == DOMAIN ReasonLength

\* String(30), the width of last_notification_type and notification_type.
TypeWidth == 30

Policies == {"on_change", "reentry", "once"}

-----------------------------------------------------------------------------
(* History.                                                                *)

\* A snapshot is stored only when one of the four price fields moved.
PriceChanged(latest, price) == latest = NoValue \/ latest # price

SameCurrency(latest, price) ==
    latest # NoValue /\ latest.currency = price.currency

-----------------------------------------------------------------------------
(* Conditions.  rate converts an amount of the price's currency into the   *)
(* rule's target currency: 1 when they agree or the rule has none, NoValue *)
(* when the conversion failed.                                             *)

Converted(amount, rate) ==
    IF amount = NoValue \/ rate = NoValue THEN NoValue ELSE amount * rate

ConditionDrop(latest, price, rate) ==
    IF SameCurrency(latest, price) /\ latest.final > price.final
    THEN Converted(latest.final - price.final, rate)
    ELSE NoValue

AtMost(amount, bound) ==
    amount # NoValue /\ bound # NoValue /\ amount <= bound

AtLeast(amount, bound) ==
    amount # NoValue /\ bound # NoValue /\ amount >= bound

LowAllows(rule, price, low) ==
    ~rule.lowOnly \/ low = NoValue \/ price.final <= low

Matches(rule, price, low, rate) ==
    /\ LowAllows(rule, price, low)
    /\ \/ AtMost(Converted(price.final, rate), rule.maxPrice)
       \/ AtLeast(price.discount, rule.minDiscount)

\* Mutant of IsNewLow: equalling the low is a new low.
IsNewLowOrEqual(price, low) == low # NoValue /\ price.final <= low

IsNewLow(price, low) == low # NoValue /\ price.final < low

\* Mutant of BasicReasons: no basic reason at all when the conversion failed.
BasicReasonsNeedRate(rule, price, low, rate) ==
    IF ~LowAllows(rule, price, low) \/ rate = NoValue THEN {}
    ELSE {n \in {"target", "discount"} :
             \/ n = "target" /\ AtMost(Converted(price.final, rate), rule.maxPrice)
             \/ n = "discount" /\ AtLeast(price.discount, rule.minDiscount)}

BasicReasons(rule, price, low, rate) ==
    IF ~LowAllows(rule, price, low) THEN {}
    ELSE {n \in {"target", "discount"} :
             \/ n = "target" /\ AtMost(Converted(price.final, rate), rule.maxPrice)
             \/ n = "discount" /\ AtLeast(price.discount, rule.minDiscount)}

LowReasons(rule, price, low) ==
    IF IsNewLow(price, low) /\ rule.newLow THEN {"new_low"}
    ELSE IF low # NoValue /\ price.final = low /\ rule.knownLow THEN {"known_low"}
    ELSE {}

\* The percentage is compared as 100 * drop >= percent * previous: the drop is
\* positive, so the previous price is too and the division never sees zero.
DropReasons(rule, price, latest, rate) ==
    IF ~SameCurrency(latest, price) \/ price.final >= latest.final THEN {}
    ELSE LET drop == latest.final - price.final
         IN {n \in {"any_drop", "drop_amount", "drop_percent"} :
                \/ n = "any_drop" /\ rule.anyDrop
                \/ n = "drop_amount"
                   /\ AtLeast(ConditionDrop(latest, price, rate), rule.dropAmount)
                \/ n = "drop_percent" /\ rule.dropPercent # NoValue
                   /\ 100 * drop >= rule.dropPercent * latest.final}

Reasons(rule, premium, price, latest, low, rate) ==
    LET found ==
            BasicReasons(rule, price, low, rate)
            \cup (IF premium
                  THEN LowReasons(rule, price, low)
                       \cup DropReasons(rule, price, latest, rate)
                  ELSE {})
    IN IF found = {} /\ Matches(rule, price, low, rate) THEN {"rule"} ELSE found

-----------------------------------------------------------------------------
(* Identity and repetition of an alert.                                    *)

\* The hash of rule, reasons and price, taken to be injective; the rule is the
\* one that stores it.
Fingerprint(reasons, price) ==
    [reasons |-> reasons, final |-> price.final,
     discount |-> price.discount, currency |-> price.currency]

\* The length of "+".join(reasons).
TypeLength(reasons) ==
    MapThenSumSet(LAMBDA n : ReasonLength[n], reasons) + Cardinality(reasons) - 1

IsDuplicate(rule, fingerprint, reasons) ==
    /\ reasons # {}
    /\ CASE rule.policy = "once"    -> rule.notified
         [] rule.policy = "reentry" -> rule.met
         [] OTHER                   -> fingerprint = rule.fp

-----------------------------------------------------------------------------
(* Quiet hours.                                                            *)

\* Mutant of IsQuiet: the end hour is still quiet.
IsQuietClosed(t, start, end) ==
    IF start < end THEN start <= t /\ t <= end ELSE t >= start \/ t <= end

\* Quiet hours run from start to end and wrap around midnight unless
\* start < end; equal bounds wrap into the whole day.
IsQuiet(t, start, end) ==
    IF start < end THEN start <= t /\ t < end ELSE t >= start \/ t < end

\* Mutant of QuietWait: the end is always looked for on the current date.
QuietWaitSameDay(t, start, end) == end - t

\* Hours from local time t to the end of the quiet hours that hold at t:
\* end is today, or tomorrow when the quiet hours wrap and t is before
\* midnight.
QuietWait(t, start, end) ==
    end - t + (IF start >= end /\ t >= start THEN DayLength ELSE 0)

-----------------------------------------------------------------------------
(* Properties of the decisions.                                            *)

\* k hours after t.
HourAfter(t, k) == IF t + k < DayLength THEN t + k ELSE t + k - DayLength

\* An alert is held back exactly to the first hour that is not quiet: every
\* hour before it is quiet, whether or not the quiet hours wrap around
\* midnight.  Equal bounds have no such hour.
QuietWaitIsExact(t, start, end) ==
    start # end /\ IsQuiet(t, start, end) =>
        LET wait == QuietWait(t, start, end)
        IN /\ wait \in 1..DayLength - 1
           /\ \A k \in 0..wait - 1 : IsQuiet(HourAfter(t, k), start, end)
           /\ ~IsQuiet(HourAfter(t, wait), start, end)

\* A rule that matches says why: _matches never holds where the two basic
\* reasons fail, so the fallback reason "rule" is dead code, also where the
\* conversion failed.
MatchHasItsReason(rule, premium, price, latest, low, rate) ==
    "rule" \notin Reasons(rule, premium, price, latest, low, rate)

\* The reasons about a movement are used up by the check that gives them: with
\* the history that check leaves behind, the same price repeats none of them,
\* so that only fingerprints without them can recur.
Movements == {"new_low", "any_drop", "drop_amount", "drop_percent"}

MovementIsToldOnce(rule, premium, price, latest, low, rate) ==
    LET stored == PriceChanged(latest, price)
        latest2 == IF stored THEN price ELSE latest
        low2 == IF stored /\ (low = NoValue \/ price.final < low)
                THEN price.final ELSE low
    IN (low = NoValue \/ (latest # NoValue /\ low <= latest.final)) =>
           Reasons(rule, premium, price, latest2, low2, rate) \cap Movements = {}
=============================================================================
