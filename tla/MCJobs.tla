------------------------------- MODULE MCJobs -------------------------------
(***************************************************************************)
(* The work in the background: the instance of MCPriceMonitor, instances   *)
(* of CurrencyRates, PriceHistory, Digests and PollingLock, and the        *)
(* decisions of MCNotificationRules.  A behaviour is of one of them;       *)
(* variables that only the others have are NoValue, or as they begin.      *)
(***************************************************************************)
EXTENDS MCPriceMonitor

CONSTANTS
    DecisionDay,                                             \* of MCNotificationRules
    Calls, RatesTtl, RatesLimit, Lag,                        \* of CurrencyRates
    Instances, LockTtl,                                      \* of PollingLock
    DigestDay, WeekDays, DailyAt, WeeklyAt, TimeChoices, MaxChanges,   \* of Digests
    PastPrices, HistoryTtl, Periods, Last                    \* of PriceHistory

VARIABLES
    part, input,
    published, redis, database, holder, calls, overrun,
    running, renewal, owner, left, troubled,
    now, premium, enabled, time, weekday, lastAt, ran, sent, gap, steady,
    clock, past, seen, cached, stored, asking, answer

OfRates == <<published, redis, database, holder, calls, overrun>>
OfPolling == <<running, renewal, owner, left, troubled>>
OfDigests == <<now, premium, enabled, time, weekday, lastAt, ran, sent, gap, steady>>
OfHistory == <<clock, past, seen, cached, stored, asking, answer>>
OnlyMonitor == <<hour, db, locked, run, tx, told, repeats, wide>>
jobs == <<vars, part, input, OfRates, OfPolling, OfDigests, OfHistory>>

Decisions == INSTANCE MCNotificationRules WITH DayLength <- DecisionDay
Rates == INSTANCE CurrencyRates WITH None <- NoValue, Ttl <- RatesTtl, Limit <- RatesLimit
Polling == INSTANCE PollingLock WITH None <- NoValue, TTL <- LockTtl
Digest == INSTANCE Digests WITH None <- NoValue, DayLength <- DigestDay, MaxEdits <- MaxChanges
History == INSTANCE PriceHistory WITH None <- NoValue, Prices <- PastPrices, Ttl <- HistoryTtl

ASSUME JobsAssumption ==
    /\ NoValue \notin Nat /\ DecisionDay \in Nat \ {0}
    /\ RatesLimit \in Nat \ {0} /\ Lag \in Nat
    /\ NoValue \notin Calls \cup {"dead"} /\ "dead" \notin Calls
    /\ NoValue \notin Instances /\ LockTtl \in Nat \ {0}
    /\ DigestDay \in Nat \ {0} /\ WeekDays \in Nat \ {0} /\ MaxChanges \in Nat
    /\ {DailyAt, WeeklyAt} \cup TimeChoices \subseteq 0..2 * DigestDay - 1
    /\ HistoryTtl \in Nat \ {0} /\ Last \in Nat /\ Periods \subseteq Nat \cup {NoValue}
    /\ NoValue \notin [due : SUBSET Digest!Kinds, todo : SUBSET Digest!Kinds]
    /\ NoValue \notin [age : Nat, kept : Nat]
    /\ NoValue \notin
         [step : {"locking", "missed", "locked", "asking", "fetched", "saving", "answered"},
          age : Nat \cup {NoValue}, stale : BOOLEAN]

NoMonitor ==
    /\ hour = 0 /\ locked = FALSE /\ run = Idle /\ tx = NoValue
    /\ latest = NoValue /\ low = NoValue /\ rule = NoValue
    /\ queue = [s \in Slots |-> NoValue]
    /\ told = NoValue /\ repeats = 0 /\ wide = FALSE

NoDigest ==
    /\ now = NoValue /\ premium = NoValue /\ ran = NoValue
    /\ enabled = NoValue /\ time = NoValue /\ weekday = NoValue
    /\ lastAt = NoValue /\ sent = NoValue /\ gap = NoValue /\ steady = NoValue

NoHistory ==
    /\ clock = NoValue /\ past = NoValue /\ seen = NoValue /\ cached = NoValue
    /\ stored = NoValue /\ asking = NoValue /\ answer = NoValue

NoPolling ==
    running = NoValue /\ renewal = NoValue /\ owner = NoValue /\ left = NoValue /\ troubled = NoValue

JobsInit ==
    /\ Rates!Init
    /\ \/ part = "monitor" /\ Init /\ NoDigest
       \/ part = "digests" /\ Digest!Init /\ NoMonitor
       \/ /\ part \in {"decisions", "rates", "polling", "history"} /\ NoMonitor /\ NoDigest
          /\ job = NoValue /\ edits = 0 /\ faults = 0
    /\ IF part = "history" THEN History!Init ELSE NoHistory
    /\ IF part = "polling" THEN Polling!Init ELSE NoPolling
    /\ IF part = "decisions" THEN Decisions!Init ELSE input = NoValue

JobsNext ==
    /\ UNCHANGED part
    /\ \/ part = "monitor" /\ Next /\ UNCHANGED <<input, OfRates, OfPolling, OfDigests, OfHistory>>
       \/ part = "decisions" /\ Decisions!Next /\ UNCHANGED <<vars, OfRates, OfPolling, OfDigests, OfHistory>>
       \/ part = "rates" /\ Rates!Next /\ UNCHANGED <<vars, input, OfPolling, OfDigests, OfHistory>>
       \/ part = "polling" /\ Polling!Next /\ UNCHANGED <<vars, input, OfRates, OfDigests, OfHistory>>
       \/ part = "digests" /\ Digest!Next /\ UNCHANGED <<OnlyMonitor, input, OfRates, OfPolling, OfHistory>>
       \/ part = "history" /\ History!Next /\ UNCHANGED <<vars, input, OfRates, OfPolling, OfDigests>>

JobsSpec == JobsInit /\ [][JobsNext]_jobs

\* The monitor alone, with the fairness of PriceMonitor.
MonitorInit == part = "monitor" /\ JobsInit

MonitorLives == MonitorInit /\ [][JobsNext]_jobs /\ Fairness

\* Every variable is of its type: TypeOK of PriceMonitor and of the other parts.
JobsTypeOK ==
    /\ part = "monitor" => TypeOK
    /\ part = "digests" => Digest!TypeOK
    /\ part = "rates" => Rates!TypeOK
    /\ part = "polling" => Polling!TypeOK
    /\ part = "history" => History!TypeOK

\* QuietWaitIsExact on every input.
QuietWaitExact == part = "decisions" => Decisions!QuietWaitExact

\* MatchHasItsReason on every input.
MatchesHaveReasons == part = "decisions" => Decisions!MatchesHaveReasons

\* MovementIsToldOnce on every input.
MovementsToldOnce == part = "decisions" => Decisions!MovementsToldOnce

\* Rates without a mark are within their bound: UnmarkedWithinBound of CurrencyRates.
UnmarkedWithinBound == part = "rates" => Rates!UnmarkedWithinBound

\* The shared rates only get newer: SavesGoForward of CurrencyRates.
SavesGoForward == Rates!SavesGoForward

\* A history is true as far as its source knows: HistoryIsTrue of PriceHistory.
HistoryIsTrue == part = "history" => History!HistoryIsTrue

\* One instance polls unless a renewal failed: OnePoller of PollingLock.
OnePoller == part = "polling" => Polling!OnePoller

\* Digests keep their rhythm: DigestsKeepTime of Digests.
DigestsKeepTime == part = "digests" => Digest!DigestsKeepTime
=============================================================================
