---------------------------- MODULE PriceMonitor ----------------------------
(***************************************************************************)
(* PriceMonitor: the job that checks watched prices and alerts their       *)
(* owners, and the job that sends what quiet hours held back.              *)
(*                                                                         *)
(* One game in one region is watched by the rules in Rules, each of its    *)
(* own owner, so that the price history is shared between rules as it is   *)
(* in price_snapshots.  The database (rule, latest, low, queue) survives a *)
(* crash; the two jobs (run, tx, job) do not; the redis lock outlives its  *)
(* holder until its TTL runs out.  Every rule is processed in one          *)
(* transaction that sends the alert before it commits.                     *)
(*                                                                         *)
(* Steam is outside: every fetch may answer with any price, with none, or  *)
(* fail.  That covers prices that move and answers from the redis cache    *)
(* that are up to an hour old.                                             *)
(***************************************************************************)
EXTENDS NotificationRules

CONSTANTS
    Unknown,     \* a price not fetched yet
    Rules,       \* watch rules, one owner each
    Prices,      \* the price records Steam may answer with
    Premium,     \* the rules whose owner has Premium
    CheckHours,  \* [Rules -> Nat]: premium_check_hours or free_check_hours
    Quiet,       \* [Rules -> [on, start, end]]: the owner's quiet hours
    Settings0,   \* [Rules -> SUBSET settings]: a rule's possible first settings
    EditPrices,  \* target prices a user may type into an edit
    Slots,       \* bound: rows of deferred_notifications alive at once
    MaxFaults,   \* bound: failed or doubtful sends, lost commits, crashes, untimely edits
    MaxEdits     \* bound: edits by users

\* Steam names prices of one region in one currency: low, which the code takes
\* over the snapshots in the price's currency, is taken over all of them.
ASSUME OneCurrency == \A p, q \in Prices : p.currency = q.currency

VARIABLES
    hour,     \* the owners' local hour
    latest,   \* newest snapshot by checked_at
    low,      \* lowest final price over all snapshots
    rule,     \* watch_rules
    queue,    \* deferred_notifications not yet marked as sent
    locked,   \* lock:sync:prices exists in redis
    run,      \* the monitoring run in progress
    tx,       \* its open transaction, NoValue between transactions
    job,      \* send_deferred in progress
    told,     \* history: the alert each rule's owner got and may not get again
    repeats,  \* history: alerts that repeated one the owner already had
    wide,     \* history: some alert's reasons did not fit their column
    faults, edits  \* history: what the bounds MaxFaults and MaxEdits count

db == <<latest, low, rule, queue>>
history == <<told, repeats, wide, faults, edits>>
vars == <<hour, db, locked, run, tx, job, history>>

-----------------------------------------------------------------------------
Hours == 0..DayLength - 1
Amounts == Int \cup {NoValue}

SettingType ==
    [maxPrice : Amounts, minDiscount : Amounts, newLow : BOOLEAN, knownLow : BOOLEAN,
     anyDrop : BOOLEAN, dropAmount : Amounts, dropPercent : Amounts, policy : Policies]

ASSUME ConstantsAssumption ==
    /\ IsFiniteSet(Rules) /\ IsFiniteSet(Slots)
    /\ CheckHours \in [Rules -> Nat \ {0}]
    /\ Quiet \in [Rules -> [on : BOOLEAN, start : Hours, end : Hours]]
    /\ Settings0 \in [Rules -> SUBSET SettingType]
    /\ EditPrices \subseteq Int
    /\ MaxFaults \in Nat /\ MaxEdits \in Nat

Fingerprints == {Fingerprint(s, p) : s \in SUBSET ReasonNames, p \in Prices}

RuleType ==
    [there : BOOLEAN, maxPrice : Amounts, minDiscount : Amounts,
     lowOnly : BOOLEAN, newLow : BOOLEAN, knownLow : BOOLEAN, anyDrop : BOOLEAN,
     dropAmount : Amounts, dropPercent : Amounts,
     policy : Policies, on : BOOLEAN, fp : Fingerprints \cup {NoValue},
     met : BOOLEAN, notified : BOOLEAN, age : Nat]

QueueType == [rule : Rules, fp : Fingerprints, reached : BOOLEAN, wait : 0..DayLength]

Idle == [on |-> FALSE]
RunType ==
    [on : {TRUE}, hour : Hours, price : Prices \cup {NoValue, Unknown},
     low : {p.final : p \in Prices} \cup {NoValue}, refreshed : BOOLEAN, todo : SUBSET Rules]
JobType == [on : {TRUE}, todo : SUBSET Slots, sent : SUBSET Slots]

\* A transaction that has read its rule, and one that has decided what to do.
Reading == [rule : Rules, read : RuleType, way : {"read"}, sent : {FALSE}]
Decided ==
    [rule : Rules, read : RuleType, reasons : SUBSET ReasonNames, fp : Fingerprints,
     changed : BOOLEAN, sent : BOOLEAN, way : {"skip", "queue", "send"}]

ASSUME NoRowAssumption == NoValue \notin Fingerprints \cup QueueType \cup Reading \cup Decided

TypeOK ==
    /\ hour \in Hours
    /\ latest \in Prices \cup {NoValue}
    /\ low \in {p.final : p \in Prices} \cup {NoValue}
    /\ rule \in [Rules -> RuleType]
    /\ \A r \in Rules : rule[r].age <= CheckHours[r]
    /\ queue \in [Slots -> QueueType \cup {NoValue}]
    /\ locked \in BOOLEAN
    /\ run \in RunType \cup {Idle}
    /\ tx \in Reading \cup Decided \cup {NoValue}
    /\ job \in JobType \cup {Idle}
    /\ told \in [Rules -> Fingerprints \cup {NoValue}]
    /\ repeats \in 0..MaxFaults + 1 /\ wide \in BOOLEAN
    /\ faults \in 0..MaxFaults /\ edits \in 0..MaxEdits

\* A row as _save_watch inserts it, with the settings s; last_checked_at is
\* NULL, which is as old as a check can be.
NewRule(r, s) ==
    [there |-> TRUE, maxPrice |-> s.maxPrice, minDiscount |-> s.minDiscount,
     lowOnly |-> FALSE, newLow |-> s.newLow, knownLow |-> s.knownLow,
     anyDrop |-> s.anyDrop, dropAmount |-> s.dropAmount,
     dropPercent |-> s.dropPercent, policy |-> s.policy, on |-> TRUE,
     fp |-> NoValue, met |-> FALSE, notified |-> FALSE, age |-> CheckHours[r]]

Init ==
    /\ hour = 0
    /\ latest = NoValue /\ low = NoValue
    /\ \E s \in [Rules -> UNION {Settings0[r] : r \in Rules}] :
          /\ \A r \in Rules : s[r] \in Settings0[r]
          /\ rule = [r \in Rules |-> NewRule(r, s[r])]
    /\ queue = [s \in Slots |-> NoValue]
    /\ locked = FALSE /\ run = Idle /\ tx = NoValue /\ job = Idle
    /\ told = [r \in Rules |-> NoValue]
    /\ repeats = 0 /\ wide = FALSE /\ faults = 0 /\ edits = 0

-----------------------------------------------------------------------------
(* Time.                                                                   *)

\* An hour passes.  Bound: a run crosses at most one full hour.
Tick ==
    /\ run.on => hour = run.hour
    /\ hour' = (hour + 1) % DayLength
    /\ rule' = [r \in Rules |->
                   [rule[r] EXCEPT !.age = IF @ < CheckHours[r] THEN @ + 1 ELSE @]]
    /\ queue' = [s \in Slots |->
                   IF queue[s] = NoValue \/ queue[s].wait = 0 THEN queue[s]
                   ELSE [queue[s] EXCEPT !.wait = @ - 1]]
    /\ UNCHANGED <<latest, low, locked, run, tx, job, history>>

-----------------------------------------------------------------------------
(* Ghost bookkeeping of what owners have been told.                        *)

\* By the rule's repeat policy its owner has had this alert already.
AlreadyTold(r, fp) ==
    IF rule[r].policy = "on_change" THEN told[r] = fp ELSE told[r] # NoValue

\* Outcomes of _send_notification: how many copies reached the owner and
\* whether it returned normally.  A photo that times out after delivery is
\* followed by a text message, so two copies are possible; an exception may
\* also hide a delivered message.
SendOutcomes == {o \in [copies : 0..2, ok : BOOLEAN] : o.ok => o.copies > 0}

\* Copies the bot does not know of, and at least one fault for a failed send.
FaultsOf(o) ==
    LET unknown == o.copies - (IF o.ok THEN 1 ELSE 0)
    IN IF o.ok \/ unknown > 0 THEN unknown ELSE 1

\* Bound: repeats counts no further than one above MaxFaults.
Repeated(n) == repeats' = Min({repeats + n, MaxFaults + 1})

\* Copies beyond the first one the owner should have had.
RepeatsOf(o, before) ==
    IF o.copies = 0 THEN 0 ELSE IF before THEN o.copies ELSE o.copies - 1

-----------------------------------------------------------------------------
(* run: take the redis lock, select the rules, check the due ones in turn. *)

\* A rule is due when its age at the start of the run reaches its plan's
\* interval.  The lowest stored price read in this run is the one of before
\* the run, since its own snapshots carry the run's start as checked_at.
\* Bound: the run starts with room in queue for one row per rule.
RunStart ==
    /\ ~locked /\ ~run.on
    /\ Cardinality({s \in Slots : queue[s] = NoValue}) >= Cardinality(Rules)
    /\ locked' = TRUE
    /\ run' = [on |-> TRUE, hour |-> hour, price |-> Unknown, low |-> low,
               refreshed |-> FALSE,
               todo |-> {r \in Rules : rule[r].there /\ rule[r].age = CheckHours[r]}]
    /\ UNCHANGED <<hour, db, tx, job, history>>

\* The first rule of a (game, country) fetches the price for all of them.
Fetch ==
    /\ run.on /\ tx = NoValue /\ run.todo # {} /\ run.price = Unknown
    /\ \E price \in Prices \cup {NoValue} : run' = [run EXCEPT !.price = price]
    /\ UNCHANGED <<hour, db, locked, tx, job, history>>

\* All attempts failed: the rule is passed over and the next one tries again.
FetchFails ==
    /\ run.on /\ tx = NoValue /\ run.todo # {} /\ run.price = Unknown
    /\ faults < MaxFaults /\ faults' = faults + 1
    /\ \E r \in run.todo : run' = [run EXCEPT !.todo = @ \ {r}]
    /\ UNCHANGED <<hour, db, locked, tx, job, told, repeats, wide, edits>>

QuietNow(r) == Quiet[r].on /\ IsQuiet(run.hour, Quiet[r].start, Quiet[r].end)

\* What _process decides about rule r from the row it read, the history and the
\* run's price.  send, queue and skip are its three ways to the commit.
Decision(r, read) ==
    LET price   == run.price
        reasons == Reasons(read, r \in Premium, price, latest, run.low, 1)
        fp      == Fingerprint(reasons, price)
        alert   == /\ reasons # {}
                   /\ ~IsDuplicate(read, fp, reasons)
                   /\ read.on
    IN [rule |-> r, read |-> read, reasons |-> reasons, fp |-> fp,
        changed |-> PriceChanged(latest, price), sent |-> FALSE,
        way |-> IF ~alert THEN "skip" ELSE IF QuietNow(r) THEN "queue" ELSE "send"]

\* The age a rule gets: last_checked_at becomes the start of the run.
AgeNow == IF hour = run.hour THEN 0 ELSE 1

Checked(r) == [rule EXCEPT ![r].age = AgeNow]

\* Open the transaction of a rule and read its row.  A deleted rule raises and
\* is passed over; without a price only the check itself is recorded.
Begin ==
    /\ run.on /\ tx = NoValue /\ run.price # Unknown
    /\ \E r \in run.todo :
          IF ~rule[r].there
          THEN run' = [run EXCEPT !.todo = @ \ {r}] /\ UNCHANGED <<rule, tx>>
          ELSE IF run.price = NoValue
          THEN /\ run' = [run EXCEPT !.todo = @ \ {r}]
               /\ rule' = Checked(r)
               /\ UNCHANGED tx
          ELSE /\ tx' = [rule |-> r, read |-> rule[r], way |-> "read", sent |-> FALSE]
               /\ UNCHANGED <<rule, run>>
    /\ UNCHANGED <<hour, latest, low, queue, locked, job, history>>

EndTx == tx' = NoValue /\ run' = [run EXCEPT !.todo = @ \ {tx.rule}]

\* The first query after the read flushes last_checked_at, which locks the row
\* until the transaction ends, or raises when the row is gone.
LockRule ==
    /\ tx # NoValue /\ tx.way = "read"
    /\ IF rule[tx.rule].there
       THEN tx' = Decision(tx.rule, tx.read) /\ UNCHANGED run
       ELSE EndTx
    /\ UNCHANGED <<hour, db, locked, job, history>>

\* The transaction is about to commit.
Ready == tx # NoValue /\ tx.way # "read" /\ (tx.way = "send" => tx.sent)

\* The commit writes a column of r only where it differs from what was read.
Written(r, column, value) ==
    IF value = tx.read[column] THEN rule[r][column] ELSE value

\* Mutant of Send: exceptions of the bot are swallowed.
SendSwallowsErrors ==
    /\ tx # NoValue /\ tx.way = "send" /\ ~tx.sent
    /\ \E o \in SendOutcomes :
          /\ faults + FaultsOf(o) <= MaxFaults
          /\ faults' = faults + FaultsOf(o)
          /\ Repeated(RepeatsOf(o, AlreadyTold(tx.rule, tx.fp)))
          /\ told' = IF o.copies = 0 THEN told ELSE [told EXCEPT ![tx.rule] = tx.fp]
          /\ tx' = [tx EXCEPT !.sent = TRUE]
    /\ UNCHANGED <<hour, db, locked, run, job, wide, edits>>

\* Send the alert; an exception rolls the whole transaction back.
Send ==
    /\ tx # NoValue /\ tx.way = "send" /\ ~tx.sent
    /\ \E o \in SendOutcomes :
          /\ faults + FaultsOf(o) <= MaxFaults
          /\ faults' = faults + FaultsOf(o)
          /\ Repeated(RepeatsOf(o, AlreadyTold(tx.rule, tx.fp)))
          /\ told' = IF o.copies = 0 THEN told ELSE [told EXCEPT ![tx.rule] = tx.fp]
          /\ IF o.ok THEN tx' = [tx EXCEPT !.sent = TRUE] /\ UNCHANGED run ELSE EndTx
    /\ UNCHANGED <<hour, db, locked, job, wide, edits>>

\* Mutant of Notified: last_notification_fingerprint is not stored.
NotifiedWithoutFingerprint(r) ==
    [Checked(r) EXCEPT ![r].met = Written(r, "met", TRUE), ![r].notified = TRUE]

\* The columns an alert sets on its rule.
Notified(r) ==
    [Checked(r) EXCEPT ![r].fp = Written(r, "fp", tx.fp),
                       ![r].met = Written(r, "met", TRUE),
                       ![r].notified = TRUE]

\* The columns a check without reasons sets.
Unmet(r) ==
    [Checked(r) EXCEPT ![r].met = Written(r, "met", FALSE),
                       ![r].fp = IF tx.read.policy = "once" THEN @
                                 ELSE Written(r, "fp", NoValue)]

\* A snapshot dated at the start of the run: it becomes the newest unless a
\* user's refresh has stored a later one meanwhile.
AddSnapshot ==
    /\ latest' = IF tx.changed /\ ~run.refreshed THEN run.price ELSE latest
    /\ low' = IF tx.changed /\ (low = NoValue \/ run.price.final < low)
              THEN run.price.final ELSE low

FreeSlot == CHOOSE s \in Slots : queue[s] = NoValue

QueueRow(r) ==
    [rule |-> r, fp |-> tx.fp, reached |-> FALSE,
     wait |-> LET w == QuietWait(run.hour, Quiet[r].start, Quiet[r].end)
              IN IF hour = run.hour THEN w ELSE w - 1]

\* The names of the reasons must fit last_notification_type.
Fits == TypeLength(tx.reasons) <= TypeWidth

Commit ==
    /\ Ready /\ (tx.way # "skip" => Fits)
    /\ AddSnapshot
    /\ LET r == tx.rule IN
       \/ /\ tx.reasons = {}
          /\ rule' = Unmet(r)
          /\ told' = IF rule[r].policy = "once" THEN told ELSE [told EXCEPT ![r] = NoValue]
          /\ UNCHANGED <<queue, repeats>>
       \/ /\ tx.reasons # {} /\ tx.way = "skip"
          /\ rule' = Checked(r) /\ UNCHANGED <<queue, told, repeats>>
       \/ /\ tx.way = "send"
          /\ rule' = Notified(r) /\ UNCHANGED <<queue, told, repeats>>
       \/ /\ tx.way = "queue"
          /\ rule' = Notified(r)
          /\ queue' = [queue EXCEPT ![FreeSlot] = QueueRow(r)]
          /\ Repeated(IF AlreadyTold(r, tx.fp) THEN 1 ELSE 0)
          /\ told' = [told EXCEPT ![r] = tx.fp]
    /\ EndTx
    /\ UNCHANGED <<hour, locked, job, faults, wide, edits>>

\* The database refuses the commit because the reasons do not fit: nothing of
\* the transaction is kept, what was sent stays sent.
CommitTooWide ==
    /\ Ready /\ tx.way # "skip" /\ ~Fits
    /\ EndTx /\ wide' = TRUE
    /\ UNCHANGED <<hour, db, locked, job, told, repeats, faults, edits>>

\* The commit fails for a reason of the database's own (a lost connection, a
\* deadlock with a user's edit).
CommitFails ==
    /\ Ready
    /\ faults < MaxFaults /\ faults' = faults + 1
    /\ EndTx
    /\ UNCHANGED <<hour, db, locked, job, told, repeats, wide, edits>>

RunEnd ==
    /\ run.on /\ tx = NoValue /\ run.todo = {}
    /\ run' = Idle /\ locked' = FALSE
    /\ UNCHANGED <<hour, db, tx, job, history>>

-----------------------------------------------------------------------------
(* send_deferred: select the rows that are due, send each, mark the ones   *)
(* that went out in one commit at the end.                                 *)

JobStart ==
    /\ ~job.on
    /\ LET due == {s \in Slots : queue[s] # NoValue /\ queue[s].wait = 0}
       IN due # {} /\ job' = [on |-> TRUE, todo |-> due, sent |-> {}]
    /\ UNCHANGED <<hour, db, locked, run, tx, history>>

JobSend ==
    /\ job.on
    /\ \E s \in job.todo, o \in SendOutcomes :
          /\ faults + FaultsOf(o) <= MaxFaults
          /\ faults' = faults + FaultsOf(o)
          /\ Repeated(RepeatsOf(o, queue[s].reached))
          /\ queue' = [queue EXCEPT ![s].reached = @ \/ o.copies > 0]
          /\ job' = [job EXCEPT !.todo = @ \ {s},
                                !.sent = IF o.ok THEN @ \cup {s} ELSE @]
    /\ UNCHANGED <<hour, latest, low, rule, locked, run, tx, told, wide, edits>>

\* Mutant of JobCommit: every selected row counts as sent.
JobCommitAll ==
    /\ job.on /\ job.todo = {}
    /\ queue' = [s \in Slots |->
                   IF queue[s] # NoValue /\ queue[s].wait = 0 THEN NoValue ELSE queue[s]]
    /\ job' = Idle
    /\ UNCHANGED <<hour, latest, low, rule, locked, run, tx, history>>

\* Mutant of JobCommit: the commit is missing.
JobCommitMissing ==
    /\ job.on /\ job.todo = {}
    /\ job' = Idle
    /\ UNCHANGED <<hour, db, locked, run, tx, history>>

JobCommit ==
    /\ job.on /\ job.todo = {}
    /\ queue' = [s \in Slots |-> IF s \in job.sent THEN NoValue ELSE queue[s]]
    /\ job' = Idle
    /\ UNCHANGED <<hour, latest, low, rule, locked, run, tx, history>>

-----------------------------------------------------------------------------
(* Crash: both jobs and the open transaction vanish, the redis lock stays  *)
(* until its TTL ends.                                                     *)

\* Messages that went out and whose record a crash would lose; a crash that
\* loses none still counts as one fault.
LostByCrash ==
    LET inTx  == IF tx # NoValue /\ tx.sent THEN 1 ELSE 0
        inJob == IF job.on THEN Cardinality(job.sent) ELSE 0
    IN IF inTx + inJob = 0 THEN 1 ELSE inTx + inJob

Crash ==
    /\ run.on \/ job.on
    /\ faults + LostByCrash <= MaxFaults
    /\ faults' = faults + LostByCrash
    /\ run' = Idle /\ tx' = NoValue /\ job' = Idle
    /\ UNCHANGED <<hour, db, locked, told, repeats, wide, edits>>

\* Mutant of LockExpires: the redis lock is taken without a TTL.
LockNeverExpires == FALSE /\ UNCHANGED vars

LockExpires ==
    /\ locked /\ ~run.on /\ locked' = FALSE
    /\ UNCHANGED <<hour, db, run, tx, job, history>>

-----------------------------------------------------------------------------
(* Users.  Each handler is one transaction; the row lock of the monitor's  *)
(* transaction keeps it off that rule.  An edit that comes between the     *)
(* monitor's read of the row and its lock counts as a fault.               *)

Editable(r) ==
    /\ edits < MaxEdits /\ edits' = edits + 1
    /\ rule[r].there
    /\ IF tx # NoValue /\ tx.rule = r
       THEN tx.way = "read" /\ faults < MaxFaults /\ faults' = faults + 1
       ELSE UNCHANGED faults

KeepOnce(r) == IF rule[r].policy = "once" THEN told ELSE [told EXCEPT ![r] = NoValue]

\* watch_edit_value: a new target price, stored alerts are forgotten except
\* that the rule has alerted before.
WatchEditValue(r) ==
    /\ Editable(r)
    /\ \E p \in EditPrices :
          rule' = [rule EXCEPT ![r].maxPrice = p, ![r].minDiscount = NoValue,
                               ![r].fp = NoValue, ![r].met = FALSE]
    /\ told' = KeepOnce(r)
    /\ UNCHANGED <<hour, latest, low, queue, locked, run, tx, job,
                   repeats, wide>>

\* filter_toggle and filter_value_save: a Premium condition changes and the
\* rule starts afresh.
FilterToggle(r) ==
    /\ Editable(r) /\ r \in Premium
    /\ \/ rule' = [rule EXCEPT ![r].anyDrop = ~@, ![r].fp = NoValue,
                                ![r].met = FALSE, ![r].notified = FALSE]
       \/ rule' = [rule EXCEPT ![r].knownLow = ~@, ![r].fp = NoValue,
                                ![r].met = FALSE, ![r].notified = FALSE]
    /\ told' = [told EXCEPT ![r] = NoValue]
    /\ UNCHANGED <<hour, latest, low, queue, locked, run, tx, job,
                   repeats, wide>>

NextPolicy == [on_change |-> "reentry", reentry |-> "once", once |-> "on_change"]

\* filter_repeat: the next repeat policy, and the rule starts afresh.
FilterRepeat(r) ==
    /\ Editable(r) /\ r \in Premium
    /\ rule' = [rule EXCEPT ![r].policy = NextPolicy[@], ![r].fp = NoValue,
                            ![r].met = FALSE, ![r].notified = FALSE]
    /\ told' = [told EXCEPT ![r] = NoValue]
    /\ UNCHANGED <<hour, latest, low, queue, locked, run, tx, job,
                   repeats, wide>>

\* watch_notifications: the rule's own switch.
WatchNotifications(r) ==
    /\ Editable(r)
    /\ rule' = [rule EXCEPT ![r].on = ~@]
    /\ UNCHANGED <<hour, latest, low, queue, locked, run, tx, job,
                   told, repeats, wide>>

\* watch_delete.  Alerts already queued stay queued.
WatchDelete(r) ==
    /\ Editable(r)
    /\ rule' = [rule EXCEPT ![r].there = FALSE]
    /\ UNCHANGED <<hour, latest, low, queue, locked, run, tx, job,
                   told, repeats, wide>>

\* watch_refresh: fetch past the cache and store a snapshot dated now, changed
\* or not.
WatchRefresh(r) ==
    /\ edits < MaxEdits /\ edits' = edits + 1
    /\ rule[r].there
    /\ \E price \in Prices :
          /\ latest' = price
          /\ low' = IF low = NoValue \/ price.final < low THEN price.final ELSE low
    /\ run' = IF run.on THEN [run EXCEPT !.refreshed = TRUE] ELSE run
    /\ UNCHANGED <<hour, rule, queue, locked, tx, job, told, repeats, wide, faults>>

-----------------------------------------------------------------------------
Monitor == RunStart \/ Fetch \/ Begin \/ LockRule \/ Send \/ Commit \/ CommitTooWide \/ RunEnd

Deferred == JobStart \/ JobSend \/ JobCommit

Faults == FetchFails \/ CommitFails \/ Crash

Users ==
    \E r \in Rules :
        \/ WatchEditValue(r) \/ FilterToggle(r) \/ FilterRepeat(r)
        \/ WatchNotifications(r) \/ WatchDelete(r) \/ WatchRefresh(r)

World == Tick \/ LockExpires

Next == Monitor \/ Deferred \/ Faults \/ Users \/ World

Spec == Init /\ [][Next]_vars

\* The scheduler keeps starting the jobs and the event loop keeps running
\* them; time passes and locks expire.  Nothing is assumed of users.
Fairness ==
    /\ WF_vars(Monitor) /\ WF_vars(Deferred)
    /\ WF_vars(Tick) /\ WF_vars(LockExpires)

FairSpec == Spec /\ Fairness

-----------------------------------------------------------------------------
(* Properties.                                                             *)

\* Protection against repeated alerts: under every repeat policy, through
\* edits, quiet hours and both jobs, an owner gets an alert again only where a
\* fault hid an earlier delivery from the database, or where he edited the rule
\* between the monitor's read and its lock: at most one repeat for each
\* doubtful send, lost commit, message lost by a crash or edit of that kind.
\* It holds as long as the reasons of every alert fit last_notification_type.
RepeatsNeedFaults == ~wide => repeats <= faults

\* The same without that exception, as the README promises it: protection
\* against repeated notifications, one notification for several conditions.
NoRepeatedAlert == repeats <= faults

\* repeat_on_change says "when values change": the next alert of such a rule,
\* with no check in between that found its conditions unmet, shows another
\* price, discount or currency than the last one.
AlertOnlyWhenValuesChange ==
    [][\A r \in Rules :
          /\ rule[r].policy = "on_change"
          /\ told[r] # NoValue /\ told'[r] # NoValue /\ told'[r] # told[r]
          => \E field \in {"final", "discount", "currency"} :
                told[r][field] # told'[r][field]]_vars

\* The queue of quiet hours loses nothing: a row leaves it only after its
\* alert reached the owner, whatever fails, crashes or is deleted meanwhile.
QueuedAlertsSurvive ==
    [][\A s \in Slots :
          queue[s] # NoValue /\ queue'[s] = NoValue => queue[s].reached]_vars

\* What is queued is sent: no row stays in the queue for ever, although the
\* job that sends it may fail, and crash between its sends and its commit.
QueuedAlertIsDelivered ==
    \A s \in Slots : queue[s] # NoValue ~> queue[s] = NoValue

\* Every watched rule is checked again and again: a failing fetch, a lost
\* commit or a crash that leaves the redis lock behind delays it only.
DueRuleIsChecked ==
    \A r \in Rules :
        <>[](~rule[r].there)
        \/ []<><<run.on /\ r \in run.todo /\ run'.on /\ r \notin run'.todo
                 /\ rule'[r].age = AgeNow>>_vars

\* The price that is below every target of the instance.
PriceStaysLow(r) ==
    /\ rule[r].there /\ rule[r].on
    /\ run.on /\ run.price \notin {Unknown, NoValue} =>
          AtMost(run.price.final, rule[r].maxPrice)
    /\ run.on => run.price # NoValue

\* A wish that comes true is told: when the game stays at or below a rule's
\* target from some moment on, its owner has an alert for good, sent at once
\* or queued, no matter what failed before.
MetRuleIsAlerted ==
    \A r \in Rules : <>[]PriceStaysLow(r) => <>[](told[r] # NoValue)
=============================================================================
