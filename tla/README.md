# DealDock in TLA+

DealDock is a Telegram bot that watches Steam prices for its users, tells them
when a wish comes true, sends deal broadcasts, giveaways and digests, and sells
Premium. It is one Python process (aiogram, SQLAlchemy's async sessions,
APScheduler, httpx) on one event loop, with PostgreSQL for what must last and redis
for locks, caches and dialogue state. This directory models the parts whose
correctness depends on *order*: what is sent before it is stored, what is read
before an `await` and written after it, what a crash leaves behind, and which of the
messages and states of a dialogue fit together.

Paths below are relative to `src/steam_radar/` unless they name a test, a migration
or README.md of the repository.

## 1. Inventory

| component | state it keeps | operations | hard behaviours | what makes it correct |
|---|---|---|---|---|
| PriceMonitor (`services/monitor.py`) | `watch_rules`, `price_snapshots`, `deferred_notifications`, `notification_logs`; redis `lock:sync:prices` | `run`, `_process`, `send_deferred`, decisions about reasons, repetition and quiet hours | sends before it commits; retries; handlers edit the rule meanwhile; a lock that outlives a crash | no alert twice without a fault, none lost, every rule checked again and again |
| Watch rule handlers (`bot/handlers.py`) | `watch_rules` | add, edit, filter, repeat, mute, delete, refresh | race the monitor and each other; the limit on rules under a lock | edits never cause a repeated or a lost alert; the limit holds |
| Dialogues (`bot/handlers.py`, `bot/admin.py`, `bot/states.py`, `bot/keyboards.py`) | aiogram's FSM state and data in redis, the messages in the chat, `deals:state` in redis | some hundred and fifty handlers of commands, texts and presses | several handlers of one user at once; a state set by one statement and shown by another; screens that share buttons; old messages | what is asked for is heard by the handler meant, buttons of the newest message work, what is confirmed is what was shown |
| DealBroadcastService (`services/deal_broadcast.py`) | `deal_broadcast_runs`, `deal_broadcast_recipients`; redis lock per run; an asyncio task | `create_run`, `resume_active`, `run`, `_process_user`, `_send_page`, `_finish` | crash between send and record; resumption; users who come, go and are deleted | a page is repeated only after a fault, recorded pages arrived, "completed" left nobody out, the report adds up, the run ends |
| Premium (`services/premium.py`, `bot/handlers.py`, `bot/admin.py`, `db/models.py`) | `users.plan`, `premium_until`, ...; `payments` | `payment_success`, admin changes, `expire_subscriptions` | the same row read and written by overlapping sessions; updates delivered twice | no free days, no lost days, a payer is Premium |
| ReferralService (`services/referrals.py`) | `referrals`, `referral_rewards`, `referral_milestone_awards` | register, activate, award levels | two friends activated at once | levels awarded when reached, days add up |
| Scheduler (`scheduler.py`), start and stop (`main.py`) | APScheduler's memory | the jobs; resume, initial sync, cancel | overlapping and missed runs, restart | jobs keep running, one instance each |
| CurrencyService (`services/currency.py`) | rates in redis and the database | refresh, convert | two copies, a refresh lock, staleness, answers out of order | rates in use are never older than allowed, newer ones never give way to older |
| SyncCoordinator and giveaways (`services/sync.py`, `giveaways.py`, `giveaway_notifications.py`) | `sync_runs`, `giveaways`, `giveaway_notification_logs`; redis lock | full and giveaway sync; notifications; manual giveaways, settings | the lock taken outside of `try`; overlapping callers; sent before logged; terms that change | one message per user, giveaway and terms up to faults; what is wanted arrives; nobody overwrites a newer feed; locks come back |
| DigestService (`services/digest.py`), plain broadcast (`bot/admin.py`) | `users.daily_digest_last_at`, `weekly_digest_last_at` | `send_due`, broadcast | one commit for all users, a window of 15 minutes | one digest per user and day or week |
| PriceHistoryService (`services/price_history.py`), IsThereAnyDeal (`services/itad.py`) | redis and database copies of histories and lows; own snapshots | fetch, read through | copies that differ after an error; collapsing and cutting | a history tells the true price of every moment its source knew |
| Polling lock, health (`services/runtime.py`) | redis lease | acquire, renew, release | a lease that is lost while polling goes on | one instance polls |
| Premium tools: analytics, history, RegionComparison (`bot/handlers.py`, `services/region_comparison.py`) | the selected regions in the FSM's data; snapshots stored by the handler | select, compare, draw | handlers that read, wait and write one set of regions; one region of many fails | the limit of regions holds, the buttons shown work |
| Steam, catalogue, RAWG clients (`services/steam.py`, `steam_catalog.py`, `rawg.py`, `game_search.py`) | redis caches | fetch, search | external answers | ranking and normalisation |
| Price analysis, charts, analytics, keyboards, texts | none | pure | | small pure calculations |
| Backup (`services/backup.py`), configuration | files | dump, rotate | | I/O only |

Interactions: the scheduler calls the jobs of the monitor, the premium service, the
digest, the giveaways and the sync. The monitor asks the Steam client (through a
redis cache of an hour) and the currency service. `_save_watch` calls referral
activation. Handlers, jobs and broadcast tasks share nothing but the database
and redis, and interleave at every `await`. Quiet hours link the monitor and the
broadcast to `send_deferred` through `deferred_notifications`.

`PROJECT.json` lists every component with its status, and under `hazards` each place
at which this code is hard to test, with the properties that speak about it or the
reason why none does.

## 2. Modules

| module | what it is |
|---|---|
| `NotificationRules` | the decisions of the monitor as operators: reasons, matches, fingerprint, duplicates, quiet hours |
| `PriceMonitor` | extends it: `run` and `_process`, `send_deferred`, the handlers that edit a rule, time, crashes |
| `DealBroadcast` | the deal broadcast: runs, recipients, tasks, restarts |
| `PremiumLedger` | payments, referrals, administrators' changes and the expiry job on the Premium columns of `users` |
| `GiveawayNews` | the giveaways: hourly and full sync, the notification job, settings and manual giveaways |
| `Delivery` | the abstract specification that the broadcast and the giveaways implement: sent, then noted, repeated only after a fault |
| `Digests` | the job of the daily and weekly digests, and the screens that change them |
| `CurrencyRates` | `CurrencyService.rates`: two copies, a provider, a lock, several callers |
| `PriceHistory` | `PriceHistoryService.get_history`: four sources of one history, collapsed and cut |
| `PollingLock` | the lease that keeps two instances from polling |
| `Dialog` | what the dialogues share: the FSM, the messages in the chat, panels, what editing and sending do to them |
| `Keyboards` | the buttons that each constructor of `bot/keyboards.py` puts under a message |
| `WatchDialogs`, `UserDialogs`, `AdminDialogs`, `PremiumTools` | the handlers of `bot/handlers.py` and `bot/admin.py`, each over `Dialog` |
| `..._proofs` | the theorems about the module of that name, and their proofs |
| `MCNotificationRules`, `MCPriceMonitor`, `MCPremiumLedger` | instances of one module |
| `MCJobs`, `MCDialogs`, `MCPremium`, `MCDealBroadcast`, `MCGiveawayNews` | what TLC runs; the first three hold several instances, whose constants the configurations give, so that the theorems are about the same modules for all values |

### NotificationRules

`_matches`, `_notification_reasons`, `_fingerprint`, `_is_duplicate`, `is_quiet` and
`_quiet_until` without their I/O. Prices are whole numbers; a conversion into a
rule's currency is a factor or `NoValue` when it failed. A notification type is the
set of its reasons, and its length in characters (`TypeLength`) is kept because the
column that stores it is 30 wide. Hours stand for the local time of the owner;
`DayLength` is a constant.

### PriceMonitor

One game in one region, watched by the rules in `Rules`, one owner each. Rules
share `latest` and `low`, the newest and the lowest stored price.

| code | model |
|---|---|
| `run`: lock, due rules | `RunStart`; due is "age reached the interval of the plan" |
| one fetch per game and region, cached for the run | `Fetch`, `FetchFails` |
| `_process` up to the read of the rule | `Begin` |
| the flush of `last_checked_at` before the next query, which locks the row | `LockRule`, and with it `Decision` |
| sending | `Send`, with copies the bot does not know of |
| the commit | `Commit`, `CommitTooWide`, `CommitFails` |
| `send_deferred` | `JobStart`, `JobSend`, `JobCommit` |
| handlers | `WatchEditValue`, `FilterToggle`, `FilterRepeat`, `WatchNotifications`, `WatchDelete`, `WatchRefresh` |
| SIGKILL; TTL of the redis lock | `Crash`, `LockExpires` |

Everything between a rule's lock and the send is local to the transaction, so
that it is one step. The commit writes only columns that differ from what was
read (`Written`): what SQLAlchemy flushes. `told` and `repeats` are history: `told`
is the alert that the owner has had and, by his repeat policy, may not get again;
it is cleared where the code's promise starts afresh (an edit that resets the
rule, a check that finds the conditions unmet).

A handler is one step: it is a single short transaction with no send inside.
Steam is the environment, and may answer anything.

### DealBroadcast

A task is the control point of `run` and its local variables: `wait`, `batch`,
`users`, `send`, `record`, `failing`. The rows survive a crash, the tasks do not.
The deals of a user are abstracted to a number of pages; a page is an index.
`SendPage` has all four outcomes of `_send_page`, each with up to three deliveries
hidden by an exception that a retry answered. `Crash` leaves the lock behind,
`Shutdown` does not (the `finally` of a cancelled task releases it). `entitled` and `seen`
are history: who watched from the creation of the run on, and which pages
reached whom.

### PremiumLedger

A day is the unit of time. Every operation is an ORM session of two or three
steps: read, (lock or insert,) commit; `Flushed` writes the changed columns over
whatever the row has become. Locks: `activate_if_eligible` locks the referral and the
inviter's row, `INSERT ... ON CONFLICT DO NOTHING` waits for a concurrent insert of the
same charge, and the foreign key of an inserted payment keeps its user from being
locked `FOR UPDATE`. `granted` is history: the days somebody granted, each
charge and each referral once.

### GiveawayNews

| code | model |
|---|---|
| `sync_giveaways`: lock, fetch, one transaction, release | `SyncBegin`, `SyncFetch`, `SyncSave`, `SyncRelease`; `SyncFails`, `SyncReleaseFails` |
| `full_sync`: lock and `_start_run`, prices, giveaways, `_finish_run`, `except`, `finally` | `FullStart`, `FullPrices`, `FullFinish`, `FullFail`; `FullStartFails`, `FullRaises`, `FullFailUnrecorded`, `FullReleaseFails` |
| `GiveawayNotificationService.run`: users and giveaways, the log, the send, the insert | `NewsStart`, `NewsSkip`, `NewsSend`, `NewsLog`, `NewsEnd`; `NewsSendFails`, `NewsLogFails`, `NewsFails` |
| handlers of users and administrators | `Toggle`, `ChooseKinds`, `AddManual`, `FullRequested`, `DeleteUser`; `PremiumChanges` |
| stop, start, TTLs, clock | `Stop`, `Restart`, `LockExpires`, `Tick` |

`sync` says for each of the two callers (the job, the task of a full run) where its
call is. A giveaway is its id and its *terms* (kind and end): what `fingerprint` tells
apart, so that a message is a user, an id and terms. Titles, links and pictures do
not matter to anybody but the reader. The order in which `run` goes through users and
giveaways is left open. `got` and `repeats` are history.

Premium decides which kinds a user is told, and is looked up late, from a row read
early: `NewsStart` lets it lapse for any of them.

### Delivery

Messages are sent, and noted afterwards. A message that is noted or in flight is
not sent; a fault may lose a note, or hide a delivery. `AtMostOncePerFault` is what
this buys. Both senders are instances of it:

| `Delivery` | `DealBroadcast` | `GiveawayNews` |
|---|---|---|
| `Messages` | run, user, page | user, giveaway, terms |
| `got` | pages below `seen` | `got` |
| `noted` | pages below `message_count`; those of deleted users, but for one on its way | `log`, and the messages of deleted users |
| `flight` | the page sent and not recorded by its task | the message sent and not logged |

### Digests

One user, with both kinds of digest. The job reads all users, sends, and commits once at
the end, so that a failure for anybody (`RunFails`) forgets what was sent. Time goes in
*slots*, two to an hour: the first quarter, in which the job finds what is due, and the rest.
`gap` and `steady` are history: how long after the last digest one was sent, and for how long
neither a setting nor a fault disturbed a kind.

### CurrencyRates

A set of rates is its *age*. `Ask`, `Lock`, `LockMissed`, `Shared`, `Recheck`, `ProviderAnswers`,
`ProviderFails`, `SaveRedis`, `SaveDatabase` are the steps of `rates` between its awaits, with each
exception and the `finally` that releases the lock. An age counts hours and a call
takes seconds: an hour passes between calls only, but a lock may expire in one.

### PriceHistory

A history is a function from moments to prices. The model keeps the true prices (`past`), and with each
copy the moments it is to know (`knows`), so that what `_collapse` and `_filter` did to
an answer can be compared with the truth.

### PollingLock

Seconds, the lease, and for each instance the time to its next renewal. `troubled` are those
whose renewal failed or came late, of which polling hears nothing.

### Dialog, Keyboards and the dialogues

A handler in these modules is one action or, when it awaits between a read and a write of
shared state, several. What it sees is the FSM (`fsm`: the state, with the part of the data its handlers
read), the message it was pressed on, and its rows; what it does is to set the
state, write data, and edit or send a *screen*: a name with the item it shows.
`Keyboard(s)` gives the buttons of a screen, as its constructor in `Keyboards` does, and a user presses
any button of the newest message or of a kept older one, or types. So the models have no
screen, state or press that the bot could not be in.

| module | handlers | steps inside of a handler |
|---|---|---|
| `WatchDialogs` | searching, adding, showing and editing rules, conditions, Premium, payment | `_save_watch`: `SaveStarts`, `SaveChecks`, `SaveEnds`, `SaveFails` |
| `UserDialogs` | onboarding, profile, help, referrals, giveaways, deals | a request for deals: read, written, answered |
| `PremiumTools` | analytics, history, comparison of regions | `compare_toggle`, `compare_select_group`: read, written, marked; the result: fetched; a chart: drawn |
| `AdminDialogs` | all of `bot/admin.py` | prompts and confirmations: written, shown; the plain broadcast |

`crossed` (`overlapped` for administrators) is history: another handler changed the dialogue since the
newest message was written. The properties except it, since there the newest
message *is* overtaken, and say that this is the only way.


## 3. Runs

`MCJobs`, `MCDialogs` and `MCPremium` are sums: a behaviour is of one *part*, and the variables of the
others keep the value they have when they are not in use. The parts share no state in the
code either, or only what each of them already leaves open (a rule that is deleted, Premium that
ends). TLC explores the parts together, and the properties name the one they are about.

| run | instance | result |
|---|---|---|
| `jobs` | *monitor*: a Premium owner with quiet hours, a Free owner without, 2 prices, 3-hour day, 1 fault, 1 edit | `RepeatsNeedFaults`, `QueuedAlertsSurvive` |
| | *decisions*: a grid of rules, prices, histories, rates; all moments and bounds of a six-hour day | quiet hours end exactly when they should, every match has its reason, a movement is told once |
| | *digests*: a 2-day week of two-hour days, 1 time besides the default ones, 2 edits, 1 fault | `DigestsKeepTime` |
| | *rates*: 2 calls at once, limit of 3 hours, provider lags 2 | `UnmarkedWithinBound`, `SavesGoForward` |
| | *history*: 4 moments, 2 prices, copies kept for 2 | `HistoryIsTrue` |
| | *polling*: 2 instances, a lease of 6 seconds | `OnePoller` |
| `monitor_live` | the monitor of `jobs` with every policy, 1 fault, no edits, fairness | rules are checked, a price that stays low is told, the queue empties |
| `deal_broadcast` | 1 run, 2 users (any of them watching at first) in batches of 1, up to 2 pages, 2 faults, 1 change of users | seven properties of the rows, counters and tasks; `PagesAreDelivered`, the refinement |
| `giveaways` | 1 user, 1 giveaway of the feed with two terms, 1 manual one, 1 fault, 1 edit, 2 moments | syncs exclude each other and leave nothing behind, sending is a `Delivery`; the feed is read again and again, what is wanted arrives |
| `premium` | *ledger*: an inviter who pays twice, 2 friends, 2 handlers at once, each update delivered twice, 1 change by an administrator, 1 day | no free days, levels and sums |
| | *tools*: 1 rule, 3 regions of which 2 may be chosen, 2 handlers at once, an older list of rules | `RegionsWithinLimit`, live buttons |
| `dialogs` | *watch*: 2 games, limits of 1 and 2 rules, 2 saves at once | `PromptsAreHeard`, `ButtonsAreAlive`, `LimitHolds` |
| | *user*: 1 region, 1 page of deals, 1 request for deals at once | `PromptsAreHeard`, `ButtonsAreAlive`, `OnboardingFirst` |
| | *admin*: 2 users, 2 messages to all, 1 date, 1 handler between two steps | `ConfirmsWhatWasShown` |
| `wide_type`, `on_change`, `durable`, `expiry_race`, `lost_payment`, `digest_early` | small instances of the same modules | one disagreement each, see section 6 |

Why the bounds are enough:

* *Two rules*: they interact only through the snapshots and the lock of the
  run; a third adds nothing that the second does not do.
* *Two prices*: above and below every target. The wider grid of prices is in
  the decisions, where no state multiplies it.
* *A three-hour day* with quiet hours that wrap around midnight has a quiet and a
  loud hour before and after it; `QuietWaitExactly` is proved for every length.
* *One fault* in the monitor: each property compares repeats with faults, and one
  fault with each kind of step already shows a missing record. Two in the broadcast,
  because a crash, a resumption and another failure are what its rows are for.
* *One user and two giveaways*: messages meet only in the log, which keeps them apart by
  their fingerprints; the refinement and its consequence are proved for any number. Two
  terms let a giveaway change, vanish and come back; two moments let one end.
* *One fault* in the giveaways: each liveness property starts again after the last fault, and a
  single one already leaves each lock, record or message behind.
* *One broadcast run*: that two runs never have tasks at the same time is proved for
  any number of them (`OneTaskAtATime`), so that runs do not interact.
* *Two handlers at once* is what a lost update takes; that days are never free is
  proved for any number. *One day* lets the shortest Premium end while a payment, an activation
  or the job is under way.
* *Digests*: a day of two hours has another hour to move a digest to, a week of two days another day;
  two edits change a time and change it back.
* *Rates*: a limit above the copy's freshness (1) has all three kinds of copies: fresh, old and forgotten.
  Two calls are what answers out of order take.
* *History*: four moments hold a price that goes, comes back and is cut off. `HistoryTtl` below the last moment lets
  redis forget a copy that the database still has.
* *Dialogues*: two games and two users are what the wrong one takes. `Saves`, `Handlers` and
  `asked` bound the handlers of one user that overlap; two are what a lost or a late write takes.
  `Kept` names the screens that stay usable on an older message: none in `dialogs`, where commands and handlers in
  progress already separate the newest message from the state, the list of rules in the tools. The properties of the
  dialogues are proved for any `Kept`, any number of pages and any number of handlers at once.
* Counters of faults, edits, deliveries and days (`MaxFaults`, `MaxEdits`, `MaxDeliveries`,
  `MaxAdmin`, `Horizon`) bound the state, `Slots` and `MaxPages` the rows; `Oldest`, `Longest`, `Steady` and
  `Last` bound ages. Actions of the
  program itself are never bounded, but for two: a monitoring run starts only with room
  in `Slots` for its alerts, and it crosses at most one full hour.

`CHECK_DEADLOCK FALSE` is in the configurations of the broadcast (all runs are created and
done, the faults used up), the ledger (all days have passed and every charge has
been delivered), the jobs (the inputs of the decisions are states without a step, the last moment of a history)
and the dialogues (a chat whose only message has no button): these systems may stop.

### Fairness

* `PriceMonitor`: weak fairness of the monitor's and the deferred job's next step
  (APScheduler starts both at fixed intervals for ever, the event loop goes on with a
  running one), of time, and of the TTL of the redis lock. None for a send or a
  fetch to *succeed*: faults are bounded instead. None for users.
* `DealBroadcast`: weak fairness of each task, of the TTL, and of a restart of a stopped
  process (`restart: unless-stopped` in docker-compose.prod.yml). None for administrators or users.
* `GiveawayNews`: weak fairness of the hourly job, of the task of a full run, of the
  notification job, of the TTLs and of a restart. None for a failing call to succeed, for
  time, users or administrators.
* The other modules have safety properties only.


## 4. What is proved

All theorems hold for every value of the constants that the named `ASSUME`s allow.

* `PriceMonitor_proofs`: `TypeCorrect`, `QueueSurvives` (`QueuedAlertsSurvive`) and `RepeatsAreFaults`
  (`RepeatsNeedFaults`), for any rules, settings, prices and quiet hours. The types rest on `Turn` (an open
  transaction belongs to a run that has a price, and queues in quiet hours only), `JobFits` (what
  `send_deferred` has sent has arrived, and both its lists are stored) and `Room` (every rule that a run has still to
  check finds a free row). `repeats <= faults` is not inductive: a delivery that the
  database does not know of has cost a fault and no repetition yet. `Debts` counts three kinds of them: rules whose row does
  not remember the alert their owner had (`Doubtful`), rows of the queue that arrived unmarked
  (`Unmarked`), and the transaction whose rule was edited after its read (`Stale`). That a commit or a send
  pays for the repetition it causes needs `Sound`: an alert is decided on a row that is, apart from
  `Stale`, still the one stored, and no alert is a duplicate of what that row remembers.
* `DealBroadcast_proofs`: `TypeCorrect` and `OneTaskAtATime` (`TaskOwnsRun`). Invariant:
  `TypeOK /\ PagesLeft /\ Exclusive`. `TypeOK` alone is not inductive: the step from page to page
  needs `PagesLeft` (pages are sent to a user, and an outcome is
  recorded only for a page that there is). `Exclusive` adds to `TaskOwnsRun` that a waiting task belongs to an active run and
  that at most one run is active, which the unique index gives `CreateRun` and which
  makes a restart create at most one task.
  In the same module `SentPagesHold` (`SentPagesArrived`), `CompletedHolds`
  (`CompletedServesAll`), `BroadcastRefinesDelivery` (`PagesAreDelivered`) and, carried over by that
  refinement from `RepeatsOweToFaults`, `RepeatsNeedFaultsHold` (`PageRepeatsNeedFaults`). The invariant
  relates the three places that count pages: a user's row never counts a page that did not arrive (`RowFits`), and a
  task on a page is at the page its row counts to, unless its user was deleted (`TurnFits`). The refinement
  needs in addition that one message at most is in flight (from `Exclusive`), that a stopped process has no
  tasks (`DownIdle`), and that the page on its way to a deleted user is not noted before its outcome
  is. `CompletedServesAll` speaks of completed runs only; its invariant (`NoneLeft`) says of a running one that
  everybody entitled up to the last user taken up is served, or is in the batch still, where an error
  that will keep the run from being completed counts as served. `ReportHolds` (`ReportAddsUp`) compares
  counters with numbers of rows. What makes it inductive (`Reported`) is that these sets are finite, since a run
  has taken up finitely many users so far whatever `Users` is, that a run has no rows before it
  is created, and, from `TurnFits`, that only a row that is not complete changes and that its next page is
  one its counter does not have yet. Each step then adds one to the counters of the row's new status, which gains
  one row; a retried error leaves its old status without leaving its counter.
* `PremiumLedger_proofs`: `TypeCorrect` and `NoFreeDaysHolds`. Invariant: `TypeOK`, `BookedOnce` (a
  session that has inserted a charge, or locked a referral, is the only one and it
  is not booked yet), `RowsCovered` (`NoFreeDays`) and `SessionsCovered` (what any open
  session has *read* is covered, too: a commit writes what was true at its read, and
  grants and time only grow since). Without the last one a stale commit could not be
  excluded.
  In the same module `LevelsHold` (`LevelsAwardedWhenReached`) and `EarnedHolds`
  (`InviterEarnedAddsUp`). What a session writes was computed from what it read after it had locked the inviter's
  row. The invariant says why that is still right at the commit: no two sessions hold one
  inviter (`LocksExclusive`), and what a holder has read of him, and the levels it found him to reach,
  are what the stored rows say (`HeldIsCurrent`): a payment's or an administrator's stale commit changes other
  columns, and an activation of another inviter's friend other rows. The referrals are counted, so that
  their finiteness is part of the invariant.
  And about the tools `RegionsHold` (`RegionsWithinLimit`) and `ToolsWorkHolds` (`ToolsWork`), for any rules, regions,
  limits and handlers. The limit is checked on one copy of the selection and another is written, so the invariant
  (`ToolsInv`) says of every handler in progress that what it carries is within the limit already (`ActsFit`), and of every
  screen that its buttons name regions there are (`ChatFits`). That the buttons work follows from `Moved`: a step leaves
  the newest message or writes one that fits the FSM it leaves (`Alive`).
* `Delivery_proofs`: `RepeatsOweToFaults`. `repeats <= faults` is not inductive: a message
  that arrived while its sender saw an exception, or whose note was lost, has cost a fault
  but no repetition yet. The invariant counts these *doubtful* messages (`got`, but neither
  `noted` nor in `flight`): `repeats + Cardinality(Doubtful) <= faults`.
* `GiveawayNews_proofs`: `TypeCorrect`; `SyncsAlone` (`OneSyncAtATime`: whoever is inside
  `sync_giveaways` or a full run holds its lock, and no two are inside); `TidyHolds` (`NothingLeftBehind`, which
  itself is about runs without a fault; the invariant adds that without one the process is up and no caller is on its way
  out by an error); `NewsRefinesDelivery`
  (`NewsIsDelivered`: each step is a step of `Delivery` or a stutter, with the
  invariant that a message in flight belongs to a run and is not logged); and `NewsRepeatsNeedFaults`, which is
  `RepeatsOweToFaults` carried over by that refinement, so that the count of repeated
  giveaways needs no argument of its own.
* `CurrencyRates_proofs`: `UnmarkedHolds` (`UnmarkedWithinBound`) and `SavesHold` (`SavesGoForward`). The invariant says
  that the age of redis' copy is at most `Lag` and the time since it was saved (`Bounded`), that no copy is newer than
  what the provider published last (`Behind`), and that unless a call was overrun, who is between the lock and
  the save holds the lock, and brings rates that are not older than the stored ones (`Alone`).
* `MCJobs_proofs`: a theorem for each property of `jobs`, about the composition that the run checks, with its
  constants left open. A behaviour is of one part, so that the theorem of a part needs that
  part's invariant only, and one lemma (`JobsStep`) that says which step of which part a step is.
  * `OnePollerHolds` (`OnePoller`), for any instances and any lease (that the lease
    outlasts the interval of its renewal is a premise inside `OnePoller`). `OnePoller` is not
    inductive: that two poll says nothing about who holds the lease. The invariant adds `Covered`: an
    untroubled instance that polls is the lease's owner, and the lease lasts longer than the time to its next
    renewal, so that it cannot run out under it.
  * `DigestsHold` (`DigestsKeepTime`), for any lengths of day and week. What makes it inductive is where the
    last digest lies: `InRhythm` says, of a digest whose settings are at rest, how long ago it came at each moment
    of the period, and `RunKnows` that a run in progress has found due what that
    rhythm makes due. Times are counted in the period by quotient and remainder; `PlaceFacts`, `SinceFacts`
    and `TickSince` are the arithmetic of it.
  * `HistoryHolds` (`HistoryIsTrue`). The property looks at answers; the invariant says the same of every copy an
    answer may come from, with the age of the copy in redis. The lemmas say what the operators do to *any* history:
    `CollapsedTells` and `FilteredTells` (both leave the price of each moment as it was), `RowsTell` (between two
    of the provider's rows no price changes). They are inductions over moments, and go by the least
    counterexample (`LeastOf`, from the library's theorem that the natural numbers are well-founded).
  * `QuietWaitHolds`, `ReasonsHold`, `MovementsHold`. The lemmas under them say it of any arguments, not only of the
    inputs that the run enumerates: the wait is positive, ends outside of the quiet hours, and every hour before
    it is inside (`QuietWaitExactly`); the reason `"rule"` is never given (`FallbackReasonIsDead`); with the
    history that one check leaves, the same price has no reason about a movement (`MovementsAreToldOnce`).
  * `RatesHold` and `RatesGoForward`: the theorems of `CurrencyRates_proofs` through an instance of it.
  * `JobsTypesHold` (`JobsTypeOK`).
* `MCDialogs_proofs`: a theorem for each property of `dialogs`, for any games, rules, regions, pages, users and any
  number of saves and handlers at once. None of the properties is inductive. `crossed` says that another handler
  changed the FSM after the newest message was written, so that what has to be shown of each handler
  is one thing: it leaves the newest message, or writes one whose prompt is heard and whose buttons have handlers in the
  state that it leaves itself (`Works`). A button carries what the screen said when it was drawn; `Fits` is what
  that may be, and `ToldByScreens`, `ToldToUsers` say so of each keyboard.
  * `PromptsHeard` (`PromptsAreHeard`) and `ButtonsWork` (`ButtonsAreAlive`) follow from that, for watch rules and for users.
  * `LimitsHold` (`LimitHolds`). `WatchInv` adds `OneCheck` (one save at most is past its check, since it holds the lock
    on the user's row) and `WithinLimit`: such a save of a game that the user does not have still finds fewer rules
    than the limit it read. Every other step only takes rules away; a save that ends adds one at most, where `RuleGone`
    leaves out the rule that was deleted meanwhile.
  * `OnboardingHolds` (`OnboardingFirst`). `UserInv` adds that a dialogue which edits a panel knows it (`PanelKnown`), that
    the FSM is in one of its states, and that what a button names is a region; the same buttons lead to
    the onboarding and to the profile, and each state has its own handler for them (`StatesApart`).
  * `ConfirmsHold` (`ConfirmsWhatWasShown`). A handler of the administrator's writes or reads the FSM and its data in one
    step and shows its screen in a later one, so that the property fails in between. `AdminInv` says of a handler between two
    steps that what it is about to show is what the data say (`Truthful`), unless two of them overlapped.
  * `TypesHold` (`TypeOK`).

Every safety property of a passing run is proved. The runs that end
in a violation have nothing to prove. Only model-checked: liveness (`TaskEnds`, `QueuedAlertIsDelivered`, `DueRuleIsChecked`, `MetRuleIsAlerted`, `SyncGoesOn`,
`NewsArrives`), which is out of the
prover's reach.

## 5. What the passing runs do not say

* `RepeatsNeedFaults` counts an edit that falls between the monitor's read of a rule
  and its row lock as a fault. It has to: such an edit (a change of the repeat policy,
  for instance) is overwritten in part by the stale decision, and the next check can
  repeat the alert. With that edit free, TLC finds the repetition.
* `RepeatsNeedFaults` excepts alerts whose reasons do not fit their column; `wide_type`
  shows what happens to those.
* `monitor_live` has no edits: a user who edits a rule again and again may keep it from ever
  being told. Edits and the commit that does not fit happen in `jobs`.
* `NoFreeDays` says nothing about days that are *lost*. The code can lose them: an
  administrator's change computed from a base read in another session, a payment in
  between. `expiry_race` shows the case that the code's own texts contradict.
* `InviterEarnedAddsUp` is about inviters who were not invited themselves; the row
  of an invited user is read without a lock, and a concurrent activation of a friend of
  his can lose days.
* `MetRuleIsAlerted` starts from a price that stays low for good and a rule that stays
  as it is.
* `NewsIsDelivered` does not count what a user gets who is deleted in the middle of a run
  (the run has read him already, and his log rows are gone). A deleted user who comes
  back is a new user, and not modelled.
* `NewsArrives` counts on sends that fail a bounded number of times. A user who has blocked the bot
  is tried in each run for ever; that harms nobody else.
* `OneSyncAtATime` assumes that the timeouts (300 and 1800 seconds) are longer than the
  runs they guard; so does `RepeatsNeedFaults` for the lock of the monitor.
* `NothingLeftBehind` is about runs without a fault. After a stop or an error the key of the
  full sync stays for up to 1800 seconds, so that the initial sync of a restarted
  process may be skipped, and its row in `sync_runs` stays "running" for good.
* `SavesGoForward` excepts calls that outlive the lock of 30 seconds (`overrun`), and `UnmarkedWithinBound`
  gives the bound that the code keeps, not the 72 hours: those count from the save.
* `OnePoller` excepts instances whose renewal failed (`troubled`). Such an instance goes on polling beside
  the next one.
* `DigestsKeepTime` is about users whose settings have been at rest and a job that did not fail (`steady`), and
  about days of 24 hours: the day on which summer time begins can cost a digest.
* `HistoryIsTrue` is about what a source *knows*: a copy may be older than the truth by its time to live.
* `PromptsAreHeard` and `ButtonsAreAlive` speak of the newest message, and except
  dialogues that another handler changed meanwhile (`crossed`): a slow save clears whatever dialogue
  is open when it ends. They are not claimed of administrators, whose *Back* leaves the state as it is: there
  a later text is still taken for the earlier user, and only what is *confirmed* must be what was shown.
* Buttons of older messages may be dead, or act on another game's dialogue; the bot answers most of
  them with an alert. Only the tools' lists of rules are kept as older messages; everything the newest message
  can do to the state, an older one could.
* Of two quick presses in the comparison one can be lost. `RegionsWithinLimit` says that the limit stays.

## 6. Disagreements found

1. `wide_type`: three price-drop reasons, joined, have 33 characters;
   `last_notification_type` holds 30. The alert is sent, the commit fails, the next
   run sends it again.
2. `on_change`: "when values change" repeats an alert about an unchanged price when
   one of its reasons was about the movement.
3. `durable`: a crash leaves the lock of a broadcast run; its resumption finds the lock
   taken, gives up, and the run blocks all later ones.
4. `expiry_race`: a payment while `expire_subscriptions` sends its messages is set
   back to FREE by the job's commit.
5. `lost_payment`: a payment arrives as a message, and in a state that hears texts the handler of that
   state gets it: it finds no text, asks again, and the payment is neither recorded nor honoured.
6. `digest_early`: a digest that is set to 20:45 comes in the first quarter after 20:00, because the job compares hours.

## 7. Not modelled

* *Batches*: `monitor_batch_size` in the monitor and the window of `send_deferred`. Rules that always fail
  keep their place in both. It takes several games beyond the limits, with which the monitor's instance no longer
  fits a run.
* *Pure calculations*: price analysis, the ranking of a search, selection and paging of deals. They keep
  no state; unit tests reach them. For the models they return anything.
* *RegionComparison's* fetches, the conversion of condition currencies and IsThereAnyDeal's lows: no state that two
  actors share; any result, for the handlers that use them.
* *Rendering*: charts, cards, texts. `i18n.py` is cited only where a text promises something.
* *Steam, RAWG, the catalogue*: external; any answer or an error.
* *Middlewares, backup, configuration, migrations*: I/O and values; constraints of the schema
  appear as guards. *Threads*: the process has one event loop.

What would come next: a monitor with more rules than a batch holds.
