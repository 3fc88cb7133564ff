---------------------------- MODULE GiveawayNews ----------------------------
(***************************************************************************)
(* Giveaways: SyncCoordinator copies the feed of GamerPower into the table *)
(* giveaways, by the hour and in each full run, and                        *)
(* GiveawayNotificationService tells the users who asked for it.           *)
(*                                                                         *)
(* The table, the settings, the log of what was sent and the redis locks   *)
(* outlive the process; the runs of its jobs do not.  A giveaway is told   *)
(* anew when its kind or its end changes: its terms.                       *)
(***************************************************************************)
EXTENDS Integers, FiniteSets

CONSTANTS
    NoValue,   \* no row, no message
    Users,
    FeedItems, \* external ids of the feed
    Manual,    \* giveaways an administrator may add
    Kinds,     \* the kinds of giveaways a user can choose
    Terms,     \* the terms giveaways may have; an end of 0 stands for none
    ForGood,   \* the terms of a manual giveaway
    Profiles,  \* the settings users may have at first
    Horizon,   \* bound: moments
    MaxFaults, \* bound: failures and stops
    MaxEdits   \* bound: what users and administrators do

Items == FeedItems \cup Manual
Messages == Users \X Items \X Terms

ASSUME ItemsAssumption == FeedItems \cap Manual = {}
ASSUME TermsAssumption ==
    Terms \subseteq [kind : Kinds, ends : Nat] /\ ForGood \in Terms /\ ForGood.ends = 0
ASSUME ProfilesAssumption == Profiles \subseteq [on : BOOLEAN, premium : BOOLEAN, kinds : SUBSET Kinds]
ASSUME BoundsAssumption == Horizon \in Nat /\ MaxFaults \in Nat /\ MaxEdits \in Nat

VARIABLES
    offered,   \* [Items -> terms of an active row, or NoValue]
    settings,  \* [Users -> row or NoValue]
    log,       \* giveaway_notification_logs: messages
    locks,     \* keys in redis: "full" (lock:sync:full), "giveaways"
    record,    \* status of the newest sync_runs row
    sync,      \* [Callers -> where its call of sync_giveaways or full_sync is]
    news,      \* the run of the notification job
    up, now,
    got,       \* history: messages that reached their user
    repeats,   \* history: messages that reached him again
    faults, edits  \* history: what MaxFaults and MaxEdits count

world == <<up, now>>
table == <<offered, settings>>
syncing == <<locks, record, sync>>
telling == <<log, news, got, repeats>>
vars == <<table, syncing, telling, world, faults, edits>>

-----------------------------------------------------------------------------
\* The hourly job; the task of a full run (at the start, or an administrator's).
Callers == {"job", "full"}

\* idle; start, prices, giveaways, finish, failing (of a full run); fetch, save,
\* release, raise (inside sync_giveaways, which holds its lock).
Places == {"idle", "start", "prices", "giveaways", "finish", "failing",
           "fetch", "save", "release", "raise"}
Inside == {"fetch", "save", "release", "raise"}

Feeds == [FeedItems -> Terms \cup {NoValue}]
NoFeed == [i \in FeedItems |-> NoValue]

Settings == [on : BOOLEAN, premium : BOOLEAN, kinds : SUBSET Kinds]

ASSUME NoValueAssumption == NoValue \notin Terms \cup Messages \cup Settings

News == [on : BOOLEAN, todo : SUBSET Messages, at : Messages \cup {NoValue}]
NoNews == [on |-> FALSE, todo |-> {}, at |-> NoValue]

TypeOK ==
    /\ offered \in [Items -> Terms \cup {NoValue}]
    /\ settings \in [Users -> Settings \cup {NoValue}]
    /\ log \subseteq Messages /\ got \subseteq Messages
    /\ locks \subseteq {"full", "giveaways"}
    /\ record \in {"none", "running", "success", "failed"}
    /\ sync \in [Callers -> [at : Places, feed : Feeds]]
    /\ news \in News
    /\ up \in BOOLEAN /\ now \in 0..Horizon
    /\ repeats \in Nat /\ faults \in 0..MaxFaults /\ edits \in 0..MaxEdits

Exists(u) == settings[u] # NoValue

Init ==
    /\ offered = [i \in Items |-> NoValue]
    /\ settings \in [Users -> Profiles]
    /\ log = {} /\ locks = {} /\ record = "none"
    /\ sync = [c \in Callers |-> [at |-> IF c = "full" THEN "start" ELSE "idle", feed |-> NoFeed]]
    /\ news = NoNews
    /\ up = TRUE /\ now = 0
    /\ got = {} /\ repeats = 0 /\ faults = 0 /\ edits = 0

-----------------------------------------------------------------------------
(* sync_giveaways.                                                         *)

Goto(c, place) == sync' = [sync EXCEPT ![c].at = place]
Failing == faults < MaxFaults /\ faults' = faults + 1

\* What a caller does when sync_giveaways has returned or raised.
Returned(c) == IF c = "job" THEN "idle" ELSE "finish"
Raised(c) == IF c = "job" THEN "idle" ELSE "failing"

Calls(c) == up /\ sync[c].at = (IF c = "job" THEN "idle" ELSE "giveaways")

\* Mutant of SyncBegin: the answer of lock.acquire is not looked at.
SyncBeginAnyhow(c) ==
    /\ Calls(c)
    /\ locks' = locks \cup {"giveaways"}
    /\ Goto(c, "fetch")
    /\ UNCHANGED <<table, record, telling, world, faults, edits>>

\* Somebody else synchronises: return 0.
SyncBegin(c) ==
    /\ Calls(c)
    /\ IF "giveaways" \in locks
       THEN Goto(c, Returned(c)) /\ UNCHANGED locks
       ELSE locks' = locks \cup {"giveaways"} /\ Goto(c, "fetch")
    /\ UNCHANGED <<table, record, telling, world, faults, edits>>

\* fetch_games: the feed may hold anything, and nothing.
SyncFetch(c) ==
    /\ sync[c].at = "fetch"
    /\ \E feed \in Feeds : sync' = [sync EXCEPT ![c] = [at |-> "save", feed |-> feed]]
    /\ UNCHANGED <<table, locks, record, telling, world, faults, edits>>

\* One transaction: all rows of the feed's source are set inactive, those that
\* the feed lists active on its terms.
SyncSave(c) ==
    /\ sync[c].at = "save"
    /\ offered' = [i \in Items |-> IF i \in Manual THEN offered[i] ELSE sync[c].feed[i]]
    /\ sync' = [sync EXCEPT ![c] = [at |-> "release", feed |-> NoFeed]]
    /\ UNCHANGED <<settings, locks, record, telling, world, faults, edits>>

\* The provider or the database fails, and the transaction is rolled back; or
\* redis fails after the commit.
SyncFails(c) ==
    /\ sync[c].at \in {"fetch", "save", "release"} /\ Failing
    /\ sync' = [sync EXCEPT ![c] = [at |-> "raise", feed |-> NoFeed]]
    /\ UNCHANGED <<table, locks, record, telling, world, edits>>

\* The finally clause.
SyncRelease(c) ==
    /\ sync[c].at \in {"release", "raise"}
    /\ locks' = locks \ {"giveaways"}
    /\ Goto(c, IF sync[c].at = "release" THEN Returned(c) ELSE Raised(c))
    /\ UNCHANGED <<table, record, telling, world, faults, edits>>

\* Redis does not answer: the lock stays, and the clause raises.
SyncReleaseFails(c) ==
    /\ sync[c].at \in {"release", "raise"} /\ Failing
    /\ Goto(c, Raised(c))
    /\ UNCHANGED <<table, locks, record, telling, world, edits>>

-----------------------------------------------------------------------------
(* full_sync.                                                              *)

FullStart ==
    /\ sync["full"].at = "start"
    /\ IF "full" \in locks
       THEN Goto("full", "idle") /\ UNCHANGED <<locks, record>>
       ELSE /\ locks' = locks \cup {"full"} /\ record' = "running"
            /\ Goto("full", "prices")
    /\ UNCHANGED <<table, telling, world, faults, edits>>

\* _start_run or the status key fails: the lock was taken outside of the try
\* statement and stays.
FullStartFails ==
    /\ sync["full"].at = "start" /\ "full" \notin locks /\ Failing
    /\ locks' = locks \cup {"full"} /\ record' \in {record, "running"}
    /\ Goto("full", "idle")
    /\ UNCHANGED <<table, telling, world, edits>>

\* monitor.run(force=True): see PriceMonitor.
FullPrices ==
    /\ sync["full"].at = "prices"
    /\ Goto("full", "giveaways")
    /\ UNCHANGED <<table, locks, record, telling, world, faults, edits>>

\* Mutant of FullFinish: the record is left to the next run.
FullFinishUnrecorded ==
    /\ sync["full"].at = "finish"
    /\ locks' = locks \ {"full"} /\ Goto("full", "idle")
    /\ UNCHANGED <<table, record, telling, world, faults, edits>>

FullFinish ==
    /\ sync["full"].at = "finish"
    /\ record' = "success" /\ locks' = locks \ {"full"}
    /\ Goto("full", "idle")
    /\ UNCHANGED <<table, telling, world, faults, edits>>

\* An exception of the prices, of the giveaways' lock, or of the end: before or
\* after the commit of the record.
FullRaises ==
    /\ sync["full"].at \in {"prices", "giveaways", "finish"} /\ Failing
    /\ record' \in {record} \cup (IF sync["full"].at = "finish" THEN {"success"} ELSE {})
    /\ Goto("full", "failing")
    /\ UNCHANGED <<table, locks, telling, world, edits>>

FullFail ==
    /\ sync["full"].at = "failing"
    /\ record' = "failed" /\ locks' = locks \ {"full"}
    /\ Goto("full", "idle")
    /\ UNCHANGED <<table, telling, world, faults, edits>>

\* The handler of the exception fails itself, on the fault that raised it (a database
\* that is gone): the record may stay at "running".
FullFailUnrecorded ==
    /\ sync["full"].at = "failing"
    /\ record' \in {record, "failed"}
    /\ locks' = locks \ {"full"} /\ Goto("full", "idle")
    /\ UNCHANGED <<table, telling, world, faults, edits>>

\* The record is written, and the release of the lock fails.
FullReleaseFails ==
    /\ sync["full"].at \in {"finish", "failing"} /\ Failing
    /\ record' = (IF sync["full"].at = "finish" THEN "success" ELSE "failed")
    /\ Goto("full", "idle")
    /\ UNCHANGED <<table, locks, telling, world, edits>>

-----------------------------------------------------------------------------
(* GiveawayNotificationService.run.                                        *)

Current(t) == t.ends = 0 \/ t.ends > now

Accepts(row, premium, t) == row.on /\ (premium => t.kind \in row.kinds)

\* Users and giveaways are read once.  Premium is looked up later, when it may
\* have lapsed for some.
NewsStart ==
    /\ up /\ ~news.on
    /\ \E lapsed \in SUBSET {u \in Users : Exists(u) /\ settings[u].premium} :
          news' = [on |-> TRUE, at |-> NoValue,
                   todo |-> {m \in Messages :
                       /\ Exists(m[1]) /\ offered[m[2]] = m[3] /\ Current(m[3])
                       /\ Accepts(settings[m[1]], settings[m[1]].premium /\ m[1] \notin lapsed, m[3])}]
    /\ UNCHANGED <<table, syncing, log, got, repeats, world, faults, edits>>

\* The turn of one message, in any order: the log is read.
Turn(m) == news.at = NoValue /\ m \in news.todo

NewsSkip(m) ==
    /\ Turn(m) /\ m \in log
    /\ news' = [news EXCEPT !.todo = @ \ {m}]
    /\ UNCHANGED <<table, syncing, log, got, repeats, world, faults, edits>>

\* What arrives at a user who is not deleted yet is counted.
Arrives(m, arrives) ==
    LET counts == arrives /\ Exists(m[1]) IN
    /\ got' = IF counts THEN got \cup {m} ELSE got
    /\ repeats' = IF counts /\ m \in got THEN repeats + 1 ELSE repeats

\* Mutant of NewsSend: the log is not asked.
NewsSendAgain(m) ==
    /\ Turn(m)
    /\ Arrives(m, TRUE)
    /\ news' = [on |-> TRUE, todo |-> news.todo \ {m}, at |-> m]
    /\ UNCHANGED <<table, syncing, log, world, faults, edits>>

\* Mutant of NewsSend: the message is logged first.
NewsSendLogged(m) ==
    /\ Turn(m) /\ m \notin log
    /\ log' = log \cup {m}
    /\ \E sent \in BOOLEAN :
          /\ Arrives(m, sent)
          /\ IF sent THEN UNCHANGED faults ELSE Failing
    /\ news' = [on |-> TRUE, todo |-> news.todo \ {m}, at |-> NoValue]
    /\ UNCHANGED <<table, syncing, world, edits>>

NewsSend(m) ==
    /\ Turn(m) /\ m \notin log
    /\ Arrives(m, TRUE)
    /\ news' = [on |-> TRUE, todo |-> news.todo \ {m}, at |-> m]
    /\ UNCHANGED <<table, syncing, log, world, faults, edits>>

\* The call raises, and the next message has its turn.  This one may have
\* arrived all the same.
NewsSendFails(m) ==
    /\ Turn(m) /\ m \notin log /\ Failing
    /\ \E arrives \in BOOLEAN : Arrives(m, arrives)
    /\ news' = [on |-> TRUE, todo |-> news.todo \ {m}, at |-> NoValue]
    /\ UNCHANGED <<table, syncing, log, world, edits>>

\* The insert; that of a deleted user violates the foreign key.
NewsLog ==
    /\ news.at # NoValue
    /\ log' = IF Exists(news.at[1]) THEN log \cup {news.at} ELSE log
    /\ news' = [news EXCEPT !.at = NoValue]
    /\ UNCHANGED <<table, syncing, got, repeats, world, faults, edits>>

NewsLogFails ==
    /\ news.at # NoValue /\ Failing
    /\ news' = [news EXCEPT !.at = NoValue]
    /\ UNCHANGED <<table, syncing, log, got, repeats, world, edits>>

\* A query outside of the try statement fails: the run is over.
NewsFails ==
    /\ news.on /\ news.at = NoValue /\ Failing
    /\ news' = NoNews
    /\ UNCHANGED <<table, syncing, log, got, repeats, world, edits>>

NewsEnd ==
    /\ news.on /\ news.todo = {} /\ news.at = NoValue
    /\ news' = NoNews
    /\ UNCHANGED <<table, syncing, log, got, repeats, world, faults, edits>>

-----------------------------------------------------------------------------
(* Stops, time, users and administrators.                                  *)

\* A process that is killed leaves its locks, one that is stopped may release them.
Stop ==
    /\ up /\ Failing
    /\ up' = FALSE
    /\ sync' = [c \in Callers |-> [at |-> "idle", feed |-> NoFeed]]
    /\ news' = NoNews
    /\ locks' \in SUBSET locks
    /\ UNCHANGED <<table, record, log, got, repeats, now, edits>>

\* main: a full run is one of the first things.
Restart ==
    /\ ~up /\ up' = TRUE
    /\ Goto("full", "start")
    /\ UNCHANGED <<table, locks, record, telling, now, faults, edits>>

InUse(lock) ==
    \E c \in Callers :
        IF lock = "giveaways" THEN sync[c].at \in Inside
        ELSE c = "full" /\ sync[c].at \notin {"idle", "start"}

\* Mutant of LockExpires: the locks have no timeout.
LockNeverExpires(lock) == FALSE /\ UNCHANGED vars

\* The timeouts end after any run that is still going on.
LockExpires(lock) ==
    /\ lock \in locks /\ ~InUse(lock)
    /\ locks' = locks \ {lock}
    /\ UNCHANGED <<table, record, sync, telling, world, faults, edits>>

Tick ==
    /\ now < Horizon /\ now' = now + 1
    /\ UNCHANGED <<table, syncing, telling, up, faults, edits>>

Edit == edits < MaxEdits /\ edits' = edits + 1

\* The administrator's button; a run that goes on already makes it do nothing.
FullRequested ==
    /\ up /\ sync["full"].at = "idle" /\ Edit
    /\ Goto("full", "start")
    /\ UNCHANGED <<table, locks, record, telling, world, faults>>

\* Mutant of AddManual: the fourth kind, which no user can choose.
AddManualFreeToPlay(i) ==
    /\ up /\ offered[i] = NoValue /\ Edit
    /\ offered' = [offered EXCEPT ![i] = [kind |-> "free_to_play", ends |-> 0]]
    /\ UNCHANGED <<settings, syncing, telling, world, faults>>

\* giveaway_url: not of the feed's source, no end.
AddManual(i) ==
    /\ up /\ offered[i] = NoValue /\ Edit
    /\ offered' = [offered EXCEPT ![i] = ForGood]
    /\ UNCHANGED <<settings, syncing, telling, world, faults>>

SaveSettings(u, on, premium, kinds) ==
    settings' = [settings EXCEPT ![u] = [on |-> on, premium |-> premium, kinds |-> kinds]]

Toggle(u) ==
    /\ up /\ Exists(u) /\ Edit
    /\ SaveSettings(u, ~settings[u].on, settings[u].premium, settings[u].kinds)
    /\ UNCHANGED <<offered, syncing, telling, world, faults>>

\* One kind, or all, or none; for Premium users.
ChooseKinds(u) ==
    /\ up /\ Exists(u) /\ settings[u].premium /\ Edit
    /\ \E kinds \in {Kinds, {}}
                 \cup {settings[u].kinds \cup {k} : k \in Kinds \ settings[u].kinds}
                 \cup {settings[u].kinds \ {k} : k \in settings[u].kinds} :
          SaveSettings(u, settings[u].on, TRUE, kinds)
    /\ UNCHANGED <<offered, syncing, telling, world, faults>>

\* Premium begins or ends: see PremiumLedger.
PremiumChanges(u) ==
    /\ Exists(u) /\ Edit
    /\ SaveSettings(u, settings[u].on, ~settings[u].premium, settings[u].kinds)
    /\ UNCHANGED <<offered, syncing, telling, world, faults>>

\* The user's log rows go with him.
DeleteUser(u) ==
    /\ up /\ Exists(u) /\ Edit
    /\ settings' = [settings EXCEPT ![u] = NoValue]
    /\ log' = {m \in log : m[1] # u}
    /\ UNCHANGED <<offered, syncing, news, got, repeats, world, faults>>

-----------------------------------------------------------------------------
SyncStep(c) == SyncBegin(c) \/ SyncFetch(c) \/ SyncSave(c) \/ SyncRelease(c)
FullStep == FullStart \/ FullPrices \/ FullFinish \/ FullFail
NewsStep ==
    NewsStart \/ NewsLog \/ NewsEnd \/ \E m \in news.todo : NewsSkip(m) \/ NewsSend(m)

Fault ==
    \/ FullStartFails \/ FullRaises \/ FullFailUnrecorded \/ FullReleaseFails
    \/ \E c \in Callers : SyncFails(c) \/ SyncReleaseFails(c)
    \/ \E m \in news.todo : NewsSendFails(m)
    \/ NewsLogFails \/ NewsFails \/ Stop

Wishes ==
    \/ FullRequested \/ \E i \in Manual : AddManual(i)
    \/ \E u \in Users : Toggle(u) \/ ChooseKinds(u) \/ PremiumChanges(u) \/ DeleteUser(u)

Next ==
    \/ \E c \in Callers : SyncStep(c)
    \/ \E lock \in {"full", "giveaways"} : LockExpires(lock)
    \/ FullStep \/ NewsStep \/ Fault \/ Restart \/ Tick \/ Wishes

Spec == Init /\ [][Next]_vars

\* APScheduler starts both jobs for ever, the event loop goes on with what runs,
\* redis drops its keys, a stopped process is started again.
Fairness ==
    /\ WF_vars(SyncStep("job")) /\ WF_vars(SyncStep("full") \/ FullStep)
    /\ WF_vars(NewsStep) /\ WF_vars(Restart)
    /\ WF_vars(\E lock \in {"full", "giveaways"} : LockExpires(lock))

FairSpec == Spec /\ Fairness

-----------------------------------------------------------------------------
(* Properties.                                                             *)

\* Nobody waits for the messages of a deleted user.
Gone == {m \in Messages : ~Exists(m[1])}
Noted == log \cup Gone
InFlight == {m \in {news.at} \ {NoValue} : Exists(m[1])}

D == INSTANCE Delivery WITH noted <- Noted, flight <- InFlight

\* A user gets a giveaway once on the same terms, and again only when a fault
\* came between the sending and the log, however often it vanishes from the feed
\* and comes back, and whatever he or the synchronisation does meanwhile.
NewsIsDelivered == D!Spec

\* No two callers are between reading the feed and storing it: an older feed
\* never replaces a newer one.  The lock of those inside exists.
OneSyncAtATime ==
    /\ \A c, d \in Callers : sync[c].at \in Inside /\ sync[d].at \in Inside => c = d
    /\ \A lock \in {"full", "giveaways"} : InUse(lock) => lock \in locks

\* Without a fault no run leaves a lock or a record that says "running" behind.
NothingLeftBehind ==
    faults = 0 =>
        /\ \A lock \in locks : InUse(lock)
        /\ record = "running" => InUse("full")

\* The hourly job gets to read the feed again and again, also after a stop that
\* left a lock.
SyncGoesOn == []<>(sync["job"].at = "fetch")

\* m is on offer, and its user wants to hear of it.
Wanted(m) ==
    /\ Exists(m[1]) /\ Accepts(settings[m[1]], settings[m[1]].premium, m[3])
    /\ offered[m[2]] = m[3] /\ Current(m[3])

\* Again and again everybody has got all that is on offer and wanted: a failed
\* send, a failed query or a stop delays a message to a later run, not for ever.
NewsArrives == []<>(\A m \in Messages : Wanted(m) => m \in got)
=============================================================================
