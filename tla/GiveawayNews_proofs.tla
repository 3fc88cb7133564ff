------------------------ MODULE GiveawayNews_proofs ------------------------
(***************************************************************************)
(* For any users, giveaways, terms and bounds: the types, the mutual       *)
(* exclusion of the synchronisation, that it leaves nothing behind unless  *)
(* something fails, and the refinement of Delivery.                        *)
(***************************************************************************)
EXTENDS GiveawayNews, TLAPS

\* What is proved of Delivery, for the messages of this module.
P == INSTANCE Delivery_proofs WITH noted <- Noted, flight <- InFlight

Call == [at : Places, feed : Feeds]

LEMMA TypeInit == Init => TypeOK
<1> SUFFICES ASSUME Init PROVE TypeOK
    OBVIOUS
<1>1. NoFeed \in Feeds
    BY DEF NoFeed, Feeds
<1>2. sync \in [Callers -> Call]
    BY <1>1 DEF Init, Callers, Places, Call
<1>3. settings \in [Users -> Settings \cup {NoValue}]
    BY ProfilesAssumption DEF Init, Settings
<1>4. news \in News
    BY DEF Init, News, NoNews
<1> QED BY <1>2, <1>3, <1>4, BoundsAssumption DEF Init, TypeOK, Call

\* The steps of sync, locks and record.
LEMMA TypeSync ==
    ASSUME TypeOK,
           \/ \E c \in Callers : SyncStep(c) \/ SyncFails(c) \/ SyncReleaseFails(c)
           \/ FullStep \/ FullStartFails \/ FullRaises \/ FullFailUnrecorded
           \/ FullReleaseFails \/ FullRequested
    PROVE  TypeOK'
<1>0. NoFeed \in Feeds /\ "full" \in Callers /\ sync \in [Callers -> Call]
    BY DEF NoFeed, Feeds, Callers, TypeOK, Call
<1>1. ASSUME NEW c \in Callers, NEW place \in Places, Goto(c, place)
      PROVE  sync' \in [Callers -> Call]
    BY <1>0, <1>1 DEF Goto, Call
<1>2. ASSUME NEW c \in Callers, NEW call \in Call, sync' = [sync EXCEPT ![c] = call]
      PROVE  sync' \in [Callers -> Call]
    BY <1>0, <1>2
<1>3. ASSUME NEW c \in Callers, SyncStep(c) \/ SyncFails(c) \/ SyncReleaseFails(c) PROVE TypeOK'
    <2>1. CASE SyncBegin(c)
        <3>1. Goto(c, Returned(c)) \/ Goto(c, "fetch")
            BY <2>1 DEF SyncBegin
        <3>2. sync' \in [Callers -> Call]
            BY <3>1, <1>1 DEF Returned, Places
        <3> QED BY <2>1, <3>2 DEF SyncBegin, TypeOK, Call, table, telling, world
    <2>2. CASE SyncFetch(c)
        <3>1. sync' \in [Callers -> Call]
            BY <2>2, <1>2 DEF SyncFetch, Call, Places
        <3> QED BY <2>2, <3>1 DEF SyncFetch, TypeOK, Call, table, telling, world
    <2>3. CASE SyncSave(c)
        <3>1. sync' \in [Callers -> Call]
            BY <2>3, <1>0, <1>2 DEF SyncSave, Call, Places
        <3>2. sync[c].feed \in Feeds
            BY <1>0, <1>3 DEF Call
        <3>3. offered' \in [Items -> Terms \cup {NoValue}]
            BY <2>3, <3>2 DEF SyncSave, TypeOK, Items, Feeds
        <3> QED BY <2>3, <3>1, <3>3 DEF SyncSave, TypeOK, Call, telling, world
    <2>4. CASE SyncRelease(c)
        <3>1. Returned(c) \in Places /\ Raised(c) \in Places
            BY DEF Returned, Raised, Places
        <3>2. sync' \in [Callers -> Call]
            BY <2>4, <3>1, <1>1 DEF SyncRelease
        <3> QED BY <2>4, <3>2 DEF SyncRelease, TypeOK, Call, table, telling, world
    <2>5. CASE SyncFails(c)
        <3>1. sync' \in [Callers -> Call]
            BY <2>5, <1>0, <1>2 DEF SyncFails, Call, Places
        <3> QED BY <2>5, <3>1, BoundsAssumption DEF SyncFails, Failing, TypeOK, Call, table, telling, world
    <2>6. CASE SyncReleaseFails(c)
        <3>1. Raised(c) \in Places
            BY DEF Raised, Places
        <3>2. sync' \in [Callers -> Call]
            BY <2>6, <3>1, <1>1 DEF SyncReleaseFails
        <3> QED BY <2>6, <3>2, BoundsAssumption
            DEF SyncReleaseFails, Failing, TypeOK, Call, table, telling, world
    <2> QED BY <1>3, <2>1, <2>2, <2>3, <2>4, <2>5, <2>6 DEF SyncStep
<1>4. CASE FullStart
    <2>1. Goto("full", "idle") \/ Goto("full", "prices")
        BY <1>4 DEF FullStart
    <2>2. sync' \in [Callers -> Call]
        BY <2>1, <1>0, <1>1 DEF Places
    <2> QED BY <1>4, <2>2 DEF FullStart, TypeOK, Call, table, telling, world
<1>5. CASE FullPrices
    <2>1. sync' \in [Callers -> Call]
        BY <1>5, <1>0, <1>1 DEF FullPrices, Places
    <2> QED BY <1>5, <2>1 DEF FullPrices, TypeOK, Call, table, telling, world
<1>6. CASE FullFinish \/ FullFail
    <2>1. sync' \in [Callers -> Call]
        BY <1>6, <1>0, <1>1 DEF FullFinish, FullFail, Places
    <2> QED BY <1>6, <2>1 DEF FullFinish, FullFail, TypeOK, Call, table, telling, world
<1>7. CASE FullStartFails \/ FullFailUnrecorded
    <2>1. sync' \in [Callers -> Call]
        BY <1>7, <1>0, <1>1 DEF FullStartFails, FullFailUnrecorded, Places
    <2>2. faults' \in 0..MaxFaults
        BY <1>7, BoundsAssumption DEF FullStartFails, FullFailUnrecorded, Failing, TypeOK
    <2>3. CASE FullStartFails
        BY <2>1, <2>2, <2>3 DEF FullStartFails, TypeOK, Call, table, telling, world
    <2>4. CASE FullFailUnrecorded
        BY <2>1, <2>2, <2>4 DEF FullFailUnrecorded, TypeOK, Call, table, telling, world
    <2> QED BY <1>7, <2>3, <2>4
<1>8. CASE FullRaises \/ FullReleaseFails
    <2>1. sync' \in [Callers -> Call]
        BY <1>8, <1>0, <1>1 DEF FullRaises, FullReleaseFails, Places
    <2>2. faults' \in 0..MaxFaults
        BY <1>8, BoundsAssumption DEF FullRaises, FullReleaseFails, Failing, TypeOK
    <2>3. record' \in {record, "success", "failed"}
        BY <1>8 DEF FullRaises, FullReleaseFails
    <2>4. UNCHANGED <<table, locks, telling, world, edits>>
        BY <1>8 DEF FullRaises, FullReleaseFails
    <2> QED BY <2>1, <2>2, <2>3, <2>4 DEF TypeOK, Call, table, telling, world
<1>9. CASE FullRequested
    <2>1. sync' \in [Callers -> Call]
        BY <1>9, <1>0, <1>1 DEF FullRequested, Places
    <2> QED BY <1>9, <2>1, BoundsAssumption DEF FullRequested, Edit, TypeOK, Call, table, telling, world
<1> QED BY <1>3, <1>4, <1>5, <1>6, <1>7, <1>8, <1>9 DEF FullStep

LEMMA TypeNews ==
    ASSUME TypeOK,
           \/ NewsStep \/ NewsLogFails \/ NewsFails
           \/ \E m \in news.todo : NewsSendFails(m)
    PROVE  TypeOK'
<1>0. /\ news = [on |-> news.on, todo |-> news.todo, at |-> news.at]
      /\ news.on \in BOOLEAN /\ news.todo \subseteq Messages
      /\ news.at \in Messages \cup {NoValue}
    BY DEF TypeOK, News
<1>1. ASSUME NEW on \in BOOLEAN, NEW todo \in SUBSET Messages, NEW at \in Messages \cup {NoValue}
      PROVE  [on |-> on, todo |-> todo, at |-> at] \in News
    BY DEF News
<1>2. ASSUME NEW m \in Messages, NEW arrives \in BOOLEAN, Arrives(m, arrives)
      PROVE  got' \subseteq Messages /\ repeats' \in Nat
    BY <1>2 DEF Arrives, TypeOK
<1>3. CASE NewsStart
    <2>1. news' \in News
        BY <1>3, <1>1 DEF NewsStart, News
    <2> QED BY <1>3, <2>1 DEF NewsStart, TypeOK, table, syncing, world
<1>4. CASE NewsLog
    <2>1. news' \in News
        BY <1>0, <1>4 DEF NewsLog, News
    <2>2. log' \subseteq Messages
        BY <1>0, <1>4 DEF NewsLog, TypeOK
    <2> QED BY <1>4, <2>1, <2>2 DEF NewsLog, TypeOK, table, syncing, world
<1>5. CASE NewsEnd
    BY <1>5 DEF NewsEnd, NoNews, News, TypeOK, table, syncing, world
<1>6. ASSUME NEW m \in news.todo, NewsSkip(m) PROVE TypeOK'
    <2>1. news' \in News
        BY <1>0, <1>6 DEF NewsSkip, News
    <2> QED BY <1>6, <2>1 DEF NewsSkip, TypeOK, table, syncing, world
<1>7. ASSUME NEW m \in news.todo, NewsSend(m) PROVE TypeOK'
    <2>1. m \in Messages
        BY <1>0
    <2>2. news' \in News
        BY <1>0, <1>7, <2>1 DEF NewsSend, News
    <2>3. got' \subseteq Messages /\ repeats' \in Nat
        BY <1>2, <1>7, <2>1 DEF NewsSend
    <2> QED BY <1>7, <2>2, <2>3 DEF NewsSend, TypeOK, table, syncing, world
<1>8. ASSUME NEW m \in news.todo, NewsSendFails(m) PROVE TypeOK'
    <2>1. m \in Messages
        BY <1>0
    <2>2. news' \in News
        BY <1>0, <1>8 DEF NewsSendFails, News
    <2>3. got' \subseteq Messages /\ repeats' \in Nat
        BY <1>2, <1>8, <2>1 DEF NewsSendFails
    <2> QED BY <1>8, <2>2, <2>3, BoundsAssumption
            DEF NewsSendFails, Failing, TypeOK, table, syncing, world
<1>9. CASE NewsLogFails
    <2>1. news' \in News
        BY <1>0, <1>9 DEF NewsLogFails, News
    <2> QED BY <1>9, <2>1, BoundsAssumption DEF NewsLogFails, Failing, TypeOK, table, syncing, world
<1>10. CASE NewsFails
    <2>1. news' \in News
        BY <1>10 DEF NewsFails, NoNews, News
    <2> QED BY <1>10, <2>1, BoundsAssumption DEF NewsFails, Failing, TypeOK, table, syncing, world
<1> QED BY <1>3, <1>4, <1>5, <1>6, <1>7, <1>8, <1>9, <1>10 DEF NewsStep

LEMMA TypeRest ==
    ASSUME TypeOK,
           \/ Stop \/ Restart \/ Tick
           \/ \E lock \in {"full", "giveaways"} : LockExpires(lock)
           \/ \E i \in Manual : AddManual(i)
           \/ \E u \in Users : Toggle(u) \/ ChooseKinds(u) \/ PremiumChanges(u) \/ DeleteUser(u)
    PROVE  TypeOK'
<1>0. NoFeed \in Feeds /\ "full" \in Callers /\ "idle" \in Places /\ "start" \in Places
    BY DEF NoFeed, Feeds, Callers, Places
<1>1. CASE Stop
    <2>1. sync' \in [Callers -> [at : Places, feed : Feeds]] /\ news' \in News
        BY <1>0, <1>1 DEF Stop, NoNews, News
    <2>2. /\ faults' \in 0..MaxFaults
          /\ up' = FALSE
        BY <1>1, BoundsAssumption DEF Stop, Failing, TypeOK
    <2>3. locks' \subseteq {"full", "giveaways"}
        BY <1>1, Zenon DEF Stop, TypeOK
    <2>4. UNCHANGED <<table, record, log, got, repeats, now, edits>>
        BY <1>1 DEF Stop
    <2> QED BY <2>1, <2>2, <2>3, <2>4 DEF TypeOK, table
<1>2. CASE Restart
    <2>1. sync' \in [Callers -> [at : Places, feed : Feeds]]
        BY <1>0, <1>2 DEF Restart, Goto, TypeOK
    <2> QED BY <1>2, <2>1 DEF Restart, TypeOK, table, telling
<1>3. CASE Tick
    BY <1>3, BoundsAssumption DEF Tick, TypeOK, table, syncing, telling
<1>4. ASSUME NEW lock \in {"full", "giveaways"}, LockExpires(lock) PROVE TypeOK'
    BY <1>4 DEF LockExpires, TypeOK, table, telling, world
<1>5. ASSUME NEW i \in Manual, AddManual(i) PROVE TypeOK'
    <2>1. offered' \in [Items -> Terms \cup {NoValue}]
        BY <1>5, TermsAssumption DEF AddManual, TypeOK, Items
    <2> QED BY <1>5, <2>1, BoundsAssumption DEF AddManual, Edit, TypeOK, syncing, telling, world
<1>6. ASSUME NEW u \in Users, Exists(u) PROVE settings[u] \in Settings
    BY <1>6 DEF Exists, TypeOK
<1>7. ASSUME NEW u \in Users, NEW on \in BOOLEAN, NEW premium \in BOOLEAN,
             NEW kinds \in SUBSET Kinds, SaveSettings(u, on, premium, kinds)
      PROVE  settings' \in [Users -> Settings \cup {NoValue}]
    <2>1. [on |-> on, premium |-> premium, kinds |-> kinds] \in Settings
        BY DEF Settings
    <2> QED BY <1>7, <2>1 DEF SaveSettings, TypeOK
<1>8. ASSUME NEW u \in Users, Toggle(u) \/ PremiumChanges(u) PROVE TypeOK'
    <2>1. settings[u] \in Settings
        BY <1>6, <1>8 DEF Toggle, PremiumChanges
    <2>2. /\ settings[u].on \in BOOLEAN /\ settings[u].premium \in BOOLEAN
          /\ settings[u].kinds \in SUBSET Kinds
        BY <2>1 DEF Settings
    <2>3. (~settings[u].on) \in BOOLEAN /\ (~settings[u].premium) \in BOOLEAN
        OBVIOUS
    <2>4. settings' \in [Users -> Settings \cup {NoValue}]
        BY <1>7, <1>8, <2>2, <2>3, Zenon DEF Toggle, PremiumChanges
    <2>5. edits' \in 0..MaxEdits
        BY <1>8, BoundsAssumption DEF Toggle, PremiumChanges, Edit, TypeOK
    <2>6. UNCHANGED <<offered, syncing, telling, world, faults>>
        BY <1>8 DEF Toggle, PremiumChanges
    <2> QED BY <2>4, <2>5, <2>6 DEF TypeOK, syncing, telling, world
<1>9. ASSUME NEW u \in Users, ChooseKinds(u) PROVE TypeOK'
    <2>1. settings[u] \in Settings
        BY <1>6, <1>9 DEF ChooseKinds
    <2>2. settings[u].on \in BOOLEAN /\ settings[u].kinds \in SUBSET Kinds
        BY <2>1 DEF Settings
    <2>3. PICK kinds \in SUBSET Kinds : SaveSettings(u, settings[u].on, TRUE, kinds)
        BY <1>9, <2>2 DEF ChooseKinds
    <2>4. settings' \in [Users -> Settings \cup {NoValue}]
        BY <1>7, <2>2, <2>3, Zenon
    <2> QED BY <1>9, <2>4, BoundsAssumption DEF ChooseKinds, Edit, TypeOK, syncing, telling, world
<1>10. ASSUME NEW u \in Users, DeleteUser(u) PROVE TypeOK'
    <2>1. log' \subseteq Messages /\ settings' \in [Users -> Settings \cup {NoValue}]
        BY <1>10 DEF DeleteUser, TypeOK
    <2> QED BY <1>10, <2>1, BoundsAssumption DEF DeleteUser, Edit, TypeOK, syncing, world
<1> QED BY <1>1, <1>2, <1>3, <1>4, <1>5, <1>8, <1>9, <1>10

LEMMA TypeStep == TypeOK /\ [Next]_vars => TypeOK'
<1> SUFFICES ASSUME TypeOK, [Next]_vars PROVE TypeOK'
    OBVIOUS
<1>1. CASE UNCHANGED vars
    BY <1>1 DEF vars, table, syncing, telling, world, TypeOK
<1>2. CASE Next
    BY <1>2, TypeSync, TypeNews, TypeRest DEF Next, Fault, Wishes
<1> QED BY <1>1, <1>2

\* All variables keep their types, however many users, giveaways and terms.
THEOREM TypeCorrect == Spec => []TypeOK
BY TypeInit, TypeStep, PTL DEF Spec
-----------------------------------------------------------------------------
\* A caller inside of sync_giveaways is alone there and holds the lock, and a
\* full run beyond its start holds its own.
LEMMA AloneInit == Init => OneSyncAtATime
BY DEF Init, OneSyncAtATime, InUse, Inside, Callers

LEMMA AloneStep == TypeOK /\ OneSyncAtATime /\ [Next]_vars => OneSyncAtATime'
<1> SUFFICES ASSUME TypeOK, OneSyncAtATime, [Next]_vars PROVE OneSyncAtATime'
    OBVIOUS
<1>0. sync \in [Callers -> Call] /\ "full" \in Callers /\ "job" \in Callers
    BY DEF TypeOK, Call, Callers
<1>1. ASSUME UNCHANGED <<sync, locks>> PROVE OneSyncAtATime'
    BY <1>1 DEF OneSyncAtATime, InUse
<1>2. ASSUME NEW c \in Callers, SyncBegin(c) PROVE OneSyncAtATime'
    <2>1. sync[c].at \notin Inside
        BY <1>2 DEF SyncBegin, Calls, Inside
    <2>2. CASE "giveaways" \in locks
        BY <1>0, <1>2, <2>1, <2>2
        DEF SyncBegin, Calls, Goto, Returned, OneSyncAtATime, InUse, Inside, Callers, Call
    <2>3. CASE "giveaways" \notin locks
        <3>1. \A d \in Callers : sync[d].at \notin Inside
            BY <2>3 DEF OneSyncAtATime, InUse
        <3> QED BY <1>0, <1>2, <2>3, <3>1
            DEF SyncBegin, Calls, Goto, OneSyncAtATime, InUse, Inside, Callers, Call
    <2> QED BY <2>2, <2>3
<1>3. ASSUME NEW c \in Callers, SyncFetch(c) \/ SyncSave(c) \/ SyncFails(c) PROVE OneSyncAtATime'
    <2>1. PICK place \in Inside, feed \in Feeds : sync' = [sync EXCEPT ![c] = [at |-> place, feed |-> feed]]
        BY <1>3 DEF SyncFetch, SyncSave, SyncFails, Inside, NoFeed, Feeds
    <2>2. sync[c].at \in Inside /\ locks' = locks
        BY <1>3 DEF SyncFetch, SyncSave, SyncFails, Inside
    <2> QED BY <1>0, <2>1, <2>2 DEF OneSyncAtATime, InUse, Inside, Callers, Call
<1>4. ASSUME NEW c \in Callers, SyncRelease(c) PROVE OneSyncAtATime'
    BY <1>0, <1>4 DEF SyncRelease, Goto, Returned, Raised, OneSyncAtATime, InUse, Inside, Callers, Call
<1>16. ASSUME NEW c \in Callers, SyncReleaseFails(c) PROVE OneSyncAtATime'
    BY <1>0, <1>16 DEF SyncReleaseFails, Goto, Raised, OneSyncAtATime, InUse, Inside, Callers, Call
<1>17. CASE FullReleaseFails
    BY <1>0, <1>17 DEF FullReleaseFails, Goto, OneSyncAtATime, InUse, Inside, Callers, Call
<1>5. CASE FullStart
    BY <1>0, <1>5 DEF FullStart, Goto, OneSyncAtATime, InUse, Inside, Callers, Call
<1>6. CASE FullPrices \/ FullRaises
    BY <1>0, <1>6 DEF FullPrices, FullRaises, Goto, OneSyncAtATime, InUse, Inside, Callers, Call
<1>7. CASE FullFinish \/ FullFail \/ FullFailUnrecorded
    BY <1>0, <1>7 DEF FullFinish, FullFail, FullFailUnrecorded, Goto, OneSyncAtATime, InUse, Inside, Callers, Call
<1>8. CASE FullStartFails
    BY <1>0, <1>8 DEF FullStartFails, Goto, OneSyncAtATime, InUse, Inside, Callers, Call
<1>9. CASE FullRequested \/ Restart
    BY <1>0, <1>9 DEF FullRequested, Restart, Goto, OneSyncAtATime, InUse, Inside, Callers, Call, world
<1>10. CASE Stop
    BY <1>0, <1>10 DEF Stop, OneSyncAtATime, InUse, Inside, Callers
<1>11. ASSUME NEW lock \in {"full", "giveaways"}, LockExpires(lock) PROVE OneSyncAtATime'
    BY <1>11 DEF LockExpires, OneSyncAtATime, InUse
<1>12. CASE \/ NewsStep \/ NewsLogFails \/ NewsFails
            \/ \E m \in news.todo : NewsSendFails(m)
    <2>1. UNCHANGED syncing
        BY <1>12 DEF NewsStep, NewsStart, NewsLog, NewsEnd, NewsSkip, NewsSend, NewsSendFails,
                     NewsLogFails, NewsFails
    <2> QED BY <1>1, <2>1 DEF syncing
<1>13. CASE Tick
    BY <1>1, <1>13 DEF Tick, syncing
<1>14. CASE \/ \E i \in Manual : AddManual(i)
            \/ \E u \in Users : Toggle(u) \/ ChooseKinds(u) \/ PremiumChanges(u) \/ DeleteUser(u)
    <2>1. UNCHANGED syncing
        BY <1>14 DEF AddManual, Toggle, ChooseKinds, PremiumChanges, DeleteUser
    <2> QED BY <1>1, <2>1 DEF syncing
<1>15. CASE UNCHANGED vars
    BY <1>1, <1>15 DEF vars, syncing
<1> QED BY <1>2, <1>3, <1>4, <1>5, <1>6, <1>7, <1>8, <1>9, <1>10, <1>11, <1>12, <1>13, <1>14, <1>15, <1>16, <1>17
        DEF Next, Fault, Wishes, SyncStep, FullStep

\* The hourly job and a full run never synchronise the giveaways together.
THEOREM SyncsAlone == Spec => []OneSyncAtATime
BY TypeInit, TypeStep, AloneInit, AloneStep, PTL DEF Spec
-----------------------------------------------------------------------------
(* Nothing is left behind without a fault.                                 *)

\* Without a fault nothing raises and nothing stops.
Untroubled == faults = 0 => up /\ \A c \in Callers : sync[c].at \notin {"raise", "failing"}

Tidy == Untroubled /\ NothingLeftBehind

LEMMA TidyInit == Init => Tidy
BY DEF Init, Tidy, Untroubled, NothingLeftBehind, Callers

\* A fault is one from then on.
LEMMA FaultCounts == TypeOK /\ Failing => faults' # 0
BY BoundsAssumption DEF TypeOK, Failing

LEMMA TidyStep == TypeOK /\ Tidy /\ [Next]_vars => Tidy'
<1> SUFFICES ASSUME TypeOK, Tidy, [Next]_vars PROVE Tidy'
    OBVIOUS
<1>0. sync \in [Callers -> Call] /\ "full" \in Callers /\ "job" \in Callers
      /\ locks \subseteq {"full", "giveaways"}
    BY DEF TypeOK, Call, Callers
<1>1. ASSUME UNCHANGED <<sync, locks, record, up>>, faults' = faults PROVE Tidy'
    BY <1>1 DEF Tidy, Untroubled, NothingLeftBehind, InUse
<1>2. ASSUME Failing PROVE Tidy'
    BY <1>2, FaultCounts DEF Tidy, Untroubled, NothingLeftBehind
<1>3. ASSUME faults # 0, faults' = faults PROVE Tidy'
    BY <1>3 DEF Tidy, Untroubled, NothingLeftBehind
<1>4. ASSUME faults = 0
      PROVE  /\ up /\ \A c \in Callers : sync[c].at \notin {"raise", "failing"}
             /\ \A lock \in locks : InUse(lock)
             /\ record = "running" => InUse("full")
    BY <1>4 DEF Tidy, Untroubled, NothingLeftBehind
<1>5. ASSUME NEW c \in Callers, SyncBegin(c) \/ SyncFetch(c) \/ SyncSave(c) PROVE Tidy'
    <2>1. /\ faults' = faults /\ up' = up /\ record' = record
        BY <1>5 DEF SyncBegin, SyncFetch, SyncSave, world
    <2>2. CASE SyncBegin(c) /\ faults = 0
        BY <1>0, <1>4, <2>1, <2>2
        DEF SyncBegin, Calls, Goto, Returned, Tidy, Untroubled, NothingLeftBehind, InUse, Inside, Callers, Call
    <2>3. CASE (SyncFetch(c) \/ SyncSave(c)) /\ faults = 0
        <3>1. PICK place \in {"save", "release"}, feed \in Feeds :
                  sync' = [sync EXCEPT ![c] = [at |-> place, feed |-> feed]]
            BY <2>3 DEF SyncFetch, SyncSave, NoFeed, Feeds
        <3>2. sync[c].at \in {"fetch", "save"} /\ locks' = locks
            BY <2>3 DEF SyncFetch, SyncSave
        <3> QED BY <1>0, <1>4, <2>1, <2>3, <3>1, <3>2
            DEF Tidy, Untroubled, NothingLeftBehind, InUse, Inside, Callers, Call
    <2> QED BY <1>3, <1>5, <2>1, <2>2, <2>3
<1>6. ASSUME NEW c \in Callers, SyncRelease(c) PROVE Tidy'
    <2>1. faults' = faults /\ up' = up /\ record' = record
        BY <1>6 DEF SyncRelease, world
    <2>2. CASE faults = 0
        BY <1>0, <1>4, <1>6, <2>1, <2>2
        DEF SyncRelease, Goto, Returned, Tidy, Untroubled, NothingLeftBehind, InUse, Inside, Callers, Call
    <2> QED BY <1>3, <2>1, <2>2
<1>7. CASE FullStart \/ FullPrices \/ FullFinish
    <2>1. faults' = faults /\ up' = up
        BY <1>7 DEF FullStart, FullPrices, FullFinish, world
    <2>2. CASE FullStart /\ faults = 0
        BY <1>0, <1>4, <2>1, <2>2
        DEF FullStart, Goto, Tidy, Untroubled, NothingLeftBehind, InUse, Inside, Callers, Call
    <2>3. CASE FullPrices /\ faults = 0
        BY <1>0, <1>4, <2>1, <2>3
        DEF FullPrices, Goto, Tidy, Untroubled, NothingLeftBehind, InUse, Inside, Callers, Call
    <2>4. CASE FullFinish /\ faults = 0
        BY <1>0, <1>4, <2>1, <2>4
        DEF FullFinish, Goto, Tidy, Untroubled, NothingLeftBehind, InUse, Inside, Callers, Call
    <2> QED BY <1>3, <1>7, <2>1, <2>2, <2>3, <2>4
<1>8. CASE FullFail \/ FullFailUnrecorded \/ Restart
    <2>1. faults' = faults
        BY <1>8 DEF FullFail, FullFailUnrecorded, Restart
    <2>2. faults # 0
        BY <1>0, <1>4, <1>8 DEF FullFail, FullFailUnrecorded, Restart
    <2> QED BY <1>3, <2>1, <2>2
<1>9. CASE FullRequested
    <2>1. UNCHANGED <<locks, record, up>> /\ faults' = faults
        BY <1>9 DEF FullRequested, world
    <2>2. CASE faults = 0
        BY <1>0, <1>4, <1>9, <2>1, <2>2
        DEF FullRequested, Goto, Tidy, Untroubled, NothingLeftBehind, InUse, Inside, Callers, Call
    <2> QED BY <1>3, <2>1, <2>2
<1>10. ASSUME NEW lock \in {"full", "giveaways"}, LockExpires(lock) PROVE Tidy'
    BY <1>10 DEF LockExpires, Tidy, Untroubled, NothingLeftBehind, InUse, world
<1>11. CASE FullStartFails \/ FullRaises \/ FullReleaseFails \/ NewsLogFails \/ NewsFails \/ Stop
    BY <1>2, <1>11 DEF FullStartFails, FullRaises, FullReleaseFails, NewsLogFails, NewsFails, Stop
<1>12. CASE \/ \E c \in Callers : SyncFails(c) \/ SyncReleaseFails(c)
            \/ \E m \in news.todo : NewsSendFails(m)
    BY <1>2, <1>12 DEF SyncFails, SyncReleaseFails, NewsSendFails
<1>13. CASE NewsStep
    <2>1. UNCHANGED <<syncing, world, faults>>
        BY <1>13 DEF NewsStep, NewsStart, NewsLog, NewsEnd, NewsSkip, NewsSend
    <2> QED BY <1>1, <2>1 DEF syncing, world
<1>14. CASE Tick
    BY <1>1, <1>14 DEF Tick, syncing
<1>15. CASE \/ \E i \in Manual : AddManual(i)
            \/ \E u \in Users : Toggle(u) \/ ChooseKinds(u) \/ PremiumChanges(u) \/ DeleteUser(u)
    <2>1. UNCHANGED <<syncing, world, faults>>
        BY <1>15 DEF AddManual, Toggle, ChooseKinds, PremiumChanges, DeleteUser
    <2> QED BY <1>1, <2>1 DEF syncing, world
<1>16. CASE UNCHANGED vars
    BY <1>1, <1>16 DEF vars, syncing, world
<1> QED BY <1>5, <1>6, <1>7, <1>8, <1>9, <1>10, <1>11, <1>12, <1>13, <1>14, <1>15, <1>16
        DEF Next, Fault, Wishes, SyncStep, FullStep

\* As long as nothing failed, no lock and no record that says "running" is left
\* behind, whatever full runs, hourly runs and administrators do at once.
THEOREM TidyHolds == Spec => []NothingLeftBehind
<1>1. Tidy => NothingLeftBehind
    BY DEF Tidy
<1> QED BY TypeInit, TypeStep, TidyInit, TidyStep, <1>1, PTL DEF Spec

-----------------------------------------------------------------------------
(* The refinement of Delivery.                                             *)

\* The message on its way belongs to a run.
RunsSend == ~news.on => news.at = NoValue

LEMMA RunsSendInit == Init => RunsSend
BY DEF Init, RunsSend, NoNews

LEMMA RunsSendStep == TypeOK /\ RunsSend /\ [Next]_vars => RunsSend'
<1> SUFFICES ASSUME TypeOK, RunsSend, [Next]_vars PROVE RunsSend'
    OBVIOUS
<1>0. news \in News
    BY DEF TypeOK
<1>1. ASSUME UNCHANGED news PROVE RunsSend'
    BY <1>1 DEF RunsSend
<1>2. CASE NewsStart \/ NewsEnd \/ NewsFails \/ Stop
    BY <1>2 DEF NewsStart, NewsEnd, NewsFails, Stop, NoNews, RunsSend
<1>3. CASE NewsLog \/ NewsLogFails
    BY <1>0, <1>3 DEF NewsLog, NewsLogFails, News, RunsSend
<1>4. ASSUME NEW m \in news.todo, NewsSkip(m) PROVE RunsSend'
    <2>1. news'.at = news.at /\ news'.on = news.on
        BY <1>0, <1>4 DEF NewsSkip, News
    <2> QED BY <2>1 DEF RunsSend
<1>5. ASSUME NEW m \in news.todo, NewsSend(m) \/ NewsSendFails(m) PROVE RunsSend'
    <2>1. PICK at, todo : news' = [on |-> TRUE, todo |-> todo, at |-> at]
        BY <1>5, Zenon DEF NewsSend, NewsSendFails
    <2>2. news'.on
        BY <2>1
    <2> QED BY <2>2 DEF RunsSend
<1>9. ASSUME NEW c \in Callers, SyncStep(c) \/ SyncFails(c) \/ SyncReleaseFails(c) PROVE RunsSend'
    <2>1. UNCHANGED telling
        BY <1>9 DEF SyncStep, SyncBegin, SyncFetch, SyncSave, SyncRelease, SyncFails, SyncReleaseFails
    <2> QED BY <1>1, <2>1 DEF telling
<1>6. CASE \/ FullStep \/ FullStartFails \/ FullRaises \/ FullFailUnrecorded \/ FullReleaseFails
           \/ \E lock \in {"full", "giveaways"} : LockExpires(lock)
    <2>1. UNCHANGED telling
        BY <1>6 DEF FullStep, FullStart, FullPrices, FullFinish, FullFail,
                    FullStartFails, FullRaises, FullFailUnrecorded, FullReleaseFails, LockExpires
    <2> QED BY <1>1, <2>1 DEF telling
<1>7. CASE Restart \/ Tick \/ Wishes
    <2>1. UNCHANGED news
        BY <1>7 DEF Restart, Tick, Wishes, FullRequested, AddManual, Toggle, ChooseKinds,
                    PremiumChanges, DeleteUser, telling
    <2> QED BY <1>1, <2>1
<1>8. CASE UNCHANGED vars
    BY <1>1, <1>8 DEF vars, telling
<1> QED BY <1>2, <1>3, <1>4, <1>5, <1>6, <1>7, <1>8, <1>9 DEF Next, Fault, NewsStep

\* What no step of Delivery sees.
LEMMA Unseen ==
    ASSUME UNCHANGED <<got, log, repeats, faults>>,
           Gone' = Gone, InFlight' = InFlight
    PROVE  UNCHANGED D!vars
BY DEF D!vars, Noted

\* A fault of this module that loses the message on its way, if anything.
LEMMA SeenAsFault ==
    ASSUME TypeOK, UNCHANGED <<got, log, repeats>>, Gone' = Gone, Failing,
           InFlight' = InFlight \/ InFlight' = {}
    PROVE  D!Fault
<1>1. faults' \in Nat /\ faults' > faults
    BY DEF Failing, TypeOK
<1>2. Noted' = Noted /\ Noted \subseteq Messages
    BY DEF Noted, Gone, TypeOK
<1>3. UNCHANGED InFlight \/ \E m \in InFlight : InFlight' = InFlight \ {m}
    BY DEF InFlight
<1> QED BY <1>1, <1>2, <1>3 DEF D!Fault

LEMMA RefineInit == TypeOK /\ Init => D!Init
<1> SUFFICES ASSUME TypeOK, Init PROVE D!Init
    OBVIOUS
<1>1. \A u \in Users : Exists(u)
    BY ProfilesAssumption, NoValueAssumption DEF Init, Exists, Settings
<1>2. Gone = {}
    BY <1>1 DEF Gone, Messages
<1>3. InFlight = {}
    BY DEF InFlight, Init, NoNews
<1> QED BY <1>2, <1>3 DEF D!Init, Init, Noted

\* The sending of a message: Delivery's Send, or nothing when the user is gone.
LEMMA RefineSend ==
    ASSUME TypeOK, NEW m \in news.todo, NewsSend(m)
    PROVE  [D!Next]_D!vars
<1>1. m \in Messages /\ Gone' = Gone /\ news.at = NoValue /\ m \notin log
    BY DEF NewsSend, Turn, TypeOK, News, Gone, Exists, table
<1>2. InFlight = {} /\ news'.at = m /\ m # NoValue
    BY <1>1, NoValueAssumption DEF NewsSend, InFlight
<1>3. CASE ~Exists(m[1])
    <2>1. UNCHANGED <<got, repeats, log, faults>>
        BY <1>3 DEF NewsSend, Arrives
    <2>2. InFlight' = {}
        BY <1>2, <1>3 DEF InFlight, NewsSend, Exists, table
    <2> QED BY <1>1, <1>2, <2>1, <2>2, Unseen
<1>4. CASE Exists(m[1])
    <2>1. m \notin Noted \cup InFlight
        BY <1>1, <1>2, <1>4 DEF Noted, Gone
    <2>2. /\ got' = got \cup {m} /\ faults' = faults /\ faults \in Nat /\ repeats \in Nat
          /\ repeats' = IF m \in got THEN repeats + 1 ELSE repeats
        BY <1>4 DEF NewsSend, Arrives, TypeOK
    <2>3. InFlight' = InFlight \cup {m} /\ Noted' = Noted
        BY <1>1, <1>2, <1>4 DEF InFlight, NewsSend, Exists, table, Noted
    <2>4. repeats' = repeats + 1 - (IF 1 > 0 /\ m \notin got THEN 1 ELSE 0)
        BY <2>2
    <2>5. 1 \in 0..(faults' - faults) + 1 /\ 1 <= (faults' - faults) + (IF TRUE THEN 1 ELSE 0) /\ 1 > 0
        BY <2>2
    <2>6. faults' \in Nat /\ faults' >= faults
        BY <2>2
    <2>7. /\ TRUE => 1 > 0
          /\ got' = IF 1 > 0 THEN got \cup {m} ELSE got
          /\ InFlight' = IF TRUE THEN InFlight \cup {m} ELSE InFlight
        BY <2>2, <2>3
    <2>8. D!Send(m)
        BY <2>1, <2>3, <2>4, <2>5, <2>6, <2>7 DEF D!Send
    <2> QED BY <1>1, <2>8 DEF D!Next
<1> QED BY <1>3, <1>4

\* A send that raises: a Send without the sender's knowledge, or a mere fault.
LEMMA RefineSendFails ==
    ASSUME TypeOK, NEW m \in news.todo, NewsSendFails(m)
    PROVE  D!Next
<1>1. m \in Messages /\ Gone' = Gone /\ news.at = NoValue /\ m \notin log
    BY DEF NewsSendFails, Turn, TypeOK, News, Gone, Exists, table
<1>2. InFlight = {} /\ news'.at = NoValue /\ Failing /\ log' = log
    BY <1>1 DEF NewsSendFails, InFlight
<1>3. InFlight' = {}
    BY <1>2 DEF InFlight
<1>4. PICK arrives \in BOOLEAN : Arrives(m, arrives)
    BY DEF NewsSendFails
<1>5. CASE ~(arrives /\ Exists(m[1]))
    <2>1. got' = got /\ repeats' = repeats
        BY <1>4, <1>5 DEF Arrives
    <2> QED BY <1>1, <1>2, <1>3, <2>1, SeenAsFault DEF D!Next
<1>6. CASE arrives /\ Exists(m[1])
    <2>1. m \notin Noted \cup InFlight
        BY <1>1, <1>2, <1>6 DEF Noted, Gone
    <2>2. /\ got' = got \cup {m} /\ faults' = faults + 1 /\ faults \in Nat /\ repeats \in Nat
          /\ repeats' = IF m \in got THEN repeats + 1 ELSE repeats
        BY <1>2, <1>4, <1>6 DEF Arrives, Failing, TypeOK
    <2>3. InFlight' = InFlight /\ Noted' = Noted
        BY <1>1, <1>2, <1>3 DEF Noted
    <2>4. repeats' = repeats + 1 - (IF 1 > 0 /\ m \notin got THEN 1 ELSE 0)
        BY <2>2
    <2>5. 1 \in 0..(faults' - faults) + 1 /\ 1 <= (faults' - faults) + (IF FALSE THEN 1 ELSE 0) /\ 1 > 0
        BY <2>2
    <2>6. faults' \in Nat /\ faults' >= faults
        BY <2>2
    <2>7. D!Send(m)
        BY <2>1, <2>2, <2>3, <2>4, <2>5, <2>6 DEF D!Send
    <2> QED BY <1>1, <2>7 DEF D!Next
<1> QED BY <1>5, <1>6

LEMMA RefineNote ==
    ASSUME TypeOK, NewsLog \/ \E u \in Users : DeleteUser(u)
    PROVE  D!Next
<1>1. Noted' \in SUBSET Messages /\ Noted \subseteq Noted'
    <2>1. CASE NewsLog
        <3>1. Gone' = Gone
            BY <2>1 DEF NewsLog, Gone, Exists, table
        <3>2. log \subseteq log' /\ log' \subseteq Messages
            BY <2>1 DEF NewsLog, TypeOK, News
        <3> QED BY <3>1, <3>2 DEF Noted, Gone
    <2>2. ASSUME NEW u \in Users, DeleteUser(u) PROVE Noted' \in SUBSET Messages /\ Noted \subseteq Noted'
        <3>1. settings' = [settings EXCEPT ![u] = NoValue] /\ settings \in [Users -> Settings \cup {NoValue}]
            BY <2>2 DEF DeleteUser, TypeOK
        <3>2. \A m \in Messages : m \in Gone' <=> (m \in Gone \/ m[1] = u)
            BY <3>1 DEF Gone, Exists, Messages
        <3>3. log' = {m \in log : m[1] # u} /\ log \subseteq Messages
            BY <2>2 DEF DeleteUser, TypeOK
        <3> QED BY <3>2, <3>3 DEF Noted, Gone
    <2> QED BY <2>1, <2>2
<1>2. InFlight' \in SUBSET InFlight /\ InFlight \ Noted' \subseteq InFlight'
    <2>1. CASE NewsLog
        <3>1. news'.at = NoValue /\ Noted' = IF Exists(news.at[1]) THEN Noted \cup {news.at} ELSE Noted
            BY <2>1 DEF NewsLog, Noted, Gone, Exists, table, TypeOK, News
        <3> QED BY <3>1 DEF InFlight
    <2>2. ASSUME NEW u \in Users, DeleteUser(u)
          PROVE  InFlight' \in SUBSET InFlight /\ InFlight \ Noted' \subseteq InFlight'
        <3>1. /\ settings' = [settings EXCEPT ![u] = NoValue] /\ settings \in [Users -> Settings \cup {NoValue}]
              /\ news' = news /\ news.at \in Messages \cup {NoValue}
            BY <2>2 DEF DeleteUser, TypeOK, News
        <3>2. \A m \in Messages : Exists(m[1])' <=> (Exists(m[1]) /\ m[1] # u)
            BY <3>1 DEF Exists, Messages
        <3>3. \A m \in Messages : ~Exists(m[1])' => m \in Noted'
            BY DEF Noted, Gone
        <3> QED BY <3>1, <3>2, <3>3 DEF InFlight
    <2> QED BY <2>1, <2>2
<1>3. UNCHANGED <<got, repeats, faults>>
    BY DEF NewsLog, DeleteUser
<1> QED BY <1>1, <1>2, <1>3 DEF D!Note, D!Next

LEMMA RefineStep == TypeOK /\ RunsSend /\ [Next]_vars => [D!Next]_D!vars
<1> SUFFICES ASSUME TypeOK, RunsSend, [Next]_vars PROVE [D!Next]_D!vars
    OBVIOUS
<1>1. ASSUME UNCHANGED telling, UNCHANGED settings, UNCHANGED faults PROVE UNCHANGED D!vars
    <2>1. Gone' = Gone /\ InFlight' = InFlight
        BY <1>1 DEF Gone, InFlight, Exists, telling
    <2> QED BY <1>1, <2>1, Unseen DEF telling
<1>2. ASSUME UNCHANGED telling, UNCHANGED settings, Failing PROVE D!Next
    <2>1. Gone' = Gone /\ InFlight' = InFlight
        BY <1>2 DEF Gone, InFlight, Exists, telling
    <2> QED BY <1>2, <2>1, SeenAsFault DEF telling, D!Next
<1>3. ASSUME NEW c \in Callers, SyncStep(c) PROVE UNCHANGED D!vars
    <2>1. UNCHANGED telling /\ UNCHANGED settings /\ UNCHANGED faults
        BY <1>3 DEF SyncStep, SyncBegin, SyncFetch, SyncSave, SyncRelease, table
    <2> QED BY <1>1, <2>1
<1>4. CASE FullStep \/ Restart \/ Tick \/ \E lock \in {"full", "giveaways"} : LockExpires(lock)
    <2>1. UNCHANGED telling /\ UNCHANGED settings /\ UNCHANGED faults
        BY <1>4 DEF FullStep, FullStart, FullPrices, FullFinish, FullFail, Restart, Tick, LockExpires, table
    <2> QED BY <1>1, <2>1
<1>5. CASE FullRequested \/ \E i \in Manual : AddManual(i)
    <2>1. UNCHANGED telling /\ UNCHANGED settings /\ UNCHANGED faults
        BY <1>5 DEF FullRequested, AddManual, table
    <2> QED BY <1>1, <2>1
<1>6. ASSUME NEW u \in Users, Toggle(u) \/ ChooseKinds(u) \/ PremiumChanges(u) PROVE UNCHANGED D!vars
    <2>1. Exists(u) /\ UNCHANGED telling /\ UNCHANGED faults
        BY <1>6 DEF Toggle, ChooseKinds, PremiumChanges
    <2>2. PICK row \in Settings : settings' = [settings EXCEPT ![u] = row]
        <3>1. settings[u] \in Settings
            BY <2>1 DEF TypeOK, Exists
        <3>2. /\ settings[u].on \in BOOLEAN /\ settings[u].premium \in BOOLEAN
              /\ settings[u].kinds \in SUBSET Kinds
            BY <3>1 DEF Settings
        <3>3. PICK on \in BOOLEAN, premium \in BOOLEAN, kinds \in SUBSET Kinds :
                 SaveSettings(u, on, premium, kinds)
            <4>1. CASE Toggle(u)
                BY <3>2, <4>1, Zenon DEF Toggle
            <4>2. CASE PremiumChanges(u)
                BY <3>2, <4>2, Zenon DEF PremiumChanges
            <4>3. CASE ChooseKinds(u)
                <5>1. PICK kinds \in SUBSET Kinds : SaveSettings(u, settings[u].on, TRUE, kinds)
                    BY <3>2, <4>3 DEF ChooseKinds
                <5> QED BY <3>2, <5>1, Zenon
            <4> QED BY <1>6, <4>1, <4>2, <4>3
        <3>4. [on |-> on, premium |-> premium, kinds |-> kinds] \in Settings
            BY DEF Settings
        <3> QED BY <3>3, <3>4 DEF SaveSettings
    <2>3. \A v \in Users : Exists(v)' <=> Exists(v)
        BY <2>1, <2>2, NoValueAssumption DEF Exists, TypeOK
    <2>4. Gone' = Gone
        BY <2>3 DEF Gone, Messages
    <2>5. InFlight' = InFlight
        BY <2>1, <2>3 DEF InFlight, Messages, telling, TypeOK, News
    <2> QED BY <2>1, <2>4, <2>5, Unseen DEF telling
<1>7. CASE NewsStart \/ NewsEnd
    <2>1. news.at = NoValue /\ news'.at = NoValue
        BY <1>7 DEF NewsStart, NewsEnd, NoNews, RunsSend
    <2>2. UNCHANGED <<log, got, repeats, faults, settings>>
        BY <1>7 DEF NewsStart, NewsEnd, table
    <2>3. InFlight = {} /\ InFlight' = {}
        BY <2>1 DEF InFlight
    <2>4. Gone' = Gone
        BY <2>2 DEF Gone, Exists
    <2> QED BY <2>2, <2>3, <2>4, Unseen
<1>8. ASSUME NEW m \in news.todo, NewsSkip(m) PROVE UNCHANGED D!vars
    <2>1. news'.at = news.at
        BY <1>8 DEF NewsSkip, TypeOK, News
    <2>2. UNCHANGED <<log, got, repeats, faults, settings>>
        BY <1>8 DEF NewsSkip, table
    <2>3. InFlight' = InFlight /\ Gone' = Gone
        BY <2>1, <2>2 DEF InFlight, Gone, Exists
    <2> QED BY <2>2, <2>3, Unseen
<1>9. CASE NewsLogFails \/ NewsFails \/ Stop
    <2>1. news'.at = NoValue
        BY <1>9 DEF NewsLogFails, NewsFails, Stop, NoNews, TypeOK, News
    <2>2. UNCHANGED <<log, got, repeats, settings>> /\ Failing
        BY <1>9 DEF NewsLogFails, NewsFails, Stop, table
    <2>3. InFlight' = {} /\ Gone' = Gone
        BY <2>1, <2>2 DEF InFlight, Gone, Exists
    <2> QED BY <2>2, <2>3, SeenAsFault DEF D!Next
<1>10. ASSUME NEW c \in Callers, SyncFails(c) \/ SyncReleaseFails(c) PROVE D!Next
    BY <1>2, <1>10 DEF SyncFails, SyncReleaseFails, table
<1>11. CASE FullStartFails \/ FullRaises \/ FullReleaseFails
    BY <1>2, <1>11 DEF FullStartFails, FullRaises, FullReleaseFails, table
<1>12. CASE FullFailUnrecorded
    BY <1>1, <1>12 DEF FullFailUnrecorded, table
<1>13. CASE UNCHANGED vars
    BY <1>1, <1>13 DEF vars, table
<1> QED BY <1>3, <1>4, <1>5, <1>6, <1>7, <1>8, <1>9, <1>10, <1>11, <1>12, <1>13,
           RefineSend, RefineSendFails, RefineNote
        DEF Next, Fault, Wishes, NewsStep

\* The job sends and logs giveaways as Delivery says, whatever the feed, the
\* users and the administrators do.
THEOREM NewsRefinesDelivery == Spec => NewsIsDelivered
BY TypeInit, TypeStep, RunsSendInit, RunsSendStep, RefineInit, RefineStep, PTL
DEF Spec, NewsIsDelivered, D!Spec

\* No user gets more repeated giveaways than there were failures and stops.
THEOREM NewsRepeatsNeedFaults == Spec => []D!AtMostOncePerFault
<1>1. D!Init => P!Init
    BY DEF D!Init, P!Init
<1>2. [D!Next]_D!vars => [P!Next]_P!vars
    BY DEF D!Next, P!Next, D!vars, P!vars, D!Send, P!Send, D!Note, P!Note, D!Fault, P!Fault
<1>3. P!AtMostOncePerFault => D!AtMostOncePerFault
    BY DEF D!AtMostOncePerFault, P!AtMostOncePerFault
<1> QED BY NewsRefinesDelivery, P!RepeatsOweToFaults, <1>1, <1>2, <1>3, PTL DEF NewsIsDelivered, D!Spec, P!Spec
=============================================================================
