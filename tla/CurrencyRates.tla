--------------------------- MODULE CurrencyRates ---------------------------
(***************************************************************************)
(* CurrencyService.rates: one set of rates with a copy in redis, a copy in *)
(* the database and a provider that publishes new rates now and then.      *)
(*                                                                         *)
(* A set of rates is known by its age since the provider published it.     *)
(* Redis forgets its copy a while after it was SAVED, the database never   *)
(* does.  Calls take seconds and an age counts hours: time passes between  *)
(* calls, publications come at any moment.                                 *)
(***************************************************************************)
EXTENDS Integers

CONSTANTS
    Calls, None,
    Ttl, Limit,    \* ttl and stale_limit
    Lag            \* bound, of the provider: how old its newest rates get

VARIABLES
    published,     \* the age of the provider's newest rates
    redis,         \* [age, kept: since it was saved], or None
    database,      \* an age, or None
    holder,        \* whose lock it is: a call, "dead", or None
    calls,         \* [Calls -> [step, age, stale] or None]
    overrun        \* history: a call outlived its lock

vars == <<published, redis, database, holder, calls, overrun>>

\* Bound: ages beyond Oldest are not told apart.
Oldest == Lag + Limit + 1
Ages == 0..Oldest

Call(step, age, stale) == [step |-> step, age |-> age, stale |-> stale]

TypeOK ==
    /\ published \in 0..Lag /\ overrun \in BOOLEAN
    /\ redis # None => redis.age \in Ages /\ redis.kept \in 0..Limit - 1
    /\ database \in Ages \cup {None} /\ holder \in Calls \cup {"dead", None}
    /\ \A c \in Calls : calls[c] # None =>
         /\ calls[c].step \in {"locking", "missed", "locked", "asking", "fetched", "saving", "answered"}
         /\ calls[c].age \in Ages \cup {None} /\ calls[c].stale \in BOOLEAN

Init ==
    /\ published = 0 /\ redis = None /\ database = None /\ holder = None
    /\ calls = [c \in Calls |-> None] /\ overrun = FALSE

-----------------------------------------------------------------------------
At(c, step) == calls[c] # None /\ calls[c].step = step
CachedAge == IF redis = None THEN None ELSE redis.age
Within(age, limit) == age # None /\ age <= limit

Goes(c, step) == calls' = [calls EXCEPT ![c].step = step]
Answers(c, age, stale) == calls' = [calls EXCEPT ![c] = Call("answered", age, stale)]
Raises(c) == calls' = [calls EXCEPT ![c] = None]

\* The lock goes if it still is the call's own (finally).
Released(c) == holder' = IF holder = c THEN None ELSE holder
World == <<published, redis, database, overrun>>

\* _database_fallback: marked as stale, whatever their age.
Fallback(c) ==
    IF database # None THEN Answers(c, database, TRUE) ELSE Raises(c)

\* rates(force=False), as all callers have it: fresh rates of redis, else the lock.
Ask(c) ==
    /\ calls[c] = None
    /\ IF Within(CachedAge, Ttl) THEN Answers(c, CachedAge, FALSE)
       ELSE calls' = [calls EXCEPT ![c] = Call("locking", CachedAge, FALSE)]
    /\ UNCHANGED <<World, holder>>

Lock(c) ==
    At(c, "locking") /\ holder = None /\ holder' = c /\ Goes(c, "locked") /\ UNCHANGED World

\* Mutant of LockMissed: the rates are fetched without the lock.
LockMissedFetches(c) ==
    At(c, "locking") /\ holder \notin {None, c} /\ Goes(c, "asking") /\ UNCHANGED <<World, holder>>

\* Taken for a second: the call sleeps.
LockMissed(c) ==
    At(c, "locking") /\ holder # None /\ Goes(c, "missed") /\ UNCHANGED <<World, holder>>

\* What redis has by now, of any age and never marked.
Shared(c) ==
    /\ At(c, "missed")
    /\ IF redis # None THEN Answers(c, CachedAge, FALSE) ELSE Fallback(c)
    /\ UNCHANGED <<World, holder>>

\* Another call may have saved rates while this one waited for the lock.
Recheck(c) ==
    /\ At(c, "locked")
    /\ IF Within(CachedAge, Ttl)
       THEN Answers(c, CachedAge, FALSE) /\ Released(c)
       ELSE Goes(c, "asking") /\ UNCHANGED holder
    /\ UNCHANGED World

ProviderAnswers(c) ==
    /\ At(c, "asking") /\ calls' = [calls EXCEPT ![c] = Call("fetched", published, FALSE)]
    /\ UNCHANGED <<World, holder>>

\* An error, or an answer that cannot be used: the copy that the call had read at
\* first, up to the limit, else the database's.
ProviderFails(c) ==
    /\ At(c, "asking")
    /\ IF Within(calls[c].age, Limit) THEN Answers(c, calls[c].age, TRUE) ELSE Fallback(c)
    /\ Released(c) /\ UNCHANGED World

\* _save, redis first.  A failure of either store is the caller's.
SaveRedis(c) ==
    /\ At(c, "fetched")
    /\ \/ /\ redis' = [age |-> calls[c].age, kept |-> 0]
          /\ Goes(c, "saving") /\ UNCHANGED holder
       \/ Raises(c) /\ Released(c) /\ UNCHANGED redis
    /\ UNCHANGED <<published, database, overrun>>

SaveDatabase(c) ==
    /\ At(c, "saving")
    /\ \/ database' = calls[c].age /\ Answers(c, calls[c].age, FALSE)
       \/ Raises(c) /\ UNCHANGED database
    /\ Released(c) /\ UNCHANGED <<published, redis, overrun>>

Done(c) == At(c, "answered") /\ Raises(c) /\ UNCHANGED <<World, holder>>

-----------------------------------------------------------------------------
\* The lock's timeout, of a call that still goes on or of one that died.
LockExpires ==
    /\ holder # None /\ holder' = None /\ overrun' = (overrun \/ holder # "dead")
    /\ UNCHANGED <<published, redis, database, calls>>

Crash ==
    /\ calls' = [c \in Calls |-> None]
    /\ holder' = IF holder = None THEN None ELSE "dead"
    /\ UNCHANGED World

Publish == published' = 0 /\ UNCHANGED <<redis, database, holder, calls, overrun>>

Older(age) == IF age = None \/ age = Oldest THEN age ELSE age + 1

\* Mutant of Expired: redis keeps its copy as long as it is asked for.
ExpiredNever(copy) == IF copy = None THEN None ELSE [copy EXCEPT !.age = Older(@)]

\* The copy after an hour: redis forgets it Limit hours after the save.
Expired(copy) ==
    IF copy = None THEN None
    ELSE IF copy.kept + 1 >= Limit THEN None
    ELSE [age |-> Older(copy.age), kept |-> copy.kept + 1]

Hour ==
    /\ \A c \in Calls : calls[c] = None
    /\ published < Lag /\ published' = published + 1
    /\ redis' = Expired(redis) /\ database' = Older(database)
    /\ UNCHANGED <<holder, calls, overrun>>

Next ==
    \/ Publish \/ Hour \/ LockExpires \/ Crash
    \/ \E c \in Calls :
         \/ Ask(c) \/ Lock(c) \/ LockMissed(c) \/ Shared(c) \/ Recheck(c)
         \/ ProviderAnswers(c) \/ ProviderFails(c) \/ SaveRedis(c) \/ SaveDatabase(c) \/ Done(c)

Spec == Init /\ [][Next]_vars

-----------------------------------------------------------------------------
\* Rates in redis or in the database give way to older ones only after a call has
\* outlived its lock: the lock keeps two fetches, whose answers may arrive in any
\* order, from saving in the wrong one.  (CurrencyService.rates, _save)
SavesGoForward ==
    [][overrun \/ published' > published
         \/ (/\ redis # None /\ redis' # None => redis'.age <= redis.age
             /\ database # None /\ database' # None => database' <= database)]_vars

\* Rates that are not marked as stale were published less than Lag + Limit hours
\* before they are used: redis counts from the save and not from the publication,
\* and a call that does not get the lock uses them without looking.
UnmarkedWithinBound ==
    \A c \in Calls :
      At(c, "answered") => calls[c].stale \/ calls[c].age < Lag + Limit
=============================================================================
