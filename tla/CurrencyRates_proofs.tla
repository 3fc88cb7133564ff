------------------------ MODULE CurrencyRates_proofs ------------------------
(***************************************************************************)
(* For any number of calls, and any limits and lag: rates without a mark   *)
(* are within their bound, and the shared rates only get newer as long as  *)
(* no call outlives its lock.                                              *)
(***************************************************************************)
EXTENDS CurrencyRates, TLAPS

CopyType == [age : Ages, kept : 0..Limit - 1]
CallType ==
    [step : {"locking", "missed", "locked", "asking", "fetched", "saving", "answered"},
     age : Ages \cup {None}, stale : BOOLEAN]

Constants ==
    /\ Limit \in Nat \ {0} /\ Lag \in Nat
    /\ None \notin Calls \cup Ages \cup CopyType \cup CallType
    /\ "dead" \notin Calls \cup {None}

Typed ==
    /\ published \in 0..Lag /\ overrun \in BOOLEAN
    /\ redis \in CopyType \cup {None} /\ database \in Ages \cup {None}
    /\ holder \in Calls \cup {"dead", None}
    /\ calls \in [Calls -> CallType \cup {None}]

Fetched(c) == At(c, "fetched") \/ At(c, "saving")
Inside(c) == At(c, "locked") \/ At(c, "asking") \/ Fetched(c)

\* Redis' copy is hardly older than the time it is kept, so that it is forgotten
\* before it gets older than the bound.
Bounded ==
    /\ redis # None => redis.age <= Lag + redis.kept
    /\ \A c \in Calls : Fetched(c) => calls[c].age \in 0..Lag
    /\ UnmarkedWithinBound

\* No copy is newer than what the provider has published last.
Behind ==
    /\ redis # None => published <= redis.age
    /\ database # None => published <= database
    /\ \A c \in Calls : Fetched(c) => published <= calls[c].age

\* What a call is about to save is not older than what is stored: it is the only
\* one between its lock and its save.
Alone ==
    ~overrun =>
      \A c \in Calls :
        /\ Inside(c) => holder = c
        /\ Fetched(c) => /\ redis # None => calls[c].age <= redis.age
                         /\ database # None => calls[c].age <= database

IInv == Typed /\ Bounded /\ Behind /\ Alone

-----------------------------------------------------------------------------
LEMMA InitInv == ASSUME Constants PROVE Init => IInv
<1> SUFFICES ASSUME Init PROVE IInv
    OBVIOUS
<1>1. \A c \in Calls : calls[c] = None
    BY DEF Init
<1>2. \A step : \A c \in Calls : ~At(c, step)
    BY <1>1, Zenon DEF At
<1>3. Typed
    <2>1. calls \in [Calls -> CallType \cup {None}]
        BY DEF Init
    <2>2. published \in 0..Lag
        BY SMT DEF Init, Constants
    <2> QED BY <2>1, <2>2, Zenon DEF Init, Typed
<1> QED BY <1>2, <1>3, Zenon DEF Init, IInv, Bounded, Behind, Alone, UnmarkedWithinBound, Fetched, Inside

\* A call is at one step.
LEMMA OneStep == ASSUME NEW c \in Calls, NEW s, NEW t, At(c, s), At(c, t) PROVE s = t
BY DEF At

LEMMA Records ==
    ASSUME Constants, Typed, NEW c \in Calls, calls[c] # None
    PROVE  calls[c] \in CallType
BY DEF Typed

\* What Goes, Answers and Raises do to the calls.
LEMMA Moves ==
    ASSUME Constants, Typed, NEW c \in Calls
    PROVE  /\ \A step \in {"missed", "locked", "asking", "saving"} :
                Goes(c, step) /\ calls[c] # None =>
                  /\ calls'[c] # None /\ calls'[c].step = step
                  /\ calls'[c].age = calls[c].age /\ calls'[c].stale = calls[c].stale
                  /\ calls' \in [Calls -> CallType \cup {None}]
           /\ \A step \in {"locking", "fetched", "answered"}, age \in Ages \cup {None}, stale \in BOOLEAN :
                calls' = [calls EXCEPT ![c] = Call(step, age, stale)] =>
                  /\ calls'[c] # None /\ calls'[c].step = step
                  /\ calls'[c].age = age /\ calls'[c].stale = stale
                  /\ calls' \in [Calls -> CallType \cup {None}]
           /\ Raises(c) => calls'[c] = None /\ calls' \in [Calls -> CallType \cup {None}]
           /\ \A new : calls' = [calls EXCEPT ![c] = new] => \A d \in Calls \ {c} : calls'[d] = calls[d]
<1>1. ASSUME NEW step \in {"missed", "locked", "asking", "saving"}, Goes(c, step), calls[c] # None
      PROVE  /\ calls'[c] # None /\ calls'[c].step = step
             /\ calls'[c].age = calls[c].age /\ calls'[c].stale = calls[c].stale
             /\ calls' \in [Calls -> CallType \cup {None}]
    <2> DEFINE new == [calls[c] EXCEPT !.step = step]
    <2>1. calls[c] \in CallType
        BY <1>1, Records
    <2>2. new \in CallType /\ new.step = step /\ new.age = calls[c].age /\ new.stale = calls[c].stale
        BY <2>1 DEF CallType
    <2>3. calls' = [calls EXCEPT ![c] = new]
        BY <1>1 DEF Goes
    <2> HIDE DEF new
    <2>4. calls'[c] = new /\ calls' \in [Calls -> CallType \cup {None}]
        BY <2>2, <2>3 DEF Typed
    <2> QED BY <2>2, <2>4 DEF Constants
<1>2. ASSUME NEW step \in {"locking", "fetched", "answered"}, NEW age \in Ages \cup {None},
             NEW stale \in BOOLEAN, calls' = [calls EXCEPT ![c] = Call(step, age, stale)]
      PROVE  /\ calls'[c] # None /\ calls'[c].step = step
             /\ calls'[c].age = age /\ calls'[c].stale = stale
             /\ calls' \in [Calls -> CallType \cup {None}]
    <2> DEFINE new == Call(step, age, stale)
    <2>1. new \in CallType /\ new.step = step /\ new.age = age /\ new.stale = stale
        BY DEF CallType, Call
    <2>2. calls' = [calls EXCEPT ![c] = new]
        BY <1>2
    <2> HIDE DEF new
    <2>3. calls'[c] = new /\ calls' \in [Calls -> CallType \cup {None}]
        BY <2>1, <2>2 DEF Typed
    <2> QED BY <2>1, <2>3 DEF Constants
<1>3. Raises(c) => calls'[c] = None /\ calls' \in [Calls -> CallType \cup {None}]
    BY DEF Raises, Typed
<1>4. \A new : calls' = [calls EXCEPT ![c] = new] => \A d \in Calls \ {c} : calls'[d] = calls[d]
    BY DEF Typed
<1> QED BY <1>1, <1>2, <1>3, <1>4, Zenon

\* What a call may answer unmarked.
LEMMA CachedFits ==
    ASSUME Constants, IInv
    PROVE  /\ CachedAge \in Ages \cup {None}
           /\ CachedAge # None => redis # None
           /\ redis # None => CachedAge < Lag + Limit /\ CachedAge \in Ages
<1>1. CASE redis = None
    BY <1>1 DEF CachedAge
<1>2. CASE redis # None
    <2>1. redis \in CopyType
        BY <1>2 DEF IInv, Typed
    <2>2. redis.age \in Ages /\ redis.kept \in 0..Limit - 1 /\ redis.age <= Lag + redis.kept
        BY <1>2, <2>1 DEF CopyType, IInv, Bounded
    <2> QED BY <1>2, <2>2 DEF CachedAge, Ages, Oldest, Constants
<1> QED BY <1>1, <1>2

\* A step of one call that stores nothing.
LEMMA CallStep ==
    ASSUME Constants, IInv, NEW c \in Calls, UNCHANGED World,
           calls' \in [Calls -> CallType \cup {None}], holder' \in Calls \cup {"dead", None},
           \A d \in Calls \ {c} : calls'[d] = calls[d],
           Fetched(c)' => calls'[c].age = published,
           At(c, "answered")' => calls'[c].stale \/ calls'[c].age < Lag + Limit,
           ~overrun => (Inside(c)' => holder' = c),
           ~overrun => (holder' # holder => holder \in {c, None})
    PROVE  IInv'
<1> USE DEF World
<1>1. Typed'
    BY Zenon DEF IInv, Typed
<1>2. ASSUME NEW d \in Calls \ {c}
      PROVE  /\ \A s : At(d, s)' <=> At(d, s)
             /\ Fetched(d)' <=> Fetched(d)
             /\ Inside(d)' <=> Inside(d)
    BY <1>2, Zenon DEF At, Fetched, Inside
<1>3. Bounded'
    <2>1. ASSUME NEW d \in Calls, Fetched(d)' PROVE calls'[d].age \in 0..Lag
        BY <1>2, <2>1 DEF IInv, Bounded, Typed
    <2>2. ASSUME NEW d \in Calls, At(d, "answered")'
          PROVE  calls'[d].stale \/ calls'[d].age < Lag + Limit
        BY <1>2, <2>2 DEF IInv, Bounded, UnmarkedWithinBound
    <2> QED BY <2>1, <2>2, Zenon DEF IInv, Bounded, UnmarkedWithinBound
<1>4. Behind'
    <2>1. ASSUME NEW d \in Calls, Fetched(d)' PROVE published' <= calls'[d].age
        BY <1>2, <2>1 DEF IInv, Behind, Typed, Constants
    <2> QED BY <2>1, Zenon DEF IInv, Behind
<1>5. Alone'
    <2> SUFFICES ASSUME ~overrun, NEW d \in Calls
                 PROVE  /\ Inside(d)' => holder' = d
                        /\ Fetched(d)' => /\ redis # None => calls'[d].age <= redis.age
                                          /\ database # None => calls'[d].age <= database
        BY Zenon DEF Alone
    <2>1. CASE d = c
        BY <2>1 DEF IInv, Behind
    <2>2. CASE d # c
        <3>1. calls'[d] = calls[d] /\ (Fetched(d)' <=> Fetched(d)) /\ (Inside(d)' <=> Inside(d))
            BY <1>2, <2>2
        <3>2. Inside(d) => holder = d
            BY DEF IInv, Alone
        <3>3. Inside(d) => holder' = d
            BY <2>2, <3>2 DEF Constants
        <3> QED BY <3>1, <3>3, Zenon DEF IInv, Alone
    <2> QED BY <2>1, <2>2
<1> QED BY <1>1, <1>3, <1>4, <1>5, Zenon DEF IInv

LEMMA QuietCalls ==
    ASSUME Constants, IInv, NEW c \in Calls,
           \/ Ask(c) \/ Lock(c) \/ LockMissed(c) \/ Shared(c) \/ Recheck(c)
           \/ ProviderAnswers(c) \/ ProviderFails(c) \/ Done(c)
    PROVE  IInv'
<1>0. Typed /\ published \in 0..Lag /\ published \in Ages /\ holder \in Calls \cup {"dead", None}
    BY DEF IInv, Typed, Constants, Ages, Oldest
<1>1. UNCHANGED World
    BY Zenon DEF Ask, Lock, LockMissed, Shared, Recheck, ProviderAnswers, ProviderFails, Done
<1>2. \A new : calls' = [calls EXCEPT ![c] = new] => \A d \in Calls \ {c} : calls'[d] = calls[d]
    BY <1>0, Moves, Zenon
<1>3. \A s, t : At(c, s)' /\ At(c, t)' => s = t
    BY DEF At
\* c answers with the age of a copy, and marks it unless it is redis' own.
<1>4. ASSUME NEW age \in Ages \cup {None}, NEW stale \in BOOLEAN, Answers(c, age, stale),
             stale \/ age < Lag + Limit, holder' = holder \/ Released(c)
      PROVE  IInv'
    <2>1. /\ calls'[c] # None /\ calls'[c].step = "answered"
          /\ calls'[c].age = age /\ calls'[c].stale = stale
          /\ calls' \in [Calls -> CallType \cup {None}]
        BY <1>0, <1>4, Moves DEF Answers
    <2>2. ~Inside(c)' /\ ~Fetched(c)'
        BY <2>1 DEF Inside, Fetched, At
    <2>3. holder' \in Calls \cup {"dead", None} /\ (holder' # holder => holder = c)
        BY <1>0, <1>4, Zenon DEF Released
    <2>4. \A d \in Calls \ {c} : calls'[d] = calls[d]
        BY <1>2, <1>4, Zenon DEF Answers
    <2> QED BY <1>1, <1>4, <2>1, <2>2, <2>3, <2>4, CallStep, Zenon
<1>5. ASSUME Raises(c), holder' = holder \/ Released(c) PROVE IInv'
    <2>1. calls'[c] = None /\ calls' \in [Calls -> CallType \cup {None}]
        BY <1>0, <1>5, Moves
    <2>2. ~Inside(c)' /\ ~Fetched(c)' /\ ~At(c, "answered")'
        BY <2>1, Zenon DEF Inside, Fetched, At
    <2>3. holder' \in Calls \cup {"dead", None} /\ (holder' # holder => holder = c)
        BY <1>0, <1>5, Zenon DEF Released
    <2>4. \A d \in Calls \ {c} : calls'[d] = calls[d]
        BY <1>2, <1>5, Zenon DEF Raises
    <2> QED BY <1>1, <2>1, <2>2, <2>3, <2>4, CallStep, Zenon
<1>6. ASSUME Fallback(c), holder' = holder \/ Released(c) PROVE IInv'
    <2>1. database # None => database \in Ages
        BY <1>0 DEF Typed
    <2> QED BY <1>4, <1>5, <1>6, <2>1, Zenon DEF Fallback
\* c goes on to another step, still inside or still outside.
<1>7. ASSUME NEW step \in {"missed", "locked", "asking"}, Goes(c, step), calls[c] # None,
             holder' \in {holder, c}, ~overrun => (holder' # holder => holder = None),
             ~overrun => (step # "missed" => holder' = c)
      PROVE  IInv'
    <2>1. /\ calls'[c] # None /\ calls'[c].step = step /\ calls' \in [Calls -> CallType \cup {None}]
        BY <1>0, <1>7, Moves
    <2>2. ~Fetched(c)' /\ ~At(c, "answered")' /\ (Inside(c)' => step # "missed")
        BY <2>1 DEF Inside, Fetched, At
    <2>3. \A d \in Calls \ {c} : calls'[d] = calls[d]
        BY <1>2, <1>7, Zenon DEF Goes
    <2>4. holder' \in Calls \cup {"dead", None}
        BY <1>0, <1>7
    <2>5. ~overrun => (/\ Inside(c)' => holder' = c
                       /\ holder' # holder => holder \in {c, None})
        BY <1>7, <2>2
    <2> QED BY <1>1, <2>1, <2>2, <2>3, <2>4, <2>5, CallStep, Zenon
<1>8. /\ CachedAge \in Ages \cup {None}
      /\ redis # None => CachedAge < Lag + Limit /\ CachedAge \in Ages
      /\ \A limit : Within(CachedAge, limit) => redis # None
    BY CachedFits, Zenon DEF Within
<1>9. Inside(c) /\ ~overrun => holder = c
    BY Zenon DEF IInv, Alone
<1>10. CASE Ask(c)
    <2>1. CASE Within(CachedAge, Ttl)
        BY <1>4, <1>8, <1>10, <2>1, Zenon DEF Ask
    <2>2. CASE ~Within(CachedAge, Ttl)
        <3>1. calls' = [calls EXCEPT ![c] = Call("locking", CachedAge, FALSE)] /\ holder' = holder
            BY <1>10, <2>2, Zenon DEF Ask
        <3>2. /\ calls'[c] # None /\ calls'[c].step = "locking"
              /\ calls' \in [Calls -> CallType \cup {None}]
            BY <1>0, <1>8, <3>1, Moves
        <3>3. ~Inside(c)' /\ ~Fetched(c)' /\ ~At(c, "answered")'
            BY <3>2 DEF Inside, Fetched, At
        <3>4. \A d \in Calls \ {c} : calls'[d] = calls[d]
            BY <1>2, <3>1, Zenon
        <3> QED BY <1>0, <1>1, <3>1, <3>2, <3>3, <3>4, CallStep, Zenon
    <2> QED BY <2>1, <2>2
<1>11. CASE Lock(c)
    BY <1>7, <1>11, Zenon DEF Lock, At
<1>12. CASE LockMissed(c)
    BY <1>7, <1>12, Zenon DEF LockMissed, At
<1>13. CASE Shared(c)
    BY <1>4, <1>6, <1>8, <1>13, Zenon DEF Shared
<1>14. CASE Recheck(c)
    <2>1. CASE Within(CachedAge, Ttl)
        BY <1>4, <1>8, <1>14, <2>1, Zenon DEF Recheck
    <2>2. CASE ~Within(CachedAge, Ttl)
        BY <1>7, <1>9, <1>14, <2>2, Zenon DEF Recheck, At, Inside
    <2> QED BY <2>1, <2>2
<1>15. CASE ProviderAnswers(c)
    <2>1. calls' = [calls EXCEPT ![c] = Call("fetched", published, FALSE)] /\ holder' = holder
          /\ At(c, "asking")
        BY <1>15, Zenon DEF ProviderAnswers
    <2>2. /\ calls'[c] # None /\ calls'[c].step = "fetched" /\ calls'[c].age = published
          /\ calls' \in [Calls -> CallType \cup {None}]
        BY <1>0, <2>1, Moves
    <2>3. ~At(c, "answered")'
        BY <2>2 DEF At
    <2>4. \A d \in Calls \ {c} : calls'[d] = calls[d]
        BY <1>2, <2>1, Zenon
    <2>5. ~overrun => holder' = c
        BY <1>9, <2>1, Zenon DEF Inside
    <2> QED BY <1>0, <1>1, <2>1, <2>2, <2>3, <2>4, <2>5, CallStep, Zenon
<1>16. CASE ProviderFails(c)
    <2>1. calls[c].age \in Ages \cup {None}
        <3>1. calls[c] \in CallType
            BY <1>0, <1>16, Records DEF ProviderFails, At
        <3> QED BY <3>1 DEF CallType
    <2> QED BY <1>4, <1>6, <1>16, <2>1, Zenon DEF ProviderFails
<1>17. CASE Done(c)
    BY <1>5, <1>17, Zenon DEF Done
<1> QED BY <1>10, <1>11, <1>12, <1>13, <1>14, <1>15, <1>16, <1>17

\* What is saved is not older than what was stored, unless a call was overrun.
LEMMA Saves ==
    ASSUME Constants, IInv, NEW c \in Calls, SaveRedis(c) \/ SaveDatabase(c)
    PROVE  /\ IInv'
           /\ ~overrun => /\ redis # None /\ redis' # None => redis'.age <= redis.age
                          /\ database # None /\ database' # None => database' <= database
<1> DEFINE age == calls[c].age
<1>0. Typed /\ holder \in Calls \cup {"dead", None}
    BY DEF IInv, Typed
<1>1. Fetched(c) /\ UNCHANGED <<published, overrun>> /\ calls[c] # None
    BY Zenon DEF SaveRedis, SaveDatabase, Fetched, At
<1>2. age \in 0..Lag /\ age \in Nat /\ published <= age /\ age \in Ages
    BY <1>1 DEF IInv, Bounded, Behind, Constants, Ages, Oldest
<1>3. ~overrun => /\ holder = c
                  /\ redis # None => age <= redis.age
                  /\ database # None => age <= database
    BY <1>1, Zenon DEF IInv, Alone, Inside
<1>4. /\ redis' = redis \/ redis' = [age |-> age, kept |-> 0]
      /\ database' \in {database, age}
      /\ \/ Goes(c, "saving") /\ holder' = holder /\ database' = database
         \/ (Raises(c) \/ Answers(c, age, FALSE)) /\ Released(c)
    BY Zenon DEF SaveRedis, SaveDatabase
<1> HIDE DEF age
<1>5. redis' = redis \/ (redis' \in CopyType /\ redis' # None /\ redis'.age = age /\ redis'.kept = 0)
    <2>1. [age |-> age, kept |-> 0] \in CopyType
        BY <1>2 DEF CopyType, Constants
    <2> QED BY <1>4, <2>1 DEF Constants
<1>6. database' = database \/ (database' = age /\ database' # None)
    BY <1>2, <1>4 DEF Constants
<1>7. /\ calls' \in [Calls -> CallType \cup {None}]
      /\ \A d \in Calls \ {c} : calls'[d] = calls[d]
      /\ calls'[c] # None => calls'[c].age = age
      /\ Inside(c)' => holder' = holder
      /\ holder' \in Calls \cup {"dead", None} /\ (holder' # holder => holder = c)
    <2>1. CASE Goes(c, "saving") /\ holder' = holder
        <3>1. /\ calls'[c].age = age /\ calls' \in [Calls -> CallType \cup {None}]
            BY <1>0, <1>1, <2>1, Moves DEF age
        <3>2. \A d \in Calls \ {c} : calls'[d] = calls[d]
            BY <1>0, <2>1, Moves, Zenon DEF Goes
        <3> QED BY <1>0, <2>1, <3>1, <3>2, Zenon
    <2>2. CASE Raises(c) /\ Released(c)
        <3>1. calls'[c] = None /\ calls' \in [Calls -> CallType \cup {None}]
            BY <1>0, <2>2, Moves
        <3>2. \A d \in Calls \ {c} : calls'[d] = calls[d]
            BY <1>0, <2>2, Moves, Zenon DEF Raises
        <3>3. ~Inside(c)'
            BY <3>1, Zenon DEF Inside, Fetched, At
        <3> QED BY <1>0, <2>2, <3>1, <3>2, <3>3, Zenon DEF Released
    <2>3. CASE Answers(c, age, FALSE) /\ Released(c)
        <3>1. /\ calls'[c].step = "answered" /\ calls'[c].age = age
              /\ calls' \in [Calls -> CallType \cup {None}]
            BY <1>0, <1>2, <2>3, Moves DEF Answers
        <3>2. \A d \in Calls \ {c} : calls'[d] = calls[d]
            BY <1>0, <2>3, Moves, Zenon DEF Answers
        <3>3. ~Inside(c)'
            BY <3>1 DEF Inside, Fetched, At
        <3> QED BY <1>0, <2>3, <3>1, <3>2, <3>3, Zenon DEF Released
    <2> QED BY <1>4, <2>1, <2>2, <2>3
<1>8. ASSUME NEW d \in Calls \ {c}
      PROVE  /\ \A s : At(d, s)' <=> At(d, s)
             /\ Fetched(d)' <=> Fetched(d)
             /\ Inside(d)' <=> Inside(d)
    BY <1>7, <1>8, Zenon DEF At, Fetched, Inside
<1>9. \A d \in Calls : Fetched(d)' => calls'[d] # None
    BY Zenon DEF Fetched, At
<1>10. Typed'
    BY <1>0, <1>1, <1>2, <1>5, <1>6, <1>7 DEF Typed
<1>11. Bounded'
    <2>1. redis' # None => redis'.age <= Lag + redis'.kept
        BY <1>2, <1>5 DEF IInv, Bounded, Constants
    <2>2. ASSUME NEW d \in Calls, Fetched(d)' PROVE calls'[d].age \in 0..Lag
        BY <1>2, <1>7, <1>8, <1>9, <2>2 DEF IInv, Bounded
    <2>3. ASSUME NEW d \in Calls, At(d, "answered")'
          PROVE  calls'[d].stale \/ calls'[d].age < Lag + Limit
        <3>1. calls'[d] # None
            BY <2>3, Zenon DEF At
        <3> QED BY <1>2, <1>7, <1>8, <2>3, <3>1 DEF IInv, Bounded, UnmarkedWithinBound, Constants
    <2> QED BY <2>1, <2>2, <2>3, Zenon DEF Bounded, UnmarkedWithinBound
<1>12. Behind'
    <2>1. ASSUME NEW d \in Calls, Fetched(d)' PROVE published' <= calls'[d].age
        BY <1>1, <1>2, <1>7, <1>8, <1>9, <2>1 DEF IInv, Behind
    <2>2. redis' # None => published' <= redis'.age
        BY <1>1, <1>2, <1>5 DEF IInv, Behind
    <2>3. database' # None => published' <= database'
        BY <1>1, <1>2, <1>6 DEF IInv, Behind
    <2> QED BY <2>1, <2>2, <2>3, Zenon DEF Behind
<1>13. Alone'
    <2> SUFFICES ASSUME ~overrun, NEW d \in Calls
                 PROVE  /\ Inside(d)' => holder' = d
                        /\ Fetched(d)' => /\ redis' # None => calls'[d].age <= redis'.age
                                          /\ database' # None => calls'[d].age <= database'
        BY <1>1, Zenon DEF Alone
    <2>1. CASE d = c
        BY <1>2, <1>3, <1>5, <1>6, <1>7, <1>9, <2>1
    <2>2. CASE d # c
        <3>1. ~Inside(d)
            BY <1>3, <2>2 DEF IInv, Alone
        <3>2. ~Inside(d)'
            BY <1>8, <2>2, <3>1, Zenon
        <3> QED BY <3>2, Zenon DEF Inside
    <2> QED BY <2>1, <2>2
<1>14. ~overrun => /\ redis # None /\ redis' # None => redis'.age <= redis.age
                   /\ database # None /\ database' # None => database' <= database
    <2>1. redis # None => redis.age \in Nat
        BY <1>0 DEF Typed, CopyType, Ages
    <2>2. database # None => database \in Nat
        BY <1>0 DEF Typed, Ages
    <2> QED BY <1>3, <1>5, <1>6, <2>1, <2>2
<1> QED BY <1>10, <1>11, <1>12, <1>13, <1>14, Zenon DEF IInv

\* An hour: ages grow together, up to Oldest, and no call is under way.
LEMMA HourInv ==
    ASSUME Constants, IInv, Hour
    PROVE  IInv'
<1>0. Typed
    BY DEF IInv
<1>1. /\ published + 1 \in 0..Lag /\ published' = published + 1 /\ published \in 0..Lag
      /\ redis' = Expired(redis) /\ database' = Older(database)
      /\ UNCHANGED <<holder, calls, overrun>>
      /\ \A c \in Calls : calls'[c] = None
    BY <1>0 DEF Hour, Typed, Constants
<1>2. ASSUME NEW age \in Ages
      PROVE  /\ Older(age) \in Ages /\ Older(age) <= age + 1
             /\ published <= age => published' <= Older(age)
    BY <1>1, SMT DEF Older, Ages, Oldest, Constants
<1>3. \A c \in Calls : ~Fetched(c)' /\ ~Inside(c)' /\ ~At(c, "answered")'
    BY <1>1, Zenon DEF Fetched, Inside, At
<1>4. database' \in Ages \cup {None} /\ (database' # None => published' <= database')
    <2>1. CASE database = None
        BY <1>1, <2>1, Zenon DEF Older
    <2>2. CASE database # None
        <3>1. database \in Ages /\ published <= database
            BY <1>0, <2>2 DEF Typed, IInv, Behind
        <3> QED BY <1>1, <1>2, <3>1
    <2> QED BY <2>1, <2>2
<1>5. CASE redis' = None
    <2>1. Typed'
        BY <1>0, <1>1, <1>4, <1>5, Zenon DEF Typed
    <2> QED BY <1>3, <1>4, <1>5, <2>1, Zenon DEF IInv, Bounded, UnmarkedWithinBound, Behind, Alone
<1>6. CASE redis' # None
    <2>1. redis # None /\ redis.kept + 1 < Limit /\ redis \in CopyType
          /\ redis' = [age |-> Older(redis.age), kept |-> redis.kept + 1]
        <3>1. redis # None
            BY <1>1, <1>6, Zenon DEF Expired
        <3>2. redis \in CopyType
            BY <1>0, <3>1 DEF Typed
        <3>3. ~(redis.kept + 1 >= Limit)
            BY <1>1, <1>6, <3>1, Zenon DEF Expired
        <3>4. redis' = [age |-> Older(redis.age), kept |-> redis.kept + 1]
            BY <1>1, <3>1, <3>3, Zenon DEF Expired
        <3>5. redis.kept + 1 < Limit
            BY <3>2, <3>3 DEF CopyType, Constants
        <3> QED BY <3>1, <3>2, <3>4, <3>5
    <2>2. redis.age \in Ages /\ redis.kept \in 0..Limit - 1
        BY <2>1 DEF CopyType
    <2>3. Older(redis.age) \in Ages /\ Older(redis.age) <= redis.age + 1
          /\ published' <= Older(redis.age)
        <3>1. published <= redis.age
            BY <2>1, Zenon DEF IInv, Behind
        <3> QED BY <1>2, <2>2, <3>1
    <2>4. redis' \in CopyType
        BY <2>1, <2>2, <2>3 DEF CopyType, Constants
    <2>5. redis'.age <= Lag + redis'.kept
        BY <2>1, <2>2, <2>3, SMT DEF IInv, Bounded, Constants, Ages, Oldest
    <2>6. published' <= redis'.age
        BY <2>1, <2>3
    <2>7. Typed'
        BY <1>0, <1>1, <1>4, <2>4, Zenon DEF Typed
    <2> QED BY <1>3, <1>4, <2>5, <2>6, <2>7, Zenon DEF IInv, Bounded, UnmarkedWithinBound, Behind, Alone
<1> QED BY <1>5, <1>6

LEMMA WorldInv ==
    ASSUME Constants, IInv, Publish \/ LockExpires \/ Crash
    PROVE  IInv'
<1>0. Typed
    BY DEF IInv
<1>1. CASE Publish
    <2>1. UNCHANGED <<redis, database, holder, calls, overrun>> /\ published' = 0
        BY <1>1, Zenon DEF Publish
    <2>2. Typed'
        BY <1>0, <2>1 DEF Typed, Constants
    <2>3. \A c \in Calls : (Fetched(c)' <=> Fetched(c)) /\ (Inside(c)' <=> Inside(c))
                          /\ (At(c, "answered")' <=> At(c, "answered"))
        BY <2>1, Zenon DEF Fetched, Inside, At
    <2>4. Bounded' /\ Alone'
        BY <2>1, <2>3, Zenon DEF IInv, Bounded, UnmarkedWithinBound, Alone
    <2>5. Behind'
        BY <1>0, <2>1, <2>3 DEF IInv, Behind, Bounded, Typed, CopyType, Ages, Constants
    <2> QED BY <2>2, <2>4, <2>5, Zenon DEF IInv
<1>2. CASE LockExpires
    <2>1. UNCHANGED <<published, redis, database, calls>> /\ holder # None /\ holder' = None
          /\ overrun' = (overrun \/ holder # "dead")
        BY <1>2, Zenon DEF LockExpires
    <2>2. Typed'
        BY <1>0, <2>1 DEF Typed
    <2>3. \A c \in Calls : (Fetched(c)' <=> Fetched(c)) /\ (Inside(c)' <=> Inside(c))
                          /\ (At(c, "answered")' <=> At(c, "answered"))
        BY <2>1, Zenon DEF Fetched, Inside, At
    <2>4. Bounded' /\ Behind'
        BY <2>1, <2>3, Zenon DEF IInv, Bounded, UnmarkedWithinBound, Behind
    <2>5. ~overrun' => \A c \in Calls : ~Inside(c)
        BY <2>1 DEF IInv, Alone, Constants
    <2>6. Alone'
        BY <2>3, <2>5, Zenon DEF Alone, Inside
    <2> QED BY <2>2, <2>4, <2>6, Zenon DEF IInv
<1>3. CASE Crash
    <2>1. UNCHANGED World /\ calls' = [c \in Calls |-> None] /\ holder' \in {"dead", None}
        BY <1>3 DEF Crash
    <2>2. Typed'
        BY <1>0, <2>1 DEF Typed, World
    <2>3. \A c \in Calls : ~Fetched(c)' /\ ~Inside(c)' /\ ~At(c, "answered")'
        BY <2>1 DEF Fetched, Inside, At
    <2> QED BY <2>1, <2>2, <2>3, Zenon
            DEF IInv, Bounded, UnmarkedWithinBound, Behind, Alone, World
<1> QED BY <1>1, <1>2, <1>3

-----------------------------------------------------------------------------
\* The invariant holds for any calls, time to live, limit and lag.
THEOREM Invariance ==
    ASSUME Constants PROVE Spec => []IInv
<1>1. Init => IInv
    BY InitInv
<1>2. IInv /\ [Next]_vars => IInv'
    <2> SUFFICES ASSUME IInv, [Next]_vars PROVE IInv'
        OBVIOUS
    <2>1. CASE UNCHANGED vars
        BY <2>1, Zenon DEF vars, IInv, Typed, Bounded, UnmarkedWithinBound, Behind, Alone, Fetched, Inside, At
    <2> QED BY <2>1, HourInv, WorldInv, QuietCalls, Saves, Zenon DEF Next
<1> QED BY <1>1, <1>2, PTL DEF Spec

\* Unmarked rates were published less than Lag + Limit hours before they are used,
\* whichever copy they come from and whoever saved it. (CurrencyRates, rates)
THEOREM UnmarkedHolds ==
    ASSUME Constants PROVE Spec => []UnmarkedWithinBound
<1>1. IInv => UnmarkedWithinBound
    BY DEF IInv, Bounded
<1> QED BY <1>1, Invariance, PTL

\* Stored rates give way to older ones only after a call has outlived its lock,
\* however many calls ask at once. (CurrencyRates, rates and _save)
THEOREM SavesHold ==
    ASSUME Constants PROVE Spec => SavesGoForward
<1> DEFINE Newer == overrun \/ published' > published
                    \/ (/\ redis # None /\ redis' # None => redis'.age <= redis.age
                        /\ database # None /\ database' # None => database' <= database)
<1>1. IInv /\ [Next]_vars => [Newer]_vars
    <2> SUFFICES ASSUME IInv, Next PROVE Newer
        OBVIOUS
    <2>1. (redis # None => redis.age \in Nat) /\ (database # None => database \in Nat)
          /\ published \in Nat
        BY DEF IInv, Typed, CopyType, Ages
    <2>2. ASSUME UNCHANGED <<redis, database>> PROVE Newer
        BY <2>1, <2>2
    <2>3. CASE Hour
        BY <2>1, <2>3 DEF Hour
    <2>4. CASE Publish \/ LockExpires \/ Crash
        BY <2>2, <2>4, Zenon DEF Publish, LockExpires, Crash, World
    <2>5. ASSUME NEW c \in Calls, SaveRedis(c) \/ SaveDatabase(c) PROVE Newer
        BY <2>5, Saves, Zenon
    <2>6. ASSUME NEW c \in Calls,
                 \/ Ask(c) \/ Lock(c) \/ LockMissed(c) \/ Shared(c) \/ Recheck(c)
                 \/ ProviderAnswers(c) \/ ProviderFails(c) \/ Done(c)
          PROVE  Newer
        BY <2>2, <2>6, Zenon DEF Ask, Lock, LockMissed, Shared, Recheck, ProviderAnswers, ProviderFails,
                                 Done, World
    <2> QED BY <2>3, <2>4, <2>5, <2>6, Zenon DEF Next
<1> QED BY <1>1, Invariance, PTL DEF Spec, SavesGoForward
=============================================================================
