------------------------------ MODULE Digests ------------------------------
(***************************************************************************)
(* DigestService: a job that looks every quarter of an hour whose daily or *)
(* weekly digest is due, as one user sees it.                              *)
(*                                                                         *)
(* The job reads all users at once, sends, and commits the time of all     *)
(* digests at the end: what happens to another user decides whether this   *)
(* one's digest is remembered.  Meanwhile the user changes the settings.   *)
(* An hour has two slots, its first quarter and the rest of it.            *)
(***************************************************************************)
EXTENDS Integers, FiniteSets

CONSTANTS
    None,
    DayLength, WeekDays,   \* hours a day, days a week
    DailyAt, WeeklyAt,     \* the slots of the day of a first digest, 20:00 and 18:00
    TimeChoices,           \* bound: the slots of the day a user chooses from
    MaxEdits, MaxFaults    \* bounds: changes of the settings, faults

Kinds == {"daily", "weekly"}
Day == 2 * DayLength
Week == Day * WeekDays
Period == [k \in Kinds |-> IF k = "daily" THEN Day ELSE Week]

VARIABLES
    now,                    \* the slot of the week
    premium,                \* User.is_premium
    enabled, time, weekday, \* the user's settings, per kind; of the weekly digest
    lastAt,                 \* [Kinds -> slots since .._digest_last_at, or None]
    job,                    \* None or [due, todo: kinds], of the run in progress
    ran,                    \* a run has begun in this slot
    edits, faults,
    sent,                   \* history: slots since the last digest, or None
    gap,                    \* history: how long after the last one a digest of this slot
                            \* was sent, None unless the job remembered the last one
    steady                  \* history: slots without a change of settings or a fault

settings == <<enabled, time, weekday>>
vars == <<now, premium, settings, lastAt, job, ran, edits, faults, sent, gap, steady>>

\* Bounds: longer times are not told apart.
Longest(k) == Period[k] + 1
Steady(k) == 2 * Period[k]

TypeOK ==
    /\ now \in 0..Week - 1 /\ premium \in BOOLEAN /\ ran \in BOOLEAN
    /\ enabled \in [Kinds -> BOOLEAN] /\ time \in [Kinds -> 0..Day - 1]
    /\ weekday \in 0..WeekDays - 1 /\ edits \in 0..MaxEdits /\ faults \in 0..MaxFaults
    /\ \A k \in Kinds : /\ {lastAt[k], sent[k], gap[k]} \subseteq 0..Longest(k) \cup {None}
                        /\ steady[k] \in 0..Steady(k)
    /\ job # None => job.todo \subseteq job.due /\ job.due \subseteq Kinds

\* A digest is off until the user, by then PREMIUM, turns it on.  Without a time it
\* then gets the default.
Init ==
    /\ now = 0 /\ premium = TRUE /\ ran = FALSE /\ job = None
    /\ enabled = [k \in Kinds |-> FALSE] /\ time = [daily |-> DailyAt, weekly |-> WeeklyAt] /\ weekday = 0
    /\ lastAt = [k \in Kinds |-> None] /\ sent = lastAt /\ gap = lastAt
    /\ steady = [k \in Kinds |-> 0] /\ edits = 0 /\ faults = 0

-----------------------------------------------------------------------------
(* DigestService                                                           *)

\* Mutant of Spacing: a whole period.
SpacingOfPeriod(k) == Period[k]

\* 23 hours of a day, 6 days of a week.
Spacing(k) == IF k = "daily" THEN Day - 2 ELSE Week - Day

\* _due: within the first quarter of the hour that the time is in, whatever its minute.
Due(k) ==
    /\ enabled[k] /\ (now % Day) \div 2 = time[k] \div 2 /\ now % 2 = 0
    /\ k = "weekly" => now \div Day = weekday
    /\ lastAt[k] # None => lastAt[k] > Spacing(k)

\* The user is read with all others; settings that change from now on are not seen.
RunBegins ==
    /\ job = None /\ ~ran /\ ran' = TRUE
    /\ LET due == {k \in Kinds : Due(k)} IN job' = [due |-> due, todo |-> due]
    /\ UNCHANGED <<now, premium, settings, lastAt, edits, faults, sent, gap, steady>>

\* A digest, or nothing when there was no event.
Send(k) ==
    /\ job # None /\ k \in job.todo /\ job' = [job EXCEPT !.todo = @ \ {k}]
    /\ \/ /\ sent' = [sent EXCEPT ![k] = 0]
          /\ gap' = [gap EXCEPT ![k] = IF sent[k] = lastAt[k] THEN sent[k] ELSE None]
       \/ UNCHANGED <<sent, gap>>
    /\ UNCHANGED <<now, premium, settings, lastAt, ran, edits, faults, steady>>

Commit ==
    /\ job # None /\ job.todo = {} /\ job' = None
    /\ lastAt' = [k \in Kinds |-> IF k \in job.due THEN 0 ELSE lastAt[k]]
    /\ UNCHANGED <<now, premium, settings, ran, edits, faults, sent, gap, steady>>

\* A send fails, to this user or to another one, or the commit, or the process: the
\* run ends, and what it has sent is not recorded.
RunFails ==
    /\ job # None /\ job' = None
    /\ faults < MaxFaults /\ faults' = faults + 1 /\ steady' = [k \in Kinds |-> 0]
    /\ UNCHANGED <<now, premium, settings, lastAt, ran, edits, sent, gap>>

\* The scheduler was down, or too late for its run.
RunMissed ==
    /\ ~ran /\ ran' = TRUE
    /\ faults < MaxFaults /\ faults' = faults + 1 /\ steady' = [k \in Kinds |-> 0]
    /\ UNCHANGED <<now, premium, settings, lastAt, job, edits, sent, gap>>

\* The job runs every 15 minutes, so that each first quarter has its run; a run
\* later in the hour finds nothing due.
Tick ==
    LET LaterOf(f, Most(_)) ==
          [k \in Kinds |-> IF f[k] = None \/ f[k] = Most(k) THEN f[k] ELSE f[k] + 1]
    IN /\ job = None /\ (now % 2 = 0 => ran)
       /\ now' = (now + 1) % Week /\ ran' = FALSE
       /\ lastAt' = LaterOf(lastAt, Longest) /\ sent' = LaterOf(sent, Longest)
       /\ steady' = LaterOf(steady, Steady) /\ gap' = [k \in Kinds |-> None]
       /\ UNCHANGED <<premium, settings, job, edits, faults>>

-----------------------------------------------------------------------------
(* The screens of the digests, for PREMIUM users only.                     *)

Edit(kinds) ==
    /\ premium /\ edits < MaxEdits /\ edits' = edits + 1
    /\ steady' = [k \in Kinds |-> IF k \in kinds THEN 0 ELSE steady[k]]
    /\ UNCHANGED <<now, premium, lastAt, job, ran, faults, sent, gap>>

digest_toggle(k) ==
    Edit({k}) /\ enabled' = [enabled EXCEPT ![k] = ~@] /\ UNCHANGED <<time, weekday>>

digest_disable_all ==
    Edit(Kinds) /\ enabled' = [k \in Kinds |-> FALSE] /\ UNCHANGED <<time, weekday>>

digest_time_save(k, t) ==
    /\ Edit({k}) /\ time' = [time EXCEPT ![k] = t]
    /\ enabled' = [enabled EXCEPT ![k] = TRUE] /\ UNCHANGED weekday

digest_weekday_save(d) ==
    Edit({"weekly"}) /\ weekday' = d /\ UNCHANGED <<enabled, time>>

\* Premium ends or is bought: the digests that were turned on stay on.
PremiumChanges ==
    /\ edits < MaxEdits /\ edits' = edits + 1 /\ premium' = ~premium
    /\ UNCHANGED <<now, settings, lastAt, job, ran, faults, sent, gap, steady>>

Next ==
    \/ Tick \/ RunBegins \/ Commit \/ RunFails \/ RunMissed
    \/ digest_disable_all \/ PremiumChanges
    \/ \E k \in Kinds :
         Send(k) \/ digest_toggle(k) \/ \E t \in TimeChoices : digest_time_save(k, t)
    \/ \E d \in 0..WeekDays - 1 : digest_weekday_save(d)

Spec == Init /\ [][Next]_vars

-----------------------------------------------------------------------------
\* However the settings change, no digest follows another of its kind within 23
\* hours or 6 days, unless the run of the earlier one failed.
NotTooSoon == \A k \in Kinds : gap[k] # None => gap[k] > Spacing(k)

\* A digest that has been on for two periods without a fault or a change was due
\* within the last one: the spacing never makes it skip its turn again and again.
NotTooLate ==
    \A k \in Kinds :
      enabled[k] /\ steady[k] = Steady(k) => lastAt[k] # None /\ lastAt[k] <= Period[k]

\* The screens promise a digest "every day at" a time (i18n, digest_screen), which
\* may be any quarter of an hour: no digest comes before the time it is set to.
DigestNotEarly ==
    [][\A k \in Kinds : sent'[k] = 0 /\ sent[k] # 0 => now % Day >= time[k]]_vars

\* A digest keeps its rhythm (DigestService.run, _due).
DigestsKeepTime == NotTooSoon /\ NotTooLate
=============================================================================
