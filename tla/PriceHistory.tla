---------------------------- MODULE PriceHistory ----------------------------
(***************************************************************************)
(* PriceHistoryService: the past prices of a game in a country, as told by *)
(* a copy in redis, by IsThereAnyDeal, by a copy in the database or by the *)
(* bot's own snapshots, in this order.                                     *)
(*                                                                         *)
(* A history is a function from the moments of its points to prices; each  *)
(* price holds until the next point.  Histories are collapsed before they  *)
(* are stored, and cut to a period before they are shown.  Calls take      *)
(* seconds: no moment passes in a call.                                    *)
(***************************************************************************)
EXTENDS Integers

CONSTANTS
    Prices, None,
    Ttl,       \* CACHE_TTL_SECONDS, in moments
    Periods,   \* bound: the periods that are asked for, in moments; None is all of it
    Last       \* bound: the last moment

VARIABLES
    clock,
    past,      \* the price of each moment so far
    seen,      \* the moments of the bot's own snapshots
    cached,    \* redis: [points, knows, kept: since it was saved], or None
    stored,    \* price_history_cache: [points, knows], or None
    asking,    \* the call in progress: [step, period, points, knows], or None
    answer     \* history: the last answer, [points, from, knows, at, stale, own], or None

vars == <<clock, past, seen, cached, stored, asking, answer>>

Moments == 0..Last

\* knows is history: the moments whose price a copy is to tell.
IsHistory(h) ==
    /\ DOMAIN h.points \subseteq h.knows /\ h.knows \subseteq Moments
    /\ \A t \in DOMAIN h.points : h.points[t] \in Prices

TypeOK ==
    /\ clock \in Moments /\ past \in [0..clock -> Prices] /\ seen \subseteq 0..clock
    /\ cached # None => IsHistory(cached) /\ cached.kept \in 0..Ttl - 1
    /\ stored # None => IsHistory(stored)
    /\ asking # None => /\ asking.step \in {"asking", "fetched", "saved", "failed"}
                        /\ asking.period \in Periods /\ IsHistory(asking)

Init ==
    /\ clock = 0 /\ past \in [{0} -> Prices] /\ seen = {}
    /\ cached = None /\ stored = None /\ asking = None /\ answer = None

-----------------------------------------------------------------------------
(* Histories.                                                              *)

Latest(moments) == CHOOSE t \in moments : \A u \in moments : u <= t
Before(t, moments) == {u \in moments : u < t}
At(points, moments) == [t \in moments |-> points[t]]

\* _collapse: points that repeat the price before them go.
Collapsed(points) ==
    At(points, {t \in DOMAIN points :
        LET earlier == Before(t, DOMAIN points)
        IN earlier = {} \/ points[Latest(earlier)] # points[t]})

\* Mutant of Filtered: the price at the start of the period is forgotten.
FilteredWithoutFirst(points, from) == At(points, {t \in DOMAIN points : t >= from})

\* _filter: the points of the period, and the price it starts with.
Filtered(points, from) ==
    LET earlier == Before(from, DOMAIN points)
        within == DOMAIN points \ earlier
    IN IF earlier = {} THEN points
       ELSE [t \in within \cup {from} |-> IF t \in within THEN points[t] ELSE points[Latest(earlier)]]

\* The rows of steam_history: the changes of the price.
Changes == {t \in 0..clock : t = 0 \/ past[t] # past[t - 1]}

\* _external_points: the rows, without the first ones when they are in another
\* currency and the rates could not be had for them.
Conversions == {{t \in Changes : t >= first} : first \in Changes}

-----------------------------------------------------------------------------
(* get_history                                                             *)

\* A cut at no moment at all for the period "all".
From(period) == IF period = None THEN 0 ELSE clock - period

Answers(h, period, stale, own) ==
    /\ answer' = [points |-> Filtered(h.points, From(period)), from |-> From(period),
                  knows |-> h.knows, at |-> clock, stale |-> stale, own |-> own]
    /\ asking' = None

World == <<clock, past, seen>>
Nothing == [points |-> At(past, {}), knows |-> {}]

Ask(period) ==
    /\ asking = None
    /\ IF cached # None
       THEN Answers(cached, period, FALSE, FALSE)
       ELSE /\ asking' = [step |-> "asking", period |-> period, points |-> Nothing.points, knows |-> {}]
            /\ UNCHANGED answer
    /\ UNCHANGED <<World, cached, stored>>

\* The rows and the latest snapshot.
ProviderAnswers ==
    /\ asking # None /\ asking.step = "asking"
    /\ \E rows \in Conversions :
         LET first == CHOOSE t \in rows : \A u \in rows : t <= u
             own == IF seen = {} THEN {} ELSE {Latest(seen)}
         IN asking' = [asking EXCEPT !.step = "fetched",
                          !.points = Collapsed(At(past, rows \cup own)),
                          !.knows = first..clock \cup own]
    /\ UNCHANGED <<World, cached, stored, answer>>

\* ITADError, a game that it does not know, or no row that could be used.
ProviderFails ==
    /\ asking # None /\ asking.step = "asking"
    /\ asking' = [asking EXCEPT !.step = "failed"]
    /\ UNCHANGED <<World, cached, stored, answer>>

\* The errors of redis and of the database are the caller's.
SaveRedis ==
    /\ asking # None /\ asking.step = "fetched"
    /\ \/ /\ cached' = [points |-> asking.points, knows |-> asking.knows, kept |-> 0]
          /\ asking' = [asking EXCEPT !.step = "saved"]
       \/ asking' = None /\ UNCHANGED cached
    /\ UNCHANGED <<World, stored, answer>>

SaveDatabase ==
    /\ asking # None /\ asking.step = "saved"
    /\ \/ /\ stored' = [points |-> asking.points, knows |-> asking.knows]
          /\ Answers(asking, asking.period, FALSE, FALSE)
       \/ asking' = None /\ UNCHANGED <<stored, answer>>
    /\ UNCHANGED <<World, cached>>

\* The database's copy, marked; else what the bot itself has seen.
Stored ==
    /\ asking # None /\ asking.step = "failed"
    /\ IF stored # None THEN Answers(stored, asking.period, TRUE, FALSE)
       ELSE Answers([points |-> Collapsed(At(past, seen)), knows |-> seen], asking.period, FALSE, TRUE)
    /\ UNCHANGED <<World, cached, stored>>

-----------------------------------------------------------------------------
\* A price is stored by the monitor or a handler.
Snapshot ==
    /\ asking = None /\ seen' = seen \cup {clock}
    /\ UNCHANGED <<clock, past, cached, stored, asking, answer>>

Expired(copy) ==
    IF copy = None THEN None
    ELSE IF copy.kept + 1 >= Ttl THEN None ELSE [copy EXCEPT !.kept = @ + 1]

Tick ==
    /\ asking = None /\ clock < Last /\ clock' = clock + 1
    /\ \E price \in Prices : past' = [t \in 0..clock' |-> IF t = clock' THEN price ELSE past[t]]
    /\ cached' = Expired(cached)
    /\ UNCHANGED <<seen, stored, asking, answer>>

Next ==
    \/ Tick \/ Snapshot \/ ProviderAnswers \/ ProviderFails \/ SaveRedis \/ SaveDatabase \/ Stored
    \/ \E period \in Periods : Ask(period)

Spec == Init /\ [][Next]_vars

-----------------------------------------------------------------------------
\* The price that a history tells for a moment, as the price it had then.
Tells(points, t) ==
    LET until == {u \in DOMAIN points : u <= t}
    IN until # {} /\ (until # {} => points[Latest(until)] = past[t])

\* Whichever copy an answer comes from, however it was collapsed and cut: it tells
\* the true price of every moment of the period that its source knew of; and one that
\* is not marked as stale, and not the bot's own, knew the prices of Ttl moments ago.
\* (PriceHistoryService.get_history, _collapse, _filter)
HistoryIsTrue ==
    answer # None =>
      /\ \A t \in answer.knows : t >= answer.from => Tells(answer.points, t)
      /\ answer.stale \/ answer.own \/ \E t \in answer.knows : t > answer.at - Ttl
=============================================================================
