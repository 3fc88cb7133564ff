---------------------------- MODULE PremiumTools ----------------------------
(***************************************************************************)
(* PremiumTools: analytics, the history of prices and the comparison of    *)
(* regions, as screens that a user walks through while Premium ends, rules *)
(* are deleted and other dialogues begin.                                  *)
(*                                                                         *)
(* The comparison keeps its regions in the FSM's data; its handlers read   *)
(* the data, wait, write it and edit the message, and handlers of one user *)
(* run at once.                                                            *)
(***************************************************************************)
EXTENDS Dialog

CONSTANTS
    Rules,
    Regions, MaxRegions,   \* MAX_COMPARISON_REGIONS
    Handlers               \* bound: handlers of the comparison in progress at once

VARIABLES
    selected,   \* data["selected"]
    owned,      \* the user's rules
    premium,    \* User.is_premium
    acting      \* [Handlers -> the handler's step and what it has read, or None]

vars == <<fsm, panel, chat, crossed, selected, owned, premium, acting>>

-----------------------------------------------------------------------------
Selecting(r) == At("RegionCompare.selecting", r, None)
Other == At("other", None, None)   \* a dialogue of another part of the bot
Comparing == fsm.state = "RegionCompare.selecting"

\* <<"regions", <<r, marks>>>> and <<"comparison", <<r, regions>>>> hold what they show.
Keyboard(s) ==
    LET item == s[2] IN
    CASE s[1] = "main" -> main_keyboard
      [] s[1] = "card" -> watch_card_keyboard(item, FALSE)
      [] s[1] = "active" -> active_premium_keyboard
      [] s[1] = "notice" -> back_keyboard(item)
      [] s[1] = "gate" -> premium_gate_keyboard(item)
      [] s[1] = "premium_analytics" -> premium_games_keyboard(item, s[1])
      [] s[1] = "premium_compare" -> premium_games_keyboard(item, s[1])
      [] s[1] = "deals" -> deals_analytics_keyboard(item)
      [] s[1] = "analytics" -> analytics_keyboard(item[1], item[2])
      [] s[1] = "chart" -> price_history_keyboard(item)
      [] s[1] = "no_chart" -> {<<"premium_analytics", item>>}
      [] s[1] = "groups" -> comparison_groups_keyboard({"group"})
      [] s[1] = "regions" -> comparison_regions_keyboard("group", Regions)
      [] s[1] = "currencies" -> comparison_currency_keyboard({"currency"})
      [] s[1] = "comparison" -> comparison_result_keyboard
      [] OTHER -> {}   \* "loading", "fetching": a text alone

TypeOK ==
    /\ fsm \in {Idle, Other} \cup {Selecting(r) : r \in Rules}
    /\ DOMAIN chat = {"new", "old"} /\ NameOf(chat.old) \in Kept \cup {""}
    /\ panel = None /\ crossed \in BOOLEAN /\ premium \in BOOLEAN
    /\ selected \subseteq Regions /\ owned \subseteq Rules
    /\ \A h \in Handlers : acting[h] # None =>
         /\ acting[h].step \in {"read", "written", "fetching", "drawing", "redrawing"}
         /\ acting[h].at \in {"new", "old", None} /\ acting[h].chosen \subseteq Regions

Init ==
    /\ DialogInit /\ selected = {} /\ owned = Rules /\ premium \in BOOLEAN
    /\ acting = [h \in Handlers |-> None]

-----------------------------------------------------------------------------
\* The handlers know their message, which may get older, or be deleted: at None.
ActsAt(Place(_)) == [h \in Handlers |->
    IF acting[h] = None THEN None ELSE [acting[h] EXCEPT !.at = Place(@)]]
OlderActs == ActsAt(Older)

Buttons(p) == IF chat[p] = None THEN {} ELSE Keyboard(chat[p])
Shows(p, screen) == chat' = IF p = None THEN chat ELSE Edited(p, screen)

\* The message at p is deleted, and screen sent: chat, and the place of the others.
Resent(p, screen) == [new |-> screen, old |-> IF p = "new" THEN chat.old ELSE Retained(chat.new, None)]
PlaceAfter(p, q) == IF q = p THEN None ELSE Older(q)
KeepsUser == UNCHANGED <<owned, premium>>

Opens(p, screen) == Shows(p, screen) /\ UNCHANGED <<fsm, panel, selected, acting>> /\ KeepsUser
Alerts == UNCHANGED <<fsm, panel, chat, selected, owned, premium, acting>>

PremiumScreen == IF premium THEN <<"active", None>> ELSE Notice("menu:home")

-----------------------------------------------------------------------------
(* The rest of the bot, as far as it meets the tools.                      *)

\* A message with a card, the Premium screen or the deals.
Visits ==
    /\ \E screen \in {<<"card", r>> : r \in owned} \cup {PremiumScreen, <<"deals", owned>>} :
         chat' = Sent(screen)
    /\ acting' = OlderActs /\ UNCHANGED <<fsm, panel, selected>> /\ KeepsUser

\* Screens that end a dialogue, and screens that begin another one.
Leaves(p, b) ==
    /\ b[1] \in {"menu:home", "menu:search"}
    /\ IF b = Home THEN fsm' = Idle /\ selected' = {} ELSE fsm' = Other /\ UNCHANGED selected
    /\ Shows(p, <<"main", None>>) /\ UNCHANGED <<panel, acting>> /\ KeepsUser

RuleDeleted(p, b) ==
    /\ b[1] = "watch_delete" /\ owned' = owned \ {b[2]}
    /\ Shows(p, Notice("menu:games")) /\ UNCHANGED <<fsm, panel, selected, premium, acting>>

CardOf(p, b) == b[1] = "watch" /\ b[2] \in owned /\ Opens(p, <<"card", b[2]>>)

PremiumChanges == premium' = ~premium /\ UNCHANGED <<fsm, panel, chat, selected, owned, acting>>

-----------------------------------------------------------------------------
(* Analytics and the history of prices.  The history is a photo, and a     *)
(* photo cannot be edited into a gate: the handler fails.                  *)

premium_tool_games(p, b) ==
    /\ b[1] \in {"premium:compare", "premium:analytics"}
    /\ Opens(p, IF ~premium THEN Gate(<<"menu:premium", None>>)
                ELSE <<IF b[1] = "premium:compare" THEN "premium_compare" ELSE "premium_analytics", owned>>)

\* Neither of the next two can turn a photo into a gate.
IsPhoto(p) == NameOf(chat[p]) = "chart"
Stuck(p, r) == r \notin owned \/ (~premium /\ IsPhoto(p))

\* From the deals, or from a card, a list or a chart: the redis key with where
\* Back leads is written and read by the same call.  Without a snapshot there is
\* nothing to show.  A photo gives way to a new message.  No keyboard offers
\* analytics_refresh.
premium_game_analytics(p, b) ==
    LET back == IF b[1] = "deals_analytics" THEN <<"deals:return", None>> ELSE <<"watch", b[2]>>
        Place(q) == PlaceAfter(p, q)
    IN /\ b[1] \in {"deals_analytics", "premium_analytics"}
       /\ IF Stuck(p, b[2]) THEN Alerts
          ELSE \E screen \in IF premium THEN {<<"analytics", <<b[2], back>>>>, Notice("menu:games")}
                                        ELSE {Gate(back)} :
                 IF IsPhoto(p)
                 THEN /\ chat' = Resent(p, screen) /\ acting' = ActsAt(Place)
                      /\ UNCHANGED <<fsm, panel, selected>> /\ KeepsUser
                 ELSE Opens(p, screen)

Act(step, at, rule, chosen) == [step |-> step, at |-> at, rule |-> rule, chosen |-> chosen]

Begins(step, p, rule, chosen) ==
    \E h \in Handlers :
      acting[h] = None /\ acting' = [acting EXCEPT ![h] = Act(step, p, rule, chosen)]

\* Without a snapshot: an alert.
premium_price_history(p, b) ==
    /\ b[1] = "price_history"
    /\ \/ (premium \/ Stuck(p, b[2])) /\ Alerts
       \/ ~premium /\ ~Stuck(p, b[2]) /\ Opens(p, Gate(<<"watch", b[2]>>))
       \/ /\ premium /\ b[2] \in owned
          /\ Begins(IF IsPhoto(p) THEN "redrawing" ELSE "drawing", p, b[2], {})
          /\ Shows(p, <<"loading", None>>) /\ UNCHANGED <<fsm, panel, selected>> /\ KeepsUser

\* The chart takes the place of a text as a new message, and that of a photo in the
\* same one; the excuse for a chart does the opposite.
ChartShown(h) ==
    LET at == acting[h].at
        Place(q) == PlaceAfter(at, q)
    IN /\ acting[h] # None /\ acting[h].step \in {"drawing", "redrawing"}
       /\ \E name \in {"chart", "no_chart"} :
            IF (name = "chart") = (acting[h].step = "redrawing")
            THEN /\ Shows(at, <<name, acting[h].rule>>)
                 /\ acting' = [acting EXCEPT ![h] = None]
            ELSE /\ chat' = IF at = None THEN Sent(<<name, acting[h].rule>>)
                                         ELSE Resent(at, <<name, acting[h].rule>>)
                 /\ acting' = [(IF at = None THEN OlderActs ELSE ActsAt(Place)) EXCEPT ![h] = None]
       /\ UNCHANGED <<fsm, panel, selected>> /\ KeepsUser

-----------------------------------------------------------------------------
(* Comparing regions.  All but the start is for RegionCompare.selecting.   *)

\* Mutant of ComparisonBegins: set_state and update_data are forgotten.
ComparisonBeginsUnset(p, r) == Opens(p, <<"groups", r>>)

ComparisonBegins(p, r) ==
    /\ fsm' = Selecting(r) /\ selected' = {}
    /\ Shows(p, <<"groups", r>>) /\ UNCHANGED <<panel, acting>> /\ KeepsUser

premium_region_compare_start(p, b) ==
    LET r == b[2] IN
    /\ b[1] = "premium_compare"
    /\ \/ r \notin owned /\ Alerts
       \/ r \in owned /\ ~premium /\ Opens(p, Gate(<<"watch", r>>))
       \/ r \in owned /\ premium /\ ComparisonBegins(p, r)

compare_group(p, b) ==
    Comparing /\ b[1] = "compare_group" /\ Opens(p, <<"regions", <<fsm.item, selected>>>>)

\* The other screens between which the selection is made.
compare_screens(p, b) ==
    /\ Comparing
    /\ \/ b[1] \in {"compare:groups", "compare_currency"} /\ Opens(p, <<"groups", fsm.item>>)
       \/ b[1] = "compare:currency" /\ Opens(p, <<"currencies", fsm.item>>)

\* compare_toggle has read the regions: what it will write.
compare_toggle(p, b) ==
    LET c == b[2] IN
    /\ Comparing /\ b[1] = "compare_toggle"
    /\ \/ c \in selected /\ Begins("read", p, fsm.item, selected \ {c})
       \/ c \notin selected /\ Cardinality(selected) >= MaxRegions /\ UNCHANGED acting
       \/ /\ c \notin selected /\ Cardinality(selected) < MaxRegions
          /\ Begins("read", p, fsm.item, selected \cup {c})
    /\ UNCHANGED <<fsm, panel, chat, selected>> /\ KeepsUser

\* Mutant of WholeGroup: the group is added without counting what is selected.
WholeGroupUncounted == {Regions}

\* The group as far as there is room, or nothing of it when all of it is selected.
WholeGroup ==
    IF selected = Regions THEN {{}}
    ELSE {chosen \in SUBSET Regions :
            /\ selected \subseteq chosen /\ Cardinality(chosen) <= MaxRegions
            /\ chosen = Regions \/ Cardinality(chosen) = MaxRegions}

compare_select_group(p, b) ==
    /\ Comparing /\ b[1] = "compare_all"
    /\ \E chosen \in WholeGroup : Begins("read", p, fsm.item, chosen)
    /\ UNCHANGED <<fsm, panel, chat, selected>> /\ KeepsUser

compare_clear(p, b) ==
    /\ Comparing /\ b[1] = "compare:clear" /\ selected' = {}
    /\ Shows(p, <<"groups", fsm.item>>) /\ UNCHANGED <<fsm, panel, acting>> /\ KeepsUser

\* update_data, whatever others wrote and whatever the state is by now.
Writes(h) ==
    /\ acting[h] # None /\ acting[h].step = "read"
    /\ selected' = acting[h].chosen /\ acting' = [acting EXCEPT ![h].step = "written"]
    /\ UNCHANGED <<fsm, panel, chat>> /\ KeepsUser

\* edit_reply_markup: the marks that this handler knows of.
Marks(h) ==
    /\ acting[h] # None /\ acting[h].step = "written"
    /\ Shows(acting[h].at, <<"regions", <<acting[h].rule, acting[h].chosen>>>>)
    /\ acting' = [acting EXCEPT ![h] = None]
    /\ UNCHANGED <<fsm, panel, selected>> /\ KeepsUser

ResultAllowed == Cardinality(selected) >= 2 /\ premium /\ fsm.item \in owned

\* Confirm and refresh, which has a limit of its own: the checks, then "loading"
\* while the prices are fetched.
premium_region_compare_result(p, b) ==
    /\ Comparing /\ b[1] \in {"compare:confirm", "compare:refresh"}
    /\ \/ (~ResultAllowed \/ b[1] = "compare:refresh") /\ Alerts
       \/ /\ ResultAllowed /\ Begins("fetching", p, fsm.item, selected)
          /\ Shows(p, <<"fetching", None>>) /\ UNCHANGED <<fsm, panel, selected>> /\ KeepsUser

\* The prices, of the rule and the regions read at the start; all may be missing.
ResultShown(h) ==
    /\ acting[h] # None /\ acting[h].step = "fetching"
    /\ \E screen \in {<<"comparison", <<acting[h].rule, acting[h].chosen>>>>, Notice("menu:premium")} :
         Shows(acting[h].at, screen)
    /\ acting' = [acting EXCEPT ![h] = None]
    /\ UNCHANGED <<fsm, panel, selected>> /\ KeepsUser

\* A button of a comparison that is over: expired_compare_callback.
expired_compare_callback(p, b) ==
    /\ ~Comparing /\ b # Home /\ NameOf(chat[p]) \in {"groups", "regions", "currencies", "comparison"}
    /\ Alerts

-----------------------------------------------------------------------------
Press(p, b) ==
    \/ Leaves(p, b) \/ RuleDeleted(p, b) \/ CardOf(p, b) \/ premium_tool_games(p, b)
    \/ premium_game_analytics(p, b) \/ premium_price_history(p, b)
    \/ premium_region_compare_start(p, b) \/ compare_group(p, b) \/ compare_screens(p, b)
    \/ compare_toggle(p, b) \/ compare_select_group(p, b) \/ compare_clear(p, b) \/ premium_region_compare_result(p, b)
    \/ expired_compare_callback(p, b)

Next ==
    /\ \/ Visits \/ PremiumChanges
       \/ \E p \in {"new", "old"} : \E b \in Buttons(p) : Press(p, b)
       \/ \E h \in Handlers : ChartShown(h) \/ Writes(h) \/ Marks(h) \/ ResultShown(h)
    /\ Crosses

-----------------------------------------------------------------------------
(* Safety.                                                                 *)

\* However the handlers of the comparison interleave, no more regions are
\* selected, or fetched, than the limit allows, and none are compared with less
\* than another one.
RegionsWithinLimit ==
    /\ Cardinality(selected) <= MaxRegions
    /\ \A h \in Handlers : acting[h] # None =>
         /\ Cardinality(acting[h].chosen) <= MaxRegions
         /\ acting[h].step = "fetching" => Cardinality(acting[h].chosen) >= 2

\* The buttons of a comparison that is the newest message work, and on the rule it
\* shows - unless another handler changed the dialogue since, or a comparison
\* that was under way shows its prices after the dialogue went on.
ButtonsAreAlive ==
    /\ NameOf(chat.new) \in {"groups", "currencies"} /\ ~crossed => fsm = Selecting(chat.new[2])
    /\ NameOf(chat.new) = "fetching" /\ ~crossed => Comparing
=============================================================================
