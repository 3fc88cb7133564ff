----------------------------- MODULE UserDialogs -----------------------------
(***************************************************************************)
(* UserDialogs: onboarding, the profile and its settings, the help, the    *)
(* referrals, giveaways and deals, as a user walks through them.           *)
(*                                                                         *)
(* Onboarding and the profile ask the same questions with the same         *)
(* buttons; the state of the FSM decides whose handler gets a press.  The  *)
(* deals keep their page, order and filters in redis: a request reads      *)
(* them, writes them, asks the database and writes them again.             *)
(*                                                                         *)
(* What the switches of quiet hours, digests and giveaways hold is left to *)
(* the modules of the services that read them.                             *)
(***************************************************************************)
EXTENDS Dialog

CONSTANTS
    Regions,
    Offers,     \* rules of the user with a discount
    MaxPages    \* bound: pages of deals, and of the leaderboard

VARIABLES
    user,      \* the row, or None: [language: is there one, country: a region or None,
               \* onboarded: is there onboarding_completed_at]
    country,   \* data["country"] of the onboarding, or None
    premium,   \* User.is_premium
    deals,     \* redis, deals:state: [page, sort, narrowed: the filters that are set]
    asked      \* the request for deals in progress: [at, wants, state], or None

vars == <<fsm, panel, chat, crossed, user, country, premium, deals, asked>>

-----------------------------------------------------------------------------
Onboarding(step) == At("Onboarding", step, None)
Steps == {"language", "region_group", "region", "timezone_group", "timezone", "manual_timezone"}
ZoneSteps == {"timezone_group", "timezone", "manual_timezone"}
IsOnboarding == \E step \in Steps : fsm = Onboarding(step)

TimezoneSetup == At("TimezoneSetup.manual", None, None)
\* The filters with a value, and those that are on or off.
FilterValues == {"discount"}
FilterSwitches == {"free"}
FilterSetup(kind) == At("DealsFilterSetup.value", None, kind)
Other == At("other", None, None)   \* a dialogue of another part of the bot

Modes == {"discount", "name"}
InfoPages == {"search", "discounts", "premium", "plans", "region"}
Origins == {"discounts", "giveaways", "analytics"}
QuietPrefixes == {"quiet_start", "quiet_end"}
DigestPrefixes == {"digest_daily", "digest_weekly"}

DigestKindOf(prefix) == IF prefix = "digest_daily" THEN "daily" ELSE "weekly"

\* Where Back leads from the choice of an hour or a minute.
TimeBack(prefix) ==
    IF prefix \in QuietPrefixes THEN <<"settings:quiet", None>> ELSE <<"digest", DigestKindOf(prefix)>>

\* The screens of the onboarding and their twins in the profile.
Keyboard(s) ==
    LET item == s[2] IN
    CASE s[1] = "main" -> main_keyboard
      [] s[1] = "elsewhere" -> back_keyboard("menu:premium")
      [] s[1] = "section" -> {<<item, None>>, Home}
      [] s[1] = "notice" -> back_keyboard(item)
      [] s[1] = "gate" -> premium_gate_keyboard(item)
      [] s[1] = "about" -> premium_info_return_keyboard(item)
      [] s[1] = "language" -> language_keyboard({"language"})
                                \cup (IF item THEN {} ELSE back_keyboard("menu:settings"))
      [] s[1] = "region_groups" -> region_groups_keyboard({"group"}, item, TRUE)
      [] s[1] = "regions" -> region_keyboard(Regions, item)
      [] s[1] = "zone_groups" -> timezone_groups_keyboard({"group"}, item)
      [] s[1] = "zones" -> timezone_keyboard({"zone"}, item)
      [] s[1] = "ask" -> IF item.state = "DealsFilterSetup.value"
                         THEN deals_filter_input_keyboard(item.kind)
                         ELSE manual_timezone_keyboard(item # TimezoneSetup)
      [] s[1] = "profile" -> profile_keyboard
      [] s[1] = "info" -> info_keyboard(InfoPages)
      [] s[1] = "info_page" -> info_page_keyboard(item[1], item[3], item[2])
      [] s[1] = "currency" -> profile_currency_keyboard({"currency"})
      [] s[1] = "quiet" -> quiet_hours_keyboard
      [] s[1] = "hour" -> hour_keyboard(item, {"hour"}, TimeBack(item))
      [] s[1] = "minute" -> minute_keyboard(item, "hour", {"minute"}, TimeBack(item))
      [] s[1] = "digest" -> digest_keyboard
      [] s[1] = "digest_kind" -> digest_kind_keyboard(item)
      [] s[1] = "guide" -> Plain({"settings:digest"})
      [] s[1] = "weekday" -> weekday_keyboard({"day"})
      [] s[1] = "referrals" -> referrals_keyboard
      [] s[1] = "leaderboard" -> referral_leaderboard_keyboard(item[1], item[2])
      [] s[1] = "giveaways" -> giveaways_keyboard
      [] s[1] = "types" -> giveaway_types_keyboard({"keep"})
      [] s[1] = "deals" -> deals_keyboard(item[1], item[2], item[3])
      [] s[1] = "sort" -> deals_sort_keyboard(Modes)
      [] s[1] = "filters" -> deals_filters_keyboard(FilterValues, FilterSwitches \cup {"tracked"})
      [] s[1] = "deals_analytics" -> deals_analytics_keyboard(item)
      [] OTHER -> {}   \* "text": a text alone

DealsStates == [page : 0..MaxPages, sort : Modes, narrowed : SUBSET (FilterValues \cup FilterSwitches)]
UserRows == [language : BOOLEAN, country : Regions \cup {None}, onboarded : BOOLEAN]

TypeOK ==
    /\ fsm \in {Idle, TimezoneSetup, Other} \cup {Onboarding(step) : step \in Steps}
                 \cup {FilterSetup(kind) : kind \in FilterValues}
    /\ panel \in {"new", "old", None} /\ crossed \in BOOLEAN
    /\ DOMAIN chat = {"new", "old"} /\ NameOf(chat.old) \in Kept \cup {""}
    /\ user = None \/ user \in UserRows
    /\ country \in Regions \cup {None} /\ premium \in BOOLEAN /\ deals \in DealsStates
    /\ asked # None => /\ asked.at \in {"new", "old"} /\ asked.state \in DealsStates
                       /\ asked.wants \in {"deals", "sort", "filters", "analytics"}

NoFilters(sort) == [page |-> 0, sort |-> sort, narrowed |-> {}]

Init ==
    /\ fsm = Idle /\ panel = None /\ crossed = FALSE
    /\ chat = [new |-> None, old |-> None]
    /\ user = None /\ country = None /\ premium = FALSE
    /\ deals = NoFilters("discount") /\ asked = None

-----------------------------------------------------------------------------
(* What the handlers do to the messages and to the FSM.                    *)

Buttons(p) == IF chat[p] = None THEN {} ELSE Keyboard(chat[p])
HasCountry == user # None /\ (user # None => user.country # None)

Shows(p, screen) == chat' = Edited(p, screen) /\ asked' = asked
Sends(screen) ==
    /\ chat' = Sent(screen)
    /\ asked' = IF asked = None THEN None ELSE [asked EXCEPT !.at = Older(@)]

Clears == fsm' = Idle /\ panel' = None /\ country' = None
Stays == UNCHANGED <<fsm, panel, country>>
Goes == UNCHANGED <<fsm, country>> /\ panel' = Older(panel)
Enters(f) == fsm' = f /\ UNCHANGED <<panel, country>>

KeepsRows == UNCHANGED <<user, premium, deals>>

Opens(p, screen) == Shows(p, screen) /\ Stays /\ KeepsRows
Alerts == UNCHANGED <<fsm, panel, country, chat, asked, user, premium, deals>>

\* A screen for subscribers, and the gate or an alert for others.
OpensOrGate(p, back, screen) == Opens(p, IF premium THEN screen ELSE Gate(<<back, None>>))
OpensOrAlert(p, screen) == IF premium THEN Opens(p, screen) ELSE Alerts

-----------------------------------------------------------------------------
(* Commands and menus.                                                     *)

NewUser == [language |-> FALSE, country |-> None, onboarded |-> FALSE]
IsReady(u) == u.language /\ u.country # None

\* A new message with the first question.
Asks == Enters(Onboarding("language")) /\ Sends(<<"language", TRUE>>)

start ==
    LET row == IF user = None THEN NewUser ELSE user IN
    /\ user' = row /\ UNCHANGED <<premium, deals>>
    /\ IF IsReady(row) THEN Sends(<<"main", None>>) /\ Goes ELSE Asks

menu ==
    /\ IF user # None /\ (user # None => IsReady(user)) THEN Sends(<<"main", None>>) /\ Goes ELSE Asks
    /\ KeepsRows

\* /settings, /deals and /free, /help and /terms.
Commands ==
    /\ \E screen \in {<<IF user = None THEN "text" ELSE "profile", None>>, <<"text", None>>}
                       \cup {<<"section", name>> : name \in {"menu:deals", "menu:giveaways"}} :
         Sends(screen)
    /\ Goes /\ KeepsRows

\* The step that the onboarding is sent back to.
StepAgain ==
    CASE fsm = Onboarding("language") -> "language"
      [] fsm \in {Onboarding("region_group"), Onboarding("region")} -> "region_group"
      [] OTHER -> "timezone_group"

ScreenOf(step) ==
    <<CASE step = "language" -> "language"
        [] step = "region_group" -> "region_groups"
        [] step = "timezone_group" -> "zone_groups", TRUE>>

menu_home(p, b) ==
    /\ b = Home
    /\ IF IsOnboarding THEN Enters(Onboarding(StepAgain)) /\ Shows(p, ScreenOf(StepAgain))
                       ELSE Clears /\ Shows(p, <<"main", None>>)
    /\ KeepsRows

\* Another part of the bot, with a dialogue of its own or without.
Elsewhere(p, b) ==
    \/ /\ b[1] = "menu:search"
       /\ IF HasCountry THEN Enters(Other) /\ Shows(p, <<"elsewhere", None>>) /\ KeepsRows ELSE Alerts
    \/ b[1] \in {"menu:games", "menu:premium", "deals_analytics"} /\ Opens(p, <<"elsewhere", None>>)
    \/ b[1] = "premium:info:" /\ Opens(p, <<"about", b[2]>>)

-----------------------------------------------------------------------------
(* Onboarding.  Its handlers are registered before those of the profile.   *)
(* No keyboard offers onboarding:cancel.                                   *)

\* A press in a step leads to the next one.
StepTo(p, step, pressed, next, screen) ==
    /\ fsm = Onboarding(step) /\ pressed
    /\ Enters(Onboarding(next)) /\ Shows(p, <<screen, TRUE>>) /\ KeepsRows

onboarding(p, b) ==
    \/ StepTo(p, "language", b[1] = "lang", "region_group", "region_groups")
    \/ StepTo(p, "region_group", b[1] = "region_group", "region", "regions")
    \/ StepTo(p, "region", b[1] = "region_groups", "region_group", "region_groups")
    \/ StepTo(p, "timezone_group", b[1] = "timezone_group", "timezone", "zones")
    \/ StepTo(p, "timezone", b[1] = "timezone_groups", "timezone_group", "zone_groups")
    \/ StepTo(p, "manual_timezone", b[1] = "onboarding:timezone", "timezone_group", "zone_groups")

choose_region(p, b) ==
    /\ fsm = Onboarding("region") /\ b[1] = "region"
    /\ fsm' = Onboarding("timezone_group") /\ country' = b[2] /\ UNCHANGED panel
    /\ Shows(p, <<"zone_groups", TRUE>>) /\ KeepsRows

\* In Onboarding.timezone the press is taken for the name of a time zone.
timezone_manual(p, b) ==
    LET next == IF fsm = Onboarding("timezone_group") THEN Onboarding("manual_timezone")
                                                      ELSE TimezoneSetup
    IN /\ b[1] = "timezone:manual"
       /\ IF fsm = Onboarding("timezone") THEN Alerts
          ELSE /\ fsm' = next /\ panel' = p /\ UNCHANGED country
               /\ Shows(p, Ask(next)) /\ KeepsRows

\* What the end of the onboarding makes of the user's row.
Onboarded == user' = [language |-> TRUE, country |-> country, onboarded |-> TRUE]

_finish_onboarding(p, b) ==
    /\ fsm = Onboarding("timezone") /\ b[1] = "timezone"
    /\ IF country = None THEN Alerts
       ELSE Onboarded /\ Clears /\ Shows(p, <<"main", None>>) /\ UNCHANGED <<premium, deals>>

\* A text in one of the two states that wait for an offset: the prompt is edited.
save_manual_timezone ==
    /\ fsm \in {Onboarding("manual_timezone"), TimezoneSetup}
    /\ \/ /\ Stays /\ Shows(panel, Ask(fsm)) /\ KeepsRows
       \/ /\ fsm = TimezoneSetup /\ user = None
          /\ Clears /\ Sends(<<"text", None>>) /\ KeepsRows
       \/ /\ fsm = TimezoneSetup /\ user # None
          /\ Clears /\ Shows(panel, <<"profile", None>>) /\ KeepsRows
       \/ /\ fsm # TimezoneSetup /\ country = None
          /\ Clears /\ Sends(<<"text", None>>) /\ KeepsRows
       \/ /\ fsm # TimezoneSetup /\ country # None
          /\ Onboarded /\ Clears /\ Shows(panel, <<"main", None>>) /\ UNCHANGED <<premium, deals>>

-----------------------------------------------------------------------------
(* The profile: language, region and time zone.                            *)

settings_view(p, b) ==
    /\ b[1] = "menu:settings" /\ Clears
    /\ Shows(p, IF user = None THEN Notice("menu:home") ELSE <<"profile", None>>) /\ KeepsRows

\* The twins of the steps of the onboarding, for a press outside of that step.
settings_questions(p, b) ==
    \/ b[1] = "settings:language" /\ Opens(p, <<"language", FALSE>>)
    \/ b[1] = "settings:region" /\ Opens(p, <<"region_groups", FALSE>>)
    \/ fsm # Onboarding("region_group") /\ b[1] = "region_group" /\ Opens(p, <<"regions", FALSE>>)
    \/ fsm # Onboarding("region") /\ b[1] = "region_groups" /\ Opens(p, <<"region_groups", FALSE>>)
    \/ b[1] = "settings:timezone" /\ Opens(p, <<"zone_groups", FALSE>>)
    \/ fsm # Onboarding("timezone_group") /\ b[1] = "timezone_group" /\ Opens(p, <<"zones", FALSE>>)
    \/ fsm # Onboarding("timezone") /\ b[1] = "timezone_groups" /\ Opens(p, <<"zone_groups", FALSE>>)

change_language(p, b) ==
    /\ fsm # Onboarding("language") /\ b[1] = "lang"
    /\ IF user = None THEN Alerts
       ELSE /\ user' = [user EXCEPT !.language = TRUE] /\ UNCHANGED <<premium, deals>>
            /\ Shows(p, <<"profile", None>>) /\ Stays

\* Mutant of change_region: a user without a region gets one.
ChangeRegionOfAnyone(p, b) ==
    /\ fsm # Onboarding("region") /\ b[1] = "region" /\ user # None
    /\ user' = [user EXCEPT !.country = b[2]] /\ UNCHANGED <<premium, deals>>
    /\ Shows(p, <<"profile", None>>) /\ Stays

\* The old currency is that of the old region: without one the lookup fails.  The
\* conditions are converted first, which may fail.
change_region(p, b) ==
    /\ fsm # Onboarding("region") /\ b[1] = "region"
    /\ \/ Alerts
       \/ /\ HasCountry
          /\ user' = [user EXCEPT !.country = b[2]] /\ UNCHANGED <<premium, deals>>
          /\ Shows(p, <<"profile", None>>) /\ Stays

change_timezone(p, b) ==
    /\ fsm # Onboarding("timezone") /\ b[1] = "timezone"
    /\ IF user = None THEN Alerts ELSE Opens(p, <<"profile", None>>)

-----------------------------------------------------------------------------
(* The help, and the currency of comparisons.                              *)

InfoPage(page, origin) == <<"info_page", <<page, origin, premium>>>>

information(p, b) == b[1] = "menu:info" /\ Opens(p, <<"info", None>>)

\* From the page about Premium, Back leads to the page it was reached from.
information_page(p, b) ==
    \/ b[1] = "info" /\ Opens(p, InfoPage(b[2], None))
    \/ b[1] = "info:premium:" /\ Opens(p, InfoPage("premium", b[2]))

information_currency(p, b) ==
    \/ b[1] = "settings:comparison_currency" /\ Opens(p, <<"currency", None>>)
    \/ /\ b[1] = "settings_currency"
       /\ \/ Alerts
          \/ HasCountry /\ Opens(p, InfoPage("region", None))

-----------------------------------------------------------------------------
(* Quiet hours and digests.                                                *)

settings_quiet(p, b) ==
    b[1] = "settings:quiet" /\ OpensOrGate(p, "menu:settings", <<"quiet", None>>)

\* The hour and the minute may be chosen by anyone, only a subscriber saves them.
quiet_hours(p, b) ==
    \/ b[1] = "quiet:toggle" /\ OpensOrAlert(p, <<"quiet", None>>)
    \/ b[1] = "quiet:start" /\ Opens(p, <<"hour", "quiet_start">>)
    \/ b[1] = "quiet:end" /\ Opens(p, <<"hour", "quiet_end">>)
    \/ b[1] = "hour" /\ b[2][1] \in QuietPrefixes /\ Opens(p, <<"minute", b[2][1]>>)
    \/ b[1] = "minute" /\ b[2][1] \in QuietPrefixes /\ OpensOrAlert(p, <<"quiet", None>>)

settings_digest(p, b) ==
    b[1] = "settings:digest" /\ OpensOrGate(p, "menu:settings", <<"digest", None>>)

digest_kind(p, b) ==
    b[1] \in {"digest", "digest_toggle"} /\ OpensOrAlert(p, <<"digest_kind", b[2]>>)

digest_others(p, b) ==
    \/ b[1] = "digest:disable_all" /\ OpensOrAlert(p, <<"digest", None>>)
    \/ b[1] = "digest:guide" /\ Opens(p, <<"guide", None>>)

digest_time(p, b) ==
    \/ b[1] = "digest_time" /\ OpensOrAlert(p, <<"hour", IF b[2] = "daily" THEN "digest_daily" ELSE "digest_weekly">>)
    \/ b[1] = "hour" /\ b[2][1] \in DigestPrefixes /\ OpensOrAlert(p, <<"minute", b[2][1]>>)
    \/ /\ b[1] = "minute" /\ b[2][1] \in DigestPrefixes
       /\ OpensOrAlert(p, <<"digest_kind", DigestKindOf(b[2][1])>>)

digest_weekday(p, b) ==
    \/ b[1] = "digest:weekday" /\ OpensOrAlert(p, <<"weekday", None>>)
    \/ b[1] = "digest_weekday" /\ OpensOrAlert(p, <<"digest_kind", "weekly">>)

-----------------------------------------------------------------------------
(* Referrals and giveaways.                                                *)

referrals_screen(p, b) ==
    b[1] = "menu:referrals"
      /\ IF user = None THEN Alerts ELSE Opens(p, <<"referrals", None>>)

\* The page nearest to the one asked for: others may have joined or left.
Nearest(page, pages) == IF page < pages THEN page ELSE pages - 1

referral_leaderboard(p, b) ==
    \E page \in 0..MaxPages, pages \in 1..MaxPages :
      /\ \/ b[1] = "referral:leaderboard:" /\ page = b[2]
         \/ b[1] = "referral:leaderboard" /\ page = 0
      /\ Opens(p, <<"leaderboard", <<Nearest(page, pages), pages>>>>)

\* A user without a row gets error_handler's alert.
giveaways(p, b) ==
    \/ /\ b[1] = "menu:giveaways"
       /\ IF user = None THEN Alerts ELSE Opens(p, <<"giveaways", None>>)
    \/ user # None /\ b[1] = "giveaway:toggle" /\ Opens(p, <<"giveaways", None>>)

giveaway_types(p, b) ==
    /\ b[1] \in {"giveaway:settings", "giveaway_kind", "giveaway_kinds"}
    /\ IF user = None THEN Alerts ELSE OpensOrGate(p, "menu:giveaways", <<"types", None>>)

-----------------------------------------------------------------------------
(* Deals.                                                                  *)

\* What a button makes of the state that the request has read.
AfterButton(b) ==
    CASE b[1] = "deals_page" -> [deals EXCEPT !.page = b[2]]
      [] b[1] = "menu:deals" -> [deals EXCEPT !.page = 0]
      [] b[1] = "deals_sort" -> [deals EXCEPT !.page = 0, !.sort = b[2]]
      [] b[1] = "deals_filter_clear" -> [deals EXCEPT !.page = 0, !.narrowed = @ \ {b[2]}]
      [] b[1] = "deals_filter" /\ b[2] = "reset" -> NoFilters(deals.sort)
      [] b[1] = "deals_filter" /\ b[2] # "reset" -> [deals EXCEPT !.page = 0,
             !.narrowed = IF b[2] \in @ THEN @ \ {b[2]} ELSE @ \cup {b[2]}]
      [] OTHER -> deals

Wanted(b) ==
    CASE b[1] = "deals:sort_screen" -> "sort"
      [] b[1] \in {"deals:filter_screen", "deals_filter", "deals_filter_clear"} -> "filters"
      [] b[1] = "deals:analytics_screen" -> "analytics"
      [] OTHER -> "deals"

DealsButtons ==
    {"menu:deals", "deals:return", "deals:sort_screen", "deals:filter_screen",
     "deals:analytics_screen", "deals_page", "deals_sort", "deals_filter_clear"}

\* deals up to its first write: the state of the FSM ends with the filter's prompt.
DealsRequest(p, b) ==
    /\ asked = None
    /\ \/ b[1] \in DealsButtons
       \/ b[1] = "deals_filter" /\ b[2] \in FilterSwitches \cup {"reset"}
    /\ asked' = [at |-> p, wants |-> Wanted(b), state |-> AfterButton(b)]
    /\ deals' = AfterButton(b)
    /\ IF b[1] \in {"deals:filter_screen", "deals_filter_clear"} THEN Clears ELSE Stays
    /\ UNCHANGED <<chat, user, premium>>

\* The screen for the offers of a page.
DealsScreen(wants, items, page, pages) ==
    CASE wants = "sort" -> <<"sort", None>>
      [] wants = "filters" -> <<"filters", None>>
      [] wants = "analytics" -> IF premium THEN <<"deals_analytics", items>>
                                           ELSE Gate(<<"deals:return", None>>)
      [] wants = "deals" -> <<"deals", <<items, page, pages>>>>

\* The rest of it: the rows, the page that there is, the second write.  Without
\* rows there is no second write, whatever was asked for.
DealsAnswer ==
    /\ asked # None /\ asked' = None
    /\ \/ user = None /\ UNCHANGED <<chat, deals>>
       \/ user # None /\ chat' = Edited(asked.at, Notice("menu:home")) /\ UNCHANGED deals
       \/ \E items \in SUBSET Offers, pages \in 1..MaxPages :
            LET page == Nearest(asked.state.page, pages) IN
            /\ HasCountry
            /\ items = {} => pages = 1
            /\ deals' = [asked.state EXCEPT !.page = page]
            /\ chat' = Edited(asked.at, DealsScreen(asked.wants, items, page, pages))
    /\ Stays /\ UNCHANGED <<user, premium>>

\* The prompt for a value, in the currency of the last offers or of the region.
deals_filter_value_start(p, b) ==
    /\ b[1] = "deals_filter" /\ b[2] \in FilterValues
    /\ fsm' = FilterSetup(b[2]) /\ country' = None /\ panel' = p
    /\ Shows(p, Ask(FilterSetup(b[2]))) /\ KeepsRows

\* Discounts are those of watched games always: the button for it only says so.
DealsTracked(p, b) == b = <<"deals_filter", "tracked">> /\ Alerts

\* The value is saved when it is a number in range: a discount of zero is none.
deals_filter_value_save ==
    LET kind == fsm.kind IN
    /\ fsm.state = "DealsFilterSetup.value"
    /\ \/ Stays /\ Shows(panel, Ask(fsm)) /\ KeepsRows
       \/ /\ \E narrowed \in {deals.narrowed \cup {kind}}
                  \cup (IF kind = "discount" THEN {deals.narrowed \ {kind}} ELSE {}) :
               deals' = [deals EXCEPT !.page = 0, !.narrowed = narrowed]
          /\ Clears /\ Shows(panel, <<"filters", None>>) /\ UNCHANGED <<user, premium>>

\* The key in redis lives for an hour.
DealsExpire == deals' = NoFilters("discount") /\ UNCHANGED <<fsm, panel, country, chat, asked, user, premium>>

-----------------------------------------------------------------------------
PremiumChanges ==
    /\ user # None
    /\ premium' = ~premium /\ UNCHANGED <<fsm, panel, country, chat, asked, user, deals>>

Press(p, b) ==
    \/ menu_home(p, b) \/ Elsewhere(p, b)
    \/ onboarding(p, b) \/ choose_region(p, b) \/ timezone_manual(p, b) \/ _finish_onboarding(p, b)
    \/ settings_view(p, b) \/ settings_questions(p, b) \/ change_language(p, b) \/ change_region(p, b)
    \/ change_timezone(p, b) \/ information(p, b) \/ information_page(p, b) \/ information_currency(p, b)
    \/ settings_quiet(p, b) \/ quiet_hours(p, b) \/ settings_digest(p, b) \/ digest_kind(p, b)
    \/ digest_others(p, b) \/ digest_time(p, b) \/ digest_weekday(p, b)
    \/ referrals_screen(p, b) \/ referral_leaderboard(p, b) \/ giveaways(p, b) \/ giveaway_types(p, b)
    \/ DealsRequest(p, b) \/ deals_filter_value_start(p, b) \/ DealsTracked(p, b)

Next ==
    /\ \/ start \/ menu \/ Commands \/ save_manual_timezone \/ deals_filter_value_save
       \/ \E p \in {"new", "old"} : \E b \in Buttons(p) : Press(p, b)
       \/ DealsAnswer \/ DealsExpire \/ PremiumChanges
    /\ Crosses

-----------------------------------------------------------------------------
(* Safety.                                                                 *)

\* The states that the handlers of a screen's buttons are registered for.
Expects(s) ==
    CASE s[1] = "language" /\ s[2] -> {Onboarding("language")}
      [] s[1] = "region_groups" /\ s[2] -> {Onboarding("region_group")}
      [] s[1] = "regions" /\ s[2] -> {Onboarding("region")}
      [] s[1] = "zone_groups" /\ s[2] -> {Onboarding("timezone_group")}
      [] s[1] = "zones" /\ s[2] -> {Onboarding("timezone")}
      [] OTHER -> {fsm}

\* A question of the onboarding that is the newest message is answered by the
\* handler of its step, unless another handler changed the dialogue since.
ButtonsAreAlive == chat.new # None /\ ~crossed => fsm \in Expects(chat.new)

\* Nobody has a region who did not go through the onboarding, with its language
\* and its record, and the onboarding asks for a time zone only of those who told
\* their region - although the same buttons lead to it from the profile.
OnboardingFirst ==
    /\ (user # None => (user.country # None => user.language /\ user.onboarded))
    /\ (\E step \in ZoneSteps : fsm = Onboarding(step)) => country # None
=============================================================================
