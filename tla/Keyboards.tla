----------------------------- MODULE Keyboards -----------------------------
(***************************************************************************)
(* Keyboards: the buttons under each message of the bot, by the builder of *)
(* bot/keyboards.py that makes them.                                       *)
(*                                                                         *)
(* A button is <<go, item>>: the callback data up to the part that varies, *)
(* and that part (a rule, a game, a region, a page, or None).  Labels and  *)
(* rows are left out, and so are links, which the bot never hears of.      *)
(***************************************************************************)
EXTENDS Integers

CONSTANT None

Plain(names) == {<<name, None>> : name \in names}
Each(name, items) == {<<name, item>> : item \in items}
Home == <<"menu:home", None>>

-----------------------------------------------------------------------------
(* Onboarding, language, region and time zone.                             *)

language_keyboard(languages) == Each("lang", languages)

region_groups_keyboard(groups, onboarding, back) ==
    Each("region_group", groups)
      \cup (IF onboarding THEN {} ELSE {Home})
      \cup (IF back /\ ~onboarding THEN Plain({"menu:settings"}) ELSE {})

region_keyboard(regions, onboarding) ==
    Each("region", regions) \cup Plain({"region_groups"})
      \cup (IF onboarding THEN {} ELSE {Home})

timezone_groups_keyboard(groups, onboarding) ==
    Each("timezone_group", groups) \cup Plain({"timezone:manual"})
      \cup (IF onboarding THEN {} ELSE {Home})

timezone_keyboard(zones, onboarding) ==
    Each("timezone", zones) \cup Plain({"timezone:manual", "timezone_groups"})
      \cup (IF onboarding THEN {} ELSE {Home})

manual_timezone_keyboard(onboarding) ==
    Plain({IF onboarding THEN "onboarding:timezone" ELSE "settings:timezone"})

-----------------------------------------------------------------------------
(* The main menu, the profile and the help.                                *)

main_keyboard ==
    Plain({"menu:search", "menu:games", "menu:deals", "menu:giveaways", "menu:premium",
           "menu:settings", "menu:referrals", "menu:info"})

profile_keyboard ==
    Plain({"settings:region", "settings:language", "settings:timezone",
           "settings:quiet", "settings:digest"}) \cup {Home}

back_keyboard(target) == IF target = "menu:home" THEN {Home} ELSE {<<target, None>>, Home}

dismiss_keyboard == Plain({"ui:close"})

referrals_keyboard == Plain({"referral:leaderboard"}) \cup {Home}

referral_leaderboard_keyboard(page, pages) ==
    Plain({"menu:referrals"})
      \cup Each("referral:leaderboard:", {p \in {page - 1, page + 1} : p \in 0..(pages - 1)})

info_keyboard(pages) == Each("info", pages) \cup {Home}

\* origin: the page whose link to Premium was pressed, or None.
info_page_keyboard(page, premium, origin) ==
    CASE page \in {"search", "start"} -> back_keyboard("menu:info") \cup Plain({"menu:search", "menu:games"})
      [] page = "discounts" -> back_keyboard("menu:info") \cup Plain({"menu:deals", "menu:games"})
                                 \cup {<<"info:premium:", page>>}
      [] page = "giveaways" -> back_keyboard("menu:info")
                                 \cup Plain({"menu:giveaways", "giveaway:settings"})
                                 \cup {<<"info:premium:", page>>}
      [] page = "analytics" -> back_keyboard("menu:info") \cup Plain({"menu:games"})
                                 \cup {<<"info:premium:", page>>}
      [] page = "region" -> back_keyboard("menu:info")
                              \cup Plain({"settings:region", "settings:comparison_currency",
                                          "settings:timezone"})
      [] page = "premium" -> {IF origin = None THEN <<"menu:info", None>> ELSE <<"info", origin>>, Home}
                               \cup (IF premium THEN Plain({"menu:premium"}) ELSE Plain({"buy"}))
                               \cup {<<"info", "plans">>}
      [] page = "plans" -> {<<"info", "premium">>, Home}
                             \cup (IF premium THEN {} ELSE Plain({"buy"}))
      [] OTHER -> back_keyboard("menu:info")

profile_currency_keyboard(currencies) ==
    Each("settings_currency", currencies) \cup {<<"info", "region">>}

-----------------------------------------------------------------------------
(* Quiet hours and digests.                                                *)

quiet_hours_keyboard ==
    Plain({"quiet:toggle", "quiet:start", "quiet:end", "settings:timezone", "menu:settings"})
      \cup {Home}

\* prefix: what the time is for, one of quiet_start, quiet_end, digest_daily, digest_weekly.
hour_keyboard(prefix, hours, back) ==
    {<<"hour", <<prefix, h>>>> : h \in hours} \cup {back, Home}

minute_keyboard(prefix, hour, minutes, back) ==
    {<<"minute", <<prefix, hour, m>>>> : m \in minutes} \cup {back, Home}

digest_keyboard ==
    Each("digest", {"daily", "weekly"})
      \cup Plain({"digest:disable_all", "digest:guide", "menu:settings"}) \cup {Home}

digest_kind_keyboard(kind) ==
    {<<"digest_toggle", kind>>, <<"digest_time", kind>>, <<"settings:digest", None>>, Home}
      \cup (IF kind = "weekly" THEN Plain({"digest:weekday"}) ELSE {})

weekday_keyboard(days) == Each("digest_weekday", days) \cup {<<"digest", "weekly">>, Home}

-----------------------------------------------------------------------------
(* Search, rules and their conditions.                                     *)

games_keyboard(games) == Each("game", games) \cup {Home}

rule_keyboard == Plain({"rule:any", "rule:discount", "rule:price", "search:results"}) \cup {Home}

watch_list_keyboard(rules) == Each("watch", rules) \cup Plain({"menu:search"}) \cup {Home}

watch_card_keyboard(rule, retry) ==
    {<<name, rule>> : name \in {"watch_edit_discount", "watch_edit_price", "watch_filters",
        "watch_notify", "premium_analytics", "premium_compare", "watch_delete"}
        \cup IF retry THEN {"watch_refresh"} ELSE {}}
      \cup Plain({"menu:games"}) \cup {Home}

premium_filters_keyboard(rule) ==
    {<<name, rule>> : name \in {"filter_value:max_price", "filter_value:min_discount",
        "filter_value:drop", "filter_toggle", "filter_repeat", "watch"}} \cup {Home}

notification_keyboard == Plain({"ui:close"})

-----------------------------------------------------------------------------
(* Premium: the offer, the gate in front of its tools, and the tools.      *)

premium_keyboard == Plain({"buy", "premium:info"}) \cup {Home}

premium_info_return_keyboard(back) == {<<"buy", None>>, back}

invoice_keyboard == Plain({"pay", "ui:close"})

active_premium_keyboard ==
    Plain({"premium:analytics", "premium:compare", "premium:manage", "premium:history",
           "premium:info"}) \cup {Home}

premium_gate_keyboard(back) == {<<"buy", None>>, <<"premium:info:", back>>, back}

premium_games_keyboard(rules, action) == Each(action, rules) \cup Plain({"menu:premium"})

analytics_keyboard(rule, back) ==
    {<<"price_history", rule>>, <<"premium_compare", rule>>, <<"watch", rule>>, back}

price_history_keyboard(rule) == {<<"price_history", rule>>, <<"premium_analytics", rule>>}

comparison_groups_keyboard(groups) ==
    Each("compare_group", groups)
      \cup Plain({"compare:currency", "compare:clear", "compare:confirm"}) \cup {Home}

comparison_regions_keyboard(group, regions) ==
    Each("compare_toggle", regions) \cup {<<"compare_all", group>>, <<"compare:groups", None>>, Home}

comparison_currency_keyboard(currencies) ==
    Each("compare_currency", currencies) \cup Plain({"compare:groups"}) \cup {Home}

comparison_result_keyboard == Plain({"compare:refresh"}) \cup {Home}

-----------------------------------------------------------------------------
(* Giveaways and deals.                                                    *)

giveaways_keyboard == Plain({"giveaway:toggle", "giveaway:settings"}) \cup {Home}

giveaway_types_keyboard(kinds) ==
    Each("giveaway_kind", kinds) \cup Each("giveaway_kinds", {"all", "none"})
      \cup Plain({"menu:giveaways"})

deals_keyboard(items, page, pages) ==
    Plain({"deals:sort_screen", "deals:filter_screen"}) \cup {Home}
      \cup (IF \E r \in items : items = {r} THEN Each("deals_analytics", items)
            ELSE IF items # {} THEN Plain({"deals:analytics_screen"}) ELSE {})
      \cup Each("deals_page", {p \in {page - 1, page + 1} : p \in 0..(pages - 1)})

deals_sort_keyboard(modes) == Each("deals_sort", modes) \cup Plain({"deals:return"})

deals_filters_keyboard(values, switches) ==
    Each("deals_filter", values \cup switches \cup {"reset"}) \cup Plain({"deals:return"})

deals_filter_input_keyboard(kind) ==
    {<<"deals_filter_clear", kind>>, <<"deals:filter_screen", None>>}

deals_analytics_keyboard(items) == Each("deals_analytics", items) \cup Plain({"deals:return"})
=============================================================================
