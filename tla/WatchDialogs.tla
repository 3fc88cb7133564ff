---------------------------- MODULE WatchDialogs ----------------------------
(***************************************************************************)
(* WatchDialogs: a user and the bot talk about watch rules: searching a    *)
(* game, adding a rule, its card, its conditions, and paying for Premium.  *)
(*                                                                         *)
(* _save_watch waits for the user's row and for Steam, and clears the FSM  *)
(* when it is done, whatever the user does by then.  A payment arrives as  *)
(* a message, in whatever state the dialogue is.                           *)
(*                                                                         *)
(* A rule is named by its game, of which a user has one rule at most.      *)
(* What its switches hold, its prices and alerts are PriceMonitor's.       *)
(***************************************************************************)
EXTENDS Dialog

CONSTANTS
    Games,
    Finds,     \* the sets of games that searches return; {}: nothing, or an error
    FreeLimit, PremiumLimit,   \* FREE_GAME_LIMIT, PREMIUM_GAME_LIMIT
    Saves      \* bound: calls of _save_watch in progress at once

VARIABLES
    results,   \* data["results"]: the games found, or None
    rules,     \* [Games -> "none", "set", or "bare": neither a price nor a discount]
    premium,   \* User.is_premium
    saving     \* [Saves -> what _save_watch works on, or None]

vars == <<fsm, panel, results, chat, rules, premium, saving, crossed>>

-----------------------------------------------------------------------------
Query == At("AddGame.query", None, None)
GoalKinds == {"price", "discount"}
FilterKinds == {"max_price", "min_discount", "drop"}

Dialogues ==
    {Idle, Query, At("AddGame.select", None, None)}
      \cup [state : {"AddGame.rule"}, item : Games, kind : {None}]
      \cup [state : {"AddGame.value", "EditWatch.value"}, item : Games, kind : GoalKinds]
      \cup [state : {"PremiumFilterSetup.value"}, item : Games, kind : FilterKinds]

\* The states in which a text message has a handler.
Hears(f) ==
    f.state \in {"AddGame.query", "AddGame.value", "EditWatch.value", "PremiumFilterSetup.value"}

Owned == {g \in Games : rules[g] # "none"}

\* What the constructors of keyboards put under a screen.
Keyboard(s) ==
    LET item == s[2] IN
    CASE s[1] = "main" -> main_keyboard
      [] s[1] = "list" -> watch_list_keyboard(item)
      [] s[1] = "ask" -> back_keyboard(IF item = Query THEN "menu:home" ELSE "menu:games")
      [] s[1] = "results" -> games_keyboard(item)
      [] s[1] = "rules" -> rule_keyboard
      [] s[1] = "card" -> watch_card_keyboard(item, FALSE)
      [] s[1] = "retry" -> watch_card_keyboard(item, TRUE)
      [] s[1] = "filters" -> premium_filters_keyboard(item)
      [] s[1] = "notice" -> back_keyboard(item)
      [] s[1] = "gate" -> premium_gate_keyboard(item)
      [] s[1] = "offer" -> premium_keyboard
      [] s[1] = "active" -> active_premium_keyboard
      [] s[1] = "about" -> premium_info_return_keyboard(item)
      [] s[1] = "invoice" -> invoice_keyboard
      [] s[1] = "thanks" -> dismiss_keyboard
      [] s[1] = "elsewhere" -> {Home}
      [] OTHER -> {}   \* "limit", "not_owned", "receipt": a text alone

TypeOK ==
    /\ fsm \in Dialogues /\ panel \in {"new", "old", None} /\ crossed \in BOOLEAN
    /\ DOMAIN chat = {"new", "old"} /\ NameOf(chat.old) \in Kept \cup {""}
    /\ results = None \/ results \subseteq Games
    /\ rules \in [Games -> {"none", "set", "bare"}] /\ premium \in BOOLEAN
    /\ \A s \in Saves : saving[s] # None =>
         /\ saving[s].game \in Games /\ saving[s].at \in {"new", "old", "text"}
         /\ saving[s].existing \in BOOLEAN /\ saving[s].limit \in Nat \cup {None}

Init ==
    /\ DialogInit /\ results = None /\ premium = FALSE
    /\ rules = [g \in Games |-> "none"] /\ saving = [s \in Saves |-> None]

-----------------------------------------------------------------------------
(* What the handlers do to the messages and to the FSM.                    *)

\* _save_watch knows its message, which a new message makes an older one.
SavesAt(Place(_)) == [s \in Saves |->
    IF saving[s] = None THEN None ELSE [saving[s] EXCEPT !.at = Place(@)]]
OlderSaves == SavesAt(Older)

Shows(p, screen) == chat' = Edited(p, screen) /\ saving' = saving
Sends(screen) == chat' = Sent(screen) /\ saving' = OlderSaves
ReplacePanel(screen) ==
    chat' = Replaced(screen) /\ saving' = IF panel = None THEN OlderSaves ELSE saving

\* state.clear; set_data; set_state with update_data of the panel.
Clears == fsm' = Idle /\ results' = None /\ panel' = None
SetsData(f, p) == fsm' = f /\ results' = None /\ panel' = p
Enters(f, p) == fsm' = f /\ panel' = p /\ UNCHANGED results
\* A new message that leaves the dialogue where it is.
Goes == UNCHANGED <<fsm, results>> /\ panel' = Older(panel)
Stays == UNCHANGED <<fsm, results, panel>>

KeepsUser == UNCHANGED <<rules, premium>>

\* The buttons of the message at p.  A handler of a press gets the place p of the
\* message and the button b.
Buttons(p) == IF chat[p] = None THEN {} ELSE Keyboard(chat[p])

\* A press that shows a screen and does nothing else; one that is answered by an
\* alert, or by error_handler.
Opens(p, screen) == Shows(p, screen) /\ Stays /\ KeepsUser
Alerts == UNCHANGED <<fsm, results, panel, chat, saving, rules, premium>>

PremiumScreen == <<IF premium THEN "active" ELSE "offer", None>>

-----------------------------------------------------------------------------
(* Menus and commands.                                                     *)

menu_home(p, b) == b = Home /\ Clears /\ Shows(p, <<"main", None>>) /\ KeepsUser

\* /menu and /start, /games, /premium, and the commands of other parts of the bot.
Commands ==
    /\ \E screen \in {<<"main", None>>, <<"list", Owned>>, PremiumScreen, <<"elsewhere", None>>} :
         Sends(screen)
    /\ Goes /\ KeepsUser

\* The other dialogues: settings end this one, help and deals keep it.
Elsewhere(p, b) ==
    /\ \/ b[1] = "menu:settings" /\ Clears
       \/ b[1] = "menu:info" /\ Stays
    /\ Shows(p, <<"elsewhere", None>>) /\ KeepsUser

close_current_message(p, b) ==
    /\ b[1] = "ui:close"
    /\ \E uncovers \in BOOLEAN :
         LET newer == p = "new" /\ uncovers IN
         /\ chat' = Closed(p, uncovers)
         /\ panel' = IF newer THEN Newer(panel) ELSE panel
         /\ saving' = IF newer THEN SavesAt(Newer) ELSE saving
    /\ UNCHANGED <<fsm, results>> /\ KeepsUser

my_games(p, b) == b[1] = "menu:games" /\ Opens(p, <<"list", Owned>>)

-----------------------------------------------------------------------------
(* Searching and adding.                                                   *)

search_start(p, b) ==
    /\ b[1] = "menu:search"
    /\ Enters(Query, p) /\ Shows(p, Ask(Query)) /\ KeepsUser

watch_command == Enters(Query, "new") /\ Sends(Ask(Query)) /\ KeepsUser

\* Nothing found, or an error of the search, leaves the prompt.
search_game ==
    /\ fsm.state = "AddGame.query"
    /\ \E found \in Finds :
         IF found = {} THEN /\ ReplacePanel(Ask(Query)) /\ UNCHANGED <<fsm, results>>
                       ELSE /\ fsm' = At("AddGame.select", None, None) /\ results' = found
                            /\ ReplacePanel(<<"results", found>>)
    /\ panel' = PanelAfter
    /\ KeepsUser

select_game(p, b) ==
    /\ fsm.state = "AddGame.select" /\ b[1] = "game"
    /\ \/ Alerts   \* Steam fails
       \/ /\ fsm' = At("AddGame.rule", b[2], None) /\ UNCHANGED <<results, panel>>
          /\ Shows(p, <<"rules", b[2]>>) /\ KeepsUser

\* Mutant of search_results: set_state is missing.
SearchResultsUnset(p, b) ==
    /\ b[1] = "search:results"
    /\ Opens(p, <<"results", IF results = None THEN {} ELSE results>>)

search_results(p, b) ==
    /\ b[1] = "search:results"
    /\ fsm' = At("AddGame.select", None, None) /\ UNCHANGED <<results, panel>>
    /\ Shows(p, <<"results", IF results = None THEN {} ELSE results>>) /\ KeepsUser

\* The call of _save_watch: at is the message its card goes to.
SaveOf(game, at) == [game |-> game, at |-> at, limit |-> None, existing |-> FALSE]

SaveStarts(game, at) ==
    /\ \E s \in Saves : saving[s] = None /\ saving' = [saving EXCEPT ![s] = SaveOf(game, at)]
    /\ Stays /\ UNCHANGED chat /\ KeepsUser

select_rule(p, b) ==
    /\ fsm.state = "AddGame.rule"
    /\ \/ b[1] = "rule:any" /\ SaveStarts(fsm.item, p)
       \/ \E k \in GoalKinds :
            LET next == At("AddGame.value", fsm.item, k)
            IN /\ b[1] = (IF k = "price" THEN "rule:price" ELSE "rule:discount")
               /\ Enters(next, p) /\ Shows(p, Ask(next)) /\ KeepsUser

rule_value == fsm.state = "AddGame.value" /\ SaveStarts(fsm.item, "text")

\* A value that is no number or out of range.
InvalidValue ==
    /\ Hears(fsm) /\ fsm.state # "AddGame.query"
    /\ ReplacePanel(Ask(fsm))
    /\ panel' = PanelAfter
    /\ UNCHANGED <<fsm, results>> /\ KeepsUser

\* Mutant of LockFree: the row is read without FOR UPDATE.
LockFreeUnlocked == TRUE

\* Whether the lock on the user's row is free: no save is past its check.
LockFree == \A s \in Saves : saving[s] # None => saving[s].limit = None

\* _save_watch up to its call of Steam: the row locked, the limit checked.
SaveChecks(s) ==
    LET limit == IF premium THEN PremiumLimit ELSE FreeLimit
        game == saving[s].game
    IN /\ saving[s] # None /\ saving[s].limit = None /\ LockFree
       /\ IF game \notin Owned /\ Cardinality(Owned) >= limit
          THEN chat' = Sent(<<"limit", None>>) /\ saving' = [OlderSaves EXCEPT ![s] = None] /\ Goes
          ELSE /\ saving' = [saving EXCEPT ![s].limit = limit,
                                           ![s].existing = game \in Owned]
               /\ UNCHANGED chat /\ Stays
       /\ KeepsUser

\* chat with the card of a finished save: on the message of the button, or on
\* the panel that the FSM's data names by now.
SaveCard(s, card) ==
    LET at == IF saving[s].at = "text" THEN panel ELSE saving[s].at
    IN IF at = None THEN Sent(card) ELSE Edited(at, card)

\* An existing rule that was deleted meanwhile: there is no row to update.
RuleGone(s) == saving[s].existing /\ saving[s].game \notin Owned

\* The rest of it: Steam answers or fails, the commit, the card, state.clear.
\* When the rule is gone and nothing of it would change, the card is shown too.
SaveEnds(s) ==
    /\ saving[s] # None /\ saving[s].limit # None
    /\ rules' = IF RuleGone(s) THEN rules ELSE [rules EXCEPT ![saving[s].game] = "set"]
    /\ \E name \in {"card", "retry"} : chat' = SaveCard(s, <<name, saving[s].game>>)
    /\ saving' = [(IF saving[s].at = "text" /\ panel = None THEN OlderSaves ELSE saving)
                    EXCEPT ![s] = None]
    /\ Clears /\ UNCHANGED premium

\* The update of a rule that is gone fails the commit.
SaveFails(s) ==
    /\ saving[s] # None /\ saving[s].limit # None /\ RuleGone(s)
    /\ saving' = [saving EXCEPT ![s] = None]
    /\ Stays /\ UNCHANGED chat /\ KeepsUser

-----------------------------------------------------------------------------
(* The card of a rule and the edits.                                       *)

\* _watch_card_content formats the price when there is no discount: with
\* neither it fails, and the user gets error_handler's alert.
Readable(r) == rules[r] = "set"

watch_card(p, b) ==
    LET r == b[2] IN
    /\ b[1] = "watch"
    /\ IF Readable(r) THEN Opens(p, <<"card", r>>) ELSE Alerts

watch_refresh(p, b) ==
    LET r == b[2] IN
    /\ b[1] = "watch_refresh"
    /\ \/ r \notin Owned /\ Opens(p, <<"not_owned", None>>)
       \/ rules[r] = "bare" /\ Alerts
       \/ Readable(r) /\ \E name \in {"card", "retry"} : Opens(p, <<name, r>>)

watch_notifications(p, b) ==
    LET r == b[2] IN
    /\ b[1] = "watch_notify"
    /\ \/ r \notin Owned /\ Opens(p, Notice("menu:games"))
       \/ rules[r] = "bare" /\ Alerts
       \/ Readable(r) /\ Opens(p, <<"card", r>>)

watch_delete(p, b) ==
    LET r == b[2] IN
    /\ b[1] = "watch_delete"
    /\ rules' = [rules EXCEPT ![r] = "none"]
    /\ Shows(p, Notice("menu:games")) /\ Stays /\ UNCHANGED premium

\* Mutant of AskValue: the dialogue names the game that was looked for last.
AskValueOfSearch(p, r, k) ==
    LET next == At("EditWatch.value", r, k)
    IN /\ Enters(IF fsm.item = None THEN next ELSE [next EXCEPT !.item = fsm.item], p)
       /\ Shows(p, Ask(next)) /\ KeepsUser

AskValue(p, r, k) ==
    LET next == At("EditWatch.value", r, k)
    IN Enters(next, p) /\ Shows(p, Ask(next)) /\ KeepsUser

watch_edit(p, b) ==
    \E k \in GoalKinds :
      /\ b[1] = (IF k = "price" THEN "watch_edit_price" ELSE "watch_edit_discount")
      /\ IF b[2] \notin Owned THEN Opens(p, Notice("menu:games")) ELSE AskValue(p, b[2], k)

watch_edit_value ==
    LET r == fsm.item IN
    /\ fsm.state = "EditWatch.value"
    /\ IF r \notin Owned
       THEN ReplacePanel(Notice("menu:games")) /\ UNCHANGED rules
       ELSE ReplacePanel(<<"card", r>>) /\ rules' = [rules EXCEPT ![r] = "set"]
    /\ Clears /\ UNCHANGED premium

-----------------------------------------------------------------------------
(* Premium conditions.                                                     *)

watch_filters(p, b) ==
    LET r == b[2] IN
    /\ b[1] = "watch_filters"
    /\ \/ ~premium /\ Opens(p, Gate(<<"watch", r>>))
       \/ premium /\ r \notin Owned /\ Alerts
       \/ premium /\ r \in Owned /\ Opens(p, <<"filters", r>>)

\* The switches and the repeat policy: their values are PriceMonitor's.
filter_toggle(p, b) ==
    /\ b[1] \in {"filter_toggle", "filter_repeat"}
    /\ IF premium /\ b[2] \in Owned THEN Opens(p, <<"filters", b[2]>>) ELSE Alerts

\* Mutant of filter_value_start: it gets the buttons of the switches as well.
FilterValueOfSwitch(p, b) ==
    /\ b[1] = "filter_toggle"
    /\ SetsData(At("PremiumFilterSetup.value", b[2], "new_low"), p)
    /\ Shows(p, <<"filters", b[2]>>) /\ KeepsUser

filter_value_start(p, b) ==
    \E k \in FilterKinds :
      LET next == At("PremiumFilterSetup.value", b[2], k) IN
      /\ b[1] = CASE k = "max_price" -> "filter_value:max_price"
                   [] k = "min_discount" -> "filter_value:min_discount"
                   [] k = "drop" -> "filter_value:drop"
      /\ IF premium /\ b[2] \in Owned
         THEN SetsData(next, p) /\ Shows(p, Ask(next)) /\ KeepsUser
         ELSE Alerts

\* A number above zero sets the condition; zero removes it, and the rule may be
\* left with neither a price nor a discount.
filter_value_save ==
    LET r == fsm.item IN
    /\ fsm.state = "PremiumFilterSetup.value"
    /\ \/ /\ ~premium \/ r \notin Owned
          /\ ReplacePanel(<<"offer", None>>) /\ UNCHANGED rules
       \/ /\ premium /\ r \in Owned
          /\ ReplacePanel(<<"filters", r>>)
          /\ \E after \in IF fsm.kind = "drop" THEN {rules[r]} ELSE {"set", "bare"} :
               rules' = [rules EXCEPT ![r] = after]
    /\ Clears /\ UNCHANGED premium

-----------------------------------------------------------------------------
(* Premium and the payment.                                                *)

premium_screens(p, b) ==
    \/ b[1] = "menu:premium" /\ Opens(p, PremiumScreen)
    \/ b[1] = "premium:manage" /\ Opens(p, <<"offer", None>>)
    \/ b[1] = "premium:history" /\ Opens(p, Notice("menu:premium"))
    \/ b[1] = "premium:info" /\ Opens(p, <<"about", <<"menu:premium", None>>>>)
    \/ b[1] = "premium:info:" /\ Opens(p, <<"about", b[2]>>)

buy_premium(p, b) ==
    /\ b[1] = "buy"
    /\ Sends(<<"invoice", None>>)
    /\ Goes /\ KeepsUser

\* The user pays an invoice, which Telegram turns into a receipt, and the
\* successful_payment update arrives.  In a state that hears texts it goes to
\* the handler of that state, which finds no text in it and asks again, on the
\* panel that each such state has.
Paid == [p \in {"new", "old"} |->
           IF NameOf(chat[p]) # "invoice" THEN chat[p]
           ELSE IF p = "new" THEN <<"receipt", None>> ELSE None]

payment_success ==
    /\ "invoice" \in {NameOf(chat.new), NameOf(chat.old)} /\ ~Hears(fsm)
    /\ premium' = TRUE
    /\ chat' = [new |-> <<"thanks", None>>, old |-> Retained(Paid.new, Paid.old)]
    /\ saving' = OlderSaves /\ Goes /\ UNCHANGED rules

PaymentAsText ==
    /\ "invoice" \in {NameOf(chat.new), NameOf(chat.old)} /\ Hears(fsm)
    /\ chat' = [Paid EXCEPT ![panel] = IF panel = "new" THEN Ask(fsm) ELSE Paid.old]
    /\ UNCHANGED <<fsm, results, saving, panel>> /\ KeepsUser

PremiumEnds == premium /\ premium' = FALSE /\ UNCHANGED <<fsm, results, panel, chat, saving, rules>>

-----------------------------------------------------------------------------
Press(p, b) ==
    \/ menu_home(p, b) \/ Elsewhere(p, b) \/ my_games(p, b)
    \/ search_start(p, b) \/ select_game(p, b) \/ search_results(p, b) \/ select_rule(p, b)
    \/ watch_card(p, b) \/ watch_refresh(p, b) \/ watch_notifications(p, b) \/ watch_delete(p, b)
    \/ watch_edit(p, b) \/ watch_filters(p, b) \/ filter_toggle(p, b) \/ filter_value_start(p, b)
    \/ premium_screens(p, b) \/ buy_premium(p, b)

Message ==
    \/ Commands \/ watch_command \/ search_game \/ rule_value \/ InvalidValue
    \/ watch_edit_value \/ filter_value_save \/ payment_success \/ PaymentAsText

Step ==
    \/ \E p \in {"new", "old"} : \E b \in Buttons(p) : Press(p, b)
    \/ Message
    \/ \E s \in Saves : SaveChecks(s) \/ SaveEnds(s) \/ SaveFails(s)
    \/ PremiumEnds

Next ==
    \/ Step /\ Crosses
    \/ \E p \in {"new", "old"} : \E b \in Buttons(p) : close_current_message(p, b) /\ Uncovers(p)

Spec == Init /\ [][Next]_vars

-----------------------------------------------------------------------------
(* Safety.                                                                 *)

\* The state that the handlers of some buttons of a screen are registered for,
\* and the game they act on.
Expects(s) ==
    CASE s[1] = "results" -> {At("AddGame.select", None, None)}
      [] s[1] = "rules" -> {At("AddGame.rule", s[2], None)}
      [] OTHER -> Dialogues

\* The buttons of the newest message are not dead: the dialogue is in the state
\* their handlers are registered for, and about the game shown, unless another
\* handler changed it since.
ButtonsAreAlive == chat.new # None /\ ~crossed => fsm \in Expects(chat.new)

\* A rule is added only within the limit that its check saw, however many saves
\* of the user run at once.
LimitHolds ==
    [][Owned' \subseteq Owned
       \/ \E s \in Saves : saving[s] # None /\ saving'[s] = None
                           /\ Cardinality(Owned') <= saving[s].limit]_vars

\* Paying makes the user PREMIUM.
PaymentRecorded == [][payment_success \/ PaymentAsText => premium']_vars
=============================================================================
