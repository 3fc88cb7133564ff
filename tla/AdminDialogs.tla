---------------------------- MODULE AdminDialogs ----------------------------
(***************************************************************************)
(* AdminDialogs: the screens of an administrator (bot/admin.py).           *)
(*                                                                         *)
(* Most of them open each other and leave the FSM alone, also when they    *)
(* are the way out of a prompt.  What is confirmed in the end is not on    *)
(* the button: the user, the date and the message to all are in the FSM's  *)
(* data, which handlers write before they show it.                         *)
(***************************************************************************)
EXTENDS Dialog, Sequences

CONSTANTS
    Users, Dates, Contents,
    Handlers    \* bound: handlers of the administrator in progress at once

VARIABLES
    people,     \* the rows of users
    data,       \* [user, until, content]: premium_user_id, new_until, content
    acting,     \* [Handlers -> [does, at, item]: between two steps, or None]
    offered,    \* history: what the last confirmation of the dialogue is about, or None
    overlapped  \* history: the FSM was written while another handler was about to

vars == <<fsm, panel, chat, crossed, people, data, acting, offered, overlapped>>

-----------------------------------------------------------------------------
State(name) == At(name, None, None)
Editing(u) == At("AdminUserEdit.value", u, None)
NoData == [user |-> None, until |-> None, content |-> None]

States ==
    {State(name) : name \in
        {"", "AdminPremium.search", "AdminPremium.manual_days", "AdminPremium.exact_until",
         "AdminPremium.confirm", "AdminBroadcast.content", "AdminBroadcast.confirm",
         "AdminGameRefresh.app_id", "AdminGiveaway.title", "AdminGiveaway.url"}}
      \cup {Editing(u) : u \in Users}

Close == <<"admin:close", None>>
Panel == <<"admin:panel", None>>
CardButton(u) == <<"admin_premium_user", u>>

\* The pages before and after, of the list go.
Pages(go, page, more) ==
    Each(go, {n \in {page - 1} : n >= 0}) \cup (IF more THEN {<<go, page + 1>>} ELSE {})

admin_keyboard ==
    Plain({"admin:users", "admin:premium", "admin:broadcasts", "admin:giveaways",
           "admin:sync_section", "admin:errors", "admin:referrals", "admin:system", "admin:close"})
      \cup {<<"admin_games", 0>>, <<"admin_transactions", 0>>}

admin_section_keyboard(section) ==
    {Panel, Close} \cup Plain(
      CASE section = "admin:broadcasts" -> {"admin:broadcast", "admin:deals_broadcast"}
        [] section = "admin:giveaways" -> {"admin:add_giveaway", "admin:sync"}
        [] section = "admin:sync_section" -> {"admin:sync", "admin:refresh_game"}
        [] section = "admin:system" -> {"admin:panel"})

admin_premium_root_keyboard ==
    {<<"admin_premium_users", 0>>, <<"admin:premium_search", None>>,
     <<"admin_premium_active", 0>>, Panel, Close}

admin_premium_keyboard(u, revocable) ==
    {<<name, u>> : name \in {"admin_user_edit", "admin_user_transactions", "admin_premium_add",
        "admin_premium_days", "admin_premium_exact", "admin_premium_history", "admin_user_delete"}
        \cup IF revocable THEN {"admin_premium_revoke"} ELSE {}}
      \cup Plain({"admin:premium", "admin:close"})

\* The buttons of the screens that other handlers build themselves.
Keyboard(s) ==
    LET item == s[2] IN
    CASE s[1] = "panel" -> admin_keyboard
      [] s[1] = "section" -> admin_section_keyboard(item)
      [] s[1] = "premium" -> admin_premium_root_keyboard
      [] s[1] = "back" -> {Panel, Close}
      [] s[1] = "page" -> Pages(item[1], item[2], item[3]) \cup {Panel, Close}
      [] s[1] = "users" -> Each("admin_premium_user", item[1])
                             \cup Pages("admin_users", item[2], item[3]) \cup {Panel, Close}
      [] s[1] = "subscribers" -> Each("admin_premium_user", item[1])
                             \cup Pages("admin_premium_users", item[2], item[3])
                             \cup {<<"admin:premium", None>>, Close}
      [] s[1] = "card" -> admin_premium_keyboard(item[1], item[2])
      [] s[1] = "payments" -> {<<"admin_user_transactions", item>>, CardButton(item), Close}
      [] s[1] = "history" -> {CardButton(item), Close}
      [] s[1] = "delete" -> {<<"admin_user_delete_confirm", item>>, CardButton(item), Close}
      [] s[1] = "revoke" -> {<<"admin_premium_revoke_confirm", item>>, CardButton(item), Close}
      [] s[1] = "deleted" -> {<<"admin:users", None>>, Close}
      [] s[1] = "referrals" -> {<<"admin_referrers", 0>>, <<"admin:premium_search", None>>,
                                <<"admin_referrals_recent", 0>>, Panel, Close}
      [] s[1] = "referrers" -> Each("admin_referrer", item[1])
                                 \cup Pages("admin_referrers", item[2], item[3])
                                 \cup {<<"admin:referrals", None>>, Close}
      [] s[1] = "recent" -> Pages("admin_referrals_recent", item[1], item[2])
                              \cup {<<"admin:referrals", None>>, Close}
      [] s[1] = "referrer" -> {<<"admin_referral_rewards", item>>, <<"admin_referrers", 0>>, Close}
      [] s[1] = "rewards" -> {<<"admin_referrer", item>>, Close}
      [] s[1] = "deals" -> {<<"admin:deals_broadcast_confirm", None>>, Close}
      [] s[1] = "exact" -> {<<"admin_premium_exact_confirm", None>>, CardButton(item[1]), Close}
      [] s[1] = "preview" -> Plain({"admin:broadcast_confirm", "admin:broadcast_cancel", "admin:close"})
      [] s[1] = "ask" -> {Close} \cup
           (CASE item.state = "AdminUserEdit.value" -> {CardButton(item.item)}
              [] item.state = "AdminPremium.search" -> {<<"admin:premium", None>>}
              [] item.state = "AdminBroadcast.content" -> {<<"admin:broadcast_cancel", None>>}
              [] OTHER -> {})
      [] s[1] = "done" -> {Close}
      [] OTHER -> {}   \* "text": a text alone

Nothing(v, values) == v \in values \cup {None}

TypeOK ==
    /\ fsm \in States /\ panel \in {"new", "old", None} /\ crossed \in BOOLEAN
    /\ DOMAIN chat = {"new", "old"} /\ NameOf(chat.old) \in Kept \cup {""}
    /\ people \subseteq Users /\ overlapped \in BOOLEAN
    /\ Nothing(data.user, Users) /\ Nothing(data.until, Dates) /\ Nothing(data.content, Contents)
    /\ \A h \in Handlers : acting[h] # None =>
         /\ acting[h].does \in {"days", "exact", "until", "preview", "broadcast"}
         /\ acting[h].at \in {"new", "old", None}
    /\ offered \in {None} \cup Each("exact", Users \X Dates) \cup Each("preview", Contents)

Init ==
    /\ DialogInit /\ people = Users /\ data = NoData
    /\ acting = [h \in Handlers |-> None] /\ offered = None /\ overlapped = FALSE

-----------------------------------------------------------------------------
Buttons(p) == IF chat[p] = None THEN {} ELSE Keyboard(chat[p])

\* Where handlers in progress find their message, after another one was sent.
Placed(Place(_)) == [h \in Handlers |->
    IF acting[h] = None THEN None ELSE [acting[h] EXCEPT !.at = Place(@)]]
Edits(p, screen) == chat' = (IF p = None THEN chat ELSE Edited(p, screen)) /\ UNCHANGED acting
Sends(screen) == chat' = Sent(screen) /\ acting' = Placed(Older)

\* The message at p is deleted, and the one before it uncovered.
After(p, q) == IF q = p THEN None ELSE IF p = "new" /\ q = "old" THEN "new" ELSE q

Keeps == UNCHANGED <<fsm, data, panel>>
Moves == UNCHANGED <<fsm, data>> /\ panel' = Older(panel)
Clears == fsm' = Idle /\ data' = NoData /\ panel' = None
KeepsRest == UNCHANGED people /\ offered' = IF fsm' = Idle THEN None ELSE offered

\* Every screen is for administrators; others get an alert (_deny).
Shows(p, screen) == Edits(p, screen) /\ Keeps /\ KeepsRest
Answers(screen) == Sends(screen) /\ Moves /\ KeepsRest
Ends(screen) == Sends(screen) /\ Clears /\ KeepsRest
Alerts == UNCHANGED <<fsm, panel, chat, people, data, acting, offered>>
Fails == Alerts   \* an exception: the row or the data that it needs is not there

Card(u) == <<"card", <<u, TRUE>>>>
CardsAsOf(u) == {<<"card", <<u, revocable>>>> : revocable \in BOOLEAN}

-----------------------------------------------------------------------------
(* Screens that leave the FSM as it is.                                    *)

admin_command == Answers(<<"panel", None>>)

admin_panel(p, b) == b = Panel /\ Shows(p, <<"panel", None>>)

admin_section(p, b) ==
    /\ b[1] \in {"admin:broadcasts", "admin:giveaways", "admin:sync_section", "admin:system"}
    /\ Shows(p, <<"section", b[1]>>)

run_sync(p, b) == b[1] = "admin:sync" /\ Alerts
recent_errors(p, b) == b[1] = "admin:errors" /\ Shows(p, <<"back", None>>)

\* Games and payments: a page, and whether there is another one.
admin_games(p, b) ==
    /\ b[1] \in {"admin_games", "admin_transactions"}
    /\ \E more \in {b[2] = 0, FALSE} : Shows(p, <<"page", <<b[1], b[2], more>>>>)

\* The users that the model knows are on the first page.
OnPage(page) == IF page = 0 THEN people ELSE {}

recent_users(p, b) ==
    LET page == IF b[2] = None THEN 0 ELSE b[2] IN
    /\ b[1] \in {"admin:users", "admin_users"}
    /\ \E more \in {page = 0, FALSE} : Shows(p, <<"users", <<OnPage(page), page, more>>>>)

admin_premium_root(p, b) == b[1] = "admin:premium" /\ Shows(p, <<"premium", None>>)

\* Subscribers, or all users; the buttons to other pages lead to all users.
admin_premium_users(p, b) ==
    /\ b[1] \in {"admin_premium_users", "admin_premium_active"}
    /\ \E page \in 0..b[2] : \E more \in {page = 0, FALSE},
          us \in IF b[1] = "admin_premium_active" THEN SUBSET OnPage(page) ELSE {OnPage(page)} :
         Shows(p, <<"subscribers", <<us, page, more>>>>)

admin_premium_user_open(p, b) ==
    /\ b[1] = "admin_premium_user"
    /\ IF b[2] \in people THEN \E card \in CardsAsOf(b[2]) : Shows(p, card) ELSE Alerts

\* The pages of a user's payments lead to each other.
admin_user_transactions(p, b) ==
    b[1] = "admin_user_transactions" /\ Shows(p, <<"payments", b[2]>>)

admin_premium_history(p, b) == b[1] = "admin_premium_history" /\ Shows(p, <<"history", b[2]>>)

admin_referrals(p, b) == b[1] = "admin:referrals" /\ Shows(p, <<"referrals", None>>)

admin_referrers(p, b) ==
    /\ b[1] = "admin_referrers"
    /\ \E more \in {b[2] = 0, FALSE} : Shows(p, <<"referrers", <<OnPage(b[2]), b[2], more>>>>)

admin_referrals_recent(p, b) ==
    /\ b[1] = "admin_referrals_recent"
    /\ \E more \in {b[2] = 0, FALSE} : Shows(p, <<"recent", <<b[2], more>>>>)

\* A user who is gone: an alert.
admin_referrer(p, b) ==
    /\ b[1] = "admin_referrer"
    /\ IF b[2] \in people THEN Shows(p, <<"referrer", b[2]>>) ELSE Alerts

admin_referral_rewards(p, b) == b[1] = "admin_referral_rewards" /\ Shows(p, <<"rewards", b[2]>>)

\* The broadcast of deals, which DealBroadcast is about: one at a time.
deals_broadcast(p, b) ==
    \/ b[1] = "admin:deals_broadcast" /\ Shows(p, <<"deals", None>>)
    \/ b[1] = "admin:deals_broadcast_confirm" /\ (Shows(p, <<"done", None>>) \/ Alerts)

-----------------------------------------------------------------------------
(* What the buttons of a user's card do; the days are PremiumLedger's.     *)

admin_premium_add(p, b) ==
    /\ b[1] = "admin_premium_add"
    /\ IF b[2] \in people THEN Shows(p, Card(b[2])) ELSE Fails

admin_premium_revoke(p, b) ==
    \/ b[1] = "admin_premium_revoke" /\ Shows(p, <<"revoke", b[2]>>)
    \/ /\ b[1] = "admin_premium_revoke_confirm"
       /\ IF b[2] \in people THEN Shows(p, Card(b[2])) ELSE Fails

admin_user_delete(p, b) ==
    /\ b[1] = "admin_user_delete"
    /\ IF b[2] \in people THEN Shows(p, <<"delete", b[2]>>) ELSE Alerts

admin_user_delete_execute(p, b) ==
    /\ b[1] = "admin_user_delete_confirm"
    /\ \/ b[2] \notin people /\ Alerts
       \/ /\ b[2] \in people /\ people' = people \ {b[2]}
          /\ Edits(p, <<"deleted", None>>) /\ Keeps /\ UNCHANGED offered

-----------------------------------------------------------------------------
(* The dialogues.  Only closing and a success end them.                    *)

admin_close(p, b) ==
    LET Place(q) == After(p, q) IN
    /\ b = Close /\ Clears /\ KeepsRest
    /\ chat' = Closed(p, TRUE) /\ acting' = Placed(Place)

\* A prompt in the place of the message p, and one as a new message.
Enters(p, f) == fsm' = f /\ panel' = p /\ Edits(p, Ask(f)) /\ KeepsRest
Asks(f) == fsm' = f /\ panel' = Older(panel) /\ Sends(Ask(f)) /\ UNCHANGED data /\ KeepsRest
Text(name) == fsm.state = name

admin_user_edit_start(p, b) ==
    b[1] = "admin_user_edit" /\ Enters(p, Editing(b[2])) /\ UNCHANGED data

\* A value that does not fit, or that the conditions cannot be converted for;
\* else the card takes the prompt's place, or follows when there is none.
admin_user_edit_save ==
    /\ Text("AdminUserEdit.value")
    /\ \/ Answers(<<"text", None>>)
       \/ fsm.item \notin people /\ Ends(<<"text", None>>)
       \/ fsm.item \in people /\ panel # None /\ Clears /\ Edits(panel, Card(fsm.item)) /\ KeepsRest
       \/ fsm.item \in people /\ panel = None /\ Ends(Card(fsm.item))

admin_premium_search_start(p, b) ==
    b[1] = "admin:premium_search" /\ Enters(p, State("AdminPremium.search")) /\ data' = NoData

\* The prompt goes; nobody, several users or one come as a new message.
admin_premium_search ==
    LET Place(q) == Older(After(panel, q))
        Found == {<<"done", None>>} \cup {<<"subscribers", <<us, 0, FALSE>>>> :
                     us \in {us \in SUBSET people : Cardinality(us) > 1}}
                   \cup UNION {CardsAsOf(u) : u \in people}
    IN /\ Text("AdminPremium.search")
       /\ \E screen \in Found :
            IF panel = None THEN Sends(screen)
            ELSE /\ chat' = [new |-> screen,
                             old |-> IF panel = "new" THEN chat.old ELSE Retained(chat.new, None)]
                 /\ acting' = Placed(Place)
       /\ Clears /\ KeepsRest

Act(does, at, item) == [does |-> does, at |-> at, item |-> item]
Begins(act) == \E h \in Handlers : acting[h] = None /\ acting' = [acting EXCEPT ![h] = act]
Does(h, what) == acting[h] # None /\ acting[h].does \in what

\* After h has shown its screen.
ShownBy(h, screen) ==
    /\ chat' = IF acting[h].at = None THEN chat ELSE Edited(acting[h].at, screen)
    /\ acting' = [acting EXCEPT ![h] = None]

\* update_data names the user, before the state is set.
admin_premium_manual_start(p, b) ==
    /\ b[1] \in {"admin_premium_days", "admin_premium_exact"}
    /\ data' = [data EXCEPT !.user = b[2]]
    /\ Begins(Act(IF b[1] = "admin_premium_days" THEN "days" ELSE "exact", p, None))
    /\ UNCHANGED <<fsm, panel, chat>> /\ KeepsRest

Prompt(h) ==
    State(IF Does(h, {"days"}) THEN "AdminPremium.manual_days" ELSE "AdminPremium.exact_until")

\* Mutant of ManualPrompted: the branch of the days forgets set_state.
ManualPromptedUnset(h) ==
    /\ Does(h, {"days", "exact"})
    /\ fsm' = IF Does(h, {"days"}) THEN fsm ELSE Prompt(h)
    /\ ShownBy(h, Ask(Prompt(h))) /\ UNCHANGED <<data, panel>> /\ KeepsRest

\* set_state and the prompt, which does not say whom it is about.
ManualPrompted(h) ==
    /\ Does(h, {"days", "exact"})
    /\ fsm' = Prompt(h) /\ ShownBy(h, Ask(Prompt(h)))
    /\ UNCHANGED <<data, panel>> /\ KeepsRest

\* Days in range go to the user whom the data names.
admin_premium_manual_days ==
    /\ Text("AdminPremium.manual_days")
    /\ \/ Answers(<<"done", None>>)
       \/ data.user \notin people /\ Fails
       \/ data.user \in people /\ Ends(Card(data.user))

\* The date is written, and the state set, before both are shown.
admin_premium_exact_input ==
    /\ Text("AdminPremium.exact_until")
    /\ \/ Answers(<<"done", None>>)
       \/ \E d \in Dates :
            /\ data' = [data EXCEPT !.until = d] /\ fsm' = State("AdminPremium.confirm")
            /\ Begins(Act("until", None, <<data.user, d>>))
            /\ UNCHANGED <<panel, chat>> /\ KeepsRest

\* Without a user in the data there is no message.
ExactOffered(h) ==
    LET item == acting[h].item
        others == [acting EXCEPT ![h] = None]
    IN /\ Does(h, {"until"})
       /\ IF item[1] = None
          THEN acting' = others /\ UNCHANGED <<chat, panel, offered>>
          ELSE /\ chat' = Sent(<<"exact", item>>) /\ panel' = Older(panel)
               /\ acting' = [k \in Handlers |->
                    IF others[k] = None THEN None ELSE [others[k] EXCEPT !.at = Older(@)]]
               /\ offered' = <<"exact", item>>
       /\ UNCHANGED <<fsm, data, people>>

admin_premium_exact_confirm(p, b) ==
    /\ b[1] = "admin_premium_exact_confirm"
    /\ \/ (fsm.state # "AdminPremium.confirm" \/ data.user \notin people) /\ Fails
       \/ /\ fsm.state = "AdminPremium.confirm" /\ data.user \in people
          /\ Edits(p, Card(data.user)) /\ Clears /\ KeepsRest

-----------------------------------------------------------------------------
(* A message to all users.                                                 *)

broadcast_start(p, b) ==
    b[1] = "admin:broadcast" /\ Enters(p, State("AdminBroadcast.content")) /\ UNCHANGED data

\* An empty text; else the message is written, and the state set, before the preview.
broadcast_preview ==
    /\ Text("AdminBroadcast.content")
    /\ \/ Answers(<<"done", None>>)
       \/ \E x \in Contents :
            /\ data' = [data EXCEPT !.content = x] /\ fsm' = State("AdminBroadcast.confirm")
            /\ Begins(Act("preview", panel, x))
            /\ UNCHANGED <<panel, chat>> /\ KeepsRest

PreviewShown(h) ==
    /\ Does(h, {"preview"})
    /\ ShownBy(h, <<"preview", acting[h].item>>) /\ offered' = <<"preview", acting[h].item>>
    /\ Keeps /\ UNCHANGED people

broadcast_cancel(p, b) ==
    /\ b[1] = "admin:broadcast_cancel"
    /\ Clears /\ Edits(p, <<"panel", None>>) /\ KeepsRest

\* What the data hold goes to all users, while the administrator goes on.
broadcast_confirm(p, b) ==
    /\ b[1] = "admin:broadcast_confirm"
    /\ \/ fsm.state # "AdminBroadcast.confirm" /\ Alerts
       \/ /\ fsm.state = "AdminBroadcast.confirm" /\ Clears /\ KeepsRest
          /\ Begins(Act("broadcast", p, None)) /\ chat' = Edited(p, <<"done", None>>)

BroadcastDone(h) ==
    Does(h, {"broadcast"}) /\ ShownBy(h, <<"panel", None>>) /\ Keeps /\ KeepsRest

-----------------------------------------------------------------------------
(* Refreshing a game and adding a giveaway, with prompts as new messages.  *)

refresh_game_start(p, b) == b[1] = "admin:refresh_game" /\ Asks(State("AdminGameRefresh.app_id"))

\* No number; else the game is unknown, or its prices are stored.
refresh_game ==
    Text("AdminGameRefresh.app_id") /\ (Answers(<<"done", None>>) \/ Ends(<<"done", None>>))

add_giveaway(p, b) == b[1] = "admin:add_giveaway" /\ Asks(State("AdminGiveaway.title"))
giveaway_title == Text("AdminGiveaway.title") /\ Asks(State("AdminGiveaway.url"))

\* No https link; else the giveaway is stored (AddManual of GiveawayNews).
giveaway_url ==
    Text("AdminGiveaway.url") /\ (Answers(<<"done", None>>) \/ Ends(<<"done", None>>))

-----------------------------------------------------------------------------
Press(p, b) ==
    \/ admin_panel(p, b) \/ admin_section(p, b) \/ run_sync(p, b) \/ recent_errors(p, b)
    \/ admin_games(p, b) \/ recent_users(p, b) \/ admin_premium_root(p, b) \/ admin_premium_users(p, b)
    \/ admin_premium_user_open(p, b) \/ admin_user_transactions(p, b) \/ admin_premium_history(p, b)
    \/ admin_referrals(p, b) \/ admin_referrers(p, b) \/ admin_referrals_recent(p, b)
    \/ admin_referrer(p, b) \/ admin_referral_rewards(p, b) \/ deals_broadcast(p, b)
    \/ admin_premium_add(p, b) \/ admin_premium_revoke(p, b) \/ admin_user_delete(p, b)
    \/ admin_user_delete_execute(p, b) \/ admin_close(p, b) \/ admin_user_edit_start(p, b)
    \/ admin_premium_search_start(p, b) \/ admin_premium_manual_start(p, b)
    \/ admin_premium_exact_confirm(p, b) \/ broadcast_start(p, b) \/ broadcast_cancel(p, b)
    \/ broadcast_confirm(p, b) \/ refresh_game_start(p, b) \/ add_giveaway(p, b)

\* A handler that has written, or read, the FSM and not shown its screen yet.
Between(h) == Does(h, {"days", "exact", "until", "preview"})

Overlaps ==
    overlapped' =
      IF fsm' = Idle /\ \A h \in Handlers : ~Between(h)' THEN FALSE
      ELSE overlapped \/ (/\ <<fsm, data>>' # <<fsm, data>>
                          /\ \E h \in Handlers : Between(h) /\ Between(h)')

Next ==
    /\ \/ admin_command \/ admin_user_edit_save \/ admin_premium_search
       \/ admin_premium_manual_days \/ admin_premium_exact_input \/ broadcast_preview
       \/ refresh_game \/ giveaway_title \/ giveaway_url
       \/ \E p \in {"new", "old"} : \E b \in Buttons(p) : Press(p, b)
       \/ \E h \in Handlers : ManualPrompted(h) \/ ExactOffered(h) \/ PreviewShown(h) \/ BroadcastDone(h)
    /\ Overlaps /\ UNCHANGED crossed

Spec == Init /\ [][Next]_vars

-----------------------------------------------------------------------------
\* A confirmation, whichever message it is pressed on, does what the last one to
\* be shown said: the end of Premium for the user and date that were entered, the
\* message to all that the preview shows.  No way through the screens makes the
\* data differ from it, unless a handler wrote them while another one was between
\* its own write and its message.  (admin_premium_exact_confirm, broadcast_confirm)
ConfirmsWhatWasShown ==
    ~overlapped /\ (\A h \in Handlers : ~Between(h)) =>
      /\ fsm.state = "AdminPremium.confirm" => offered = <<"exact", <<data.user, data.until>>>>
      /\ fsm.state = "AdminBroadcast.confirm" => offered = <<"preview", data.content>>
=============================================================================
