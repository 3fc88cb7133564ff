-------------------------- MODULE MCDialogs_proofs --------------------------
(***************************************************************************)
(* Proofs about the dialogues: their messages, their FSM and what the      *)
(* handlers of one user do to each other.                                  *)
(*                                                                         *)
(* One argument is common to the three parts.  A screen fits when what it  *)
(* says of its buttons is possible (Fits), and is alive in a state of the  *)
(* FSM when its prompt is heard and its buttons have handlers there        *)
(* (Alive).  Every step either leaves the newest message as it is or       *)
(* writes one that is alive in the state that the step leaves (Works), so  *)
(* the newest message is alive until another handler changes the FSM,      *)
(* which is what crossed records.  Each part adds what its own properties  *)
(* rest on: WatchInv, UserInv and AdminInv.                                *)
(***************************************************************************)
EXTENDS MCDialogs, FiniteSetTheorems, TLAPS

-----------------------------------------------------------------------------
(* The messages in the chat, whichever dialogue writes them.  k is the     *)
(* part that a behaviour is of.                                            *)

Places == {"new", "old"}

\* What a screen says that its buttons depend on.
WatchFits(s) ==
    /\ NameOf(s) = "results" => s[2] \subseteq Games
    /\ NameOf(s) = "notice" => s[2] \in {"menu:games", "menu:premium"}
    /\ NameOf(s) = "gate" => s[2][1] = "watch"
    /\ NameOf(s) = "about" => s[2][1] \in {"watch", "menu:premium"}

UserFits(s) ==
    /\ NameOf(s) = "section" => s[2] \in {"menu:deals", "menu:giveaways"}
    /\ NameOf(s) = "notice" => s[2] = "menu:home"
    /\ NameOf(s) \in {"gate", "about"} => s[2][1] \in {"menu:settings", "menu:giveaways", "deals:return"}
    /\ NameOf(s) = "deals" => s[2][3] \in 1..MaxPages

AdminFits(s) ==
    /\ NameOf(s) = "section" =>
         s[2] \in {"admin:broadcasts", "admin:giveaways", "admin:sync_section", "admin:system"}
    /\ NameOf(s) = "page" => s[2][1] \in {"admin_games", "admin_transactions"}
    /\ NameOf(s) = "card" => s[2][1] \in Users

Fits(k, s) ==
    /\ k = "watch" => WatchFits(s)
    /\ k = "user" => UserFits(s)
    /\ k = "admin" => AdminFits(s)

\* An older message is of a screen that stays usable.
Usable(s) == NameOf(s) \in Kept \cup {""}

ChatFits(k) ==
    /\ chat = [new |-> chat.new, old |-> chat.old]
    /\ Usable(chat.old) /\ Fits(k, chat.new) /\ Fits(k, chat.old)

\* What is retained of a message stays usable.
LEMMA RetainedFits ==
    ASSUME NEW k, NEW screen, NEW instead, Fits(k, screen), Usable(instead), Fits(k, instead)
    PROVE  Usable(Retained(screen, instead)) /\ Fits(k, Retained(screen, instead))
BY Zenon DEF Retained, Usable

\* No message is one that stays usable.
LEMMA NothingFits == ASSUME NEW k PROVE Usable(None) /\ Fits(k, None)
<1>1. NameOf(None) = ""
    BY Zenon DEF NameOf
<1>2. "" \notin {"results", "notice", "gate", "about", "section", "deals", "page", "card"}
    BY SMT
<1> QED BY <1>1, <1>2, Zenon DEF Usable, Fits, WatchFits, UserFits, AdminFits

\* chat holds the screens that it is written with.
LEMMA ChatWritten ==
    ASSUME NEW k, NEW new, NEW old, Usable(old), Fits(k, new), Fits(k, old),
           chat' = [new |-> new, old |-> old]
    PROVE  ChatFits(k)' /\ chat'.new = new
<1>1. chat'.new = new /\ chat'.old = old
    BY SMT
<1> QED BY <1>1, Zenon DEF ChatFits

\* A message that was edited is as it was, or shows the screen.
LEMMA EditedFits ==
    ASSUME NEW k, ChatFits(k), NEW p \in Places, NEW screen, Fits(k, screen),
           chat' = Edited(p, screen)
    PROVE  ChatFits(k)' /\ chat'.new \in {chat.new, screen}
<1> DEFINE left == Retained(screen, None)
<1>1. Usable(left) /\ Fits(k, left)
    BY RetainedFits, NothingFits, Zenon
<1>2. chat' = [chat EXCEPT ![p] = IF p = "new" THEN screen ELSE left]
    BY Zenon DEF Edited
<1> HIDE DEF left
<1>3. /\ Usable(chat.old) /\ Fits(k, chat.new) /\ Fits(k, chat.old)
      /\ chat = [new |-> chat.new, old |-> chat.old]
    BY Zenon DEF ChatFits
<1>4. CASE p = "new"
    <2>1. chat' = [chat EXCEPT !.new = screen]
        BY <1>2, <1>4, Zenon
    <2>2. chat' = [new |-> screen, old |-> chat.old]
        BY <1>3, <2>1, SMT
    <2> QED BY <2>2, <1>3, ChatWritten, Zenon
<1>5. CASE p = "old"
    <2>0. p # "new"
        BY <1>5, SMT
    <2>1. chat' = [chat EXCEPT !.old = left]
        BY <1>2, <1>5, <2>0, Zenon
    <2>2. chat' = [new |-> chat.new, old |-> left]
        BY <1>3, <2>1, SMT
    <2> QED BY <2>2, <1>1, <1>3, ChatWritten, Zenon
<1> QED BY <1>4, <1>5, Zenon DEF Places

\* A new message leaves another one that is kept, or none.
LEMMA WrittenFits ==
    ASSUME NEW k, ChatFits(k), NEW screen, Fits(k, screen), NEW instead, instead \in {chat.old, None},
           chat' = [new |-> screen, old |-> Retained(chat.new, instead)]
    PROVE  ChatFits(k)' /\ chat'.new = screen
<1>1. Usable(instead) /\ Fits(k, instead)
    BY NothingFits, Zenon DEF ChatFits
<1>2. /\ Usable(Retained(chat.new, instead))
      /\ Fits(k, Retained(chat.new, instead))
    BY <1>1, RetainedFits, Zenon DEF ChatFits
<1> QED BY <1>2, ChatWritten, Zenon

LEMMA SentFits ==
    ASSUME NEW k, ChatFits(k), NEW screen, Fits(k, screen), chat' = Sent(screen)
    PROVE  ChatFits(k)' /\ chat'.new = screen
<1>1. chat' = [new |-> screen, old |-> Retained(chat.new, chat.old)]
    BY Zenon DEF Sent
<1> QED BY <1>1, WrittenFits, Zenon

\* The message that is uncovered was the older one, or is not known.
LEMMA ClosedFits ==
    ASSUME NEW k, ChatFits(k), NEW p \in Places, NEW uncovers \in BOOLEAN, chat' = Closed(p, uncovers)
    PROVE  ChatFits(k)' /\ (p = "old" => chat'.new = chat.new)
<1>1. /\ Usable(chat.old) /\ Fits(k, chat.new) /\ Fits(k, chat.old)
      /\ chat = [new |-> chat.new, old |-> chat.old]
    BY Zenon DEF ChatFits
<1>2. Usable(None) /\ Fits(k, None)
    BY NothingFits, Zenon
<1>3. CASE p = "old"
    <2>1. chat' = [new |-> chat.new, old |-> None]
        BY <1>1, <1>3, SMT DEF Closed
    <2> QED BY <2>1, <1>1, <1>2, ChatWritten, Zenon
<1>4. CASE p = "new" /\ uncovers
    <2>1. chat' = [new |-> chat.old, old |-> None]
        BY <1>4, SMT DEF Closed
    <2> QED BY <2>1, <1>1, <1>2, <1>4, ChatWritten, SMT
<1>5. CASE p = "new" /\ ~uncovers
    <2>1. chat' = [new |-> None, old |-> chat.old]
        BY <1>1, <1>5, SMT DEF Closed
    <2> QED BY <2>1, <1>1, <1>2, <1>5, ChatWritten, SMT
<1> QED BY <1>3, <1>4, <1>5, Zenon DEF Places

LEMMA KeptFits == ASSUME NEW k, ChatFits(k), chat' = chat PROVE ChatFits(k)'
BY Zenon DEF ChatFits

LEMMA FirstFits ==
    ASSUME NEW k, NEW screen, Fits(k, screen), chat = [new |-> screen, old |-> None]
    PROVE  ChatFits(k) /\ chat.new = screen
<1>1. chat.new = screen /\ chat.old = None
    BY SMT
<1>2. Usable(None) /\ Fits(k, None)
    BY NothingFits, Zenon
<1> QED BY <1>1, <1>2, Zenon DEF ChatFits

\* What TypeOK of each dialogue says about the chat.
LEMMA ChatTyped ==
    ASSUME NEW k, ChatFits(k)
    PROVE  DOMAIN chat = {"new", "old"} /\ NameOf(chat.old) \in Kept \cup {""}
<1>1. DOMAIN [new |-> chat.new, old |-> chat.old] = {"new", "old"}
    BY SMT
<1> QED BY <1>1, Zenon DEF ChatFits, Usable

LEMMA NameIs == ASSUME NEW name, NEW item PROVE NameOf(<<name, item>>) \in {"", name}
BY SMT DEF NameOf

\* A screen that works in the dialogue f: its prompt is heard, its buttons have
\* their handlers.
Alive(k, s, f) ==
    /\ k # "admin" => (NameOf(s) = "ask" => s[2] = f)
    /\ k = "watch" =>
         /\ NameOf(s) = "results" => f = Watch!At("AddGame.select", None, None)
         /\ NameOf(s) = "rules" => f = Watch!At("AddGame.rule", s[2], None)
    /\ k = "user" =>
         /\ NameOf(s) = "language" /\ s[2] => f = User!Onboarding("language")
         /\ NameOf(s) = "region_groups" /\ s[2] => f = User!Onboarding("region_group")
         /\ NameOf(s) = "regions" /\ s[2] => f = User!Onboarding("region")
         /\ NameOf(s) = "zone_groups" /\ s[2] => f = User!Onboarding("timezone_group")
         /\ NameOf(s) = "zones" /\ s[2] => f = User!Onboarding("timezone")

Good(k, s, f) == Fits(k, s) /\ Alive(k, s, f)

\* The newest message is as it was, or works.
Works(k) == chat'.new = chat.new \/ Alive(k, chat'.new, fsm')

LEMMA AliveNext ==
    ASSUME NEW k, ~crossed => Alive(k, chat.new, fsm), Works(k), NEW moved, moved = chat'.new,
           crossed' = (moved = chat.new /\ (crossed \/ fsm' # fsm))
    PROVE  crossed' \in BOOLEAN /\ (~crossed' => Alive(k, chat'.new, fsm'))
<1>1. crossed' \in BOOLEAN
    BY Zenon
<1>2. ASSUME ~crossed' PROVE Alive(k, chat'.new, fsm')
    <2>1. CASE moved # chat.new
        BY <2>1, Zenon DEF Works
    <2>2. CASE moved = chat.new
        <3>1. ~crossed /\ fsm' = fsm
            BY <1>2, <2>2, Zenon
        <3> QED BY <2>2, <3>1, Zenon
    <2> QED BY <2>1, <2>2, Zenon
<1> QED BY <1>1, <1>2, Zenon

-----------------------------------------------------------------------------
(* Administrators: the screens and their buttons.                          *)

LEMMA AdminPlain ==
    ASSUME NEW name, NEW item, name \notin {"section", "page", "card"}
    PROVE  Fits("admin", <<name, item>>)
<1>1. NameOf(<<name, item>>) \in {"", name}
    BY NameIs, Zenon
<1>2. "" \notin {"section", "page", "card"} /\ "admin" \notin {"watch", "user"}
    BY SMT
<1> QED BY <1>1, <1>2, Zenon DEF Fits, AdminFits

LEMMA CardFits == ASSUME NEW u \in Users, NEW r PROVE Fits("admin", <<"card", <<u, r>>>>)
<1>1. /\ NameOf(<<"card", <<u, r>>>>) \in {"", "card"}
      /\ <<"card", <<u, r>>>>[2][1] = u
    BY SMT DEF NameOf
<1>2. {"", "card"} \cap {"section", "page"} = {} /\ "admin" \notin {"watch", "user"}
    BY SMT
<1> QED BY <1>1, <1>2, Zenon DEF Fits, AdminFits

LEMMA SectionFits ==
    ASSUME NEW name \in {"admin:broadcasts", "admin:giveaways", "admin:sync_section", "admin:system"}
    PROVE  Fits("admin", <<"section", name>>)
<1>1. /\ NameOf(<<"section", name>>) \in {"", "section"}
      /\ <<"section", name>>[2] = name
    BY SMT DEF NameOf
<1>2. {"", "section"} \cap {"card", "page"} = {} /\ "admin" \notin {"watch", "user"}
    BY SMT
<1> QED BY <1>1, <1>2, Zenon DEF Fits, AdminFits

LEMMA PageFits ==
    ASSUME NEW name \in {"admin_games", "admin_transactions"}, NEW page, NEW more
    PROVE  Fits("admin", <<"page", <<name, page, more>>>>)
<1>1. /\ NameOf(<<"page", <<name, page, more>>>>) \in {"", "page"}
      /\ <<"page", <<name, page, more>>>>[2][1] = name
    BY SMT DEF NameOf
<1>2. {"", "page"} \cap {"card", "section"} = {} /\ "admin" \notin {"watch", "user"}
    BY SMT
<1> QED BY <1>1, <1>2, Zenon DEF Fits, AdminFits

\* The buttons that name the user whom a dialogue will be about.
NamesUser(b) == b[1] = "admin_premium_days" \/ b[1] = "admin_premium_exact" \/ b[1] = "admin_user_edit"

\* They are on the card of a user.
LEMMA NamedByCards ==
    ASSUME NEW s, Fits("admin", s), s # None, NEW b \in Admin!Keyboard(s), NamesUser(b)
    PROVE  b[2] \in Users
<1> USE DEF NamesUser
<1>1. CASE s[1] = "panel"
    BY <1>1, SMT DEF Admin!Keyboard, Admin!Plain, Admin!Each, Admin!Pages, Admin!Close, Admin!Panel, Admin!CardButton, Admin!admin_keyboard
<1>2. CASE s[1] = "section"
    <2>1. NameOf(s) = "section"
        BY <1>2, Zenon DEF NameOf
    <2>2. s[2] \in {"admin:broadcasts", "admin:giveaways", "admin:sync_section", "admin:system"}
        BY <2>1, Zenon DEF Fits, AdminFits
    <2>3. Admin!Keyboard(s) = Admin!admin_section_keyboard(s[2])
        BY <1>2, SMT DEF Admin!Keyboard, Admin!Plain, Admin!Each, Admin!Pages, Admin!Close, Admin!Panel, Admin!CardButton
    <2> QED BY <2>2, <2>3, SMT DEF Admin!Plain, Admin!Each, Admin!Pages, Admin!Close, Admin!Panel, Admin!CardButton, Admin!admin_section_keyboard
<1>3. CASE s[1] = "premium"
    BY <1>3, SMT DEF Admin!Keyboard, Admin!Plain, Admin!Each, Admin!Pages, Admin!Close, Admin!Panel, Admin!CardButton, Admin!admin_premium_root_keyboard
<1>4. CASE s[1] = "back"
    BY <1>4, SMT DEF Admin!Keyboard, Admin!Plain, Admin!Each, Admin!Pages, Admin!Close, Admin!Panel, Admin!CardButton
<1>5. CASE s[1] = "page"
    <2>1. NameOf(s) = "page"
        BY <1>5, Zenon DEF NameOf
    <2>2. s[2][1] \in {"admin_games", "admin_transactions"}
        BY <2>1, Zenon DEF Fits, AdminFits
    <2>3. Admin!Keyboard(s) = Admin!Pages(s[2][1], s[2][2], s[2][3]) \cup {Admin!Panel, Admin!Close}
        BY <1>5, SMT DEF Admin!Keyboard, Admin!Plain, Admin!Each, Admin!Pages, Admin!Close, Admin!Panel, Admin!CardButton
    <2> QED BY <2>2, <2>3, SMT DEF Admin!Plain, Admin!Each, Admin!Pages, Admin!Close, Admin!Panel, Admin!CardButton
<1>6. CASE s[1] = "users"
    BY <1>6, SMT DEF Admin!Keyboard, Admin!Plain, Admin!Each, Admin!Pages, Admin!Close, Admin!Panel, Admin!CardButton
<1>7. CASE s[1] = "subscribers"
    BY <1>7, SMT DEF Admin!Keyboard, Admin!Plain, Admin!Each, Admin!Pages, Admin!Close, Admin!Panel, Admin!CardButton
<1>8. CASE s[1] = "card"
    <2>1. NameOf(s) = "card"
        BY <1>8, Zenon DEF NameOf
    <2>2. s[2][1] \in Users
        BY <2>1, Zenon DEF Fits, AdminFits
    <2>3. Admin!Keyboard(s) = Admin!admin_premium_keyboard(s[2][1], s[2][2])
        BY <1>8, SMT DEF Admin!Keyboard, Admin!admin_premium_keyboard, Admin!Plain, Admin!Each, Admin!Pages, Admin!Close, Admin!Panel, Admin!CardButton
    <2> QED BY <2>2, <2>3, SMT DEF Admin!Plain, Admin!Each, Admin!Pages, Admin!Close, Admin!Panel, Admin!CardButton, Admin!admin_premium_keyboard
<1>9. CASE s[1] = "payments"
    BY <1>9, SMT DEF Admin!Keyboard, Admin!Plain, Admin!Each, Admin!Pages, Admin!Close, Admin!Panel, Admin!CardButton
<1>10. CASE s[1] = "history"
    BY <1>10, SMT DEF Admin!Keyboard, Admin!Plain, Admin!Each, Admin!Pages, Admin!Close, Admin!Panel, Admin!CardButton
<1>11. CASE s[1] = "delete"
    BY <1>11, SMT DEF Admin!Keyboard, Admin!Plain, Admin!Each, Admin!Pages, Admin!Close, Admin!Panel, Admin!CardButton
<1>12. CASE s[1] = "revoke"
    BY <1>12, SMT DEF Admin!Keyboard, Admin!Plain, Admin!Each, Admin!Pages, Admin!Close, Admin!Panel, Admin!CardButton
<1>13. CASE s[1] = "deleted"
    BY <1>13, SMT DEF Admin!Keyboard, Admin!Plain, Admin!Each, Admin!Pages, Admin!Close, Admin!Panel, Admin!CardButton
<1>14. CASE s[1] = "referrals"
    BY <1>14, SMT DEF Admin!Keyboard, Admin!Plain, Admin!Each, Admin!Pages, Admin!Close, Admin!Panel, Admin!CardButton
<1>15. CASE s[1] = "referrers"
    BY <1>15, SMT DEF Admin!Keyboard, Admin!Plain, Admin!Each, Admin!Pages, Admin!Close, Admin!Panel, Admin!CardButton
<1>16. CASE s[1] = "recent"
    BY <1>16, SMT DEF Admin!Keyboard, Admin!Plain, Admin!Each, Admin!Pages, Admin!Close, Admin!Panel, Admin!CardButton
<1>17. CASE s[1] = "referrer"
    BY <1>17, SMT DEF Admin!Keyboard, Admin!Plain, Admin!Each, Admin!Pages, Admin!Close, Admin!Panel, Admin!CardButton
<1>18. CASE s[1] = "rewards"
    BY <1>18, SMT DEF Admin!Keyboard, Admin!Plain, Admin!Each, Admin!Pages, Admin!Close, Admin!Panel, Admin!CardButton
<1>19. CASE s[1] = "deals"
    BY <1>19, SMT DEF Admin!Keyboard, Admin!Plain, Admin!Each, Admin!Pages, Admin!Close, Admin!Panel, Admin!CardButton
<1>20. CASE s[1] = "exact"
    BY <1>20, SMT DEF Admin!Keyboard, Admin!Plain, Admin!Each, Admin!Pages, Admin!Close, Admin!Panel, Admin!CardButton
<1>21. CASE s[1] = "preview"
    BY <1>21, SMT DEF Admin!Keyboard, Admin!Plain, Admin!Each, Admin!Pages, Admin!Close, Admin!Panel, Admin!CardButton
<1>22. CASE s[1] = "ask"
    BY <1>22, SMT DEF Admin!Keyboard, Admin!Plain, Admin!Each, Admin!Pages, Admin!Close, Admin!Panel, Admin!CardButton
<1>23. CASE s[1] = "done"
    BY <1>23, SMT DEF Admin!Keyboard, Admin!Plain, Admin!Each, Admin!Pages, Admin!Close, Admin!Panel, Admin!CardButton
<1>24. CASE /\ s[1] # "panel"
           /\ s[1] # "section"
           /\ s[1] # "premium"
           /\ s[1] # "back"
           /\ s[1] # "page"
           /\ s[1] # "users"
           /\ s[1] # "subscribers"
           /\ s[1] # "card"
           /\ s[1] # "payments"
           /\ s[1] # "history"
           /\ s[1] # "delete"
           /\ s[1] # "revoke"
           /\ s[1] # "deleted"
           /\ s[1] # "referrals"
           /\ s[1] # "referrers"
           /\ s[1] # "recent"
           /\ s[1] # "referrer"
           /\ s[1] # "rewards"
           /\ s[1] # "deals"
           /\ s[1] # "exact"
           /\ s[1] # "preview"
           /\ s[1] # "ask"
           /\ s[1] # "done"
    <2>1. Admin!Keyboard(s) = {}
        BY <1>24, Zenon DEF Admin!Keyboard
    <2> QED BY <2>1, Zenon
<1> QED BY <1>1, <1>2, <1>3, <1>4, <1>5, <1>6, <1>7, <1>8, <1>9, <1>10, <1>11, <1>12, <1>13, <1>14, <1>15, <1>16, <1>17, <1>18, <1>19, <1>20, <1>21, <1>22, <1>23, <1>24, Zenon

-----------------------------------------------------------------------------
(* What an administrator confirms.  Handlers of the administrator that     *)
(* write the FSM's data before they show it are why the property is not    *)
(* inductive: what each of them will show has to be what the data say.     *)

\* A handler between two of its steps.
Busy(act) == act # None /\ act.does \in {"days", "exact", "until", "preview"}

\* What such a handler will show is what the dialogue is about.
ActSays(act) ==
    /\ act.does \in {"days", "exact"} => data.user # None
    /\ act.does = "until" =>
         /\ fsm.state = "AdminPremium.confirm" /\ data.user # None
         /\ act.item = <<data.user, data.until>>
    /\ act.does = "preview" => fsm.state = "AdminBroadcast.confirm" /\ act.item = data.content

\* Whom the dialogue is about is known once it waits for days, a date or its confirmation.
UserKnown ==
    fsm.state \in {"AdminPremium.manual_days", "AdminPremium.exact_until", "AdminPremium.confirm"} =>
      data.user # None

Confirmable ==
    /\ fsm.state = "AdminPremium.confirm" => offered = <<"exact", <<data.user, data.until>>>>
    /\ fsm.state = "AdminBroadcast.confirm" => offered = <<"preview", data.content>>

Truthful ==
    /\ \A h \in Handlers : Busy(acting[h]) => ActSays(acting[h])
    /\ UserKnown
    /\ (\A h \in Handlers : ~Busy(acting[h])) => Confirmable

\* The states in which the data matter.
Waiting == {"AdminPremium.manual_days", "AdminPremium.exact_until", "AdminPremium.confirm",
            "AdminBroadcast.confirm"}

\* No handler begins or ends; their messages may move.
SameActs ==
    \A h \in Handlers :
      \/ ~Busy(acting[h]) /\ ~Busy(acting'[h])
      \/ /\ Busy(acting[h]) /\ Busy(acting'[h])
         /\ acting'[h].does = acting[h].does /\ acting'[h].item = acting[h].item

LEMMA BetweenIs == ASSUME NEW h PROVE Admin!Between(h) <=> Busy(acting[h])
BY Zenon DEF Admin!Between, Admin!Does, Busy

\* What makes a step an overlapping one.
LEMMA Overlapping ==
    ASSUME Admin!Overlaps, ~overlapped', NEW h \in Handlers, Busy(acting[h]), Busy(acting'[h])
    PROVE  ~overlapped /\ fsm' = fsm /\ data' = data
<1>1. Admin!Between(h) /\ Admin!Between(h)'
    BY Zenon DEF Admin!Between, Admin!Does, Busy
<1>2. overlapped' = (overlapped \/ (/\ <<fsm, data>>' # <<fsm, data>>
                                    /\ \E k \in Handlers : Admin!Between(k) /\ Admin!Between(k)'))
    BY <1>1, Zenon DEF Admin!Overlaps
<1>3. ~overlapped
    BY <1>2, Zenon
<1>4. <<fsm, data>>' = <<fsm, data>>
    BY <1>1, <1>2, Zenon
<1>5. fsm' = fsm /\ data' = data
    BY <1>4, SMT
<1> QED BY <1>3, <1>5, Zenon

\* Without a handler between two steps, no step is.
LEMMA Alone ==
    ASSUME Admin!Overlaps, ~overlapped', fsm'.state \in Waiting, \A h \in Handlers : ~Busy(acting[h])
    PROVE  ~overlapped
<1>1. fsm' # Admin!Idle
    <2>1. Admin!Idle.state = ""
        BY SMT DEF Admin!Idle, Admin!At
    <2>2. "" \notin Waiting
        BY SMT DEF Waiting
    <2> QED BY <2>1, <2>2, Zenon
<1>2. ~\E h \in Handlers : Admin!Between(h) /\ Admin!Between(h)'
    BY BetweenIs, Zenon
<1>3. overlapped' = (overlapped \/ (/\ <<fsm, data>>' # <<fsm, data>>
                                    /\ \E k \in Handlers : Admin!Between(k) /\ Admin!Between(k)'))
    BY <1>1, Zenon DEF Admin!Overlaps
<1> QED BY <1>2, <1>3, Zenon

\* A step in which no handler begins or ends is harmless, unless it leads into one
\* of the states that wait.
LEMMA SameTruth ==
    ASSUME ~overlapped => Truthful, SameActs, Admin!Overlaps, ~overlapped',
           \/ fsm'.state \notin Waiting
           \/ UNCHANGED <<fsm, data, offered>>
    PROVE  Truthful'
<1>1. CASE \E h \in Handlers : Busy(acting[h])
    <2>1. PICK h \in Handlers : Busy(acting[h])
        BY <1>1, Zenon
    <2>2. Busy(acting'[h])
        BY <2>1, Zenon DEF SameActs
    <2>3. ~overlapped /\ fsm' = fsm /\ data' = data
        BY <2>1, <2>2, Overlapping, Zenon
    <2>4. ASSUME NEW g \in Handlers, Busy(acting'[g])
          PROVE  ActSays(acting[g])'
        <3>1. /\ Busy(acting[g])
              /\ acting'[g].does = acting[g].does /\ acting'[g].item = acting[g].item
            BY <2>4, Zenon DEF SameActs
        <3>2. ActSays(acting[g])
            BY <2>3, <3>1, Zenon DEF Truthful
        <3> QED BY <2>3, <3>1, <3>2, Zenon DEF ActSays
    <2>5. UserKnown'
        BY <2>3, Zenon DEF Truthful, UserKnown
    <2>6. (\A g \in Handlers : Busy(acting[g]) => ActSays(acting[g]))'
        BY <2>4, Zenon
    <2> QED BY <2>2, <2>5, <2>6, Zenon DEF Truthful
<1>2. CASE \A h \in Handlers : ~Busy(acting[h])
    <2>1. \A h \in Handlers : ~Busy(acting'[h])
        BY <1>2, Zenon DEF SameActs
    <2>2. CASE fsm'.state \notin Waiting
        <3>1. UserKnown' /\ Confirmable'
            BY <2>2, Zenon DEF UserKnown, Confirmable, Waiting
        <3> QED BY <2>1, <3>1, Zenon DEF Truthful
    <2>3. CASE fsm'.state \in Waiting
        <3>1. ~overlapped /\ UNCHANGED <<fsm, data, offered>>
            BY <1>2, <2>3, Alone, Zenon
        <3>2. UserKnown /\ Confirmable
            BY <1>2, <3>1, Zenon DEF Truthful
        <3>3. fsm' = fsm /\ data' = data /\ offered' = offered
            BY <3>1, Zenon
        <3>4. UserKnown' /\ Confirmable'
            BY <3>2, <3>3, Zenon DEF UserKnown, Confirmable
        <3> QED BY <2>1, <3>4, Zenon DEF Truthful
    <2> QED BY <2>2, <2>3, Zenon
<1> QED BY <1>1, <1>2, Zenon

-----------------------------------------------------------------------------
(* The types, and the handlers in progress.                                *)

Data == [user : Users \cup {None}, until : Dates \cup {None}, content : Contents \cup {None}]

Offered == {None} \cup Admin!Each("exact", Users \X Dates) \cup Admin!Each("preview", Contents)

ActsTyped == acting \in [Handlers -> Acts \cup {None}]

AdminTypes ==
    /\ fsm \in Admin!States /\ panel \in {"new", "old", None} /\ ChatFits("admin")
    /\ people \subseteq Users /\ data \in Data /\ ActsTyped /\ offered \in Offered

AdminInv ==
    /\ AdminTypes /\ crossed \in BOOLEAN /\ overlapped \in BOOLEAN
    /\ ~overlapped => Truthful

LEMMA ActsAre == ASSUME ActsTyped PROVE acting = [h \in Handlers |-> acting[h]]
BY Zenon DEF ActsTyped

LEMMA ActIs == ASSUME ActsTyped, NEW h \in Handlers PROVE acting[h] \in Acts \cup {None}
BY Zenon DEF ActsTyped

LEMMA ActsWritten ==
    ASSUME acting' = [h \in Handlers |-> acting'[h]],
           \A h \in Handlers : acting'[h] \in Acts \cup {None}
    PROVE  ActsTyped'
BY Zenon DEF ActsTyped

LEMMA ActsKept == ASSUME ActsTyped, acting' = acting PROVE ActsTyped' /\ SameActs
BY Zenon DEF ActsTyped, SameActs

\* A handler elsewhere is a handler still.
LEMMA ActElsewhere ==
    ASSUME NEW act \in Acts, NEW q \in {"new", "old", None}
    PROVE  /\ [act EXCEPT !.at = q] \in Acts /\ [act EXCEPT !.at = q] # None
           /\ [act EXCEPT !.at = q].does = act.does /\ [act EXCEPT !.at = q].item = act.item
<1>1. [act EXCEPT !.at = q] = [does |-> act.does, at |-> q, item |-> act.item]
    BY SMT DEF Acts
<1>2. [act EXCEPT !.at = q] \in Acts
    BY <1>1, SMT DEF Acts
<1>3. /\ [act EXCEPT !.at = q].does = act.does
      /\ [act EXCEPT !.at = q].item = act.item
    BY <1>1, SMT
<1> QED BY <1>2, <1>3, DialogsAssumption, Zenon

\* Handlers whose messages have moved.
LEMMA ActsMoved ==
    ASSUME ActsTyped, NEW Place, acting' = [h \in Handlers |->
               IF acting[h] = None THEN None ELSE [acting[h] EXCEPT !.at = Place[h]]],
           \A h \in Handlers : acting[h] # None => Place[h] \in {"new", "old", None}
    PROVE  ActsTyped' /\ SameActs
<1>1. ASSUME NEW h \in Handlers
      PROVE  /\ acting'[h] \in Acts \cup {None}
             /\ \/ ~Busy(acting[h]) /\ ~Busy(acting'[h])
                \/ /\ Busy(acting[h]) /\ Busy(acting'[h])
                   /\ acting'[h].does = acting[h].does /\ acting'[h].item = acting[h].item
    <2>1. CASE acting[h] = None
        BY <2>1, Zenon DEF Busy
    <2>2. CASE acting[h] # None
        <3>1. acting'[h] = [acting[h] EXCEPT !.at = Place[h]] /\ acting[h] \in Acts
            BY <2>2, ActIs, Zenon
        <3> QED BY <2>2, <3>1, ActElsewhere, Zenon DEF Busy
    <2> QED BY <2>1, <2>2, Zenon
<1>2. acting' = [h \in Handlers |-> acting'[h]]
    BY Zenon
<1> QED BY <1>1, <1>2, ActsWritten, Zenon DEF SameActs

\* A handler begins, for which there is a place.
LEMMA ActBegins ==
    ASSUME ActsTyped, NEW act \in Acts, Admin!Begins(act)
    PROVE  /\ ActsTyped'
           /\ \E k \in Handlers :
                /\ acting[k] = None /\ acting'[k] = act
                /\ \A h \in Handlers \ {k} : acting'[h] = acting[h]
<1>1. PICK k \in Handlers : acting[k] = None /\ acting' = [acting EXCEPT ![k] = act]
    BY Zenon DEF Admin!Begins
<1>2. acting = [h \in Handlers |-> acting[h]]
    BY ActsAre, Zenon
<1>3. acting' = [h \in Handlers |-> acting'[h]] /\ acting'[k] = act
    BY <1>1, <1>2, SMT
<1>4. \A h \in Handlers \ {k} : acting'[h] = acting[h]
    BY <1>1, <1>2, SMT
<1>5. \A h \in Handlers : acting'[h] \in Acts \cup {None}
    BY <1>3, <1>4, ActIs, Zenon
<1> QED BY <1>1, <1>3, <1>4, <1>5, ActsWritten, Zenon

\* A handler ends.
LEMMA ActEnds ==
    ASSUME ActsTyped, NEW k \in Handlers, acting' = [acting EXCEPT ![k] = None]
    PROVE  ActsTyped' /\ acting'[k] = None /\ \A h \in Handlers \ {k} : acting'[h] = acting[h]
<1>1. acting = [h \in Handlers |-> acting[h]]
    BY ActsAre, Zenon
<1>2. acting' = [h \in Handlers |-> acting'[h]] /\ acting'[k] = None
    BY <1>1, SMT
<1>3. \A h \in Handlers \ {k} : acting'[h] = acting[h]
    BY <1>1, SMT
<1>4. \A h \in Handlers : acting'[h] \in Acts \cup {None}
    BY <1>2, <1>3, ActIs, Zenon
<1> QED BY <1>2, <1>3, <1>4, ActsWritten, Zenon

LEMMA ActAt == ASSUME NEW act \in Acts PROVE act.at \in {"new", "old", None}
BY SMT DEF Acts

LEMMA ActsOlder ==
    ASSUME ActsTyped, NEW screen, Admin!Sends(screen)
    PROVE  ActsTyped' /\ SameActs
<1> DEFINE Place == [h \in Handlers |-> Admin!Older(acting[h].at)]
<1>1. acting' = [h \in Handlers |->
          IF acting[h] = None THEN None ELSE [acting[h] EXCEPT !.at = Admin!Older(acting[h].at)]]
    BY Zenon DEF Admin!Sends, Admin!Placed
<1>2. acting' = [h \in Handlers |->
          IF acting[h] = None THEN None ELSE [acting[h] EXCEPT !.at = Place[h]]]
    BY <1>1, Zenon
<1>3. \A h \in Handlers : acting[h] # None => Place[h] \in {"new", "old", None}
    BY ActIs, ActAt, Zenon DEF Admin!Older
<1> HIDE DEF Place
<1> QED BY <1>2, <1>3, ActsMoved, Zenon

\* Dialog's operators, as the instance of the administrators knows them.
LEMMA AdminEdits == ASSUME NEW p, NEW s PROVE Admin!Edited(p, s) = Edited(p, s)
BY Zenon DEF Admin!Edited, Edited, Admin!Retained, Retained, Admin!NameOf, NameOf

LEMMA AdminSent == ASSUME NEW s PROVE Admin!Sent(s) = Sent(s)
BY Zenon DEF Admin!Sent, Sent, Admin!Retained, Retained, Admin!NameOf, NameOf

LEMMA AdminCloses == ASSUME NEW p, NEW u PROVE Admin!Closed(p, u) = Closed(p, u)
BY Zenon DEF Admin!Closed, Closed

-----------------------------------------------------------------------------
(* The steps of the administrators that begin or end nothing.              *)

\* What such a step has to show.
AdminMoved ==
    /\ AdminTypes' /\ SameActs
    /\ fsm'.state \notin Waiting \/ UNCHANGED <<fsm, data, offered>>

LEMMA NotWaiting == Admin!Idle \in Admin!States /\ Admin!Idle.state \notin Waiting
<1>1. Admin!Idle = Admin!State("") /\ Admin!Idle.state = ""
    BY SMT DEF Admin!Idle, Admin!At, Admin!State
<1>2. "" \notin Waiting
    BY SMT DEF Waiting
<1> QED BY <1>1, <1>2, Zenon DEF Admin!States

LEMMA NothingTyped == Admin!NoData \in Data /\ None \in Offered
<1>1. Admin!NoData \in Data
    BY SMT DEF Admin!NoData, Data
<1>2. None \in Offered
    BY Zenon DEF Offered
<1> QED BY <1>1, <1>2, Zenon

LEMMA RestKept ==
    ASSUME AdminTypes, Admin!KeepsRest
    PROVE  /\ people' \subseteq Users /\ offered' \in Offered
           /\ fsm' = fsm /\ data' = data =>
                fsm'.state \notin Waiting \/ UNCHANGED <<fsm, data, offered>>
<1>1. CASE fsm' = Admin!Idle
    BY <1>1, NotWaiting, NothingTyped, Zenon DEF Admin!KeepsRest, AdminTypes
<1>2. CASE fsm' # Admin!Idle
    BY <1>2, Zenon DEF Admin!KeepsRest, AdminTypes
<1> QED BY <1>1, <1>2, Zenon

LEMMA AdminEdited ==
    ASSUME AdminTypes, NEW p \in {"new", "old", None}, NEW screen, Fits("admin", screen), Admin!Edits(p, screen)
    PROVE  ChatFits("admin")' /\ ActsTyped' /\ SameActs
<1>1. CASE p = None
    BY <1>1, ActsKept, KeptFits, Zenon DEF Admin!Edits, AdminTypes
<1>2. CASE p # None
    <2>1. chat' = Edited(p, screen) /\ acting' = acting /\ p \in Places
        BY <1>2, AdminEdits, Zenon DEF Admin!Edits, Places
    <2> QED BY <2>1, ActsKept, EditedFits, Zenon DEF AdminTypes
<1> QED BY <1>1, <1>2, Zenon

LEMMA AdminSends ==
    ASSUME AdminTypes, NEW screen, Fits("admin", screen), Admin!Sends(screen)
    PROVE  ChatFits("admin")' /\ ActsTyped' /\ SameActs
<1>1. chat' = Sent(screen)
    BY AdminSent, Zenon DEF Admin!Sends
<1> QED BY <1>1, ActsOlder, SentFits, Zenon DEF AdminTypes

LEMMA ShowsMoves ==
    ASSUME AdminTypes, NEW p \in {"new", "old", None}, NEW screen, Fits("admin", screen), Admin!Shows(p, screen)
    PROVE  AdminMoved
<1>1. Admin!Edits(p, screen) /\ UNCHANGED <<fsm, data, panel>> /\ Admin!KeepsRest
    BY Zenon DEF Admin!Shows, Admin!Keeps
<1> QED BY <1>1, AdminEdited, RestKept, Zenon DEF AdminMoved, AdminTypes

LEMMA PlacesKept == ASSUME NEW p \in {"new", "old", None} PROVE Admin!Older(p) \in {"new", "old", None}
BY Zenon DEF Admin!Older

LEMMA AnswersMoves ==
    ASSUME AdminTypes, NEW screen, Fits("admin", screen), Admin!Answers(screen)
    PROVE  AdminMoved
<1>1. /\ Admin!Sends(screen) /\ UNCHANGED <<fsm, data>> /\ Admin!KeepsRest
      /\ panel' = Admin!Older(panel)
    BY Zenon DEF Admin!Answers, Admin!Moves
<1> QED BY <1>1, AdminSends, RestKept, PlacesKept, Zenon DEF AdminMoved, AdminTypes

LEMMA ClearsMoves ==
    ASSUME AdminTypes, Admin!Clears, people' \subseteq Users, offered' \in Offered,
           ChatFits("admin")', ActsTyped', SameActs
    PROVE  AdminMoved
BY NotWaiting, NothingTyped, Zenon DEF AdminMoved, AdminTypes, Admin!Clears

LEMMA EndsMoves ==
    ASSUME AdminTypes, NEW screen, Fits("admin", screen), Admin!Ends(screen)
    PROVE  AdminMoved
BY AdminSends, RestKept, ClearsMoves, Zenon DEF Admin!Ends

LEMMA AlertsMove == ASSUME AdminTypes, Admin!Alerts PROVE AdminMoved
<1>1. UNCHANGED <<fsm, panel, chat, people, data, acting, offered>>
    BY Zenon DEF Admin!Alerts
<1> QED BY <1>1, ActsKept, KeptFits, Zenon DEF AdminMoved, AdminTypes

\* A prompt: the dialogue begins, or goes on.
LEMMA EntersMoves ==
    ASSUME AdminTypes, NEW p \in {"new", "old", None}, NEW f \in Admin!States, f.state \notin Waiting,
           Admin!Enters(p, f), data' \in Data
    PROVE  AdminMoved
<1>1. Admin!Ask(f) = <<"ask", f>> /\ Fits("admin", <<"ask", f>>)
    BY AdminPlain, SMT DEF Admin!Ask
<1>2. fsm' = f /\ panel' = p /\ Admin!Edits(p, Admin!Ask(f)) /\ Admin!KeepsRest
    BY Zenon DEF Admin!Enters
<1> QED BY <1>1, <1>2, AdminEdited, RestKept, Zenon DEF AdminMoved, AdminTypes

LEMMA AsksMoves ==
    ASSUME AdminTypes, NEW f \in Admin!States, f.state \notin Waiting, Admin!Asks(f)
    PROVE  AdminMoved
<1>1. Admin!Ask(f) = <<"ask", f>> /\ Fits("admin", <<"ask", f>>)
    BY AdminPlain, SMT DEF Admin!Ask
<1>2. /\ fsm' = f /\ panel' = Admin!Older(panel) /\ Admin!Sends(Admin!Ask(f))
      /\ data' = data /\ Admin!KeepsRest
    BY Zenon DEF Admin!Asks
<1> QED BY <1>1, <1>2, AdminSends, RestKept, PlacesKept, Zenon DEF AdminMoved, AdminTypes

LEMMA MovedKeeps == ASSUME AdminInv, AdminMoved, Admin!Overlaps, crossed' = crossed PROVE AdminInv'
<1>1. overlapped' \in BOOLEAN
    BY Zenon DEF AdminInv, Admin!Overlaps
<1>2. ~overlapped' => Truthful'
    BY SameTruth, Zenon DEF AdminInv, AdminMoved
<1> QED BY <1>1, <1>2, Zenon DEF AdminInv, AdminMoved

\* The screens whose buttons do not depend on what they are of.
Plains == {"panel", "premium", "back", "users", "subscribers", "payments", "history", "delete",
           "revoke", "deleted", "referrals", "referrers", "recent", "referrer", "rewards", "deals",
           "exact", "preview", "ask", "done", "text"}

LEMMA PlainFits == ASSUME NEW name \in Plains, NEW item PROVE Fits("admin", <<name, item>>)
<1>1. name \notin {"section", "page", "card"}
    BY SMT DEF Plains
<1> QED BY <1>1, AdminPlain, Zenon

LEMMA CardsFit ==
    ASSUME NEW u \in Users
    PROVE  /\ Fits("admin", Admin!Card(u))
           /\ \A card \in Admin!CardsAsOf(u) : Fits("admin", card)
<1>1. \A r : Fits("admin", <<"card", <<u, r>>>>)
    BY CardFits, Zenon
<1> QED BY <1>1, Zenon DEF Admin!Card, Admin!CardsAsOf

LEMMA PlainShows ==
    ASSUME AdminTypes, NEW p \in Places, NEW name \in Plains, NEW item, Admin!Shows(p, <<name, item>>)
    PROVE  AdminMoved
BY PlainFits, ShowsMoves, Zenon DEF Places

LEMMA PlainAnswers ==
    ASSUME AdminTypes, NEW name \in Plains, NEW item, Admin!Answers(<<name, item>>)
    PROVE  AdminMoved
BY PlainFits, AnswersMoves, Zenon

LEMMA PlainEnds ==
    ASSUME AdminTypes, NEW name \in Plains, NEW item, Admin!Ends(<<name, item>>)
    PROVE  AdminMoved
BY PlainFits, EndsMoves, Zenon

LEMMA CardShows ==
    ASSUME AdminTypes, NEW p \in Places, NEW u \in people, NEW card,
           card = Admin!Card(u) \/ card \in Admin!CardsAsOf(u), Admin!Shows(p, card)
    PROVE  AdminMoved
<1>1. u \in Users
    BY Zenon DEF AdminTypes
<1> QED BY <1>1, CardsFit, ShowsMoves, Zenon DEF Places

\* The screens that leave the dialogue where it is.
LEMMA ScreensMove ==
    ASSUME AdminTypes, NEW p \in Places, NEW b,
           \/ Admin!admin_panel(p, b) \/ Admin!admin_section(p, b) \/ Admin!run_sync(p, b)
           \/ Admin!recent_errors(p, b) \/ Admin!admin_games(p, b) \/ Admin!recent_users(p, b)
           \/ Admin!admin_premium_root(p, b) \/ Admin!admin_premium_users(p, b)
    PROVE  AdminMoved
<1>1. CASE Admin!admin_panel(p, b)
    BY <1>1, PlainShows, Zenon DEF Admin!admin_panel, Plains
<1>2. CASE Admin!admin_section(p, b)
    BY <1>2, SectionFits, ShowsMoves, Zenon DEF Admin!admin_section, Places
<1>3. CASE Admin!run_sync(p, b)
    BY <1>3, AlertsMove, Zenon DEF Admin!run_sync
<1>4. CASE Admin!recent_errors(p, b)
    BY <1>4, PlainShows, Zenon DEF Admin!recent_errors, Plains
<1>5. CASE Admin!admin_games(p, b)
    BY <1>5, PageFits, ShowsMoves, Zenon DEF Admin!admin_games, Places
<1>6. CASE Admin!recent_users(p, b)
    <2>1. PICK item : Admin!Shows(p, <<"users", item>>)
        BY <1>6, Zenon DEF Admin!recent_users
    <2> QED BY <2>1, PlainShows, Zenon DEF Plains
<1>7. CASE Admin!admin_premium_root(p, b)
    BY <1>7, PlainShows, Zenon DEF Admin!admin_premium_root, Plains
<1>8. CASE Admin!admin_premium_users(p, b)
    <2>1. PICK item : Admin!Shows(p, <<"subscribers", item>>)
        BY <1>8, Zenon DEF Admin!admin_premium_users
    <2> QED BY <2>1, PlainShows, Zenon DEF Plains
<1> QED BY <1>1, <1>2, <1>3, <1>4, <1>5, <1>6, <1>7, <1>8, Zenon

LEMMA ViewsMove ==
    ASSUME AdminTypes, NEW p \in Places, NEW b,
           \/ Admin!admin_premium_user_open(p, b) \/ Admin!admin_user_transactions(p, b)
           \/ Admin!admin_premium_history(p, b) \/ Admin!admin_referrals(p, b)
           \/ Admin!admin_referrers(p, b) \/ Admin!admin_referrals_recent(p, b)
           \/ Admin!admin_referrer(p, b) \/ Admin!admin_referral_rewards(p, b)
           \/ Admin!deals_broadcast(p, b)
    PROVE  AdminMoved
<1>1. CASE Admin!admin_premium_user_open(p, b)
    BY <1>1, CardShows, AlertsMove, Zenon DEF Admin!admin_premium_user_open
<1>2. CASE Admin!admin_user_transactions(p, b)
    BY <1>2, PlainShows, Zenon DEF Admin!admin_user_transactions, Plains
<1>3. CASE Admin!admin_premium_history(p, b)
    BY <1>3, PlainShows, Zenon DEF Admin!admin_premium_history, Plains
<1>4. CASE Admin!admin_referrals(p, b)
    BY <1>4, PlainShows, Zenon DEF Admin!admin_referrals, Plains
<1>5. CASE Admin!admin_referrers(p, b)
    <2>1. PICK item : Admin!Shows(p, <<"referrers", item>>)
        BY <1>5, Zenon DEF Admin!admin_referrers
    <2> QED BY <2>1, PlainShows, Zenon DEF Plains
<1>6. CASE Admin!admin_referrals_recent(p, b)
    <2>1. PICK item : Admin!Shows(p, <<"recent", item>>)
        BY <1>6, Zenon DEF Admin!admin_referrals_recent
    <2> QED BY <2>1, PlainShows, Zenon DEF Plains
<1>7. CASE Admin!admin_referrer(p, b)
    <2>1. Admin!Shows(p, <<"referrer", b[2]>>) \/ Admin!Alerts
        BY <1>7, Zenon DEF Admin!admin_referrer
    <2> QED BY <2>1, PlainShows, AlertsMove, Zenon DEF Plains
<1>8. CASE Admin!admin_referral_rewards(p, b)
    BY <1>8, PlainShows, Zenon DEF Admin!admin_referral_rewards, Plains
<1>9. CASE Admin!deals_broadcast(p, b)
    <2>1. \/ Admin!Shows(p, <<"deals", None>>) \/ Admin!Shows(p, <<"done", None>>)
          \/ Admin!Alerts
        BY <1>9, Zenon DEF Admin!deals_broadcast
    <2>2. CASE Admin!Shows(p, <<"deals", None>>)
        BY <2>2, PlainShows, Zenon DEF Plains
    <2>3. CASE Admin!Shows(p, <<"done", None>>)
        BY <2>3, PlainShows, Zenon DEF Plains
    <2> QED BY <2>1, <2>2, <2>3, AlertsMove, Zenon
<1> QED BY <1>1, <1>2, <1>3, <1>4, <1>5, <1>6, <1>7, <1>8, <1>9, Zenon

\* The buttons of a user's card.
LEMMA CardButtonsMove ==
    ASSUME AdminTypes, NEW p \in Places, NEW b,
           \/ Admin!admin_premium_add(p, b) \/ Admin!admin_premium_revoke(p, b)
           \/ Admin!admin_user_delete(p, b) \/ Admin!admin_user_delete_execute(p, b)
    PROVE  AdminMoved
<1>1. CASE Admin!admin_premium_add(p, b)
    BY <1>1, CardShows, AlertsMove, Zenon DEF Admin!admin_premium_add, Admin!Fails
<1>2. CASE Admin!admin_premium_revoke(p, b)
    <2>1. \/ Admin!Shows(p, <<"revoke", b[2]>>)
          \/ b[2] \in people /\ Admin!Shows(p, Admin!Card(b[2]))
          \/ Admin!Alerts
        BY <1>2, Zenon DEF Admin!admin_premium_revoke, Admin!Fails
    <2>2. CASE Admin!Shows(p, <<"revoke", b[2]>>)
        BY <2>2, PlainShows, Zenon DEF Plains
    <2> QED BY <2>1, <2>2, CardShows, AlertsMove, Zenon
<1>3. CASE Admin!admin_user_delete(p, b)
    <2>1. Admin!Shows(p, <<"delete", b[2]>>) \/ Admin!Alerts
        BY <1>3, Zenon DEF Admin!admin_user_delete
    <2> QED BY <2>1, PlainShows, AlertsMove, Zenon DEF Plains
<1>4. CASE Admin!admin_user_delete_execute(p, b)
    <2>1. CASE Admin!Alerts
        BY <2>1, AlertsMove, Zenon
    <2>2. CASE /\ people' = people \ {b[2]} /\ Admin!Edits(p, <<"deleted", None>>)
               /\ UNCHANGED <<fsm, data, panel, offered>>
        <3>1. Fits("admin", <<"deleted", None>>)
            BY PlainFits, Zenon DEF Plains
        <3>2. people' \subseteq Users
            BY <2>2, Zenon DEF AdminTypes
        <3> QED BY <2>2, <3>1, <3>2, AdminEdited, Zenon DEF AdminMoved, AdminTypes, Places
    <2> QED BY <1>4, <2>1, <2>2, Zenon DEF Admin!admin_user_delete_execute, Admin!Keeps
<1> QED BY <1>1, <1>2, <1>3, <1>4, Zenon

\* The states of the dialogues that keep nothing in the data.
LEMMA OtherStates ==
    ASSUME NEW name \in {"AdminPremium.search", "AdminBroadcast.content", "AdminGameRefresh.app_id",
                         "AdminGiveaway.title", "AdminGiveaway.url"}
    PROVE  Admin!State(name) \in Admin!States /\ Admin!State(name).state \notin Waiting
<1>1. Admin!State(name).state = name
    BY SMT DEF Admin!State, Admin!At
<1>2. name \notin Waiting
    BY SMT DEF Waiting
<1> QED BY <1>1, <1>2, Zenon DEF Admin!States

LEMMA EditingState ==
    ASSUME NEW u \in Users
    PROVE  /\ Admin!Editing(u) \in Admin!States /\ Admin!Editing(u).state \notin Waiting
<1>1. Admin!Editing(u).state = "AdminUserEdit.value"
    BY SMT DEF Admin!Editing, Admin!At
<1>2. "AdminUserEdit.value" \notin Waiting
    BY SMT DEF Waiting
<1> QED BY <1>1, <1>2, Zenon DEF Admin!States

\* The user whom a button names is one.
LEMMA PressedNames ==
    ASSUME AdminTypes, NEW p \in Places, NEW b \in Admin!Buttons(p), NamesUser(b)
    PROVE  b[2] \in Users
<1>1. chat[p] # None /\ b \in Admin!Keyboard(chat[p])
    BY Zenon DEF Admin!Buttons
<1>2. Fits("admin", chat.new) /\ Fits("admin", chat.old)
    BY Zenon DEF AdminTypes, ChatFits
<1>3. chat[p] = chat.new \/ chat[p] = chat.old
    BY Zenon DEF Places
<1>4. Fits("admin", chat[p])
    BY <1>2, <1>3, Zenon
<1> QED BY <1>1, <1>4, NamedByCards, Zenon

LEMMA AdminCloseMoves ==
    ASSUME AdminTypes, NEW p \in Places, NEW b, Admin!admin_close(p, b)
    PROVE  AdminMoved
<1>1. Admin!Clears /\ Admin!KeepsRest /\ chat' = Closed(p, TRUE)
    BY AdminCloses, Zenon DEF Admin!admin_close
<1>2. ChatFits("admin")'
    BY <1>1, ClosedFits, Zenon DEF AdminTypes
<1> DEFINE Place == [h \in Handlers |-> Admin!After(p, acting[h].at)]
<1>3. acting' = [h \in Handlers |->
          IF acting[h] = None THEN None ELSE [acting[h] EXCEPT !.at = Place[h]]]
    BY Zenon DEF Admin!admin_close, Admin!Placed
<1>4. \A h \in Handlers : acting[h] # None => Place[h] \in {"new", "old", None}
    BY ActIs, ActAt, Zenon DEF Admin!After, AdminTypes
<1> HIDE DEF Place
<1>5. ActsTyped' /\ SameActs
    BY <1>3, <1>4, ActsMoved, Zenon DEF AdminTypes
<1> QED BY <1>1, <1>2, <1>5, RestKept, ClearsMoves, Zenon

LEMMA EditStartMoves ==
    ASSUME AdminTypes, NEW p \in Places, NEW b \in Admin!Buttons(p), Admin!admin_user_edit_start(p, b)
    PROVE  AdminMoved
<1>1. b[2] \in Users
    BY PressedNames, Zenon DEF Admin!admin_user_edit_start, NamesUser
<1>2. Admin!Enters(p, Admin!Editing(b[2])) /\ data' = data
    BY Zenon DEF Admin!admin_user_edit_start
<1> QED BY <1>1, <1>2, EditingState, EntersMoves, Zenon DEF AdminTypes, Places

LEMMA EditSaveMoves == ASSUME AdminTypes, Admin!admin_user_edit_save PROVE AdminMoved
<1>1. CASE Admin!Answers(<<"text", None>>)
    BY <1>1, PlainAnswers, Zenon DEF Plains
<1>2. CASE Admin!Ends(<<"text", None>>)
    BY <1>2, PlainEnds, Zenon DEF Plains
<1>3. CASE /\ fsm.item \in people /\ panel # None
           /\ Admin!Clears /\ Admin!Edits(panel, Admin!Card(fsm.item)) /\ Admin!KeepsRest
    <2>1. Fits("admin", Admin!Card(fsm.item))
        BY <1>3, CardsFit, Zenon DEF AdminTypes
    <2>2. ChatFits("admin")' /\ ActsTyped' /\ SameActs
        BY <1>3, <2>1, AdminEdited, Zenon DEF AdminTypes
    <2> QED BY <1>3, <2>2, RestKept, ClearsMoves, Zenon
<1>4. CASE fsm.item \in people /\ Admin!Ends(Admin!Card(fsm.item))
    BY <1>4, CardsFit, EndsMoves, Zenon DEF AdminTypes
<1> QED BY <1>1, <1>2, <1>3, <1>4, Zenon DEF Admin!admin_user_edit_save

LEMMA SearchStartMoves ==
    ASSUME AdminTypes, NEW p \in Places, NEW b, Admin!admin_premium_search_start(p, b)
    PROVE  AdminMoved
<1>1. Admin!Enters(p, Admin!State("AdminPremium.search")) /\ data' = Admin!NoData
    BY Zenon DEF Admin!admin_premium_search_start
<1> QED BY <1>1, OtherStates, NothingTyped, EntersMoves, Zenon DEF Places

LEMMA SearchMoves == ASSUME AdminTypes, Admin!admin_premium_search PROVE AdminMoved
<1>1. Admin!Clears /\ Admin!KeepsRest
    BY Zenon DEF Admin!admin_premium_search
<1> DEFINE Lists == {us \in SUBSET people : Admin!Cardinality(us) > 1}
           Found == {<<"done", None>>} \cup {<<"subscribers", <<us, 0, FALSE>>>> : us \in Lists}
                      \cup UNION {Admin!CardsAsOf(u) : u \in people}
           Place == [h \in Handlers |-> Admin!Older(Admin!After(panel, acting[h].at))]
<1>2. PICK screen \in Found :
        IF panel = None THEN Admin!Sends(screen)
        ELSE /\ chat' = [new |-> screen,
                         old |-> IF panel = "new" THEN chat.old ELSE Admin!Retained(chat.new, None)]
             /\ acting' = [h \in Handlers |->
                  IF acting[h] = None THEN None ELSE [acting[h] EXCEPT !.at = Place[h]]]
    BY Zenon DEF Admin!admin_premium_search, Admin!Placed
<1>3. Fits("admin", screen)
    <2>1. CASE screen = <<"done", None>>
        BY <2>1, PlainFits, Zenon DEF Plains
    <2>2. ASSUME NEW us, screen = <<"subscribers", <<us, 0, FALSE>>>>
          PROVE  Fits("admin", screen)
        BY <2>2, PlainFits, Zenon DEF Plains
    <2>3. ASSUME NEW u \in people, screen \in Admin!CardsAsOf(u)
          PROVE  Fits("admin", screen)
        BY <2>3, CardsFit, Zenon DEF AdminTypes
    <2> QED BY <1>2, <2>1, <2>2, <2>3, Zenon
<1>4. \A h \in Handlers : acting[h] # None => Place[h] \in {"new", "old", None}
    BY ActIs, ActAt, Zenon DEF Admin!After, Admin!Older, AdminTypes
<1> HIDE DEF Place, Found
<1>5. CASE panel = None
    <2>1. ChatFits("admin")' /\ ActsTyped' /\ SameActs
        BY <1>2, <1>3, <1>5, AdminSends, Zenon
    <2> QED BY <1>1, <2>1, RestKept, ClearsMoves, Zenon
<1>6. CASE panel # None
    <2>1. ActsTyped' /\ SameActs
        BY <1>2, <1>4, <1>6, ActsMoved, Zenon DEF AdminTypes
    <2>2. CASE panel = "new"
        <3>1. chat' = [new |-> screen, old |-> chat.old]
            BY <1>2, <1>6, <2>2, Zenon
        <3>2. ChatFits("admin")'
            BY <1>3, <3>1, ChatWritten, Zenon DEF AdminTypes, ChatFits
        <3> QED BY <1>1, <2>1, <3>2, RestKept, ClearsMoves, Zenon
    <2>3. CASE panel # "new"
        <3>1. chat' = [new |-> screen, old |-> Retained(chat.new, None)]
            BY <1>2, <1>6, <2>3, Zenon DEF Admin!Retained, Retained, Admin!NameOf, NameOf
        <3>2. ChatFits("admin")'
            BY <1>3, <3>1, WrittenFits, Zenon DEF AdminTypes
        <3> QED BY <1>1, <2>1, <3>2, RestKept, ClearsMoves, Zenon
    <2> QED BY <2>2, <2>3, Zenon
<1> QED BY <1>5, <1>6, Zenon

LEMMA DaysMove == ASSUME AdminTypes, Admin!admin_premium_manual_days PROVE AdminMoved
<1>1. CASE Admin!Answers(<<"done", None>>)
    BY <1>1, PlainAnswers, Zenon DEF Plains
<1>2. CASE Admin!Alerts
    BY <1>2, AlertsMove, Zenon
<1>3. CASE data.user \in people /\ Admin!Ends(Admin!Card(data.user))
    BY <1>3, CardsFit, EndsMoves, Zenon DEF AdminTypes
<1> QED BY <1>1, <1>2, <1>3, Zenon DEF Admin!admin_premium_manual_days, Admin!Fails

LEMMA ExactConfirmMoves ==
    ASSUME AdminTypes, NEW p \in Places, NEW b, Admin!admin_premium_exact_confirm(p, b)
    PROVE  AdminMoved
<1>1. CASE Admin!Alerts
    BY <1>1, AlertsMove, Zenon
<1>2. CASE /\ data.user \in people /\ Admin!Edits(p, Admin!Card(data.user))
           /\ Admin!Clears /\ Admin!KeepsRest
    <2>1. Fits("admin", Admin!Card(data.user))
        BY <1>2, CardsFit, Zenon DEF AdminTypes
    <2>2. ChatFits("admin")' /\ ActsTyped' /\ SameActs
        BY <1>2, <2>1, AdminEdited, Zenon DEF Places
    <2> QED BY <1>2, <2>2, RestKept, ClearsMoves, Zenon
<1> QED BY <1>1, <1>2, Zenon DEF Admin!admin_premium_exact_confirm, Admin!Fails

LEMMA BroadcastStartMoves ==
    ASSUME AdminTypes, NEW p \in Places, NEW b, Admin!broadcast_start(p, b)
    PROVE  AdminMoved
<1>1. Admin!Enters(p, Admin!State("AdminBroadcast.content")) /\ data' = data
    BY Zenon DEF Admin!broadcast_start
<1> QED BY <1>1, OtherStates, EntersMoves, Zenon DEF Places, AdminTypes

LEMMA BroadcastCancelMoves ==
    ASSUME AdminTypes, NEW p \in Places, NEW b, Admin!broadcast_cancel(p, b)
    PROVE  AdminMoved
<1>1. Admin!Clears /\ Admin!Edits(p, <<"panel", None>>) /\ Admin!KeepsRest
    BY Zenon DEF Admin!broadcast_cancel
<1>2. ChatFits("admin")' /\ ActsTyped' /\ SameActs
    BY <1>1, PlainFits, AdminEdited, Zenon DEF Places, Plains
<1> QED BY <1>1, <1>2, RestKept, ClearsMoves, Zenon

LEMMA BroadcastConfirmMoves ==
    ASSUME AdminTypes, NEW p \in Places, NEW b, Admin!broadcast_confirm(p, b)
    PROVE  AdminMoved
<1>1. CASE Admin!Alerts
    BY <1>1, AlertsMove, Zenon
<1>2. CASE /\ Admin!Clears /\ Admin!KeepsRest
           /\ Admin!Begins(Admin!Act("broadcast", p, None))
           /\ chat' = Admin!Edited(p, <<"done", None>>)
    <2> DEFINE act == Admin!Act("broadcast", p, None)
    <2>1. act \in Acts /\ act.does = "broadcast"
        BY SMT DEF Admin!Act, Acts, Places
    <2>2. "broadcast" \notin {"days", "exact", "until", "preview"}
        BY SMT
    <2>3. ~Busy(act)
        BY <2>1, <2>2, Zenon DEF Busy
    <2> HIDE DEF act
    <2>4. PICK k \in Handlers : /\ acting[k] = None /\ acting'[k] = act
                                /\ \A h \in Handlers \ {k} : acting'[h] = acting[h]
        BY <1>2, <2>1, ActBegins, Zenon DEF act, AdminTypes
    <2>5. ActsTyped'
        BY <1>2, <2>1, ActBegins, Zenon DEF act, AdminTypes
    <2>6. SameActs
        <3>1. ~Busy(acting[k]) /\ ~Busy(acting'[k])
            BY <2>3, <2>4, Zenon DEF Busy
        <3> QED BY <2>4, <3>1, Zenon DEF SameActs
    <2>7. ChatFits("admin")'
        <3>1. chat' = Edited(p, <<"done", None>>) /\ Fits("admin", <<"done", None>>)
            BY <1>2, AdminEdits, PlainFits, Zenon DEF Plains
        <3> QED BY <3>1, EditedFits, Zenon DEF AdminTypes
    <2> QED BY <1>2, <2>5, <2>6, <2>7, RestKept, ClearsMoves, Zenon
<1> QED BY <1>1, <1>2, Zenon DEF Admin!broadcast_confirm

\* What a handler in progress shows in the end.
LEMMA AdminShown ==
    ASSUME AdminTypes, NEW h \in Handlers, acting[h] # None, NEW screen, Fits("admin", screen),
           Admin!ShownBy(h, screen)
    PROVE  /\ ChatFits("admin")' /\ ActsTyped' /\ acting'[h] = None
           /\ \A g \in Handlers \ {h} : acting'[g] = acting[g]
<1>1. acting[h].at \in {"new", "old", None}
    BY ActIs, ActAt, Zenon DEF AdminTypes
<1>2. acting' = [acting EXCEPT ![h] = None]
    BY Zenon DEF Admin!ShownBy
<1>3. ChatFits("admin")'
    <2>1. CASE acting[h].at = None
        BY <2>1, KeptFits, Zenon DEF Admin!ShownBy, AdminTypes
    <2>2. CASE acting[h].at # None
        <3>1. chat' = Edited(acting[h].at, screen) /\ acting[h].at \in Places
            BY <1>1, <2>2, AdminEdits, Zenon DEF Admin!ShownBy, Places
        <3> QED BY <3>1, EditedFits, Zenon DEF AdminTypes
    <2> QED BY <2>1, <2>2, Zenon
<1> QED BY <1>2, <1>3, ActEnds, Zenon DEF AdminTypes

LEMMA BroadcastDoneMoves ==
    ASSUME AdminTypes, NEW h \in Handlers, Admin!BroadcastDone(h)
    PROVE  AdminMoved
<1>1. /\ acting[h] # None /\ acting[h].does = "broadcast" /\ Admin!ShownBy(h, <<"panel", None>>)
      /\ UNCHANGED <<fsm, data, panel>> /\ Admin!KeepsRest
    BY Zenon DEF Admin!BroadcastDone, Admin!Does, Admin!Keeps
<1>2. /\ ChatFits("admin")' /\ ActsTyped' /\ acting'[h] = None
      /\ \A g \in Handlers \ {h} : acting'[g] = acting[g]
    BY <1>1, PlainFits, AdminShown, Zenon DEF Plains
<1>3. SameActs
    <2>1. "broadcast" \notin {"days", "exact", "until", "preview"}
        BY SMT
    <2>2. ~Busy(acting[h]) /\ ~Busy(acting'[h])
        BY <1>1, <1>2, <2>1, Zenon DEF Busy
    <2> QED BY <1>2, <2>2, Zenon DEF SameActs
<1> QED BY <1>1, <1>2, <1>3, RestKept, Zenon DEF AdminMoved, AdminTypes

\* Prompts as new messages, and what ends them.
LEMMA AsksMove ==
    ASSUME AdminTypes, NEW p \in Places, NEW b,
           \/ Admin!refresh_game_start(p, b) \/ Admin!add_giveaway(p, b) \/ Admin!giveaway_title
    PROVE  AdminMoved
<1>1. \/ Admin!Asks(Admin!State("AdminGameRefresh.app_id"))
      \/ Admin!Asks(Admin!State("AdminGiveaway.title"))
      \/ Admin!Asks(Admin!State("AdminGiveaway.url"))
    BY Zenon DEF Admin!refresh_game_start, Admin!add_giveaway, Admin!giveaway_title
<1> QED BY <1>1, OtherStates, AsksMoves, Zenon

LEMMA AnswersMove ==
    ASSUME AdminTypes, Admin!admin_command \/ Admin!refresh_game \/ Admin!giveaway_url
    PROVE  AdminMoved
<1>1. \/ Admin!Answers(<<"panel", None>>) \/ Admin!Answers(<<"done", None>>)
      \/ Admin!Ends(<<"done", None>>)
    BY Zenon DEF Admin!admin_command, Admin!refresh_game, Admin!giveaway_url
<1>2. "panel" \in Plains /\ "done" \in Plains
    BY Zenon DEF Plains
<1> QED BY <1>1, <1>2, PlainAnswers, PlainEnds, Zenon

\* Every press but that of the buttons for days and for a date.
LEMMA PressesMove ==
    ASSUME AdminTypes, NEW p \in Places, NEW b \in Admin!Buttons(p), Admin!Press(p, b),
           ~Admin!admin_premium_manual_start(p, b)
    PROVE  AdminMoved
<1>1. CASE \/ Admin!admin_panel(p, b) \/ Admin!admin_section(p, b) \/ Admin!run_sync(p, b)
           \/ Admin!recent_errors(p, b) \/ Admin!admin_games(p, b) \/ Admin!recent_users(p, b)
           \/ Admin!admin_premium_root(p, b) \/ Admin!admin_premium_users(p, b)
    BY <1>1, ScreensMove, Zenon
<1>2. CASE \/ Admin!admin_premium_user_open(p, b) \/ Admin!admin_user_transactions(p, b)
           \/ Admin!admin_premium_history(p, b) \/ Admin!admin_referrals(p, b)
           \/ Admin!admin_referrers(p, b) \/ Admin!admin_referrals_recent(p, b)
           \/ Admin!admin_referrer(p, b) \/ Admin!admin_referral_rewards(p, b)
           \/ Admin!deals_broadcast(p, b)
    BY <1>2, ViewsMove, Zenon
<1>3. CASE \/ Admin!admin_premium_add(p, b) \/ Admin!admin_premium_revoke(p, b)
           \/ Admin!admin_user_delete(p, b) \/ Admin!admin_user_delete_execute(p, b)
    BY <1>3, CardButtonsMove, Zenon
<1>4. CASE \/ Admin!admin_close(p, b) \/ Admin!admin_user_edit_start(p, b)
           \/ Admin!admin_premium_search_start(p, b) \/ Admin!admin_premium_exact_confirm(p, b)
    BY <1>4, AdminCloseMoves, EditStartMoves, SearchStartMoves, ExactConfirmMoves, Zenon
<1>5. CASE \/ Admin!broadcast_start(p, b) \/ Admin!broadcast_cancel(p, b)
           \/ Admin!broadcast_confirm(p, b) \/ Admin!refresh_game_start(p, b) \/ Admin!add_giveaway(p, b)
    BY <1>5, BroadcastStartMoves, BroadcastCancelMoves, BroadcastConfirmMoves, AsksMove, Zenon
<1> QED BY <1>1, <1>2, <1>3, <1>4, <1>5, Zenon DEF Admin!Press

-----------------------------------------------------------------------------
(* The steps with which such a handler begins and ends.                    *)

\* As long as one is between two steps, what was overlapped stays so.
LEMMA StillOverlapped ==
    ASSUME Admin!Overlaps, ~overlapped', NEW k \in Handlers, Busy(acting'[k])
    PROVE  ~overlapped
<1>1. Admin!Between(k)'
    BY Zenon DEF Admin!Between, Admin!Does, Busy
<1>2. overlapped' = (overlapped \/ (/\ <<fsm, data>>' # <<fsm, data>>
                                    /\ \E g \in Handlers : Admin!Between(g) /\ Admin!Between(g)'))
    BY <1>1, Zenon DEF Admin!Overlaps
<1> QED BY <1>2, Zenon

\* A handler that begins with what the data say.
LEMMA BeginTruth ==
    ASSUME ~overlapped => Truthful, Admin!Overlaps, ~overlapped',
           NEW k \in Handlers, Busy(acting'[k]), ActSays(acting[k])', UserKnown',
           \A h \in Handlers \ {k} : acting'[h] = acting[h]
    PROVE  Truthful'
<1>1. ASSUME NEW h \in Handlers, Busy(acting'[h])
      PROVE  ActSays(acting[h])'
    <2>1. CASE h = k
        BY <2>1, Zenon
    <2>2. CASE h # k
        <3>1. acting'[h] = acting[h] /\ Busy(acting[h])
            BY <1>1, <2>2, Zenon
        <3>2. ~overlapped /\ fsm' = fsm /\ data' = data
            BY <1>1, <3>1, Overlapping, Zenon
        <3>3. ActSays(acting[h])
            BY <3>1, <3>2, Zenon DEF Truthful
        <3> QED BY <3>1, <3>2, <3>3, Zenon DEF ActSays
    <2> QED BY <2>1, <2>2, Zenon
<1>2. (\A h \in Handlers : Busy(acting[h]) => ActSays(acting[h]))'
    BY <1>1, Zenon
<1> QED BY <1>2, Zenon DEF Truthful

\* A handler that ends, and leaves what can be confirmed.
LEMMA EndTruth ==
    ASSUME ~overlapped => Truthful, Admin!Overlaps, ~overlapped',
           NEW k \in Handlers, ~Busy(acting'[k]),
           \A h \in Handlers \ {k} :
             \/ ~Busy(acting'[h])
             \/ /\ Busy(acting[h])
                /\ acting'[h].does = acting[h].does /\ acting'[h].item = acting[h].item,
           ~overlapped => UserKnown' /\ Confirmable'
    PROVE  Truthful'
<1>1. CASE \E h \in Handlers : Busy(acting'[h])
    <2>1. PICK h \in Handlers : Busy(acting'[h])
        BY <1>1, Zenon
    <2>2. Busy(acting[h])
        BY <2>1, Zenon
    <2>3. ~overlapped /\ fsm' = fsm /\ data' = data
        BY <2>1, <2>2, Overlapping, Zenon
    <2>4. ASSUME NEW g \in Handlers, Busy(acting'[g])
          PROVE  ActSays(acting[g])'
        <3>1. /\ Busy(acting[g])
              /\ acting'[g].does = acting[g].does /\ acting'[g].item = acting[g].item
            BY <2>4, Zenon
        <3>2. ActSays(acting[g])
            BY <2>3, <3>1, Zenon DEF Truthful
        <3> QED BY <2>3, <3>1, <3>2, Zenon DEF ActSays
    <2>5. (\A g \in Handlers : Busy(acting[g]) => ActSays(acting[g]))'
        BY <2>4, Zenon
    <2> QED BY <2>1, <2>3, <2>5, Zenon DEF Truthful
<1>2. CASE \A h \in Handlers : ~Busy(acting'[h])
    <2>1. CASE fsm' = Admin!Idle
        <3>1. UserKnown' /\ Confirmable'
            BY <2>1, NotWaiting, Zenon DEF UserKnown, Confirmable, Waiting
        <3> QED BY <1>2, <3>1, Zenon DEF Truthful
    <2>2. CASE fsm' # Admin!Idle
        <3>1. ~overlapped
            BY <2>2, Zenon DEF Admin!Overlaps
        <3> QED BY <1>2, <3>1, Zenon DEF Truthful
    <2> QED BY <2>1, <2>2, Zenon
<1> QED BY <1>1, <1>2, Zenon

\* What the steps below have to show besides.
LEMMA AdminNext ==
    ASSUME AdminInv, AdminTypes', Admin!Overlaps, crossed' = crossed, ~overlapped' => Truthful'
    PROVE  AdminInv'
<1>1. overlapped' \in BOOLEAN
    BY Zenon DEF AdminInv, Admin!Overlaps
<1> QED BY <1>1, Zenon DEF AdminInv

LEMMA ManualStartKeeps ==
    ASSUME AdminInv, NEW p \in Places, NEW b \in Admin!Buttons(p), Admin!admin_premium_manual_start(p, b),
           Admin!Overlaps, crossed' = crossed
    PROVE  AdminInv'
<1> DEFINE act == Admin!Act(IF b[1] = "admin_premium_days" THEN "days" ELSE "exact", p, None)
<1>1. b[2] \in Users
    BY PressedNames, Zenon DEF Admin!admin_premium_manual_start, NamesUser, AdminInv
<1>2. /\ act \in Acts /\ (act.does = "days" \/ act.does = "exact")
    BY SMT DEF Admin!Act, Acts, Places
<1>3. /\ data' = [data EXCEPT !.user = b[2]] /\ Admin!Begins(act)
      /\ UNCHANGED <<fsm, panel, chat>> /\ Admin!KeepsRest
    BY Zenon DEF Admin!admin_premium_manual_start
<1> HIDE DEF act
<1>4. data' \in Data /\ data'.user = b[2]
    BY <1>1, <1>3, SMT DEF AdminInv, AdminTypes, Data
<1>5. /\ ActsTyped'
      /\ \E k \in Handlers : /\ acting[k] = None /\ acting'[k] = act
                             /\ \A h \in Handlers \ {k} : acting'[h] = acting[h]
    BY <1>2, <1>3, ActBegins, Zenon DEF AdminInv, AdminTypes
<1>6. PICK k \in Handlers : /\ acting[k] = None /\ acting'[k] = act
                            /\ \A h \in Handlers \ {k} : acting'[h] = acting[h]
    BY <1>5, Zenon
<1>7. AdminTypes'
    <2>1. ChatFits("admin")'
        BY <1>3, KeptFits, Zenon DEF AdminInv, AdminTypes
    <2>2. people' \subseteq Users /\ offered' \in Offered
        BY <1>3, RestKept, Zenon DEF AdminInv
    <2> QED BY <1>3, <1>4, <1>5, <2>1, <2>2, Zenon DEF AdminInv, AdminTypes
<1>8. data'.user # None
    BY <1>1, <1>4, DialogsAssumption, Zenon
<1>9. Busy(acting'[k])
    BY <1>2, <1>6, DialogsAssumption, Zenon DEF Busy
<1>10. ActSays(acting[k])'
    <2>1. act.does # "until" /\ act.does # "preview"
        BY <1>2, SMT
    <2> QED BY <1>6, <1>8, <2>1, Zenon DEF ActSays
<1>11. UserKnown'
    BY <1>8, Zenon DEF UserKnown
<1>12. ASSUME ~overlapped' PROVE Truthful'
    BY <1>6, <1>9, <1>10, <1>11, <1>12, BeginTruth, Zenon DEF AdminInv
<1> QED BY <1>7, <1>12, AdminNext, Zenon

LEMMA WaitingStates ==
    ASSUME NEW name \in {"AdminPremium.manual_days", "AdminPremium.exact_until",
                         "AdminPremium.confirm", "AdminBroadcast.confirm"}
    PROVE  Admin!State(name) \in Admin!States /\ Admin!State(name).state = name
<1>1. Admin!State(name).state = name
    BY SMT DEF Admin!State, Admin!At
<1> QED BY <1>1, Zenon DEF Admin!States

LEMMA ExactInputKeeps ==
    ASSUME AdminInv, Admin!admin_premium_exact_input, Admin!Overlaps, crossed' = crossed
    PROVE  AdminInv'
<1>1. CASE Admin!Answers(<<"done", None>>)
    <2>1. AdminMoved
        BY <1>1, PlainAnswers, Zenon DEF Plains, AdminInv
    <2> QED BY <2>1, MovedKeeps, Zenon
<1>2. ASSUME NEW d \in Dates,
             data' = [data EXCEPT !.until = d], fsm' = Admin!State("AdminPremium.confirm"),
             Admin!Begins(Admin!Act("until", None, <<data.user, d>>)),
             UNCHANGED <<panel, chat>>, Admin!KeepsRest
      PROVE  AdminInv'
    <2> DEFINE act == Admin!Act("until", None, <<data.user, d>>)
    <2>1. data.user \in Users \cup {None}
        BY SMT DEF AdminInv, AdminTypes, Data
    <2>2. /\ act \in Acts /\ act.does = "until" /\ act.item = <<data.user, d>>
        BY <1>2, <2>1, SMT DEF Admin!Act, Acts
    <2> HIDE DEF act
    <2>3. data' \in Data /\ data'.user = data.user /\ data'.until = d
        BY <1>2, SMT DEF AdminInv, AdminTypes, Data
    <2>4. /\ ActsTyped'
          /\ \E k \in Handlers : /\ acting[k] = None /\ acting'[k] = act
                                 /\ \A h \in Handlers \ {k} : acting'[h] = acting[h]
        BY <1>2, <2>2, ActBegins, Zenon DEF act, AdminInv, AdminTypes
    <2>5. PICK k \in Handlers : /\ acting[k] = None /\ acting'[k] = act
                                /\ \A h \in Handlers \ {k} : acting'[h] = acting[h]
        BY <2>4, Zenon
    <2>6. fsm' \in Admin!States /\ fsm'.state = "AdminPremium.confirm"
        BY <1>2, WaitingStates, Zenon
    <2>7. AdminTypes'
        <3>1. ChatFits("admin")'
            BY <1>2, KeptFits, Zenon DEF AdminInv, AdminTypes
        <3>2. people' \subseteq Users /\ offered' \in Offered
            BY <1>2, RestKept, Zenon DEF AdminInv
        <3> QED BY <1>2, <2>3, <2>4, <2>6, <3>1, <3>2, Zenon DEF AdminInv, AdminTypes
    <2>8. Busy(acting'[k])
        BY <2>2, <2>5, DialogsAssumption, Zenon DEF Busy
    <2>9. ASSUME ~overlapped' PROVE Truthful'
        <3>1. ~overlapped
            BY <2>8, <2>9, StillOverlapped, Zenon
        <3>2. fsm.state = "AdminPremium.exact_until"
            BY Zenon DEF Admin!admin_premium_exact_input, Admin!Text
        <3>3. data.user # None
            BY <3>1, <3>2, Zenon DEF AdminInv, Truthful, UserKnown
        <3>4. ActSays(acting[k])'
            <4>1. "until" \notin {"days", "exact", "preview"}
                BY SMT
            <4> QED BY <2>2, <2>3, <2>5, <2>6, <3>3, <4>1, Zenon DEF ActSays
        <3>5. UserKnown'
            BY <2>3, <3>3, Zenon DEF UserKnown
        <3> QED BY <2>5, <2>8, <2>9, <3>4, <3>5, BeginTruth, Zenon DEF AdminInv
    <2> QED BY <2>7, <2>9, AdminNext, Zenon
<1> QED BY <1>1, <1>2, Zenon DEF Admin!admin_premium_exact_input

LEMMA PreviewKeeps ==
    ASSUME AdminInv, Admin!broadcast_preview, Admin!Overlaps, crossed' = crossed
    PROVE  AdminInv'
<1>1. CASE Admin!Answers(<<"done", None>>)
    <2>1. AdminMoved
        BY <1>1, PlainAnswers, Zenon DEF Plains, AdminInv
    <2> QED BY <2>1, MovedKeeps, Zenon
<1>2. ASSUME NEW x \in Contents,
             data' = [data EXCEPT !.content = x], fsm' = Admin!State("AdminBroadcast.confirm"),
             Admin!Begins(Admin!Act("preview", panel, x)),
             UNCHANGED <<panel, chat>>, Admin!KeepsRest
      PROVE  AdminInv'
    <2> DEFINE act == Admin!Act("preview", panel, x)
    <2>1. panel \in {"new", "old", None}
        BY Zenon DEF AdminInv, AdminTypes
    <2>2. /\ act \in Acts /\ act.does = "preview" /\ act.item = x
        BY <1>2, <2>1, SMT DEF Admin!Act, Acts
    <2> HIDE DEF act
    <2>3. data' \in Data /\ data'.content = x
        BY <1>2, SMT DEF AdminInv, AdminTypes, Data
    <2>4. /\ ActsTyped'
          /\ \E k \in Handlers : /\ acting[k] = None /\ acting'[k] = act
                                 /\ \A h \in Handlers \ {k} : acting'[h] = acting[h]
        BY <1>2, <2>2, ActBegins, Zenon DEF act, AdminInv, AdminTypes
    <2>5. PICK k \in Handlers : /\ acting[k] = None /\ acting'[k] = act
                                /\ \A h \in Handlers \ {k} : acting'[h] = acting[h]
        BY <2>4, Zenon
    <2>6. fsm' \in Admin!States /\ fsm'.state = "AdminBroadcast.confirm"
        BY <1>2, WaitingStates, Zenon
    <2>7. AdminTypes'
        <3>1. ChatFits("admin")'
            BY <1>2, KeptFits, Zenon DEF AdminInv, AdminTypes
        <3>2. people' \subseteq Users /\ offered' \in Offered
            BY <1>2, RestKept, Zenon DEF AdminInv
        <3> QED BY <1>2, <2>3, <2>4, <2>6, <3>1, <3>2, Zenon DEF AdminInv, AdminTypes
    <2>8. Busy(acting'[k])
        BY <2>2, <2>5, DialogsAssumption, Zenon DEF Busy
    <2>9. ActSays(acting[k])'
        <3>1. "preview" \notin {"days", "exact", "until"}
            BY SMT
        <3> QED BY <2>2, <2>3, <2>5, <2>6, <3>1, Zenon DEF ActSays
    <2>10. UserKnown'
        <3>1. "AdminBroadcast.confirm" \notin
                {"AdminPremium.manual_days", "AdminPremium.exact_until", "AdminPremium.confirm"}
            BY SMT
        <3> QED BY <2>6, <3>1, Zenon DEF UserKnown
    <2>11. ASSUME ~overlapped' PROVE Truthful'
        BY <2>5, <2>8, <2>9, <2>10, <2>11, BeginTruth, Zenon DEF AdminInv
    <2> QED BY <2>7, <2>11, AdminNext, Zenon
<1> QED BY <1>1, <1>2, Zenon DEF Admin!broadcast_preview

LEMMA ManualPromptedKeeps ==
    ASSUME AdminInv, NEW h \in Handlers, Admin!ManualPrompted(h), Admin!Overlaps, crossed' = crossed
    PROVE  AdminInv'
<1>1. /\ acting[h] # None /\ acting[h].does \in {"days", "exact"}
      /\ fsm' = Admin!Prompt(h) /\ Admin!ShownBy(h, Admin!Ask(Admin!Prompt(h)))
      /\ data' = data /\ panel' = panel /\ Admin!KeepsRest
    BY Zenon DEF Admin!ManualPrompted, Admin!Does
<1>2. \/ Admin!Prompt(h) = Admin!State("AdminPremium.manual_days")
      \/ Admin!Prompt(h) = Admin!State("AdminPremium.exact_until")
    BY Zenon DEF Admin!Prompt
<1>3. /\ fsm' \in Admin!States
      /\ fsm'.state = "AdminPremium.manual_days" \/ fsm'.state = "AdminPremium.exact_until"
    BY <1>1, <1>2, WaitingStates, Zenon
<1>4. Admin!Ask(Admin!Prompt(h)) = <<"ask", Admin!Prompt(h)>>
    BY Zenon DEF Admin!Ask
<1>5. /\ ChatFits("admin")' /\ ActsTyped' /\ acting'[h] = None
      /\ \A g \in Handlers \ {h} : acting'[g] = acting[g]
    BY <1>1, <1>4, PlainFits, AdminShown, Zenon DEF Plains, AdminInv
<1>6. AdminTypes'
    <2>1. people' \subseteq Users /\ offered' \in Offered
        BY <1>1, RestKept, Zenon DEF AdminInv
    <2> QED BY <1>1, <1>3, <1>5, <2>1, Zenon DEF AdminInv, AdminTypes
<1>7. ASSUME ~overlapped' PROVE Truthful'
    <2>1. Busy(acting[h]) /\ ~Busy(acting'[h])
        BY <1>1, <1>5, Zenon DEF Busy
    <2>2. ASSUME ~overlapped PROVE UserKnown' /\ Confirmable'
        <3>1. data.user # None
            BY <1>1, <2>1, <2>2, Zenon DEF AdminInv, Truthful, ActSays
        <3>2. fsm'.state # "AdminPremium.confirm" /\ fsm'.state # "AdminBroadcast.confirm"
            BY <1>3, SMT
        <3> QED BY <1>1, <3>1, <3>2, Zenon DEF UserKnown, Confirmable
    <2> QED BY <1>5, <1>7, <2>1, <2>2, EndTruth, Zenon DEF AdminInv
<1> QED BY <1>6, <1>7, AdminNext, Zenon

LEMMA UntilItem ==
    ASSUME NEW act \in Acts, act.does = "until"
    PROVE  act.item \in (Users \cup {None}) \X Dates
BY SMT DEF Acts

LEMMA ExactOfferedKeeps ==
    ASSUME AdminInv, NEW h \in Handlers, Admin!ExactOffered(h), Admin!Overlaps, crossed' = crossed
    PROVE  AdminInv'
<1> DEFINE item == acting[h].item
           others == [acting EXCEPT ![h] = None]
           Place == [g \in Handlers |-> Admin!Older(acting[g].at)]
<1>1. /\ acting[h] # None /\ acting[h].does = "until"
      /\ IF item[1] = None
         THEN acting' = others /\ UNCHANGED <<chat, panel, offered>>
         ELSE /\ chat' = Admin!Sent(<<"exact", item>>) /\ panel' = Admin!Older(panel)
              /\ acting' = [k \in Handlers |->
                   IF others[k] = None THEN None ELSE [others[k] EXCEPT !.at = Admin!Older(others[k].at)]]
              /\ offered' = <<"exact", item>>
      /\ UNCHANGED <<fsm, data, people>>
    BY Zenon DEF Admin!ExactOffered, Admin!Does
<1>2. acting[h] \in Acts
    BY <1>1, ActIs, Zenon DEF AdminInv, AdminTypes
<1>3. acting = [g \in Handlers |-> acting[g]]
    BY ActsAre, Zenon DEF AdminInv, AdminTypes
<1>4. others[h] = None /\ \A g \in Handlers \ {h} : others[g] = acting[g]
    BY <1>3, SMT
<1> HIDE DEF others, Place
<1>5. CASE item[1] = None
    <2>1. acting' = [acting EXCEPT ![h] = None] /\ UNCHANGED <<chat, panel, offered>>
        BY <1>1, <1>5, Zenon DEF others
    <2>2. ActsTyped' /\ acting'[h] = None /\ \A g \in Handlers \ {h} : acting'[g] = acting[g]
        BY <2>1, ActEnds, Zenon DEF AdminInv, AdminTypes
    <2>3. AdminTypes'
        BY <1>1, <2>1, <2>2, KeptFits, Zenon DEF AdminInv, AdminTypes
    <2>4. ASSUME ~overlapped' PROVE Truthful'
        <3>1. Busy(acting[h]) /\ ~Busy(acting'[h])
            BY <1>1, <2>2, Zenon DEF Busy
        <3>2. ASSUME ~overlapped PROVE UserKnown' /\ Confirmable'
            <4>1. data.user # None /\ acting[h].item = <<data.user, data.until>>
                BY <1>1, <3>1, <3>2, Zenon DEF AdminInv, Truthful, ActSays
            <4>2. item[1] = data.user
                BY <4>1, SMT
            <4> QED BY <1>5, <4>1, <4>2, Zenon
        <3> QED BY <2>2, <2>4, <3>1, <3>2, EndTruth, Zenon DEF AdminInv
    <2> QED BY <2>3, <2>4, AdminNext, Zenon
<1>6. CASE item[1] # None
    <2>1. /\ chat' = Sent(<<"exact", item>>) /\ panel' = Admin!Older(panel)
          /\ acting' = [k \in Handlers |->
               IF others[k] = None THEN None ELSE [others[k] EXCEPT !.at = Admin!Older(others[k].at)]]
          /\ offered' = <<"exact", item>>
        BY <1>1, <1>6, AdminSent, Zenon
    <2>2. ASSUME NEW g \in Handlers
          PROVE  /\ acting'[g] \in Acts \cup {None}
                 /\ g = h => acting'[g] = None
                 /\ \/ ~Busy(acting'[g])
                    \/ /\ Busy(acting[g])
                       /\ acting'[g].does = acting[g].does /\ acting'[g].item = acting[g].item
        <3>1. CASE others[g] = None
            BY <2>1, <3>1, Zenon DEF Busy
        <3>2. CASE others[g] # None
            <4>1. g # h /\ others[g] = acting[g]
                BY <1>4, <3>2, Zenon
            <4>2. acting[g] \in Acts
                BY <3>2, <4>1, ActIs, Zenon DEF AdminInv, AdminTypes
            <4>3. Admin!Older(acting[g].at) \in {"new", "old", None}
                BY <4>2, ActAt, Zenon DEF Admin!Older
            <4>4. acting'[g] = [acting[g] EXCEPT !.at = Admin!Older(acting[g].at)]
                BY <2>1, <3>2, <4>1, Zenon
            <4> QED BY <3>2, <4>1, <4>2, <4>3, <4>4, ActElsewhere, Zenon DEF Busy
        <3> QED BY <3>1, <3>2, Zenon
    <2>3. ActsTyped'
        <3>1. acting' = [g \in Handlers |-> acting'[g]]
            BY <2>1, Zenon
        <3> QED BY <2>2, <3>1, ActsWritten, Zenon
    <2>4. item \in (Users \cup {None}) \X Dates
        BY <1>1, <1>2, UntilItem, Zenon
    <2>5. offered' \in Offered
        <3>1. item \in Users \X Dates
            BY <1>6, <2>4, SMT
        <3> QED BY <2>1, <3>1, Zenon DEF Offered, Admin!Each
    <2>6. AdminTypes'
        <3>1. ChatFits("admin")'
            BY <2>1, PlainFits, SentFits, Zenon DEF Plains, AdminInv, AdminTypes
        <3> QED BY <1>1, <2>1, <2>3, <2>5, <3>1, PlacesKept, Zenon DEF AdminInv, AdminTypes
    <2>7. ASSUME ~overlapped' PROVE Truthful'
        <3>1. Busy(acting[h]) /\ ~Busy(acting'[h])
            BY <1>1, <2>2, Zenon DEF Busy
        <3>2. ASSUME ~overlapped PROVE UserKnown' /\ Confirmable'
            <4>1. /\ data.user # None /\ acting[h].item = <<data.user, data.until>>
                  /\ fsm.state = "AdminPremium.confirm"
                BY <1>1, <3>1, <3>2, Zenon DEF AdminInv, Truthful, ActSays
            <4>2. fsm'.state # "AdminBroadcast.confirm"
                BY <1>1, <4>1, SMT
            <4> QED BY <1>1, <2>1, <4>1, <4>2, Zenon DEF UserKnown, Confirmable
        <3> QED BY <2>2, <2>7, <3>1, <3>2, EndTruth, Zenon DEF AdminInv
    <2> QED BY <2>6, <2>7, AdminNext, Zenon
<1> QED BY <1>5, <1>6, Zenon

LEMMA PreviewItem == ASSUME NEW act \in Acts, act.does = "preview" PROVE act.item \in Contents
BY SMT DEF Acts

LEMMA PreviewShownKeeps ==
    ASSUME AdminInv, NEW h \in Handlers, Admin!PreviewShown(h), Admin!Overlaps, crossed' = crossed
    PROVE  AdminInv'
<1>1. /\ acting[h] # None /\ acting[h].does = "preview"
      /\ Admin!ShownBy(h, <<"preview", acting[h].item>>) /\ offered' = <<"preview", acting[h].item>>
      /\ UNCHANGED <<fsm, data, panel, people>>
    BY Zenon DEF Admin!PreviewShown, Admin!Does, Admin!Keeps
<1>2. /\ ChatFits("admin")' /\ ActsTyped' /\ acting'[h] = None
      /\ \A g \in Handlers \ {h} : acting'[g] = acting[g]
    BY <1>1, PlainFits, AdminShown, Zenon DEF Plains, AdminInv
<1>3. acting[h].item \in Contents
    BY <1>1, ActIs, PreviewItem, Zenon DEF AdminInv, AdminTypes
<1>4. offered' \in Offered
    BY <1>1, <1>3, Zenon DEF Offered, Admin!Each
<1>5. AdminTypes'
    BY <1>1, <1>2, <1>4, Zenon DEF AdminInv, AdminTypes
<1>6. ASSUME ~overlapped' PROVE Truthful'
    <2>1. Busy(acting[h]) /\ ~Busy(acting'[h])
        BY <1>1, <1>2, Zenon DEF Busy
    <2>2. ASSUME ~overlapped PROVE UserKnown' /\ Confirmable'
        <3>1. fsm.state = "AdminBroadcast.confirm" /\ acting[h].item = data.content
            BY <1>1, <2>1, <2>2, Zenon DEF AdminInv, Truthful, ActSays
        <3>2. fsm'.state # "AdminPremium.confirm"
            BY <1>1, <3>1, SMT
        <3>3. UserKnown'
            BY <1>1, <2>2, Zenon DEF AdminInv, Truthful, UserKnown
        <3> QED BY <1>1, <3>1, <3>2, <3>3, Zenon DEF Confirmable
    <2> QED BY <1>2, <1>6, <2>1, <2>2, EndTruth, Zenon DEF AdminInv
<1> QED BY <1>5, <1>6, AdminNext, Zenon

-----------------------------------------------------------------------------

LEMMA AdminStep == AdminInv /\ Admin!Next => AdminInv'
<1> SUFFICES ASSUME AdminInv, Admin!Next PROVE AdminInv'
    OBVIOUS
<1>1. Admin!Overlaps /\ crossed' = crossed
    BY Zenon DEF Admin!Next
<1>2. ASSUME AdminMoved PROVE AdminInv'
    BY <1>1, <1>2, MovedKeeps, Zenon
<1>3. AdminTypes
    BY Zenon DEF AdminInv
<1>4. CASE \/ Admin!admin_command \/ Admin!refresh_game \/ Admin!giveaway_url
    BY <1>2, <1>3, <1>4, AnswersMove, Zenon
<1>5. CASE Admin!giveaway_title
    <2>1. PICK p \in Places : TRUE
        BY Zenon DEF Places
    <2> QED BY <1>2, <1>3, <1>5, <2>1, AsksMove, Zenon
<1>6. CASE Admin!admin_user_edit_save \/ Admin!admin_premium_search \/ Admin!admin_premium_manual_days
    BY <1>2, <1>3, <1>6, EditSaveMoves, SearchMoves, DaysMove, Zenon
<1>7. CASE Admin!admin_premium_exact_input \/ Admin!broadcast_preview
    BY <1>1, <1>7, ExactInputKeeps, PreviewKeeps, Zenon
<1>8. ASSUME NEW p \in Places, NEW b \in Admin!Buttons(p), Admin!Press(p, b)
      PROVE  AdminInv'
    <2>1. CASE Admin!admin_premium_manual_start(p, b)
        BY <1>1, <2>1, ManualStartKeeps, Zenon
    <2>2. CASE ~Admin!admin_premium_manual_start(p, b)
        BY <1>2, <1>3, <1>8, <2>2, PressesMove, Zenon
    <2> QED BY <2>1, <2>2, Zenon
<1>9. ASSUME NEW h \in Handlers,
             \/ Admin!ManualPrompted(h) \/ Admin!ExactOffered(h) \/ Admin!PreviewShown(h)
             \/ Admin!BroadcastDone(h)
      PROVE  AdminInv'
    BY <1>1, <1>2, <1>3, <1>9, ManualPromptedKeeps, ExactOfferedKeeps, PreviewShownKeeps,
       BroadcastDoneMoves, Zenon
<1> QED BY <1>4, <1>5, <1>6, <1>7, <1>8, <1>9, Zenon DEF Admin!Next, Places

LEMMA AdminFirst == Admin!Init => AdminInv
<1> SUFFICES ASSUME Admin!Init PROVE AdminInv
    OBVIOUS
<1>1. /\ fsm = Admin!Idle /\ panel = None /\ crossed = FALSE /\ overlapped = FALSE
      /\ chat = [new |-> <<"main", None>>, old |-> None]
      /\ people = Users /\ data = Admin!NoData /\ offered = None
      /\ acting = [h \in Handlers |-> None]
    BY Zenon DEF Admin!Init, Admin!DialogInit
<1>2. ChatFits("admin")
    <2>1. Fits("admin", <<"main", None>>)
        BY AdminPlain, SMT
    <2> QED BY <1>1, <2>1, FirstFits, Zenon
<1>3. ActsTyped /\ \A h \in Handlers : ~Busy(acting[h])
    BY <1>1, Zenon DEF ActsTyped, Busy
<1>4. AdminTypes
    BY <1>1, <1>2, <1>3, NotWaiting, NothingTyped, Zenon DEF AdminTypes
<1>5. UserKnown /\ Confirmable
    BY <1>1, NotWaiting, Zenon DEF UserKnown, Confirmable, Waiting
<1> QED BY <1>1, <1>3, <1>4, <1>5, Zenon DEF AdminInv, Truthful

\* What the invariant is for.
LEMMA AdminConfirms == AdminInv => Admin!ConfirmsWhatWasShown
<1> SUFFICES ASSUME AdminInv, ~overlapped, \A h \in Handlers : ~Admin!Between(h)
             PROVE  Confirmable
    BY Zenon DEF Admin!ConfirmsWhatWasShown, Confirmable
<1> QED BY BetweenIs, Zenon DEF AdminInv, Truthful

LEMMA ActParts ==
    ASSUME NEW act \in Acts
    PROVE  /\ act.does \in {"days", "exact", "until", "preview", "broadcast"}
           /\ act.at \in {"new", "old", None}
BY SMT DEF Acts

LEMMA AdminTyped == AdminInv => Admin!TypeOK
<1> SUFFICES ASSUME AdminInv PROVE Admin!TypeOK
    OBVIOUS
<1>1. DOMAIN chat = {"new", "old"} /\ NameOf(chat.old) \in Kept \cup {""}
    BY ChatTyped, Zenon DEF AdminInv, AdminTypes
<1>2. Admin!NameOf(chat.old) = NameOf(chat.old)
    BY Zenon DEF Admin!NameOf, NameOf
<1>3. /\ data.user \in Users \cup {None} /\ data.until \in Dates \cup {None}
      /\ data.content \in Contents \cup {None}
    BY SMT DEF AdminInv, AdminTypes, Data
<1>4. \A h \in Handlers : acting[h] # None =>
        /\ acting[h].does \in {"days", "exact", "until", "preview", "broadcast"}
        /\ acting[h].at \in {"new", "old", None}
    BY ActIs, ActParts, Zenon DEF AdminInv, AdminTypes
<1>5. offered \in {None} \cup Admin!Each("exact", Users \X Dates) \cup Admin!Each("preview", Contents)
    BY Zenon DEF AdminInv, AdminTypes, Offered
<1>6. /\ fsm \in Admin!States /\ panel \in {"new", "old", None} /\ crossed \in BOOLEAN
      /\ people \subseteq Users /\ overlapped \in BOOLEAN
    BY Zenon DEF AdminInv, AdminTypes
<1> QED BY <1>1, <1>2, <1>3, <1>4, <1>5, <1>6, Zenon DEF Admin!TypeOK, Admin!Nothing

-----------------------------------------------------------------------------
(* Watch rules: the screens, their buttons, and the states they work in.   *)

LEMMA WatchPlain ==
    ASSUME NEW name, NEW item, NEW f,
           name \notin {"results", "notice", "gate", "about", "ask", "rules"}
    PROVE  Good("watch", <<name, item>>, f)
<1>1. NameOf(<<name, item>>) \in {"", name}
    BY NameIs, Zenon
<1>2. /\ "" \notin {"results", "notice", "gate", "about", "ask", "rules"}
      /\ "watch" \notin {"admin", "user"}
    BY SMT
<1> QED BY <1>1, <1>2, Zenon DEF Good, Fits, WatchFits, Alive

LEMMA WatchResults ==
    ASSUME NEW found, found \subseteq Games
    PROVE  Good("watch", <<"results", found>>, Watch!At("AddGame.select", None, None))
<1>1. /\ NameOf(<<"results", found>>) \in {"", "results"}
      /\ <<"results", found>>[2] = found
    BY SMT DEF NameOf
<1>2. /\ {"", "results"} \cap {"notice", "gate", "about", "ask", "rules"} = {}
      /\ "watch" \notin {"admin", "user"}
    BY SMT
<1> QED BY <1>1, <1>2, Zenon DEF Good, Fits, WatchFits, Alive

LEMMA WatchRules ==
    ASSUME NEW g
    PROVE  Good("watch", <<"rules", g>>, Watch!At("AddGame.rule", g, None))
<1>1. /\ NameOf(<<"rules", g>>) \in {"", "rules"}
      /\ <<"rules", g>>[2] = g
    BY SMT DEF NameOf
<1>2. /\ {"", "rules"} \cap {"results", "notice", "gate", "about", "ask"} = {}
      /\ "watch" \notin {"admin", "user"}
    BY SMT
<1> QED BY <1>1, <1>2, Zenon DEF Good, Fits, WatchFits, Alive

LEMMA WatchNotice ==
    ASSUME NEW target \in {"menu:games", "menu:premium"}, NEW f
    PROVE  Good("watch", Watch!Notice(target), f)
<1>1. /\ NameOf(<<"notice", target>>) \in {"", "notice"}
      /\ <<"notice", target>>[2] = target
    BY SMT DEF NameOf
<1>2. /\ {"", "notice"} \cap {"results", "gate", "about", "ask", "rules"} = {}
      /\ "watch" \notin {"admin", "user"}
    BY SMT
<1> QED BY <1>1, <1>2, Zenon DEF Good, Fits, WatchFits, Alive, Watch!Notice

LEMMA WatchGate ==
    ASSUME NEW back, back[1] = "watch", NEW f
    PROVE  Good("watch", Watch!Gate(back), f)
<1>1. /\ NameOf(<<"gate", back>>) \in {"", "gate"}
      /\ <<"gate", back>>[2] = back
    BY SMT DEF NameOf
<1>2. /\ {"", "gate"} \cap {"results", "notice", "about", "ask", "rules"} = {}
      /\ "watch" \notin {"admin", "user"}
    BY SMT
<1> QED BY <1>1, <1>2, Zenon DEF Good, Fits, WatchFits, Alive, Watch!Gate

LEMMA WatchAbout ==
    ASSUME NEW back, back[1] = "watch" \/ back[1] = "menu:premium", NEW f
    PROVE  Good("watch", <<"about", back>>, f)
<1>1. /\ NameOf(<<"about", back>>) \in {"", "about"}
      /\ <<"about", back>>[2] = back
    BY SMT DEF NameOf
<1>2. /\ {"", "about"} \cap {"results", "notice", "gate", "ask", "rules"} = {}
      /\ "watch" \notin {"admin", "user"}
    BY SMT
<1> QED BY <1>1, <1>2, Zenon DEF Good, Fits, WatchFits, Alive

LEMMA WatchAsk ==
    ASSUME NEW f
    PROVE  Good("watch", Watch!Ask(f), f)
<1>1. /\ NameOf(<<"ask", f>>) \in {"", "ask"}
      /\ <<"ask", f>>[2] = f
    BY SMT DEF NameOf
<1>2. /\ {"", "ask"} \cap {"results", "notice", "gate", "about", "rules"} = {}
      /\ "watch" \notin {"admin", "user"}
    BY SMT
<1> QED BY <1>1, <1>2, Zenon DEF Good, Fits, WatchFits, Alive, Watch!Ask

\* The buttons that say which game was chosen, or what to explain.
Tells(b) == b[1] = "game" \/ b[1] = "premium:info:"

\* The first are those of results, the second that of a gate.
LEMMA ToldByScreens ==
    ASSUME NEW s, Fits("watch", s), s # None, NEW b \in Watch!Keyboard(s), Tells(b)
    PROVE  \/ b[1] = "game" /\ b[2] \in Games
           \/ b[1] = "premium:info:" /\ b[2][1] = "watch"
<1> USE DEF Tells
<1>1. CASE s[1] = "main"
    BY <1>1, SMT DEF Watch!Keyboard, Watch!Plain, Watch!Each, Watch!Home, Watch!main_keyboard
<1>2. CASE s[1] = "list"
    BY <1>2, SMT DEF Watch!Keyboard, Watch!Plain, Watch!Each, Watch!Home, Watch!watch_list_keyboard
<1>3. CASE s[1] = "ask"
    BY <1>3, SMT DEF Watch!Keyboard, Watch!Plain, Watch!Each, Watch!Home, Watch!back_keyboard
<1>4. CASE s[1] = "results"
    <2>1. NameOf(s) = "results"
        BY <1>4, Zenon DEF NameOf
    <2>2. s[2] \subseteq Games
        BY <2>1, Zenon DEF Fits, WatchFits
    <2>3. Watch!Keyboard(s) = Watch!games_keyboard(s[2])
        BY <1>4, SMT DEF Watch!Keyboard, Watch!Plain, Watch!Each, Watch!Home, Watch!games_keyboard
    <2>4. (\E g \in s[2] : b = <<"game", g>>) \/ b = <<"menu:home", None>>
        BY <2>3, Zenon DEF Watch!Plain, Watch!Each, Watch!Home, Watch!games_keyboard
    <2>5. b # <<"menu:home", None>> /\ \A g : b = <<"game", g>> => b[1] = "game" /\ b[2] = g
        BY SMT
    <2> QED BY <2>2, <2>4, <2>5, Zenon
<1>5. CASE s[1] = "rules"
    BY <1>5, SMT DEF Watch!Keyboard, Watch!Plain, Watch!Each, Watch!Home, Watch!rule_keyboard
<1>6. CASE s[1] = "card"
    BY <1>6, SMT DEF Watch!Keyboard, Watch!Plain, Watch!Each, Watch!Home, Watch!watch_card_keyboard
<1>7. CASE s[1] = "retry"
    BY <1>7, SMT DEF Watch!Keyboard, Watch!Plain, Watch!Each, Watch!Home, Watch!watch_card_keyboard
<1>8. CASE s[1] = "filters"
    BY <1>8, SMT DEF Watch!Keyboard, Watch!Plain, Watch!Each, Watch!Home, Watch!premium_filters_keyboard
<1>9. CASE s[1] = "notice"
    <2>1. NameOf(s) = "notice"
        BY <1>9, Zenon DEF NameOf
    <2>2. s[2] = "menu:games" \/ s[2] = "menu:premium"
        BY <2>1, Zenon DEF Fits, WatchFits
    <2>3. b \in {<<s[2], None>>, <<"menu:home", None>>}
        BY <1>9, SMT DEF Watch!Keyboard, Watch!Plain, Watch!Each, Watch!Home, Watch!back_keyboard
    <2> QED BY <2>2, <2>3, SMT
<1>10. CASE s[1] = "gate"
    <2>1. NameOf(s) = "gate"
        BY <1>10, Zenon DEF NameOf
    <2>2. s[2][1] = "watch"
        BY <2>1, Zenon DEF Fits, WatchFits
    <2>3. b \in {<<"buy", None>>, <<"premium:info:", s[2]>>, s[2]}
        BY <1>10, SMT DEF Watch!Keyboard, Watch!Plain, Watch!Each, Watch!Home, Watch!premium_gate_keyboard
    <2>4. /\ b # <<"buy", None>> /\ (b = <<"premium:info:", s[2]>> => b[2] = s[2])
          /\ b[1] # "watch"
        BY SMT
    <2>5. b = <<"premium:info:", s[2]>>
        BY <2>2, <2>3, <2>4, Zenon
    <2>6. b[1] = "premium:info:"
        BY <2>5, SMT
    <2> QED BY <2>2, <2>4, <2>5, <2>6, Zenon
<1>11. CASE s[1] = "offer"
    BY <1>11, SMT DEF Watch!Keyboard, Watch!Plain, Watch!Each, Watch!Home, Watch!premium_keyboard
<1>12. CASE s[1] = "active"
    BY <1>12, SMT DEF Watch!Keyboard, Watch!Plain, Watch!Each, Watch!Home, Watch!active_premium_keyboard
<1>13. CASE s[1] = "about"
    <2>1. NameOf(s) = "about"
        BY <1>13, Zenon DEF NameOf
    <2>2. s[2][1] = "watch" \/ s[2][1] = "menu:premium"
        BY <2>1, Zenon DEF Fits, WatchFits
    <2>3. b \in {<<"buy", None>>, s[2]}
        BY <1>13, SMT DEF Watch!Keyboard, Watch!Plain, Watch!Each, Watch!Home, Watch!premium_info_return_keyboard
    <2>4. b # <<"buy", None>> /\ b[1] # "watch" /\ b[1] # "menu:premium"
        BY SMT
    <2> QED BY <2>2, <2>3, <2>4, Zenon
<1>14. CASE s[1] = "invoice"
    BY <1>14, SMT DEF Watch!Keyboard, Watch!Plain, Watch!Each, Watch!Home, Watch!invoice_keyboard
<1>15. CASE s[1] = "thanks"
    BY <1>15, SMT DEF Watch!Keyboard, Watch!Plain, Watch!Each, Watch!Home, Watch!dismiss_keyboard
<1>16. CASE s[1] = "elsewhere"
    BY <1>16, SMT DEF Watch!Keyboard, Watch!Plain, Watch!Each, Watch!Home
<1>17. CASE /\ s[1] # "main"
           /\ s[1] # "list"
           /\ s[1] # "ask"
           /\ s[1] # "results"
           /\ s[1] # "rules"
           /\ s[1] # "card"
           /\ s[1] # "retry"
           /\ s[1] # "filters"
           /\ s[1] # "notice"
           /\ s[1] # "gate"
           /\ s[1] # "offer"
           /\ s[1] # "active"
           /\ s[1] # "about"
           /\ s[1] # "invoice"
           /\ s[1] # "thanks"
           /\ s[1] # "elsewhere"
    <2>1. Watch!Keyboard(s) = {}
        BY <1>17, Zenon DEF Watch!Keyboard
    <2> QED BY <2>1, Zenon
<1> QED BY <1>1, <1>2, <1>3, <1>4, <1>5, <1>6, <1>7, <1>8, <1>9, <1>10, <1>11, <1>12, <1>13, <1>14, <1>15, <1>16, <1>17, Zenon

-----------------------------------------------------------------------------
(* Watch rules: the calls of _save_watch, and the messages.                *)

SaveRecords ==
    [game : Games, at : {"new", "old", "text"}, limit : Nat \cup {None}, existing : BOOLEAN]

SavesTyped == saving \in [Saves -> SaveRecords \cup {None}]

\* A save that is past its check, and holds the lock on the user's row.
Checked(save) == save # None /\ save.limit # None

\* What becomes of a save that passes no check; its message may move.
SameSave(save, moved) ==
    Checked(moved) =>
      /\ Checked(save)
      /\ moved.game = save.game /\ moved.limit = save.limit /\ moved.existing = save.existing

SameSaves == \A s \in Saves : SameSave(saving[s], saving'[s])

KeepsSaves(moved) ==
    /\ moved \in [Saves -> SaveRecords \cup {None}]
    /\ \A s \in Saves : SameSave(saving[s], moved[s])

\* The message of a save, after a new message and after one was deleted.
LEMMA PlacesOfSaves ==
    ASSUME NEW save \in SaveRecords
    PROVE  /\ Watch!Older(save.at) \in {"new", "old", "text"}
           /\ Watch!Newer(save.at) \in {"new", "old", "text"}
BY SMT DEF SaveRecords, Watch!Older, Watch!Newer

LEMMA SavesMoved ==
    ASSUME SavesTyped, NEW at \in [Saves -> {"new", "old", "text"}], NEW moved,
           moved = [s \in Saves |->
             IF saving[s] = None THEN None ELSE [saving[s] EXCEPT !.at = at[s]]]
    PROVE  KeepsSaves(moved)
<1>1. ASSUME NEW s \in Saves
      PROVE  moved[s] \in SaveRecords \cup {None} /\ SameSave(saving[s], moved[s])
    <2>1. CASE saving[s] = None
        BY <2>1, Zenon DEF Checked, SameSave
    <2>2. CASE saving[s] # None
        <3>1. saving[s] \in SaveRecords /\ at[s] \in {"new", "old", "text"}
            BY <2>2, Zenon DEF SavesTyped
        <3> DEFINE other == [saving[s] EXCEPT !.at = at[s]]
        <3>2. moved[s] = other
            BY <2>2, Zenon
        <3>3. /\ other \in SaveRecords /\ other.game = saving[s].game
              /\ other.limit = saving[s].limit /\ other.existing = saving[s].existing
            BY <3>1, SMT DEF SaveRecords
        <3> HIDE DEF other
        <3> QED BY <2>2, <3>2, <3>3, Zenon DEF Checked, SameSave
    <2> QED BY <2>1, <2>2, Zenon
<1>2. moved \in [Saves -> SaveRecords \cup {None}]
    BY <1>1, Zenon
<1> QED BY <1>1, <1>2, Zenon DEF KeepsSaves

LEMMA OlderKept == SavesTyped => KeepsSaves(Watch!OlderSaves)
<1> SUFFICES ASSUME SavesTyped PROVE KeepsSaves(Watch!OlderSaves)
    OBVIOUS
<1> DEFINE at == [s \in Saves |-> IF saving[s] = None THEN "new" ELSE Watch!Older(saving[s].at)]
<1>1. \A s \in Saves : saving[s] # None => saving[s] \in SaveRecords
    BY Zenon DEF SavesTyped
<1>2. at \in [Saves -> {"new", "old", "text"}]
    BY <1>1, PlacesOfSaves, Zenon
<1>3. Watch!OlderSaves = [s \in Saves |->
        IF saving[s] = None THEN None ELSE [saving[s] EXCEPT !.at = at[s]]]
    BY Zenon DEF Watch!OlderSaves, Watch!SavesAt
<1> HIDE DEF at
<1> QED BY <1>2, <1>3, SavesMoved, Zenon

LEMMA NewerKept == SavesTyped => KeepsSaves(Watch!SavesAt(Watch!Newer))
<1> SUFFICES ASSUME SavesTyped PROVE KeepsSaves(Watch!SavesAt(Watch!Newer))
    OBVIOUS
<1> DEFINE at == [s \in Saves |-> IF saving[s] = None THEN "new" ELSE Watch!Newer(saving[s].at)]
<1>1. \A s \in Saves : saving[s] # None => saving[s] \in SaveRecords
    BY Zenon DEF SavesTyped
<1>2. at \in [Saves -> {"new", "old", "text"}]
    BY <1>1, PlacesOfSaves, Zenon
<1>3. Watch!SavesAt(Watch!Newer) = [s \in Saves |->
        IF saving[s] = None THEN None ELSE [saving[s] EXCEPT !.at = at[s]]]
    BY Zenon DEF Watch!SavesAt
<1> HIDE DEF at
<1> QED BY <1>2, <1>3, SavesMoved, Zenon

LEMMA AllKept == SavesTyped => KeepsSaves(saving)
BY Zenon DEF SavesTyped, KeepsSaves, SameSave

\* Other than that one of them ends.
LEMMA OneEnds ==
    ASSUME NEW moved, KeepsSaves(moved), NEW s \in Saves
    PROVE  KeepsSaves([moved EXCEPT ![s] = None]) /\ [moved EXCEPT ![s] = None][s] = None
<1> DEFINE after == [moved EXCEPT ![s] = None]
<1>1. after \in [Saves -> SaveRecords \cup {None}] /\ after[s] = None
    BY Zenon DEF KeepsSaves
<1>2. \A t \in Saves : after[t] = None \/ after[t] = moved[t]
    BY Zenon DEF KeepsSaves
<1> HIDE DEF after
<1>3. KeepsSaves(after)
    BY <1>1, <1>2, Zenon DEF KeepsSaves, SameSave, Checked
<1> QED BY <1>1, <1>3, Zenon DEF after

LEMMA SavesFollow == KeepsSaves(saving') => SavesTyped' /\ SameSaves
BY Zenon DEF KeepsSaves, SavesTyped, SameSaves

\* The instance's operators on messages are Dialog's.
LEMMA WatchMessages ==
    /\ \A s : Watch!NameOf(s) = NameOf(s)
    /\ \A p, s : Watch!Edited(p, s) = Edited(p, s)
    /\ \A s : Watch!Sent(s) = Sent(s)
    /\ \A s, instead : Watch!Retained(s, instead) = Retained(s, instead)
    /\ \A p, uncovers : Watch!Closed(p, uncovers) = Closed(p, uncovers)
<1>1. \A s : Watch!NameOf(s) = NameOf(s)
    BY Zenon DEF Watch!NameOf, NameOf
<1>2. \A s, instead : Watch!Retained(s, instead) = Retained(s, instead)
    BY <1>1, Zenon DEF Watch!Retained, Retained
<1>3. ASSUME NEW p, NEW s PROVE Watch!Edited(p, s) = Edited(p, s)
    BY <1>2, Zenon DEF Watch!Edited, Edited
<1>4. ASSUME NEW s PROVE Watch!Sent(s) = Sent(s)
    BY <1>2, Zenon DEF Watch!Sent, Sent
<1>5. ASSUME NEW p, NEW uncovers PROVE Watch!Closed(p, uncovers) = Closed(p, uncovers)
    BY Zenon DEF Watch!Closed, Closed
<1> QED BY <1>1, <1>2, <1>3, <1>4, <1>5, Zenon

\* The chat after a step, and the saves that know their messages.
WatchWritten == ChatFits("watch")' /\ Works("watch") /\ SavesTyped' /\ SameSaves

LEMMA WatchShows ==
    ASSUME ChatFits("watch"), SavesTyped, NEW p \in Places, NEW screen,
           Good("watch", screen, fsm'), Watch!Shows(p, screen)
    PROVE  WatchWritten
<1>1. chat' = Edited(p, screen) /\ saving' = saving
    BY WatchMessages, Zenon DEF Watch!Shows
<1>2. ChatFits("watch")' /\ chat'.new \in {chat.new, screen}
    BY <1>1, EditedFits, Zenon DEF Good
<1>3. Works("watch")
    BY <1>2, Zenon DEF Works, Good
<1> QED BY <1>1, <1>2, <1>3, AllKept, SavesFollow, Zenon DEF WatchWritten

LEMMA WatchSends ==
    ASSUME ChatFits("watch"), SavesTyped, NEW screen,
           Good("watch", screen, fsm'), Watch!Sends(screen)
    PROVE  WatchWritten
<1>1. chat' = Sent(screen) /\ saving' = Watch!OlderSaves
    BY WatchMessages, Zenon DEF Watch!Sends
<1>2. ChatFits("watch")' /\ chat'.new = screen
    BY <1>1, SentFits, Zenon DEF Good
<1>3. Works("watch")
    BY <1>2, Zenon DEF Works, Good
<1> QED BY <1>1, <1>2, <1>3, OlderKept, SavesFollow, Zenon DEF WatchWritten

LEMMA WatchReplaces ==
    ASSUME ChatFits("watch"), SavesTyped, panel \in {"new", "old", None}, NEW screen,
           Good("watch", screen, fsm'), Watch!ReplacePanel(screen)
    PROVE  WatchWritten
<1>1. CASE panel = None
    <2>1. Watch!Sends(screen)
        BY <1>1, Zenon DEF Watch!ReplacePanel, Watch!Replaced, Watch!Sends
    <2> QED BY <2>1, WatchSends, Zenon
<1>2. CASE panel # None
    <2>1. Watch!Shows(panel, screen) /\ panel \in Places
        BY <1>2, Zenon DEF Watch!ReplacePanel, Watch!Replaced, Watch!Shows, Places
    <2> QED BY <2>1, WatchShows, Zenon
<1> QED BY <1>1, <1>2, Zenon

LEMMA WatchKeeps ==
    ASSUME ChatFits("watch"), SavesTyped, chat' = chat, saving' = saving
    PROVE  WatchWritten
BY KeptFits, AllKept, SavesFollow, Zenon DEF WatchWritten, Works

-----------------------------------------------------------------------------
(* Watch rules: what the handlers leave the dialogue, the rules and the    *)
(* payment in.                                                             *)

WatchTypes ==
    /\ ChatFits("watch") /\ SavesTyped
    /\ fsm \in Watch!Dialogues /\ panel \in {"new", "old", None}
    /\ results = None \/ results \subseteq Games
    /\ rules \in [Games -> {"none", "set", "bare"}] /\ premium \in BOOLEAN

\* The dialogue, and what the data names.
Standing ==
    /\ fsm' \in Watch!Dialogues /\ panel' \in {"new", "old", None}
    /\ results' = None \/ results' \subseteq Games

\* No rule is added.
Keeping ==
    /\ rules' \in [Games -> {"none", "set", "bare"}] /\ premium' \in BOOLEAN
    /\ Watch!Owned' \subseteq Watch!Owned

\* A step that neither adds a rule nor lets a save pass its check.
WatchMoved == WatchWritten /\ Standing /\ Keeping

LEMMA DialoguesAre ==
    /\ Watch!Idle \in Watch!Dialogues /\ Watch!Query \in Watch!Dialogues
    /\ Watch!At("AddGame.select", None, None) \in Watch!Dialogues
    /\ \A g \in Games : Watch!At("AddGame.rule", g, None) \in Watch!Dialogues
    /\ \A g \in Games, k \in Watch!GoalKinds :
         /\ Watch!At("AddGame.value", g, k) \in Watch!Dialogues
         /\ Watch!At("EditWatch.value", g, k) \in Watch!Dialogues
    /\ \A g \in Games, k \in Watch!FilterKinds :
         Watch!At("PremiumFilterSetup.value", g, k) \in Watch!Dialogues
<1>1. /\ Watch!Idle \in Watch!Dialogues /\ Watch!Query \in Watch!Dialogues
      /\ Watch!At("AddGame.select", None, None) \in Watch!Dialogues
    BY Zenon DEF Watch!Dialogues
<1>2. ASSUME NEW g \in Games PROVE Watch!At("AddGame.rule", g, None) \in Watch!Dialogues
    <2>1. Watch!At("AddGame.rule", g, None) \in [state : {"AddGame.rule"}, item : Games, kind : {None}]
        BY SMT DEF Watch!At
    <2> QED BY <2>1, Zenon DEF Watch!Dialogues
<1>3. ASSUME NEW g \in Games, NEW k \in Watch!GoalKinds, NEW v \in {"AddGame.value", "EditWatch.value"}
      PROVE  Watch!At(v, g, k) \in Watch!Dialogues
    <2>1. Watch!At(v, g, k) \in [state : {"AddGame.value", "EditWatch.value"}, item : Games,
                                 kind : Watch!GoalKinds]
        BY SMT DEF Watch!At
    <2> QED BY <2>1, Zenon DEF Watch!Dialogues
<1>4. ASSUME NEW g \in Games, NEW k \in Watch!FilterKinds
      PROVE  Watch!At("PremiumFilterSetup.value", g, k) \in Watch!Dialogues
    <2>1. Watch!At("PremiumFilterSetup.value", g, k) \in
            [state : {"PremiumFilterSetup.value"}, item : Games, kind : Watch!FilterKinds]
        BY SMT DEF Watch!At
    <2> QED BY <2>1, Zenon DEF Watch!Dialogues
<1> QED BY <1>1, <1>2, <1>3, <1>4, Zenon

\* The dialogues that are about a game.
LEMMA AboutAGame ==
    ASSUME NEW f, f \in Watch!Dialogues,
           f.state \in {"AddGame.rule", "AddGame.value", "EditWatch.value", "PremiumFilterSetup.value"}
    PROVE  f.item \in Games
<1>1. CASE f \in {Watch!Idle, Watch!Query, Watch!At("AddGame.select", None, None)}
    <2>1. /\ Watch!Idle.state = "" /\ Watch!Query.state = "AddGame.query"
          /\ Watch!At("AddGame.select", None, None).state = "AddGame.select"
        BY SMT DEF Watch!Idle, Watch!Query, Watch!At
    <2>2. {"AddGame.rule", "AddGame.value", "EditWatch.value", "PremiumFilterSetup.value"}
            \cap {"", "AddGame.query", "AddGame.select"} = {}
        BY SMT
    <2> QED BY <1>1, <2>1, <2>2, Zenon
<1>2. CASE f \in [state : {"AddGame.rule"}, item : Games, kind : {None}]
    BY <1>2, SMT
<1>3. CASE f \in [state : {"AddGame.value", "EditWatch.value"}, item : Games, kind : Watch!GoalKinds]
    BY <1>3, SMT
<1>4. CASE f \in [state : {"PremiumFilterSetup.value"}, item : Games, kind : Watch!FilterKinds]
    BY <1>4, SMT
<1> QED BY <1>1, <1>2, <1>3, <1>4, Zenon DEF Watch!Dialogues

\* The only dialogue that waits for a title.
LEMMA QueryOnly ==
    ASSUME NEW f, f \in Watch!Dialogues, f.state = "AddGame.query"
    PROVE  f = Watch!Query
<1>1. /\ Watch!Idle.state = "" /\ Watch!At("AddGame.select", None, None).state = "AddGame.select"
    BY SMT DEF Watch!Idle, Watch!At
<1>2. "AddGame.query" # "" /\ "AddGame.query" # "AddGame.select"
    BY SMT
<1>3. f \notin [state : {"AddGame.rule"}, item : Games, kind : {None}]
    BY SMT
<1>4. f \notin [state : {"AddGame.value", "EditWatch.value"}, item : Games, kind : Watch!GoalKinds]
    BY SMT
<1>5. f \notin [state : {"PremiumFilterSetup.value"}, item : Games, kind : Watch!FilterKinds]
    BY SMT
<1> QED BY <1>1, <1>2, <1>3, <1>4, <1>5, Zenon DEF Watch!Dialogues

LEMMA WatchStays == Watch!Stays => fsm' = fsm /\ results' = results /\ panel' = panel
BY SMT DEF Watch!Stays

LEMMA Stands ==
    ASSUME WatchTypes, NEW f \in Watch!Dialogues, NEW p \in {"new", "old", None},
           \/ Watch!Stays \/ Watch!Goes \/ Watch!Clears
           \/ Watch!Enters(f, p) \/ Watch!SetsData(f, p)
    PROVE  Standing
<1>1. CASE Watch!Stays
    BY <1>1, WatchStays, Zenon DEF Standing, WatchTypes
<1>2. CASE Watch!Goes
    <2>1. fsm' = fsm /\ results' = results /\ panel' = Watch!Older(panel)
        BY <1>2, SMT DEF Watch!Goes
    <2> QED BY <2>1, Zenon DEF Standing, WatchTypes, Watch!Older
<1>3. CASE Watch!Clears
    BY <1>3, DialoguesAre, Zenon DEF Standing, Watch!Clears
<1>4. CASE Watch!Enters(f, p)
    BY <1>4, Zenon DEF Standing, Watch!Enters, WatchTypes
<1>5. CASE Watch!SetsData(f, p)
    BY <1>5, Zenon DEF Standing, Watch!SetsData
<1> QED BY <1>1, <1>2, <1>3, <1>4, <1>5, Zenon

LEMMA RulesKept ==
    ASSUME WatchTypes, rules' = rules
    PROVE  rules' \in [Games -> {"none", "set", "bare"}] /\ Watch!Owned' = Watch!Owned
BY Zenon DEF WatchTypes, Watch!Owned

LEMMA UserKept == WatchTypes /\ Watch!KeepsUser => Keeping
<1> SUFFICES ASSUME WatchTypes, Watch!KeepsUser PROVE Keeping
    OBVIOUS
<1>1. rules' = rules /\ premium' = premium
    BY SMT DEF Watch!KeepsUser
<1> QED BY <1>1, RulesKept, Zenon DEF Keeping, WatchTypes

\* A rule that the user has is changed, or a rule is deleted.
LEMMA RuleChanged ==
    ASSUME WatchTypes, premium' = premium, NEW r, NEW after \in {"none", "set", "bare"},
           r \in Watch!Owned \/ after = "none", rules' = [rules EXCEPT ![r] = after]
    PROVE  Keeping
<1>1. rules' \in [Games -> {"none", "set", "bare"}]
    BY Zenon DEF WatchTypes
<1>2. ASSUME NEW g \in Games, rules'[g] # "none" PROVE rules[g] # "none"
    <2>1. CASE g = r
        <3>1. rules'[g] = after
            BY <2>1, Zenon DEF WatchTypes
        <3> QED BY <1>2, <2>1, <3>1, Zenon DEF Watch!Owned
    <2>2. CASE g # r
        BY <1>2, <2>2, Zenon DEF WatchTypes
    <2> QED BY <2>1, <2>2, Zenon
<1>3. Watch!Owned' \subseteq Watch!Owned
    BY <1>2, Zenon DEF Watch!Owned
<1> QED BY <1>1, <1>3, Zenon DEF Keeping, WatchTypes

LEMMA OpensMoves ==
    ASSUME WatchTypes, NEW p \in Places, NEW screen, Good("watch", screen, fsm), Watch!Opens(p, screen)
    PROVE  WatchMoved
<1>1. fsm' = fsm
    BY WatchStays, Zenon DEF Watch!Opens
<1>2. WatchWritten
    BY <1>1, WatchShows, Zenon DEF Watch!Opens, WatchTypes
<1> QED BY <1>2, Stands, UserKept, Zenon DEF Watch!Opens, WatchMoved, WatchTypes

LEMMA AlertsMoves == WatchTypes /\ Watch!Alerts => WatchMoved
<1> SUFFICES ASSUME WatchTypes, Watch!Alerts PROVE WatchMoved
    OBVIOUS
<1>1. /\ chat' = chat /\ saving' = saving /\ fsm' = fsm /\ results' = results /\ panel' = panel
      /\ rules' = rules /\ premium' = premium
    BY SMT DEF Watch!Alerts
<1> QED BY <1>1, WatchKeeps, RulesKept, Zenon DEF WatchMoved, Standing, Keeping, WatchTypes

-----------------------------------------------------------------------------
(* Watch rules: the presses.                                               *)

WatchPlains ==
    {"main", "list", "card", "retry", "filters", "offer", "active", "elsewhere", "not_owned",
     "limit", "invoice", "thanks", "receipt"}

LEMMA WatchPlainFits == ASSUME NEW name \in WatchPlains, NEW item, NEW f PROVE Good("watch", <<name, item>>, f)
<1>1. name \notin {"results", "notice", "gate", "about", "ask", "rules"}
    BY SMT DEF WatchPlains
<1> QED BY <1>1, WatchPlain, Zenon

LEMMA PremiumFits == ASSUME NEW f PROVE Good("watch", Watch!PremiumScreen, f)
<1>1. (IF premium THEN "active" ELSE "offer") \in WatchPlains
    BY Zenon DEF WatchPlains
<1> QED BY <1>1, WatchPlainFits, Zenon DEF Watch!PremiumScreen

\* What the buttons of a message tell, whose screen fits.
LEMMA ToldByButtons ==
    ASSUME WatchTypes, NEW p \in Places, NEW b \in Watch!Buttons(p)
    PROVE  /\ b[1] = "game" => b[2] \in Games
           /\ b[1] = "premium:info:" => b[2][1] = "watch"
<1>1. chat[p] # None /\ b \in Watch!Keyboard(chat[p])
    BY Zenon DEF Watch!Buttons
<1>2. p = "new" \/ p = "old"
    BY Zenon DEF Places
<1>3. chat[p] = chat.new \/ chat[p] = chat.old
    BY <1>2, SMT
<1>4. Fits("watch", chat[p])
    BY <1>3, Zenon DEF WatchTypes, ChatFits
<1>5. ASSUME Tells(b)
      PROVE  (b[1] = "game" /\ b[2] \in Games) \/ (b[1] = "premium:info:" /\ b[2][1] = "watch")
    BY <1>1, <1>4, <1>5, ToldByScreens, Zenon
<1>6. ~(b[1] = "game" /\ b[1] = "premium:info:")
    BY SMT
<1> QED BY <1>5, <1>6, Zenon DEF Tells

LEMMA MenuMoves ==
    ASSUME WatchTypes, NEW p \in Places, NEW b,
           \/ Watch!menu_home(p, b) \/ Watch!Elsewhere(p, b) \/ Watch!my_games(p, b)
    PROVE  WatchMoved
<1>1. CASE Watch!menu_home(p, b)
    <2>1. WatchWritten
        BY <1>1, WatchPlainFits, WatchShows, Zenon DEF Watch!menu_home, WatchPlains, WatchTypes
    <2> QED BY <1>1, <2>1, Stands, DialoguesAre, UserKept, Zenon DEF Watch!menu_home, WatchMoved
<1>2. CASE Watch!Elsewhere(p, b)
    <2>1. WatchWritten
        BY <1>2, WatchPlainFits, WatchShows, Zenon DEF Watch!Elsewhere, WatchPlains, WatchTypes
    <2> QED BY <1>2, <2>1, Stands, DialoguesAre, UserKept, Zenon DEF Watch!Elsewhere, WatchMoved
<1>3. CASE Watch!my_games(p, b)
    BY <1>3, WatchPlainFits, OpensMoves, Zenon DEF Watch!my_games, WatchPlains
<1> QED BY <1>1, <1>2, <1>3, Zenon

LEMMA WatchSearchMoves ==
    ASSUME WatchTypes, NEW p \in Places, NEW b \in Watch!Buttons(p),
           \/ Watch!search_start(p, b) \/ Watch!select_game(p, b) \/ Watch!search_results(p, b)
    PROVE  WatchMoved
<1> p \in {"new", "old", None}
    BY Zenon DEF Places
<1>1. CASE Watch!search_start(p, b)
    <2>1. fsm' = Watch!Query
        BY <1>1, Zenon DEF Watch!search_start, Watch!Enters
    <2>2. WatchWritten
        BY <1>1, <2>1, WatchAsk, WatchShows, Zenon DEF Watch!search_start, WatchTypes
    <2> QED BY <1>1, <2>2, Stands, DialoguesAre, UserKept, Zenon DEF Watch!search_start, WatchMoved
<1>2. CASE Watch!select_game(p, b)
    <2>1. CASE Watch!Alerts
        BY <2>1, AlertsMoves, Zenon
    <2>2. CASE ~Watch!Alerts
        <3>1. /\ b[1] = "game" /\ fsm' = Watch!At("AddGame.rule", b[2], None)
              /\ UNCHANGED <<results, panel>>
              /\ Watch!Shows(p, <<"rules", b[2]>>) /\ Watch!KeepsUser
            BY <1>2, <2>2, Zenon DEF Watch!select_game
        <3>2. results' = results /\ panel' = panel
            BY <3>1, SMT
        <3>3. b[2] \in Games
            BY <3>1, ToldByButtons, Zenon
        <3>4. WatchWritten
            BY <3>1, WatchRules, WatchShows, Zenon DEF WatchTypes
        <3>5. Standing
            BY <3>1, <3>2, <3>3, DialoguesAre, Zenon DEF Standing, WatchTypes
        <3> QED BY <3>1, <3>4, <3>5, UserKept, Zenon DEF WatchMoved
    <2> QED BY <2>1, <2>2, Zenon
<1>3. CASE Watch!search_results(p, b)
    <2> DEFINE found == IF results = None THEN {} ELSE results
    <2>1. /\ fsm' = Watch!At("AddGame.select", None, None) /\ UNCHANGED <<results, panel>>
          /\ Watch!Shows(p, <<"results", found>>) /\ Watch!KeepsUser
        BY <1>3, Zenon DEF Watch!search_results
    <2>2. results' = results /\ panel' = panel
        BY <2>1, SMT
    <2>3. found \subseteq Games
        BY Zenon DEF WatchTypes
    <2> HIDE DEF found
    <2>4. WatchWritten
        BY <2>1, <2>3, WatchResults, WatchShows, Zenon DEF WatchTypes
    <2>5. Standing
        BY <2>1, <2>2, DialoguesAre, Zenon DEF Standing, WatchTypes
    <2> QED BY <2>1, <2>4, <2>5, UserKept, Zenon DEF WatchMoved
<1> QED BY <1>1, <1>2, <1>3, Zenon

\* A call of _save_watch begins: it is not past its check.
LEMMA SaveStartsMoves ==
    ASSUME WatchTypes, NEW g \in Games, NEW at \in {"new", "old", "text"}, Watch!SaveStarts(g, at)
    PROVE  WatchMoved
<1>1. /\ chat' = chat /\ Watch!Stays /\ Watch!KeepsUser
      /\ \E s \in Saves : saving' = [saving EXCEPT ![s] = Watch!SaveOf(g, at)]
    BY Zenon DEF Watch!SaveStarts
<1>2. PICK s \in Saves : saving' = [saving EXCEPT ![s] = Watch!SaveOf(g, at)]
    BY <1>1, Zenon
<1>3. /\ Watch!SaveOf(g, at) \in SaveRecords /\ Watch!SaveOf(g, at).limit = None
    BY SMT DEF Watch!SaveOf, SaveRecords
<1>4. SavesTyped'
    BY <1>2, <1>3, Zenon DEF SavesTyped, WatchTypes
<1>5. ASSUME NEW t \in Saves, Checked(saving'[t])
      PROVE  saving'[t] = saving[t]
    <2>1. t # s
        BY <1>2, <1>3, <1>5, Zenon DEF Checked, SavesTyped, WatchTypes
    <2> QED BY <1>2, <2>1, Zenon DEF SavesTyped, WatchTypes
<1>6. SameSaves
    BY <1>5, Zenon DEF SameSaves, SameSave
<1>7. WatchWritten
    BY <1>1, <1>4, <1>6, KeptFits, Zenon DEF WatchWritten, Works, WatchTypes
<1> QED BY <1>1, <1>7, Stands, DialoguesAre, UserKept, Zenon DEF WatchMoved, WatchTypes

LEMMA RuleMoves ==
    ASSUME WatchTypes, NEW p \in Places, NEW b, Watch!select_rule(p, b)
    PROVE  WatchMoved
<1>0. p \in {"new", "old", None} /\ p \in {"new", "old", "text"}
    BY Zenon DEF Places
<1>1. fsm.item \in Games
    BY AboutAGame, Zenon DEF Watch!select_rule, WatchTypes
<1>2. CASE Watch!SaveStarts(fsm.item, p)
    BY <1>0, <1>1, <1>2, SaveStartsMoves, Zenon
<1>3. CASE ~Watch!SaveStarts(fsm.item, p)
    <2>1. PICK k \in Watch!GoalKinds :
            /\ Watch!Enters(Watch!At("AddGame.value", fsm.item, k), p)
            /\ Watch!Shows(p, Watch!Ask(Watch!At("AddGame.value", fsm.item, k))) /\ Watch!KeepsUser
        BY <1>3, Zenon DEF Watch!select_rule
    <2> DEFINE next == Watch!At("AddGame.value", fsm.item, k)
    <2>2. fsm' = next /\ next \in Watch!Dialogues
        BY <1>1, <2>1, DialoguesAre, Zenon DEF Watch!Enters
    <2> HIDE DEF next
    <2>3. WatchWritten
        BY <2>1, <2>2, WatchAsk, WatchShows, Zenon DEF WatchTypes, next
    <2>4. Standing
        BY <1>0, <2>1, <2>2, Stands, Zenon DEF next
    <2> QED BY <2>1, <2>3, <2>4, UserKept, Zenon DEF WatchMoved
<1> QED BY <1>2, <1>3, Zenon

LEMMA CardMoves ==
    ASSUME WatchTypes, NEW p \in Places, NEW b,
           \/ Watch!watch_card(p, b) \/ Watch!watch_refresh(p, b) \/ Watch!watch_notifications(p, b)
           \/ Watch!filter_toggle(p, b)
    PROVE  WatchMoved
<1>1. ASSUME NEW name \in {"card", "retry", "filters", "not_owned"}, Watch!Opens(p, <<name, b[2]>>)
      PROVE  WatchMoved
    BY <1>1, WatchPlainFits, OpensMoves, Zenon DEF WatchPlains
<1>2. ASSUME Watch!Opens(p, <<"not_owned", None>>) PROVE WatchMoved
    BY <1>2, WatchPlainFits, OpensMoves, Zenon DEF WatchPlains
<1>3. ASSUME Watch!Opens(p, Watch!Notice("menu:games")) PROVE WatchMoved
    BY <1>3, WatchNotice, OpensMoves, Zenon
<1>4. ASSUME Watch!Alerts PROVE WatchMoved
    BY <1>4, AlertsMoves, Zenon
<1>5. CASE Watch!watch_card(p, b)
    BY <1>1, <1>4, <1>5, Zenon DEF Watch!watch_card
<1>6. CASE Watch!watch_refresh(p, b)
    BY <1>1, <1>2, <1>4, <1>6, Zenon DEF Watch!watch_refresh
<1>7. CASE Watch!watch_notifications(p, b)
    BY <1>1, <1>3, <1>4, <1>7, Zenon DEF Watch!watch_notifications
<1>8. CASE Watch!filter_toggle(p, b)
    BY <1>1, <1>4, <1>8, Zenon DEF Watch!filter_toggle
<1> QED BY <1>5, <1>6, <1>7, <1>8, Zenon

LEMMA DeleteMoves ==
    ASSUME WatchTypes, NEW p \in Places, NEW b, Watch!watch_delete(p, b)
    PROVE  WatchMoved
<1>1. /\ rules' = [rules EXCEPT ![b[2]] = "none"] /\ Watch!Shows(p, Watch!Notice("menu:games"))
      /\ Watch!Stays /\ premium' = premium
    BY Zenon DEF Watch!watch_delete
<1>2. WatchWritten
    BY <1>1, WatchNotice, WatchShows, Zenon DEF WatchTypes
<1>3. Standing
    BY <1>1, Stands, DialoguesAre, Zenon DEF WatchTypes
<1>4. Keeping
    BY <1>1, RuleChanged, Zenon
<1> QED BY <1>2, <1>3, <1>4, Zenon DEF WatchMoved

\* A prompt for a value of the rule.
LEMMA AsksFor ==
    ASSUME WatchTypes, NEW p \in Places, NEW next \in Watch!Dialogues,
           \/ Watch!Enters(next, p) \/ Watch!SetsData(next, p),
           Watch!Shows(p, Watch!Ask(next)), Watch!KeepsUser
    PROVE  WatchMoved
<1>1. fsm' = next
    BY Zenon DEF Watch!Enters, Watch!SetsData
<1>2. WatchWritten
    BY <1>1, WatchAsk, WatchShows, Zenon DEF WatchTypes
<1>3. Standing
    BY Stands, Zenon DEF Places
<1> QED BY <1>2, <1>3, UserKept, Zenon DEF WatchMoved

LEMMA OwnedAreGames == Watch!Owned \subseteq Games
BY Zenon DEF Watch!Owned

LEMMA EditMoves ==
    ASSUME WatchTypes, NEW p \in Places, NEW b, Watch!watch_edit(p, b)
    PROVE  WatchMoved
<1>1. CASE Watch!Opens(p, Watch!Notice("menu:games"))
    BY <1>1, WatchNotice, OpensMoves, Zenon
<1>2. CASE b[2] \in Watch!Owned /\ \E k \in Watch!GoalKinds : Watch!AskValue(p, b[2], k)
    <2>1. PICK k \in Watch!GoalKinds : Watch!AskValue(p, b[2], k)
        BY <1>2, Zenon
    <2>2. Watch!At("EditWatch.value", b[2], k) \in Watch!Dialogues
        BY <1>2, OwnedAreGames, DialoguesAre, Zenon
    <2> QED BY <2>1, <2>2, AsksFor, Zenon DEF Watch!AskValue
<1> QED BY <1>1, <1>2, Zenon DEF Watch!watch_edit

LEMMA FiltersMoves ==
    ASSUME WatchTypes, NEW p \in Places, NEW b, Watch!watch_filters(p, b) \/ Watch!filter_value_start(p, b)
    PROVE  WatchMoved
<1>1. CASE Watch!Alerts
    BY <1>1, AlertsMoves, Zenon
<1>2. CASE Watch!watch_filters(p, b)
    <2>1. <<"watch", b[2]>>[1] = "watch"
        BY SMT
    <2>2. CASE Watch!Opens(p, Watch!Gate(<<"watch", b[2]>>))
        BY <2>1, <2>2, WatchGate, OpensMoves, Zenon
    <2>3. CASE Watch!Opens(p, <<"filters", b[2]>>)
        BY <2>3, WatchPlainFits, OpensMoves, Zenon DEF WatchPlains
    <2> QED BY <1>1, <1>2, <2>2, <2>3, Zenon DEF Watch!watch_filters
<1>3. CASE Watch!filter_value_start(p, b) /\ ~Watch!Alerts
    <2>1. PICK k \in Watch!FilterKinds :
            /\ b[2] \in Watch!Owned
            /\ Watch!SetsData(Watch!At("PremiumFilterSetup.value", b[2], k), p)
            /\ Watch!Shows(p, Watch!Ask(Watch!At("PremiumFilterSetup.value", b[2], k)))
            /\ Watch!KeepsUser
        BY <1>3, Zenon DEF Watch!filter_value_start
    <2>2. Watch!At("PremiumFilterSetup.value", b[2], k) \in Watch!Dialogues
        BY <2>1, OwnedAreGames, DialoguesAre, Zenon
    <2> QED BY <2>1, <2>2, AsksFor, Zenon
<1> QED BY <1>1, <1>2, <1>3, Zenon

LEMMA PremiumMoves ==
    ASSUME WatchTypes, NEW p \in Places, NEW b \in Watch!Buttons(p),
           Watch!premium_screens(p, b) \/ Watch!buy_premium(p, b)
    PROVE  WatchMoved
<1>1. CASE b[1] = "menu:premium" /\ Watch!Opens(p, Watch!PremiumScreen)
    BY <1>1, PremiumFits, OpensMoves, Zenon
<1>2. CASE Watch!Opens(p, <<"offer", None>>)
    BY <1>2, WatchPlainFits, OpensMoves, Zenon DEF WatchPlains
<1>3. CASE Watch!Opens(p, Watch!Notice("menu:premium"))
    BY <1>3, WatchNotice, OpensMoves, Zenon
<1>4. CASE Watch!Opens(p, <<"about", <<"menu:premium", None>>>>)
    <2>1. <<"menu:premium", None>>[1] = "menu:premium"
        BY SMT
    <2>2. Good("watch", <<"about", <<"menu:premium", None>>>>, fsm)
        BY <2>1, WatchAbout, Zenon
    <2> QED BY <1>4, <2>2, OpensMoves, Zenon
<1>5. CASE b[1] = "premium:info:" /\ Watch!Opens(p, <<"about", b[2]>>)
    <2>1. b[2][1] = "watch"
        BY <1>5, ToldByButtons, Zenon
    <2>2. Good("watch", <<"about", b[2]>>, fsm)
        BY <2>1, WatchAbout, Zenon
    <2> QED BY <1>5, <2>2, OpensMoves, Zenon
<1>6. CASE Watch!buy_premium(p, b)
    <2>1. WatchWritten
        BY <1>6, WatchPlainFits, WatchSends, Zenon DEF Watch!buy_premium, WatchPlains, WatchTypes
    <2> QED BY <1>6, <2>1, Stands, DialoguesAre, UserKept, Zenon DEF Watch!buy_premium, WatchMoved, WatchTypes
<1> QED BY <1>1, <1>2, <1>3, <1>4, <1>5, <1>6, Zenon DEF Watch!premium_screens

LEMMA WatchPressMoves ==
    ASSUME WatchTypes, NEW p \in Places, NEW b \in Watch!Buttons(p), Watch!Press(p, b)
    PROVE  WatchMoved
BY MenuMoves, WatchSearchMoves, RuleMoves, CardMoves, DeleteMoves, EditMoves, FiltersMoves, PremiumMoves,
   Zenon DEF Watch!Press

-----------------------------------------------------------------------------
(* Watch rules: the messages of the user.                                  *)

LEMMA CommandsMove == WatchTypes /\ Watch!Commands => WatchMoved
<1> SUFFICES ASSUME WatchTypes, Watch!Commands PROVE WatchMoved
    OBVIOUS
<1>1. PICK screen \in {<<"main", None>>, <<"list", Watch!Owned>>, Watch!PremiumScreen,
                       <<"elsewhere", None>>} : Watch!Sends(screen)
    BY Zenon DEF Watch!Commands
<1>2. Good("watch", screen, fsm')
    BY WatchPlainFits, PremiumFits, Zenon DEF WatchPlains
<1>3. WatchWritten
    BY <1>1, <1>2, WatchSends, Zenon DEF WatchTypes
<1> QED BY <1>3, Stands, DialoguesAre, UserKept, Zenon DEF Watch!Commands, WatchMoved, WatchTypes

LEMMA SearchCommandMoves == WatchTypes /\ Watch!watch_command => WatchMoved
<1> SUFFICES ASSUME WatchTypes, Watch!watch_command PROVE WatchMoved
    OBVIOUS
<1>1. fsm' = Watch!Query
    BY Zenon DEF Watch!watch_command, Watch!Enters
<1>2. WatchWritten
    BY <1>1, WatchAsk, WatchSends, Zenon DEF Watch!watch_command, WatchTypes
<1>3. Standing
    BY Stands, DialoguesAre, Zenon DEF Watch!watch_command
<1> QED BY <1>2, <1>3, UserKept, Zenon DEF Watch!watch_command, WatchMoved

LEMMA PanelStays == WatchTypes => Watch!PanelAfter \in {"new", "old", None}
BY Zenon DEF WatchTypes, Watch!PanelAfter

LEMMA SearchGameMoves == WatchTypes /\ Watch!search_game => WatchMoved
<1> SUFFICES ASSUME WatchTypes, Watch!search_game PROVE WatchMoved
    OBVIOUS
<1>1. PICK found \in Finds :
        IF found = {} THEN Watch!ReplacePanel(Watch!Ask(Watch!Query)) /\ UNCHANGED <<fsm, results>>
        ELSE /\ fsm' = Watch!At("AddGame.select", None, None) /\ results' = found
             /\ Watch!ReplacePanel(<<"results", found>>)
    BY Zenon DEF Watch!search_game
<1>2. panel' \in {"new", "old", None} /\ Watch!KeepsUser
    BY PanelStays, Zenon DEF Watch!search_game
<1>3. CASE found = {}
    <2>1. Watch!ReplacePanel(Watch!Ask(Watch!Query)) /\ UNCHANGED <<fsm, results>>
        BY <1>1, <1>3, Zenon
    <2>2. fsm' = fsm /\ results' = results
        BY <2>1, SMT
    <2>3. fsm = Watch!Query
        BY QueryOnly, Zenon DEF Watch!search_game, WatchTypes
    <2>4. WatchWritten
        BY <2>1, <2>2, <2>3, WatchAsk, WatchReplaces, Zenon DEF WatchTypes
    <2> QED BY <1>2, <2>2, <2>4, UserKept, Zenon DEF WatchMoved, Standing, WatchTypes
<1>4. CASE found # {}
    <2>1. /\ fsm' = Watch!At("AddGame.select", None, None) /\ results' = found
          /\ Watch!ReplacePanel(<<"results", found>>)
        BY <1>1, <1>4, Zenon
    <2>2. found \subseteq Games
        BY DialogsAssumption, Zenon
    <2>3. WatchWritten
        BY <2>1, <2>2, WatchResults, WatchReplaces, Zenon DEF WatchTypes
    <2> QED BY <1>2, <2>1, <2>2, <2>3, DialoguesAre, UserKept, Zenon DEF WatchMoved, Standing
<1> QED BY <1>3, <1>4, Zenon

LEMMA RuleValueMoves == WatchTypes /\ Watch!rule_value => WatchMoved
<1> SUFFICES ASSUME WatchTypes, Watch!rule_value PROVE WatchMoved
    OBVIOUS
<1>1. fsm.item \in Games
    BY AboutAGame, Zenon DEF Watch!rule_value, WatchTypes
<1> QED BY <1>1, SaveStartsMoves, Zenon DEF Watch!rule_value

LEMMA InvalidMoves == WatchTypes /\ Watch!InvalidValue => WatchMoved
<1> SUFFICES ASSUME WatchTypes, Watch!InvalidValue PROVE WatchMoved
    OBVIOUS
<1>1. /\ UNCHANGED <<fsm, results>> /\ panel' = Watch!PanelAfter /\ Watch!KeepsUser
      /\ Watch!ReplacePanel(Watch!Ask(fsm))
    BY Zenon DEF Watch!InvalidValue
<1>2. fsm' = fsm /\ results' = results
    BY <1>1, SMT
<1>3. WatchWritten
    BY <1>1, <1>2, WatchAsk, WatchReplaces, Zenon DEF WatchTypes
<1>4. Standing
    BY <1>1, <1>2, PanelStays, Zenon DEF Standing, WatchTypes
<1> QED BY <1>1, <1>3, <1>4, UserKept, Zenon DEF WatchMoved

LEMMA EditValueMoves == WatchTypes /\ Watch!watch_edit_value => WatchMoved
<1> SUFFICES ASSUME WatchTypes, Watch!watch_edit_value PROVE WatchMoved
    OBVIOUS
<1>1. Watch!Clears /\ premium' = premium
    BY Zenon DEF Watch!watch_edit_value
<1>2. CASE fsm.item \notin Watch!Owned
    <2>1. Watch!ReplacePanel(Watch!Notice("menu:games")) /\ rules' = rules
        BY <1>2, Zenon DEF Watch!watch_edit_value
    <2>2. WatchWritten
        BY <2>1, WatchNotice, WatchReplaces, Zenon DEF WatchTypes
    <2> QED BY <1>1, <2>1, <2>2, Stands, DialoguesAre, RulesKept, Zenon DEF WatchMoved, Keeping, WatchTypes
<1>3. CASE fsm.item \in Watch!Owned
    <2>1. /\ Watch!ReplacePanel(<<"card", fsm.item>>)
          /\ rules' = [rules EXCEPT ![fsm.item] = "set"]
        BY <1>3, Zenon DEF Watch!watch_edit_value
    <2>2. WatchWritten
        BY <2>1, WatchPlainFits, WatchReplaces, Zenon DEF WatchPlains, WatchTypes
    <2>3. Keeping
        BY <1>1, <1>3, <2>1, RuleChanged, Zenon
    <2> QED BY <1>1, <2>2, <2>3, Stands, DialoguesAre, Zenon DEF WatchMoved, WatchTypes
<1> QED BY <1>2, <1>3, Zenon

LEMMA FilterValueMoves == WatchTypes /\ Watch!filter_value_save => WatchMoved
<1> SUFFICES ASSUME WatchTypes, Watch!filter_value_save PROVE WatchMoved
    OBVIOUS
<1>1. Watch!Clears /\ premium' = premium
    BY Zenon DEF Watch!filter_value_save
<1>2. CASE Watch!ReplacePanel(<<"offer", None>>) /\ rules' = rules
    <2>2. WatchWritten
        BY <1>2, WatchPlainFits, WatchReplaces, Zenon DEF WatchPlains, WatchTypes
    <2> QED BY <1>1, <1>2, <2>2, Stands, DialoguesAre, RulesKept, Zenon DEF WatchMoved, Keeping, WatchTypes
<1>3. CASE /\ fsm.item \in Watch!Owned /\ Watch!ReplacePanel(<<"filters", fsm.item>>)
           /\ \E after \in IF fsm.kind = "drop" THEN {rules[fsm.item]} ELSE {"set", "bare"} :
                rules' = [rules EXCEPT ![fsm.item] = after]
    <2>1. PICK after \in {"none", "set", "bare"} : rules' = [rules EXCEPT ![fsm.item] = after]
        BY <1>3, OwnedAreGames, Zenon DEF WatchTypes
    <2>2. WatchWritten
        BY <1>3, WatchPlainFits, WatchReplaces, Zenon DEF WatchPlains, WatchTypes
    <2>3. Keeping
        BY <1>1, <1>3, <2>1, RuleChanged, Zenon
    <2> QED BY <1>1, <2>2, <2>3, Stands, DialoguesAre, Zenon DEF WatchMoved, WatchTypes
<1> QED BY <1>2, <1>3, Zenon DEF Watch!filter_value_save

\* A payment that is recorded: the invoice becomes a receipt, or is not known any more.
LEMMA ReceiptFits == Fits("watch", <<"receipt", None>>) /\ Usable(None) /\ Fits("watch", None)
BY WatchPlainFits, NothingFits, Zenon DEF WatchPlains, Good

LEMMA PaidIs ==
    ASSUME ChatFits("watch")
    PROVE  /\ Watch!Paid.new = (IF Watch!NameOf(chat.new) # "invoice" THEN chat.new ELSE <<"receipt", None>>)
           /\ Watch!Paid.old = (IF Watch!NameOf(chat.old) # "invoice" THEN chat.old ELSE None)
           /\ Watch!Paid = [new |-> Watch!Paid.new, old |-> Watch!Paid.old]
<1>1. "old" # "new"
    BY SMT
<1>2. Watch!Paid = [p \in {"new", "old"} |->
           IF Watch!NameOf(chat[p]) # "invoice" THEN chat[p]
           ELSE IF p = "new" THEN <<"receipt", None>> ELSE None]
    BY Zenon DEF Watch!Paid
<1>3. /\ Watch!Paid["new"] = (IF Watch!NameOf(chat["new"]) # "invoice" THEN chat["new"] ELSE <<"receipt", None>>)
      /\ Watch!Paid["old"] = (IF Watch!NameOf(chat["old"]) # "invoice" THEN chat["old"] ELSE None)
      /\ DOMAIN Watch!Paid = {"new", "old"}
    BY <1>1, <1>2, Zenon
<1>4. \E q : Watch!Paid = [p \in {"new", "old"} |-> q[p]]
    BY <1>2, <1>3, Zenon
<1>5. Watch!Paid = [new |-> Watch!Paid.new, old |-> Watch!Paid.old]
    BY <1>4, SMT
<1> QED BY <1>3, <1>5, Zenon

LEMMA PaidFits ==
    ASSUME ChatFits("watch")
    PROVE  /\ Fits("watch", Watch!Paid.new) /\ Fits("watch", Watch!Paid.old) /\ Usable(Watch!Paid.old)
           /\ Watch!Paid.new \in {chat.new, <<"receipt", None>>}
<1>1. Fits("watch", chat.new) /\ Fits("watch", chat.old) /\ Usable(chat.old)
    BY Zenon DEF ChatFits
<1> QED BY <1>1, PaidIs, ReceiptFits, Zenon

LEMMA PaymentMoves == WatchTypes /\ Watch!payment_success => WatchMoved
<1> SUFFICES ASSUME WatchTypes, Watch!payment_success PROVE WatchMoved
    OBVIOUS
<1> DEFINE old == Retained(Watch!Paid.new, Watch!Paid.old)
<1>1. /\ premium' = TRUE /\ chat' = [new |-> <<"thanks", None>>, old |-> old]
      /\ saving' = Watch!OlderSaves /\ Watch!Goes /\ rules' = rules
    BY WatchMessages, Zenon DEF Watch!payment_success
<1>2. Good("watch", <<"thanks", None>>, fsm')
    BY WatchPlainFits, Zenon DEF WatchPlains
<1>3. Usable(old) /\ Fits("watch", old)
    BY PaidFits, RetainedFits, Zenon DEF WatchTypes
<1> HIDE DEF old
<1>4. ChatFits("watch")' /\ chat'.new = <<"thanks", None>>
    BY <1>1, <1>2, <1>3, ChatWritten, Zenon DEF Good
<1>5. WatchWritten
    BY <1>1, <1>2, <1>4, OlderKept, SavesFollow, Zenon DEF WatchWritten, Works, Good, WatchTypes
<1> QED BY <1>1, <1>5, Stands, DialoguesAre, RulesKept, Zenon DEF WatchMoved, Keeping, WatchTypes

LEMMA PaymentTextMoves == WatchTypes /\ Watch!PaymentAsText => WatchMoved
<1> SUFFICES ASSUME WatchTypes, Watch!PaymentAsText PROVE WatchMoved
    OBVIOUS
<1>1. /\ chat' = [Watch!Paid EXCEPT ![panel] = IF panel = "new" THEN Watch!Ask(fsm) ELSE Watch!Paid.old]
      /\ UNCHANGED <<fsm, results, saving, panel>> /\ Watch!KeepsUser
    BY Zenon DEF Watch!PaymentAsText
<1>2. fsm' = fsm /\ results' = results /\ saving' = saving /\ panel' = panel
    BY <1>1, SMT
<1>3. /\ Fits("watch", Watch!Paid.new) /\ Fits("watch", Watch!Paid.old) /\ Usable(Watch!Paid.old)
      /\ Watch!Paid.new \in {chat.new, <<"receipt", None>>}
      /\ Watch!Paid = [new |-> Watch!Paid.new, old |-> Watch!Paid.old]
    BY PaidFits, PaidIs, Zenon DEF WatchTypes
<1> DEFINE new == Watch!Paid.new
           old == Watch!Paid.old
           asks == Watch!Ask(fsm)
<1>4. Good("watch", asks, fsm) /\ Good("watch", <<"receipt", None>>, fsm)
    BY WatchAsk, WatchPlainFits, Zenon DEF WatchPlains
<1> HIDE DEF new, old, asks
<1>5. \E screen \in {chat.new, <<"receipt", None>>, asks} :
        /\ chat' = [new |-> screen, old |-> old] /\ Fits("watch", screen)
    <2>0. /\ Watch!Paid = [new |-> new, old |-> old] /\ new \in {chat.new, <<"receipt", None>>}
          /\ Fits("watch", new)
        BY <1>3, Zenon DEF new, old
    <2>1. CASE panel = "new"
        <3>1. chat' = [Watch!Paid EXCEPT !.new = asks]
            BY <1>1, <2>1, Zenon DEF asks
        <3>2. chat' = [new |-> asks, old |-> old]
            BY <2>0, <3>1, SMT
        <3> QED BY <3>2, <1>4, Zenon DEF Good
    <2>2. CASE panel = "old"
        <3>0. panel # "new"
            BY <2>2, SMT
        <3>1. chat' = [Watch!Paid EXCEPT !.old = old]
            BY <1>1, <2>2, <3>0, Zenon DEF old
        <3>2. chat' = [new |-> new, old |-> old]
            BY <2>0, <3>1, SMT
        <3> QED BY <2>0, <3>2, Zenon
    <2>3. CASE panel \notin {"new", "old"}
        <3>1. chat' = [Watch!Paid EXCEPT ![panel] = old]
            BY <1>1, <2>3, Zenon DEF old
        <3>2. DOMAIN Watch!Paid = {"new", "old"}
            BY Zenon DEF Watch!Paid
        <3>3. chat' = [q \in {"new", "old"} |-> Watch!Paid[q]]
            BY <2>3, <3>1, <3>2, Zenon
        <3>4. chat' = [new |-> new, old |-> old]
            BY <2>0, <3>3, SMT
        <3> QED BY <2>0, <3>4, Zenon
    <2> QED BY <2>1, <2>2, <2>3, Zenon
<1>6. PICK screen \in {chat.new, <<"receipt", None>>, asks} :
        /\ chat' = [new |-> screen, old |-> old] /\ Fits("watch", screen)
    BY <1>5, Zenon
<1>7. Usable(old) /\ Fits("watch", old)
    BY <1>3, Zenon DEF old
<1>8. ChatFits("watch")' /\ chat'.new = screen
    BY <1>6, <1>7, ChatWritten, Zenon
<1>9. Works("watch")
    BY <1>2, <1>4, <1>8, Zenon DEF Works, Good
<1>10. WatchWritten
    BY <1>2, <1>8, <1>9, AllKept, SavesFollow, Zenon DEF WatchWritten, WatchTypes
<1> QED BY <1>1, <1>2, <1>10, UserKept, Zenon DEF WatchMoved, Standing, WatchTypes

LEMMA ExpiryMoves == WatchTypes /\ Watch!PremiumEnds => WatchMoved
<1> SUFFICES ASSUME WatchTypes, Watch!PremiumEnds PROVE WatchMoved
    OBVIOUS
<1>1. /\ chat' = chat /\ saving' = saving /\ fsm' = fsm /\ results' = results /\ panel' = panel
      /\ rules' = rules /\ premium' = FALSE
    BY SMT DEF Watch!PremiumEnds
<1> QED BY <1>1, WatchKeeps, RulesKept, Zenon DEF WatchMoved, Standing, Keeping, WatchTypes

LEMMA MessagesMove == WatchTypes /\ Watch!Message => WatchMoved
BY CommandsMove, SearchCommandMoves, SearchGameMoves, RuleValueMoves, InvalidMoves, EditValueMoves,
   FilterValueMoves, PaymentMoves, PaymentTextMoves, Zenon DEF Watch!Message

-----------------------------------------------------------------------------
(* Watch rules: the invariant.  The lock on the user's row lets one save   *)
(* at a time be past its check, and what the check saw stays true: until   *)
(* that save ends, no other adds a rule.                                   *)

OneCheck == \A s, t \in Saves : Checked(saving[s]) /\ Checked(saving[t]) => s = t

WithinLimit ==
    \A s \in Saves : Checked(saving[s]) /\ ~saving[s].existing =>
      saving[s].game \notin Watch!Owned /\ Cardinality(Watch!Owned) < saving[s].limit

WatchInv ==
    /\ WatchTypes /\ crossed \in BOOLEAN
    /\ ~crossed => Alive("watch", chat.new, fsm)
    /\ OneCheck /\ WithinLimit

\* The step that adds a rule: the save that holds the lock ends within its limit.
Adds ==
    \E s \in Saves : saving[s] # None /\ saving'[s] = None /\ Cardinality(Watch!Owned') <= saving[s].limit

LEMMA WatchCardinality == \A S : Watch!Cardinality(S) = Cardinality(S)
BY Zenon DEF Watch!Cardinality, Cardinality

LEMMA OwnedFinite == IsFiniteSet(Watch!Owned) /\ Cardinality(Watch!Owned) \in Nat
<1>1. IsFiniteSet(Watch!Owned)
    BY OwnedAreGames, FS_Subset, DialogsAssumption, Zenon
<1> QED BY <1>1, FS_CardinalityType, Zenon

\* The newest message works, or another handler changed the dialogue since.
LEMMA LimitKept ==
    ASSUME OneCheck, WithinLimit, SavesTyped, SameSaves, Watch!Owned' \subseteq Watch!Owned
    PROVE  OneCheck' /\ WithinLimit'
<1>1. OneCheck'
    BY Zenon DEF OneCheck, SameSaves, SameSave
<1>2. ASSUME NEW s \in Saves, Checked(saving'[s]), ~saving'[s].existing
      PROVE  saving'[s].game \notin Watch!Owned' /\ Cardinality(Watch!Owned') < saving'[s].limit
    <2>1. /\ Checked(saving[s]) /\ saving'[s].game = saving[s].game
          /\ saving'[s].limit = saving[s].limit /\ saving'[s].existing = saving[s].existing
        BY <1>2, Zenon DEF SameSaves, SameSave
    <2>2. saving[s].game \notin Watch!Owned /\ Cardinality(Watch!Owned) < saving[s].limit
        BY <1>2, <2>1, Zenon DEF WithinLimit
    <2>3. Cardinality(Watch!Owned') \in Nat /\ Cardinality(Watch!Owned') <= Cardinality(Watch!Owned)
        BY OwnedFinite, FS_Subset, FS_CardinalityType, Zenon
    <2>4. saving[s].limit \in Nat
        <3>1. saving[s] \in SaveRecords
            BY <2>1, Zenon DEF Checked, SavesTyped
        <3>2. saving[s].limit \in Nat \cup {None}
            BY <3>1, SMT DEF SaveRecords
        <3> QED BY <2>1, <3>2, Zenon DEF Checked
    <2> DEFINE before == Cardinality(Watch!Owned)
               after == Cardinality(Watch!Owned')
               most == saving[s].limit
    <2>5. before \in Nat /\ after \in Nat /\ most \in Nat /\ before < most /\ after <= before
        BY <2>2, <2>3, <2>4, OwnedFinite, Zenon
    <2> HIDE DEF before, after, most
    <2>6. after < most
        BY <2>5, SMT
    <2> QED BY <2>1, <2>2, <2>6, Zenon DEF after, most
<1>3. WithinLimit'
    BY <1>2, Zenon DEF WithinLimit
<1> QED BY <1>1, <1>3, Zenon

LEMMA WatchMovedKeeps ==
    ASSUME WatchInv, Watch!Crosses, WatchMoved
    PROVE  WatchInv' /\ Watch!Owned' \subseteq Watch!Owned
<1>1. WatchTypes' /\ Watch!Owned' \subseteq Watch!Owned /\ SameSaves
    BY Zenon DEF WatchMoved, WatchWritten, Standing, Keeping, WatchTypes
<1>2. crossed' \in BOOLEAN /\ (~crossed' => Alive("watch", chat'.new, fsm'))
    BY AliveNext, Zenon DEF WatchInv, WatchMoved, WatchWritten, Watch!Crosses
<1>3. OneCheck' /\ WithinLimit'
    BY <1>1, LimitKept, Zenon DEF WatchInv, WatchTypes
<1> QED BY <1>1, <1>2, <1>3, Zenon DEF WatchInv

\* ui:close uncovers a message that was overtaken before.
LEMMA CloseKeeps ==
    ASSUME WatchInv, NEW p \in Places, NEW b, Watch!close_current_message(p, b), Watch!Uncovers(p)
    PROVE  WatchInv' /\ Watch!Owned' \subseteq Watch!Owned
<1>1. PICK uncovers \in BOOLEAN :
        /\ chat' = Closed(p, uncovers)
        /\ panel' = IF p = "new" /\ uncovers THEN Watch!Newer(panel) ELSE panel
        /\ saving' = IF p = "new" /\ uncovers THEN Watch!SavesAt(Watch!Newer) ELSE saving
    BY WatchMessages, Zenon DEF Watch!close_current_message
<1>2. UNCHANGED <<fsm, results>> /\ Watch!KeepsUser
    BY Zenon DEF Watch!close_current_message
<1>3. fsm' = fsm /\ results' = results
    BY <1>2, SMT
<1>4. WatchTypes
    BY Zenon DEF WatchInv
<1>5. ChatFits("watch")' /\ (p = "old" => chat'.new = chat.new)
    BY <1>1, <1>4, ClosedFits, Zenon DEF WatchTypes
<1>6. panel' \in {"new", "old", None}
    BY <1>1, <1>4, Zenon DEF WatchTypes, Watch!Newer
<1>7. SavesTyped' /\ SameSaves
    BY <1>1, <1>4, AllKept, NewerKept, SavesFollow, Zenon DEF WatchTypes
<1>8. Keeping
    BY <1>2, <1>4, UserKept, Zenon
<1>9. WatchTypes' /\ Watch!Owned' \subseteq Watch!Owned
    BY <1>3, <1>4, <1>5, <1>6, <1>7, <1>8, Zenon DEF WatchTypes, Keeping
<1>10. OneCheck' /\ WithinLimit'
    BY <1>4, <1>7, <1>9, LimitKept, Zenon DEF WatchInv, WatchTypes
<1>11. crossed' \in BOOLEAN /\ (~crossed' => ~crossed /\ p # "new")
    BY Zenon DEF Watch!Uncovers
<1>12. ~crossed' => Alive("watch", chat'.new, fsm')
    BY <1>3, <1>5, <1>11, Zenon DEF WatchInv, Places
<1> QED BY <1>9, <1>10, <1>11, <1>12, Zenon DEF WatchInv

LEMMA SaveIs ==
    ASSUME NEW save \in SaveRecords
    PROVE  /\ save.game \in Games /\ save.at \in {"new", "old", "text"}
           /\ save.limit \in Nat \cup {None} /\ save.existing \in BOOLEAN
BY SMT DEF SaveRecords

LEMMA TwoFields ==
    ASSUME NEW game, NEW at, NEW limit, NEW existing, NEW one, NEW answer
    PROVE  [[game |-> game, at |-> at, limit |-> limit, existing |-> existing]
              EXCEPT !.limit = one, !.existing = answer]
             = [game |-> game, at |-> at, limit |-> one, existing |-> answer]
<1> DEFINE first == [game |-> game, at |-> at, limit |-> limit, existing |-> existing]
           second == [game |-> game, at |-> at, limit |-> one, existing |-> existing]
<1>1. [first EXCEPT !.limit = one] = second
    BY SMT
<1>2. [second EXCEPT !.existing = answer] = [game |-> game, at |-> at, limit |-> one, existing |-> answer]
    BY SMT
<1> HIDE DEF first, second
<1>3. [first EXCEPT !.limit = one, !.existing = answer] = [[first EXCEPT !.limit = one] EXCEPT !.existing = answer]
    BY Zenon
<1> QED BY <1>1, <1>2, <1>3, Zenon DEF first

Limited(save, limit, existing) == [save EXCEPT !.limit = limit, !.existing = existing]

LEMMA SaveLimited ==
    ASSUME NEW save \in SaveRecords, NEW limit \in Nat, NEW existing \in BOOLEAN
    PROVE  /\ Limited(save, limit, existing) \in SaveRecords
           /\ Limited(save, limit, existing).game = save.game
           /\ Limited(save, limit, existing).limit = limit
           /\ Limited(save, limit, existing).existing = existing
<1>1. ASSUME NEW answers, NEW limits, NEW one \in limits, NEW answer \in answers,
             save \in [game : Games, at : {"new", "old", "text"}, limit : limits, existing : answers]
      PROVE  /\ [save EXCEPT !.limit = one, !.existing = answer] \in
                  [game : Games, at : {"new", "old", "text"}, limit : limits, existing : answers]
             /\ [save EXCEPT !.limit = one, !.existing = answer].game = save.game
             /\ [save EXCEPT !.limit = one, !.existing = answer].limit = one
             /\ [save EXCEPT !.limit = one, !.existing = answer].existing = answer
    <2>1. save = [game |-> save.game, at |-> save.at, limit |-> save.limit, existing |-> save.existing]
        BY <1>1, SMT
    <2>2. save.game \in Games /\ save.at \in {"new", "old", "text"}
        BY <1>1, SMT
    <2> DEFINE g == save.game
               p == save.at
               other == [save EXCEPT !.limit = one, !.existing = answer]
    <2>a. other = [[game |-> g, at |-> p, limit |-> save.limit, existing |-> save.existing]
                     EXCEPT !.limit = one, !.existing = answer]
        BY <2>1, Zenon
    <2> HIDE DEF other, g, p
    <2>3. other = [game |-> g, at |-> p, limit |-> one, existing |-> answer]
        BY <2>a, TwoFields, Zenon
    <2>4. other.game = g /\ other.limit = one /\ other.existing = answer
        BY <2>3, SMT
    <2>5. [game |-> g, at |-> p, limit |-> one, existing |-> answer] \in
            [game : Games, at : {"new", "old", "text"}, limit : limits, existing : answers]
        BY <2>2, Zenon DEF g, p
    <2> QED BY <2>3, <2>4, <2>5, Zenon DEF other, g
<1>2. limit \in Nat \cup {None}
    BY Zenon
<1> QED BY <1>1, <1>2, Zenon DEF SaveRecords, Limited

LEMMA LockIsFree == Watch!LockFree => \A s \in Saves : ~Checked(saving[s])
BY Zenon DEF Watch!LockFree, Checked

LEMMA SaveChecksKeeps ==
    ASSUME WatchInv, Watch!Crosses, NEW s \in Saves, Watch!SaveChecks(s)
    PROVE  WatchInv' /\ Watch!Owned' \subseteq Watch!Owned
<1> DEFINE limit == IF premium THEN PremiumLimit ELSE FreeLimit
           game == saving[s].game
           full == game \notin Watch!Owned /\ Cardinality(Watch!Owned) >= limit
<1>1. WatchTypes /\ saving[s] # None /\ saving[s] \in SaveRecords
    BY Zenon DEF WatchInv, WatchTypes, SavesTyped, Watch!SaveChecks
<1>2. limit \in Nat
    BY DialogsAssumption, Zenon
<1>3. Watch!KeepsUser /\ \A t \in Saves : ~Checked(saving[t])
    BY LockIsFree, Zenon DEF Watch!SaveChecks
<1>4. CASE full
    <2>1. /\ chat' = Watch!Sent(<<"limit", None>>) /\ saving' = [Watch!OlderSaves EXCEPT ![s] = None]
          /\ Watch!Goes
        BY <1>4, WatchCardinality, Zenon DEF Watch!SaveChecks
    <2>2. KeepsSaves(saving')
        BY <1>1, <2>1, OlderKept, OneEnds, Zenon DEF WatchTypes
    <2>3. Good("watch", <<"limit", None>>, fsm')
        BY WatchPlainFits, Zenon DEF WatchPlains
    <2>4. ChatFits("watch")' /\ chat'.new = <<"limit", None>>
        BY <1>1, <2>1, <2>3, SentFits, WatchMessages, Zenon DEF WatchTypes, Good
    <2>5. WatchWritten
        BY <2>2, <2>3, <2>4, SavesFollow, Zenon DEF WatchWritten, Works, Good
    <2>6. WatchMoved
        BY <1>1, <1>3, <2>1, <2>5, Stands, DialoguesAre, UserKept, Zenon DEF WatchMoved, WatchTypes
    <2> QED BY <2>6, WatchMovedKeeps, Zenon
<1>5. CASE ~full
    <2>1. /\ saving' = [saving EXCEPT ![s].limit = limit, ![s].existing = game \in Watch!Owned]
          /\ chat' = chat /\ Watch!Stays
        BY <1>5, WatchCardinality, Zenon DEF Watch!SaveChecks
    <2> DEFINE known == game \in Watch!Owned
               new == Limited(saving[s], limit, known)
    <2>2. known \in BOOLEAN
        <3>1. CASE game \in Watch!Owned
            BY <3>1, SMT
        <3>2. CASE game \notin Watch!Owned
            BY <3>2, SMT
        <3> QED BY <3>1, <3>2, Zenon
    <2>3. saving' = [saving EXCEPT ![s] = new]
        BY <1>1, <2>1, Zenon DEF WatchTypes, SavesTyped, Limited
    <2> HIDE DEF limit, known, game, full
    <2>4. new \in SaveRecords /\ new.game = game /\ new.limit = limit /\ new.existing = known
        BY <1>1, <1>2, <2>2, SaveLimited, Zenon DEF game
    <2> HIDE DEF new
    <2>5. SavesTyped' /\ saving'[s] = new /\ \A t \in Saves : t # s => saving'[t] = saving[t]
        BY <1>1, <2>3, <2>4, Zenon DEF SavesTyped, WatchTypes
    <2>6. ChatFits("watch")' /\ Works("watch")
        BY <1>1, <2>1, KeptFits, Zenon DEF Works, WatchTypes
    <2>7. Standing /\ Keeping
        BY <1>1, <1>3, <2>1, Stands, DialoguesAre, UserKept, Zenon DEF WatchTypes
    <2>8. WatchTypes' /\ Watch!Owned' = Watch!Owned
        <3>1. rules' = rules
            BY <1>3, SMT DEF Watch!KeepsUser
        <3> QED BY <1>1, <2>5, <2>6, <2>7, <3>1, RulesKept, Zenon DEF WatchTypes, Standing, Keeping
    <2>9. crossed' \in BOOLEAN /\ (~crossed' => Alive("watch", chat'.new, fsm'))
        BY <2>6, AliveNext, Zenon DEF WatchInv, Watch!Crosses
    <2>10. \A t \in Saves : Checked(saving'[t]) => t = s
        BY <1>3, <2>5, Zenon
    <2>11. ~known => game \notin Watch!Owned /\ Cardinality(Watch!Owned) < limit
        <3>1. ASSUME ~known PROVE ~(Cardinality(Watch!Owned) >= limit) /\ game \notin Watch!Owned
            BY <1>5, <3>1, Zenon DEF known, full
        <3> DEFINE owned == Cardinality(Watch!Owned)
        <3>2. owned \in Nat
            BY OwnedFinite, Zenon
        <3> HIDE DEF owned
        <3>3. ~(owned >= limit) => owned < limit
            BY <1>2, <3>2, SMT
        <3> QED BY <3>1, <3>3, Zenon DEF owned
    <2>12. OneCheck'
        BY <2>10, Zenon DEF OneCheck
    <2>13. WithinLimit'
        <3> SUFFICES ASSUME NEW t \in Saves, Checked(saving'[t]), ~saving'[t].existing
                     PROVE  saving'[t].game \notin Watch!Owned' /\ Cardinality(Watch!Owned') < saving'[t].limit
            BY Zenon DEF WithinLimit
        <3>1. saving'[t] = new
            BY <2>5, <2>10, Zenon
        <3> QED BY <2>4, <2>8, <2>11, <3>1, Zenon
    <2> QED BY <2>8, <2>9, <2>12, <2>13, Zenon DEF WatchInv
<1> QED BY <1>4, <1>5, Zenon

LEMMA SaveFailsKeeps ==
    ASSUME WatchInv, Watch!Crosses, NEW s \in Saves, Watch!SaveFails(s)
    PROVE  WatchInv' /\ Watch!Owned' \subseteq Watch!Owned
<1>1. /\ WatchTypes /\ saving' = [saving EXCEPT ![s] = None]
      /\ chat' = chat /\ Watch!Stays /\ Watch!KeepsUser
    BY Zenon DEF WatchInv, Watch!SaveFails
<1>2. KeepsSaves(saving')
    BY <1>1, AllKept, OneEnds, Zenon DEF WatchTypes
<1>3. WatchWritten
    BY <1>1, <1>2, KeptFits, SavesFollow, Zenon DEF WatchWritten, Works, WatchTypes
<1>4. WatchMoved
    BY <1>1, <1>3, Stands, DialoguesAre, UserKept, Zenon DEF WatchMoved, WatchTypes
<1> QED BY <1>4, WatchMovedKeeps, Zenon

\* The card of a finished save is written on a message that is known.
LEMMA SaveCardFits ==
    ASSUME WatchTypes, NEW s \in Saves, saving[s] \in SaveRecords, NEW name \in {"card", "retry"},
           NEW g, chat' = Watch!SaveCard(s, <<name, g>>)
    PROVE  ChatFits("watch")' /\ Works("watch")
<1> DEFINE at == IF saving[s].at = "text" THEN panel ELSE saving[s].at
<1>1. Good("watch", <<name, g>>, fsm')
    BY WatchPlainFits, Zenon DEF WatchPlains
<1>2. at \in Places \/ at = None
    BY SaveIs, Zenon DEF WatchTypes, Places
<1>3. CASE at = None
    <2>1. chat' = Sent(<<name, g>>)
        BY <1>3, WatchMessages, Zenon DEF Watch!SaveCard
    <2>2. ChatFits("watch")' /\ chat'.new = <<name, g>>
        BY <1>1, <2>1, SentFits, Zenon DEF WatchTypes, Good
    <2> QED BY <1>1, <2>2, Zenon DEF Works, Good
<1>4. CASE at # None
    <2>1. chat' = Edited(at, <<name, g>>) /\ at \in Places
        BY <1>2, <1>4, WatchMessages, Zenon DEF Watch!SaveCard
    <2> HIDE DEF at
    <2>2. ChatFits("watch")' /\ chat'.new \in {chat.new, <<name, g>>}
        BY <1>1, <2>1, EditedFits, Zenon DEF WatchTypes, Good
    <2> QED BY <1>1, <2>2, Zenon DEF Works, Good
<1> QED BY <1>3, <1>4, Zenon

\* The end of a save adds its rule, if the user does not have it.
LEMMA RuleAdded ==
    ASSUME WatchTypes, NEW g \in Games, rules' = [rules EXCEPT ![g] = "set"]
    PROVE  /\ rules' \in [Games -> {"none", "set", "bare"}]
           /\ Watch!Owned' = Watch!Owned \cup {g}
<1>1. rules' \in [Games -> {"none", "set", "bare"}]
    BY Zenon DEF WatchTypes
<1>2. "set" # "none"
    BY SMT
<1>3. ASSUME NEW h \in Games PROVE rules'[h] # "none" <=> (rules[h] # "none" \/ h = g)
    BY <1>2, Zenon DEF WatchTypes
<1>4. Watch!Owned' = Watch!Owned \cup {g}
    BY <1>3, Zenon DEF Watch!Owned
<1> QED BY <1>1, <1>4, Zenon

LEMMA SaveEndsKeeps ==
    ASSUME WatchInv, Watch!Crosses, NEW s \in Saves, Watch!SaveEnds(s)
    PROVE  WatchInv' /\ (Watch!Owned' \subseteq Watch!Owned \/ Adds)
<1> DEFINE game == saving[s].game
           others == IF saving[s].at = "text" /\ panel = None THEN Watch!OlderSaves ELSE saving
<1>1. /\ WatchTypes /\ Checked(saving[s]) /\ saving[s] # None /\ saving[s] \in SaveRecords
    BY Zenon DEF WatchInv, WatchTypes, SavesTyped, Watch!SaveEnds, Checked
<1>2. /\ saving' = [others EXCEPT ![s] = None] /\ Watch!Clears /\ premium' = premium
      /\ rules' = (IF Watch!RuleGone(s) THEN rules ELSE [rules EXCEPT ![game] = "set"])
    BY Zenon DEF Watch!SaveEnds
<1>3. PICK name \in {"card", "retry"} : chat' = Watch!SaveCard(s, <<name, game>>)
    BY Zenon DEF Watch!SaveEnds
<1>4. ChatFits("watch")' /\ Works("watch")
    BY <1>1, <1>3, SaveCardFits, Zenon
<1>5. KeepsSaves(others)
    BY <1>1, OlderKept, AllKept, Zenon DEF WatchTypes
<1> HIDE DEF others
<1>6. KeepsSaves(saving') /\ saving'[s] = None
    BY <1>2, <1>5, OneEnds, Zenon
<1>7. SavesTyped' /\ SameSaves
    BY <1>6, SavesFollow, Zenon
<1>8. Standing
    BY <1>1, <1>2, Stands, DialoguesAre, Zenon DEF WatchTypes
<1>9. game \in Games /\ saving[s].limit \in Nat
    BY <1>1, SaveIs, Zenon DEF Checked
<1>10. /\ rules' \in [Games -> {"none", "set", "bare"}]
       /\ Watch!Owned' \subseteq Watch!Owned \/ Adds
    <2>1. CASE Watch!RuleGone(s)
        <3>1. rules' = rules
            BY <1>2, <2>1, Zenon
        <3> QED BY <1>1, <3>1, RulesKept, Zenon
    <2>2. CASE ~Watch!RuleGone(s)
        <3>1. rules' = [rules EXCEPT ![game] = "set"]
            BY <1>2, <2>2, Zenon
        <3>2. /\ rules' \in [Games -> {"none", "set", "bare"}]
              /\ Watch!Owned' = Watch!Owned \cup {game}
            BY <1>1, <1>9, <3>1, RuleAdded, Zenon
        <3>3. CASE game \in Watch!Owned
            BY <3>2, <3>3, Zenon
        <3>4. CASE game \notin Watch!Owned
            <4>1. Cardinality(Watch!Owned) < saving[s].limit
                BY <1>1, <2>2, <3>4, Zenon DEF WatchInv, WithinLimit, Watch!RuleGone
            <4> DEFINE before == Cardinality(Watch!Owned)
                       after == Cardinality(Watch!Owned')
                       most == saving[s].limit
            <4>2. after = before + 1
                BY <3>2, <3>4, OwnedFinite, FS_AddElement, Zenon
            <4>3. before \in Nat /\ most \in Nat /\ before < most
                BY <1>9, <4>1, OwnedFinite, Zenon
            <4> HIDE DEF before, after, most
            <4>4. after <= most
                BY <4>2, <4>3, SMT
            <4> QED BY <1>1, <1>6, <3>2, <4>4, Zenon DEF Adds, after, most
        <3> QED BY <3>2, <3>3, <3>4, Zenon
    <2> QED BY <2>1, <2>2, Zenon
<1>11. WatchTypes'
    BY <1>1, <1>2, <1>4, <1>7, <1>8, <1>10, Zenon DEF WatchTypes, Standing
<1>12. crossed' \in BOOLEAN /\ (~crossed' => Alive("watch", chat'.new, fsm'))
    BY <1>4, AliveNext, Zenon DEF WatchInv, Watch!Crosses
<1>13. \A t \in Saves : ~Checked(saving'[t])
    BY <1>1, <1>6, <1>7, Zenon DEF WatchInv, OneCheck, SameSaves, SameSave, Checked
<1>14. OneCheck' /\ WithinLimit'
    BY <1>13, Zenon DEF OneCheck, WithinLimit
<1> QED BY <1>10, <1>11, <1>12, <1>14, Zenon DEF WatchInv

-----------------------------------------------------------------------------

LEMMA WatchStep ==
    ASSUME WatchInv, Watch!Next
    PROVE  WatchInv' /\ (Watch!Owned' \subseteq Watch!Owned \/ Adds)
<1>1. ASSUME NEW p \in Places, NEW b, Watch!close_current_message(p, b), Watch!Uncovers(p)
      PROVE  WatchInv' /\ (Watch!Owned' \subseteq Watch!Owned \/ Adds)
    BY <1>1, CloseKeeps, Zenon
<1>2. CASE Watch!Step /\ Watch!Crosses
    <2>1. ASSUME WatchMoved PROVE WatchInv' /\ (Watch!Owned' \subseteq Watch!Owned \/ Adds)
        BY <1>2, <2>1, WatchMovedKeeps, Zenon
    <2>2. WatchTypes
        BY Zenon DEF WatchInv
    <2>3. ASSUME NEW p \in Places, NEW b \in Watch!Buttons(p), Watch!Press(p, b)
          PROVE  WatchInv' /\ (Watch!Owned' \subseteq Watch!Owned \/ Adds)
        BY <2>1, <2>2, <2>3, WatchPressMoves, Zenon
    <2>4. CASE Watch!Message \/ Watch!PremiumEnds
        BY <2>1, <2>2, <2>4, MessagesMove, ExpiryMoves, Zenon
    <2>5. ASSUME NEW s \in Saves, Watch!SaveChecks(s) \/ Watch!SaveEnds(s) \/ Watch!SaveFails(s)
          PROVE  WatchInv' /\ (Watch!Owned' \subseteq Watch!Owned \/ Adds)
        BY <1>2, <2>5, SaveChecksKeeps, SaveEndsKeeps, SaveFailsKeeps, Zenon
    <2> QED BY <1>2, <2>3, <2>4, <2>5, Zenon DEF Watch!Step, Places
<1> QED BY <1>1, <1>2, Zenon DEF Watch!Next, Places

LEMMA WatchFirst == Watch!Init => WatchInv
<1> SUFFICES ASSUME Watch!Init PROVE WatchInv
    OBVIOUS
<1>1. /\ fsm = Watch!Idle /\ panel = None /\ crossed = FALSE
      /\ chat = [new |-> <<"main", None>>, old |-> None]
      /\ results = None /\ premium = FALSE
      /\ rules = [g \in Games |-> "none"] /\ saving = [s \in Saves |-> None]
    BY Zenon DEF Watch!Init, Watch!DialogInit
<1>2. Good("watch", <<"main", None>>, fsm)
    BY WatchPlainFits, Zenon DEF WatchPlains
<1>3. ChatFits("watch") /\ chat.new = <<"main", None>>
    BY <1>1, <1>2, FirstFits, Zenon DEF Good
<1>4. SavesTyped /\ \A s \in Saves : ~Checked(saving[s])
    BY <1>1, Zenon DEF SavesTyped, Checked
<1>5. WatchTypes
    BY <1>1, <1>3, <1>4, DialoguesAre, Zenon DEF WatchTypes
<1> QED BY <1>1, <1>2, <1>3, <1>4, <1>5, Zenon DEF WatchInv, OneCheck, WithinLimit, Good

\* What the invariant is for.
LEMMA WatchTyped == WatchInv => Watch!TypeOK
<1> SUFFICES ASSUME WatchInv PROVE Watch!TypeOK
    OBVIOUS
<1>1. WatchTypes /\ crossed \in BOOLEAN
    BY Zenon DEF WatchInv
<1>2. DOMAIN chat = {"new", "old"} /\ Watch!NameOf(chat.old) \in Kept \cup {""}
    BY <1>1, ChatTyped, WatchMessages, Zenon DEF WatchTypes
<1>3. \A s \in Saves : saving[s] # None => saving[s] \in SaveRecords
    BY <1>1, Zenon DEF WatchTypes, SavesTyped
<1> QED BY <1>1, <1>2, <1>3, SaveIs, Zenon DEF WatchTypes, Watch!TypeOK

LEMMA WatchPrompts == WatchInv => PromptIsHeard
<1>1. "watch" # "admin"
    BY SMT
<1> QED BY <1>1, Zenon DEF WatchInv, Alive, PromptIsHeard

LEMMA WatchButtons == WatchInv => Watch!ButtonsAreAlive
<1> SUFFICES ASSUME WatchInv, chat.new # None, ~crossed PROVE fsm \in Watch!Expects(chat.new)
    BY Zenon DEF Watch!ButtonsAreAlive
<1>1. Alive("watch", chat.new, fsm) /\ NameOf(chat.new) = chat.new[1] /\ fsm \in Watch!Dialogues
    BY Zenon DEF WatchInv, WatchTypes, NameOf
<1>2. CASE chat.new[1] = "results"
    <2>1. fsm = Watch!At("AddGame.select", None, None)
        BY <1>1, <1>2, Zenon DEF Alive
    <2> QED BY <1>2, <2>1, Zenon DEF Watch!Expects
<1>3. CASE chat.new[1] = "rules"
    <2>1. fsm = Watch!At("AddGame.rule", chat.new[2], None)
        BY <1>1, <1>3, Zenon DEF Alive
    <2>2. chat.new[1] # "results"
        BY <1>3, SMT
    <2> QED BY <1>3, <2>1, <2>2, Zenon DEF Watch!Expects
<1>4. CASE chat.new[1] \notin {"results", "rules"}
    BY <1>1, <1>4, Zenon DEF Watch!Expects
<1> QED BY <1>2, <1>3, <1>4, Zenon

-----------------------------------------------------------------------------
(* Users: the screens, their buttons, and the states they work in.         *)

\* The screens that say something that their buttons depend on.
UserSpecial ==
    {"section", "notice", "gate", "about", "deals", "ask", "language", "region_groups", "regions",
     "zone_groups", "zones"}

LEMMA UserPlain ==
    ASSUME NEW name, NEW item, NEW f, name \notin UserSpecial
    PROVE  Good("user", <<name, item>>, f)
<1>1. NameOf(<<name, item>>) \in {"", name}
    BY NameIs, Zenon
<1>2. "" \notin UserSpecial /\ "user" \notin {"admin", "watch"}
    BY SMT DEF UserSpecial
<1> QED BY <1>1, <1>2, Zenon DEF Good, Fits, UserFits, Alive, UserSpecial

LEMMA UserSection ==
    ASSUME NEW name \in {"menu:deals", "menu:giveaways"}, NEW f
    PROVE  Good("user", <<"section", name>>, f)
<1>1. /\ NameOf(<<"section", name>>) \in {"", "section"}
      /\ <<"section", name>>[2] = name
    BY SMT DEF NameOf
<1>2. /\ {"", "section"} \cap {"notice", "gate", "about", "deals", "ask", "language", "region_groups", "regions", "zone_groups", "zones"} = {}
      /\ "user" \notin {"admin", "watch"}
    BY SMT
<1> QED BY <1>1, <1>2, Zenon DEF Good, Fits, UserFits, Alive

LEMMA UserNotice ==
    ASSUME NEW f
    PROVE  Good("user", User!Notice("menu:home"), f)
<1>1. /\ NameOf(<<"notice", "menu:home">>) \in {"", "notice"}
      /\ <<"notice", "menu:home">>[2] = "menu:home"
    BY SMT DEF NameOf
<1>2. /\ {"", "notice"} \cap {"section", "gate", "about", "deals", "ask", "language", "region_groups", "regions", "zone_groups", "zones"} = {}
      /\ "user" \notin {"admin", "watch"}
    BY SMT
<1> QED BY <1>1, <1>2, Zenon DEF Good, Fits, UserFits, Alive, User!Notice

LEMMA UserGate ==
    ASSUME NEW back, back[1] = "menu:settings" \/ back[1] = "menu:giveaways" \/ back[1] = "deals:return", NEW f
    PROVE  Good("user", User!Gate(back), f)
<1>1. /\ NameOf(<<"gate", back>>) \in {"", "gate"}
      /\ <<"gate", back>>[2] = back
    BY SMT DEF NameOf
<1>2. /\ {"", "gate"} \cap {"section", "notice", "about", "deals", "ask", "language", "region_groups", "regions", "zone_groups", "zones"} = {}
      /\ "user" \notin {"admin", "watch"}
    BY SMT
<1> QED BY <1>1, <1>2, Zenon DEF Good, Fits, UserFits, Alive, User!Gate

LEMMA UserAbout ==
    ASSUME NEW back, back[1] = "menu:settings" \/ back[1] = "menu:giveaways" \/ back[1] = "deals:return", NEW f
    PROVE  Good("user", <<"about", back>>, f)
<1>1. /\ NameOf(<<"about", back>>) \in {"", "about"}
      /\ <<"about", back>>[2] = back
    BY SMT DEF NameOf
<1>2. /\ {"", "about"} \cap {"section", "notice", "gate", "deals", "ask", "language", "region_groups", "regions", "zone_groups", "zones"} = {}
      /\ "user" \notin {"admin", "watch"}
    BY SMT
<1> QED BY <1>1, <1>2, Zenon DEF Good, Fits, UserFits, Alive

LEMMA UserAsk ==
    ASSUME NEW f
    PROVE  Good("user", User!Ask(f), f)
<1>1. /\ NameOf(<<"ask", f>>) \in {"", "ask"}
      /\ <<"ask", f>>[2] = f
    BY SMT DEF NameOf
<1>2. /\ {"", "ask"} \cap {"section", "notice", "gate", "about", "deals", "language", "region_groups", "regions", "zone_groups", "zones"} = {}
      /\ "user" \notin {"admin", "watch"}
    BY SMT
<1> QED BY <1>1, <1>2, Zenon DEF Good, Fits, UserFits, Alive, User!Ask

LEMMA UserDeals ==
    ASSUME NEW items, NEW page, NEW pages \in 1..MaxPages, NEW f
    PROVE  Good("user", <<"deals", <<items, page, pages>>>>, f)
<1> DEFINE item == <<items, page, pages>>
<1>0. item[3] = pages
    BY SMT
<1> HIDE DEF item
<1>1. /\ NameOf(<<"deals", item>>) \in {"", "deals"}
      /\ <<"deals", item>>[2] = item
    BY SMT DEF NameOf
<1>2. /\ {"", "deals"} \cap {"section", "notice", "gate", "about", "ask", "language", "region_groups", "regions", "zone_groups", "zones"} = {}
      /\ "user" \notin {"admin", "watch"}
    BY SMT
<1>3. Good("user", <<"deals", item>>, f)
    BY <1>0, <1>1, <1>2, Zenon DEF Good, Fits, UserFits, Alive
<1> QED BY <1>3, Zenon DEF item

\* The questions of the onboarding, by their screens.
QuestionOf(screen) ==
    CASE screen = "language" -> "language"
      [] screen = "region_groups" -> "region_group"
      [] screen = "regions" -> "region"
      [] screen = "zone_groups" -> "timezone_group"
      [] screen = "zones" -> "timezone"

Questions == {"language", "region_groups", "regions", "zone_groups", "zones"}

\* A question of the onboarding works in its step, its twin in the profile anywhere.
LEMMA UserQuestion ==
    ASSUME NEW screen \in Questions, NEW f
    PROVE  /\ Good("user", <<screen, FALSE>>, f)
           /\ Good("user", <<screen, TRUE>>, User!Onboarding(QuestionOf(screen)))
<1>1. ASSUME NEW first, NEW name, NEW next, name = QuestionOf(screen), first => next = User!Onboarding(name)
      PROVE  Good("user", <<screen, first>>, next)
    <2>1. NameOf(<<screen, first>>) \in {"", screen}
        BY NameIs, Zenon
    <2>2. <<screen, first>>[2] = first
        BY Zenon
    <2>3. /\ {"", screen} \cap {"section", "notice", "gate", "about", "deals", "ask"} = {}
          /\ "user" \notin {"admin", "watch"} /\ "" \notin Questions
        BY SMT DEF Questions
    <2>4. screen = "language" => name = "language" /\ screen \notin {"region_groups", "regions", "zone_groups", "zones"}
        BY <1>1, SMT DEF QuestionOf
    <2>5. screen = "region_groups" => name = "region_group" /\ screen \notin {"language", "regions", "zone_groups", "zones"}
        BY <1>1, SMT DEF QuestionOf
    <2>6. screen = "regions" => name = "region" /\ screen \notin {"language", "region_groups", "zone_groups", "zones"}
        BY <1>1, SMT DEF QuestionOf
    <2>7. screen = "zone_groups" => name = "timezone_group" /\ screen \notin {"language", "region_groups", "regions", "zones"}
        BY <1>1, SMT DEF QuestionOf
    <2>8. screen = "zones" => name = "timezone" /\ screen \notin {"language", "region_groups", "regions", "zone_groups"}
        BY <1>1, SMT DEF QuestionOf
    <2> QED BY <1>1, <2>1, <2>2, <2>3, <2>4, <2>5, <2>6, <2>7, <2>8, Zenon DEF Good, Fits, UserFits, Alive, Questions
<1> QED BY <1>1, Zenon

\* The buttons that say what the dialogue or a row will hold.
UserTells(b) ==
    b[1] = "region" \/ b[1] = "deals_page" \/ b[1] = "deals_sort" \/ b[1] = "deals_filter"
      \/ b[1] = "premium:info:"

UserTold(b) ==
    \/ b[1] = "region" /\ b[2] \in Regions
    \/ b[1] = "deals_page" /\ b[2] \in 0..MaxPages
    \/ b[1] = "deals_sort" /\ b[2] \in User!Modes
    \/ b[1] = "deals_filter" /\ b = <<"deals_filter", b[2]>>
    \/ /\ b[1] = "premium:info:"
       /\ b[2][1] = "menu:settings" \/ b[2][1] = "menu:giveaways" \/ b[2][1] = "deals:return"

LEMMA ToldToUsers ==
    ASSUME NEW s, Fits("user", s), s # None, NEW b \in User!Keyboard(s), UserTells(b)
    PROVE  UserTold(b)
<1> USE DEF UserTells
<1>1. CASE s[1] = "main"
    BY <1>1, SMT DEF User!Keyboard, User!Plain, User!Each, User!Home, User!main_keyboard
<1>2. CASE s[1] = "elsewhere"
    BY <1>2, SMT DEF User!Keyboard, User!Plain, User!Each, User!Home, User!back_keyboard
<1>3. CASE s[1] = "section"
    <2>1. NameOf(s) = "section"
        BY <1>3, Zenon DEF NameOf
    <2>2. s[2] = "menu:deals" \/ s[2] = "menu:giveaways"
        BY <2>1, Zenon DEF Fits, UserFits
    <2>3. b \in {<<s[2], None>>, <<"menu:home", None>>}
        BY <1>3, SMT DEF User!Keyboard, User!Plain, User!Each, User!Home
    <2> QED BY <2>2, <2>3, SMT
<1>4. CASE s[1] = "notice"
    <2>1. NameOf(s) = "notice"
        BY <1>4, Zenon DEF NameOf
    <2>2. s[2] = "menu:home"
        BY <2>1, Zenon DEF Fits, UserFits
    <2>3. b \in {<<s[2], None>>, <<"menu:home", None>>}
        BY <1>4, SMT DEF User!Keyboard, User!Plain, User!Each, User!Home, User!back_keyboard
    <2> QED BY <2>2, <2>3, SMT
<1>5. CASE s[1] = "gate"
    <2>1. NameOf(s) = "gate"
        BY <1>5, Zenon DEF NameOf
    <2>2. s[2][1] = "menu:settings" \/ s[2][1] = "menu:giveaways" \/ s[2][1] = "deals:return"
        BY <2>1, Zenon DEF Fits, UserFits
    <2>3. b = <<"buy", None>> \/ b = s[2] \/ b = <<"premium:info:", s[2]>>
        BY <1>5, SMT DEF User!Keyboard, User!Plain, User!Each, User!Home, User!premium_gate_keyboard
    <2>4. b # <<"buy", None>> /\ (b = <<"premium:info:", s[2]>> => b[1] = "premium:info:" /\ b[2] = s[2])
        BY SMT
    <2>5. b[1] # "menu:settings" /\ b[1] # "menu:giveaways" /\ b[1] # "deals:return"
        BY SMT
    <2> QED BY <2>2, <2>3, <2>4, <2>5, Zenon DEF UserTold
<1>6. CASE s[1] = "about"
    <2>1. NameOf(s) = "about"
        BY <1>6, Zenon DEF NameOf
    <2>2. s[2][1] = "menu:settings" \/ s[2][1] = "menu:giveaways" \/ s[2][1] = "deals:return"
        BY <2>1, Zenon DEF Fits, UserFits
    <2>3. b = <<"buy", None>> \/ b = s[2] \/ b = <<"premium:info:", s[2]>>
        BY <1>6, SMT DEF User!Keyboard, User!Plain, User!Each, User!Home, User!premium_info_return_keyboard
    <2>4. b # <<"buy", None>> /\ (b = <<"premium:info:", s[2]>> => b[1] = "premium:info:" /\ b[2] = s[2])
        BY SMT
    <2>5. b[1] # "menu:settings" /\ b[1] # "menu:giveaways" /\ b[1] # "deals:return"
        BY SMT
    <2> QED BY <2>2, <2>3, <2>4, <2>5, Zenon DEF UserTold
<1>7. CASE s[1] = "language"
    BY <1>7, SMT DEF User!Keyboard, User!Plain, User!Each, User!Home, User!language_keyboard, User!back_keyboard
<1>8. CASE s[1] = "region_groups"
    BY <1>8, SMT DEF User!Keyboard, User!Plain, User!Each, User!Home, User!region_groups_keyboard
<1>9. CASE s[1] = "regions"
    <2>1. \/ b \in User!Each("region", Regions)
          \/ b \in User!Plain({"region_groups"}) \/ b = User!Home
        <3>1. User!Keyboard(s) = User!region_keyboard(Regions, s[2])
            BY <1>9, SMT DEF User!Keyboard
        <3> QED BY <3>1, Zenon DEF User!region_keyboard
    <2>2. CASE b \in User!Each("region", Regions)
        <3>1. PICK r \in Regions : b = <<"region", r>>
            BY <2>2, Zenon DEF User!Each
        <3>2. b[1] = "region" /\ b[2] = r
            BY <3>1, SMT
        <3> QED BY <3>2, Zenon DEF UserTold
    <2>3. CASE b \in User!Plain({"region_groups"}) \/ b = User!Home
        BY <2>3, SMT DEF User!Plain, User!Home
    <2> QED BY <2>1, <2>2, <2>3, Zenon
<1>10. CASE s[1] = "zone_groups"
    BY <1>10, SMT DEF User!Keyboard, User!Plain, User!Each, User!Home, User!timezone_groups_keyboard
<1>11. CASE s[1] = "zones"
    BY <1>11, SMT DEF User!Keyboard, User!Plain, User!Each, User!Home, User!timezone_keyboard
<1>12. CASE s[1] = "ask"
    BY <1>12, SMT DEF User!Keyboard, User!Plain, User!Each, User!Home, User!deals_filter_input_keyboard, User!manual_timezone_keyboard
<1>13. CASE s[1] = "profile"
    BY <1>13, SMT DEF User!Keyboard, User!Plain, User!Each, User!Home, User!profile_keyboard
<1>14. CASE s[1] = "info"
    BY <1>14, SMT DEF User!Keyboard, User!Plain, User!Each, User!Home, User!info_keyboard
<1>15. CASE s[1] = "info_page"
    BY <1>15, SMT DEF User!Keyboard, User!Plain, User!Each, User!Home, User!info_page_keyboard, User!back_keyboard
<1>16. CASE s[1] = "currency"
    BY <1>16, SMT DEF User!Keyboard, User!Plain, User!Each, User!Home, User!profile_currency_keyboard
<1>17. CASE s[1] = "quiet"
    BY <1>17, SMT DEF User!Keyboard, User!Plain, User!Each, User!Home, User!quiet_hours_keyboard
<1>18. CASE s[1] = "hour"
    BY <1>18, SMT DEF User!Keyboard, User!Plain, User!Each, User!Home, User!hour_keyboard, User!TimeBack
<1>19. CASE s[1] = "minute"
    BY <1>19, SMT DEF User!Keyboard, User!Plain, User!Each, User!Home, User!minute_keyboard, User!TimeBack
<1>20. CASE s[1] = "digest"
    BY <1>20, SMT DEF User!Keyboard, User!Plain, User!Each, User!Home, User!digest_keyboard
<1>21. CASE s[1] = "digest_kind"
    BY <1>21, SMT DEF User!Keyboard, User!Plain, User!Each, User!Home, User!digest_kind_keyboard
<1>22. CASE s[1] = "guide"
    BY <1>22, SMT DEF User!Keyboard, User!Plain, User!Each, User!Home
<1>23. CASE s[1] = "weekday"
    BY <1>23, SMT DEF User!Keyboard, User!Plain, User!Each, User!Home, User!weekday_keyboard
<1>24. CASE s[1] = "referrals"
    BY <1>24, SMT DEF User!Keyboard, User!Plain, User!Each, User!Home, User!referrals_keyboard
<1>25. CASE s[1] = "leaderboard"
    <2> DEFINE near == {p \in {s[2][1] - 1, s[2][1] + 1} : p \in 0..(s[2][2] - 1)}
    <2>1. b \in User!Plain({"menu:referrals"}) \/ b \in User!Each("referral:leaderboard:", near)
        <3>1. User!Keyboard(s) = User!referral_leaderboard_keyboard(s[2][1], s[2][2])
            BY <1>25, SMT DEF User!Keyboard
        <3> QED BY <3>1, Zenon DEF User!referral_leaderboard_keyboard
    <2> HIDE DEF near
    <2> QED BY <2>1, SMT DEF User!Each, User!Plain
<1>26. CASE s[1] = "giveaways"
    BY <1>26, SMT DEF User!Keyboard, User!Plain, User!Each, User!Home, User!giveaways_keyboard
<1>27. CASE s[1] = "types"
    BY <1>27, SMT DEF User!Keyboard, User!Plain, User!Each, User!Home, User!giveaway_types_keyboard
<1>28. CASE s[1] = "deals"
    <2>1. NameOf(s) = "deals"
        BY <1>28, Zenon DEF NameOf
    <2>2. s[2][3] \in 1..MaxPages
        BY <2>1, Zenon DEF Fits, UserFits
    <2>3. User!Keyboard(s) = User!deals_keyboard(s[2][1], s[2][2], s[2][3])
        BY <1>28, SMT DEF User!Keyboard
    <2> DEFINE items == s[2][1]
               page == s[2][2]
               pages == s[2][3]
    <2>4. \/ b \in User!Plain({"deals:sort_screen", "deals:filter_screen"})
          \/ b = User!Home
          \/ b \in User!Each("deals_analytics", items)
          \/ b \in User!Plain({"deals:analytics_screen"})
          \/ b \in User!Each("deals_page", {p \in {page - 1, page + 1} : p \in 0..(pages - 1)})
        BY <2>3, Zenon DEF User!deals_keyboard
    <2> HIDE DEF items, page, pages
    <2>5. CASE b \in User!Each("deals_page", {p \in {page - 1, page + 1} : p \in 0..(pages - 1)})
        <3>1. PICK p \in 0..(pages - 1) : b = <<"deals_page", p>>
            BY <2>5, Zenon DEF User!Each
        <3>2. pages \in 1..MaxPages /\ MaxPages \in Nat
            BY <2>2, DialogsAssumption, Zenon DEF pages
        <3>3. p \in 0..MaxPages
            BY <3>2, SMT
        <3>4. b[1] = "deals_page" /\ b[2] = p
            BY <3>1, SMT
        <3> QED BY <3>3, <3>4, Zenon DEF UserTold
    <2>6. CASE b \in User!Each("deals_analytics", items)
        BY <2>6, SMT DEF User!Each
    <2>7. CASE b \in User!Plain({"deals:sort_screen", "deals:filter_screen"}) \/ b = User!Home
                 \/ b \in User!Plain({"deals:analytics_screen"})
        BY <2>7, SMT DEF User!Plain, User!Home
    <2> QED BY <2>4, <2>5, <2>6, <2>7, Zenon
<1>29. CASE s[1] = "sort"
    <2>1. b \in User!Each("deals_sort", User!Modes) \/ b \in User!Plain({"deals:return"})
        BY <1>29, SMT DEF User!Keyboard, User!deals_sort_keyboard
    <2>2. CASE b \in User!Each("deals_sort", User!Modes)
        <3>1. PICK mode \in User!Modes : b = <<"deals_sort", mode>>
            BY <2>2, Zenon DEF User!Each
        <3>2. b[1] = "deals_sort" /\ b[2] = mode
            BY <3>1, SMT
        <3> QED BY <3>2, Zenon DEF UserTold
    <2>3. CASE b \in User!Plain({"deals:return"})
        BY <2>3, SMT DEF User!Plain
    <2> QED BY <2>1, <2>2, <2>3, Zenon
<1>30. CASE s[1] = "filters"
    <2> DEFINE values == User!FilterValues \cup (User!FilterSwitches \cup {"tracked"}) \cup {"reset"}
    <2>1. b \in User!Each("deals_filter", values) \/ b \in User!Plain({"deals:return"})
        <3>1. User!Keyboard(s) = User!deals_filters_keyboard(User!FilterValues, User!FilterSwitches \cup {"tracked"})
            BY <1>30, SMT DEF User!Keyboard
        <3> QED BY <3>1, Zenon DEF User!deals_filters_keyboard
    <2> HIDE DEF values
    <2>2. CASE b \in User!Each("deals_filter", values)
        <3>1. PICK value \in values : b = <<"deals_filter", value>>
            BY <2>2, Zenon DEF User!Each
        <3>2. b[1] = "deals_filter" /\ b[2] = value
            BY <3>1, SMT
        <3> QED BY <3>1, <3>2, Zenon DEF UserTold
    <2>3. CASE b \in User!Plain({"deals:return"})
        BY <2>3, SMT DEF User!Plain
    <2> QED BY <2>1, <2>2, <2>3, Zenon
<1>31. CASE s[1] = "deals_analytics"
    <2>1. b \in User!Each("deals_analytics", s[2]) \/ b \in User!Plain({"deals:return"})
        <3>1. User!Keyboard(s) = User!deals_analytics_keyboard(s[2])
            BY <1>31, SMT DEF User!Keyboard
        <3> QED BY <3>1, Zenon DEF User!deals_analytics_keyboard
    <2> QED BY <2>1, SMT DEF User!Each, User!Plain
<1>32. CASE /\ s[1] # "main"
           /\ s[1] # "elsewhere"
           /\ s[1] # "section"
           /\ s[1] # "notice"
           /\ s[1] # "gate"
           /\ s[1] # "about"
           /\ s[1] # "language"
           /\ s[1] # "region_groups"
           /\ s[1] # "regions"
           /\ s[1] # "zone_groups"
           /\ s[1] # "zones"
           /\ s[1] # "ask"
           /\ s[1] # "profile"
           /\ s[1] # "info"
           /\ s[1] # "info_page"
           /\ s[1] # "currency"
           /\ s[1] # "quiet"
           /\ s[1] # "hour"
           /\ s[1] # "minute"
           /\ s[1] # "digest"
           /\ s[1] # "digest_kind"
           /\ s[1] # "guide"
           /\ s[1] # "weekday"
           /\ s[1] # "referrals"
           /\ s[1] # "leaderboard"
           /\ s[1] # "giveaways"
           /\ s[1] # "types"
           /\ s[1] # "deals"
           /\ s[1] # "sort"
           /\ s[1] # "filters"
           /\ s[1] # "deals_analytics"
    <2>1. User!Keyboard(s) = {}
        BY <1>32, Zenon DEF User!Keyboard
    <2> QED BY <2>1, Zenon
<1> QED BY <1>1, <1>2, <1>3, <1>4, <1>5, <1>6, <1>7, <1>8, <1>9, <1>10, <1>11, <1>12, <1>13, <1>14, <1>15, <1>16, <1>17, <1>18, <1>19, <1>20, <1>21, <1>22, <1>23, <1>24, <1>25, <1>26, <1>27, <1>28, <1>29, <1>30, <1>31, <1>32, Zenon

-----------------------------------------------------------------------------
(* Users: the types, and what keeps them.                                  *)

UserPlains ==
    {"main", "elsewhere", "profile", "info", "info_page", "currency", "quiet", "hour", "minute",
     "digest", "digest_kind", "guide", "weekday", "referrals", "leaderboard", "giveaways", "types",
     "sort", "filters", "deals_analytics", "text"}

LEMMA UserPlainFits == ASSUME NEW name \in UserPlains, NEW item, NEW f PROVE Good("user", <<name, item>>, f)
<1>1. name \notin UserSpecial
    BY SMT DEF UserPlains, UserSpecial
<1> QED BY <1>1, UserPlain, Zenon

UserStates ==
    {User!Idle, User!TimezoneSetup, User!Other} \cup {User!Onboarding(step) : step \in User!Steps}
      \cup {User!FilterSetup(kind) : kind \in User!FilterValues}

Requests == [at : {"new", "old"}, wants : {"deals", "sort", "filters", "analytics"}, state : User!DealsStates]

AskedTyped == asked = None \/ asked \in Requests

\* The dialogues that edit the panel know it.
PanelKnown ==
    (\/ fsm = User!TimezoneSetup \/ fsm = User!Onboarding("manual_timezone")
     \/ \E kind \in User!FilterValues : fsm = User!FilterSetup(kind)) => panel \in {"new", "old"}

\* A time zone is asked for after the region.
ZoneAfterRegion == (\E step \in User!ZoneSteps : fsm = User!Onboarding(step)) => country # None

\* Where the dialogue is.
Whereabouts ==
    /\ fsm \in UserStates /\ panel \in {"new", "old", None} /\ country \in Regions \cup {None}
    /\ PanelKnown /\ ZoneAfterRegion

\* Who has a region went through the onboarding.
Registered == user # None => (user.country # None => user.language /\ user.onboarded)

Rows ==
    /\ user = None \/ user \in User!UserRows
    /\ premium \in BOOLEAN /\ deals \in User!DealsStates /\ Registered

UserSafe == ChatFits("user") /\ AskedTyped /\ Whereabouts /\ Rows

\* A step that keeps all of that, and whose new message works.
UserMoved == ChatFits("user")' /\ Works("user") /\ AskedTyped' /\ Whereabouts' /\ Rows'

UserWritten == ChatFits("user")' /\ Works("user") /\ AskedTyped'

LEMMA UserMessages ==
    /\ \A s : User!NameOf(s) = NameOf(s)
    /\ \A p, s : User!Edited(p, s) = Edited(p, s)
    /\ \A s : User!Sent(s) = Sent(s)
<1>1. \A s : User!NameOf(s) = NameOf(s)
    BY Zenon DEF User!NameOf, NameOf
<1>2. \A s, instead : User!Retained(s, instead) = Retained(s, instead)
    BY <1>1, Zenon DEF User!Retained, Retained
<1>3. ASSUME NEW p, NEW s PROVE User!Edited(p, s) = Edited(p, s)
    BY <1>2, Zenon DEF User!Edited, Edited
<1>4. ASSUME NEW s PROVE User!Sent(s) = Sent(s)
    BY <1>2, Zenon DEF User!Sent, Sent
<1> QED BY <1>1, <1>3, <1>4, Zenon

LEMMA RequestMoved ==
    ASSUME NEW request \in Requests
    PROVE  [request EXCEPT !.at = User!Older(@)] \in Requests
<1>1. User!Older(request.at) \in {"new", "old"}
    BY SMT DEF Requests, User!Older
<1> DEFINE at == User!Older(request.at)
<1> HIDE DEF at
<1>2. at \in {"new", "old"} => [request EXCEPT !.at = at] \in Requests
    BY SMT DEF Requests
<1> QED BY <1>1, <1>2, Zenon DEF at

LEMMA UserShows ==
    ASSUME ChatFits("user"), AskedTyped, NEW p \in Places, NEW screen,
           Good("user", screen, fsm'), User!Shows(p, screen)
    PROVE  UserWritten
<1>1. chat' = Edited(p, screen) /\ asked' = asked
    BY UserMessages, Zenon DEF User!Shows
<1>2. ChatFits("user")' /\ chat'.new \in {chat.new, screen}
    BY <1>1, EditedFits, Zenon DEF Good
<1>3. Works("user")
    BY <1>2, Zenon DEF Works, Good
<1> QED BY <1>1, <1>2, <1>3, Zenon DEF UserWritten, AskedTyped

LEMMA UserSends ==
    ASSUME ChatFits("user"), AskedTyped, NEW screen,
           Good("user", screen, fsm'), User!Sends(screen)
    PROVE  UserWritten
<1>1. /\ chat' = Sent(screen)
      /\ asked' = IF asked = None THEN None ELSE [asked EXCEPT !.at = User!Older(@)]
    BY UserMessages, Zenon DEF User!Sends
<1>2. ChatFits("user")' /\ chat'.new = screen
    BY <1>1, SentFits, Zenon DEF Good
<1>3. Works("user")
    BY <1>2, Zenon DEF Works, Good
<1>4. AskedTyped'
    BY <1>1, RequestMoved, Zenon DEF AskedTyped
<1> QED BY <1>2, <1>3, <1>4, Zenon DEF UserWritten

\* The steps of the onboarding and the other dialogues are apart.
LEMMA StatesApart ==
    /\ \A step : User!Onboarding(step) # User!Idle /\ User!Onboarding(step) # User!TimezoneSetup
                 /\ User!Onboarding(step) # User!Other
    /\ \A step, kind : User!Onboarding(step) # User!FilterSetup(kind)
    /\ \A step, other : User!Onboarding(step) = User!Onboarding(other) => step = other
    /\ \A kind : User!FilterSetup(kind) # User!Idle /\ User!FilterSetup(kind) # User!TimezoneSetup
                 /\ User!FilterSetup(kind) # User!Other
    /\ User!TimezoneSetup # User!Idle /\ User!TimezoneSetup # User!Other
<1>1. /\ \A step : User!Onboarding(step).state = "Onboarding" /\ User!Onboarding(step).item = step
      /\ \A kind : User!FilterSetup(kind).state = "DealsFilterSetup.value"
      /\ User!Idle.state = "" /\ User!TimezoneSetup.state = "TimezoneSetup.manual" /\ User!Other.state = "other"
    BY Zenon DEF User!Onboarding, User!FilterSetup, User!Idle, User!TimezoneSetup, User!Other, User!At
<1>2. /\ "Onboarding" # "DealsFilterSetup.value" /\ "Onboarding" # ""
      /\ "Onboarding" # "TimezoneSetup.manual" /\ "Onboarding" # "other"
      /\ "DealsFilterSetup.value" # "" /\ "DealsFilterSetup.value" # "TimezoneSetup.manual"
      /\ "DealsFilterSetup.value" # "other"
      /\ "TimezoneSetup.manual" # "" /\ "TimezoneSetup.manual" # "other"
    BY SMT
<1>3. ASSUME NEW step
      PROVE  /\ User!Onboarding(step) # User!Idle /\ User!Onboarding(step) # User!TimezoneSetup
             /\ User!Onboarding(step) # User!Other
    BY <1>1, <1>2, Zenon
<1>6. ASSUME NEW step, NEW kind PROVE User!Onboarding(step) # User!FilterSetup(kind)
    <2>1. User!Onboarding(step).state = "Onboarding" /\ User!FilterSetup(kind).state = "DealsFilterSetup.value"
        BY <1>1, Zenon
    <2> QED BY <2>1, <1>2, Zenon
<1>7. ASSUME NEW step, NEW other, User!Onboarding(step) = User!Onboarding(other) PROVE step = other
    <2>1. User!Onboarding(step).item = step /\ User!Onboarding(other).item = other
        BY <1>1, Zenon
    <2> QED BY <2>1, <1>7, Zenon
<1>4. ASSUME NEW kind
      PROVE  /\ User!FilterSetup(kind) # User!Idle /\ User!FilterSetup(kind) # User!TimezoneSetup
             /\ User!FilterSetup(kind) # User!Other
    BY <1>1, <1>2, Zenon
<1>5. User!TimezoneSetup # User!Idle /\ User!TimezoneSetup # User!Other
    BY <1>1, <1>2, Zenon
<1> QED BY <1>3, <1>4, <1>5, <1>6, <1>7, Zenon

\* The dialogues that ask neither for a time zone nor on the panel.
Easy(f) ==
    /\ f \in UserStates
    /\ f # User!TimezoneSetup /\ \A kind \in User!FilterValues : f # User!FilterSetup(kind)
    /\ \A step \in User!ZoneSteps : f # User!Onboarding(step)

LEMMA EasyStates ==
    /\ Easy(User!Idle) /\ Easy(User!Other)
    /\ \A step \in {"language", "region_group", "region"} : Easy(User!Onboarding(step))
<1>1. \A step \in {"language", "region_group", "region"} : step \in User!Steps /\ step \notin User!ZoneSteps
    BY SMT DEF User!Steps, User!ZoneSteps
<1> QED BY <1>1, StatesApart, Zenon DEF Easy, UserStates

LEMMA EasyWhere ==
    ASSUME Easy(fsm'), panel' \in {"new", "old", None}, country' \in Regions \cup {None}
    PROVE  Whereabouts'
<1>1. "manual_timezone" \in User!ZoneSteps
    BY SMT DEF User!ZoneSteps
<1> QED BY <1>1, Zenon DEF Easy, Whereabouts, PanelKnown, ZoneAfterRegion

LEMMA UserStays == User!Stays => fsm' = fsm /\ panel' = panel /\ country' = country
BY SMT DEF User!Stays

LEMMA UserStands ==
    ASSUME Whereabouts, User!Stays \/ User!Goes \/ User!Clears
    PROVE  Whereabouts'
<1>1. CASE User!Stays
    BY <1>1, UserStays, Zenon DEF Whereabouts, PanelKnown, ZoneAfterRegion
<1>2. CASE User!Goes
    <2>1. fsm' = fsm /\ country' = country /\ panel' = User!Older(panel)
        BY <1>2, SMT DEF User!Goes
    <2>2. panel' \in {"new", "old", None} /\ (panel \in {"new", "old"} => panel' \in {"new", "old"})
        BY <2>1, Zenon DEF Whereabouts, User!Older
    <2> QED BY <2>1, <2>2, Zenon DEF Whereabouts, PanelKnown, ZoneAfterRegion
<1>3. CASE User!Clears
    BY <1>3, EasyStates, EasyWhere, Zenon DEF User!Clears
<1> QED BY <1>1, <1>2, <1>3, Zenon

LEMMA UserEnters ==
    ASSUME Whereabouts, NEW f, Easy(f), User!Enters(f)
    PROVE  Whereabouts'
<1>1. fsm' = f /\ panel' = panel /\ country' = country
    BY SMT DEF User!Enters
<1> QED BY <1>1, EasyWhere, Zenon DEF Whereabouts

\* A step to a time zone, of an onboarding that knows the region.
LEMMA ZoneEnters ==
    ASSUME Whereabouts, NEW step \in {"timezone_group", "timezone"}, User!Enters(User!Onboarding(step)),
           country # None
    PROVE  Whereabouts'
<1>1. fsm' = User!Onboarding(step) /\ panel' = panel /\ country' = country
    BY SMT DEF User!Enters
<1>2. step \in User!Steps /\ step # "manual_timezone"
    BY SMT DEF User!Steps
<1>3. PanelKnown'
    BY <1>1, <1>2, StatesApart, Zenon DEF PanelKnown
<1>4. ZoneAfterRegion'
    BY <1>1, Zenon DEF ZoneAfterRegion
<1> QED BY <1>1, <1>2, <1>3, <1>4, Zenon DEF Whereabouts, UserStates

LEMMA RowsKept == Rows /\ User!KeepsRows => Rows'
<1> SUFFICES ASSUME Rows, User!KeepsRows PROVE Rows'
    OBVIOUS
<1>1. user' = user /\ premium' = premium /\ deals' = deals
    BY SMT DEF User!KeepsRows
<1> QED BY <1>1, Zenon DEF Rows, Registered

LEMMA UserOpens ==
    ASSUME UserSafe, NEW p \in Places, NEW screen, Good("user", screen, fsm), User!Opens(p, screen)
    PROVE  UserMoved
<1>1. fsm' = fsm
    BY UserStays, Zenon DEF User!Opens
<1>2. UserWritten
    BY <1>1, UserShows, Zenon DEF User!Opens, UserSafe
<1> QED BY <1>2, UserStands, RowsKept, Zenon DEF User!Opens, UserMoved, UserSafe, UserWritten

LEMMA UserOpensPlain ==
    ASSUME UserSafe, NEW p \in Places, NEW name \in UserPlains, NEW item, User!Opens(p, <<name, item>>)
    PROVE  UserMoved
BY UserPlainFits, UserOpens, Zenon

LEMMA UserAlerts == UserSafe /\ User!Alerts => UserMoved
<1> SUFFICES ASSUME UserSafe, User!Alerts PROVE UserMoved
    OBVIOUS
<1>1. /\ chat' = chat /\ asked' = asked /\ fsm' = fsm /\ panel' = panel /\ country' = country
      /\ user' = user /\ premium' = premium /\ deals' = deals
    BY SMT DEF User!Alerts
<1>2. ChatFits("user")' /\ Works("user")
    BY <1>1, KeptFits, Zenon DEF UserSafe, Works
<1>3. AskedTyped' /\ Whereabouts' /\ Rows'
    BY <1>1, Zenon DEF UserSafe, AskedTyped, Whereabouts, PanelKnown, ZoneAfterRegion, Rows, Registered
<1> QED BY <1>2, <1>3, Zenon DEF UserMoved

\* What the buttons of a message tell, whose screen fits.
LEMMA PressTold ==
    ASSUME UserSafe, NEW p \in Places, NEW b \in User!Buttons(p)
    PROVE  /\ b[1] = "region" => b[2] \in Regions
           /\ b[1] = "deals_page" => b[2] \in 0..MaxPages
           /\ b[1] = "deals_sort" => b[2] \in User!Modes
           /\ b[1] = "deals_filter" => b = <<"deals_filter", b[2]>>
           /\ b[1] = "premium:info:" =>
                b[2][1] = "menu:settings" \/ b[2][1] = "menu:giveaways" \/ b[2][1] = "deals:return"
<1>1. chat[p] # None /\ b \in User!Keyboard(chat[p])
    BY Zenon DEF User!Buttons
<1>2. p = "new" \/ p = "old"
    BY Zenon DEF Places
<1>3. chat[p] = chat.new \/ chat[p] = chat.old
    BY <1>2, SMT
<1>4. Fits("user", chat[p])
    BY <1>3, Zenon DEF UserSafe, ChatFits
<1>5. UserTells(b) => UserTold(b)
    BY <1>1, <1>4, ToldToUsers, Zenon
<1>6. /\ "region" \notin {"deals_page", "deals_sort", "deals_filter", "premium:info:"}
      /\ "deals_page" \notin {"deals_sort", "deals_filter", "premium:info:"}
      /\ "deals_sort" \notin {"deals_filter", "premium:info:"} /\ "deals_filter" # "premium:info:"
    BY SMT
<1> QED BY <1>5, <1>6, Zenon DEF UserTells, UserTold

-----------------------------------------------------------------------------
(* Users: the row.                                                         *)

LEMMA RowWritten ==
    ASSUME NEW place \in Regions \cup {None}, NEW told \in BOOLEAN, told \/ place = None,
           user' = [language |-> told, country |-> place, onboarded |-> told],
           premium' = premium, deals' = deals, Rows
    PROVE  Rows'
<1>1. user'.language = told /\ user'.country = place /\ user'.onboarded = told
    BY Zenon
<1>2. user' \in User!UserRows
    BY Zenon DEF User!UserRows
<1> QED BY <1>1, <1>2, Zenon DEF Rows, Registered

\* The row with another field.
LEMMA RowFields ==
    ASSUME NEW answers, NEW places,
           NEW row \in [language : answers, country : places, onboarded : answers]
    PROVE  /\ \A answer \in answers :
                /\ [row EXCEPT !.language = answer] \in [language : answers, country : places, onboarded : answers]
                /\ [row EXCEPT !.language = answer].language = answer
                /\ [row EXCEPT !.language = answer].country = row.country
                /\ [row EXCEPT !.language = answer].onboarded = row.onboarded
           /\ \A place \in places :
                /\ [row EXCEPT !.country = place] \in [language : answers, country : places, onboarded : answers]
                /\ [row EXCEPT !.country = place].country = place
                /\ [row EXCEPT !.country = place].language = row.language
                /\ [row EXCEPT !.country = place].onboarded = row.onboarded
BY SMT

LEMMA LanguageWritten ==
    ASSUME Rows, user # None, user' = [user EXCEPT !.language = TRUE], premium' = premium, deals' = deals
    PROVE  Rows'
<1>1. user \in [language : BOOLEAN, country : Regions \cup {None}, onboarded : BOOLEAN]
    BY Zenon DEF Rows, User!UserRows
<1>2. /\ user' \in [language : BOOLEAN, country : Regions \cup {None}, onboarded : BOOLEAN]
      /\ user'.language = TRUE /\ user'.country = user.country /\ user'.onboarded = user.onboarded
    BY <1>1, RowFields, Zenon
<1> QED BY <1>2, Zenon DEF Rows, Registered, User!UserRows

LEMMA RegionWritten ==
    ASSUME Rows, User!HasCountry, NEW place \in Regions, user' = [user EXCEPT !.country = place],
           premium' = premium, deals' = deals
    PROVE  Rows'
<1>1. user \in [language : BOOLEAN, country : Regions \cup {None}, onboarded : BOOLEAN]
    BY Zenon DEF Rows, User!UserRows, User!HasCountry
<1>2. place \in Regions \cup {None}
    BY Zenon
<1>3. /\ user' \in [language : BOOLEAN, country : Regions \cup {None}, onboarded : BOOLEAN]
      /\ user'.country = place /\ user'.language = user.language /\ user'.onboarded = user.onboarded
    BY <1>1, <1>2, RowFields, Zenon
<1> QED BY <1>3, Zenon DEF Rows, Registered, User!UserRows, User!HasCountry

-----------------------------------------------------------------------------
(* Users: commands, and the onboarding.                                    *)

\* A question of the onboarding, in its step.
LEMMA QuestionSteps ==
    /\ QuestionOf("language") = "language" /\ QuestionOf("region_groups") = "region_group"
    /\ QuestionOf("regions") = "region" /\ QuestionOf("zone_groups") = "timezone_group"
    /\ QuestionOf("zones") = "timezone"
BY SMT DEF QuestionOf

LEMMA QuestionWorks ==
    ASSUME NEW screen \in Questions, NEW step, step = QuestionOf(screen)
    PROVE  Good("user", <<screen, TRUE>>, User!Onboarding(step))
BY UserQuestion, Zenon

LEMMA OnboardingAsks ==
    ASSUME UserSafe, Rows', User!Asks
    PROVE  UserMoved
<1>1. fsm' = User!Onboarding("language")
    BY Zenon DEF User!Asks, User!Enters
<1>2. Good("user", <<"language", TRUE>>, fsm')
    BY <1>1, QuestionWorks, QuestionSteps, Zenon DEF Questions
<1>3. UserWritten
    BY <1>2, UserSends, Zenon DEF User!Asks, UserSafe
<1>4. Whereabouts'
    BY EasyStates, UserEnters, Zenon DEF User!Asks, UserSafe
<1> QED BY <1>3, <1>4, Zenon DEF UserMoved, UserWritten

\* A new message that leaves the dialogue where it is.
LEMMA GoesMoves ==
    ASSUME UserSafe, Rows', NEW screen, Good("user", screen, fsm'), User!Sends(screen), User!Goes
    PROVE  UserMoved
<1>1. UserWritten
    BY UserSends, Zenon DEF UserSafe
<1> QED BY <1>1, UserStands, Zenon DEF UserMoved, UserWritten, UserSafe

LEMMA UserCommandsMove ==
    ASSUME UserSafe, User!start \/ User!menu \/ User!Commands
    PROVE  UserMoved
<1>0. Good("user", <<"main", None>>, fsm')
    BY UserPlainFits, Zenon DEF UserPlains
<1>1. CASE User!start
    <2>1. premium' = premium /\ deals' = deals
          /\ user' = IF user = None THEN User!NewUser ELSE user
        BY <1>1, SMT DEF User!start
    <2>2. Rows'
        <3>1. CASE user = None
            <4>1. user' = [language |-> FALSE, country |-> None, onboarded |-> FALSE]
                BY <2>1, <3>1, Zenon DEF User!NewUser
            <4> QED BY <2>1, <4>1, RowWritten, Zenon DEF UserSafe
        <3>2. CASE user # None
            <4>1. user' = user
                BY <2>1, <3>2, Zenon
            <4> QED BY <2>1, <4>1, Zenon DEF UserSafe, Rows, Registered
        <3> QED BY <3>1, <3>2, Zenon
    <2>3. (User!Sends(<<"main", None>>) /\ User!Goes) \/ User!Asks
        BY <1>1, Zenon DEF User!start
    <2> QED BY <1>0, <2>2, <2>3, OnboardingAsks, GoesMoves, Zenon
<1>2. CASE User!menu
    <2>1. Rows'
        BY <1>2, RowsKept, Zenon DEF User!menu, UserSafe
    <2>2. (User!Sends(<<"main", None>>) /\ User!Goes) \/ User!Asks
        BY <1>2, Zenon DEF User!menu
    <2> QED BY <1>0, <2>1, <2>2, OnboardingAsks, GoesMoves, Zenon
<1>3. CASE User!Commands
    <2>1. PICK screen \in {<<IF user = None THEN "text" ELSE "profile", None>>, <<"text", None>>}
                            \cup {<<"section", name>> : name \in {"menu:deals", "menu:giveaways"}} :
            User!Sends(screen)
        BY <1>3, Zenon DEF User!Commands
    <2>2. User!Goes /\ Rows'
        BY <1>3, RowsKept, Zenon DEF User!Commands, UserSafe
    <2>3. Good("user", screen, fsm')
        BY UserPlainFits, UserSection, Zenon DEF UserPlains
    <2> QED BY <2>1, <2>2, <2>3, GoesMoves, Zenon
<1> QED BY <1>1, <1>2, <1>3, Zenon

\* A press that leads to a question of the onboarding.
LEMMA QuestionMoves ==
    ASSUME UserSafe, NEW p \in Places, NEW screen \in Questions, NEW step, step = QuestionOf(screen),
           User!Enters(User!Onboarding(step)), User!Shows(p, <<screen, TRUE>>), User!KeepsRows,
           \/ step \in {"language", "region_group", "region"}
           \/ step \in {"timezone_group", "timezone"} /\ country # None
    PROVE  UserMoved
<1>1. fsm' = User!Onboarding(step)
    BY Zenon DEF User!Enters
<1>2. UserWritten
    BY <1>1, QuestionWorks, UserShows, Zenon DEF UserSafe
<1>3. Whereabouts'
    BY EasyStates, UserEnters, ZoneEnters, Zenon DEF UserSafe
<1> QED BY <1>2, <1>3, RowsKept, Zenon DEF UserMoved, UserWritten, UserSafe

LEMMA ZoneKnown ==
    ASSUME UserSafe, NEW step \in {"timezone_group", "timezone", "manual_timezone"}, fsm = User!Onboarding(step)
    PROVE  country # None
BY Zenon DEF UserSafe, Whereabouts, ZoneAfterRegion, User!ZoneSteps

LEMMA OnboardingMoves ==
    ASSUME UserSafe, NEW p \in Places, NEW b, User!onboarding(p, b)
    PROVE  UserMoved
<1>1. ASSUME NEW step, NEW pressed, NEW next, NEW screen \in Questions, next = QuestionOf(screen),
             User!StepTo(p, step, pressed, next, screen),
             \/ next \in {"language", "region_group", "region"}
             \/ /\ next \in {"timezone_group", "timezone"}
                /\ step \in {"timezone_group", "timezone", "manual_timezone"}
      PROVE  UserMoved
    <2>1. /\ fsm = User!Onboarding(step) /\ User!Enters(User!Onboarding(next))
          /\ User!Shows(p, <<screen, TRUE>>) /\ User!KeepsRows
        BY <1>1, Zenon DEF User!StepTo
    <2>2. step \in {"timezone_group", "timezone", "manual_timezone"} => country # None
        BY <2>1, ZoneKnown, Zenon
    <2> QED BY <1>1, <2>1, <2>2, QuestionMoves, Zenon
<1>2. CASE User!StepTo(p, "language", b[1] = "lang", "region_group", "region_groups")
    BY <1>1, <1>2, QuestionSteps, Zenon DEF Questions
<1>3. CASE User!StepTo(p, "region_group", b[1] = "region_group", "region", "regions")
    BY <1>1, <1>3, QuestionSteps, Zenon DEF Questions
<1>4. CASE User!StepTo(p, "region", b[1] = "region_groups", "region_group", "region_groups")
    BY <1>1, <1>4, QuestionSteps, Zenon DEF Questions
<1>5. CASE User!StepTo(p, "timezone_group", b[1] = "timezone_group", "timezone", "zones")
    BY <1>1, <1>5, QuestionSteps, Zenon DEF Questions
<1>6. CASE User!StepTo(p, "timezone", b[1] = "timezone_groups", "timezone_group", "zone_groups")
    BY <1>1, <1>6, QuestionSteps, Zenon DEF Questions
<1>7. CASE User!StepTo(p, "manual_timezone", b[1] = "onboarding:timezone", "timezone_group", "zone_groups")
    BY <1>1, <1>7, QuestionSteps, Zenon DEF Questions
<1> QED BY <1>2, <1>3, <1>4, <1>5, <1>6, <1>7, Zenon DEF User!onboarding

LEMMA HomeMoves ==
    ASSUME UserSafe, NEW p \in Places, NEW b, User!menu_home(p, b)
    PROVE  UserMoved
<1>1. CASE ~User!IsOnboarding
    <2>1. User!Clears /\ User!Shows(p, <<"main", None>>) /\ User!KeepsRows
        BY <1>1, Zenon DEF User!menu_home
    <2>2. UserWritten
        BY <2>1, UserPlainFits, UserShows, Zenon DEF UserPlains, UserSafe
    <2> QED BY <2>1, <2>2, UserStands, RowsKept, Zenon DEF UserMoved, UserWritten, UserSafe
<1>2. CASE User!IsOnboarding
    <2>1. /\ User!Enters(User!Onboarding(User!StepAgain)) /\ User!Shows(p, User!ScreenOf(User!StepAgain))
          /\ User!KeepsRows
        BY <1>2, Zenon DEF User!menu_home
    <2>2. ASSUME NEW step, NEW screen \in Questions, step = QuestionOf(screen),
                 User!StepAgain = step, User!ScreenOf(step) = <<screen, TRUE>>,
                 \/ step \in {"language", "region_group", "region"}
                 \/ step \in {"timezone_group", "timezone"} /\ country # None
          PROVE  UserMoved
        BY <2>1, <2>2, QuestionMoves, Zenon
    <2>3. /\ User!ScreenOf("language") = <<"language", TRUE>>
          /\ User!ScreenOf("region_group") = <<"region_groups", TRUE>>
          /\ User!ScreenOf("timezone_group") = <<"zone_groups", TRUE>>
        <3>1. "region_group" # "language" /\ "timezone_group" # "language" /\ "timezone_group" # "region_group"
            BY SMT
        <3> QED BY <3>1, Zenon DEF User!ScreenOf
    <2>4. CASE fsm = User!Onboarding("language")
        <3>0. "region_group" # "language" /\ "region" # "language"
            BY SMT
        <3>a. fsm \notin {User!Onboarding("region_group"), User!Onboarding("region")}
            BY <2>4, <3>0, StatesApart, Zenon
        <3>1. User!StepAgain = "language"
            BY <2>4, <3>a, Zenon DEF User!StepAgain
        <3> QED BY <2>2, <2>3, <3>1, QuestionSteps, Zenon DEF Questions
    <2>5. CASE fsm = User!Onboarding("region_group") \/ fsm = User!Onboarding("region")
        <3>0. "region_group" # "language" /\ "region" # "language"
            BY SMT
        <3>1. fsm # User!Onboarding("language")
            BY <2>5, <3>0, StatesApart, Zenon
        <3>2. User!StepAgain = "region_group"
            BY <2>5, <3>1, Zenon DEF User!StepAgain
        <3> QED BY <2>2, <2>3, <3>2, QuestionSteps, Zenon DEF Questions
    <2>6. CASE /\ fsm # User!Onboarding("language") /\ fsm # User!Onboarding("region_group")
               /\ fsm # User!Onboarding("region")
        <3>1. User!StepAgain = "timezone_group"
            BY <2>6, Zenon DEF User!StepAgain
        <3>2. country # None
            BY <1>2, <2>6, ZoneKnown, Zenon DEF User!IsOnboarding, User!Steps
        <3> QED BY <2>2, <2>3, <3>1, <3>2, QuestionSteps, Zenon DEF Questions
    <2> QED BY <2>4, <2>5, <2>6, Zenon
<1> QED BY <1>1, <1>2, Zenon

LEMMA RegionMoves ==
    ASSUME UserSafe, NEW p \in Places, NEW b \in User!Buttons(p), User!choose_region(p, b)
    PROVE  UserMoved
<1>1. /\ fsm' = User!Onboarding("timezone_group") /\ country' = b[2] /\ panel' = panel
      /\ User!Shows(p, <<"zone_groups", TRUE>>) /\ User!KeepsRows /\ b[1] = "region"
    BY Zenon DEF User!choose_region
<1>2. b[2] \in Regions
    BY <1>1, PressTold, Zenon
<1>3. b[2] # None
    BY <1>2, DialogsAssumption, Zenon
<1>4. Good("user", <<"zone_groups", TRUE>>, fsm')
    BY <1>1, QuestionWorks, QuestionSteps, Zenon DEF Questions
<1>5. UserWritten
    BY <1>1, <1>4, UserShows, Zenon DEF UserSafe
<1>6. "timezone_group" \in User!Steps /\ "timezone_group" # "manual_timezone"
    BY SMT DEF User!Steps
<1>7. PanelKnown'
    BY <1>1, <1>6, StatesApart, Zenon DEF PanelKnown
<1>8. Whereabouts'
    BY <1>1, <1>2, <1>3, <1>6, <1>7, Zenon DEF Whereabouts, UserSafe, UserStates, ZoneAfterRegion
<1> QED BY <1>1, <1>5, <1>8, RowsKept, Zenon DEF UserMoved, UserWritten, UserSafe

\* The prompts that are answered on the panel.
LEMMA PromptMoves ==
    ASSUME UserSafe, NEW p \in Places, NEW next \in UserStates, fsm' = next, panel' = p,
           country' \in Regions \cup {None}, ZoneAfterRegion',
           User!Shows(p, User!Ask(next)), User!KeepsRows
    PROVE  UserMoved
<1>1. UserWritten
    BY UserAsk, UserShows, Zenon DEF UserSafe
<1>2. Whereabouts'
    BY Zenon DEF Whereabouts, PanelKnown, Places
<1> QED BY <1>1, <1>2, RowsKept, Zenon DEF UserMoved, UserWritten, UserSafe

LEMMA ManualMoves ==
    ASSUME UserSafe, NEW p \in Places, NEW b, User!timezone_manual(p, b)
    PROVE  UserMoved
<1>1. CASE User!Alerts
    BY <1>1, UserAlerts, Zenon
<1>2. CASE ~User!Alerts /\ fsm = User!Onboarding("timezone_group")
    <2> DEFINE next == User!Onboarding("manual_timezone")
    <2>1. /\ fsm' = next /\ panel' = p /\ country' = country
          /\ User!Shows(p, User!Ask(next)) /\ User!KeepsRows
        BY <1>2, Zenon DEF User!timezone_manual
    <2>2. next \in UserStates
        BY Zenon DEF UserStates, User!Steps
    <2>3. country # None /\ country \in Regions \cup {None}
        BY <1>2, ZoneKnown, Zenon DEF UserSafe, Whereabouts
    <2> HIDE DEF next
    <2> QED BY <2>1, <2>2, <2>3, PromptMoves, Zenon DEF ZoneAfterRegion
<1>3. CASE ~User!Alerts /\ fsm # User!Onboarding("timezone_group")
    <2>1. /\ fsm' = User!TimezoneSetup /\ panel' = p /\ country' = country
          /\ User!Shows(p, User!Ask(User!TimezoneSetup)) /\ User!KeepsRows
        BY <1>3, Zenon DEF User!timezone_manual
    <2>2. ZoneAfterRegion' /\ User!TimezoneSetup \in UserStates /\ country' \in Regions \cup {None}
        BY <2>1, StatesApart, Zenon DEF ZoneAfterRegion, UserStates, UserSafe, Whereabouts
    <2> QED BY <2>1, <2>2, PromptMoves, Zenon
<1> QED BY <1>1, <1>2, <1>3, Zenon

LEMMA OnboardedRow ==
    ASSUME UserSafe, User!Onboarded, premium' = premium, deals' = deals
    PROVE  Rows'
BY RowWritten, Zenon DEF User!Onboarded, UserSafe, Whereabouts

LEMMA FinishMoves ==
    ASSUME UserSafe, NEW p \in Places, NEW b, User!_finish_onboarding(p, b)
    PROVE  UserMoved
<1>1. CASE User!Alerts
    BY <1>1, UserAlerts, Zenon
<1>2. CASE ~User!Alerts
    <2>1. /\ User!Onboarded /\ User!Clears /\ User!Shows(p, <<"main", None>>)
          /\ UNCHANGED <<premium, deals>>
        BY <1>2, Zenon DEF User!_finish_onboarding
    <2>2. premium' = premium /\ deals' = deals
        BY <2>1, SMT
    <2>3. UserWritten
        BY <2>1, UserPlainFits, UserShows, Zenon DEF UserPlains, UserSafe
    <2> QED BY <2>1, <2>2, <2>3, OnboardedRow, UserStands, Zenon DEF UserMoved, UserWritten, UserSafe
<1> QED BY <1>1, <1>2, Zenon

\* A handler that ends its dialogue on a plain screen.
LEMMA UserEndsMoves ==
    ASSUME UserSafe, Rows', User!Clears, NEW p, NEW name \in UserPlains,
           (User!Shows(p, <<name, None>>) /\ p \in Places) \/ User!Sends(<<name, None>>)
    PROVE  UserMoved
<1>1. UserWritten
    BY UserPlainFits, UserShows, UserSends, Zenon DEF UserSafe
<1> QED BY <1>1, UserStands, Zenon DEF UserMoved, UserWritten, UserSafe

LEMMA OffsetMoves ==
    ASSUME UserSafe, User!save_manual_timezone
    PROVE  UserMoved
<1>0. panel \in Places /\ (fsm = User!Onboarding("manual_timezone") \/ fsm = User!TimezoneSetup)
    BY Zenon DEF User!save_manual_timezone, UserSafe, Whereabouts, PanelKnown, Places
<1>1. ASSUME User!KeepsRows PROVE Rows'
    BY <1>1, RowsKept, Zenon DEF UserSafe
<1>2. CASE User!Stays /\ User!Shows(panel, User!Ask(fsm)) /\ User!KeepsRows
    <2>1. fsm' = fsm
        BY <1>2, UserStays, Zenon
    <2>2. UserWritten
        BY <1>0, <1>2, <2>1, UserAsk, UserShows, Zenon DEF UserSafe
    <2> QED BY <1>1, <1>2, <2>2, UserStands, Zenon DEF UserMoved, UserWritten, UserSafe
<1>3. CASE User!Clears /\ User!Sends(<<"text", None>>) /\ User!KeepsRows
    BY <1>1, <1>3, UserEndsMoves, Zenon DEF UserPlains
<1>4. CASE User!Clears /\ User!Shows(panel, <<"profile", None>>) /\ User!KeepsRows
    BY <1>0, <1>1, <1>4, UserEndsMoves, Zenon DEF UserPlains
<1>5. CASE User!Onboarded /\ User!Clears /\ User!Shows(panel, <<"main", None>>) /\ UNCHANGED <<premium, deals>>
    <2>1. premium' = premium /\ deals' = deals
        BY <1>5, SMT
    <2> QED BY <1>0, <1>5, <2>1, OnboardedRow, UserEndsMoves, Zenon DEF UserPlains
<1> QED BY <1>2, <1>3, <1>4, <1>5, Zenon DEF User!save_manual_timezone

-----------------------------------------------------------------------------
(* Users: the profile and the help.                                        *)

LEMMA SettingsMoves ==
    ASSUME UserSafe, NEW p \in Places, NEW b, User!settings_view(p, b)
    PROVE  UserMoved
<1>1. User!Clears /\ Rows' /\ User!Shows(p, IF user = None THEN User!Notice("menu:home") ELSE <<"profile", None>>)
    BY RowsKept, Zenon DEF User!settings_view, UserSafe
<1>2. Good("user", IF user = None THEN User!Notice("menu:home") ELSE <<"profile", None>>, fsm')
    BY UserNotice, UserPlainFits, Zenon DEF UserPlains
<1>3. UserWritten
    BY <1>1, <1>2, UserShows, Zenon DEF UserSafe
<1> QED BY <1>1, <1>3, UserStands, Zenon DEF UserMoved, UserWritten, UserSafe

LEMMA SettingsQuestionsMove ==
    ASSUME UserSafe, NEW p \in Places, NEW b, User!settings_questions(p, b)
    PROVE  UserMoved
<1>1. PICK screen \in Questions : User!Opens(p, <<screen, FALSE>>)
    BY Zenon DEF User!settings_questions, Questions
<1> QED BY <1>1, UserQuestion, UserOpens, Zenon

LEMMA ProfileMoves ==
    ASSUME UserSafe, NEW p \in Places, NEW b \in User!Buttons(p),
           User!change_language(p, b) \/ User!change_region(p, b) \/ User!change_timezone(p, b)
    PROVE  UserMoved
<1>1. CASE User!Alerts
    BY <1>1, UserAlerts, Zenon
<1>2. ASSUME Rows', User!Shows(p, <<"profile", None>>), User!Stays
      PROVE  UserMoved
    <2>1. UserWritten
        BY <1>2, UserPlainFits, UserShows, Zenon DEF UserPlains, UserSafe
    <2> QED BY <1>2, <2>1, UserStands, Zenon DEF UserMoved, UserWritten, UserSafe
<1>3. CASE User!change_language(p, b) /\ ~User!Alerts
    <2>1. /\ user # None /\ user' = [user EXCEPT !.language = TRUE] /\ UNCHANGED <<premium, deals>>
          /\ User!Shows(p, <<"profile", None>>) /\ User!Stays
        BY <1>3, Zenon DEF User!change_language
    <2>2. premium' = premium /\ deals' = deals
        BY <2>1, SMT
    <2> QED BY <1>2, <2>1, <2>2, LanguageWritten, Zenon DEF UserSafe
<1>4. CASE User!change_region(p, b) /\ ~User!Alerts
    <2>1. /\ User!HasCountry /\ user' = [user EXCEPT !.country = b[2]] /\ UNCHANGED <<premium, deals>>
          /\ User!Shows(p, <<"profile", None>>) /\ User!Stays /\ b[1] = "region"
        BY <1>4, Zenon DEF User!change_region
    <2>2. premium' = premium /\ deals' = deals
        BY <2>1, SMT
    <2>3. b[2] \in Regions
        BY <2>1, PressTold, Zenon
    <2> QED BY <1>2, <2>1, <2>2, <2>3, RegionWritten, Zenon DEF UserSafe
<1>5. CASE User!change_timezone(p, b) /\ ~User!Alerts
    BY <1>5, UserOpensPlain, Zenon DEF User!change_timezone, UserPlains
<1> QED BY <1>1, <1>3, <1>4, <1>5, Zenon

LEMMA InfoMoves ==
    ASSUME UserSafe, NEW p \in Places, NEW b,
           User!information(p, b) \/ User!information_page(p, b) \/ User!information_currency(p, b)
    PROVE  UserMoved
<1>1. ASSUME NEW name \in UserPlains, NEW item, User!Opens(p, <<name, item>>) PROVE UserMoved
    BY <1>1, UserOpensPlain, Zenon
<1>2. "info" \in UserPlains /\ "info_page" \in UserPlains /\ "currency" \in UserPlains
    BY Zenon DEF UserPlains
<1> QED BY <1>1, <1>2, UserAlerts,
           Zenon DEF User!information, User!information_page, User!information_currency, User!InfoPage

\* Another part of the bot.
LEMMA ElsewhereMoves ==
    ASSUME UserSafe, NEW p \in Places, NEW b \in User!Buttons(p), User!Elsewhere(p, b)
    PROVE  UserMoved
<1>1. CASE User!Alerts
    BY <1>1, UserAlerts, Zenon
<1>2. CASE User!Opens(p, <<"elsewhere", None>>)
    BY <1>2, UserOpensPlain, Zenon DEF UserPlains
<1>3. CASE User!Enters(User!Other) /\ User!Shows(p, <<"elsewhere", None>>) /\ User!KeepsRows
    <2>1. UserWritten
        BY <1>3, UserPlainFits, UserShows, Zenon DEF UserPlains, UserSafe
    <2>2. Whereabouts'
        BY <1>3, EasyStates, UserEnters, Zenon DEF UserSafe
    <2> QED BY <1>3, <2>1, <2>2, RowsKept, Zenon DEF UserMoved, UserWritten, UserSafe
<1>4. CASE b[1] = "premium:info:" /\ User!Opens(p, <<"about", b[2]>>)
    <2>1. b[2][1] = "menu:settings" \/ b[2][1] = "menu:giveaways" \/ b[2][1] = "deals:return"
        BY <1>4, PressTold, Zenon
    <2>2. Good("user", <<"about", b[2]>>, fsm)
        BY <2>1, UserAbout, Zenon
    <2> QED BY <1>4, <2>2, UserOpens, Zenon
<1> QED BY <1>1, <1>2, <1>3, <1>4, Zenon DEF User!Elsewhere

-----------------------------------------------------------------------------
(* Users: screens that leave the dialogue and the rows as they are.        *)

LEMMA UserOpensOrAlert ==
    ASSUME UserSafe, NEW p \in Places, NEW name \in UserPlains, NEW item,
           User!OpensOrAlert(p, <<name, item>>)
    PROVE  UserMoved
BY UserOpensPlain, UserAlerts, Zenon DEF User!OpensOrAlert

LEMMA GateOpens ==
    ASSUME NEW back, back = "menu:settings" \/ back = "menu:giveaways" \/ back = "deals:return", NEW f
    PROVE  Good("user", User!Gate(<<back, None>>), f)
<1>1. <<back, None>>[1] = back
    BY SMT
<1> QED BY <1>1, UserGate, Zenon

LEMMA UserOpensOrGate ==
    ASSUME UserSafe, NEW p \in Places, NEW name \in UserPlains, NEW item,
           NEW back, back = "menu:settings" \/ back = "menu:giveaways",
           User!OpensOrGate(p, back, <<name, item>>)
    PROVE  UserMoved
<1>1. Good("user", User!Gate(<<back, None>>), fsm)
    BY GateOpens, Zenon
<1> QED BY <1>1, UserOpens, UserOpensPlain, Zenon DEF User!OpensOrGate

LEMMA QuietAndDigestsMove ==
    ASSUME UserSafe, NEW p \in Places, NEW b,
           \/ User!settings_quiet(p, b) \/ User!quiet_hours(p, b) \/ User!settings_digest(p, b)
           \/ User!digest_kind(p, b) \/ User!digest_others(p, b) \/ User!digest_time(p, b)
           \/ User!digest_weekday(p, b)
    PROVE  UserMoved
<1>1. ASSUME NEW name \in UserPlains, NEW item,
             \/ User!Opens(p, <<name, item>>) \/ User!OpensOrAlert(p, <<name, item>>)
             \/ User!OpensOrGate(p, "menu:settings", <<name, item>>)
      PROVE  UserMoved
    BY <1>1, UserOpensPlain, UserOpensOrAlert, UserOpensOrGate, Zenon
<1>2. /\ "quiet" \in UserPlains /\ "hour" \in UserPlains /\ "minute" \in UserPlains
      /\ "digest" \in UserPlains /\ "digest_kind" \in UserPlains /\ "guide" \in UserPlains
      /\ "weekday" \in UserPlains
    BY Zenon DEF UserPlains
<1>3. CASE User!settings_quiet(p, b) \/ User!quiet_hours(p, b)
    BY <1>1, <1>2, <1>3, Zenon DEF User!settings_quiet, User!quiet_hours
<1>4. CASE User!settings_digest(p, b) \/ User!digest_kind(p, b) \/ User!digest_others(p, b)
    BY <1>1, <1>2, <1>4, Zenon DEF User!settings_digest, User!digest_kind, User!digest_others
<1>5. CASE User!digest_time(p, b) \/ User!digest_weekday(p, b)
    BY <1>1, <1>2, <1>5, Zenon DEF User!digest_time, User!digest_weekday
<1> QED BY <1>3, <1>4, <1>5, Zenon

LEMMA ReferralsAndGiveawaysMove ==
    ASSUME UserSafe, NEW p \in Places, NEW b,
           \/ User!referrals_screen(p, b) \/ User!referral_leaderboard(p, b)
           \/ User!giveaways(p, b) \/ User!giveaway_types(p, b)
    PROVE  UserMoved
<1>1. ASSUME NEW name \in UserPlains, NEW item,
             \/ User!Opens(p, <<name, item>>)
             \/ User!OpensOrGate(p, "menu:giveaways", <<name, item>>)
      PROVE  UserMoved
    BY <1>1, UserOpensPlain, UserOpensOrGate, Zenon
<1>2. /\ "referrals" \in UserPlains /\ "leaderboard" \in UserPlains /\ "giveaways" \in UserPlains
      /\ "types" \in UserPlains
    BY Zenon DEF UserPlains
<1>3. CASE User!Alerts
    BY <1>3, UserAlerts, Zenon
<1>4. CASE User!referrals_screen(p, b) \/ User!referral_leaderboard(p, b)
    BY <1>1, <1>2, <1>3, <1>4, Zenon DEF User!referrals_screen, User!referral_leaderboard
<1>5. CASE User!giveaways(p, b) \/ User!giveaway_types(p, b)
    BY <1>1, <1>2, <1>3, <1>5, Zenon DEF User!giveaways, User!giveaway_types
<1> QED BY <1>4, <1>5, Zenon

-----------------------------------------------------------------------------
(* Users: deals.                                                           *)

LEMMA DealsFields ==
    ASSUME NEW pages, NEW modes, NEW sets,
           NEW state \in [page : pages, sort : modes, narrowed : sets]
    PROVE  /\ state.page \in pages /\ state.sort \in modes /\ state.narrowed \in sets
           /\ \A page \in pages :
                /\ [state EXCEPT !.page = page] \in [page : pages, sort : modes, narrowed : sets]
                /\ [state EXCEPT !.page = page].narrowed = state.narrowed
           /\ \A mode \in modes : [state EXCEPT !.sort = mode] \in [page : pages, sort : modes, narrowed : sets]
           /\ \A set \in sets : [state EXCEPT !.narrowed = set] \in [page : pages, sort : modes, narrowed : sets]
BY SMT

\* A state of the deals with another page, and with the first page and other filters.
LEMMA DealsTurned ==
    ASSUME NEW state \in User!DealsStates, NEW page \in 0..MaxPages
    PROVE  [state EXCEPT !.page = page] \in User!DealsStates
BY DealsFields, Zenon DEF User!DealsStates

LEMMA FirstPage == 0 \in 0..MaxPages
BY DialogsAssumption, SMT

LEMMA DealsSorted ==
    ASSUME NEW state \in User!DealsStates, NEW mode \in User!Modes
    PROVE  [state EXCEPT !.page = 0, !.sort = mode] \in User!DealsStates
<1>1. [state EXCEPT !.page = 0, !.sort = mode] = [[state EXCEPT !.page = 0] EXCEPT !.sort = mode]
    BY Zenon
<1>2. [state EXCEPT !.page = 0] \in User!DealsStates
    BY FirstPage, DealsTurned, Zenon
<1> QED BY <1>1, <1>2, DealsFields, Zenon DEF User!DealsStates

LEMMA DealsNarrowed ==
    ASSUME NEW state \in User!DealsStates, NEW set \in SUBSET (User!FilterValues \cup User!FilterSwitches)
    PROVE  [state EXCEPT !.page = 0, !.narrowed = set] \in User!DealsStates
<1>1. [state EXCEPT !.page = 0, !.narrowed = set] = [[state EXCEPT !.page = 0] EXCEPT !.narrowed = set]
    BY Zenon
<1>2. [state EXCEPT !.page = 0] \in User!DealsStates
    BY FirstPage, DealsTurned, Zenon
<1> QED BY <1>1, <1>2, DealsFields, Zenon DEF User!DealsStates

LEMMA DealsNarrowing ==
    ASSUME NEW state \in User!DealsStates
    PROVE  state.narrowed \in SUBSET (User!FilterValues \cup User!FilterSwitches) /\ state.sort \in User!Modes
BY DealsFields, Zenon DEF User!DealsStates

LEMMA DealsReset ==
    ASSUME NEW mode \in User!Modes
    PROVE  User!NoFilters(mode) \in User!DealsStates
<1>1. {} \in SUBSET (User!FilterValues \cup User!FilterSwitches)
    BY Zenon
<1> QED BY <1>1, FirstPage, Zenon DEF User!NoFilters, User!DealsStates

LEMMA DealsPressed ==
    ASSUME NEW b, deals \in User!DealsStates,
           b[1] = "deals_page" => b[2] \in 0..MaxPages,
           b[1] = "deals_sort" => b[2] \in User!Modes,
           b[1] = "deals_filter" => b[2] \in User!FilterSwitches \cup {"reset"}
    PROVE  User!AfterButton(b) \in User!DealsStates
<1> DEFINE Names == {"deals_page", "menu:deals", "deals_sort", "deals_filter_clear", "deals_filter"}
<1>0. /\ "deals_page" \notin {"menu:deals", "deals_sort", "deals_filter_clear", "deals_filter"}
      /\ "menu:deals" \notin {"deals_page", "deals_sort", "deals_filter_clear", "deals_filter"}
      /\ "deals_sort" \notin {"menu:deals", "deals_page", "deals_filter_clear", "deals_filter"}
      /\ "deals_filter_clear" \notin {"menu:deals", "deals_sort", "deals_page", "deals_filter"}
      /\ "deals_filter" \notin {"menu:deals", "deals_sort", "deals_filter_clear", "deals_page"}
    BY SMT
<1>1. CASE b[1] = "deals_page"
    <2>1. User!AfterButton(b) = [deals EXCEPT !.page = b[2]]
        BY <1>0, <1>1, Zenon DEF User!AfterButton
    <2> QED BY <1>1, <2>1, DealsTurned, Zenon
<1>2. CASE b[1] = "menu:deals"
    <2>1. User!AfterButton(b) = [deals EXCEPT !.page = 0]
        BY <1>0, <1>2, Zenon DEF User!AfterButton
    <2> QED BY <2>1, FirstPage, DealsTurned, Zenon
<1>3. CASE b[1] = "deals_sort"
    <2>1. User!AfterButton(b) = [deals EXCEPT !.page = 0, !.sort = b[2]]
        BY <1>0, <1>3, Zenon DEF User!AfterButton
    <2> QED BY <1>3, <2>1, DealsSorted, Zenon
<1>4. CASE b[1] = "deals_filter_clear"
    <2>1. User!AfterButton(b) = [deals EXCEPT !.page = 0, !.narrowed = deals.narrowed \ {b[2]}]
        BY <1>0, <1>4, Zenon DEF User!AfterButton
    <2>2. deals.narrowed \ {b[2]} \in SUBSET (User!FilterValues \cup User!FilterSwitches)
        BY DealsNarrowing, Zenon
    <2> QED BY <2>1, <2>2, DealsNarrowed, Zenon
<1>5. CASE b[1] = "deals_filter" /\ b[2] = "reset"
    <2>1. User!AfterButton(b) = User!NoFilters(deals.sort)
        BY <1>0, <1>5, Zenon DEF User!AfterButton
    <2> QED BY <2>1, DealsNarrowing, DealsReset, Zenon
<1>6. CASE b[1] = "deals_filter" /\ b[2] # "reset"
    <2> DEFINE set == IF b[2] \in deals.narrowed THEN deals.narrowed \ {b[2]} ELSE deals.narrowed \cup {b[2]}
    <2>1. User!AfterButton(b) = [deals EXCEPT !.page = 0, !.narrowed = set]
        BY <1>0, <1>6, Zenon DEF User!AfterButton
    <2>2. b[2] \in User!FilterSwitches
        BY <1>6, Zenon
    <2>3. set \in SUBSET (User!FilterValues \cup User!FilterSwitches)
        BY <2>2, DealsNarrowing, Zenon
    <2> HIDE DEF set
    <2> QED BY <2>1, <2>3, DealsNarrowed, Zenon
<1>7. CASE b[1] \notin Names
    <2>1. User!AfterButton(b) = deals
        BY <1>7, Zenon DEF User!AfterButton
    <2> QED BY <2>1, Zenon
<1> QED BY <1>1, <1>2, <1>3, <1>4, <1>5, <1>6, <1>7, Zenon

LEMMA WantedKnown == \A b : User!Wanted(b) \in {"deals", "sort", "filters", "analytics"}
<1> SUFFICES ASSUME NEW b PROVE User!Wanted(b) \in {"deals", "sort", "filters", "analytics"}
    OBVIOUS
<1> QED BY SMT DEF User!Wanted

LEMMA RequestMoves ==
    ASSUME UserSafe, NEW p \in Places, NEW b \in User!Buttons(p), User!DealsRequest(p, b)
    PROVE  UserMoved
<1>1. /\ asked' = [at |-> p, wants |-> User!Wanted(b), state |-> User!AfterButton(b)]
      /\ deals' = User!AfterButton(b) /\ (User!Clears \/ User!Stays)
    BY Zenon DEF User!DealsRequest
<1>2. chat' = chat /\ user' = user /\ premium' = premium
    BY SMT DEF User!DealsRequest
<1>3. "deals_filter" \notin User!DealsButtons
    BY SMT DEF User!DealsButtons
<1>4. b[1] = "deals_filter" => b[2] \in User!FilterSwitches \cup {"reset"}
    BY <1>3, Zenon DEF User!DealsRequest
<1>5. User!AfterButton(b) \in User!DealsStates
    BY <1>4, PressTold, DealsPressed, Zenon DEF UserSafe, Rows
<1>6. AskedTyped'
    BY <1>1, <1>5, WantedKnown, Zenon DEF AskedTyped, Requests, Places
<1>7. ChatFits("user")' /\ Works("user")
    BY <1>2, KeptFits, Zenon DEF UserSafe, Works
<1>8. Rows'
    BY <1>1, <1>2, <1>5, Zenon DEF Rows, Registered, UserSafe
<1>9. Whereabouts'
    BY <1>1, UserStands, Zenon DEF UserSafe
<1> QED BY <1>6, <1>7, <1>8, <1>9, Zenon DEF UserMoved

LEMMA DealsScreenWorks ==
    ASSUME NEW wants \in {"deals", "sort", "filters", "analytics"},
           NEW items, NEW page, NEW pages \in 1..MaxPages, NEW f
    PROVE  Good("user", User!DealsScreen(wants, items, page, pages), f)
<1>0. /\ "deals" \notin {"sort", "filters", "analytics"} /\ "sort" \notin {"deals", "filters", "analytics"}
      /\ "filters" \notin {"sort", "deals", "analytics"} /\ "analytics" \notin {"sort", "filters", "deals"}
    BY SMT
<1>1. CASE wants = "sort"
    BY <1>0, <1>1, UserPlainFits, Zenon DEF User!DealsScreen, UserPlains
<1>2. CASE wants = "filters"
    BY <1>0, <1>2, UserPlainFits, Zenon DEF User!DealsScreen, UserPlains
<1>3. CASE wants = "analytics"
    <2>1. User!DealsScreen(wants, items, page, pages)
            \in {<<"deals_analytics", items>>, User!Gate(<<"deals:return", None>>)}
        BY <1>0, <1>3, Zenon DEF User!DealsScreen
    <2>2. Good("user", User!Gate(<<"deals:return", None>>), f)
        BY GateOpens, Zenon
    <2>3. Good("user", <<"deals_analytics", items>>, f)
        BY UserPlainFits, Zenon DEF UserPlains
    <2> QED BY <2>1, <2>2, <2>3, Zenon
<1>4. CASE wants = "deals"
    <2>1. User!DealsScreen(wants, items, page, pages) = <<"deals", <<items, page, pages>>>>
        BY <1>0, <1>4, Zenon DEF User!DealsScreen
    <2>2. Good("user", <<"deals", <<items, page, pages>>>>, f)
        BY UserDeals
    <2> QED BY <2>1, <2>2, Zenon
<1> QED BY <1>1, <1>2, <1>3, <1>4, Zenon

LEMMA NearestPage ==
    ASSUME NEW page \in 0..MaxPages, NEW pages \in 1..MaxPages
    PROVE  User!Nearest(page, pages) \in 0..MaxPages
BY DialogsAssumption, SMT DEF User!Nearest

\* The answer to the request that was in progress.
LEMMA AnswerWritten ==
    ASSUME UserSafe, NEW p \in Places, NEW screen, Good("user", screen, fsm),
           chat' = User!Edited(p, screen), asked' = None, User!Stays, Rows'
    PROVE  UserMoved
<1>1. chat' = Edited(p, screen) /\ fsm' = fsm
    BY UserMessages, UserStays, Zenon
<1>2. ChatFits("user")' /\ chat'.new \in {chat.new, screen}
    BY <1>1, EditedFits, Zenon DEF Good, UserSafe
<1>3. Works("user")
    BY <1>1, <1>2, Zenon DEF Works, Good
<1>4. AskedTyped' /\ Whereabouts'
    BY UserStands, Zenon DEF AskedTyped, UserSafe
<1> QED BY <1>2, <1>3, <1>4, Zenon DEF UserMoved

LEMMA AskedFields ==
    ASSUME AskedTyped, asked # None
    PROVE  /\ asked.at \in Places /\ asked.wants \in {"deals", "sort", "filters", "analytics"}
           /\ asked.state \in User!DealsStates
BY Zenon DEF AskedTyped, Requests, Places

LEMMA RowsRead ==
    ASSUME Rows, user' = user, premium' = premium, deals' \in User!DealsStates
    PROVE  Rows'
BY Zenon DEF Rows, Registered

LEMMA AnswerMoves ==
    ASSUME UserSafe, User!DealsAnswer
    PROVE  UserMoved
<1>1. asked # None /\ asked' = None /\ User!Stays
    BY Zenon DEF User!DealsAnswer
<1>2. user' = user /\ premium' = premium
    BY SMT DEF User!DealsAnswer
<1>3. /\ asked.at \in Places /\ asked.wants \in {"deals", "sort", "filters", "analytics"}
      /\ asked.state \in User!DealsStates
    BY <1>1, AskedFields, Zenon DEF UserSafe
<1>4. deals \in User!DealsStates /\ Rows
    BY Zenon DEF UserSafe, Rows
<1>5. CASE UNCHANGED <<chat, deals>>
    <2>1. chat' = chat /\ deals' = deals
        BY <1>5, SMT
    <2>2. ChatFits("user")' /\ Works("user")
        BY <2>1, KeptFits, Zenon DEF UserSafe, Works
    <2>3. AskedTyped' /\ Whereabouts'
        BY <1>1, UserStands, Zenon DEF AskedTyped, UserSafe
    <2> QED BY <1>2, <1>4, <2>1, <2>2, <2>3, RowsRead, Zenon DEF UserMoved
<1>6. CASE chat' = User!Edited(asked.at, User!Notice("menu:home")) /\ UNCHANGED deals
    <2>1. deals' = deals
        BY <1>6, Zenon
    <2>2. Rows'
        BY <1>2, <1>4, <2>1, RowsRead, Zenon
    <2>3. Good("user", User!Notice("menu:home"), fsm)
        BY UserNotice, Zenon
    <2> QED BY <1>1, <1>3, <1>6, <2>2, <2>3, AnswerWritten, Zenon
<1>7. ASSUME NEW items \in SUBSET Offers, NEW pages \in 1..MaxPages, NEW page,
             page = User!Nearest(asked.state.page, pages),
             deals' = [asked.state EXCEPT !.page = page],
             chat' = User!Edited(asked.at, User!DealsScreen(asked.wants, items, page, pages))
      PROVE  UserMoved
    <2>1. asked.state.page \in 0..MaxPages
        BY <1>3, DealsFields, Zenon DEF User!DealsStates
    <2>2. page \in 0..MaxPages
        BY <1>7, <2>1, NearestPage, Zenon
    <2>3. deals' \in User!DealsStates
        BY <1>3, <1>7, <2>2, DealsTurned, Zenon
    <2>4. Rows'
        BY <1>2, <1>4, <2>3, RowsRead, Zenon
    <2>5. Good("user", User!DealsScreen(asked.wants, items, page, pages), fsm)
        BY <1>3, DealsScreenWorks
    <2> QED BY <1>1, <1>3, <1>7, <2>4, <2>5, AnswerWritten, Zenon
<1> QED BY <1>5, <1>6, <1>7, Zenon DEF User!DealsAnswer

\* The filters: the prompt for a value, and the value.
LEMMA ValuePromptMoves ==
    ASSUME UserSafe, NEW p \in Places, NEW b, User!deals_filter_value_start(p, b)
    PROVE  UserMoved
<1> DEFINE next == User!FilterSetup(b[2])
<1>1. /\ b[2] \in User!FilterValues /\ fsm' = next /\ country' = None /\ panel' = p
      /\ User!Shows(p, User!Ask(next)) /\ User!KeepsRows
    BY Zenon DEF User!deals_filter_value_start
<1>2. next \in UserStates
    BY <1>1, Zenon DEF UserStates
<1>3. ZoneAfterRegion'
    BY <1>1, StatesApart, Zenon DEF ZoneAfterRegion
<1>4. country' \in Regions \cup {None}
    BY <1>1, Zenon
<1> HIDE DEF next
<1> QED BY <1>1, <1>2, <1>3, <1>4, PromptMoves, Zenon

LEMMA ValueAsked ==
    ASSUME UserSafe, fsm.state = "DealsFilterSetup.value"
    PROVE  panel \in Places /\ fsm.kind = "discount"
<1>1. /\ \A step : User!Onboarding(step).state = "Onboarding"
      /\ \A kind : User!FilterSetup(kind).state = "DealsFilterSetup.value" /\ User!FilterSetup(kind).kind = kind
      /\ User!Idle.state = "" /\ User!TimezoneSetup.state = "TimezoneSetup.manual" /\ User!Other.state = "other"
    BY Zenon DEF User!Onboarding, User!FilterSetup, User!Idle, User!TimezoneSetup, User!Other, User!At
<1>2. /\ "Onboarding" # "DealsFilterSetup.value" /\ "DealsFilterSetup.value" # ""
      /\ "DealsFilterSetup.value" # "TimezoneSetup.manual" /\ "DealsFilterSetup.value" # "other"
    BY SMT
<1>3. PICK kind \in User!FilterValues : fsm = User!FilterSetup(kind)
    BY <1>1, <1>2, Zenon DEF UserSafe, Whereabouts, UserStates
<1>4. kind = "discount"
    BY Zenon DEF User!FilterValues
<1> QED BY <1>1, <1>3, <1>4, Zenon DEF UserSafe, Whereabouts, PanelKnown, Places

LEMMA ValueMoves ==
    ASSUME UserSafe, User!deals_filter_value_save
    PROVE  UserMoved
<1>1. panel \in Places /\ fsm.kind = "discount"
    BY ValueAsked, Zenon DEF User!deals_filter_value_save
<1>2. CASE User!Stays /\ User!Shows(panel, User!Ask(fsm)) /\ User!KeepsRows
    <2>1. fsm' = fsm
        BY <1>2, UserStays, Zenon
    <2>2. UserWritten
        BY <1>1, <1>2, <2>1, UserAsk, UserShows, Zenon DEF UserSafe
    <2> QED BY <1>2, <2>2, UserStands, RowsKept, Zenon DEF UserMoved, UserWritten, UserSafe
<1>3. ASSUME NEW set \in {deals.narrowed \cup {"discount"}, deals.narrowed \ {"discount"}},
             deals' = [deals EXCEPT !.page = 0, !.narrowed = set],
             User!Clears, User!Shows(panel, <<"filters", None>>), UNCHANGED <<user, premium>>
      PROVE  UserMoved
    <2>1. user' = user /\ premium' = premium
        BY <1>3, SMT
    <2>2. deals \in User!DealsStates /\ Rows
        BY Zenon DEF UserSafe, Rows
    <2>3. set \in SUBSET (User!FilterValues \cup User!FilterSwitches)
        BY <1>3, <2>2, DealsNarrowing, Zenon DEF User!FilterValues
    <2>4. deals' \in User!DealsStates
        BY <1>3, <2>2, <2>3, DealsNarrowed, Zenon
    <2>5. Rows'
        BY <2>1, <2>2, <2>4, RowsRead, Zenon
    <2> QED BY <1>1, <1>3, <2>5, UserEndsMoves, Zenon DEF UserPlains
<1> QED BY <1>1, <1>2, <1>3, Zenon DEF User!deals_filter_value_save

LEMMA RestMoves ==
    ASSUME UserSafe, User!DealsExpire \/ User!PremiumChanges
    PROVE  UserMoved
<1>1. /\ chat' = chat /\ asked' = asked /\ fsm' = fsm /\ panel' = panel /\ country' = country
      /\ user' = user
    BY SMT DEF User!DealsExpire, User!PremiumChanges
<1>2. ChatFits("user")' /\ Works("user")
    BY <1>1, KeptFits, Zenon DEF UserSafe, Works
<1>3. AskedTyped' /\ Whereabouts'
    BY <1>1, Zenon DEF UserSafe, AskedTyped, Whereabouts, PanelKnown, ZoneAfterRegion
<1>4. CASE User!DealsExpire
    <2>1. deals' = User!NoFilters("discount") /\ premium' = premium
        BY <1>4, SMT DEF User!DealsExpire
    <2>2. deals' \in User!DealsStates
        BY <2>1, DealsReset, Zenon DEF User!Modes
    <2> QED BY <1>1, <1>2, <1>3, <2>1, <2>2, RowsRead, Zenon DEF UserMoved, UserSafe
<1>5. CASE User!PremiumChanges
    <2>1. premium' = ~premium /\ deals' = deals
        BY <1>5, SMT DEF User!PremiumChanges
    <2>2. premium' \in BOOLEAN
        BY <2>1, Zenon DEF UserSafe, Rows
    <2> QED BY <1>1, <1>2, <1>3, <2>1, <2>2, Zenon DEF UserMoved, UserSafe, Rows, Registered
<1> QED BY <1>4, <1>5, Zenon

-----------------------------------------------------------------------------
(* Users: the invariant.                                                   *)

UserInv ==
    /\ UserSafe /\ crossed \in BOOLEAN
    /\ ~crossed => Alive("user", chat.new, fsm)

LEMMA UserPressMoves ==
    ASSUME UserSafe, NEW p \in Places, NEW b \in User!Buttons(p), User!Press(p, b)
    PROVE  UserMoved
<1>1. CASE User!DealsTracked(p, b)
    BY <1>1, UserAlerts, Zenon DEF User!DealsTracked
<1>2. CASE User!menu_home(p, b) \/ User!Elsewhere(p, b) \/ User!onboarding(p, b) \/ User!choose_region(p, b)
    BY <1>2, HomeMoves, ElsewhereMoves, OnboardingMoves, RegionMoves, Zenon
<1>3. CASE User!timezone_manual(p, b) \/ User!_finish_onboarding(p, b) \/ User!settings_view(p, b)
           \/ User!settings_questions(p, b)
    BY <1>3, ManualMoves, FinishMoves, SettingsMoves, SettingsQuestionsMove, Zenon
<1>4. CASE User!change_language(p, b) \/ User!change_region(p, b) \/ User!change_timezone(p, b)
    BY <1>4, ProfileMoves, Zenon
<1>5. CASE User!information(p, b) \/ User!information_page(p, b) \/ User!information_currency(p, b)
    BY <1>5, InfoMoves, Zenon
<1>6. CASE User!settings_quiet(p, b) \/ User!quiet_hours(p, b) \/ User!settings_digest(p, b)
           \/ User!digest_kind(p, b) \/ User!digest_others(p, b) \/ User!digest_time(p, b)
           \/ User!digest_weekday(p, b)
    BY <1>6, QuietAndDigestsMove, Zenon
<1>7. CASE User!referrals_screen(p, b) \/ User!referral_leaderboard(p, b) \/ User!giveaways(p, b)
           \/ User!giveaway_types(p, b)
    BY <1>7, ReferralsAndGiveawaysMove, Zenon
<1>8. CASE User!DealsRequest(p, b) \/ User!deals_filter_value_start(p, b)
    BY <1>8, RequestMoves, ValuePromptMoves, Zenon
<1> QED BY <1>1, <1>2, <1>3, <1>4, <1>5, <1>6, <1>7, <1>8, Zenon DEF User!Press

LEMMA UserStep ==
    ASSUME UserInv, User!Next
    PROVE  UserInv'
<1>1. UserSafe /\ User!Crosses
    BY Zenon DEF UserInv, User!Next
<1>2. ASSUME NEW p \in Places, NEW b \in User!Buttons(p), User!Press(p, b) PROVE UserMoved
    BY <1>1, <1>2, UserPressMoves, Zenon
<1>3. ASSUME User!start \/ User!menu \/ User!Commands PROVE UserMoved
    BY <1>1, <1>3, UserCommandsMove, Zenon
<1>4. ASSUME User!save_manual_timezone \/ User!deals_filter_value_save PROVE UserMoved
    BY <1>1, <1>4, OffsetMoves, ValueMoves, Zenon
<1>5. ASSUME User!DealsAnswer \/ User!DealsExpire \/ User!PremiumChanges PROVE UserMoved
    BY <1>1, <1>5, AnswerMoves, RestMoves, Zenon
<1>6. UserMoved
    BY <1>2, <1>3, <1>4, <1>5, Zenon DEF User!Next, Places
<1>7. crossed' \in BOOLEAN /\ (~crossed' => Alive("user", chat'.new, fsm'))
    BY <1>1, <1>6, AliveNext, Zenon DEF UserInv, UserMoved, User!Crosses
<1> QED BY <1>6, <1>7, Zenon DEF UserInv, UserMoved, UserSafe

LEMMA UserFirst == User!Init => UserInv
<1> SUFFICES ASSUME User!Init PROVE UserInv
    OBVIOUS
<1>1. /\ fsm = User!Idle /\ panel = None /\ crossed = FALSE
      /\ chat = [new |-> None, old |-> None]
      /\ user = None /\ country = None /\ premium = FALSE
      /\ deals = User!NoFilters("discount") /\ asked = None
    BY Zenon DEF User!Init
<1>2. chat.new = None /\ chat.old = None
    BY <1>1, SMT
<1>3. ChatFits("user")
    BY <1>1, <1>2, NothingFits, Zenon DEF ChatFits
<1>4. Whereabouts
    BY <1>1, StatesApart, Zenon DEF Whereabouts, UserStates, PanelKnown, ZoneAfterRegion
<1>5. deals \in User!DealsStates
    BY <1>1, DealsReset, Zenon DEF User!Modes
<1>6. UserSafe
    BY <1>1, <1>3, <1>4, <1>5, Zenon DEF UserSafe, AskedTyped, Rows, Registered
<1>7. NameOf(None) \notin {"ask", "language", "region_groups", "regions", "zone_groups", "zones"}
    BY SMT DEF NameOf
<1>8. "user" # "watch"
    BY SMT
<1>9. Alive("user", chat.new, fsm)
    BY <1>2, <1>7, <1>8, Zenon DEF Alive
<1> QED BY <1>1, <1>6, <1>9, Zenon DEF UserInv

\* What the invariant is for.
LEMMA UserTyped == UserInv => User!TypeOK
<1> SUFFICES ASSUME UserInv PROVE User!TypeOK
    OBVIOUS
<1>1. DOMAIN chat = {"new", "old"} /\ User!NameOf(chat.old) \in Kept \cup {""}
    BY ChatTyped, UserMessages, Zenon DEF UserInv, UserSafe
<1>2. asked # None => asked.at \in {"new", "old"} /\ asked.state \in User!DealsStates
                      /\ asked.wants \in {"deals", "sort", "filters", "analytics"}
    BY AskedFields, Zenon DEF UserInv, UserSafe, Places
<1>3. fsm \in UserStates
    BY Zenon DEF UserInv, UserSafe, Whereabouts
<1> QED BY <1>1, <1>2, <1>3, Zenon DEF UserInv, UserSafe, Whereabouts, Rows, UserStates, User!TypeOK

LEMMA UserPrompts == UserInv => PromptIsHeard
<1>1. "user" # "admin"
    BY SMT
<1> QED BY <1>1, Zenon DEF UserInv, Alive, PromptIsHeard

LEMMA UserButtons == UserInv => User!ButtonsAreAlive
<1> SUFFICES ASSUME UserInv, chat.new # None, ~crossed PROVE fsm \in User!Expects(chat.new)
    BY Zenon DEF User!ButtonsAreAlive
<1>1. Alive("user", chat.new, fsm) /\ NameOf(chat.new) = chat.new[1]
    BY Zenon DEF UserInv, NameOf
<1>2. /\ "language" \notin {"region_groups", "regions", "zone_groups", "zones"}
      /\ "region_groups" \notin {"regions", "zone_groups", "zones"}
      /\ "regions" \notin {"zone_groups", "zones"} /\ "zone_groups" # "zones"
    BY SMT
<1>3. CASE chat.new[1] = "language" /\ chat.new[2]
    BY <1>1, <1>2, <1>3, Zenon DEF Alive, User!Expects
<1>4. CASE chat.new[1] = "region_groups" /\ chat.new[2]
    BY <1>1, <1>2, <1>4, Zenon DEF Alive, User!Expects
<1>5. CASE chat.new[1] = "regions" /\ chat.new[2]
    BY <1>1, <1>2, <1>5, Zenon DEF Alive, User!Expects
<1>6. CASE chat.new[1] = "zone_groups" /\ chat.new[2]
    BY <1>1, <1>2, <1>6, Zenon DEF Alive, User!Expects
<1>7. CASE chat.new[1] = "zones" /\ chat.new[2]
    BY <1>1, <1>2, <1>7, Zenon DEF Alive, User!Expects
<1>8. CASE /\ ~(chat.new[1] = "language" /\ chat.new[2]) /\ ~(chat.new[1] = "region_groups" /\ chat.new[2])
           /\ ~(chat.new[1] = "regions" /\ chat.new[2]) /\ ~(chat.new[1] = "zone_groups" /\ chat.new[2])
           /\ ~(chat.new[1] = "zones" /\ chat.new[2])
    BY <1>8, Zenon DEF User!Expects
<1> QED BY <1>3, <1>4, <1>5, <1>6, <1>7, <1>8, Zenon

LEMMA UserOnboarded == UserInv => User!OnboardingFirst
BY Zenon DEF UserInv, UserSafe, Whereabouts, ZoneAfterRegion, Rows, Registered, User!OnboardingFirst

-----------------------------------------------------------------------------
(* The three parts together.                                               *)

DialogsInv ==
    /\ part \in {"watch", "user", "admin"}
    /\ part = "watch" => WatchInv
    /\ part = "user" => UserInv
    /\ part = "admin" => AdminInv

LEMMA PartsApart == "watch" # "user" /\ "watch" # "admin" /\ "user" # "admin"
BY SMT

LEMMA DialogsFirst == Init => DialogsInv
BY PartsApart, WatchFirst, UserFirst, AdminFirst, Zenon DEF Init, DialogsInv

LEMMA NothingHappens ==
    UNCHANGED vars =>
      /\ part' = part /\ fsm' = fsm /\ panel' = panel /\ chat' = chat /\ crossed' = crossed
      /\ premium' = premium /\ results' = results /\ rules' = rules /\ saving' = saving
      /\ user' = user /\ country' = country /\ deals' = deals /\ asked' = asked
      /\ people' = people /\ data' = data /\ acting' = acting /\ offered' = offered
      /\ overlapped' = overlapped
BY SMT DEF vars, OfWatch, OfUser, OfAdmin

LEMMA DialogsRest == DialogsInv /\ UNCHANGED vars => DialogsInv'
<1> SUFFICES ASSUME DialogsInv, UNCHANGED vars PROVE DialogsInv'
    OBVIOUS
<1>1. part' = part
    BY NothingHappens
<1>2. ASSUME WatchInv PROVE WatchInv'
    <2>1. ChatFits("watch")' /\ SavesTyped' /\ SameSaves /\ Watch!Owned' = Watch!Owned
        BY <1>2, NothingHappens, KeptFits, RulesKept, Zenon
           DEF WatchInv, WatchTypes, SavesTyped, SameSaves, SameSave
    <2>2. WatchTypes'
        BY <1>2, <2>1, NothingHappens, Zenon DEF WatchInv, WatchTypes
    <2>3. OneCheck' /\ WithinLimit'
        BY <1>2, <2>1, LimitKept, Zenon DEF WatchInv, WatchTypes
    <2> QED BY <1>2, <2>2, <2>3, NothingHappens, Zenon DEF WatchInv
<1>3. ASSUME UserInv PROVE UserInv'
    <2>1. ChatFits("user")' /\ AskedTyped'
        BY <1>3, NothingHappens, KeptFits, Zenon DEF UserInv, UserSafe, AskedTyped
    <2>2. Whereabouts' /\ Rows'
        BY <1>3, NothingHappens, Zenon
           DEF UserInv, UserSafe, Whereabouts, PanelKnown, ZoneAfterRegion, Rows, Registered
    <2> QED BY <1>3, <2>1, <2>2, NothingHappens, Zenon DEF UserInv, UserSafe
<1>4. ASSUME AdminInv PROVE AdminInv'
    <2>1. ChatFits("admin")' /\ ActsTyped'
        BY <1>4, NothingHappens, KeptFits, Zenon DEF AdminInv, AdminTypes, ActsTyped
    <2>2. AdminTypes'
        BY <1>4, <2>1, NothingHappens, Zenon DEF AdminInv, AdminTypes
    <2>3. Truthful => Truthful'
        BY NothingHappens, Zenon DEF Truthful, ActSays, UserKnown, Confirmable
    <2> QED BY <1>4, <2>2, <2>3, NothingHappens, Zenon DEF AdminInv
<1> QED BY <1>1, <1>2, <1>3, <1>4, Zenon DEF DialogsInv

LEMMA DialogsStep ==
    ASSUME DialogsInv, [Next]_vars
    PROVE  /\ DialogsInv'
           /\ Watch!Owned' \subseteq Watch!Owned \/ Adds
<1>1. CASE UNCHANGED vars
    <2>1. Watch!Owned' = Watch!Owned
        BY <1>1, NothingHappens, Zenon DEF Watch!Owned
    <2> QED BY <1>1, <2>1, DialogsRest, Zenon
<1>2. CASE Next
    <2>1. part' = part
        BY <1>2, Zenon DEF Next
    <2>2. CASE part = "watch" /\ Watch!Next
        BY <2>1, <2>2, PartsApart, WatchStep, Zenon DEF DialogsInv
    <2>3. ASSUME UNCHANGED OfWatch PROVE Watch!Owned' = Watch!Owned
        <3>1. rules' = rules
            BY <2>3, SMT DEF OfWatch
        <3> QED BY <3>1, Zenon DEF Watch!Owned
    <2>4. CASE part = "user" /\ User!Next /\ UNCHANGED <<OfWatch, OfAdmin>>
        <3>1. UNCHANGED OfWatch
            BY <2>4, Zenon
        <3> QED BY <2>1, <2>3, <2>4, <3>1, PartsApart, UserStep, Zenon DEF DialogsInv
    <2>5. CASE part = "admin" /\ Admin!Next /\ UNCHANGED <<premium, OfWatch, OfUser>>
        <3>1. UNCHANGED OfWatch
            BY <2>5, Zenon
        <3> QED BY <2>1, <2>3, <2>5, <3>1, PartsApart, AdminStep, Zenon DEF DialogsInv
    <2> QED BY <1>2, <2>2, <2>4, <2>5, Zenon DEF Next
<1> QED BY <1>1, <1>2, Zenon

LEMMA DialogsHold == Spec => []DialogsInv
<1>1. DialogsInv /\ [Next]_vars => DialogsInv'
    BY DialogsStep
<1> QED BY <1>1, DialogsFirst, PTL DEF Spec

-----------------------------------------------------------------------------
(* Theorems.                                                               *)

\* Every variable of the three dialogues is of its type: what the handlers in
\* progress carry, and that only a message that stays usable is kept as the older one.
THEOREM TypesHold == Spec => []TypeOK
<1>1. DialogsInv => TypeOK
    BY WatchTyped, UserTyped, AdminTyped, Zenon DEF DialogsInv, TypeOK
<1> QED BY <1>1, DialogsHold, PTL

\* The newest message asks for a text only when the FSM is in the state whose
\* handler it is meant for, with the data it names, unless another handler of the
\* user changed the FSM since.
THEOREM PromptsHeard == Spec => []PromptsAreHeard
<1>1. DialogsInv => PromptsAreHeard
    BY WatchPrompts, UserPrompts, Zenon DEF DialogsInv, PromptsAreHeard
<1> QED BY <1>1, DialogsHold, PTL

\* The buttons of the newest message have their handler in the state of the FSM,
\* for the game that they are about, unless another handler changed the FSM since.
THEOREM ButtonsWork == Spec => []ButtonsAreAlive
<1>1. DialogsInv => ButtonsAreAlive
    BY WatchButtons, UserButtons, Zenon DEF DialogsInv, ButtonsAreAlive
<1> QED BY <1>1, DialogsHold, PTL

\* A rule is added only within the limit that its check saw, however many saves of
\* the user run at once: one at a time is past its check, under the lock of the row.
THEOREM LimitsHold == Spec => LimitHolds
<1>1. DialogsInv /\ [Next]_vars =>
        [Watch!Owned' \subseteq Watch!Owned
         \/ \E s \in Saves : saving[s] # None /\ saving'[s] = None
                             /\ Watch!Cardinality(Watch!Owned') <= saving[s].limit]_(Watch!vars)
    BY DialogsStep, WatchCardinality, Zenon DEF Adds
<1> QED BY <1>1, DialogsHold, PTL DEF Spec, LimitHolds, Watch!LimitHolds

\* Nobody has a region without the onboarding, its language and its record, and
\* the onboarding asks for a time zone only after the region.
THEOREM OnboardingHolds == Spec => []OnboardingFirst
<1>1. DialogsInv => OnboardingFirst
    BY UserOnboarded, Zenon DEF DialogsInv, OnboardingFirst
<1> QED BY <1>1, DialogsHold, PTL

\* What an administrator confirms - the user and the date, or the broadcast - is what
\* the last message showed, unless two handlers of the dialogue overlapped.
THEOREM ConfirmsHold == Spec => []ConfirmsWhatWasShown
<1>1. DialogsInv => ConfirmsWhatWasShown
    BY AdminConfirms, Zenon DEF DialogsInv, ConfirmsWhatWasShown
<1> QED BY <1>1, DialogsHold, PTL
=============================================================================
