------------------------------- MODULE Dialog -------------------------------
(***************************************************************************)
(* Dialog: what every handler of the bot shares.  A dialogue with a user   *)
(* is held twice: the FSM in redis says which handler gets the next text   *)
(* or button, and what its data is about; the messages in the chat show    *)
(* the user prompts and buttons.  Only the order of the statements of each *)
(* handler ties the two together, and handlers of one user run at once.    *)
(*                                                                         *)
(* A screen is <<name, item>>; its buttons are given by Keyboard, in the   *)
(* modules that extend this one.                                           *)
(***************************************************************************)
EXTENDS Keyboards, FiniteSets

CONSTANT Kept  \* bound: the names of screens that stay usable on an older message

VARIABLES
    fsm,      \* [state, item, kind]: the state and the data its handlers read
    panel,    \* data["panel_message_id"]: the "new" or an "old" message, or None
    chat,     \* [new, old: a screen or None]: the newest message and an older one
    crossed   \* history: the FSM was changed since the newest message was written,
              \* by a handler that did not write it

At(state, item, kind) == [state |-> state, item |-> item, kind |-> kind]
Idle == At("", None, None)

\* The prompt of the dialogue f, and a screen with nothing but a way back.
Ask(f) == <<"ask", f>>
Notice(target) == <<"notice", target>>
Gate(back) == <<"gate", back>>

NameOf(s) == IF s = None THEN "" ELSE s[1]

Retained(screen, instead) == IF NameOf(screen) \in Kept THEN screen ELSE instead

\* chat after the message at p was edited, and after a new message.
Edited(p, screen) == [chat EXCEPT ![p] = IF p = "new" THEN screen ELSE Retained(screen, None)]
Sent(screen) == [new |-> screen, old |-> Retained(chat.new, chat.old)]

\* What a new message makes of a reference to the newest one.
Older(p) == IF p = "new" THEN "old" ELSE p

\* _replace_panel: edits the message that the data names, if any, or sends one
\* and has the data name it.
Replaced(screen) == IF panel = None THEN Sent(screen) ELSE Edited(panel, screen)
PanelAfter == IF panel = None THEN "new" ELSE panel

\* ui:close deletes the message: the newest one then is the older one that is
\* known, or yet another one.
Closed(p, uncovers) ==
    IF p = "old" THEN [chat EXCEPT !.old = None]
    ELSE IF uncovers THEN [new |-> chat.old, old |-> None] ELSE [chat EXCEPT !.new = None]
Newer(q) == IF q = "old" THEN "new" ELSE q

DialogInit ==
    /\ fsm = Idle /\ panel = None /\ crossed = FALSE
    /\ chat = [new |-> <<"main", None>>, old |-> None]

\* What a handler's step makes of crossed: the message that ui:close uncovers
\* was overtaken before.
Crosses == crossed' = (chat'.new = chat.new /\ (crossed \/ fsm' # fsm))
Uncovers(p) == crossed' = (crossed \/ p = "new")

\* The newest message asks for a text only when the handler it is meant for will
\* hear the answer, about the subject the message names - unless another handler
\* of the user changed the dialogue since.
PromptIsHeard == NameOf(chat.new) = "ask" /\ ~crossed => chat.new[2] = fsm
=============================================================================
