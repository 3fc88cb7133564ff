----------------------------- MODULE MCDialogs -----------------------------
(***************************************************************************)
(* Instances of WatchDialogs, UserDialogs and AdminDialogs.  A behaviour   *)
(* is of one of them: they share the messages and the FSM, and the first   *)
(* two know each other as "elsewhere".                                     *)
(***************************************************************************)
EXTENDS Dialog, TLC

CONSTANTS
    Games, Finds, FreeLimit, PremiumLimit, Saves,   \* those of WatchDialogs
    Regions, Offers, MaxPages,                      \* of UserDialogs
    Users, Dates, Contents, Handlers                \* of AdminDialogs

\* What a handler of an administrator in progress is recorded as.
Acts ==
    LET Of(names, items) == [does : names, at : {"new", "old", None}, item : items]
    IN Of({"days", "exact", "broadcast"}, {None})
         \cup Of({"until"}, (Users \cup {None}) \X Dates) \cup Of({"preview"}, Contents)

ASSUME DialogsAssumption ==
    /\ IsFiniteSet(Games) /\ Finds \subseteq SUBSET Games
    /\ FreeLimit \in Nat /\ PremiumLimit \in Nat /\ MaxPages \in Nat
    /\ None \notin Regions \cup Users \cup Acts

VARIABLES
    part, premium,
    results, rules, saving,
    user, country, deals, asked,
    people, data, acting, offered, overlapped

OfWatch == <<results, rules, saving>>
OfUser == <<user, country, deals, asked>>
OfAdmin == <<people, data, acting, offered, overlapped>>
vars == <<part, fsm, panel, chat, crossed, premium, OfWatch, OfUser, OfAdmin>>

Watch == INSTANCE WatchDialogs
User == INSTANCE UserDialogs
Admin == INSTANCE AdminDialogs

NoWatch == results = None /\ rules = [g \in Games |-> "none"] /\ saving = [s \in Saves |-> None]
NoUser == user = None /\ country = None /\ deals = None /\ asked = None
NoAdmin == people = None /\ data = None /\ acting = None /\ offered = None /\ overlapped = None

Init ==
    \/ part = "watch" /\ Watch!Init /\ NoUser /\ NoAdmin
    \/ part = "user" /\ User!Init /\ NoWatch /\ NoAdmin
    \/ part = "admin" /\ Admin!Init /\ NoWatch /\ NoUser /\ premium = None

Next ==
    /\ UNCHANGED part
    /\ \/ part = "watch" /\ Watch!Next /\ UNCHANGED <<OfUser, OfAdmin>>
       \/ part = "user" /\ User!Next /\ UNCHANGED <<OfWatch, OfAdmin>>
       \/ part = "admin" /\ Admin!Next /\ UNCHANGED <<premium, OfWatch, OfUser>>

Spec == Init /\ [][Next]_vars

\* Every variable is of its type: TypeOK of the three modules.
TypeOK ==
    /\ part = "watch" => Watch!TypeOK
    /\ part = "user" => User!TypeOK
    /\ part = "admin" => Admin!TypeOK

\* A user's prompts are heard: PromptIsHeard of Dialog.
PromptsAreHeard == part # "admin" => PromptIsHeard

\* The buttons of the newest message have a handler in the state that the
\* dialogue is in: ButtonsAreAlive of WatchDialogs and of UserDialogs.
ButtonsAreAlive ==
    /\ part = "watch" => Watch!ButtonsAreAlive
    /\ part = "user" => User!ButtonsAreAlive

\* Rules are added within the limit their check saw: LimitHolds of WatchDialogs.
LimitHolds == Watch!LimitHolds

\* A region only after the onboarding: OnboardingFirst of UserDialogs.
OnboardingFirst == part = "user" => User!OnboardingFirst

\* Administrators confirm what they see: ConfirmsWhatWasShown of AdminDialogs.
ConfirmsWhatWasShown == part = "admin" => Admin!ConfirmsWhatWasShown

\* Paying makes the user PREMIUM: PaymentRecorded of WatchDialogs.
PaymentRecorded == Watch!PaymentRecorded

Symmetry == Permutations(Games) \cup Permutations(Saves)
=============================================================================
