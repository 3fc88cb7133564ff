--------------------------- MODULE PremiumLedger ---------------------------
(***************************************************************************)
(* PremiumLedger: everything that gives or takes Premium: Stars payments,  *)
(* referral activations with their levels, the administrators' changes and *)
(* the job that ends subscriptions.                                        *)
(*                                                                         *)
(* Each of them is an ORM session: it reads the user's row, decides, and   *)
(* writes back only the columns it changed (Flushed).  Sessions of handlers *)
(* and of the job interleave; only referral activation locks the rows it   *)
(* reads, and of the two users only the inviter's.                         *)
(***************************************************************************)
EXTENDS Integers, FiniteSets

CONSTANTS
    NoValue,      \* SQL NULL; also: no session
    Users,
    Charges,      \* telegram_charge_ids
    Payer,        \* [Charges -> Users]
    PaidDays,     \* [Charges -> Nat]
    Inviter,      \* [invited users -> Users]: the registered referrals
    InviteeDays, InviterDays,
    Levels,       \* milestone levels
    LevelCount,   \* [Levels -> Nat \ {0}]: active referrals a level takes
    LevelDays,    \* [SUBSET Levels -> Nat]: the days levels give together
    AdminDays,    \* days one change of an administrator adds
    Workers,      \* bound: handlers in progress at once
    Horizon,      \* bound: days that pass
    MaxDeliveries,  \* bound: deliveries of a successful_payment update
    MaxAdmin      \* bound: changes by administrators

Invited == DOMAIN Inviter

ASSUME NoValueAssumption == NoValue \notin Int
ASSUME PaymentAssumption == Payer \in [Charges -> Users] /\ PaidDays \in [Charges -> Nat]
ASSUME ReferralAssumption ==
    /\ Invited \subseteq Users /\ \A i \in Invited : Inviter[i] \in Users \ {i}
    /\ InviteeDays \in Nat /\ InviterDays \in Nat
ASSUME LevelAssumption ==
    /\ IsFiniteSet(Levels)
    /\ LevelCount \in [Levels -> Nat \ {0}] /\ LevelDays \in [SUBSET Levels -> Nat]
ASSUME BoundsAssumption == AdminDays \in Nat /\ Horizon \in Nat

VARIABLES
    now,       \* the day
    row,       \* [Users -> the Premium columns of users]
    payments,  \* charges in the payments table
    active,    \* activated referrals, named by the invited user
    awarded,   \* [Users -> levels in referral_milestone_awards]
    rewards,   \* [Users -> days in referral_rewards]
    tx,        \* [Workers -> the handler's session or NoValue]
    job,       \* the expiry job's session: the rows it read, or NoValue
    granted,   \* history: days granted to a user, a charge or referral counted once
    delivered, \* history: deliveries of each charge's update
    admin      \* history: what MaxAdmin counts

books == <<payments, active, awarded, rewards>>
history == <<granted, delivered, admin>>
vars == <<now, row, books, tx, job, history>>

-----------------------------------------------------------------------------
Row == [plan : {"FREE", "PREMIUM"}, until : Int \cup {NoValue},
        noticed : BOOLEAN, earned : Nat]

PayTx == [kind : {"pay"}, user : Users, charge : Charges, read : Row, inserted : BOOLEAN]
AdminTx ==
    [kind : {"admin"}, user : Users, until : Int \cup {NoValue},
     read : Row \cup {NoValue}]
ReferralTx ==
    [kind : {"referral"}, user : Invited, read : Row, inviter : Row \cup {NoValue},
     levels : SUBSET Levels]

PaySession(u, c, read, inserted) ==
    [kind |-> "pay", user |-> u, charge |-> c, read |-> read, inserted |-> inserted]
AdminSession(u, until, read) ==
    [kind |-> "admin", user |-> u, until |-> until, read |-> read]
ReferralSession(i, read, inviter, levels) ==
    [kind |-> "referral", user |-> i, read |-> read, inviter |-> inviter, levels |-> levels]

TypeOK ==
    /\ now \in 0..Horizon
    /\ row \in [Users -> Row]
    /\ payments \subseteq Charges /\ active \subseteq Invited
    /\ awarded \in [Users -> SUBSET Levels] /\ rewards \in [Users -> Nat]
    /\ tx \in [Workers -> PayTx \cup AdminTx \cup ReferralTx \cup {NoValue}]
    /\ job # NoValue => \E due \in SUBSET Users : job \in [due -> Row]
    /\ granted \in [Users -> Nat]
    /\ delivered \in [Charges -> Nat] /\ admin \in Nat

NewUser == [plan |-> "FREE", until |-> NoValue, noticed |-> FALSE, earned |-> 0]

Init ==
    /\ now = 0
    /\ row = [u \in Users |-> NewUser]
    /\ payments = {} /\ active = {}
    /\ awarded = [u \in Users |-> {}] /\ rewards = [u \in Users |-> 0]
    /\ tx = [w \in Workers |-> NoValue] /\ job = NoValue
    /\ granted = [u \in Users |-> 0]
    /\ delivered = [c \in Charges |-> 0] /\ admin = 0

-----------------------------------------------------------------------------
\* User.is_premium.
IsPremium(r) == r.plan = "PREMIUM" /\ r.until # NoValue /\ r.until > now

\* Where an extension of r starts.
Base(r) == IF IsPremium(r) THEN r.until ELSE now

\* The columns after an extension by a payment.
Extended(r, days) ==
    [plan |-> "PREMIUM", until |-> Base(r) + days, noticed |-> FALSE,
     earned |-> r.earned]

\* Mutant of EndSet: days earned by referrals are taken back as well.
EndSetTakesEarned(r, until) ==
    LET premium == until # NoValue /\ until > now
    IN [plan |-> IF premium THEN "PREMIUM" ELSE "FREE", until |-> until,
        noticed |-> r.noticed /\ ~premium,
        earned |-> IF premium THEN r.earned ELSE r.earned - AdminDays]

\* The columns after an administrator set the end of Premium.
EndSet(r, until) ==
    LET premium == until # NoValue /\ until > now
    IN [plan |-> IF premium THEN "PREMIUM" ELSE "FREE", until |-> until,
        noticed |-> r.noticed /\ ~premium, earned |-> r.earned]

\* The columns after the end of Premium.
Expired(r) ==
    [plan |-> "FREE", until |-> r.until, noticed |-> TRUE, earned |-> r.earned]

\* An UPDATE names the attributes that differ from what the session read.
Flushed(stored, read, new) ==
    [column \in DOMAIN stored |->
        IF new[column] = read[column] THEN stored[column] ELSE new[column]]

\* Open(w, kind): worker w is in a session of this kind.
Open(w, kind) == tx[w] # NoValue /\ tx[w].kind = kind

\* The row lock of SELECT ... FOR UPDATE on an inviter.
LockedBy(w, u) == Open(w, "referral") /\ tx[w].inviter # NoValue /\ Inviter[tx[w].user] = u

Unlocked(u, w) == \A v \in Workers \ {w} : ~LockedBy(v, u)

\* The foreign key of an inserted payment keeps its user's row from being locked
\* FOR UPDATE, not from being updated.
PaysFor(w, u) == Open(w, "pay") /\ tx[w].inserted /\ tx[w].user = u

Close(w) == tx' = [tx EXCEPT ![w] = NoValue]

Tick ==
    /\ now < Horizon /\ now' = now + 1
    /\ UNCHANGED <<row, books, tx, job, history>>

\* An exception or a crash: a handler's session is rolled back.
Abort(w) ==
    /\ tx[w] # NoValue
    /\ Close(w)
    /\ UNCHANGED <<now, row, books, job, history>>

-----------------------------------------------------------------------------
(* payment_success: read the user, insert the payment unless its charge id *)
(* is taken, extend Premium.  The update may be delivered again.           *)

PayOpen(w, c) ==
    /\ tx[w] = NoValue
    /\ delivered[c] < MaxDeliveries
    /\ delivered' = [delivered EXCEPT ![c] = @ + 1]
    /\ tx' = [tx EXCEPT ![w] = PaySession(Payer[c], c, row[Payer[c]], FALSE)]
    /\ UNCHANGED <<now, row, books, job, granted, admin>>

\* Mutant of PayInsert: a plain insert in a table without the unique index.
PayInsertAlways(w) ==
    /\ Open(w, "pay") /\ ~tx[w].inserted
    /\ tx' = [tx EXCEPT ![w] = PaySession(@.user, @.charge, @.read, TRUE)]
    /\ UNCHANGED <<now, row, books, job, history>>

\* INSERT ... ON CONFLICT DO NOTHING waits for another session's insert of the
\* same charge.
PayInsert(w) ==
    /\ Open(w, "pay") /\ ~tx[w].inserted /\ Unlocked(tx[w].user, w)
    /\ \A v \in Workers \ {w} :
          Open(v, "pay") => ~(tx[v].inserted /\ tx[v].charge = tx[w].charge)
    /\ IF tx[w].charge \in payments THEN Close(w)
       ELSE tx' = [tx EXCEPT ![w] = PaySession(@.user, @.charge, @.read, TRUE)]
    /\ UNCHANGED <<now, row, books, job, history>>

PayCommit(w) ==
    LET u   == tx[w].user
        c   == tx[w].charge
        new == Extended(tx[w].read, PaidDays[c])
    IN
    /\ Open(w, "pay") /\ tx[w].inserted /\ Unlocked(u, w)
    /\ row' = [row EXCEPT ![u] = Flushed(@, tx[w].read, new)]
    /\ payments' = payments \cup {c}
    /\ granted' = IF c \in payments THEN granted
                  ELSE [granted EXCEPT ![u] = @ + PaidDays[c]]
    /\ Close(w)
    /\ UNCHANGED <<now, active, awarded, rewards, job, delivered, admin>>

-----------------------------------------------------------------------------
(* Administrators: the base is read in a session of its own, the change is *)
(* made by _apply_premium_change in another.                               *)

AdminOpen(w, u, until) ==
    /\ tx[w] = NoValue
    /\ admin < MaxAdmin /\ admin' = admin + 1
    /\ tx' = [tx EXCEPT ![w] = AdminSession(u, until, NoValue)]
    /\ UNCHANGED <<now, row, books, job, granted, delivered>>

\* admin_premium_add, admin_premium_manual_days and test_premium.
AdminExtend(w, u) == AdminOpen(w, u, Base(row[u]) + AdminDays)

\* admin_premium_revoke.
AdminRevoke(w, u) == AdminOpen(w, u, NoValue)

\* admin_premium_exact_confirm: a date ahead or one that has passed.
AdminExact(w, u) == \E d \in {0, AdminDays} : AdminOpen(w, u, now + d)

AdminGet(w) ==
    /\ Open(w, "admin") /\ tx[w].read = NoValue
    /\ tx' = [tx EXCEPT ![w] = AdminSession(@.user, @.until, row[@.user])]
    /\ UNCHANGED <<now, row, books, job, history>>

AdminCommit(w) ==
    LET u     == tx[w].user
        until == tx[w].until
    IN
    /\ Open(w, "admin") /\ tx[w].read # NoValue /\ Unlocked(u, w)
    /\ row' = [row EXCEPT ![u] = Flushed(@, tx[w].read, EndSet(tx[w].read, until))]
    /\ granted' = IF until = NoValue THEN granted ELSE [granted EXCEPT ![u] = @ + AdminDays]
    /\ Close(w)
    /\ UNCHANGED <<now, books, job, delivered, admin>>

-----------------------------------------------------------------------------
(* activate_if_eligible, called after the invited user saved a rule.       *)

ActiveReferrals(inviter, referrals) == {i \in referrals : Inviter[i] = inviter}

\* Mutant of EligibleLevels: the referral being activated does not count.
EligibleLevelsBefore(inviter, i) ==
    {l \in Levels \ awarded[inviter] :
        Cardinality(ActiveReferrals(inviter, active)) >= LevelCount[l]}

\* eligible_referral_levels, with i counted as active already.
EligibleLevels(inviter, i) ==
    {l \in Levels \ awarded[inviter] :
        Cardinality(ActiveReferrals(inviter, active \cup {i})) >= LevelCount[l]}

\* Lock the referral, read the invited user without a lock.
ReferralOpen(w, i) ==
    /\ tx[w] = NoValue
    /\ i \notin active
    /\ \A v \in Workers : Open(v, "referral") => tx[v].user # i
    /\ tx' = [tx EXCEPT ![w] = ReferralSession(i, row[i], NoValue, {})]
    /\ UNCHANGED <<now, row, books, job, history>>

\* The session once it knows the inviter's row and the levels he reaches.
Rewarded(s) ==
    LET inv == Inviter[s.user]
    IN ReferralSession(s.user, s.read, row[inv], EligibleLevels(inv, s.user))

\* Mutant of ReferralLock: the inviter is read without FOR UPDATE.
ReferralReadInviter(w) ==
    /\ Open(w, "referral") /\ tx[w].inviter = NoValue
    /\ tx' = [tx EXCEPT ![w] = Rewarded(@)]
    /\ UNCHANGED <<now, row, books, job, history>>

\* Lock and read the inviter, then his referrals and levels.
ReferralLock(w) ==
    /\ Open(w, "referral") /\ tx[w].inviter = NoValue
    /\ Unlocked(Inviter[tx[w].user], w)
    /\ \A v \in Workers : ~PaysFor(v, Inviter[tx[w].user])
    /\ tx' = [tx EXCEPT ![w] = Rewarded(@)]
    /\ UNCHANGED <<now, row, books, job, history>>

\* _grant_days.
Granted(r, days) ==
    [plan |-> "PREMIUM", until |-> Base(r) + days, noticed |-> FALSE,
     earned |-> r.earned + days]

ReferralCommit(w) ==
    LET i      == tx[w].user
        inv    == Inviter[i]
        levels == tx[w].levels
        days   == InviterDays + LevelDays[levels]
    IN
    /\ Open(w, "referral") /\ tx[w].inviter # NoValue /\ Unlocked(i, w)
    /\ row' = [row EXCEPT
          ![i] = Flushed(@, tx[w].read, Granted(tx[w].read, InviteeDays)),
          ![inv] = Flushed(@, tx[w].inviter, Granted(tx[w].inviter, days))]
    /\ active' = active \cup {i}
    /\ awarded' = [awarded EXCEPT ![inv] = @ \cup levels]
    /\ rewards' = [rewards EXCEPT ![i] = @ + InviteeDays, ![inv] = @ + days]
    /\ granted' = IF i \in active THEN granted
                  ELSE [granted EXCEPT ![i] = @ + InviteeDays, ![inv] = @ + days]
    /\ Close(w)
    /\ UNCHANGED <<now, payments, job, delivered, admin>>

-----------------------------------------------------------------------------
(* expire_subscriptions: read what is over, tell the owners, then commit.  *)

ExpireOpen ==
    /\ job = NoValue
    /\ LET due == {u \in Users : row[u].plan = "PREMIUM" /\ row[u].until # NoValue
                                 /\ row[u].until <= now}
       IN due # {} /\ job' = [u \in due |-> row[u]]
    /\ UNCHANGED <<now, row, books, tx, history>>

ExpireCommit ==
    /\ job # NoValue
    /\ \A u \in DOMAIN job, w \in Workers : ~LockedBy(w, u)
    /\ row' = [u \in Users |->
                  IF u \notin DOMAIN job THEN row[u]
                  ELSE Flushed(row[u], job[u], Expired(job[u]))]
    /\ job' = NoValue
    /\ UNCHANGED <<now, books, tx, history>>

\* The job's session is rolled back.
ExpireAbort ==
    /\ job # NoValue /\ job' = NoValue
    /\ UNCHANGED <<now, row, books, tx, history>>

-----------------------------------------------------------------------------
Handler(w) ==
    \/ Abort(w)
    \/ (\E c \in Charges : PayOpen(w, c)) \/ PayInsert(w) \/ PayCommit(w)
    \/ \E u \in Users : AdminExtend(w, u) \/ AdminRevoke(w, u) \/ AdminExact(w, u)
    \/ AdminGet(w) \/ AdminCommit(w)
    \/ (\E i \in Invited : ReferralOpen(w, i)) \/ ReferralLock(w) \/ ReferralCommit(w)

Next ==
    \/ Tick \/ ExpireOpen \/ ExpireCommit \/ ExpireAbort
    \/ \E w \in Workers : Handler(w)

Spec == Init /\ [][Next]_vars

-----------------------------------------------------------------------------
(* Properties.                                                             *)

\* Premium is never given away: whatever sessions race, updates are delivered
\* twice and activations are retried, nobody has more days ahead than
\* administrators, his payments and his referrals granted, each charge and each
\* referral counted once.
NoFreeDays ==
    \A u \in Users : row[u].until # NoValue => row[u].until - now <= granted[u]

\* Levels are awarded exactly when they are reached, also when two friends of
\* one inviter are activated at the same time.
LevelsAwardedWhenReached ==
    \A u \in Users :
        awarded[u] =
            {l \in Levels : Cardinality(ActiveReferrals(u, active)) >= LevelCount[l]}

\* referral_days_earned of an inviter is the sum of the rewards booked for him,
\* for inviters who were not invited themselves: the row of an invited user is
\* read without a lock.
InviterEarnedAddsUp ==
    \A u \in Users \ Invited : row[u].earned = rewards[u]

\* The payer was told that Premium is active: it lasts until its days are over.
\* (For runs without administrators, who may revoke it.)
PaidStaysPremium ==
    [][\A u \in Users : now' = now /\ IsPremium(row[u]) => IsPremium(row'[u])]_vars
=============================================================================
