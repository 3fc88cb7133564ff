------------------------ MODULE PremiumLedger_proofs ------------------------
(***************************************************************************)
(* Whatever sessions interleave, and for every set of users, charges,      *)
(* referrals and levels: the types hold, and nobody has more days ahead    *)
(* than were granted, each charge and each referral counted once.  And     *)
(* what the lock on an inviter's row buys: however many of his friends are *)
(* activated at once, levels are awarded when they are reached, and the    *)
(* days he earned are those that were booked for him.  At the end, the     *)
(* screens of PremiumTools: the regions of a comparison stay within their  *)
(* limit, and the buttons of the newest message work.                      *)
(***************************************************************************)
EXTENDS MCPremium, FiniteSetTheorems, TLAPS

\* until is at most days ahead of day.
Ahead(until, day, days) == until # NoValue => until - day <= days

RowsCovered == \A u \in Users : Ahead(row[u].until, now, granted[u])

\* NoFreeDays is not inductive: a session may write back an end it read long
\* ago.  What a session holds is covered as well, an administrator's new end
\* up to the days its commit will grant.
SessionCovered(w) ==
    /\ Open(w, "pay") => Ahead(tx[w].read.until, now, granted[tx[w].user])
    /\ Open(w, "admin") => Ahead(tx[w].until, now, granted[tx[w].user] + AdminDays)
    /\ Open(w, "referral") =>
          /\ Ahead(tx[w].read.until, now, granted[tx[w].user])
          /\ tx[w].inviter # NoValue =>
                Ahead(tx[w].inviter.until, now, granted[Inviter[tx[w].user]])

SessionsCovered == \A w \in Workers : SessionCovered(w)

\* w has inserted the payment of charge c.
Inserted(w, c) == Open(w, "pay") /\ tx[w].inserted /\ tx[w].charge = c

\* Session w activates the referral of i.
Activates(w, i) == Open(w, "referral") /\ tx[w].user = i

\* What a session is about to book is not booked yet, and no other session is
\* about to book it: the unique index and the lock of the referral.
BookedOnce ==
    /\ \A w \in Workers, c \in Charges : Inserted(w, c) =>
          c \notin payments /\ \A v \in Workers \ {w} : ~Inserted(v, c)
    /\ \A w \in Workers, i \in Invited : Activates(w, i) =>
          i \notin active /\ \A v \in Workers \ {w} : ~Activates(v, i)

IInv == TypeOK /\ BookedOnce /\ RowsCovered /\ SessionsCovered

Sessions == PayTx \cup AdminTx \cup ReferralTx \cup {NoValue}

-----------------------------------------------------------------------------
(* Lemmas about the operators.                                             *)

\* A flush leaves a well-formed row whose end is the stored or the new one.
LEMMA FlushedRow ==
    ASSUME NEW stored \in Row, NEW read \in Row, NEW new \in Row
    PROVE  /\ Flushed(stored, read, new) \in Row
           /\ Flushed(stored, read, new).until \in {stored.until, new.until}
BY SMT DEF Flushed, Row

\* A session is of the type its kind says.
LEMMA SessionTypes ==
    ASSUME TypeOK, NEW w \in Workers
    PROVE  /\ Open(w, "pay") => tx[w] \in PayTx
           /\ Open(w, "admin") => tx[w] \in AdminTx
           /\ Open(w, "referral") => tx[w] \in ReferralTx
BY SMT DEF TypeOK, Open, PayTx, AdminTx, ReferralTx

\* What constructors make is a session.
LEMMA Constructed ==
    /\ \A u \in Users, c \in Charges, r \in Row, b \in BOOLEAN :
          PaySession(u, c, r, b) \in PayTx
    /\ \A u \in Users, e \in Int \cup {NoValue}, r \in Row \cup {NoValue} :
          AdminSession(u, e, r) \in AdminTx
    /\ \A i \in Invited, r \in Row, n \in Row \cup {NoValue}, l \in SUBSET Levels :
          ReferralSession(i, r, n, l) \in ReferralTx
BY SMT DEF PaySession, AdminSession, ReferralSession, PayTx, AdminTx, ReferralTx

\* An extension starts at an end that is covered, or today.
LEMMA BaseCovered ==
    ASSUME NEW r \in Row, NEW n \in Nat, now \in Nat, Ahead(r.until, now, n)
    PROVE  Base(r) - now <= n
BY NoValueAssumption, SMT DEF Base, IsPremium, Row, Ahead

\* A base is a day.
LEMMA BaseDay ==
    ASSUME NEW r \in Row, now \in Nat
    PROVE  Base(r) \in Int
BY SMT DEF Base, IsPremium, Row

-----------------------------------------------------------------------------
(* Type correctness.                                                       *)

LEMMA TypeInit == Init => TypeOK
BY BoundsAssumption, SMT DEF Init, TypeOK, NewUser, Row

\* The sessions handlers open and advance.
LEMMA TypeSessions ==
    ASSUME TypeOK, NEW w \in Workers,
           \/ Abort(w) \/ PayInsert(w) \/ AdminGet(w) \/ ReferralLock(w)
           \/ \E c \in Charges : PayOpen(w, c)
           \/ \E u \in Users : AdminExtend(w, u) \/ AdminRevoke(w, u) \/ AdminExact(w, u)
           \/ \E i \in Invited : ReferralOpen(w, i)
    PROVE  TypeOK'
<1>1. ASSUME NEW s \in Sessions, tx' = [tx EXCEPT ![w] = s],
             UNCHANGED <<now, row, books, job, granted>>,
             delivered' \in [Charges -> Nat], admin' \in Nat
      PROVE  TypeOK'
    BY <1>1, SMT DEF TypeOK, books, Sessions
<1>2. /\ row \in [Users -> Row] /\ now \in Nat
      /\ delivered \in [Charges -> Nat] /\ admin \in Nat
    BY BoundsAssumption, SMT DEF TypeOK
<1>3. NoValue \in Sessions
    BY DEF Sessions
<1>4. CASE Abort(w)
    BY <1>1, <1>2, <1>3, <1>4 DEF Abort, Close, history
<1>5. CASE PayInsert(w)
    <2>4. tx[w] \in PayTx
        BY <1>5, SessionTypes DEF PayInsert
    <2>5. tx[w].user \in Users /\ tx[w].charge \in Charges /\ tx[w].read \in Row
        BY <2>4, SMT DEF PayTx
    <2>1. PaySession(tx[w].user, tx[w].charge, tx[w].read, TRUE) \in Sessions
        BY <2>5, Constructed DEF Sessions
    <2>2. UNCHANGED <<now, row, books, job, history>>
        BY <1>5 DEF PayInsert
    <2>3. \/ tx' = [tx EXCEPT ![w] = NoValue]
          \/ tx' = [tx EXCEPT ![w] = PaySession(tx[w].user, tx[w].charge, tx[w].read, TRUE)]
        BY <1>5, Zenon DEF PayInsert, Close
    <2> QED BY <1>1, <1>2, <1>3, <2>1, <2>2, <2>3 DEF history
<1>6. CASE AdminGet(w)
    <2>4. tx[w] \in AdminTx
        BY <1>6, SessionTypes DEF AdminGet
    <2>5. tx[w].user \in Users /\ tx[w].until \in Int \cup {NoValue}
        BY <2>4, SMT DEF AdminTx
    <2>6. row[tx[w].user] \in Row
        BY <1>2, <2>5
    <2>1. AdminSession(tx[w].user, tx[w].until, row[tx[w].user]) \in Sessions
        BY <2>5, <2>6, Constructed DEF Sessions
    <2>2. /\ tx' = [tx EXCEPT ![w] = AdminSession(tx[w].user, tx[w].until, row[tx[w].user])]
          /\ UNCHANGED <<now, row, books, job, history>>
        BY <1>6, SMT DEF AdminGet
    <2> QED BY <1>1, <1>2, <2>1, <2>2 DEF history
<1>7. CASE ReferralLock(w)
    <2>1. Inviter[tx[w].user] \in Users /\ tx[w].read \in Row /\ tx[w].user \in Invited
        BY <1>7, SessionTypes, ReferralAssumption, SMT DEF ReferralLock, ReferralTx
    <2>4. EligibleLevels(Inviter[tx[w].user], tx[w].user) \in SUBSET Levels
        BY DEF EligibleLevels
    <2>2. Rewarded(tx[w]) \in Sessions
        BY <1>2, <2>1, <2>4, Constructed, Zenon DEF Sessions, Rewarded
    <2>3. /\ tx' = [tx EXCEPT ![w] = Rewarded(tx[w])]
          /\ UNCHANGED <<now, row, books, job, history>>
        BY <1>7, SMT DEF ReferralLock
    <2> QED BY <1>1, <1>2, <2>2, <2>3 DEF history
<1>8. ASSUME NEW c \in Charges, PayOpen(w, c) PROVE TypeOK'
    <2>1. PaySession(Payer[c], c, row[Payer[c]], FALSE) \in Sessions
        BY <1>2, PaymentAssumption, Constructed, Zenon DEF Sessions
    <2>2. delivered' \in [Charges -> Nat] /\ admin' \in Nat
        BY <1>2, <1>8, SMT DEF PayOpen
    <2> QED BY <1>1, <1>8, <2>1, <2>2 DEF PayOpen
<1>9. ASSUME NEW u \in Users, NEW e \in Int \cup {NoValue}, AdminOpen(w, u, e)
      PROVE  TypeOK'
    <2>1. AdminSession(u, e, NoValue) \in Sessions
        BY Constructed, SMT DEF Sessions
    <2>2. delivered' \in [Charges -> Nat] /\ admin' \in Nat
        BY <1>2, <1>9, SMT DEF AdminOpen
    <2> QED BY <1>1, <1>9, <2>1, <2>2 DEF AdminOpen
<1>10. ASSUME NEW u \in Users, AdminExtend(w, u) \/ AdminRevoke(w, u) \/ AdminExact(w, u)
       PROVE  TypeOK'
    <2>1. Base(row[u]) + AdminDays \in Int
        BY <1>2, BaseDay, BoundsAssumption, SMT
    <2>2. \A d \in {0, AdminDays} : now + d \in Int
        BY <1>2, BoundsAssumption, SMT
    <2> QED BY <1>9, <1>10, <2>1, <2>2 DEF AdminExtend, AdminRevoke, AdminExact
<1>11. ASSUME NEW i \in Invited, ReferralOpen(w, i) PROVE TypeOK'
    <2>2. row[i] \in Row /\ NoValue \in Row \cup {NoValue} /\ {} \in SUBSET Levels
        BY <1>2, ReferralAssumption
    <2>1. ReferralSession(i, row[i], NoValue, {}) \in Sessions
        BY <2>2, Constructed, Zenon DEF Sessions
    <2> QED BY <1>1, <1>2, <1>11, <2>1 DEF ReferralOpen, history
<1> QED BY <1>4, <1>5, <1>6, <1>7, <1>8, <1>10, <1>11

\* An extension, a grant, the end by an administrator and by the job are rows.
LEMMA NewRows ==
    ASSUME NEW r \in Row, now \in Nat
    PROVE  /\ \A days \in Nat : Extended(r, days) \in Row
           /\ \A days \in Nat : Granted(r, days) \in Row
           /\ \A until \in Int \cup {NoValue} : EndSet(r, until) \in Row
           /\ Expired(r) \in Row
<1>1. Base(r) \in Int
    BY BaseDay
<1>2. ASSUME NEW days \in Nat PROVE Extended(r, days) \in Row
    BY <1>1, SMT DEF Extended, Row
<1>3. ASSUME NEW days \in Nat PROVE Granted(r, days) \in Row
    BY <1>1, SMT DEF Granted, Row
<1>4. ASSUME NEW until \in Int \cup {NoValue} PROVE EndSet(r, until) \in Row
    BY SMT DEF EndSet, Row
<1>5. Expired(r) \in Row
    BY SMT DEF Expired, Row
<1> QED BY <1>2, <1>3, <1>4, <1>5

LEMMA TypePayCommit ==
    ASSUME TypeOK, NEW w \in Workers, PayCommit(w)
    PROVE  TypeOK'
<1> DEFINE u == tx[w].user
           c == tx[w].charge
           new == Extended(tx[w].read, PaidDays[c])
<1>1. tx[w] \in PayTx
    BY SessionTypes DEF PayCommit
<1>2. u \in Users /\ c \in Charges /\ tx[w].read \in Row
    BY <1>1, SMT DEF PayTx
<1>3. row[u] \in Row /\ now \in Nat /\ granted[u] \in Nat /\ PaidDays[c] \in Nat
    BY <1>2, PaymentAssumption, BoundsAssumption, SMT DEF TypeOK
<1>4. Flushed(row[u], tx[w].read, new) \in Row
    BY <1>2, <1>3, NewRows, FlushedRow
<1>5. row' = [row EXCEPT ![u] = Flushed(row[u], tx[w].read, new)]
    BY DEF PayCommit
<1>6. granted' \in [Users -> Nat]
    BY <1>2, <1>3, SMT DEF TypeOK, PayCommit
<1>7. payments' \subseteq Charges
    BY <1>2, SMT DEF TypeOK, PayCommit
<1>8. tx' = [tx EXCEPT ![w] = NoValue] /\ UNCHANGED <<now, active, awarded, rewards, job, delivered, admin>>
    BY DEF PayCommit, Close
<1>9. row' \in [Users -> Row]
    BY <1>2, <1>4, <1>5 DEF TypeOK
<1>10. tx' \in [Workers -> PayTx \cup AdminTx \cup ReferralTx \cup {NoValue}]
    BY <1>8 DEF TypeOK
<1> QED BY <1>6, <1>7, <1>8, <1>9, <1>10, Zenon DEF TypeOK

LEMMA TypeAdminCommit ==
    ASSUME TypeOK, NEW w \in Workers, AdminCommit(w)
    PROVE  TypeOK'
<1> DEFINE u == tx[w].user
           new == EndSet(tx[w].read, tx[w].until)
<1>1. tx[w] \in AdminTx /\ tx[w].read # NoValue
    BY SessionTypes DEF AdminCommit
<1>2. u \in Users /\ tx[w].until \in Int \cup {NoValue} /\ tx[w].read \in Row
    BY <1>1, SMT DEF AdminTx
<1>3. row[u] \in Row /\ now \in Nat /\ granted[u] \in Nat
    BY <1>2, BoundsAssumption, SMT DEF TypeOK
<1>4. Flushed(row[u], tx[w].read, new) \in Row
    BY <1>2, <1>3, NewRows, FlushedRow
<1>5. row' = [row EXCEPT ![u] = Flushed(row[u], tx[w].read, new)]
    BY DEF AdminCommit
<1>6. granted' \in [Users -> Nat]
    BY <1>2, <1>3, BoundsAssumption, SMT DEF TypeOK, AdminCommit
<1>7. tx' = [tx EXCEPT ![w] = NoValue] /\ UNCHANGED <<now, books, job, delivered, admin>>
    BY DEF AdminCommit, Close
<1>8. row' \in [Users -> Row]
    BY <1>2, <1>4, <1>5 DEF TypeOK
<1>9. tx' \in [Workers -> PayTx \cup AdminTx \cup ReferralTx \cup {NoValue}]
    BY <1>7 DEF TypeOK
<1> QED BY <1>6, <1>7, <1>8, <1>9, Zenon DEF TypeOK, books

\* What the commit of a referral finds.
LEMMA ReferralFound ==
    ASSUME TypeOK, NEW w \in Workers, ReferralCommit(w)
    PROVE  LET i == tx[w].user IN
           /\ i \in Invited /\ Inviter[i] \in Users /\ i \in Users /\ i # Inviter[i]
           /\ tx[w].read \in Row /\ tx[w].inviter \in Row
           /\ tx[w].levels \subseteq Levels
           /\ InviterDays + LevelDays[tx[w].levels] \in Nat
<1> DEFINE i == tx[w].user
           levels == tx[w].levels
<1>1. tx[w] \in ReferralTx /\ tx[w].inviter # NoValue
    BY SessionTypes DEF ReferralCommit
<1>2. i \in Invited /\ tx[w].read \in Row /\ tx[w].inviter \in Row /\ levels \subseteq Levels
    BY <1>1, SMT DEF ReferralTx
<1>3. Inviter[i] \in Users /\ i \in Users /\ i # Inviter[i]
    BY <1>2, ReferralAssumption
<1>5. LevelDays[levels] \in Nat
    BY <1>2, LevelAssumption
<1>6. InviterDays + LevelDays[levels] \in Nat
    BY <1>5, ReferralAssumption, SMT
<1> QED BY <1>2, <1>3, <1>6

LEMMA TypeReferralCommit ==
    ASSUME TypeOK, NEW w \in Workers, ReferralCommit(w)
    PROVE  TypeOK'
<1> DEFINE i == tx[w].user
           inv == Inviter[i]
           levels == tx[w].levels
           days == InviterDays + LevelDays[levels]
           mine == Flushed(row[i], tx[w].read, Granted(tx[w].read, InviteeDays))
           his == Flushed(row[inv], tx[w].inviter, Granted(tx[w].inviter, days))
<1>1. /\ i \in Invited /\ inv \in Users /\ i \in Users /\ i # inv
      /\ tx[w].read \in Row /\ tx[w].inviter \in Row
      /\ levels \subseteq Levels /\ days \in Nat
    BY ReferralFound
<1>2. /\ row \in [Users -> Row] /\ now \in Nat /\ awarded \in [Users -> SUBSET Levels]
      /\ granted \in [Users -> Nat] /\ rewards \in [Users -> Nat] /\ active \subseteq Invited
    BY BoundsAssumption, SMT DEF TypeOK
<1>3. mine \in Row /\ his \in Row
    BY <1>1, <1>2, ReferralAssumption, NewRows, FlushedRow
<1>4. row' = [row EXCEPT ![i] = mine, ![inv] = his]
    BY <1>1 DEF ReferralCommit
<1>5. row' \in [Users -> Row]
    BY <1>1, <1>2, <1>3, <1>4
<1>6. /\ active' = active \cup {i}
      /\ awarded' = [awarded EXCEPT ![inv] = @ \cup levels]
      /\ rewards' = [rewards EXCEPT ![i] = @ + InviteeDays, ![inv] = @ + days]
      /\ granted' = IF i \in active THEN granted
                    ELSE [granted EXCEPT ![i] = @ + InviteeDays, ![inv] = @ + days]
      /\ tx' = [tx EXCEPT ![w] = NoValue]
      /\ UNCHANGED <<now, payments, job, delivered, admin>>
    BY DEF ReferralCommit, Close
<1>7. active' \subseteq Invited /\ awarded' \in [Users -> SUBSET Levels]
    BY <1>1, <1>2, <1>6
<1>8. rewards' \in [Users -> Nat] /\ granted' \in [Users -> Nat]
    <2> HIDE DEF i, inv, days
    <2> QED BY <1>1, <1>2, <1>6, ReferralAssumption, SMT
<1>9. tx' \in [Workers -> PayTx \cup AdminTx \cup ReferralTx \cup {NoValue}]
    BY <1>6, SMT DEF TypeOK
<1> QED BY <1>5, <1>6, <1>7, <1>8, <1>9, Zenon DEF TypeOK

LEMMA TypeJob ==
    ASSUME TypeOK, Tick \/ ExpireOpen \/ ExpireCommit \/ ExpireAbort
    PROVE  TypeOK'
<1>1. CASE Tick
    BY <1>1, BoundsAssumption, SMT DEF TypeOK, Tick, books, history
<1>2. CASE ExpireOpen
    <2>1. PICK due \in SUBSET Users : job' = [u \in due |-> row[u]]
        BY <1>2, Zenon DEF ExpireOpen
    <2>2. job' \in [due -> Row]
        BY <2>1 DEF TypeOK
    <2> QED BY <1>2, <2>2, Zenon DEF ExpireOpen, TypeOK, books, history
<1>3. CASE ExpireCommit
    <2>1. PICK due \in SUBSET Users : job \in [due -> Row]
        BY <1>3 DEF ExpireCommit, TypeOK
    <2>2. row \in [Users -> Row] /\ now \in Nat
        BY BoundsAssumption, SMT DEF TypeOK
    <2>3. \A u \in due : Flushed(row[u], job[u], Expired(job[u])) \in Row
        BY <2>1, <2>2, NewRows, FlushedRow
    <2>4. row' \in [Users -> Row]
        BY <1>3, <2>1, <2>2, <2>3 DEF ExpireCommit
    <2> QED BY <1>3, <2>4, Zenon DEF ExpireCommit, TypeOK, books, history
<1>4. CASE ExpireAbort
    BY <1>4, Zenon DEF ExpireAbort, TypeOK, books, history
<1> QED BY <1>1, <1>2, <1>3, <1>4

\* Every step keeps the types.
LEMMA TypeNext == TypeOK /\ [Next]_vars => TypeOK'
<1> SUFFICES ASSUME TypeOK, [Next]_vars PROVE TypeOK'
    OBVIOUS
<1>1. CASE UNCHANGED vars
    BY <1>1, Zenon DEF TypeOK, vars, books, history
<1>2. CASE Next
    BY <1>2, TypeSessions, TypePayCommit, TypeAdminCommit, TypeReferralCommit, TypeJob,
       Zenon DEF Next, Handler
<1> QED BY <1>1, <1>2

\* Every reachable state is of the declared types, whatever the instance.
THEOREM TypeCorrect == Spec => []TypeOK
BY TypeInit, TypeNext, PTL DEF Spec

-----------------------------------------------------------------------------
(* Nothing is booked twice.                                                *)

\* A step that changes one session.
LEMMA OneSession ==
    ASSUME TypeOK, NEW w \in Workers, NEW s, tx' = [tx EXCEPT ![w] = s]
    PROVE  tx'[w] = s /\ \A v \in Workers \ {w} : tx'[v] = tx[v]
BY Zenon DEF TypeOK

\* A session that books nothing leaves BookedOnce alone.
LEMMA BookedQuietly ==
    ASSUME TypeOK, BookedOnce, NEW w \in Workers, UNCHANGED <<payments, active>>,
           \A v \in Workers \ {w} : tx'[v] = tx[v],
           \A c \in Charges : Inserted(w, c)' => Inserted(w, c),
           \A i \in Invited : Activates(w, i)' => Activates(w, i)
    PROVE  BookedOnce'
<1>1. ASSUME NEW v \in Workers, NEW c \in Charges
      PROVE  Inserted(v, c)' => Inserted(v, c)
    BY <1>1, Zenon DEF Inserted, Open
<1>2. ASSUME NEW v \in Workers, NEW i \in Invited
      PROVE  Activates(v, i)' => Activates(v, i)
    BY <1>2, Zenon DEF Activates, Open
<1> QED BY <1>1, <1>2, Zenon DEF BookedOnce

\* The insert of a payment: the unique index.
LEMMA BookedPayInsert ==
    ASSUME TypeOK, BookedOnce, NEW w \in Workers, PayInsert(w)
    PROVE  BookedOnce'
<1>1. UNCHANGED <<payments, active>> /\ Open(w, "pay")
    BY DEF PayInsert, books
<1>2. CASE tx[w].charge \in payments
    <2>1. tx' = [tx EXCEPT ![w] = NoValue]
        BY <1>2 DEF PayInsert, Close
    <2>2. tx'[w] = NoValue /\ \A v \in Workers \ {w} : tx'[v] = tx[v]
        BY <2>1, OneSession
    <2> QED BY <1>1, <2>2, BookedQuietly DEF Inserted, Activates, Open
<1>3. CASE tx[w].charge \notin payments
    <2> DEFINE s == PaySession(tx[w].user, tx[w].charge, tx[w].read, TRUE)
    <2>1. tx' = [tx EXCEPT ![w] = s]
        BY <1>3, Zenon DEF PayInsert
    <2>2. tx'[w] = s /\ \A v \in Workers \ {w} : tx'[v] = tx[v]
        BY <2>1, OneSession
    <2>3. s.kind = "pay" /\ s.charge = tx[w].charge
        BY DEF PaySession
    <2>4. \A v \in Workers \ {w} : ~Inserted(v, tx[w].charge)
        BY DEF PayInsert, Inserted
    <2>5. ASSUME NEW c \in Charges, Inserted(w, c)'
          PROVE  c = tx[w].charge
        BY <2>2, <2>3, <2>5 DEF Inserted
    <2>6. \A v \in Workers, i \in Invited : Activates(v, i)' => Activates(v, i)
        BY <2>2, <2>3 DEF Activates, Open
    <2>7. ASSUME NEW v \in Workers \ {w}, NEW c \in Charges
          PROVE  Inserted(v, c)' <=> Inserted(v, c)
        BY <2>2, <2>7, Zenon DEF Inserted, Open
    <2>8. ASSUME NEW v \in Workers, NEW c \in Charges, Inserted(v, c)'
          PROVE  c \notin payments' /\ \A x \in Workers \ {v} : ~Inserted(x, c)'
        <3>1. CASE v = w
            BY <1>1, <1>3, <2>4, <2>5, <2>7, <2>8, <3>1, Zenon
        <3>2. CASE v # w
            <4>1. Inserted(v, c)
                BY <2>7, <2>8, <3>2
            <4>2. c # tx[w].charge
                BY <2>4, <3>2, <4>1
            <4> QED BY <1>1, <2>5, <2>7, <4>1, <4>2, Zenon DEF BookedOnce
        <3> QED BY <3>1, <3>2
    <2> QED BY <1>1, <2>6, <2>8, Zenon DEF BookedOnce
<1> QED BY <1>2, <1>3

\* The commit of a payment.
LEMMA BookedPayCommit ==
    ASSUME TypeOK, BookedOnce, NEW w \in Workers, PayCommit(w)
    PROVE  BookedOnce'
<1>1. tx' = [tx EXCEPT ![w] = NoValue] /\ active' = active
      /\ payments' = payments \cup {tx[w].charge} /\ Open(w, "pay") /\ tx[w].inserted
    BY DEF PayCommit, Close
<1>2. tx'[w] = NoValue /\ \A v \in Workers \ {w} : tx'[v] = tx[v]
    BY <1>1, OneSession
<1>3. tx[w].charge \in Charges
    BY <1>1, SessionTypes, SMT DEF PayTx
<1>4. \A v \in Workers \ {w} : ~Inserted(v, tx[w].charge)
    BY <1>1, <1>3 DEF BookedOnce, Inserted
<1>5. ASSUME NEW v \in Workers, NEW c \in Charges, Inserted(v, c)'
      PROVE  v # w /\ Inserted(v, c)
    BY <1>2, <1>5, Zenon DEF Inserted, Open
<1>6. ASSUME NEW v \in Workers, NEW i \in Invited, Activates(v, i)'
      PROVE  Activates(v, i)
    BY <1>2, <1>6, Zenon DEF Activates, Open
<1>7. ASSUME NEW v \in Workers, NEW c \in Charges, Inserted(v, c)'
      PROVE  c \notin payments'
    BY <1>1, <1>4, <1>5, <1>7 DEF BookedOnce
<1> QED BY <1>1, <1>5, <1>6, <1>7, Zenon DEF BookedOnce

\* The activation of a referral begins: the lock of the referral.
LEMMA BookedReferralOpen ==
    ASSUME TypeOK, BookedOnce, NEW w \in Workers, NEW i \in Invited, ReferralOpen(w, i)
    PROVE  BookedOnce'
<1> DEFINE s == ReferralSession(i, row[i], NoValue, {})
<1>1. tx' = [tx EXCEPT ![w] = s] /\ UNCHANGED <<payments, active>> /\ i \notin active
    BY DEF ReferralOpen, books
<1>2. tx'[w] = s /\ \A v \in Workers \ {w} : tx'[v] = tx[v]
    BY <1>1, OneSession
<1>3. s.kind = "referral" /\ s.user = i
    BY DEF ReferralSession, Rewarded
<1>4. \A v \in Workers : ~Activates(v, i)
    BY DEF ReferralOpen, Activates
<1>5. ASSUME NEW v \in Workers, NEW c \in Charges, Inserted(v, c)'
      PROVE  Inserted(v, c)
    BY <1>2, <1>3, <1>5, Zenon DEF Inserted, Open
<1>6. ASSUME NEW v \in Workers, NEW j \in Invited, Activates(v, j)'
      PROVE  (v = w /\ j = i) \/ (v # w /\ j # i /\ Activates(v, j))
    BY <1>2, <1>3, <1>4, <1>6, Zenon DEF Activates, Open
<1>7. ASSUME NEW v \in Workers, NEW j \in Invited, Activates(v, j)'
      PROVE  j \notin active' /\ \A x \in Workers \ {v} : ~Activates(x, j)'
    BY <1>1, <1>6, <1>7, Zenon DEF BookedOnce
<1> QED BY <1>1, <1>5, <1>7, Zenon DEF BookedOnce

\* The commit of a referral.
LEMMA BookedReferralCommit ==
    ASSUME TypeOK, BookedOnce, NEW w \in Workers, ReferralCommit(w)
    PROVE  BookedOnce'
<1>1. tx' = [tx EXCEPT ![w] = NoValue] /\ payments' = payments
      /\ active' = active \cup {tx[w].user} /\ Open(w, "referral")
    BY DEF ReferralCommit, Close
<1>2. tx'[w] = NoValue /\ \A v \in Workers \ {w} : tx'[v] = tx[v]
    BY <1>1, OneSession
<1>3. tx[w].user \in Invited
    BY ReferralFound
<1>4. \A v \in Workers \ {w} : ~Activates(v, tx[w].user)
    BY <1>1, <1>3 DEF BookedOnce, Activates
<1>5. ASSUME NEW v \in Workers, NEW c \in Charges, Inserted(v, c)'
      PROVE  Inserted(v, c)
    BY <1>2, <1>5, Zenon DEF Inserted, Open
<1>6. ASSUME NEW v \in Workers, NEW i \in Invited, Activates(v, i)'
      PROVE  v # w /\ Activates(v, i)
    BY <1>2, <1>6, Zenon DEF Activates, Open
<1>7. ASSUME NEW v \in Workers, NEW i \in Invited, Activates(v, i)'
      PROVE  i \notin active'
    BY <1>1, <1>4, <1>6, <1>7 DEF BookedOnce
<1> QED BY <1>1, <1>5, <1>6, <1>7, Zenon DEF BookedOnce

\* Every step keeps what is booked, or about to be, single.
LEMMA BookedNext == TypeOK /\ BookedOnce /\ [Next]_vars => BookedOnce'
<1> SUFFICES ASSUME TypeOK, BookedOnce, [Next]_vars PROVE BookedOnce'
    OBVIOUS
<1>1. ASSUME UNCHANGED <<payments, active, tx>> PROVE BookedOnce'
    BY <1>1, Zenon DEF BookedOnce, Inserted, Activates, Open
<1>2. CASE UNCHANGED vars \/ Tick \/ ExpireOpen \/ ExpireCommit \/ ExpireAbort
    BY <1>1, <1>2, Zenon DEF vars, books, Tick, ExpireOpen, ExpireCommit, ExpireAbort
<1>3. ASSUME NEW w \in Workers, Handler(w) PROVE BookedOnce'
    <2>1. ASSUME NEW s, tx' = [tx EXCEPT ![w] = s], UNCHANGED <<payments, active>>,
                 s = NoValue \/ s.kind = "admin"
          PROVE  BookedOnce'
        <3>1. tx'[w] = s /\ \A v \in Workers \ {w} : tx'[v] = tx[v]
            BY <2>1, OneSession
        <3> QED BY <2>1, <3>1, BookedQuietly, Zenon DEF Inserted, Activates, Open
    <2>2. CASE Abort(w) \/ AdminCommit(w)
        BY <2>1, <2>2, Zenon DEF Abort, AdminCommit, Close, books
    <2>3. CASE AdminGet(w)
        <3>1. AdminSession(tx[w].user, tx[w].until, row[tx[w].user]).kind = "admin"
            BY DEF AdminSession
        <3> QED BY <2>1, <2>3, <3>1, Zenon DEF AdminGet, books
    <2>4. ASSUME NEW u, NEW until, AdminOpen(w, u, until) PROVE BookedOnce'
        <3>1. AdminSession(u, until, NoValue).kind = "admin"
            BY DEF AdminSession
        <3> QED BY <2>1, <2>4, <3>1, Zenon DEF AdminOpen, books
    <2>5. CASE \E u \in Users : AdminExtend(w, u) \/ AdminRevoke(w, u) \/ AdminExact(w, u)
        BY <2>4, <2>5, Zenon DEF AdminExtend, AdminRevoke, AdminExact
    <2>6. ASSUME NEW c \in Charges, PayOpen(w, c) PROVE BookedOnce'
        <3> DEFINE s == PaySession(Payer[c], c, row[Payer[c]], FALSE)
        <3>1. tx' = [tx EXCEPT ![w] = s] /\ UNCHANGED <<payments, active>>
            BY <2>6, Zenon DEF PayOpen, books
        <3>2. tx'[w] = s /\ \A v \in Workers \ {w} : tx'[v] = tx[v]
            BY <3>1, OneSession
        <3>3. s.kind = "pay" /\ s.inserted = FALSE
            BY DEF PaySession
        <3> QED BY <3>1, <3>2, <3>3, BookedQuietly DEF Inserted, Activates, Open
    <2>7. CASE ReferralLock(w)
        <3> DEFINE s == Rewarded(tx[w])
        <3>1. /\ tx' = [tx EXCEPT ![w] = s] /\ UNCHANGED <<payments, active>>
              /\ Open(w, "referral")
            BY <2>7, Zenon DEF ReferralLock, books
        <3>2. tx'[w] = s /\ \A v \in Workers \ {w} : tx'[v] = tx[v]
            BY <3>1, OneSession
        <3>3. s.kind = "referral" /\ s.user = tx[w].user
            BY DEF ReferralSession, Rewarded
        <3> QED BY <3>1, <3>2, <3>3, BookedQuietly DEF Inserted, Activates, Open
    <2> QED
        BY <1>3, <2>2, <2>3, <2>5, <2>6, <2>7, BookedPayInsert, BookedPayCommit,
           BookedReferralOpen, BookedReferralCommit, Zenon DEF Handler
<1> QED BY <1>2, <1>3, Zenon DEF Next

-----------------------------------------------------------------------------
(* No free days.                                                           *)

\* Days pass and grants grow.
Later == now' >= now /\ \A u \in Users : granted'[u] >= granted[u]

\* Every step is Later.
LEMMA LaterNext ==
    ASSUME TypeOK, TypeOK', [Next]_vars
    PROVE  Later
<1>1. now \in Nat /\ now' \in Nat /\ granted \in [Users -> Nat] /\ granted' \in [Users -> Nat]
    BY BoundsAssumption, SMT DEF TypeOK
<1>2. ASSUME UNCHANGED <<now, granted>> PROVE Later
    BY <1>1, <1>2, SMT DEF Later
<1>3. CASE UNCHANGED vars \/ ExpireOpen \/ ExpireCommit \/ ExpireAbort
    BY <1>2, <1>3, Zenon DEF vars, history, ExpireOpen, ExpireCommit, ExpireAbort
<1>4. CASE Tick
    <2>1. granted' = granted /\ now' = now + 1
        BY <1>4 DEF Tick, history
    <2> QED BY <1>1, <2>1, SMT DEF Later
<1>5. ASSUME NEW w \in Workers, Handler(w) PROVE Later
    <2>1. CASE PayCommit(w)
        <3>1. tx[w].user \in Users /\ tx[w].charge \in Charges
            BY <2>1, SessionTypes, SMT DEF PayCommit, PayTx
        <3>2. PaidDays[tx[w].charge] \in Nat /\ now' = now
            BY <2>1, <3>1, PaymentAssumption DEF PayCommit
        <3>3. \/ granted' = granted
              \/ granted' = [granted EXCEPT ![tx[w].user] = @ + PaidDays[tx[w].charge]]
            BY <2>1, Zenon DEF PayCommit
        <3> QED BY <1>1, <3>1, <3>2, <3>3, SMT DEF Later
    <2>2. CASE AdminCommit(w)
        <3>1. tx[w].user \in Users
            BY <2>2, SessionTypes, SMT DEF AdminCommit, AdminTx
        <3>2. now' = now
              /\ (\/ granted' = granted
                  \/ granted' = [granted EXCEPT ![tx[w].user] = @ + AdminDays])
            BY <2>2, Zenon DEF AdminCommit
        <3> QED BY <1>1, <3>1, <3>2, BoundsAssumption, SMT DEF Later
    <2>3. CASE ReferralCommit(w)
        <3> DEFINE i == tx[w].user
                   inv == Inviter[i]
                   days == InviterDays + LevelDays[tx[w].levels]
        <3>1. i \in Users /\ inv \in Users /\ i # inv /\ days \in Nat
            BY <2>3, ReferralFound
        <3>2. now' = now
              /\ (\/ granted' = granted
                  \/ granted' = [granted EXCEPT ![i] = @ + InviteeDays, ![inv] = @ + days])
            BY <2>3, Zenon DEF ReferralCommit
        <3> HIDE DEF i, inv, days
        <3> QED BY <1>1, <3>1, <3>2, ReferralAssumption, SMT DEF Later
    <2>4. CASE Abort(w) \/ PayInsert(w) \/ AdminGet(w) \/ ReferralLock(w)
        BY <1>2, <2>4, Zenon DEF Abort, PayInsert, AdminGet, ReferralLock, history
    <2>5. CASE \/ \E c \in Charges : PayOpen(w, c)
               \/ \E i \in Invited : ReferralOpen(w, i)
        BY <1>2, <2>5, Zenon DEF PayOpen, ReferralOpen, history
    <2>6. CASE \E u \in Users : AdminExtend(w, u) \/ AdminRevoke(w, u) \/ AdminExact(w, u)
        BY <1>2, <2>6, Zenon DEF AdminExtend, AdminRevoke, AdminExact, AdminOpen
    <2> QED BY <1>5, <2>1, <2>2, <2>3, <2>4, <2>5, <2>6, Zenon DEF Handler
<1> QED BY <1>3, <1>4, <1>5, Zenon DEF Next

\* A session left alone stays covered.
LEMMA SessionKept ==
    ASSUME TypeOK, TypeOK', Later, NEW w \in Workers, SessionCovered(w), tx'[w] = tx[w]
    PROVE  SessionCovered(w)'
<1>1. now \in Nat /\ now' \in Nat /\ granted \in [Users -> Nat] /\ granted' \in [Users -> Nat]
    BY BoundsAssumption, SMT DEF TypeOK
<1>2. ASSUME NEW until \in Int \cup {NoValue}, NEW u \in Users, Ahead(until, now, granted[u])
      PROVE  Ahead(until, now', granted'[u])
    BY <1>1, <1>2, NoValueAssumption, SMT DEF Ahead, Later
<1>3. ASSUME Open(w, "pay") PROVE Ahead(tx[w].read.until, now', granted'[tx[w].user])
    <2>1. tx[w].user \in Users /\ tx[w].read.until \in Int \cup {NoValue}
        BY <1>3, SessionTypes, SMT DEF PayTx, Row
    <2> QED BY <1>2, <1>3, <2>1 DEF SessionCovered
<1>4. ASSUME Open(w, "admin")
      PROVE  Ahead(tx[w].until, now', granted'[tx[w].user] + AdminDays)
    <2>1. tx[w].user \in Users /\ tx[w].until \in Int \cup {NoValue}
        BY <1>4, SessionTypes, SMT DEF AdminTx
    <2>2. Ahead(tx[w].until, now, granted[tx[w].user] + AdminDays)
        BY <1>4 DEF SessionCovered
    <2>3. granted'[tx[w].user] + AdminDays >= granted[tx[w].user] + AdminDays
        BY <1>1, <2>1, BoundsAssumption, SMT DEF Later
    <2>4. granted'[tx[w].user] + AdminDays \in Int /\ granted[tx[w].user] + AdminDays \in Int
        BY <1>1, <2>1, BoundsAssumption, SMT
    <2>5. now' >= now
        BY DEF Later
    <2> QED BY <1>1, <2>1, <2>2, <2>3, <2>4, <2>5, NoValueAssumption, SMT DEF Ahead
<1>5. ASSUME Open(w, "referral")
      PROVE  /\ Ahead(tx[w].read.until, now', granted'[tx[w].user])
             /\ tx[w].inviter # NoValue =>
                   Ahead(tx[w].inviter.until, now', granted'[Inviter[tx[w].user]])
    <2>1. tx[w] \in ReferralTx
        BY <1>5, SessionTypes
    <2>2. /\ tx[w].user \in Invited /\ tx[w].read.until \in Int \cup {NoValue}
          /\ tx[w].inviter # NoValue => tx[w].inviter.until \in Int \cup {NoValue}
        BY <2>1, SMT DEF ReferralTx, Row
    <2>3. tx[w].user \in Users /\ Inviter[tx[w].user] \in Users
        BY <2>2, ReferralAssumption
    <2> QED BY <1>2, <1>5, <2>2, <2>3 DEF SessionCovered
<1> QED BY <1>3, <1>4, <1>5, Zenon DEF SessionCovered, Open

\* A step of one handler keeps sessions covered if its own session is.
LEMMA OthersKept ==
    ASSUME TypeOK, TypeOK', Later, SessionsCovered, NEW w \in Workers, NEW s,
           tx' = [tx EXCEPT ![w] = s], SessionCovered(w)'
    PROVE  SessionsCovered'
<1>1. \A v \in Workers \ {w} : tx'[v] = tx[v]
    BY OneSession
<1>2. \A v \in Workers \ {w} : SessionCovered(v)'
    BY <1>1, SessionKept DEF SessionsCovered
<1> QED BY <1>2 DEF SessionsCovered

\* Rows whose ends stay are covered.
LEMMA RowKept ==
    ASSUME TypeOK, TypeOK', Later, RowsCovered, NEW u \in Users,
           row'[u].until = row[u].until
    PROVE  Ahead(row'[u].until, now', granted'[u])
<1>1. /\ now \in Nat /\ now' \in Nat /\ granted[u] \in Nat /\ granted'[u] \in Nat
      /\ row[u] \in Row
    BY BoundsAssumption, SMT DEF TypeOK
<1>2. row[u].until \in Int \cup {NoValue}
    BY <1>1, SMT DEF Row
<1>3. Ahead(row[u].until, now, granted[u])
    BY DEF RowsCovered
<1>4. now' >= now /\ granted'[u] >= granted[u]
    BY DEF Later
<1> QED BY <1>1, <1>2, <1>3, <1>4, NoValueAssumption, SMT DEF Ahead

\* The commits of handlers keep all rows covered.
LEMMA RowsPayCommit ==
    ASSUME TypeOK, TypeOK', BookedOnce, RowsCovered, SessionsCovered, Later,
           NEW w \in Workers, PayCommit(w)
    PROVE  RowsCovered'
<1> DEFINE u == tx[w].user
           c == tx[w].charge
           new == Extended(tx[w].read, PaidDays[c])
<1>1. tx[w] \in PayTx /\ Open(w, "pay") /\ tx[w].inserted
    BY SessionTypes DEF PayCommit
<1>2. u \in Users /\ c \in Charges /\ tx[w].read \in Row
    BY <1>1, SMT DEF PayTx
<1>3. /\ row \in [Users -> Row] /\ now \in Nat /\ granted \in [Users -> Nat]
      /\ PaidDays[c] \in Nat /\ now' = now
    BY <1>2, PaymentAssumption, BoundsAssumption, SMT DEF TypeOK, PayCommit
<1>4. c \notin payments
    BY <1>1, <1>2 DEF BookedOnce, Inserted
<1>5. granted' = [granted EXCEPT ![u] = @ + PaidDays[c]]
    BY <1>4, Zenon DEF PayCommit
<1>6. row' = [row EXCEPT ![u] = Flushed(row[u], tx[w].read, new)]
    BY DEF PayCommit
<1>7. Ahead(tx[w].read.until, now, granted[u])
    BY <1>1 DEF SessionsCovered, SessionCovered
<1>8. Base(tx[w].read) \in Int /\ Base(tx[w].read) - now <= granted[u]
    BY <1>2, <1>3, <1>7, BaseDay, BaseCovered
<1>9. new \in Row /\ new.until = Base(tx[w].read) + PaidDays[c]
    BY <1>2, <1>3, NewRows, Zenon DEF Extended
<1>10. Ahead(new.until, now', granted'[u])
    <2> HIDE DEF new, c, u
    <2> QED BY <1>2, <1>3, <1>5, <1>8, <1>9, SMT DEF Ahead
<1>11. row'[u].until \in {row[u].until, new.until}
    BY <1>2, <1>3, <1>6, <1>9, FlushedRow
<1>12. ASSUME NEW x \in Users \ {u} PROVE row'[x].until = row[x].until
    BY <1>2, <1>3, <1>6
<1> QED BY <1>2, <1>10, <1>11, <1>12, RowKept DEF RowsCovered

LEMMA RowsAdminCommit ==
    ASSUME TypeOK, TypeOK', RowsCovered, SessionsCovered, Later,
           NEW w \in Workers, AdminCommit(w)
    PROVE  RowsCovered'
<1> DEFINE u == tx[w].user
           until == tx[w].until
           new == EndSet(tx[w].read, until)
<1>1. tx[w] \in AdminTx /\ Open(w, "admin") /\ tx[w].read # NoValue
    BY SessionTypes DEF AdminCommit
<1>2. u \in Users /\ until \in Int \cup {NoValue} /\ tx[w].read \in Row
    BY <1>1, SMT DEF AdminTx
<1>3. /\ row \in [Users -> Row] /\ now \in Nat /\ granted \in [Users -> Nat] /\ now' = now
    BY BoundsAssumption, SMT DEF TypeOK, AdminCommit
<1>4. until # NoValue => granted' = [granted EXCEPT ![u] = @ + AdminDays]
    BY Zenon DEF AdminCommit
<1>5. row' = [row EXCEPT ![u] = Flushed(row[u], tx[w].read, new)]
    BY DEF AdminCommit
<1>6. Ahead(until, now, granted[u] + AdminDays)
    BY <1>1 DEF SessionsCovered, SessionCovered
<1>7. new \in Row /\ new.until = until
    BY <1>2, <1>3, NewRows, Zenon DEF EndSet
<1>8. Ahead(new.until, now', granted'[u])
    <2> HIDE DEF new, until, u
    <2> QED BY <1>2, <1>3, <1>4, <1>6, <1>7, SMT DEF Ahead
<1>9. row'[u].until \in {row[u].until, new.until}
    BY <1>2, <1>3, <1>5, <1>7, FlushedRow
<1>10. ASSUME NEW x \in Users \ {u} PROVE row'[x].until = row[x].until
    BY <1>2, <1>3, <1>5
<1> QED BY <1>2, <1>8, <1>9, <1>10, RowKept DEF RowsCovered

LEMMA RowsReferralCommit ==
    ASSUME TypeOK, TypeOK', BookedOnce, RowsCovered, SessionsCovered, Later,
           NEW w \in Workers, ReferralCommit(w)
    PROVE  RowsCovered'
<1> DEFINE i == tx[w].user
           inv == Inviter[i]
           days == InviterDays + LevelDays[tx[w].levels]
           mine == Granted(tx[w].read, InviteeDays)
           his == Granted(tx[w].inviter, days)
<1>1. /\ i \in Invited /\ inv \in Users /\ i \in Users /\ i # inv
      /\ tx[w].read \in Row /\ tx[w].inviter \in Row /\ days \in Nat
    BY ReferralFound
<1>2. Open(w, "referral") /\ tx[w].inviter # NoValue
    BY DEF ReferralCommit
<1>3. /\ row \in [Users -> Row] /\ now \in Nat /\ granted \in [Users -> Nat]
      /\ InviteeDays \in Nat /\ now' = now
    BY ReferralAssumption, BoundsAssumption, SMT DEF TypeOK, ReferralCommit
<1>4. i \notin active
    BY <1>1, <1>2 DEF BookedOnce, Activates
<1>5. granted' = [granted EXCEPT ![i] = @ + InviteeDays, ![inv] = @ + days]
    BY <1>4, Zenon DEF ReferralCommit
<1>6. row' = [row EXCEPT ![i] = Flushed(row[i], tx[w].read, mine),
                         ![inv] = Flushed(row[inv], tx[w].inviter, his)]
    BY <1>1 DEF ReferralCommit
<1>7. /\ Ahead(tx[w].read.until, now, granted[i])
      /\ Ahead(tx[w].inviter.until, now, granted[inv])
    BY <1>2 DEF SessionsCovered, SessionCovered
<1>8. /\ Base(tx[w].read) \in Int /\ Base(tx[w].read) - now <= granted[i]
      /\ Base(tx[w].inviter) \in Int /\ Base(tx[w].inviter) - now <= granted[inv]
    BY <1>1, <1>3, <1>7, BaseDay, BaseCovered
<1>9. /\ mine \in Row /\ mine.until = Base(tx[w].read) + InviteeDays
      /\ his \in Row /\ his.until = Base(tx[w].inviter) + days
    BY <1>1, <1>3, NewRows, Zenon DEF Granted
<1>10. granted'[i] = granted[i] + InviteeDays /\ granted'[inv] = granted[inv] + days
    <2> HIDE DEF i, inv, days
    <2> QED BY <1>1, <1>3, <1>5, SMT
<1>11. Ahead(mine.until, now', granted'[i]) /\ Ahead(his.until, now', granted'[inv])
    <2> HIDE DEF i, inv, days, mine, his
    <2> QED BY <1>1, <1>3, <1>8, <1>9, <1>10, SMT DEF Ahead
<1>12. /\ row'[i] = Flushed(row[i], tx[w].read, mine)
       /\ row'[inv] = Flushed(row[inv], tx[w].inviter, his)
       /\ \A x \in Users \ {i, inv} : row'[x].until = row[x].until
    <2> HIDE DEF i, inv, mine, his
    <2> QED BY <1>1, <1>3, <1>6
<1>13. /\ row'[i].until \in {row[i].until, mine.until}
       /\ row'[inv].until \in {row[inv].until, his.until}
    BY <1>1, <1>3, <1>9, <1>12, FlushedRow
<1> QED BY <1>1, <1>11, <1>12, <1>13, RowKept DEF RowsCovered

\* The expiry job moves no end.
LEMMA RowsExpire ==
    ASSUME TypeOK, TypeOK', RowsCovered, Later, ExpireCommit
    PROVE  RowsCovered'
<1>1. PICK due \in SUBSET Users : job \in [due -> Row]
    BY DEF ExpireCommit, TypeOK
<1>2. row \in [Users -> Row] /\ now \in Nat
    BY BoundsAssumption, SMT DEF TypeOK
<1>3. ASSUME NEW u \in Users PROVE row'[u].until = row[u].until
    <2>1. CASE u \notin due
        BY <1>1, <2>1 DEF ExpireCommit
    <2>2. CASE u \in due
        <3>1. row'[u] = Flushed(row[u], job[u], Expired(job[u]))
            BY <1>1, <2>2 DEF ExpireCommit
        <3>2. job[u] \in Row /\ Expired(job[u]).until = job[u].until
            BY <1>1, <2>2 DEF Expired
        <3> QED BY <1>2, <3>1, <3>2, SMT DEF Flushed, Row
    <2> QED BY <2>1, <2>2
<1> QED BY <1>3, RowKept DEF RowsCovered

-----------------------------------------------------------------------------
(* The invariant.                                                          *)

LEMMA Initially == Init => IInv
<1> SUFFICES ASSUME Init PROVE IInv
    OBVIOUS
<1>1. TypeOK
    BY TypeInit
<1>2. BookedOnce /\ SessionsCovered
    BY Zenon DEF Init, BookedOnce, SessionsCovered, SessionCovered, Inserted, Activates, Open
<1>3. RowsCovered
    BY DEF Init, RowsCovered, NewUser, Ahead
<1> QED BY <1>1, <1>2, <1>3 DEF IInv

\* The steps of handlers that open or advance a session.
LEMMA SessionsNext ==
    ASSUME TypeOK, TypeOK', Later, RowsCovered, SessionsCovered, NEW w \in Workers,
           Handler(w)
    PROVE  SessionsCovered'
<1>1. /\ row \in [Users -> Row] /\ now \in Nat /\ granted \in [Users -> Nat]
      /\ \A u \in Users : Ahead(row[u].until, now, granted[u])
      /\ SessionCovered(w)
    BY BoundsAssumption, SMT DEF TypeOK, RowsCovered, SessionsCovered
<1>2. CASE Abort(w) \/ PayCommit(w) \/ AdminCommit(w) \/ ReferralCommit(w)
    <2>1. tx' = [tx EXCEPT ![w] = NoValue]
        BY <1>2, Zenon DEF Abort, PayCommit, AdminCommit, ReferralCommit, Close
    <2>2. tx'[w] = NoValue
        BY <2>1, OneSession
    <2>3. SessionCovered(w)'
        BY <2>2 DEF SessionCovered, Open
    <2> QED BY <2>1, <2>3, OthersKept
<1>3. ASSUME NEW s, tx' = [tx EXCEPT ![w] = s], s.kind = "pay",
             Ahead(s.read.until, now, granted[s.user]), UNCHANGED <<now, granted>>
      PROVE  SessionsCovered'
    <2>1. tx'[w] = s
        BY <1>3, OneSession
    <2>2. SessionCovered(w)'
        BY <1>3, <2>1 DEF SessionCovered, Open
    <2> QED BY <1>3, <2>2, OthersKept
<1>4. ASSUME NEW s, tx' = [tx EXCEPT ![w] = s], s.kind = "admin",
             Ahead(s.until, now, granted[s.user] + AdminDays), UNCHANGED <<now, granted>>
      PROVE  SessionsCovered'
    <2>1. tx'[w] = s
        BY <1>4, OneSession
    <2>2. SessionCovered(w)'
        BY <1>4, <2>1 DEF SessionCovered, Open
    <2> QED BY <1>4, <2>2, OthersKept
<1>5. ASSUME NEW s, tx' = [tx EXCEPT ![w] = s], s.kind = "referral",
             Ahead(s.read.until, now, granted[s.user]), UNCHANGED <<now, granted>>,
             s.inviter # NoValue => Ahead(s.inviter.until, now, granted[Inviter[s.user]])
      PROVE  SessionsCovered'
    <2>1. tx'[w] = s
        BY <1>5, OneSession
    <2>2. SessionCovered(w)'
        BY <1>5, <2>1 DEF SessionCovered, Open
    <2> QED BY <1>5, <2>2, OthersKept
<1>6. ASSUME NEW c \in Charges, PayOpen(w, c) PROVE SessionsCovered'
    <2> DEFINE s == PaySession(Payer[c], c, row[Payer[c]], FALSE)
    <2>1. s.kind = "pay" /\ s.user = Payer[c] /\ s.read = row[Payer[c]]
        BY DEF PaySession
    <2>2. tx' = [tx EXCEPT ![w] = s] /\ UNCHANGED <<now, granted>>
        BY <1>6, Zenon DEF PayOpen
    <2>3. Payer[c] \in Users
        BY PaymentAssumption
    <2> QED BY <1>1, <1>3, <2>1, <2>2, <2>3, Zenon
<1>7. CASE PayInsert(w)
    <2> DEFINE s == PaySession(tx[w].user, tx[w].charge, tx[w].read, TRUE)
    <2>1. Open(w, "pay") /\ UNCHANGED <<now, granted>>
        BY <1>7, Zenon DEF PayInsert, history
    <2>2. CASE tx' = [tx EXCEPT ![w] = NoValue]
        <3>1. tx'[w] = NoValue
            BY <2>2, OneSession
        <3>2. SessionCovered(w)'
            BY <3>1 DEF SessionCovered, Open
        <3> QED BY <2>2, <3>2, OthersKept
    <2>3. CASE tx' = [tx EXCEPT ![w] = s]
        <3>1. s.kind = "pay" /\ s.user = tx[w].user /\ s.read = tx[w].read
            BY DEF PaySession
        <3>2. Ahead(tx[w].read.until, now, granted[tx[w].user])
            BY <1>1, <2>1 DEF SessionCovered
        <3> QED BY <1>3, <2>1, <2>3, <3>1, <3>2, Zenon
    <2> QED BY <1>7, <2>2, <2>3, Zenon DEF PayInsert, Close
<1>8. ASSUME NEW u \in Users, NEW until, AdminOpen(w, u, until),
             Ahead(until, now, granted[u] + AdminDays)
      PROVE  SessionsCovered'
    <2> DEFINE s == AdminSession(u, until, NoValue)
    <2>1. s.kind = "admin" /\ s.user = u /\ s.until = until
        BY DEF AdminSession
    <2>2. tx' = [tx EXCEPT ![w] = s] /\ UNCHANGED <<now, granted>>
        BY <1>8, Zenon DEF AdminOpen
    <2> QED BY <1>4, <1>8, <2>1, <2>2, Zenon
<1>9. ASSUME NEW u \in Users, AdminExtend(w, u) \/ AdminRevoke(w, u) \/ AdminExact(w, u)
      PROVE  SessionsCovered'
    <2>1. Base(row[u]) \in Int /\ Base(row[u]) - now <= granted[u] /\ granted[u] \in Nat
        BY <1>1, BaseDay, BaseCovered
    <2>2. Ahead(Base(row[u]) + AdminDays, now, granted[u] + AdminDays)
        BY <1>1, <2>1, BoundsAssumption, SMT DEF Ahead
    <2>3. Ahead(NoValue, now, granted[u] + AdminDays)
        BY DEF Ahead
    <2>4. \A d \in {0, AdminDays} : Ahead(now + d, now, granted[u] + AdminDays)
        BY <1>1, <2>1, BoundsAssumption, SMT DEF Ahead
    <2> QED BY <1>8, <1>9, <2>2, <2>3, <2>4, Zenon DEF AdminExtend, AdminRevoke, AdminExact
<1>10. CASE AdminGet(w)
    <2> DEFINE s == AdminSession(tx[w].user, tx[w].until, row[tx[w].user])
    <2>1. s.kind = "admin" /\ s.user = tx[w].user /\ s.until = tx[w].until
        BY DEF AdminSession
    <2>2. /\ tx' = [tx EXCEPT ![w] = s] /\ UNCHANGED <<now, granted>>
          /\ Open(w, "admin")
        BY <1>10, Zenon DEF AdminGet, history
    <2>3. Ahead(tx[w].until, now, granted[tx[w].user] + AdminDays)
        BY <1>1, <2>2 DEF SessionCovered
    <2> QED BY <1>4, <2>1, <2>2, <2>3, Zenon
<1>11. ASSUME NEW i \in Invited, ReferralOpen(w, i) PROVE SessionsCovered'
    <2> DEFINE s == ReferralSession(i, row[i], NoValue, {})
    <2>1. s.kind = "referral" /\ s.user = i /\ s.read = row[i] /\ s.inviter = NoValue
        BY DEF ReferralSession, Rewarded
    <2>2. tx' = [tx EXCEPT ![w] = s] /\ UNCHANGED <<now, granted>>
        BY <1>11, Zenon DEF ReferralOpen, history
    <2>3. i \in Users
        BY ReferralAssumption
    <2> QED BY <1>1, <1>5, <2>1, <2>2, <2>3, Zenon
<1>12. CASE ReferralLock(w)
    <2> DEFINE s == Rewarded(tx[w])
    <2>1. /\ s.kind = "referral" /\ s.user = tx[w].user /\ s.read = tx[w].read
          /\ s.inviter = row[Inviter[tx[w].user]]
        BY DEF ReferralSession, Rewarded
    <2>2. /\ tx' = [tx EXCEPT ![w] = s] /\ UNCHANGED <<now, granted>>
          /\ Open(w, "referral")
        BY <1>12, Zenon DEF ReferralLock, history
    <2>3. Ahead(tx[w].read.until, now, granted[tx[w].user])
        BY <1>1, <2>2 DEF SessionCovered
    <2>4. tx[w].user \in Invited
        BY <2>2, SessionTypes, SMT DEF ReferralTx
    <2>5. Inviter[tx[w].user] \in Users
        BY <2>4, ReferralAssumption
    <2> QED BY <1>1, <1>5, <2>1, <2>2, <2>3, <2>5, Zenon
<1> QED BY <1>2, <1>6, <1>7, <1>9, <1>10, <1>11, <1>12, Zenon DEF Handler

\* Every step of every session keeps what is stored and what is held covered.
LEMMA Inductive == IInv /\ [Next]_vars => IInv'
<1> SUFFICES ASSUME IInv, [Next]_vars PROVE IInv'
    OBVIOUS
<1>1. TypeOK /\ BookedOnce /\ RowsCovered /\ SessionsCovered
    BY DEF IInv
<1>2. TypeOK' /\ BookedOnce'
    BY <1>1, TypeNext, BookedNext
<1>3. Later
    BY <1>1, <1>2, LaterNext
<1>4. ASSUME row' = row PROVE RowsCovered'
    BY <1>1, <1>2, <1>3, <1>4, RowKept DEF RowsCovered
<1>5. ASSUME tx' = tx PROVE SessionsCovered'
    BY <1>1, <1>2, <1>3, <1>5, SessionKept DEF SessionsCovered
<1>6. CASE UNCHANGED vars \/ Tick \/ ExpireOpen \/ ExpireAbort
    <2>1. tx' = tx /\ row' = row
        BY <1>6, Zenon DEF vars, Tick, ExpireOpen, ExpireAbort
    <2> QED BY <1>2, <1>4, <1>5, <2>1 DEF IInv
<1>7. CASE ExpireCommit
    <2>1. tx' = tx
        BY <1>7 DEF ExpireCommit
    <2> QED BY <1>1, <1>2, <1>3, <1>5, <1>7, <2>1, RowsExpire DEF IInv
<1>8. ASSUME NEW w \in Workers, Handler(w) PROVE IInv'
    <2>1. SessionsCovered'
        BY <1>1, <1>2, <1>3, <1>8, SessionsNext
    <2>2. CASE PayCommit(w) \/ AdminCommit(w) \/ ReferralCommit(w)
        BY <1>1, <1>2, <1>3, <2>1, <2>2, RowsPayCommit, RowsAdminCommit,
           RowsReferralCommit, Zenon DEF IInv
    <2>3. CASE \/ Abort(w) \/ PayInsert(w) \/ AdminGet(w) \/ ReferralLock(w)
               \/ \E c \in Charges : PayOpen(w, c)
               \/ \E u \in Users : AdminExtend(w, u) \/ AdminRevoke(w, u) \/ AdminExact(w, u)
               \/ \E i \in Invited : ReferralOpen(w, i)
        <3>1. row' = row
            BY <2>3, Zenon DEF Abort, PayInsert, AdminGet, ReferralLock, PayOpen,
               AdminExtend, AdminRevoke, AdminExact, AdminOpen, ReferralOpen
        <3> QED BY <1>2, <1>4, <2>1, <3>1 DEF IInv
    <2> QED BY <1>8, <2>2, <2>3, Zenon DEF Handler
<1> QED BY <1>6, <1>7, <1>8, Zenon DEF Next

\* Premium is never given away: for any number of users, charges, referrals and
\* handlers, and any interleaving of their sessions, with updates delivered
\* again, nobody has more days ahead than were granted, each charge and each
\* referral counted once.
THEOREM NoFreeDaysHolds == Spec => []NoFreeDays
<1>1. IInv => NoFreeDays
    BY DEF IInv, RowsCovered, Ahead, NoFreeDays
<1> QED BY Initially, Inductive, <1>1, PTL DEF Spec

-----------------------------------------------------------------------------
(* Inviters: levels and days earned.                                       *)

\* w is between the lock of the inviter's row and its commit.
Holds(w) == Open(w, "referral") /\ tx[w].inviter # NoValue

LocksExclusive ==
    \A v, w \in Workers :
        Holds(v) /\ Holds(w) /\ Inviter[tx[v].user] = Inviter[tx[w].user] => v = w

\* What a session has read of the inviter it holds is what is stored still.
Current(w) ==
    /\ Inviter[tx[w].user] \notin Invited =>
          tx[w].inviter.earned = row[Inviter[tx[w].user]].earned
    /\ tx[w].levels = EligibleLevels(Inviter[tx[w].user], tx[w].user)

HeldIsCurrent == \A w \in Workers : Holds(w) => Current(w)

RInv ==
    /\ TypeOK /\ IsFiniteSet(active)
    /\ LocksExclusive /\ HeldIsCurrent
    /\ LevelsAwardedWhenReached /\ InviterEarnedAddsUp

-----------------------------------------------------------------------------
(* Lemmas about the operators.                                             *)

\* A flush of a row whose days earned did not change leaves them as stored.
LEMMA FlushedEarned ==
    ASSUME NEW stored \in Row, NEW read \in Row, NEW new \in Row
    PROVE  /\ new.earned = read.earned => Flushed(stored, read, new).earned = stored.earned
           /\ stored.earned = read.earned => Flushed(stored, read, new).earned = new.earned
BY SMT DEF Flushed, Row

\* Only grants change the days earned.
LEMMA EarnedKept ==
    ASSUME NEW r \in Row
    PROVE  /\ \A days \in Nat : Extended(r, days).earned = r.earned
           /\ \A until \in Int \cup {NoValue} : EndSet(r, until).earned = r.earned
           /\ Expired(r).earned = r.earned
           /\ \A days \in Nat : Granted(r, days).earned = r.earned + days
BY SMT DEF Extended, EndSet, Expired, Granted, Row

\* One more referral: who invited somebody else keeps his, the inviter loses none.
LEMMA OneMore ==
    ASSUME IsFiniteSet(active), NEW i \in Invited
    PROVE  /\ IsFiniteSet(active \cup {i})
           /\ \A u : u # Inviter[i] =>
                 ActiveReferrals(u, active \cup {i}) = ActiveReferrals(u, active)
           /\ Cardinality(ActiveReferrals(Inviter[i], active))
                <= Cardinality(ActiveReferrals(Inviter[i], active \cup {i}))
           /\ \A u : Cardinality(ActiveReferrals(u, active)) \in Nat
           /\ \A u : Cardinality(ActiveReferrals(u, active \cup {i})) \in Nat
<1>1. IsFiniteSet(active \cup {i})
    BY FS_AddElement
<1>2. ASSUME NEW u
      PROVE  /\ IsFiniteSet(ActiveReferrals(u, active))
             /\ IsFiniteSet(ActiveReferrals(u, active \cup {i}))
    <2>1. /\ ActiveReferrals(u, active) \in SUBSET active
          /\ ActiveReferrals(u, active \cup {i}) \in SUBSET (active \cup {i})
        BY DEF ActiveReferrals
    <2> QED BY <1>1, <2>1, FS_Subset
<1>3. \A u : u # Inviter[i] => ActiveReferrals(u, active \cup {i}) = ActiveReferrals(u, active)
    BY DEF ActiveReferrals
<1>4. ActiveReferrals(Inviter[i], active) \in SUBSET ActiveReferrals(Inviter[i], active \cup {i})
    BY DEF ActiveReferrals
<1>5. Cardinality(ActiveReferrals(Inviter[i], active))
        <= Cardinality(ActiveReferrals(Inviter[i], active \cup {i}))
    BY <1>2, <1>4, FS_Subset
<1> QED BY <1>1, <1>2, <1>3, <1>5, FS_CardinalityType

-----------------------------------------------------------------------------
(* The invariant.                                                          *)

LEMMA RInvInit == Init => RInv
<1> SUFFICES ASSUME Init PROVE RInv
    OBVIOUS
<1>1. TypeOK
    BY TypeInit
<1>2. IsFiniteSet(active) /\ Cardinality({}) = 0
    BY FS_EmptySet DEF Init
<1>3. LocksExclusive /\ HeldIsCurrent
    BY Zenon DEF Init, LocksExclusive, HeldIsCurrent, Holds, Open
<1>4. InviterEarnedAddsUp
    BY DEF Init, InviterEarnedAddsUp, NewUser
<1>5. ASSUME NEW u \in Users
      PROVE  awarded[u] =
                {l \in Levels : Cardinality(ActiveReferrals(u, active)) >= LevelCount[l]}
    <2>1. ActiveReferrals(u, active) = {} /\ awarded[u] = {}
        BY <1>5 DEF Init, ActiveReferrals
    <2>2. \A l \in Levels : ~(0 >= LevelCount[l])
        BY LevelAssumption, SMT
    <2> QED BY <1>2, <2>1, <2>2
<1> QED BY <1>1, <1>2, <1>3, <1>4, <1>5 DEF RInv, LevelsAwardedWhenReached

\* A step that books no referral and locks no inviter.
LEMMA Quietly ==
    ASSUME RInv, TypeOK', UNCHANGED <<active, awarded, rewards>>,
           \A u \in Users : row'[u].earned = row[u].earned,
           \A w \in Workers : tx'[w] = tx[w] \/ ~Holds(w)'
    PROVE  RInv'
<1>1. ASSUME NEW w \in Workers, Holds(w)'
      PROVE  Holds(w) /\ tx'[w] = tx[w] /\ tx[w].user \in Invited
    <2>1. tx'[w] = tx[w]
        BY <1>1
    <2>2. Holds(w)
        BY <1>1, <2>1 DEF Holds, Open
    <2>3. tx[w] \in ReferralTx
        BY <2>2, SessionTypes DEF RInv, Holds
    <2> QED BY <2>1, <2>2, <2>3, SMT DEF ReferralTx
<1>2. LocksExclusive'
    BY <1>1, Zenon DEF RInv, LocksExclusive
<1>3. ASSUME NEW w \in Workers, Holds(w)'
      PROVE  Current(w)'
    <2>1. Inviter[tx[w].user] \in Users
        BY <1>1, <1>3, ReferralAssumption
    <2>2. row'[Inviter[tx[w].user]].earned = row[Inviter[tx[w].user]].earned
        BY <2>1
    <2>3. EligibleLevels(Inviter[tx[w].user], tx[w].user)'
            = EligibleLevels(Inviter[tx[w].user], tx[w].user)
        BY <1>1, <1>3 DEF EligibleLevels
    <2> QED BY <1>1, <1>3, <2>2, <2>3 DEF RInv, HeldIsCurrent, Current
<1>4. HeldIsCurrent'
    BY <1>3 DEF HeldIsCurrent
<1>5. LevelsAwardedWhenReached' /\ InviterEarnedAddsUp' /\ IsFiniteSet(active)'
    BY DEF RInv, LevelsAwardedWhenReached, InviterEarnedAddsUp
<1> QED BY <1>2, <1>4, <1>5 DEF RInv

\* Every session opens and advances quietly, but for the lock of an inviter.
LEMMA SessionsQuietly ==
    ASSUME RInv, TypeOK', NEW w \in Workers,
           \/ Abort(w) \/ PayInsert(w) \/ AdminGet(w)
           \/ \E c \in Charges : PayOpen(w, c)
           \/ \E u \in Users : AdminExtend(w, u) \/ AdminRevoke(w, u) \/ AdminExact(w, u)
           \/ \E i \in Invited : ReferralOpen(w, i)
    PROVE  RInv'
<1>1. TypeOK /\ UNCHANGED <<active, awarded, rewards, row>>
    BY Zenon DEF RInv, Abort, PayInsert, AdminGet, PayOpen, AdminExtend, AdminRevoke,
       AdminExact, AdminOpen, ReferralOpen, books
<1>2. ASSUME NEW s, tx' = [tx EXCEPT ![w] = s],
             s = NoValue \/ s.kind # "referral" \/ s.inviter = NoValue
      PROVE  RInv'
    <2>1. tx'[w] = s /\ \A v \in Workers \ {w} : tx'[v] = tx[v]
        BY <1>1, <1>2, OneSession
    <2>2. ~Holds(w)'
        BY <1>2, <2>1 DEF Holds, Open
    <2> QED BY <1>1, <2>1, <2>2, Quietly
<1>3. CASE Abort(w)
    BY <1>2, <1>3 DEF Abort, Close
<1>4. CASE PayInsert(w)
    <2>1. PaySession(tx[w].user, tx[w].charge, tx[w].read, TRUE).kind = "pay"
        BY DEF PaySession
    <2> QED BY <1>2, <1>4, <2>1, Zenon DEF PayInsert, Close
<1>5. CASE AdminGet(w)
    <2>1. AdminSession(tx[w].user, tx[w].until, row[tx[w].user]).kind = "admin"
        BY DEF AdminSession
    <2> QED BY <1>2, <1>5, <2>1, Zenon DEF AdminGet
<1>6. ASSUME NEW c \in Charges, PayOpen(w, c) PROVE RInv'
    <2>1. PaySession(Payer[c], c, row[Payer[c]], FALSE).kind = "pay"
        BY DEF PaySession
    <2> QED BY <1>2, <1>6, <2>1, Zenon DEF PayOpen
<1>7. ASSUME NEW u, NEW until, AdminOpen(w, u, until) PROVE RInv'
    <2>1. AdminSession(u, until, NoValue).kind = "admin"
        BY DEF AdminSession
    <2> QED BY <1>2, <1>7, <2>1, Zenon DEF AdminOpen
<1>8. ASSUME NEW i \in Invited, ReferralOpen(w, i) PROVE RInv'
    <2>1. ReferralSession(i, row[i], NoValue, {}).inviter = NoValue
        BY DEF ReferralSession
    <2> QED BY <1>2, <1>8, <2>1, Zenon DEF ReferralOpen
<1> QED BY <1>3, <1>4, <1>5, <1>6, <1>7, <1>8, Zenon DEF AdminExtend, AdminRevoke, AdminExact

\* Payments and administrators leave the days earned as they are stored.
LEMMA CommitsQuietly ==
    ASSUME RInv, TypeOK', NEW w \in Workers, PayCommit(w) \/ AdminCommit(w)
    PROVE  RInv'
<1>1. /\ TypeOK /\ row \in [Users -> Row] /\ now \in Nat
      /\ UNCHANGED <<active, awarded, rewards>> /\ tx' = [tx EXCEPT ![w] = NoValue]
    BY BoundsAssumption, SMT DEF RInv, TypeOK, PayCommit, AdminCommit, Close, books
<1>2. ASSUME NEW u \in Users, NEW read \in Row, NEW new \in Row, new.earned = read.earned,
             row' = [row EXCEPT ![u] = Flushed(row[u], read, new)]
      PROVE  \A x \in Users : row'[x].earned = row[x].earned
    <2>1. Flushed(row[u], read, new).earned = row[u].earned
        BY <1>1, <1>2, FlushedEarned
    <2> QED BY <1>1, <1>2, <2>1
<1>3. ASSUME PayCommit(w) PROVE \A x \in Users : row'[x].earned = row[x].earned
    <2> DEFINE new == Extended(tx[w].read, PaidDays[tx[w].charge])
    <2>1. tx[w].user \in Users /\ tx[w].charge \in Charges /\ tx[w].read \in Row
        BY <1>1, <1>3, SessionTypes, SMT DEF PayCommit, PayTx
    <2>2. PaidDays[tx[w].charge] \in Nat
        BY <2>1, PaymentAssumption
    <2>3. new \in Row /\ new.earned = tx[w].read.earned
        BY <1>1, <2>1, <2>2, NewRows, EarnedKept
    <2>4. row' = [row EXCEPT ![tx[w].user] = Flushed(row[tx[w].user], tx[w].read, new)]
        BY <1>3 DEF PayCommit
    <2> HIDE DEF new
    <2> QED BY <1>2, <2>1, <2>3, <2>4
<1>4. ASSUME AdminCommit(w) PROVE \A x \in Users : row'[x].earned = row[x].earned
    <2> DEFINE new == EndSet(tx[w].read, tx[w].until)
    <2>1. tx[w] \in AdminTx /\ tx[w].read # NoValue
        BY <1>1, <1>4, SessionTypes DEF AdminCommit
    <2>2. tx[w].user \in Users /\ tx[w].until \in Int \cup {NoValue} /\ tx[w].read \in Row
        BY <2>1, SMT DEF AdminTx
    <2>3. new \in Row /\ new.earned = tx[w].read.earned
        BY <1>1, <2>2, NewRows, EarnedKept
    <2>4. row' = [row EXCEPT ![tx[w].user] = Flushed(row[tx[w].user], tx[w].read, new)]
        BY <1>4 DEF AdminCommit
    <2> HIDE DEF new
    <2> QED BY <1>2, <2>2, <2>3, <2>4
<1>5. \A x \in Users : row'[x].earned = row[x].earned
    BY <1>3, <1>4
<1>6. tx'[w] = NoValue /\ \A v \in Workers \ {w} : tx'[v] = tx[v]
    BY <1>1, OneSession
<1>7. ~Holds(w)'
    BY <1>6 DEF Holds, Open
<1> QED BY <1>1, <1>5, <1>6, <1>7, Quietly

\* So does the job.
LEMMA JobQuietly ==
    ASSUME RInv, TypeOK', Tick \/ ExpireOpen \/ ExpireCommit \/ ExpireAbort
    PROVE  RInv'
<1>1. TypeOK /\ row \in [Users -> Row] /\ now \in Nat
    BY BoundsAssumption, SMT DEF RInv, TypeOK
<1>2. UNCHANGED <<active, awarded, rewards, tx>>
    BY Zenon DEF Tick, ExpireOpen, ExpireCommit, ExpireAbort, books
<1>3. CASE Tick \/ ExpireOpen \/ ExpireAbort
    <2>1. row' = row
        BY <1>3, Zenon DEF Tick, ExpireOpen, ExpireAbort
    <2> QED BY <1>2, <2>1, Quietly
<1>4. CASE ExpireCommit
    <2>1. PICK due \in SUBSET Users : job \in [due -> Row]
        BY <1>1, <1>4 DEF ExpireCommit, TypeOK
    <2>2. ASSUME NEW u \in Users PROVE row'[u].earned = row[u].earned
        <3>1. CASE u \notin due
            BY <2>1, <3>1, <1>4 DEF ExpireCommit
        <3>2. CASE u \in due
            <4>1. row'[u] = Flushed(row[u], job[u], Expired(job[u]))
                BY <1>4, <2>1, <3>2 DEF ExpireCommit
            <4>2. job[u] \in Row /\ Expired(job[u]) \in Row /\ Expired(job[u]).earned = job[u].earned
                BY <1>1, <2>1, <3>2, NewRows, EarnedKept
            <4> QED BY <1>1, <4>1, <4>2, FlushedEarned
        <3> QED BY <3>1, <3>2
    <2> QED BY <1>2, <2>2, Quietly
<1> QED BY <1>3, <1>4

\* The lock keeps other sessions of the same inviter out.
LEMMA LockStep ==
    ASSUME RInv, TypeOK', NEW w \in Workers, ReferralLock(w)
    PROVE  RInv'
<1> DEFINE s == Rewarded(tx[w])
           inv == Inviter[tx[w].user]
<1>1. /\ TypeOK /\ Open(w, "referral") /\ tx' = [tx EXCEPT ![w] = s]
      /\ UNCHANGED <<active, awarded, rewards, row>>
    BY Zenon DEF RInv, ReferralLock, books
<1>2. tx'[w] = s /\ \A v \in Workers \ {w} : tx'[v] = tx[v]
    BY <1>1, OneSession
<1>3. /\ s.user = tx[w].user /\ s.inviter = row[inv]
      /\ s.levels = EligibleLevels(inv, tx[w].user)
    BY DEF Rewarded, ReferralSession
<1>4. ASSUME NEW v \in Workers \ {w}, Holds(v)'
      PROVE  Holds(v) /\ Inviter[tx'[v].user] # inv
    <2>1. Holds(v)
        BY <1>2, <1>4 DEF Holds, Open
    <2>2. ~LockedBy(v, inv)
        BY Zenon DEF ReferralLock, Unlocked
    <2> QED BY <1>2, <2>1, <2>2 DEF LockedBy, Holds
<1>5. ASSUME NEW v \in Workers, NEW x \in Workers, Holds(v)', Holds(x)',
             Inviter[tx'[v].user] = Inviter[tx'[x].user]
      PROVE  v = x
    <2>1. CASE v = w \/ x = w
        BY <1>2, <1>3, <1>4, <1>5, <2>1
    <2>2. CASE v # w /\ x # w
        BY <1>2, <1>4, <1>5, <2>2 DEF RInv, LocksExclusive
    <2> QED BY <2>1, <2>2
<1>6. LocksExclusive'
    BY <1>5 DEF LocksExclusive
<1>7. \A u, i : EligibleLevels(u, i)' = EligibleLevels(u, i)
    BY <1>1 DEF EligibleLevels
<1>8. ASSUME NEW v \in Workers, Holds(v)' PROVE Current(v)'
    <2>1. CASE v = w
        BY <1>1, <1>2, <1>3, <2>1 DEF Current, EligibleLevels
    <2>2. CASE v # w
        <3>1. Current(v) /\ tx'[v] = tx[v]
            BY <1>2, <1>4, <1>8, <2>2 DEF RInv, HeldIsCurrent
        <3> QED BY <1>1, <3>1 DEF Current, EligibleLevels
    <2> QED BY <2>1, <2>2
<1>9. HeldIsCurrent'
    BY <1>8 DEF HeldIsCurrent
<1>10. LevelsAwardedWhenReached' /\ InviterEarnedAddsUp' /\ IsFiniteSet(active)'
    BY <1>1 DEF RInv, LevelsAwardedWhenReached, InviterEarnedAddsUp
<1> QED BY <1>6, <1>9, <1>10 DEF RInv

\* The commit of a referral, with what it found under its lock.
LEMMA CommitStep ==
    ASSUME RInv, TypeOK', NEW w \in Workers, ReferralCommit(w)
    PROVE  RInv'
<1> DEFINE i == tx[w].user
           inv == Inviter[i]
           levels == tx[w].levels
           days == InviterDays + LevelDays[levels]
           mine == Granted(tx[w].read, InviteeDays)
           his == Granted(tx[w].inviter, days)
<1>1. /\ TypeOK /\ IsFiniteSet(active) /\ Holds(w) /\ Current(w)
      /\ row \in [Users -> Row] /\ now \in Nat
      /\ awarded \in [Users -> SUBSET Levels] /\ rewards \in [Users -> Nat]
    BY BoundsAssumption, SMT DEF RInv, HeldIsCurrent, Holds, ReferralCommit, TypeOK
<1>2. /\ i \in Invited /\ inv \in Users /\ i \in Users /\ i # inv
      /\ tx[w].read \in Row /\ tx[w].inviter \in Row /\ days \in Nat
    BY <1>1, ReferralFound
<1>3. mine \in Row /\ his \in Row /\ his.earned = tx[w].inviter.earned + days
    BY <1>1, <1>2, ReferralAssumption, NewRows, EarnedKept
<1>4. /\ row' = [row EXCEPT ![i] = Flushed(row[i], tx[w].read, mine),
                            ![inv] = Flushed(row[inv], tx[w].inviter, his)]
      /\ active' = active \cup {i}
      /\ awarded' = [awarded EXCEPT ![inv] = @ \cup levels]
      /\ rewards' = [rewards EXCEPT ![i] = @ + InviteeDays, ![inv] = @ + days]
      /\ tx' = [tx EXCEPT ![w] = NoValue]
    BY <1>2 DEF ReferralCommit, Close
<1>5. tx'[w] = NoValue /\ \A v \in Workers \ {w} : tx'[v] = tx[v]
    BY <1>1, <1>4, OneSession
<1>6. levels = EligibleLevels(inv, i)
    BY <1>1 DEF Current
<1>7. /\ row'[inv] = Flushed(row[inv], tx[w].inviter, his)
      /\ \A x \in Users \ {i, inv} : row'[x] = row[x]
      /\ rewards'[inv] = rewards[inv] + days
      /\ \A x \in Users \ {i, inv} : rewards'[x] = rewards[x]
      /\ awarded'[inv] = awarded[inv] \cup levels
      /\ \A x \in Users \ {inv} : awarded'[x] = awarded[x]
    <2> HIDE DEF i, inv, levels, days, mine, his
    <2> QED BY <1>1, <1>2, <1>4
<1>8. /\ IsFiniteSet(active')
      /\ \A u : u # inv => ActiveReferrals(u, active') = ActiveReferrals(u, active)
      /\ Cardinality(ActiveReferrals(inv, active)) <= Cardinality(ActiveReferrals(inv, active'))
      /\ Cardinality(ActiveReferrals(inv, active)) \in Nat
      /\ Cardinality(ActiveReferrals(inv, active')) \in Nat
    BY <1>1, <1>2, <1>4, OneMore
<1>9. ASSUME NEW v \in Workers, Holds(v)'
      PROVE  v # w /\ Holds(v) /\ tx'[v] = tx[v]
    BY <1>5, <1>9, Zenon DEF Holds, Open
<1>10. LocksExclusive'
    BY <1>9, Zenon DEF RInv, LocksExclusive
<1>11. ASSUME NEW v \in Workers, Holds(v)' PROVE Current(v)'
    <2> DEFINE j == tx[v].user
               other == Inviter[j]
    <2>1. v # w /\ Holds(v) /\ tx'[v] = tx[v] /\ Current(v)
        BY <1>9, <1>11 DEF RInv, HeldIsCurrent
    <2>2. other # inv
        BY <1>1, <2>1 DEF RInv, LocksExclusive
    <2>3. j \in Invited
        BY <1>1, <2>1, SessionTypes, SMT DEF Holds, ReferralTx
    <2>4. other \in Users
        BY <2>3, ReferralAssumption
    <2>5. ActiveReferrals(other, active' \cup {j}) = ActiveReferrals(other, active \cup {j})
        BY <1>4, <2>2 DEF ActiveReferrals
    <2>6. awarded'[other] = awarded[other]
        BY <1>7, <2>2, <2>4
    <2>7. EligibleLevels(other, j)' = EligibleLevels(other, j)
        BY <2>1, <2>5, <2>6 DEF EligibleLevels
    <2>8. other \notin Invited => row'[other] = row[other]
        BY <1>2, <1>7, <2>2, <2>4
    <2> QED BY <2>1, <2>7, <2>8 DEF Current
<1>12. HeldIsCurrent'
    BY <1>11 DEF HeldIsCurrent
<1>13. ASSUME NEW u \in Users
       PROVE  awarded'[u] =
                {l \in Levels : Cardinality(ActiveReferrals(u, active')) >= LevelCount[l]}
    <2>1. awarded[u] =
             {l \in Levels : Cardinality(ActiveReferrals(u, active)) >= LevelCount[l]}
        BY DEF RInv, LevelsAwardedWhenReached
    <2>2. CASE u # inv
        BY <1>7, <1>8, <2>1, <2>2
    <2>3. CASE u = inv
        <3> DEFINE before == Cardinality(ActiveReferrals(inv, active))
                   after == Cardinality(ActiveReferrals(inv, active'))
        <3>1. levels = {l \in Levels \ awarded[inv] : after >= LevelCount[l]}
            BY <1>4, <1>6 DEF EligibleLevels
        <3>2. \A l \in Levels : before >= LevelCount[l] => after >= LevelCount[l]
            <4> HIDE DEF before, after
            <4>1. before \in Nat /\ after \in Nat /\ before <= after
                BY <1>8 DEF before, after
            <4> QED BY <4>1, LevelAssumption, SMT
        <3>3. awarded[inv] = {l \in Levels : before >= LevelCount[l]}
            BY <2>1, <2>3
        <3>4. awarded'[inv] = awarded[inv] \cup levels
            BY <1>7
        <3> HIDE DEF before, after, levels, inv
        <3>5. awarded'[inv] = {l \in Levels : after >= LevelCount[l]}
            BY <3>1, <3>2, <3>3, <3>4, Zenon
        <3> QED BY <2>3, <3>5 DEF after
    <2> QED BY <2>2, <2>3
<1>14. LevelsAwardedWhenReached'
    BY <1>13 DEF LevelsAwardedWhenReached
<1>15. ASSUME NEW u \in Users \ Invited
       PROVE  row'[u].earned = rewards'[u]
    <2>1. u # i /\ row[u].earned = rewards[u]
        BY <1>2 DEF RInv, InviterEarnedAddsUp
    <2>2. CASE u # inv
        BY <1>7, <2>1, <2>2
    <2>3. CASE u = inv
        <3>1. tx[w].inviter.earned = row[inv].earned
            BY <1>1, <2>3 DEF Current
        <3>2. Flushed(row[inv], tx[w].inviter, his).earned = his.earned
            BY <1>1, <1>2, <1>3, <3>1, FlushedEarned
        <3> QED BY <1>3, <1>7, <2>1, <2>3, <3>1, <3>2
    <2> QED BY <2>2, <2>3
<1>16. InviterEarnedAddsUp'
    BY <1>15 DEF InviterEarnedAddsUp
<1> QED BY <1>8, <1>10, <1>12, <1>14, <1>16 DEF RInv

LEMMA RInvNext == RInv /\ [Next]_vars => RInv'
<1> SUFFICES ASSUME RInv, [Next]_vars PROVE RInv'
    OBVIOUS
<1>1. TypeOK'
    BY TypeNext DEF RInv
<1>2. CASE UNCHANGED vars
    BY <1>1, <1>2, Quietly, Zenon DEF vars, books
<1>3. CASE Tick \/ ExpireOpen \/ ExpireCommit \/ ExpireAbort
    BY <1>1, <1>3, JobQuietly
<1>4. ASSUME NEW w \in Workers, Handler(w) PROVE RInv'
    BY <1>1, <1>4, SessionsQuietly, CommitsQuietly, LockStep, CommitStep, Zenon DEF Handler
<1> QED BY <1>2, <1>3, <1>4, Zenon DEF Next

\* Levels are awarded exactly when they are reached, for any number of friends,
\* handlers and levels: who counts holds the inviter's row until he has awarded.
THEOREM LevelsHold == Spec => []LevelsAwardedWhenReached
<1>1. RInv => LevelsAwardedWhenReached
    BY DEF RInv
<1> QED BY RInvInit, RInvNext, <1>1, PTL DEF Spec

\* The days that an inviter has earned are those booked for him, whatever payments,
\* administrators and the job write to his row meanwhile.
THEOREM EarnedHolds == Spec => []InviterEarnedAddsUp
<1>1. RInv => InviterEarnedAddsUp
    BY DEF RInv
<1> QED BY RInvInit, RInvNext, <1>1, PTL DEF Spec

-----------------------------------------------------------------------------
(* The tools: no handler of a comparison, however they interleave, goes    *)
(* beyond the limit of regions, and the newest message fits the FSM.       *)

Steps == {"read", "written", "fetching", "drawing", "redrawing"}
Places == {"new", "old", NoValue}
Acts == [step : Steps, at : Places, rule : Rules, chosen : SUBSET Regions]

\* The screens whose buttons their item decides name no region as their way back.
Fits(s) ==
    /\ Tools!NameOf(s) = "notice" => s[2] \in {"menu:home", "menu:games", "menu:premium"}
    /\ Tools!NameOf(s) = "gate" => s[2][1] # "compare_toggle"
    /\ Tools!NameOf(s) = "analytics" => s[2][2][1] # "compare_toggle"

\* An older message is of a screen that stays usable.
Older(s) == Tools!NameOf(s) \in Kept \cup {""}

ChatFits ==
    /\ chat = [new |-> chat.new, old |-> chat.old]
    /\ Older(chat.old) /\ Fits(chat.new) /\ Fits(chat.old)

Dialogues == {Tools!Idle, Tools!Other} \cup {Tools!Selecting(r) : r \in Rules}

\* A screen of the comparison whose buttons need the FSM, which may be f.
Alive(s, f) ==
    /\ Tools!NameOf(s) \in {"groups", "currencies"} => f = Tools!Selecting(s[2])
    /\ Tools!NameOf(s) = "fetching" => f.state = "RegionCompare.selecting"

Within(act) ==
    /\ Cardinality(act.chosen) <= MaxRegions
    /\ act.step = "fetching" => Cardinality(act.chosen) >= 2

ActsFit ==
    /\ acting \in [Handlers -> Acts \cup {NoValue}]
    /\ \A h \in Handlers : acting[h] # NoValue => Within(acting[h])

SelectionFits == selected \subseteq Regions /\ Cardinality(selected) <= MaxRegions

ToolsInv ==
    /\ fsm \in Dialogues /\ panel = NoValue /\ premium \in BOOLEAN /\ owned \subseteq Rules
    /\ ChatFits /\ ActsFit /\ SelectionFits
    /\ crossed \in BOOLEAN /\ (~crossed => Alive(chat.new, fsm))

\* What a step has to show: a newest message that it wrote works in the dialogue.
Moved ==
    /\ fsm' \in Dialogues /\ panel' = NoValue /\ premium' \in BOOLEAN /\ owned' \subseteq Rules
    /\ ChatFits' /\ (chat'.new = chat.new \/ Alive(chat'.new, fsm'))
    /\ ActsFit' /\ SelectionFits'

\* What is retained of a message stays usable.
LEMMA RetainedFits ==
    ASSUME NEW screen, NEW instead, Fits(screen), Older(instead), Fits(instead)
    PROVE  /\ Older(Tools!Retained(screen, instead))
           /\ Fits(Tools!Retained(screen, instead))
BY Zenon DEF Tools!Retained, Older

\* No message is one that stays usable.
LEMMA NothingFits == Older(NoValue) /\ Fits(NoValue)
<1>1. Tools!NameOf(NoValue) = ""
    BY Zenon DEF Tools!NameOf
<1>2. "" \notin {"notice", "gate", "analytics"}
    BY SMT
<1> QED BY <1>1, <1>2, Zenon DEF Older, Fits

\* chat holds the screens that it is written with.
LEMMA ChatWritten ==
    ASSUME NEW new, NEW old, Older(old), Fits(new), Fits(old), chat' = [new |-> new, old |-> old]
    PROVE  ChatFits' /\ chat'.new = new
<1>1. chat'.new = new /\ chat'.old = old
    BY SMT
<1> QED BY <1>1, Zenon DEF ChatFits

\* A message that was edited is as it was, or shows the screen.
LEMMA ShownFits ==
    ASSUME ChatFits, NEW p \in Places, NEW screen, Fits(screen), Tools!Shows(p, screen)
    PROVE  ChatFits' /\ chat'.new \in {chat.new, screen}
<1>1. CASE p = NoValue
    BY <1>1, Zenon DEF Tools!Shows, ChatFits
<1> DEFINE left == Tools!Retained(screen, NoValue)
<1>2. Older(left) /\ Fits(left)
    BY RetainedFits, NothingFits, Zenon
<1>3. p # NoValue => chat' = [chat EXCEPT ![p] = IF p = "new" THEN screen ELSE left]
    BY Zenon DEF Tools!Shows, Tools!Edited
<1> HIDE DEF left
<1>4. /\ Older(chat.old) /\ Fits(chat.new) /\ Fits(chat.old)
      /\ chat = [new |-> chat.new, old |-> chat.old]
    BY Zenon DEF ChatFits
<1>5. CASE p # NoValue /\ p = "new"
    <2>1. chat' = [new |-> screen, old |-> chat.old]
        BY <1>3, <1>4, <1>5, SMT
    <2> QED BY <2>1, <1>4, ChatWritten, Zenon
<1>6. CASE p # NoValue /\ p = "old"
    <2>1. chat' = [new |-> chat.new, old |-> left]
        BY <1>3, <1>4, <1>6, SMT
    <2> QED BY <2>1, <1>2, <1>4, ChatWritten, Zenon
<1> QED BY <1>1, <1>5, <1>6, Zenon DEF Places

\* A new message leaves another one that is kept, or none.
LEMMA SentFits ==
    ASSUME ChatFits, NEW screen, Fits(screen), NEW instead, instead \in {chat.old, NoValue},
           chat' = [new |-> screen, old |-> Tools!Retained(chat.new, instead)]
    PROVE  ChatFits' /\ chat'.new = screen
<1>1. Older(instead) /\ Fits(instead)
    BY NothingFits, Zenon DEF ChatFits
<1>2. /\ Older(Tools!Retained(chat.new, instead))
      /\ Fits(Tools!Retained(chat.new, instead))
    BY <1>1, RetainedFits, Zenon DEF ChatFits
<1> QED BY <1>2, ChatWritten, Zenon

\* A photo, or a text in the place of which a photo comes, is deleted.
LEMMA ResentFits ==
    ASSUME ChatFits, NEW p \in Places, NEW screen, Fits(screen), chat' = Tools!Resent(p, screen)
    PROVE  ChatFits' /\ chat'.new = screen
<1>1. CASE p = "new"
    <2>1. chat' = [new |-> screen, old |-> chat.old]
        BY <1>1, Zenon DEF Tools!Resent
    <2> QED BY <2>1, ChatWritten, Zenon DEF ChatFits
<1>2. CASE p # "new"
    <2>1. chat' = [new |-> screen, old |-> Tools!Retained(chat.new, NoValue)]
        BY <1>2, Zenon DEF Tools!Resent
    <2> QED BY <2>1, SentFits, Zenon
<1> QED BY <1>1, <1>2, Zenon

\* A message that is written over carries the dialogue's dead buttons away.
LEMMA AliveNext ==
    ASSUME Tools!Crosses, ~crossed => Alive(chat.new, fsm),
           chat'.new = chat.new \/ Alive(chat'.new, fsm'),
           crossed \in BOOLEAN
    PROVE  (~crossed => Alive(chat.new, fsm))' /\ crossed' \in BOOLEAN
<1>1. CASE chat'.new = chat.new
    <2>1. crossed' = (crossed \/ fsm' # fsm)
        BY <1>1, Zenon DEF Tools!Crosses
    <2>2. CASE ~crossed'
        BY <1>1, <2>1, <2>2, Zenon
    <2>3. CASE crossed'
        BY <2>1, <2>3, Zenon
    <2> QED BY <2>2, <2>3, Zenon
<1>2. CASE chat'.new # chat.new
    <2>1. crossed' = FALSE
        BY <1>2, Zenon DEF Tools!Crosses
    <2> QED BY <2>1, <1>2, Zenon
<1> QED BY <1>1, <1>2, Zenon

-----------------------------------------------------------------------------
(* The screens that the tools show.                                        *)

\* A screen that names no region as the way back, and works in the dialogue f.
Good(s, f) == Fits(s) /\ Alive(s, f)

LEMMA PlainScreen ==
    ASSUME NEW name, NEW item, NEW f,
           name \notin {"notice", "gate", "analytics", "groups", "currencies", "fetching"}
    PROVE  Good(<<name, item>>, f)
<1>1. Tools!NameOf(<<name, item>>) \in {"", name}
    BY SMT DEF Tools!NameOf
<1>2. "" \notin {"notice", "gate", "analytics", "groups", "currencies", "fetching"}
    BY SMT
<1> QED BY <1>1, <1>2, Zenon DEF Good, Fits, Alive

LEMMA NoticeScreen ==
    ASSUME NEW target \in {"menu:home", "menu:games", "menu:premium"}, NEW f
    PROVE  Good(Tools!Notice(target), f)
<1>1. Tools!Notice(target) = <<"notice", target>>
    BY Zenon DEF Tools!Notice
<1>2. Tools!NameOf(<<"notice", target>>) \in {"", "notice"} /\ <<"notice", target>>[2] = target
    BY SMT DEF Tools!NameOf
<1>3. {"", "notice"} \cap {"gate", "analytics", "groups", "currencies", "fetching"} = {}
    BY SMT
<1> QED BY <1>1, <1>2, <1>3, Zenon DEF Good, Fits, Alive

LEMMA GateScreen ==
    ASSUME NEW back, back[1] # "compare_toggle", NEW f
    PROVE  Good(Tools!Gate(back), f)
<1>1. Tools!Gate(back) = <<"gate", back>>
    BY Zenon DEF Tools!Gate
<1>2. Tools!NameOf(<<"gate", back>>) \in {"", "gate"} /\ <<"gate", back>>[2] = back
    BY SMT DEF Tools!NameOf
<1>3. {"", "gate"} \cap {"notice", "analytics", "groups", "currencies", "fetching"} = {}
    BY SMT
<1> QED BY <1>1, <1>2, <1>3, Zenon DEF Good, Fits, Alive

LEMMA AnalyticsScreen ==
    ASSUME NEW r, NEW back, back[1] # "compare_toggle", NEW f
    PROVE  Good(<<"analytics", <<r, back>>>>, f)
<1>1. /\ Tools!NameOf(<<"analytics", <<r, back>>>>) \in {"", "analytics"}
      /\ <<"analytics", <<r, back>>>>[2][2] = back
    BY SMT DEF Tools!NameOf
<1>2. {"", "analytics"} \cap {"notice", "gate", "groups", "currencies", "fetching"} = {}
    BY SMT
<1> QED BY <1>1, <1>2, Zenon DEF Good, Fits, Alive

\* The choice of a group or a currency, while the dialogue is about its rule.
LEMMA ChoiceScreen ==
    ASSUME NEW name \in {"groups", "currencies"}, NEW r
    PROVE  Good(<<name, r>>, Tools!Selecting(r))
<1>1. Tools!NameOf(<<name, r>>) \in {"", name} /\ <<name, r>>[2] = r
    BY SMT DEF Tools!NameOf
<1>2. {"", "groups", "currencies"} \cap {"notice", "gate", "analytics", "fetching"} = {}
    BY SMT
<1> QED BY <1>1, <1>2, Zenon DEF Good, Fits, Alive

LEMMA FetchingScreen ==
    ASSUME NEW f, f.state = "RegionCompare.selecting"
    PROVE  Good(<<"fetching", NoValue>>, f)
<1>1. Tools!NameOf(<<"fetching", NoValue>>) \in {"", "fetching"}
    BY SMT DEF Tools!NameOf
<1>2. {"", "fetching"} \cap {"notice", "gate", "analytics", "groups", "currencies"} = {}
    BY SMT
<1> QED BY <1>1, <1>2, Zenon DEF Good, Fits, Alive

\* While a comparison is on, the dialogue names its rule.
LEMMA ComparingIs ==
    ASSUME fsm \in Dialogues, Tools!Comparing
    PROVE  fsm.item \in Rules /\ fsm = Tools!Selecting(fsm.item)
<1>1. fsm # Tools!Idle /\ fsm # Tools!Other
    <2>1. Tools!Idle.state = "" /\ Tools!Other.state = "other"
        BY SMT DEF Tools!Idle, Tools!Other, Tools!At
    <2>2. "RegionCompare.selecting" \notin {"", "other"}
        BY SMT
    <2> QED BY <2>1, <2>2, Zenon DEF Tools!Comparing
<1>2. PICK r \in Rules : fsm = Tools!Selecting(r)
    BY <1>1, Zenon DEF Dialogues
<1>3. Tools!Selecting(r).item = r
    BY SMT DEF Tools!Selecting, Tools!At
<1> QED BY <1>2, <1>3, Zenon

\* The buttons that toggle a region name one.
LEMMA TogglesAreRegions ==
    ASSUME NEW s, Fits(s), s # NoValue, NEW b \in Tools!Keyboard(s), b[1] = "compare_toggle"
    PROVE  b[2] \in Regions
<1>1. CASE s[1] = "main"
    BY <1>1, SMT DEF Tools!Keyboard, Tools!Plain, Tools!Each, Tools!Home, Tools!main_keyboard
<1>2. CASE s[1] = "card"
    BY <1>2, SMT DEF Tools!Keyboard, Tools!Plain, Tools!Each, Tools!Home, Tools!watch_card_keyboard
<1>3. CASE s[1] = "active"
    BY <1>3, SMT DEF Tools!Keyboard, Tools!Plain, Tools!Each, Tools!Home, Tools!active_premium_keyboard
<1>4. CASE s[1] = "notice"
    BY <1>4, SMT DEF Tools!Keyboard, Tools!Plain, Tools!Each, Tools!Home, Tools!back_keyboard, Fits, Tools!NameOf
<1>5. CASE s[1] = "gate"
    <2>1. b \in {<<"buy", NoValue>>, <<"premium:info:", s[2]>>, s[2]}
        BY <1>5, SMT DEF Tools!Keyboard, Tools!Plain, Tools!Each, Tools!Home, Tools!premium_gate_keyboard
    <2>2. Tools!NameOf(s) = "gate"
        BY <1>5, Zenon DEF Tools!NameOf
    <2>3. s[2][1] # "compare_toggle"
        BY <2>2, Zenon DEF Fits
    <2>4. b # <<"buy", NoValue>> /\ b # <<"premium:info:", s[2]>>
        BY SMT
    <2> QED BY <2>1, <2>3, <2>4, Zenon
<1>6. CASE s[1] = "premium_analytics" \/ s[1] = "premium_compare"
    <2>1. CASE s[1] = "premium_analytics"
        BY <2>1, SMT DEF Tools!Keyboard, Tools!Plain, Tools!Each, Tools!Home, Tools!premium_games_keyboard
    <2>2. CASE s[1] = "premium_compare"
        BY <2>2, SMT DEF Tools!Keyboard, Tools!Plain, Tools!Each, Tools!Home, Tools!premium_games_keyboard
    <2> QED BY <1>6, <2>1, <2>2, Zenon
<1>7. CASE s[1] = "deals"
    BY <1>7, SMT DEF Tools!Keyboard, Tools!Plain, Tools!Each, Tools!Home, Tools!deals_analytics_keyboard
<1>8. CASE s[1] = "analytics"
    <2>1. /\ Tools!Keyboard(s) = Tools!analytics_keyboard(s[2][1], s[2][2])
          /\ Tools!NameOf(s) = "analytics"
        BY <1>8, SMT DEF Tools!Keyboard, Tools!Plain, Tools!Each, Tools!Home, Tools!analytics_keyboard, Tools!NameOf
    <2>2. b \in {<<"price_history", s[2][1]>>, <<"premium_compare", s[2][1]>>,
                 <<"watch", s[2][1]>>, s[2][2]}
        BY <2>1, Zenon DEF Tools!analytics_keyboard
    <2>3. s[2][2][1] # "compare_toggle"
        BY <2>1, Zenon DEF Fits
    <2>4. /\ b # <<"price_history", s[2][1]>> /\ b # <<"premium_compare", s[2][1]>>
          /\ b # <<"watch", s[2][1]>>
        BY SMT
    <2> QED BY <2>2, <2>3, <2>4, Zenon
<1>9. CASE s[1] = "chart" \/ s[1] = "no_chart"
    <2>1. CASE s[1] = "chart"
        BY <2>1, SMT DEF Tools!Keyboard, Tools!Plain, Tools!Each, Tools!Home, Tools!price_history_keyboard
    <2>2. CASE s[1] = "no_chart"
        BY <2>2, SMT DEF Tools!Keyboard, Tools!Plain, Tools!Each, Tools!Home, Tools!price_history_keyboard
    <2> QED BY <1>9, <2>1, <2>2, Zenon
<1>10. CASE s[1] = "groups"
    BY <1>10, SMT DEF Tools!Keyboard, Tools!Plain, Tools!Each, Tools!Home, Tools!comparison_groups_keyboard
<1>11. CASE s[1] = "regions"
    <2>1. Tools!Keyboard(s) = Tools!comparison_regions_keyboard("group", Regions)
        BY <1>11, SMT DEF Tools!Keyboard, Tools!Plain, Tools!Each, Tools!Home, Tools!comparison_regions_keyboard
    <2>2. \/ \E c \in Regions : b = <<"compare_toggle", c>>
          \/ b \in {<<"compare_all", "group">>, <<"compare:groups", NoValue>>, <<"menu:home", NoValue>>}
        BY <2>1, Zenon DEF Tools!comparison_regions_keyboard, Tools!Each, Tools!Home
    <2>3. /\ b # <<"compare_all", "group">> /\ b # <<"compare:groups", NoValue>>
          /\ b # <<"menu:home", NoValue>>
        BY SMT
    <2>4. \A c \in Regions : b = <<"compare_toggle", c>> => b[2] = c
        BY SMT
    <2> QED BY <2>2, <2>3, <2>4, Zenon
<1>12. CASE s[1] = "currencies"
    BY <1>12, SMT DEF Tools!Keyboard, Tools!Plain, Tools!Each, Tools!Home, Tools!comparison_currency_keyboard
<1>13. CASE s[1] = "comparison"
    BY <1>13, SMT DEF Tools!Keyboard, Tools!Plain, Tools!Each, Tools!Home, Tools!comparison_result_keyboard
<1>14. CASE /\ s[1] # "main" /\ s[1] # "card" /\ s[1] # "active"
            /\ s[1] # "notice" /\ s[1] # "gate" /\ s[1] # "premium_analytics"
            /\ s[1] # "premium_compare" /\ s[1] # "deals" /\ s[1] # "analytics"
            /\ s[1] # "chart" /\ s[1] # "no_chart" /\ s[1] # "groups"
            /\ s[1] # "regions" /\ s[1] # "currencies" /\ s[1] # "comparison"
    <2>1. Tools!Keyboard(s) = {}
        BY <1>14, Zenon DEF Tools!Keyboard
    <2> QED BY <2>1, Zenon
<1> QED BY <1>1, <1>2, <1>3, <1>4, <1>5, <1>6, <1>7, <1>8, <1>9, <1>10, <1>11, <1>12, <1>13,
           <1>14, Zenon

-----------------------------------------------------------------------------
(* The steps.                                                              *)

\* Cardinality, as the instance of the tools knows it.
LEMMA SameCardinality == ASSUME NEW S PROVE Tools!Cardinality(S) = Cardinality(S)
BY Zenon DEF Tools!Cardinality, Cardinality

\* A message that shows a good screen, or is none.
LEMMA ShownGood ==
    ASSUME ChatFits, NEW p \in Places, NEW screen, Good(screen, fsm'), Tools!Shows(p, screen)
    PROVE  ChatFits' /\ (chat'.new = chat.new \/ Alive(chat'.new, fsm'))
BY ShownFits, Zenon DEF Good

\* Handlers that move with their messages, begin, go on or end.
LEMMA ActsNext ==
    ASSUME acting' = [h \in Handlers |-> acting'[h]],
           \A h \in Handlers : acting'[h] = NoValue \/ (acting'[h] \in Acts /\ Within(acting'[h]))
    PROVE  ActsFit'
BY Zenon DEF ActsFit

LEMMA ActsKept == ActsFit /\ UNCHANGED acting => ActsFit'
BY Zenon DEF ActsFit

LEMMA ActFits ==
    ASSUME ActsFit, NEW h \in Handlers, acting[h] # NoValue
    PROVE  acting[h] \in Acts /\ Within(acting[h])
BY Zenon DEF ActsFit

\* A handler elsewhere works as before.
LEMMA ActMoved ==
    ASSUME NEW act \in Acts, Within(act), NEW q \in Places
    PROVE  [act EXCEPT !.at = q] \in Acts /\ Within([act EXCEPT !.at = q])
<1>1. [act EXCEPT !.at = q] = [step |-> act.step, at |-> q, rule |-> act.rule, chosen |-> act.chosen]
    BY SMT DEF Acts
<1>2. [act EXCEPT !.at = q] \in Acts
    BY <1>1, SMT DEF Acts
<1>3. /\ [act EXCEPT !.at = q].chosen = act.chosen
      /\ [act EXCEPT !.at = q].step = act.step
    BY <1>1, SMT
<1> QED BY <1>2, <1>3, Zenon DEF Within

LEMMA OlderFits ==
    ASSUME ActsFit, NEW h \in Handlers
    PROVE  \/ Tools!OlderActs[h] = NoValue
           \/ Tools!OlderActs[h] \in Acts /\ Within(Tools!OlderActs[h])
<1>1. Tools!OlderActs[h] = IF acting[h] = NoValue THEN NoValue
                           ELSE [acting[h] EXCEPT !.at = Tools!Older(acting[h].at)]
    BY Zenon DEF Tools!OlderActs, Tools!ActsAt
<1>2. CASE acting[h] = NoValue
    BY <1>1, <1>2, Zenon
<1>3. CASE acting[h] # NoValue
    <2>1. acting[h].at \in Places
        BY <1>3, ActFits, SMT DEF Acts
    <2>2. Tools!Older(acting[h].at) \in Places
        BY <2>1, Zenon DEF Tools!Older, Places
    <2> QED BY <1>1, <1>3, <2>2, ActFits, ActMoved, Zenon
<1> QED BY <1>2, <1>3, Zenon

LEMMA AfterFits ==
    ASSUME ActsFit, NEW h \in Handlers, NEW p \in Places, NEW moved,
           moved = IF acting[h] = NoValue THEN NoValue
                   ELSE [acting[h] EXCEPT !.at = Tools!PlaceAfter(p, acting[h].at)]
    PROVE  moved = NoValue \/ (moved \in Acts /\ Within(moved))
<1>1. CASE acting[h] = NoValue
    BY <1>1, Zenon
<1>2. CASE acting[h] # NoValue
    <2>1. acting[h].at \in Places
        BY <1>2, ActFits, SMT DEF Acts
    <2>2. Tools!PlaceAfter(p, acting[h].at) \in Places
        BY <2>1, Zenon DEF Tools!PlaceAfter, Tools!Older, Places
    <2> QED BY <1>2, <2>2, ActFits, ActMoved, Zenon
<1> QED BY <1>1, <1>2, Zenon

\* A handler begins, with what fits.
LEMMA ActBegins ==
    ASSUME ActsFit, NEW step \in Steps, NEW p \in Places, NEW r \in Rules,
           NEW chosen \in SUBSET Regions, Cardinality(chosen) <= MaxRegions,
           step = "fetching" => Cardinality(chosen) >= 2,
           Tools!Begins(step, p, r, chosen)
    PROVE  ActsFit'
<1> DEFINE act == [step |-> step, at |-> p, rule |-> r, chosen |-> chosen]
<1>1. PICK k \in Handlers : acting' = [acting EXCEPT ![k] = act]
    BY Zenon DEF Tools!Begins, Tools!Act
<1>2. act \in Acts /\ Within(act)
    BY SMT DEF Acts, Within
<1> HIDE DEF act
<1>3. acting = [h \in Handlers |-> acting[h]]
    BY Zenon DEF ActsFit
<1>4. acting' = [h \in Handlers |-> acting'[h]] /\ acting'[k] = act
    BY <1>1, <1>3, SMT
<1>5. \A h \in Handlers \ {k} : acting'[h] = acting[h]
    BY <1>1, <1>3, SMT
<1> QED BY <1>2, <1>4, <1>5, ActFits, ActsNext, Zenon

\* A handler ends.
LEMMA ActEnds ==
    ASSUME ActsFit, NEW k \in Handlers, acting' = [acting EXCEPT ![k] = NoValue]
    PROVE  ActsFit'
<1>1. acting = [h \in Handlers |-> acting[h]]
    BY Zenon DEF ActsFit
<1>2. acting' = [h \in Handlers |-> acting'[h]] /\ acting'[k] = NoValue
    BY <1>1, SMT
<1>3. \A h \in Handlers \ {k} : acting'[h] = acting[h]
    BY <1>1, SMT
<1> QED BY <1>2, <1>3, ActFits, ActsNext, Zenon

\* The steps of the dialogue's data that change nothing but the messages.
LEMMA OpensMoves ==
    ASSUME ToolsInv, NEW p \in Places, NEW screen, Good(screen, fsm), Tools!Opens(p, screen)
    PROVE  Moved
<1>1. UNCHANGED <<fsm, panel, selected, acting, owned, premium>> /\ Tools!Shows(p, screen)
    BY Zenon DEF Tools!Opens, Tools!KeepsUser
<1>2. ActsFit' /\ SelectionFits'
    BY <1>1, Zenon DEF ToolsInv, ActsFit, SelectionFits
<1> QED BY <1>1, <1>2, ShownGood, Zenon DEF Moved, ToolsInv

LEMMA AlertsMove == ToolsInv /\ Tools!Alerts => Moved
BY Zenon DEF ToolsInv, Tools!Alerts, Moved, ChatFits, ActsFit, SelectionFits

\* The messages that come with the rest of the bot.
LEMMA VisitsMove == ToolsInv /\ Tools!Visits => Moved
<1> SUFFICES ASSUME ToolsInv, Tools!Visits PROVE Moved
    OBVIOUS
<1>1. PICK screen \in {<<"card", r>> : r \in owned} \cup {Tools!PremiumScreen, <<"deals", owned>>} :
        chat' = Tools!Sent(screen)
    BY Zenon DEF Tools!Visits
<1>2. Good(screen, fsm')
    <2>1. CASE \E r \in owned : screen = <<"card", r>>
        BY <2>1, PlainScreen, SMT
    <2>2. CASE screen = Tools!PremiumScreen
        <3>1. screen = <<"active", NoValue>> \/ screen = Tools!Notice("menu:home")
            BY <2>2, Zenon DEF Tools!PremiumScreen
        <3>2. Good(<<"active", NoValue>>, fsm')
            BY PlainScreen, SMT
        <3>3. Good(Tools!Notice("menu:home"), fsm')
            BY NoticeScreen, Zenon
        <3> QED BY <3>1, <3>2, <3>3, Zenon
    <2>3. CASE screen = <<"deals", owned>>
        BY <2>3, PlainScreen, SMT
    <2> QED BY <1>1, <2>1, <2>2, <2>3, Zenon
<1>3. chat' = [new |-> screen, old |-> Tools!Retained(chat.new, chat.old)]
    BY <1>1, Zenon DEF Tools!Sent
<1>4. ChatFits' /\ chat'.new = screen
    BY <1>2, <1>3, SentFits, Zenon DEF Good, ToolsInv
<1>5. ActsFit'
    <2>1. acting' = Tools!OlderActs
        BY Zenon DEF Tools!Visits
    <2>2. acting' = [h \in Handlers |-> acting'[h]]
        BY <2>1, SMT DEF Tools!OlderActs, Tools!ActsAt
    <2> QED BY <2>1, <2>2, OlderFits, ActsNext, Zenon DEF ToolsInv
<1>6. UNCHANGED <<fsm, panel, selected, owned, premium>>
    BY Zenon DEF Tools!Visits, Tools!KeepsUser
<1>7. SelectionFits'
    BY <1>6, Zenon DEF ToolsInv, SelectionFits
<1> QED BY <1>2, <1>4, <1>5, <1>6, <1>7, Zenon DEF Moved, ToolsInv, Good

LEMMA PremiumMoves == ToolsInv /\ Tools!PremiumChanges => Moved
BY Zenon DEF ToolsInv, Tools!PremiumChanges, Moved, ChatFits, ActsFit, SelectionFits

LEMMA NothingSelected == {} \subseteq Regions /\ Cardinality({}) <= MaxRegions
BY ToolsAssumption, FS_EmptySet, SMT

LEMMA LeavesMoves ==
    ASSUME ToolsInv, NEW p \in Places, NEW b, Tools!Leaves(p, b)
    PROVE  Moved
<1>1. fsm' \in {Tools!Idle, Tools!Other} /\ (selected' = {} \/ selected' = selected)
    BY Zenon DEF Tools!Leaves
<1>2. Good(<<"main", NoValue>>, fsm')
    BY PlainScreen, SMT
<1>3. Tools!Shows(p, <<"main", NoValue>>) /\ UNCHANGED <<panel, acting, owned, premium>>
    BY Zenon DEF Tools!Leaves, Tools!KeepsUser
<1>4. ActsFit' /\ SelectionFits'
    BY <1>1, <1>3, NothingSelected, Zenon DEF ToolsInv, ActsFit, SelectionFits
<1>5. fsm' \in Dialogues
    BY <1>1, Zenon DEF Dialogues
<1> QED BY <1>2, <1>3, <1>4, <1>5, ShownGood, Zenon DEF Moved, ToolsInv

LEMMA DeletedMoves ==
    ASSUME ToolsInv, NEW p \in Places, NEW b, Tools!RuleDeleted(p, b)
    PROVE  Moved
<1>1. Good(Tools!Notice("menu:games"), fsm')
    BY NoticeScreen, Zenon
<1>2. /\ Tools!Shows(p, Tools!Notice("menu:games")) /\ owned' = owned \ {b[2]}
      /\ UNCHANGED <<fsm, panel, acting, selected, premium>>
    BY Zenon DEF Tools!RuleDeleted
<1>3. ActsFit' /\ SelectionFits'
    BY <1>2, Zenon DEF ToolsInv, ActsFit, SelectionFits
<1> QED BY <1>1, <1>2, <1>3, ShownGood, Zenon DEF Moved, ToolsInv

LEMMA CardMoves ==
    ASSUME ToolsInv, NEW p \in Places, NEW b, Tools!CardOf(p, b)
    PROVE  Moved
<1>1. Good(<<"card", b[2]>>, fsm)
    BY PlainScreen, SMT
<1> QED BY <1>1, OpensMoves, Zenon DEF Tools!CardOf

LEMMA ToolGamesMove ==
    ASSUME ToolsInv, NEW p \in Places, NEW b, Tools!premium_tool_games(p, b)
    PROVE  Moved
<1>1. Good(Tools!Gate(<<"menu:premium", NoValue>>), fsm)
    <2>1. <<"menu:premium", NoValue>>[1] # "compare_toggle"
        BY SMT
    <2> QED BY <2>1, GateScreen, Zenon
<1>2. Good(<<"premium_compare", owned>>, fsm)
    BY PlainScreen, SMT
<1>3. Good(<<"premium_analytics", owned>>, fsm)
    BY PlainScreen, SMT
<1>4. \/ Tools!Opens(p, Tools!Gate(<<"menu:premium", NoValue>>))
      \/ Tools!Opens(p, <<"premium_compare", owned>>)
      \/ Tools!Opens(p, <<"premium_analytics", owned>>)
    BY Zenon DEF Tools!premium_tool_games
<1> QED BY <1>1, <1>2, <1>3, <1>4, OpensMoves, Zenon

\* A message that is sent in the place of another one, which is deleted.
LEMMA ResentMoves ==
    ASSUME ToolsInv, NEW p \in Places, NEW screen, Good(screen, fsm),
           chat' = Tools!Resent(p, screen), ActsFit',
           UNCHANGED <<fsm, panel, selected, owned, premium>>
    PROVE  Moved
<1>1. ChatFits' /\ chat'.new = screen
    BY ResentFits, Zenon DEF ToolsInv, Good
<1>2. SelectionFits'
    BY Zenon DEF ToolsInv, SelectionFits
<1> QED BY <1>1, <1>2, Zenon DEF Moved, ToolsInv, Good

LEMMA AnalyticsMoves ==
    ASSUME ToolsInv, NEW p \in Places, NEW b, Tools!premium_game_analytics(p, b)
    PROVE  Moved
<1> DEFINE back == IF b[1] = "deals_analytics" THEN <<"deals:return", NoValue>> ELSE <<"watch", b[2]>>
           Screens == {<<"analytics", <<b[2], back>>>>, Tools!Notice("menu:games"), Tools!Gate(back)}
<1>1. \/ Tools!Alerts
      \/ \E screen \in Screens :
           \/ Tools!Opens(p, screen)
           \/ /\ chat' = Tools!Resent(p, screen)
              /\ acting' = [h \in Handlers |->
                   IF acting[h] = NoValue THEN NoValue
                   ELSE [acting[h] EXCEPT !.at = Tools!PlaceAfter(p, acting[h].at)]]
              /\ UNCHANGED <<fsm, panel, selected, owned, premium>>
    BY Zenon DEF Tools!premium_game_analytics, Tools!ActsAt, Tools!KeepsUser
<1>2. back[1] # "compare_toggle"
    BY SMT
<1> HIDE DEF back
<1>3. \A screen \in Screens : Good(screen, fsm)
    BY <1>2, AnalyticsScreen, NoticeScreen, GateScreen, Zenon
<1> HIDE DEF Screens
<1>4. ASSUME NEW screen \in Screens, Tools!Opens(p, screen)
      PROVE  Moved
    BY <1>3, <1>4, OpensMoves, Zenon
<1>5. ASSUME NEW screen \in Screens,
             chat' = Tools!Resent(p, screen),
             acting' = [h \in Handlers |->
                   IF acting[h] = NoValue THEN NoValue
                   ELSE [acting[h] EXCEPT !.at = Tools!PlaceAfter(p, acting[h].at)]],
             UNCHANGED <<fsm, panel, selected, owned, premium>>
      PROVE  Moved
    <2>1. acting' = [h \in Handlers |-> acting'[h]]
        BY <1>5, SMT
    <2>2. \A h \in Handlers :
            acting'[h] = IF acting[h] = NoValue THEN NoValue
                         ELSE [acting[h] EXCEPT !.at = Tools!PlaceAfter(p, acting[h].at)]
        BY <1>5, Zenon
    <2>3. ActsFit'
        BY <2>1, <2>2, AfterFits, ActsNext, Zenon DEF ToolsInv
    <2> QED BY <1>3, <1>5, <2>3, ResentMoves, Zenon
<1> QED BY <1>1, <1>4, <1>5, AlertsMove, Zenon

LEMMA HistoryMoves ==
    ASSUME ToolsInv, NEW p \in Places, NEW b, Tools!premium_price_history(p, b)
    PROVE  Moved
<1>1. CASE Tools!Alerts
    BY <1>1, AlertsMove, Zenon
<1>2. CASE Tools!Opens(p, Tools!Gate(<<"watch", b[2]>>))
    <2>1. <<"watch", b[2]>>[1] # "compare_toggle"
        BY SMT
    <2> QED BY <1>2, <2>1, GateScreen, OpensMoves, Zenon
<1>3. ASSUME NEW step \in {"drawing", "redrawing"}, b[2] \in owned,
             Tools!Begins(step, p, b[2], {}), Tools!Shows(p, <<"loading", NoValue>>),
             UNCHANGED <<fsm, panel, selected, owned, premium>>
      PROVE  Moved
    <2>1. Good(<<"loading", NoValue>>, fsm')
        BY PlainScreen, SMT
    <2>2. step \in Steps /\ step # "fetching"
        BY <1>3, SMT DEF Steps
    <2>3. b[2] \in Rules
        BY <1>3, Zenon DEF ToolsInv
    <2>4. ActsFit'
        BY <1>3, <2>2, <2>3, NothingSelected, ActBegins, Zenon DEF ToolsInv
    <2>5. SelectionFits'
        BY <1>3, Zenon DEF ToolsInv, SelectionFits
    <2> QED BY <1>3, <2>1, <2>4, <2>5, ShownGood, Zenon DEF Moved, ToolsInv
<1> QED BY <1>1, <1>2, <1>3, Zenon DEF Tools!premium_price_history, Tools!KeepsUser

LEMMA ChartMoves ==
    ASSUME ToolsInv, NEW h \in Handlers, Tools!ChartShown(h)
    PROVE  Moved
<1> DEFINE at == acting[h].at
           rule == acting[h].rule
           after == [k \in Handlers |-> IF acting[k] = NoValue THEN NoValue
                       ELSE [acting[k] EXCEPT !.at = Tools!PlaceAfter(at, acting[k].at)]]
<1>1. acting[h] \in Acts
    BY ActFits, Zenon DEF ToolsInv, Tools!ChartShown
<1>2. at \in Places
    BY <1>1, SMT DEF Acts
<1>3. UNCHANGED <<fsm, panel, selected, owned, premium>> /\ SelectionFits'
    BY Zenon DEF Tools!ChartShown, Tools!KeepsUser, ToolsInv, SelectionFits
<1>4. PICK name \in {"chart", "no_chart"} :
        \/ /\ Tools!Shows(at, <<name, rule>>)
           /\ acting' = [acting EXCEPT ![h] = NoValue]
        \/ /\ chat' = Tools!Sent(<<name, rule>>)
           /\ acting' = [Tools!OlderActs EXCEPT ![h] = NoValue]
        \/ /\ chat' = Tools!Resent(at, <<name, rule>>)
           /\ acting' = [after EXCEPT ![h] = NoValue]
    BY Zenon DEF Tools!ChartShown, Tools!ActsAt
<1> HIDE DEF after, at, rule
<1>5. Good(<<name, rule>>, fsm')
    BY <1>4, PlainScreen, SMT
<1>6. CASE Tools!Shows(at, <<name, rule>>) /\ acting' = [acting EXCEPT ![h] = NoValue]
    <2>1. ActsFit'
        BY <1>6, ActEnds, Zenon DEF ToolsInv
    <2> QED BY <1>2, <1>3, <1>5, <1>6, <2>1, ShownGood, Zenon DEF Moved, ToolsInv
<1>7. CASE /\ chat' = Tools!Sent(<<name, rule>>)
           /\ acting' = [Tools!OlderActs EXCEPT ![h] = NoValue]
    <2>1. Tools!OlderActs = [k \in Handlers |-> Tools!OlderActs[k]]
        BY Zenon DEF Tools!OlderActs, Tools!ActsAt
    <2>2. /\ acting' = [k \in Handlers |-> acting'[k]] /\ acting'[h] = NoValue
          /\ \A k \in Handlers \ {h} : acting'[k] = Tools!OlderActs[k]
        BY <1>7, <2>1, SMT
    <2>3. ActsFit'
        BY <2>2, OlderFits, ActsNext, Zenon DEF ToolsInv
    <2>4. chat' = [new |-> <<name, rule>>, old |-> Tools!Retained(chat.new, chat.old)]
        BY <1>7, Zenon DEF Tools!Sent
    <2>5. ChatFits' /\ chat'.new = <<name, rule>>
        BY <1>5, <2>4, SentFits, Zenon DEF Good, ToolsInv
    <2> QED BY <1>3, <1>5, <2>3, <2>5, Zenon DEF Moved, ToolsInv, Good
<1>8. CASE /\ chat' = Tools!Resent(at, <<name, rule>>)
           /\ acting' = [after EXCEPT ![h] = NoValue]
    <2>1. after = [k \in Handlers |-> after[k]]
        BY Zenon DEF after
    <2>2. /\ acting' = [k \in Handlers |-> acting'[k]] /\ acting'[h] = NoValue
          /\ \A k \in Handlers \ {h} : acting'[k] = after[k]
        BY <1>8, <2>1, SMT
    <2>3. \A k \in Handlers :
            after[k] = IF acting[k] = NoValue THEN NoValue
                       ELSE [acting[k] EXCEPT !.at = Tools!PlaceAfter(at, acting[k].at)]
        BY Zenon DEF after
    <2>6. ActsFit
        BY Zenon DEF ToolsInv
    <2>7. \A k \in Handlers : after[k] = NoValue \/ (after[k] \in Acts /\ Within(after[k]))
        BY <1>2, <2>3, <2>6, AfterFits, Zenon
    <2>4. ActsFit'
        BY <2>2, <2>7, ActsNext, Zenon
    <2>5. Good(<<name, rule>>, fsm)
        BY <1>3, <1>5, Zenon
    <2> QED BY <1>2, <1>3, <1>8, <2>4, <2>5, ResentMoves, Zenon
<1> QED BY <1>4, <1>6, <1>7, <1>8, Zenon

\* The steps of a comparison.
LEMMA StartMoves ==
    ASSUME ToolsInv, NEW p \in Places, NEW b, Tools!premium_region_compare_start(p, b)
    PROVE  Moved
<1>1. CASE Tools!Alerts
    BY <1>1, AlertsMove, Zenon
<1>2. CASE Tools!Opens(p, Tools!Gate(<<"watch", b[2]>>))
    <2>1. <<"watch", b[2]>>[1] # "compare_toggle"
        BY SMT
    <2> QED BY <1>2, <2>1, GateScreen, OpensMoves, Zenon
<1>3. CASE b[2] \in owned /\ Tools!ComparisonBegins(p, b[2])
    <2>1. /\ fsm' = Tools!Selecting(b[2]) /\ selected' = {}
          /\ Tools!Shows(p, <<"groups", b[2]>>) /\ UNCHANGED <<panel, acting, owned, premium>>
        BY <1>3, Zenon DEF Tools!ComparisonBegins, Tools!KeepsUser
    <2>2. fsm' \in Dialogues
        BY <1>3, <2>1, Zenon DEF ToolsInv, Dialogues
    <2>3. Good(<<"groups", b[2]>>, fsm')
        BY <2>1, ChoiceScreen, Zenon
    <2>4. ActsFit' /\ SelectionFits'
        BY <2>1, NothingSelected, Zenon DEF ToolsInv, ActsFit, SelectionFits
    <2> QED BY <2>1, <2>2, <2>3, <2>4, ShownGood, Zenon DEF Moved, ToolsInv
<1> QED BY <1>1, <1>2, <1>3, Zenon DEF Tools!premium_region_compare_start

LEMMA ScreensMove ==
    ASSUME ToolsInv, NEW p \in Places, NEW b,
           Tools!compare_group(p, b) \/ Tools!compare_screens(p, b)
    PROVE  Moved
<1>1. Good(<<"regions", <<fsm.item, selected>>>>, fsm)
    BY PlainScreen, SMT
<1>2. fsm = Tools!Selecting(fsm.item)
    BY ComparingIs, Zenon DEF ToolsInv, Tools!compare_group, Tools!compare_screens
<1>3. Good(<<"groups", fsm.item>>, fsm) /\ Good(<<"currencies", fsm.item>>, fsm)
    BY <1>2, ChoiceScreen, Zenon
<1> QED BY <1>1, <1>3, OpensMoves, Zenon DEF Tools!compare_group, Tools!compare_screens

LEMMA ClearMoves ==
    ASSUME ToolsInv, NEW p \in Places, NEW b, Tools!compare_clear(p, b)
    PROVE  Moved
<1>1. fsm = Tools!Selecting(fsm.item)
    BY ComparingIs, Zenon DEF ToolsInv, Tools!compare_clear
<1>2. /\ UNCHANGED <<fsm, panel, acting, owned, premium>> /\ selected' = {}
      /\ Tools!Shows(p, <<"groups", fsm.item>>)
    BY Zenon DEF Tools!compare_clear, Tools!KeepsUser
<1>3. Good(<<"groups", fsm.item>>, fsm)
    BY <1>1, ChoiceScreen, Zenon
<1>4. Good(<<"groups", fsm.item>>, fsm')
    BY <1>2, <1>3, Zenon
<1>5. ActsFit' /\ SelectionFits'
    BY <1>2, NothingSelected, Zenon DEF ToolsInv, ActsFit, SelectionFits
<1> QED BY <1>2, <1>4, <1>5, ShownGood, Zenon DEF Moved, ToolsInv

\* A handler that has read the regions, and not written them.
LEMMA ReadMoves ==
    ASSUME ToolsInv, NEW p \in Places, NEW r \in Rules, NEW chosen \in SUBSET Regions,
           Cardinality(chosen) <= MaxRegions, Tools!Begins("read", p, r, chosen),
           UNCHANGED <<fsm, panel, chat, selected, owned, premium>>
    PROVE  Moved
<1>1. "read" \in Steps /\ "read" # "fetching"
    BY SMT DEF Steps
<1>2. ActsFit'
    BY <1>1, ActBegins, Zenon DEF ToolsInv
<1> QED BY <1>2, Zenon DEF Moved, ToolsInv, ChatFits, SelectionFits

LEMMA ToggleMoves ==
    ASSUME ToolsInv, NEW p \in {"new", "old"}, NEW b \in Tools!Buttons(p), Tools!compare_toggle(p, b)
    PROVE  Moved
<1>1. /\ UNCHANGED <<fsm, panel, chat, selected, owned, premium>>
      /\ Tools!Comparing /\ b[1] = "compare_toggle"
    BY Zenon DEF Tools!compare_toggle, Tools!KeepsUser
<1>2. p \in Places /\ fsm.item \in Rules
    BY <1>1, ComparingIs, Zenon DEF Places, ToolsInv
<1>3. chat[p] # NoValue /\ b \in Tools!Keyboard(chat[p])
    BY Zenon DEF Tools!Buttons
<1>4. Fits(chat[p])
    <2>1. chat["new"] = chat.new /\ chat["old"] = chat.old
        BY SMT
    <2> QED BY <2>1, Zenon DEF ToolsInv, ChatFits
<1>5. b[2] \in Regions
    BY <1>1, <1>3, <1>4, TogglesAreRegions, Zenon
<1>6. IsFiniteSet(selected) /\ Cardinality(selected) \in Nat /\ MaxRegions \in Nat
    BY FS_Subset, FS_CardinalityType, ToolsAssumption, Zenon DEF ToolsInv, SelectionFits
<1>7. CASE Tools!Begins("read", p, fsm.item, selected \ {b[2]})
    <2>1. Cardinality(selected \ {b[2]}) <= MaxRegions
        <3>1. /\ IsFiniteSet(selected \ {b[2]})
              /\ Cardinality(selected \ {b[2]}) <= Cardinality(selected)
            BY <1>6, FS_Subset, SMT
        <3>2. Cardinality(selected \ {b[2]}) \in Nat
            BY <3>1, FS_CardinalityType, Zenon
        <3> QED BY <1>6, <3>1, <3>2, SMT DEF ToolsInv, SelectionFits
    <2>2. selected \ {b[2]} \in SUBSET Regions
        BY Zenon DEF ToolsInv, SelectionFits
    <2> QED BY <1>1, <1>2, <1>7, <2>1, <2>2, ReadMoves, Zenon
<1>8. CASE UNCHANGED acting
    BY <1>1, <1>8, Zenon DEF Moved, ToolsInv, ChatFits, SelectionFits, ActsFit
<1>9. CASE /\ b[2] \notin selected /\ Cardinality(selected) < MaxRegions
           /\ Tools!Begins("read", p, fsm.item, selected \cup {b[2]})
    <2>1. Cardinality(selected \cup {b[2]}) = Cardinality(selected) + 1
        BY <1>6, <1>9, FS_AddElement, Zenon
    <2>2. Cardinality(selected \cup {b[2]}) <= MaxRegions
        BY <1>6, <1>9, <2>1, SMT
    <2>3. selected \cup {b[2]} \in SUBSET Regions
        BY <1>5, Zenon DEF ToolsInv, SelectionFits
    <2> DEFINE more == selected \cup {b[2]}
    <2>4. Cardinality(more) <= MaxRegions /\ more \in SUBSET Regions
        BY <2>2, <2>3, Zenon
    <2>5. Tools!Begins("read", p, fsm.item, more)
        BY <1>9, Zenon
    <2>6. UNCHANGED <<fsm, panel, chat, selected, owned, premium>>
        BY <1>1, Zenon
    <2> HIDE DEF more
    <2> QED BY <1>2, <2>4, <2>5, <2>6, ReadMoves, SMT
<1>10. Tools!Cardinality(selected) = Cardinality(selected)
    BY SameCardinality, Zenon
<1> QED BY <1>7, <1>8, <1>9, <1>10, Zenon DEF Tools!compare_toggle

LEMMA GroupMoves ==
    ASSUME ToolsInv, NEW p \in Places, NEW b, Tools!compare_select_group(p, b)
    PROVE  Moved
<1>1. PICK chosen \in Tools!WholeGroup : Tools!Begins("read", p, fsm.item, chosen)
    BY Zenon DEF Tools!compare_select_group
<1>2. UNCHANGED <<fsm, panel, chat, selected, owned, premium>> /\ fsm.item \in Rules
    BY ComparingIs, Zenon DEF Tools!compare_select_group, Tools!KeepsUser, ToolsInv
<1>3. chosen \in SUBSET Regions /\ Cardinality(chosen) <= MaxRegions
    <2>1. chosen = {} \/ (chosen \in SUBSET Regions /\ Tools!Cardinality(chosen) <= MaxRegions)
        BY <1>1, Zenon DEF Tools!WholeGroup
    <2> QED BY <2>1, NothingSelected, SameCardinality, Zenon
<1> QED BY <1>1, <1>2, <1>3, ReadMoves, Zenon

LEMMA WriteMoves ==
    ASSUME ToolsInv, NEW h \in Handlers, Tools!Writes(h)
    PROVE  Moved
<1>1. /\ acting[h] # NoValue /\ selected' = acting[h].chosen
      /\ acting' = [acting EXCEPT ![h].step = "written"]
      /\ UNCHANGED <<fsm, panel, chat, owned, premium>>
    BY Zenon DEF Tools!Writes, Tools!KeepsUser
<1>2. acting[h] \in Acts /\ Within(acting[h])
    BY <1>1, ActFits, Zenon DEF ToolsInv
<1>3. acting[h].chosen \in SUBSET Regions /\ Cardinality(acting[h].chosen) <= MaxRegions
    BY <1>2, SMT DEF Acts, Within
<1> DEFINE act == [acting[h] EXCEPT !.step = "written"]
<1>4. act = [step |-> "written", at |-> acting[h].at, rule |-> acting[h].rule,
             chosen |-> acting[h].chosen]
    BY <1>2, SMT DEF Acts
<1>5. act \in Acts /\ Within(act)
    <2>1. act \in Acts
        BY <1>2, <1>4, SMT DEF Acts, Steps
    <2>2. act.chosen = acting[h].chosen /\ act.step # "fetching"
        BY <1>4, SMT
    <2> QED BY <1>3, <2>1, <2>2, Zenon DEF Within
<1>6. acting' = [acting EXCEPT ![h] = act]
    BY <1>1, Zenon
<1> HIDE DEF act
<1>7. acting = [k \in Handlers |-> acting[k]]
    BY Zenon DEF ToolsInv, ActsFit
<1>8. /\ acting' = [k \in Handlers |-> acting'[k]] /\ acting'[h] = act
      /\ \A k \in Handlers \ {h} : acting'[k] = acting[k]
    BY <1>6, <1>7, SMT
<1>9. ActsFit'
    BY <1>5, <1>8, ActFits, ActsNext, Zenon DEF ToolsInv
<1> QED BY <1>1, <1>3, <1>9, Zenon DEF Moved, ToolsInv, ChatFits, SelectionFits

\* A handler ends, and shows a screen where its message is by now.
LEMMA EndMoves ==
    ASSUME ToolsInv, NEW h \in Handlers, acting[h] # NoValue, NEW screen, Good(screen, fsm),
           Tools!Shows(acting[h].at, screen), acting' = [acting EXCEPT ![h] = NoValue],
           UNCHANGED <<fsm, panel, selected, owned, premium>>
    PROVE  Moved
<1>1. acting[h].at \in Places
    <2>1. acting[h] \in Acts
        BY ActFits, Zenon DEF ToolsInv
    <2> QED BY <2>1, SMT DEF Acts
<1>2. ActsFit' /\ SelectionFits'
    BY ActEnds, Zenon DEF ToolsInv, SelectionFits
<1>3. Good(screen, fsm')
    BY Zenon
<1> QED BY <1>1, <1>2, <1>3, ShownGood, Zenon DEF Moved, ToolsInv

LEMMA MarkMoves ==
    ASSUME ToolsInv, NEW h \in Handlers, Tools!Marks(h)
    PROVE  Moved
<1>1. Good(<<"regions", <<acting[h].rule, acting[h].chosen>>>>, fsm)
    BY PlainScreen, SMT
<1> QED BY <1>1, EndMoves, Zenon DEF Tools!Marks, Tools!KeepsUser

LEMMA ResultMoves ==
    ASSUME ToolsInv, NEW h \in Handlers, Tools!ResultShown(h)
    PROVE  Moved
<1>1. Good(<<"comparison", <<acting[h].rule, acting[h].chosen>>>>, fsm)
    BY PlainScreen, SMT
<1>2. Good(Tools!Notice("menu:premium"), fsm)
    BY NoticeScreen, Zenon
<1> QED BY <1>1, <1>2, EndMoves, Zenon DEF Tools!ResultShown, Tools!KeepsUser

LEMMA FetchMoves ==
    ASSUME ToolsInv, NEW p \in Places, NEW b, Tools!premium_region_compare_result(p, b)
    PROVE  Moved
<1>1. CASE Tools!Alerts
    BY <1>1, AlertsMove, Zenon
<1>2. CASE /\ Tools!ResultAllowed /\ Tools!Begins("fetching", p, fsm.item, selected)
           /\ Tools!Shows(p, <<"fetching", NoValue>>)
           /\ UNCHANGED <<fsm, panel, selected, owned, premium>>
    <2>1. Tools!Comparing
        BY Zenon DEF Tools!premium_region_compare_result
    <2>2. fsm.item \in Rules /\ fsm.state = "RegionCompare.selecting"
        BY <2>1, ComparingIs, Zenon DEF ToolsInv, Tools!Comparing
    <2>3. Good(<<"fetching", NoValue>>, fsm)
        BY <2>2, FetchingScreen, Zenon
    <2>4. Good(<<"fetching", NoValue>>, fsm')
        BY <1>2, <2>3, Zenon
    <2>5. Cardinality(selected) >= 2
        BY <1>2, SameCardinality, Zenon DEF Tools!ResultAllowed
    <2>6. "fetching" \in Steps
        BY SMT DEF Steps
    <2>7. ActsFit'
        BY <1>2, <2>2, <2>5, <2>6, ActBegins, Zenon DEF ToolsInv, SelectionFits
    <2>8. SelectionFits'
        BY <1>2, Zenon DEF ToolsInv, SelectionFits
    <2> QED BY <1>2, <2>4, <2>7, <2>8, ShownGood, Zenon DEF Moved, ToolsInv
<1> QED BY <1>1, <1>2, Zenon DEF Tools!premium_region_compare_result, Tools!KeepsUser

LEMMA PressMoves ==
    ASSUME ToolsInv, NEW p \in {"new", "old"}, NEW b \in Tools!Buttons(p), Tools!Press(p, b)
    PROVE  Moved
<1>1. p \in Places
    BY Zenon DEF Places
<1>2. Tools!expired_compare_callback(p, b) => Moved
    BY AlertsMove, Zenon DEF Tools!expired_compare_callback
<1> QED BY <1>1, <1>2, LeavesMoves, DeletedMoves, CardMoves, ToolGamesMove, AnalyticsMoves,
           HistoryMoves, StartMoves, ScreensMove, ToggleMoves, GroupMoves, ClearMoves, FetchMoves,
           Zenon DEF Tools!Press

LEMMA ToolsStep == ToolsInv /\ Tools!Next => ToolsInv'
<1> SUFFICES ASSUME ToolsInv, Tools!Next PROVE ToolsInv'
    OBVIOUS
<1>1. Moved
    BY VisitsMove, PremiumMoves, PressMoves, ChartMoves, WriteMoves, MarkMoves, ResultMoves,
       Zenon DEF Tools!Next
<1>2. (~crossed => Alive(chat.new, fsm))' /\ crossed' \in BOOLEAN
    BY <1>1, AliveNext, Zenon DEF ToolsInv, Moved, Tools!Next
<1> QED BY <1>1, <1>2, Zenon DEF ToolsInv, Moved

LEMMA ToolsStutter == ToolsInv /\ UNCHANGED OfTools => ToolsInv'
<1> SUFFICES ASSUME ToolsInv, UNCHANGED OfTools PROVE ToolsInv'
    OBVIOUS
<1>1. /\ fsm' = fsm /\ panel' = panel /\ chat' = chat /\ crossed' = crossed
      /\ selected' = selected /\ owned' = owned /\ premium' = premium /\ acting' = acting
    BY SMT DEF OfTools
<1>2. ChatFits' /\ ActsFit' /\ SelectionFits'
    BY <1>1, Zenon DEF ToolsInv, ChatFits, ActsFit, SelectionFits
<1> QED BY <1>1, <1>2, Zenon DEF ToolsInv

LEMMA ToolsBegin == Tools!Init => ToolsInv
<1> SUFFICES ASSUME Tools!Init PROVE ToolsInv
    OBVIOUS
<1>1. /\ fsm = Tools!Idle /\ panel = NoValue /\ crossed = FALSE /\ selected = {} /\ owned = Rules
      /\ chat = [new |-> <<"main", NoValue>>, old |-> NoValue] /\ premium \in BOOLEAN
      /\ acting = [h \in Handlers |-> NoValue]
    BY Zenon DEF Tools!Init, Tools!DialogInit
<1>2. Good(<<"main", NoValue>>, fsm)
    BY PlainScreen, SMT
<1>3. chat.new = <<"main", NoValue>> /\ chat.old = NoValue
    BY <1>1, SMT
<1>4. chat = [new |-> chat.new, old |-> chat.old]
    BY <1>1, <1>3, Zenon
<1>5. ChatFits
    BY <1>2, <1>3, <1>4, NothingFits, Zenon DEF ChatFits, Good
<1>6. ActsFit
    BY <1>1, SMT DEF ActsFit
<1>7. SelectionFits
    BY <1>1, NothingSelected, Zenon DEF SelectionFits
<1> QED BY <1>1, <1>2, <1>3, <1>5, <1>6, <1>7, Zenon DEF ToolsInv, Good, Dialogues

\* What the invariant says of the properties that the runs check.
LEMMA ToolsTell == ToolsInv => Tools!RegionsWithinLimit /\ Tools!TypeOK /\ Tools!ButtonsAreAlive
<1> SUFFICES ASSUME ToolsInv
             PROVE  Tools!RegionsWithinLimit /\ Tools!TypeOK /\ Tools!ButtonsAreAlive
    OBVIOUS
<1>1. \A h \in Handlers : acting[h] # NoValue =>
        /\ acting[h].step \in Steps /\ acting[h].at \in Places /\ acting[h].chosen \subseteq Regions
        /\ Within(acting[h])
    <2> SUFFICES ASSUME NEW h \in Handlers, acting[h] # NoValue
                 PROVE  /\ acting[h].step \in Steps /\ acting[h].at \in Places
                        /\ acting[h].chosen \subseteq Regions /\ Within(acting[h])
        OBVIOUS
    <2>1. acting[h] \in Acts /\ Within(acting[h])
        BY ActFits, Zenon DEF ToolsInv
    <2> QED BY <2>1, SMT DEF Acts
<1>2. Tools!RegionsWithinLimit
    BY <1>1, SameCardinality, Zenon DEF Tools!RegionsWithinLimit, Within, ToolsInv, SelectionFits
<1>3. DOMAIN chat = {"new", "old"}
    BY SMT DEF ToolsInv, ChatFits
<1>4. Tools!TypeOK
    BY <1>1, <1>3, Zenon DEF Tools!TypeOK, ToolsInv, Dialogues, ChatFits, Older, SelectionFits,
                             Steps, Places
<1>5. Tools!ButtonsAreAlive
    BY Zenon DEF Tools!ButtonsAreAlive, Tools!Comparing, ToolsInv, Alive
<1> QED BY <1>2, <1>4, <1>5, Zenon

LEMMA ToolsHold == BothSpec => [](part = "tools" => ToolsInv)
<1> DEFINE Inv == part = "tools" => ToolsInv
<1>1. BothInit => Inv
    <2>1. "ledger" # "tools"
        BY SMT
    <2> QED BY <2>1, ToolsBegin, Zenon DEF BothInit
<1>2. Inv /\ [BothNext]_<<part, vars, OfTools>> => Inv'
    BY ToolsStep, ToolsStutter, Zenon DEF BothNext
<1> QED BY <1>1, <1>2, PTL DEF BothSpec

\* However many handlers of the comparison interleave, for any regions and any
\* limit: no more regions are selected, or fetched, than the limit allows, and
\* none are compared with less than another one.  (compare_toggle,
\* compare_select_group, premium_region_compare_result)
THEOREM RegionsHold == BothSpec => []RegionsWithinLimit
<1>1. (part = "tools" => ToolsInv) => RegionsWithinLimit
    BY ToolsTell, Zenon DEF RegionsWithinLimit
<1> QED BY <1>1, ToolsHold, PTL

\* The buttons of a comparison that is the newest message work, and on the rule
\* that it shows; and the dialogue has no state that the types do not name.
THEOREM ToolsWorkHolds == BothSpec => []ToolsWork
<1>1. (part = "tools" => ToolsInv) => ToolsWork
    BY ToolsTell, Zenon DEF ToolsWork
<1> QED BY <1>1, ToolsHold, PTL
=============================================================================
