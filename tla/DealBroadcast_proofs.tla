------------------------ MODULE DealBroadcast_proofs ------------------------
(***************************************************************************)
(* For any number of runs, users, pages and faults: the types hold, and a  *)
(* run that is being worked off is locked, running and the only one.       *)
(* Then its pages: what a run's rows say was sent did arrive, a page is    *)
(* sent and recorded as Delivery says, a completed run left no one out,    *)
(* and its report adds up.                                                 *)
(***************************************************************************)
EXTENDS DealBroadcast, FiniteSetTheorems, TLAPS

Working(r) == task[r].at \notin {"none", "wait"}

\* Pages are sent to somebody, and one is recorded only if there was one to send.
PagesLeft ==
    \A r \in Runs :
        /\ task[r].at \in {"send", "record"} => task[r].user \in Users
        /\ task[r].at = "record" => task[r].page < task[r].pages

\* TaskOwnsRun is not inductive: a task that waits must be the only one, too,
\* which the partial unique index sees to, and must belong to an active run.
Exclusive ==
    /\ \A r \in Runs : task[r].at # "none" => Active(r)
    /\ \A r \in Runs, s \in Runs : Active(r) /\ Active(s) => r = s
    /\ \A r \in Runs : Working(r) => r \in locked /\ runs[r].status = "running"

IInv == TypeOK /\ PagesLeft /\ Exclusive

-----------------------------------------------------------------------------
(* Lemmas about the constructors.                                          *)

LEMMA IdleTask == \A place \in Places : Idle(place) \in Task
BY UsersAssumption, BoundsAssumption, SMT DEF Idle, Task, Outcomes

LEMMA BatchTask ==
    \A last \in Nat, todo \in SUBSET Users : InBatch(last, todo) \in Task
BY BoundsAssumption, SMT DEF InBatch, Task, Places, Outcomes

LEMMA SendingTask ==
    ASSUME NEW t \in Task, NEW u \in Users, NEW page \in 0..MaxPages, NEW pages \in 0..MaxPages
    PROVE  Sending(t, u, page, pages) \in Task
BY SMT DEF Sending, Task, Places, Outcomes

LEMMA RecordingTask ==
    ASSUME NEW t \in Task, NEW outcome \in Outcomes
    PROVE  Recording(t, outcome) \in Task
BY SMT DEF Recording, Task, Places

LEMMA CountedRun ==
    ASSUME NEW run \in RunRow, NEW counters
    PROVE  Counted(run, counters) \in RunRow /\ Counted(run, counters).status = run.status
BY SMT DEF Counted, RunRow

LEMMA MadeRow ==
    ASSUME NEW status \in UserStatus, NEW pages \in 0..MaxPages, NEW count \in 0..MaxPages
    PROVE  Row(status, pages, count) \in RecipientRow
BY SMT DEF Row, RecipientRow

-----------------------------------------------------------------------------
(* Type correctness.                                                       *)

\* A step of a task leaves processes, people and histories alone.
LEMMA TypeStep ==
    ASSUME TypeOK, UNCHANGED <<process, people, entitled, history>>,
           runs' \in [Runs -> RunRow \cup {NoValue}],
           recipient' \in [Runs -> [Users -> RecipientRow \cup {NoValue}]],
           task' \in [Runs -> Task], locked' \subseteq Runs
    PROVE  TypeOK'
BY Zenon DEF TypeOK, process, people, history

\* Goto and EndTask.
LEMMA TypeGoto ==
    ASSUME TypeOK, NEW r \in Runs, NEW place \in Places, Goto(r, place) \/ EndTask(r)
    PROVE  task' \in [Runs -> Task]
<1>1. task \in [Runs -> Task]
    BY DEF TypeOK
<1>2. CASE Goto(r, place)
    BY <1>1, <1>2, SMT DEF Goto, Task
<1>3. CASE EndTask(r)
    <2>1. NoTask \in Task
        BY IdleTask DEF NoTask, Places
    <2> QED BY <1>1, <1>3, <2>1 DEF EndTask
<1> QED BY <1>2, <1>3

\* Leave.
LEMMA TypeLeave ==
    ASSUME TypeOK, NEW r \in Runs, NEW u, Leave(r, u)
    PROVE  task' \in [Runs -> Task]
<1>1. task \in [Runs -> Task] /\ task[r] \in Task
    BY DEF TypeOK
<1>2. task[r].last \in Nat /\ task[r].todo \ {u} \in SUBSET Users
    BY <1>1, SMT DEF Task
<1>3. InBatch(task[r].last, task[r].todo \ {u}) \in Task
    BY <1>2, BatchTask
<1> QED BY <1>1, <1>3 DEF Leave

\* Count and Record.
LEMMA TypeRows ==
    ASSUME TypeOK, NEW r \in Runs, runs[r] # NoValue
    PROVE  /\ \A counters : Count(r, counters) => runs' \in [Runs -> RunRow \cup {NoValue}]
           /\ \A u \in Users, row \in RecipientRow : Record(r, u, row) =>
                 recipient' \in [Runs -> [Users -> RecipientRow \cup {NoValue}]]
<1>1. /\ runs \in [Runs -> RunRow \cup {NoValue}] /\ runs[r] \in RunRow
      /\ recipient \in [Runs -> [Users -> RecipientRow \cup {NoValue}]]
    BY DEF TypeOK
<1>2. ASSUME NEW counters, Count(r, counters)
      PROVE  runs' \in [Runs -> RunRow \cup {NoValue}]
    <2>1. Counted(runs[r], counters) \in RunRow
        BY <1>1, CountedRun
    <2> QED BY <1>1, <1>2, <2>1 DEF Count
<1>3. ASSUME NEW u \in Users, NEW row \in RecipientRow, Record(r, u, row)
      PROVE  recipient' \in [Runs -> [Users -> RecipientRow \cup {NoValue}]]
    <2>1. [recipient[r] EXCEPT ![u] = row] \in [Users -> RecipientRow \cup {NoValue}]
        BY <1>1
    <2> QED BY <1>1, <1>3, <2>1 DEF Record
<1> QED BY <1>2, <1>3

\* Tasks that work belong to runs that exist.
LEMMA WorkingRun ==
    ASSUME Exclusive, NEW r \in Runs, task[r].at # "none"
    PROVE  runs[r] # NoValue
BY DEF Exclusive, Active

LEMMA TypeInit == Init => TypeOK
<1> SUFFICES ASSUME Init PROVE TypeOK
    OBVIOUS
<1>1. task \in [Runs -> Task]
    <2>1. NoTask \in Task
        BY IdleTask DEF NoTask, Places
    <2> QED BY <2>1 DEF Init
<1> QED BY <1>1, BoundsAssumption, SMT DEF Init, TypeOK

\* Where a run begins, begins again and ends.
LEMMA TypeRunSteps ==
    ASSUME TypeOK, Exclusive, NEW r \in Runs,
           CreateRun(r) \/ Start(r) \/ Finish(r) \/ Fail(r)
    PROVE  TypeOK'
<1>1. /\ runs \in [Runs -> RunRow \cup {NoValue}] /\ task \in [Runs -> Task]
      /\ recipient \in [Runs -> [Users -> RecipientRow \cup {NoValue}]]
      /\ locked \subseteq Runs /\ entitled \in [Runs -> SUBSET Users] /\ watching \subseteq Users
    BY Zenon DEF TypeOK
<1>2. NewTask \in Task /\ NoTask \in Task
    BY IdleTask DEF NewTask, NoTask, Places
<1>3. NewRun \in RunRow
    BY SMT DEF NewRun, RunRow, RunStatus
<1>4. CASE CreateRun(r)
    <2>1. runs' \in [Runs -> RunRow \cup {NoValue}] /\ task' \in [Runs -> Task]
        BY <1>1, <1>2, <1>3, <1>4 DEF CreateRun
    <2>2. entitled' \in [Runs -> SUBSET Users]
        BY <1>1, <1>4 DEF CreateRun
    <2> QED BY <1>4, <2>1, <2>2, Zenon DEF CreateRun, TypeOK, process, people, history
<1>5. ASSUME NEW status \in RunStatus, runs[r] # NoValue,
             runs' = [runs EXCEPT ![r].status = status]
      PROVE  runs' \in [Runs -> RunRow \cup {NoValue}]
    <2>1. runs[r] \in RunRow
        BY <1>1, <1>5
    <2>2. [runs[r] EXCEPT !.status = status] \in RunRow
        BY <2>1, SMT DEF RunRow
    <2> QED BY <1>1, <1>5, <2>2
<1>6. CASE Start(r)
    <2>1. runs[r] # NoValue
        BY <1>6, WorkingRun DEF Start
    <2>2. runs' \in [Runs -> RunRow \cup {NoValue}] /\ locked' \subseteq Runs
        BY <1>1, <1>5, <1>6, <2>1, Zenon DEF Start, RunStatus
    <2>3. task' \in [Runs -> Task]
        BY <1>6, TypeGoto DEF Start, Places
    <2> QED BY <1>1, <1>6, <2>2, <2>3, TypeStep, Zenon DEF Start
<1>7. CASE Finish(r) \/ Fail(r)
    <2>1. runs[r] # NoValue
        BY <1>7, WorkingRun DEF Finish, Fail
    <2>2. PICK status \in RunStatus : runs' = [runs EXCEPT ![r].status = status]
        BY <1>7, Zenon DEF Finish, Fail, RunStatus
    <2>3. runs' \in [Runs -> RunRow \cup {NoValue}]
        BY <1>5, <2>1, <2>2
    <2>4. task' \in [Runs -> Task]
        BY <1>7, TypeGoto DEF Finish, Fail, Places
    <2> QED BY <1>1, <1>7, <2>3, <2>4, TypeStep, Zenon DEF Finish, Fail
<1> QED BY <1>4, <1>6, <1>7

\* The loop over the users.
LEMMA TypeLoop ==
    ASSUME TypeOK, Exclusive, NEW r \in Runs,
           NextBatch(r) \/ BatchDone(r) \/ \E u \in task[r].todo : SkipUser(r, u)
    PROVE  TypeOK'
<1>1. /\ runs \in [Runs -> RunRow \cup {NoValue}] /\ task \in [Runs -> Task]
      /\ recipient \in [Runs -> [Users -> RecipientRow \cup {NoValue}]]
      /\ locked \subseteq Runs /\ watching \subseteq Users
    BY Zenon DEF TypeOK
<1>2. ASSUME task' \in [Runs -> Task], UNCHANGED <<rows, locked, process, people, entitled, history>>
      PROVE  TypeOK'
    BY <1>1, <1>2, TypeStep, Zenon DEF rows
<1>3. CASE NextBatch(r)
    <2>1. PICK batch \in SUBSET watching : \E last \in batch :
             task' = [task EXCEPT ![r] = InBatch(last, batch)]
        BY <1>3, Zenon DEF NextBatch
    <2>4. PICK last \in batch : task' = [task EXCEPT ![r] = InBatch(last, batch)]
        BY <2>1
    <2>2. InBatch(last, batch) \in Task
        BY <1>1, UsersAssumption, BatchTask
    <2>3. task' \in [Runs -> Task]
        BY <1>1, <2>2, <2>4
    <2> QED BY <1>2, <1>3, <2>3, Zenon DEF NextBatch
<1>4. CASE BatchDone(r)
    <2>1. task' \in [Runs -> Task]
        BY <1>4, TypeGoto DEF BatchDone, Places
    <2> QED BY <1>2, <1>4, <2>1 DEF BatchDone
<1>5. ASSUME NEW u, SkipUser(r, u) PROVE TypeOK'
    <2>1. task' \in [Runs -> Task]
        BY <1>5, TypeLeave DEF SkipUser
    <2> QED BY <1>2, <1>5, <2>1 DEF SkipUser
<1> QED BY <1>3, <1>4, <1>5

\* The turn of a user.
LEMMA TypeTurn ==
    ASSUME TypeOK, Exclusive, NEW r \in Runs, NEW u \in Users,
           NoDeals(r, u) \/ Defer(r, u) \/ StorePages(r, u) \/ ResumePages(r, u)
    PROVE  TypeOK'
<1>1. /\ runs \in [Runs -> RunRow \cup {NoValue}] /\ task \in [Runs -> Task]
      /\ recipient \in [Runs -> [Users -> RecipientRow \cup {NoValue}]]
      /\ locked \subseteq Runs /\ task[r] \in Task
    BY Zenon DEF TypeOK
<1>2. runs[r] # NoValue
    BY WorkingRun DEF NoDeals, Defer, StorePages, ResumePages, FirstTime, IsNext
<1>3. \A n \in 1..MaxPages : n \in 0..MaxPages
    BY BoundsAssumption, SMT
<1>4. 0 \in 0..MaxPages
    BY BoundsAssumption, SMT
<1>5. CASE NoDeals(r, u)
    <2>1. Row("no_deals", 0, 0) \in RecipientRow
        BY <1>4, MadeRow DEF UserStatus
    <2>2. /\ runs' \in [Runs -> RunRow \cup {NoValue}]
          /\ recipient' \in [Runs -> [Users -> RecipientRow \cup {NoValue}]]
        BY <1>2, <1>5, <2>1, TypeRows DEF NoDeals
    <2>3. task' \in [Runs -> Task]
        BY <1>5, TypeLeave DEF NoDeals
    <2> QED BY <1>1, <1>5, <2>2, <2>3, TypeStep, Zenon DEF NoDeals
<1>6. CASE Defer(r, u)
    <2>1. PICK n \in 1..MaxPages : Record(r, u, Row("deferred", n, n))
        BY <1>6 DEF Defer
    <2>2. Row("deferred", n, n) \in RecipientRow
        BY <1>3, MadeRow DEF UserStatus
    <2>3. /\ runs' \in [Runs -> RunRow \cup {NoValue}]
          /\ recipient' \in [Runs -> [Users -> RecipientRow \cup {NoValue}]]
        BY <1>2, <1>6, <2>1, <2>2, TypeRows DEF Defer
    <2>4. task' \in [Runs -> Task]
        BY <1>6, TypeLeave DEF Defer
    <2> QED BY <1>1, <1>6, <2>3, <2>4, TypeStep, Zenon DEF Defer
<1>7. CASE StorePages(r, u)
    <2>1. PICK n \in 1..MaxPages : /\ Record(r, u, Row("pending", n, 0))
                                   /\ task' = [task EXCEPT ![r] = Sending(task[r], u, 0, n)]
        BY <1>7, Zenon DEF StorePages
    <2>2. Row("pending", n, 0) \in RecipientRow
        BY <1>3, <1>4, MadeRow DEF UserStatus
    <2>3. recipient' \in [Runs -> [Users -> RecipientRow \cup {NoValue}]]
        BY <1>2, <2>1, <2>2, TypeRows
    <2>4. Sending(task[r], u, 0, n) \in Task
        BY <1>1, <1>3, <1>4, SendingTask
    <2>5. task' \in [Runs -> Task]
        BY <1>1, <2>1, <2>4
    <2> QED BY <1>1, <1>7, <2>3, <2>5, TypeStep, Zenon DEF StorePages
<1>8. CASE ResumePages(r, u)
    <2> DEFINE t == Sending(task[r], u, recipient[r][u].message_count, recipient[r][u].pages)
    <2>1. recipient[r][u] \in RecipientRow
        BY <1>1, <1>8 DEF ResumePages
    <2>2. recipient[r][u].message_count \in 0..MaxPages /\ recipient[r][u].pages \in 0..MaxPages
        BY <2>1, SMT DEF RecipientRow
    <2>3. t \in Task
        BY <1>1, <2>2, SendingTask
    <2>4. task' = [task EXCEPT ![r] = t]
        BY <1>8, Zenon DEF ResumePages
    <2>5. task' \in [Runs -> Task]
        BY <1>1, <2>3, <2>4
    <2> QED BY <1>1, <1>8, <2>5, TypeStep, Zenon DEF ResumePages, rows
<1> QED BY <1>5, <1>6, <1>7, <1>8

\* The pages of a user, and what is recorded of them.
LEMMA TypePages ==
    ASSUME TypeOK, PagesLeft, Exclusive, NEW r \in Runs,
           SendPage(r) \/ RecordPage(r) \/ RecordError(r) \/ UserSent(r)
    PROVE  TypeOK'
<1> DEFINE u == task[r].user
           row == recipient[r][u]
<1>0. u \in Users
    BY DEF PagesLeft, SendPage, RecordPage, RecordError, UserSent
<1>1. /\ runs \in [Runs -> RunRow \cup {NoValue}] /\ task \in [Runs -> Task]
      /\ recipient \in [Runs -> [Users -> RecipientRow \cup {NoValue}]]
      /\ locked \subseteq Runs /\ task[r] \in Task
      /\ seen \in [Runs -> [Users -> 0..MaxPages]] /\ repeats \in Nat /\ faults \in 0..MaxFaults
      /\ row \in RecipientRow \cup {NoValue}
    BY <1>0, Zenon DEF TypeOK
<1>2. task[r].page \in 0..MaxPages /\ task[r].pages \in 0..MaxPages /\ task[r].outcome \in Outcomes
    BY <1>1, SMT DEF Task
<1>3. runs[r] # NoValue
    BY WorkingRun DEF SendPage, RecordPage, RecordError, UserSent
<1>4. CASE SendPage(r)
    <2>1. PICK outcome \in Outcomes : \E hidden \in 0..3 :
             LET copies == hidden + (IF outcome = "sent" THEN 1 ELSE 0)
                 first  == seen[r][u] <= task[r].page
             IN /\ faults + hidden <= MaxFaults
                /\ faults' = faults + hidden
                /\ repeats' = repeats + (IF first /\ copies > 0 THEN copies - 1 ELSE copies)
                /\ seen' = IF first /\ copies > 0
                           THEN [seen EXCEPT ![r][u] = task[r].page + 1] ELSE seen
                /\ task' = [task EXCEPT ![r] = Recording(task[r], outcome)]
        BY <1>4, Zenon DEF SendPage
    <2>2. task' \in [Runs -> Task]
        <3>1. Recording(task[r], outcome) \in Task
            BY <1>1, RecordingTask
        <3> QED BY <1>1, <2>1, <3>1
    <2>3. faults' \in 0..MaxFaults /\ repeats' \in Nat
        BY <1>1, <2>1, BoundsAssumption, SMT
    <2>4. task[r].page + 1 \in 0..MaxPages
        <3>1. task[r].page < task[r].pages
            BY <1>4, Zenon DEF SendPage
        <3> QED BY <1>2, <3>1, BoundsAssumption, SMT
    <2>5. seen' \in [Runs -> [Users -> 0..MaxPages]]
        <3>1. [seen[r] EXCEPT ![u] = task[r].page + 1] \in [Users -> 0..MaxPages]
            BY <1>0, <1>1, <2>4
        <3>2. seen' = seen \/ seen' = [seen EXCEPT ![r] = [seen[r] EXCEPT ![u] = task[r].page + 1]]
            BY <2>1, Zenon
        <3> QED BY <1>1, <3>1, <3>2
    <2> QED BY <1>4, <2>2, <2>3, <2>5, Zenon DEF SendPage, TypeOK, rows, process, people
<1>5. ASSUME Goto(r, "failing"), UNCHANGED <<rows, locked, process, people, entitled, history>>
      PROVE  TypeOK'
    <2>1. task' \in [Runs -> Task]
        BY <1>5, TypeGoto DEF Places
    <2> QED BY <1>1, <1>5, <2>1, TypeStep, Zenon DEF rows
<1>6. ASSUME NEW status \in UserStatus, NEW count \in 0..MaxPages, NEW counters, row # NoValue,
             Record(r, u, Row(status, row.pages, count)), Count(r, counters),
             task' \in [Runs -> Task], UNCHANGED <<locked, process, people, entitled, history>>
      PROVE  TypeOK'
    <2>1. row.pages \in 0..MaxPages
        BY <1>1, <1>6, SMT DEF RecipientRow
    <2>2. Row(status, row.pages, count) \in RecipientRow
        BY <2>1, MadeRow
    <2>3. /\ runs' \in [Runs -> RunRow \cup {NoValue}]
          /\ recipient' \in [Runs -> [Users -> RecipientRow \cup {NoValue}]]
        BY <1>0, <1>3, <1>6, <2>2, TypeRows
    <2> QED BY <1>1, <1>6, <2>3, TypeStep, Zenon
<1>7. ASSUME row # NoValue
      PROVE  row.status \in UserStatus /\ row.message_count \in 0..MaxPages
    BY <1>1, <1>7, SMT DEF RecipientRow
<1>8. CASE RecordPage(r)
    <2>1. task[r].page + 1 \in 0..MaxPages
        <3>1. task[r].page < task[r].pages
            BY <1>8, Zenon DEF RecordPage, PagesLeft
        <3> QED BY <1>2, <3>1, BoundsAssumption, SMT
    <2>2. Sending(task[r], u, task[r].page + 1, task[r].pages) \in Task
        BY <1>0, <1>1, <1>2, <2>1, SendingTask
    <2>3. ASSUME row # NoValue PROVE task' \in [Runs -> Task]
        <3>1. task' = [task EXCEPT ![r] = Sending(task[r], u, task[r].page + 1, task[r].pages)]
            BY <1>8, <2>3, Zenon DEF RecordPage
        <3> QED BY <1>1, <2>2, <3>1
    <2> QED BY <1>5, <1>6, <1>7, <1>8, <2>1, <2>3, Zenon DEF RecordPage
<1>9. CASE RecordError(r)
    <2>1. ASSUME row # NoValue PROVE task' \in [Runs -> Task]
        BY <1>9, <2>1, TypeLeave, Zenon DEF RecordError
    <2>2. task[r].outcome \in UserStatus
        BY <1>2 DEF UserStatus
    <2> QED BY <1>5, <1>6, <1>7, <1>9, <2>1, <2>2, Zenon DEF RecordError
<1>10. CASE UserSent(r)
    <2>1. ASSUME row # NoValue PROVE task' \in [Runs -> Task]
        BY <1>10, <2>1, TypeLeave, Zenon DEF UserSent
    <2>2. "sent" \in UserStatus
        BY DEF UserStatus, Outcomes
    <2> QED BY <1>5, <1>6, <1>7, <1>10, <2>1, <2>2, Zenon DEF UserSent
<1> QED BY <1>4, <1>8, <1>9, <1>10

\* Faults, crashes, locks that expire, and the start of the process.
LEMMA TypeFaults ==
    ASSUME TypeOK, Exclusive,
           \/ Restart \/ Crash \/ Shutdown
           \/ \E r \in Runs : DatabaseFails(r) \/ FailUnrecorded(r) \/ LockExpires(r)
    PROVE  TypeOK'
<1>1. /\ runs \in [Runs -> RunRow \cup {NoValue}] /\ task \in [Runs -> Task]
      /\ recipient \in [Runs -> [Users -> RecipientRow \cup {NoValue}]]
      /\ locked \subseteq Runs /\ faults \in 0..MaxFaults
    BY Zenon DEF TypeOK
<1>2. NewTask \in Task /\ NoTask \in Task
    BY IdleTask DEF NewTask, NoTask, Places
<1>3. CASE Restart
    <2>1. task' \in [Runs -> Task]
        BY <1>2, <1>3 DEF Restart
    <2>2. up' \in BOOLEAN /\ allowed' \in BOOLEAN
        BY <1>3, AllowedAssumption, Zenon DEF Restart
    <2> QED BY <1>3, <2>1, <2>2, Zenon DEF Restart, TypeOK, rows, people, history
<1>4. CASE Crash \/ Shutdown
    <2>1. task' \in [Runs -> Task] /\ locked' \subseteq Runs /\ up' \in BOOLEAN
        BY <1>1, <1>2, <1>4 DEF Crash, Shutdown
    <2>2. faults' \in 0..MaxFaults
        BY <1>1, <1>4, BoundsAssumption, SMT DEF Crash, Shutdown
    <2> QED BY <1>4, <2>1, <2>2, Zenon DEF Crash, Shutdown, TypeOK, rows, people
<1>5. ASSUME NEW r \in Runs, DatabaseFails(r) \/ FailUnrecorded(r) PROVE TypeOK'
    <2>1. task' \in [Runs -> Task]
        BY <1>5, TypeGoto DEF DatabaseFails, FailUnrecorded, Places
    <2>2. faults' \in 0..MaxFaults
        BY <1>1, <1>5, BoundsAssumption, SMT DEF DatabaseFails, FailUnrecorded
    <2>3. locked' \subseteq Runs
        BY <1>1, <1>5 DEF DatabaseFails, FailUnrecorded
    <2> QED BY <1>5, <2>1, <2>2, <2>3, Zenon DEF DatabaseFails, FailUnrecorded,
               TypeOK, rows, process, people
<1>6. ASSUME NEW r \in Runs, LockExpires(r) PROVE TypeOK'
    <2>1. locked' \subseteq Runs
        BY <1>1, <1>6 DEF LockExpires
    <2> QED BY <1>1, <1>6, <2>1, TypeStep, Zenon DEF LockExpires, rows
<1> QED BY <1>3, <1>4, <1>5, <1>6

\* What users and administrators do in the meantime.
LEMMA TypePeople ==
    ASSUME TypeOK, NEW u \in Users, Watch(u) \/ Unwatch(u) \/ DeleteUser(u)
    PROVE  TypeOK'
<1>1. /\ recipient \in [Runs -> [Users -> RecipientRow \cup {NoValue}]]
      /\ watching \subseteq Users /\ gone \subseteq Users
      /\ entitled \in [Runs -> SUBSET Users] /\ edits \in 0..MaxEdits
    BY Zenon DEF TypeOK
<1>2. edits' \in 0..MaxEdits
    BY <1>1, BoundsAssumption, SMT DEF Watch, Unwatch, DeleteUser, Edit
<1>3. watching' \subseteq Users /\ gone' \subseteq Users
    BY <1>1, SMT DEF Watch, Unwatch, DeleteUser
<1>4. entitled' \in [Runs -> SUBSET Users]
    BY <1>1 DEF Watch, Unwatch, DeleteUser
<1>5. recipient' \in [Runs -> [Users -> RecipientRow \cup {NoValue}]]
    <2>1. ASSUME NEW r \in Runs
          PROVE  [recipient[r] EXCEPT ![u] = NoValue] \in [Users -> RecipientRow \cup {NoValue}]
        BY <1>1
    <2> QED BY <1>1, <2>1 DEF Watch, Unwatch, DeleteUser, rows
<1> QED BY <1>2, <1>3, <1>4, <1>5, Zenon DEF Watch, Unwatch, DeleteUser, TypeOK, rows,
           process, history

\* Every step keeps the types.
LEMMA TypeNext == IInv /\ [Next]_vars => TypeOK'
<1> SUFFICES ASSUME IInv, [Next]_vars PROVE TypeOK'
    OBVIOUS
<1>1. TypeOK /\ PagesLeft /\ Exclusive
    BY DEF IInv
<1>2. CASE UNCHANGED vars
    BY <1>1, <1>2, Zenon DEF vars, TypeOK, rows, process, people, history
<1>3. ASSUME NEW r \in Runs, ProcessUser(r) PROVE TypeOK'
    <2>1. task[r].todo \subseteq Users
        BY <1>1, SMT DEF TypeOK, Task
    <2> QED BY <1>1, <1>3, <2>1, TypeLoop, TypeTurn, TypePages, Zenon DEF ProcessUser
<1>4. CASE Next
    BY <1>1, <1>3, <1>4, TypeRunSteps, TypeLoop, TypeFaults, TypePeople,
       Zenon DEF Next, TaskStep
<1> QED BY <1>2, <1>4

-----------------------------------------------------------------------------
(* Pages are sent to somebody, and recorded if there was one to send.      *)

LEMMA PagesNext == IInv /\ [Next]_vars => PagesLeft'
<1> SUFFICES ASSUME IInv, [Next]_vars PROVE PagesLeft'
    OBVIOUS
<1>1. TypeOK /\ PagesLeft /\ task \in [Runs -> Task] /\ task' \in [Runs -> Task]
    BY TypeNext DEF IInv, TypeOK
<1>2. ASSUME NEW r \in Runs, \A s \in Runs \ {r} : task'[s] = task[s],
             task'[r].at \in {"send", "record"} => task'[r].user \in Users,
             task'[r].at = "record" => task'[r].page < task'[r].pages
      PROVE  PagesLeft'
    BY <1>1, <1>2, SMT DEF PagesLeft
<1>3. CASE task' = task
    BY <1>1, <1>3 DEF PagesLeft
<1>4. ASSUME NEW r \in Runs, NEW t, task' = [task EXCEPT ![r] = t],
             t.at \notin {"send", "record"}
      PROVE  PagesLeft'
    BY <1>1, <1>2, <1>4
<1>5. ASSUME NEW r \in Runs, NEW place \in Places \ {"send", "record"}, Goto(r, place)
      PROVE  PagesLeft'
    <2>1. task'[r].at = place /\ \A s \in Runs \ {r} : task'[s] = task[s]
        BY <1>1, <1>5, SMT DEF Goto, Task
    <2> QED BY <1>2, <1>5, <2>1
<1>6. NoTask.at = "none" /\ NewTask.at = "wait"
    BY DEF NoTask, NewTask, Idle
<1>7. \A last, todo : InBatch(last, todo).at = "users"
    BY DEF InBatch
<1>8. ASSUME NEW r \in Runs, EndTask(r) \/ \E u : Leave(r, u) PROVE PagesLeft'
    BY <1>4, <1>6, <1>7, <1>8, Zenon DEF EndTask, Leave
<1>9. ASSUME NEW r \in Runs, NEW u \in Users, NEW page, NEW pages,
             task' = [task EXCEPT ![r] = Sending(task[r], u, page, pages)]
      PROVE  PagesLeft'
    <2>1. /\ Sending(task[r], u, page, pages).at = "send"
          /\ Sending(task[r], u, page, pages).user = u
        BY DEF Sending
    <2> QED BY <1>1, <1>2, <1>9, <2>1
<1>10. ASSUME NEW r \in Runs, SendPage(r) PROVE PagesLeft'
    <2>1. PICK outcome \in Outcomes : task' = [task EXCEPT ![r] = Recording(task[r], outcome)]
        BY <1>10, Zenon DEF SendPage
    <2>2. /\ Recording(task[r], outcome).user = task[r].user
          /\ Recording(task[r], outcome).page = task[r].page
          /\ Recording(task[r], outcome).pages = task[r].pages
        BY DEF Recording
    <2>3. task[r].user \in Users /\ task[r].page < task[r].pages
        BY <1>1, <1>10 DEF SendPage, PagesLeft
    <2> QED BY <1>1, <1>2, <2>1, <2>2, <2>3
<1>11. ASSUME NEW r \in Runs, RecordPage(r) \/ RecordError(r) \/ UserSent(r)
       PROVE  PagesLeft'
    <2>1. task[r].user \in Users
        BY <1>1, <1>11 DEF RecordPage, RecordError, UserSent, PagesLeft
    <2>2. "failing" \in Places \ {"send", "record"}
        BY DEF Places
    <2> QED BY <1>5, <1>8, <1>9, <1>11, <2>1, <2>2, Zenon DEF RecordPage, RecordError, UserSent
<1>12. ASSUME NEW r \in Runs, NEW u \in Users,
              \/ SkipUser(r, u) \/ NoDeals(r, u) \/ Defer(r, u)
              \/ StorePages(r, u) \/ ResumePages(r, u)
       PROVE  PagesLeft'
    BY <1>8, <1>9, <1>12, Zenon DEF SkipUser, NoDeals, Defer, StorePages, ResumePages
<1>13. ASSUME NEW r \in Runs, TaskStep(r) PROVE PagesLeft'
    <2>1. "batch" \in Places \ {"send", "record"}
        BY DEF Places
    <2>2. task[r].todo \subseteq Users
        BY <1>1, SMT DEF TypeOK, Task
    <2>3. CASE Start(r) \/ BatchDone(r) \/ Finish(r) \/ Fail(r)
        BY <1>5, <1>8, <2>1, <2>3, Zenon DEF Start, BatchDone, Finish, Fail
    <2>4. CASE NextBatch(r)
        BY <1>4, <1>7, <2>4, Zenon DEF NextBatch
    <2>5. CASE ProcessUser(r)
        BY <1>10, <1>11, <1>12, <2>2, <2>5, Zenon DEF ProcessUser
    <2> QED BY <1>13, <2>3, <2>4, <2>5, Zenon DEF TaskStep
<1>14. ASSUME NEW r \in Runs, CreateRun(r) \/ LockExpires(r) \/ DatabaseFails(r) \/ FailUnrecorded(r)
       PROVE  PagesLeft'
    <2>1. "failing" \in Places \ {"send", "record"}
        BY DEF Places
    <2>2. NewTask.at \notin {"send", "record"}
        BY <1>6
    <2> QED BY <1>3, <1>4, <1>5, <1>8, <1>14, <2>1, <2>2,
               Zenon DEF CreateRun, LockExpires, DatabaseFails, FailUnrecorded
<1>15. CASE Restart \/ Crash \/ Shutdown
    <2>1. \A r \in Runs : task'[r] \in {NoTask, NewTask}
        BY <1>15 DEF Restart, Crash, Shutdown
    <2> QED BY <1>6, <2>1 DEF PagesLeft
<1>16. CASE UNCHANGED vars \/ \E u \in Users : Watch(u) \/ Unwatch(u) \/ DeleteUser(u)
    BY <1>3, <1>16, Zenon DEF vars, Watch, Unwatch, DeleteUser
<1> QED BY <1>13, <1>14, <1>15, <1>16, Zenon DEF Next

-----------------------------------------------------------------------------
(* One task at a time.                                                     *)

\* Steps of a working task that keep its run's status and lock.
LEMMA ExclusiveStep ==
    ASSUME IInv, TypeOK', NEW r \in Runs, Working(r), locked' = locked,
           \A s \in Runs \ {r} : task'[s] = task[s] /\ runs'[s] = runs[s],
           runs'[r] # NoValue, runs'[r].status = runs[r].status
    PROVE  Exclusive'
<1>2. Exclusive /\ Active(r) /\ runs[r].status = "running" /\ task[r].at # "none"
    BY DEF IInv, Exclusive, Working
<1>3. \A s \in Runs : Active(s)' <=> Active(s)
    BY <1>2 DEF Active
<1>4. ASSUME NEW s \in Runs, task'[s].at # "none" PROVE task[s].at # "none"
    BY <1>2, <1>4
<1>5. ASSUME NEW s \in Runs, task'[s].at \notin {"none", "wait"}
      PROVE  s \in locked /\ runs'[s].status = "running"
    BY <1>2, <1>5, Zenon DEF Exclusive, Working
<1> QED BY <1>2, <1>3, <1>4, <1>5, Zenon DEF Exclusive, Working

\* Steps that end a working or waiting task, whatever its run and lock become.
LEMMA ExclusiveEnd ==
    ASSUME IInv, NEW r \in Runs, task'[r].at = "none",
           \A s \in Runs \ {r} :
              /\ task'[s] = task[s] /\ runs'[s] = runs[s]
              /\ s \in locked => s \in locked',
           Active(r)' => Active(r)
    PROVE  Exclusive'
<1>1. Exclusive
    BY DEF IInv
<1>2. ASSUME NEW s \in Runs \ {r} PROVE Active(s)' <=> Active(s)
    BY <1>2 DEF Active
<1> QED BY <1>1, <1>2, Zenon DEF Exclusive, Working

\* A run begins while none is active: the partial unique index.
LEMMA ExclusiveCreate ==
    ASSUME IInv, NEW r \in Runs, CreateRun(r)
    PROVE  Exclusive'
<1>1. /\ Exclusive /\ runs \in [Runs -> RunRow \cup {NoValue}] /\ task \in [Runs -> Task]
    BY DEF IInv, TypeOK
<1>2. \A s \in Runs : ~Active(s) /\ task[s].at = "none"
    BY <1>1 DEF CreateRun, Exclusive
<1>3. /\ runs'[r] = NewRun /\ \A s \in Runs \ {r} : runs'[s] = runs[s]
      /\ task'[r] = NewTask /\ \A s \in Runs \ {r} : task'[s] = task[s]
    BY <1>1 DEF CreateRun
<1>4. NewTask.at = "wait" /\ NewRun.status = "pending"
    BY DEF NewTask, NewRun, Idle
<1>5. NewRun # NoValue
    BY NoValueAssumption, SMT DEF NewRun, RunRow, RunStatus
<1>6. Active(r)' /\ \A s \in Runs \ {r} : ~Active(s)'
    BY <1>2, <1>3, <1>4, <1>5 DEF Active
<1> QED BY <1>2, <1>3, <1>4, <1>6 DEF Exclusive, Working

\* A waiting task takes its run up, or gives up.
LEMMA ExclusiveStart ==
    ASSUME IInv, NEW r \in Runs, Start(r)
    PROVE  Exclusive'
<1>1. /\ Exclusive /\ runs \in [Runs -> RunRow \cup {NoValue}] /\ task \in [Runs -> Task]
      /\ task[r].at = "wait" /\ Active(r)
    BY DEF IInv, TypeOK, Start, Exclusive
<1>2. CASE r \in locked \/ ~allowed
    <2>1. task' = [task EXCEPT ![r] = NoTask] /\ UNCHANGED <<runs, locked>>
        BY <1>2, Zenon DEF Start, EndTask
    <2>2. NoTask.at = "none"
        BY DEF NoTask, Idle
    <2>3. Active(r)' => Active(r)
        BY <1>1
    <2> QED BY <1>1, <2>1, <2>2, <2>3, ExclusiveEnd
<1>3. CASE ~(r \in locked \/ ~allowed)
    <2>1. /\ locked' = locked \cup {r} /\ runs' = [runs EXCEPT ![r].status = "running"]
          /\ Goto(r, "batch")
        BY <1>3, Zenon DEF Start
    <2>2. runs[r] \in RunRow
        BY <1>1 DEF Active
    <2>3. [runs[r] EXCEPT !.status = "running"] \in RunRow
        BY <2>2, SMT DEF RunRow, RunStatus
    <2>4. runs'[r].status = "running" /\ runs'[r] # NoValue
          /\ \A s \in Runs \ {r} : runs'[s] = runs[s]
        BY <1>1, <2>1, <2>2, <2>3, NoValueAssumption, SMT DEF RunRow
    <2>5. task'[r].at = "batch" /\ \A s \in Runs \ {r} : task'[s] = task[s]
        BY <1>1, <2>1, SMT DEF Goto, Task
    <2>6. \A s \in Runs \ {r} : ~Active(s) /\ task[s].at = "none"
        BY <1>1 DEF Exclusive
    <2>7. Active(r)' /\ \A s \in Runs \ {r} : ~Active(s)'
        BY <2>4, <2>6 DEF Active
    <2> QED BY <2>1, <2>4, <2>5, <2>6, <2>7 DEF Exclusive, Working
<1> QED BY <1>2, <1>3

\* A step between the beginning and the end of a task's work: the run's row
\* stays or is counted in.
LEMMA ExclusiveWork ==
    ASSUME IInv, TypeOK', NEW r \in Runs, Working(r), locked' = locked,
           \/ runs' = runs
           \/ \E counters : Count(r, counters),
           \/ \E t : task' = [task EXCEPT ![r] = t]
           \/ \E place : Goto(r, place)
    PROVE  Exclusive'
<1>1. /\ Exclusive /\ runs \in [Runs -> RunRow \cup {NoValue}] /\ task \in [Runs -> Task]
    BY DEF IInv, TypeOK
<1>2. runs[r] \in RunRow
    BY <1>1 DEF Exclusive, Working, Active
<1>3. runs'[r] \in RunRow /\ runs'[r].status = runs[r].status
      /\ \A s \in Runs \ {r} : runs'[s] = runs[s]
    <2>1. CASE runs' = runs
        BY <1>2, <2>1
    <2>2. ASSUME NEW counters, Count(r, counters)
          PROVE  /\ runs'[r] \in RunRow /\ runs'[r].status = runs[r].status
                 /\ \A s \in Runs \ {r} : runs'[s] = runs[s]
        <3>1. Counted(runs[r], counters) \in RunRow
              /\ Counted(runs[r], counters).status = runs[r].status
            BY <1>2, CountedRun
        <3> QED BY <1>1, <2>2, <3>1 DEF Count
    <2> QED BY <2>1, <2>2
<1>4. \A s \in Runs \ {r} : task'[s] = task[s]
    BY <1>1, Zenon DEF Goto
<1>5. runs'[r] # NoValue
    BY <1>3, NoValueAssumption
<1> QED BY <1>3, <1>4, <1>5, ExclusiveStep

LEMMA ExclusiveNext == IInv /\ [Next]_vars => Exclusive'
<1> SUFFICES ASSUME IInv, [Next]_vars PROVE Exclusive'
    OBVIOUS
<1>1. /\ Exclusive /\ TypeOK' /\ runs \in [Runs -> RunRow \cup {NoValue}]
      /\ task \in [Runs -> Task]
    BY TypeNext DEF IInv, TypeOK
<1>2. CASE UNCHANGED vars \/ \E u \in Users : Watch(u) \/ Unwatch(u) \/ DeleteUser(u)
    <2>1. UNCHANGED <<runs, task, locked>>
        BY <1>2, Zenon DEF vars, rows, Watch, Unwatch, DeleteUser
    <2> QED BY <1>1, <2>1, Zenon DEF Exclusive, Active, Working
<1>3. CASE Restart \/ Crash \/ Shutdown
    <2>1. /\ runs' = runs
          /\ \A r \in Runs : task'[r] = NoTask \/ (task'[r] = NewTask /\ Active(r))
        BY <1>3 DEF Restart, Crash, Shutdown, rows
    <2>2. NoTask.at = "none" /\ NewTask.at = "wait"
        BY DEF NoTask, NewTask, Idle
    <2>3. \A r \in Runs : Active(r)' <=> Active(r)
        BY <2>1 DEF Active
    <2> QED BY <1>1, <2>1, <2>2, <2>3 DEF Exclusive, Working
<1>4. ASSUME NEW r \in Runs, LockExpires(r) PROVE Exclusive'
    <2>1. /\ UNCHANGED <<runs, task>> /\ locked' = locked \ {r} /\ ~Working(r)
        BY <1>4, Zenon DEF LockExpires, rows, Working
    <2>2. \A s \in Runs : Active(s)' <=> Active(s)
        BY <2>1 DEF Active
    <2> QED BY <1>1, <2>1, <2>2 DEF Exclusive, Working
<1>5. ASSUME NEW r \in Runs, Finish(r) \/ Fail(r) \/ FailUnrecorded(r) PROVE Exclusive'
    <2>1. task' = [task EXCEPT ![r] = NoTask] /\ locked' = locked \ {r}
        BY <1>5, Zenon DEF Finish, Fail, FailUnrecorded, EndTask
    <2>2. NoTask.at = "none"
        BY DEF NoTask, Idle
    <2>3. \A s \in Runs \ {r} : runs'[s] = runs[s]
        BY <1>1, <1>5 DEF Finish, Fail, FailUnrecorded, rows
    <2>4. Active(r)
        BY <1>1, <1>5 DEF Finish, Fail, FailUnrecorded, Exclusive
    <2> QED BY <1>1, <2>1, <2>2, <2>3, <2>4, ExclusiveEnd
<1>6. ASSUME NEW r \in Runs,
             \/ NextBatch(r) \/ BatchDone(r) \/ ProcessUser(r) \/ DatabaseFails(r)
      PROVE  Exclusive'
    <2>1. Working(r)
        BY <1>6 DEF Working, NextBatch, BatchDone, DatabaseFails, ProcessUser, SkipUser,
           NoDeals, Defer, StorePages, ResumePages, FirstTime, IsNext, SendPage,
           RecordPage, RecordError, UserSent
    <2>2. /\ locked' = locked
          /\ runs' = runs \/ \E counters : Count(r, counters)
          /\ \/ \E t : task' = [task EXCEPT ![r] = t]
             \/ \E place : Goto(r, place)
        <3>1. CASE NextBatch(r) \/ BatchDone(r) \/ DatabaseFails(r)
            BY <3>1, Zenon DEF NextBatch, BatchDone, DatabaseFails, rows
        <3>2. ASSUME NEW u, SkipUser(r, u) \/ NoDeals(r, u) \/ Defer(r, u)
              PROVE  /\ locked' = locked
                     /\ runs' = runs \/ \E counters : Count(r, counters)
                     /\ \E t : task' = [task EXCEPT ![r] = t]
            BY <3>2, Zenon DEF SkipUser, NoDeals, Defer, Leave, rows
        <3>3. ASSUME NEW u, StorePages(r, u) \/ ResumePages(r, u)
              PROVE  locked' = locked /\ runs' = runs /\ \E t : task' = [task EXCEPT ![r] = t]
            BY <3>3, Zenon DEF StorePages, ResumePages, rows
        <3>4. CASE SendPage(r) \/ RecordPage(r) \/ RecordError(r) \/ UserSent(r)
            BY <3>4, Zenon DEF SendPage, RecordPage, RecordError, UserSent, Leave, rows
        <3> QED BY <1>6, <3>1, <3>2, <3>3, <3>4, Zenon DEF ProcessUser
    <2> QED BY <1>1, <2>1, <2>2, ExclusiveWork
<1> QED
    BY <1>2, <1>3, <1>4, <1>5, <1>6, ExclusiveCreate, ExclusiveStart, Zenon DEF Next, TaskStep

-----------------------------------------------------------------------------
(* The invariant, and what follows.                                        *)

LEMMA Initially == Init => IInv
<1> SUFFICES ASSUME Init PROVE IInv
    OBVIOUS
<1>1. \A r \in Runs : task[r].at = "none" /\ ~Active(r)
    BY DEF Init, NoTask, Idle, Active
<1> QED BY <1>1, TypeInit DEF IInv, PagesLeft, Exclusive, Working

LEMMA Inductive == IInv /\ [Next]_vars => IInv'
BY TypeNext, PagesNext, ExclusiveNext DEF IInv

\* Every reachable state is of the declared types, whatever the instance: no
\* run of any length sends a page that is not there.
THEOREM TypeCorrect == Spec => []TypeOK
<1>1. IInv => TypeOK
    BY DEF IInv
<1> QED BY Initially, Inductive, <1>1, PTL DEF Spec

\* One task at a time works off broadcasts, holds the lock of its run, and no
\* other run is active, for any number of runs, users, crashes and restarts.
THEOREM OneTaskAtATime == Spec => []TaskOwnsRun
<1>1. IInv => TaskOwnsRun
    BY DEF IInv, TypeOK, Exclusive, Working, TaskOwnsRun, Active
<1> QED BY Initially, Inductive, <1>1, PTL DEF Spec

-----------------------------------------------------------------------------
(* Pages.                                                                  *)

P == INSTANCE Delivery_proofs WITH
        Messages <- Pages, got <- Got, noted <- Noted, flight <- InFlight

OnPage(r) == task[r].at \in {"send", "record"}

\* What the row of a user says about the pages that he got in a run.
RowFits(r, u) ==
    LET row == recipient[r][u] IN
    /\ u \in gone => row = NoValue
    /\ row = NoValue /\ u \notin gone => seen[r][u] = 0
    /\ row # NoValue /\ row.status # "deferred" =>
          /\ row.message_count <= seen[r][u] /\ seen[r][u] <= row.pages
          /\ row.status = "sent" => seen[r][u] = row.pages

\* What a task that is about to send or to record a page has in common with the
\* row and with what its user got.
TurnFits(r) ==
    LET t   == task[r]
        row == recipient[r][t.user]
    IN OnPage(r) =>
          /\ t.page <= t.pages /\ t.page <= seen[r][t.user]
          /\ t.at = "record" /\ t.outcome = "sent" => t.page < seen[r][t.user]
          /\ row = NoValue => t.user \in gone
          /\ row # NoValue => /\ row.message_count = t.page /\ row.pages = t.pages
                              /\ ~IsComplete(row.status)

Fits ==
    /\ \A r \in Runs, u \in Users : RowFits(r, u)
    /\ \A r \in Runs : TurnFits(r)

\* A stopped process has no tasks.
DownIdle == ~up => \A r \in Runs : task[r].at = "none"

PInv == IInv /\ Fits /\ DownIdle

-----------------------------------------------------------------------------
(* The rows and the pages fit.                                             *)

LEMMA Types ==
    ASSUME TypeOK
    PROVE  /\ runs \in [Runs -> RunRow \cup {NoValue}]
           /\ recipient \in [Runs -> [Users -> RecipientRow \cup {NoValue}]]
           /\ task \in [Runs -> Task]
           /\ seen \in [Runs -> [Users -> 0..MaxPages]]
           /\ watching \subseteq Users /\ gone \subseteq Users
           /\ repeats \in Nat /\ faults \in Nat
<1>1. faults \in 0..MaxFaults /\ MaxFaults \in Nat
    BY BoundsAssumption, Zenon DEF TypeOK
<1>2. faults \in Nat
    BY <1>1, SMT
<1> QED BY <1>2, Zenon DEF TypeOK

\* A step of one task that leaves rows and histories alone.
LEMMA FitsTask ==
    ASSUME Fits, UNCHANGED <<recipient, gone, seen>>,
           \A r \in Runs : task'[r] = task[r] \/ task'[r].at \notin {"send", "record"}
    PROVE  Fits'
<1>1. ASSUME NEW r \in Runs, NEW u \in Users PROVE RowFits(r, u)'
    BY Zenon DEF Fits, RowFits
<1>2. ASSUME NEW r \in Runs PROVE TurnFits(r)'
    <2>1. CASE task'[r] = task[r]
        BY <2>1, Zenon DEF Fits, TurnFits, OnPage
    <2>2. CASE task'[r].at \notin {"send", "record"}
        BY <2>2, Zenon DEF TurnFits, OnPage
    <2> QED BY <2>1, <2>2
<1> QED BY <1>1, <1>2, Zenon DEF Fits

\* A step of the task of r for user u: all other rows and tasks stay.
LEMMA FitsUser ==
    ASSUME Fits, gone' = gone, NEW r \in Runs, NEW u \in Users,
           \A s \in Runs, v \in Users : s # r \/ v # u =>
              recipient'[s][v] = recipient[s][v] /\ seen'[s][v] = seen[s][v],
           \A s \in Runs \ {r} : task'[s] = task[s] /\ (OnPage(s) => task[s].user \in Users),
           RowFits(r, u)', TurnFits(r)'
    PROVE  Fits'
<1>1. ASSUME NEW s \in Runs, NEW v \in Users PROVE RowFits(s, v)'
    <2>1. CASE s = r /\ v = u
        BY <2>1, Zenon
    <2>2. CASE s # r \/ v # u
        <3>1. recipient'[s][v] = recipient[s][v] /\ seen'[s][v] = seen[s][v] /\ RowFits(s, v)
            BY <2>2, Zenon DEF Fits
        <3> QED BY <3>1, Zenon DEF RowFits
    <2> QED BY <2>1, <2>2
<1>2. ASSUME NEW s \in Runs PROVE TurnFits(s)'
    <2>1. CASE s = r
        BY <2>1, Zenon
    <2>2. CASE s # r /\ ~OnPage(s)
        <3>1. task'[s] = task[s]
            BY <2>2
        <3> QED BY <2>2, <3>1, Zenon DEF TurnFits, OnPage
    <2>3. CASE s # r /\ OnPage(s)
        <3>1. /\ task'[s] = task[s] /\ task[s].user \in Users
            BY <2>3
        <3>2. /\ recipient'[s][task[s].user] = recipient[s][task[s].user]
              /\ seen'[s][task[s].user] = seen[s][task[s].user]
              /\ TurnFits(s)
            BY <2>3, <3>1, Zenon DEF Fits
        <3> QED BY <2>3, <3>1, <3>2, Zenon DEF TurnFits, OnPage
    <2> QED BY <2>1, <2>2, <2>3
<1> QED BY <1>1, <1>2, Zenon DEF Fits

\* What the constructors and the operators on rows and tasks leave.
LEMMA RecordLeaves ==
    ASSUME TypeOK, NEW r \in Runs, NEW u \in Users, NEW row, Record(r, u, row)
    PROVE  /\ recipient'[r][u] = row
           /\ \A s \in Runs, v \in Users : s # r \/ v # u => recipient'[s][v] = recipient[s][v]
BY Types, SMT DEF Record

LEMMA SendingLeaves ==
    ASSUME TypeOK, NEW r \in Runs, NEW u, NEW page, NEW pages,
           task' = [task EXCEPT ![r] = Sending(task[r], u, page, pages)]
    PROVE  /\ task'[r].at = "send" /\ task'[r].user = u
           /\ task'[r].page = page /\ task'[r].pages = pages
           /\ \A s \in Runs \ {r} : task'[s] = task[s]
BY Types, SMT DEF Sending

LEMMA RecordingLeaves ==
    ASSUME TypeOK, NEW r \in Runs, NEW outcome,
           task' = [task EXCEPT ![r] = Recording(task[r], outcome)]
    PROVE  /\ task'[r].at = "record" /\ task'[r].user = task[r].user
           /\ task'[r].page = task[r].page /\ task'[r].pages = task[r].pages
           /\ task'[r].outcome = outcome
           /\ \A s \in Runs \ {r} : task'[s] = task[s]
BY Types, SMT DEF Recording

LEMMA OffPage ==
    ASSUME TypeOK, NEW r \in Runs
    PROVE  /\ \A u : Leave(r, u) =>
                 task'[r].at = "users" /\ \A s \in Runs \ {r} : task'[s] = task[s]
           /\ \A place : Goto(r, place) =>
                 task'[r].at = place /\ \A s \in Runs \ {r} : task'[s] = task[s]
           /\ EndTask(r) =>
                 task'[r].at = "none" /\ \A s \in Runs \ {r} : task'[s] = task[s]
<1>1. task \in [Runs -> Task]
    BY Types
<1>2. ASSUME NEW u, Leave(r, u)
      PROVE  task'[r].at = "users" /\ \A s \in Runs \ {r} : task'[s] = task[s]
    BY <1>1, <1>2, SMT DEF Leave, InBatch
<1>3. ASSUME NEW place, Goto(r, place)
      PROVE  task'[r].at = place /\ \A s \in Runs \ {r} : task'[s] = task[s]
    BY <1>1, <1>3, SMT DEF Goto, Task
<1>4. ASSUME EndTask(r)
      PROVE  task'[r].at = "none" /\ \A s \in Runs \ {r} : task'[s] = task[s]
    BY <1>1, <1>4, SMT DEF EndTask, NoTask, Idle
<1> QED BY <1>2, <1>3, <1>4

LEMMA RowFields ==
    ASSUME NEW status, NEW pages, NEW count
    PROVE  /\ Row(status, pages, count).status = status
           /\ Row(status, pages, count).pages = pages
           /\ Row(status, pages, count).message_count = count
BY DEF Row

\* The turn of a user begins.
LEMMA FitsTurn ==
    ASSUME PInv, NEW r \in Runs, NEW u \in Users,
           NoDeals(r, u) \/ Defer(r, u) \/ StorePages(r, u) \/ ResumePages(r, u)
    PROVE  Fits'
<1>1. TypeOK /\ Fits /\ PagesLeft
    BY DEF PInv, IInv
<1>2. /\ RowFits(r, u) /\ seen[r][u] \in 0..MaxPages
      /\ recipient[r][u] # NoValue => recipient[r][u] \in RecipientRow
    BY <1>1, Types, Zenon DEF Fits
<1>3. \A s \in Runs : OnPage(s) => task[s].user \in Users
    BY <1>1, Zenon DEF PagesLeft, OnPage
<1>4. /\ u \notin gone /\ gone' = gone /\ seen' = seen
    BY Zenon DEF NoDeals, Defer, StorePages, ResumePages, FirstTime, people, history
<1>5. ASSUME recipient[r][u] = NoValue PROVE seen[r][u] = 0
    BY <1>2, <1>4, <1>5, Zenon DEF RowFits
<1>6. ASSUME NEW row, Record(r, u, row), Leave(r, u),
             recipient[r][u] = NoValue, row.status \in {"no_deals", "deferred"},
             row.status = "no_deals" => row.message_count = 0 /\ row.pages = 0
      PROVE  Fits'
    <2>1. /\ recipient'[r][u] = row
          /\ \A s \in Runs, v \in Users : s # r \/ v # u => recipient'[s][v] = recipient[s][v]
        BY <1>1, <1>6, RecordLeaves, Zenon
    <2>2. task'[r].at = "users" /\ \A s \in Runs \ {r} : task'[s] = task[s]
        BY <1>1, <1>6, OffPage, Zenon
    <2>3. TurnFits(r)'
        BY <2>2 DEF TurnFits, OnPage
    <2>4. seen[r][u] = 0
        BY <1>5, <1>6
    <2>5. RowFits(r, u)'
        BY <1>4, <1>6, <2>1, <2>4, SMT DEF RowFits
    <2> QED BY <1>1, <1>3, <1>4, <2>1, <2>2, <2>3, <2>5, FitsUser, Zenon
<1>7. CASE NoDeals(r, u)
    <2>1. /\ Record(r, u, Row("no_deals", 0, 0)) /\ Leave(r, u)
          /\ recipient[r][u] = NoValue
        BY <1>7, Zenon DEF NoDeals, FirstTime
    <2> QED BY <1>6, <2>1, RowFields
<1>8. CASE Defer(r, u)
    <2>1. PICK n \in 1..MaxPages : Record(r, u, Row("deferred", n, n))
        BY <1>8, Zenon DEF Defer
    <2>2. Leave(r, u) /\ recipient[r][u] = NoValue
        BY <1>8, Zenon DEF Defer, FirstTime
    <2> QED BY <1>6, <2>1, <2>2, RowFields
<1>9. CASE StorePages(r, u)
    <2>1. PICK n \in 1..MaxPages :
             /\ Record(r, u, Row("pending", n, 0))
             /\ task' = [task EXCEPT ![r] = Sending(task[r], u, 0, n)]
        BY <1>9, Zenon DEF StorePages
    <2>2. /\ recipient'[r][u] = Row("pending", n, 0)
          /\ \A s \in Runs, v \in Users : s # r \/ v # u => recipient'[s][v] = recipient[s][v]
        BY <1>1, <2>1, RecordLeaves, Zenon
    <2>3. /\ task'[r].at = "send" /\ task'[r].user = u
          /\ task'[r].page = 0 /\ task'[r].pages = n
          /\ \A s \in Runs \ {r} : task'[s] = task[s]
        BY <1>1, <2>1, SendingLeaves, Zenon
    <2>4. seen[r][u] = 0 /\ n \in Nat /\ n >= 0
        BY <1>5, <1>9, <2>1, BoundsAssumption DEF StorePages, FirstTime
    <2>5. RowFits(r, u)'
        BY <1>4, <2>2, <2>4, RowFields, SMT DEF RowFits
    <2>6. Row("pending", n, 0) # NoValue
        <3>1. Row("pending", n, 0).status = "pending"
            BY RowFields
        <3>2. n \in 0..MaxPages /\ 0 \in 0..MaxPages
            BY <2>4, BoundsAssumption, SMT
        <3>3. Row("pending", n, 0) \in RecipientRow
            BY <3>2, MadeRow DEF UserStatus
        <3> QED BY <3>3, NoRowAssumption
    <2>7. TurnFits(r)'
        BY <1>4, <2>2, <2>3, <2>4, <2>6, RowFields, SMT DEF TurnFits, OnPage, IsComplete
    <2>8. \A s \in Runs, v \in Users : s # r \/ v # u =>
             recipient'[s][v] = recipient[s][v] /\ seen'[s][v] = seen[s][v]
        BY <1>4, <2>2
    <2>9. \A s \in Runs \ {r} : task'[s] = task[s] /\ (OnPage(s) => task[s].user \in Users)
        BY <1>3, <2>3
    <2> QED BY <1>1, <1>4, <2>5, <2>7, <2>8, <2>9, FitsUser
<1>10. CASE ResumePages(r, u)
    <2> DEFINE row == recipient[r][u]
    <2>1. /\ recipient' = recipient /\ row # NoValue /\ ~IsComplete(row.status)
          /\ task' = [task EXCEPT ![r] = Sending(task[r], u, row.message_count, row.pages)]
        BY <1>10, Zenon DEF ResumePages, rows
    <2>2. /\ task'[r].at = "send" /\ task'[r].user = u
          /\ task'[r].page = row.message_count /\ task'[r].pages = row.pages
          /\ \A s \in Runs \ {r} : task'[s] = task[s]
        BY <1>1, <2>1, SendingLeaves, Zenon
    <2>3. RowFits(r, u)'
        BY <1>2, <1>4, <2>1, Zenon DEF RowFits
    <2>4. row.status # "deferred"
        BY <2>1 DEF IsComplete
    <2>5. row.message_count <= seen[r][u] /\ seen[r][u] <= row.pages
        BY <1>2, <2>1, <2>4, Zenon DEF RowFits
    <2>6. row.message_count \in 0..MaxPages /\ row.pages \in 0..MaxPages
        BY <1>2, <2>1, SMT DEF RecipientRow
    <2>7. row.message_count <= row.pages
        BY <1>2, <2>5, <2>6, BoundsAssumption, SMT
    <2>8. TurnFits(r)'
        BY <1>4, <2>1, <2>2, <2>5, <2>7, SMT DEF TurnFits, OnPage
    <2> QED BY <1>1, <1>3, <1>4, <2>1, <2>2, <2>3, <2>8, FitsUser, Zenon
<1> QED BY <1>7, <1>8, <1>9, <1>10

\* A page is sent, and its outcome recorded.
LEMMA FitsPage ==
    ASSUME PInv, NEW r \in Runs, NEW u \in Users, task[r].user = u,
           SendPage(r) \/ RecordPage(r) \/ RecordError(r) \/ UserSent(r)
    PROVE  Fits'
<1> DEFINE t == task[r]
           row == recipient[r][u]
<1>1. TypeOK /\ Fits /\ PagesLeft /\ OnPage(r)
    BY Zenon DEF PInv, IInv, PagesLeft, OnPage, SendPage, RecordPage, RecordError, UserSent
<1>2. \A s \in Runs : OnPage(s) => task[s].user \in Users
    BY <1>1, Zenon DEF PagesLeft, OnPage
<1>3. /\ t.page \in Nat /\ t.pages \in Nat /\ seen[r][u] \in Nat
      /\ t.outcome \in Outcomes
      /\ row # NoValue =>
            row.pages \in Nat /\ row.message_count \in Nat /\ row.status \in UserStatus
    <2>1. task[r] \in Task /\ seen[r][u] \in 0..MaxPages
          /\ (row # NoValue => row \in RecipientRow)
        BY <1>1, Types
    <2> QED BY <2>1, BoundsAssumption, SMT DEF Task, RecipientRow
<1>4. /\ t.page <= t.pages /\ t.page <= seen[r][u]
      /\ t.at = "record" /\ t.outcome = "sent" => t.page < seen[r][u]
      /\ row = NoValue => u \in gone
      /\ row # NoValue => /\ row.message_count = t.page /\ row.pages = t.pages
                          /\ ~IsComplete(row.status)
    BY <1>1, Zenon DEF Fits, TurnFits
<1>5. gone' = gone
    BY Zenon DEF SendPage, RecordPage, RecordError, UserSent, people
<1>6. ASSUME row # NoValue
      PROVE  /\ u \notin gone /\ row.status \notin {"deferred", "sent"}
             /\ seen[r][u] <= row.pages
    <2>1. RowFits(r, u)
        BY <1>1, Zenon DEF Fits
    <2>2. row.status # "deferred" /\ row.status # "sent"
        BY <1>4, <1>6, SMT DEF IsComplete
    <2> QED BY <1>6, <2>1, <2>2, SMT DEF RowFits
<1>7. CASE SendPage(r)
    <2>1. PICK outcome \in Outcomes : \E hidden \in 0..3 :
             LET copies == hidden + (IF outcome = "sent" THEN 1 ELSE 0)
                 first  == seen[r][u] <= t.page
             IN /\ seen' = IF first /\ copies > 0
                           THEN [seen EXCEPT ![r][u] = t.page + 1] ELSE seen
                /\ task' = [task EXCEPT ![r] = Recording(task[r], outcome)]
        BY <1>7, Zenon DEF SendPage
    <2>2. /\ t.page < t.pages /\ recipient' = recipient
        BY <1>7, Zenon DEF SendPage, rows
    <2>3. /\ task'[r].at = "record" /\ task'[r].user = u
          /\ task'[r].page = t.page /\ task'[r].pages = t.pages
          /\ task'[r].outcome = outcome
          /\ \A s \in Runs \ {r} : task'[s] = task[s]
        BY <1>1, <2>1, RecordingLeaves
    <2>4. \/ seen[r][u] <= t.page /\ seen'[r][u] = t.page + 1
          \/ seen'[r][u] = seen[r][u] /\ (outcome = "sent" => t.page < seen[r][u])
        <3>1. seen \in [Runs -> [Users -> 0..MaxPages]]
            BY <1>1, Types, Zenon
        <3>2. CASE seen[r][u] <= t.page /\ outcome = "sent"
            <4>1. \A hidden \in 0..3 : hidden + 1 > 0
                BY SMT
            <4>2. seen' = [seen EXCEPT ![r][u] = t.page + 1]
                BY <2>1, <3>2, <4>1
            <4>3. seen'[r][u] = t.page + 1
                BY <1>1, <3>1, <4>2
            <4> QED BY <3>2, <4>3
        <3>3. CASE ~(seen[r][u] <= t.page /\ outcome = "sent")
            <4>1. seen' = seen \/ (seen[r][u] <= t.page /\ seen' = [seen EXCEPT ![r][u] = t.page + 1])
                BY <2>1, Zenon
            <4>2. outcome = "sent" => t.page < seen[r][u]
                BY <1>3, <3>3, SMT
            <4> QED BY <1>1, <3>1, <4>1, <4>2
        <3> QED BY <3>2, <3>3
    <2>5. \A s \in Runs, v \in Users : s # r \/ v # u => seen'[s][v] = seen[s][v]
        <3>1. seen \in [Runs -> [Users -> 0..MaxPages]]
            BY <1>1, Types, Zenon
        <3>2. seen' = seen \/ seen' = [seen EXCEPT ![r][u] = t.page + 1]
            BY <2>1, Zenon
        <3> QED BY <1>1, <3>1, <3>2
    <2>6. t.page <= seen'[r][u] /\ (outcome = "sent" => t.page < seen'[r][u])
        BY <1>3, <1>4, <2>4, SMT
    <2>7. row # NoValue => seen'[r][u] <= row.pages /\ row.message_count <= seen'[r][u]
        BY <1>3, <1>4, <1>6, <2>2, <2>4, SMT
    <2>8. RowFits(r, u)'
        <3>1. recipient'[r][u] = row
            BY <2>2
        <3>2. /\ u \in gone => row = NoValue
              /\ row = NoValue => u \in gone
              /\ row # NoValue => row.status # "sent"
            BY <1>4, <1>6
        <3> QED BY <1>5, <2>7, <3>1, <3>2, Zenon DEF RowFits
    <2>9. TurnFits(r)'
        BY <1>4, <1>5, <2>2, <2>3, <2>6, SMT DEF TurnFits, OnPage
    <2>10. \A s \in Runs \ {r} : task'[s] = task[s] /\ (OnPage(s) => task[s].user \in Users)
        BY <1>2, <2>3
    <2>11. \A s \in Runs, v \in Users : s # r \/ v # u =>
              recipient'[s][v] = recipient[s][v] /\ seen'[s][v] = seen[s][v]
        BY <2>2, <2>5
    <2> HIDE DEF t, row
    <2> QED BY <1>1, <1>5, <2>8, <2>9, <2>10, <2>11, FitsUser
<1>8. ASSUME seen' = seen, row # NoValue, NEW status \in UserStatus \ {"deferred"}, NEW count \in Nat,
             Record(r, u, Row(status, row.pages, count)),
             count <= seen[r][u], status = "sent" => seen[r][u] = row.pages,
             TurnFits(r)', \A s \in Runs \ {r} : task'[s] = task[s]
      PROVE  Fits'
    <2>1. /\ recipient'[r][u] = Row(status, row.pages, count)
          /\ \A s \in Runs, v \in Users : s # r \/ v # u => recipient'[s][v] = recipient[s][v]
        BY <1>1, <1>8, RecordLeaves
    <2>2. RowFits(r, u)'
        <3>1. u \notin gone' /\ seen'[r][u] = seen[r][u] /\ seen[r][u] <= row.pages
            BY <1>5, <1>6, <1>8
        <3>2. Row(status, row.pages, count) # NoValue
            <4>1. row \in RecipientRow
                BY <1>1, <1>8, Types
            <4>2. row.pages \in 0..MaxPages /\ count \in 0..MaxPages
                <5>1. seen[r][u] \in 0..MaxPages
                    BY <1>1, Types, Zenon
                <5>2. row.pages \in 0..MaxPages
                    BY <4>1, SMT DEF RecipientRow
                <5> QED BY <1>8, <5>1, <5>2, BoundsAssumption, SMT
            <4> QED BY <1>8, <4>2, MadeRow, NoRowAssumption
        <3>3. /\ recipient'[r][u] # NoValue /\ recipient'[r][u].status = status
              /\ recipient'[r][u].pages = row.pages /\ recipient'[r][u].message_count = count
            BY <2>1, <3>2, RowFields
        <3> HIDE DEF row
        <3> QED BY <1>8, <3>1, <3>3, Zenon DEF RowFits
    <2>3. \A s \in Runs \ {r} : task'[s] = task[s] /\ (OnPage(s) => task[s].user \in Users)
        BY <1>2, <1>8
    <2>4. \A s \in Runs, v \in Users : s # r \/ v # u =>
             recipient'[s][v] = recipient[s][v] /\ seen'[s][v] = seen[s][v]
        BY <1>8, <2>1
    <2> HIDE DEF t, row
    <2> QED BY <1>1, <1>5, <1>8, <2>2, <2>3, <2>4, FitsUser
<1>9. ASSUME Goto(r, "failing"), UNCHANGED <<recipient, seen>>
      PROVE  Fits'
    <2>1. \A s \in Runs : task'[s] = task[s] \/ task'[s].at \notin {"send", "record"}
        BY <1>1, <1>9, OffPage
    <2> QED BY <1>1, <1>5, <1>9, <2>1, FitsTask
<1>10. ASSUME Leave(r, u)
       PROVE  TurnFits(r)' /\ \A s \in Runs \ {r} : task'[s] = task[s]
    <2>1. task'[r].at = "users" /\ \A s \in Runs \ {r} : task'[s] = task[s]
        BY <1>1, <1>10, OffPage
    <2> QED BY <2>1 DEF TurnFits, OnPage
<1>11. CASE RecordPage(r)
    <2>1. seen' = seen /\ t.at = "record" /\ t.outcome = "sent"
        BY <1>11, Zenon DEF RecordPage, history
    <2>2. CASE row = NoValue
        BY <1>9, <1>11, <2>1, <2>2, Zenon DEF RecordPage, rows
    <2>3. CASE row # NoValue
        <3>1. /\ Record(r, u, Row(row.status, row.pages, t.page + 1))
              /\ task' = [task EXCEPT ![r] = Sending(task[r], u, t.page + 1, t.pages)]
            BY <1>11, <2>3, Zenon DEF RecordPage
        <3>2. /\ task'[r].at = "send" /\ task'[r].user = u
              /\ task'[r].page = t.page + 1 /\ task'[r].pages = t.pages
              /\ \A s \in Runs \ {r} : task'[s] = task[s]
            BY <1>1, <3>1, SendingLeaves
        <3>3. /\ recipient'[r][u] = Row(row.status, row.pages, t.page + 1)
            BY <1>1, <3>1, RecordLeaves
        <3>4. t.page + 1 \in Nat /\ t.page + 1 <= seen[r][u] /\ t.page + 1 <= t.pages
            <4>1. t.page < t.pages
                BY <1>1, <2>1, Zenon DEF PagesLeft
            <4> QED BY <1>3, <1>4, <2>1, <4>1, SMT
        <3>5. u \notin gone /\ row.status \in UserStatus \ {"deferred"} /\ row.status # "sent"
              /\ ~IsComplete(row.status)
            BY <1>3, <1>4, <1>6, <2>3
        <3>6. TurnFits(r)'
            <4>1. recipient'[r][u].message_count = t.page + 1 /\ recipient'[r][u].pages = t.pages
                  /\ recipient'[r][u].status = row.status
                BY <1>4, <2>3, <3>3, RowFields
            <4>2. Row(row.status, row.pages, t.page + 1) # NoValue
                <5>1. row.pages \in 0..MaxPages /\ t.page + 1 \in 0..MaxPages
                    <6>1. seen[r][u] \in 0..MaxPages
                        BY <1>1, Types, Zenon
                    <6>2. row \in RecipientRow
                        BY <1>1, <2>3, Types
                    <6>3. row.pages \in 0..MaxPages
                        BY <6>2, SMT DEF RecipientRow
                    <6> QED BY <3>4, <6>1, <6>3, BoundsAssumption, SMT
                <5> QED BY <3>5, <5>1, MadeRow, NoRowAssumption
            <4> QED BY <2>1, <3>2, <3>3, <3>4, <3>5, <4>1, <4>2, SMT DEF TurnFits, OnPage
        <3> QED BY <1>8, <2>1, <2>3, <3>1, <3>2, <3>4, <3>5, <3>6
    <2> QED BY <2>2, <2>3
<1>12. CASE RecordError(r)
    <2>1. seen' = seen /\ t.outcome # "sent"
        BY <1>12, Zenon DEF RecordError, history
    <2>2. CASE row = NoValue
        BY <1>9, <1>12, <2>1, <2>2, Zenon DEF RecordError, rows
    <2>3. CASE row # NoValue
        <3>1. /\ Record(r, u, Row(t.outcome, row.pages, row.message_count)) /\ Leave(r, u)
            BY <1>12, <2>3, Zenon DEF RecordError
        <3>2. t.outcome \in UserStatus \ {"deferred"}
            BY <1>3 DEF UserStatus, Outcomes
        <3>3. row.message_count \in Nat /\ row.message_count <= seen[r][u]
            BY <1>3, <1>4, <2>3
        <3> QED BY <1>8, <1>10, <2>1, <2>3, <3>1, <3>2, <3>3
    <2> QED BY <2>2, <2>3
<1>13. CASE UserSent(r)
    <2>1. seen' = seen /\ t.page >= t.pages
        BY <1>13, Zenon DEF UserSent, history
    <2>2. CASE row = NoValue
        BY <1>9, <1>13, <2>1, <2>2, Zenon DEF UserSent, rows
    <2>3. CASE row # NoValue
        <3>1. /\ Record(r, u, Row("sent", row.pages, row.message_count)) /\ Leave(r, u)
            BY <1>13, <2>3, Zenon DEF UserSent
        <3>2. "sent" \in UserStatus \ {"deferred"}
            BY DEF UserStatus, Outcomes
        <3>3. row.message_count \in Nat /\ row.message_count <= seen[r][u]
            BY <1>3, <1>4, <2>3
        <3>4. seen[r][u] = row.pages
            BY <1>3, <1>4, <1>6, <2>1, <2>3, SMT
        <3> QED BY <1>8, <1>10, <2>1, <2>3, <3>1, <3>2, <3>3, <3>4
    <2> QED BY <2>2, <2>3
<1> QED BY <1>7, <1>11, <1>12, <1>13

\* The rows of a deleted user vanish.
LEMMA FitsDelete ==
    ASSUME PInv, NEW u \in Users, DeleteUser(u)
    PROVE  Fits'
<1>1. TypeOK /\ Fits /\ PagesLeft
    BY DEF PInv, IInv
<1>2. /\ gone' = gone \cup {u} /\ task' = task /\ seen' = seen
      /\ recipient' = [r \in Runs |-> [recipient[r] EXCEPT ![u] = NoValue]]
    BY Zenon DEF DeleteUser, history
<1>3. \A r \in Runs, v \in Users :
         recipient'[r][v] = IF v = u THEN NoValue ELSE recipient[r][v]
    BY <1>1, <1>2, Types
<1>4. ASSUME NEW r \in Runs, NEW v \in Users PROVE RowFits(r, v)'
    <2>1. CASE v = u
        BY <1>2, <1>3, <2>1 DEF RowFits
    <2>2. CASE v # u
        <3>1. RowFits(r, v) /\ recipient'[r][v] = recipient[r][v] /\ (v \in gone' <=> v \in gone)
            BY <1>1, <1>2, <1>3, <2>2 DEF Fits
        <3> QED BY <1>2, <3>1, Zenon DEF RowFits
    <2> QED BY <2>1, <2>2
<1>5. ASSUME NEW r \in Runs PROVE TurnFits(r)'
    <2>1. CASE OnPage(r)
        <3>1. task[r].user \in Users /\ TurnFits(r)
            BY <1>1, <2>1, Zenon DEF PagesLeft, OnPage, Fits
        <3>2. recipient'[r][task[r].user] =
                 IF task[r].user = u THEN NoValue ELSE recipient[r][task[r].user]
            BY <1>3, <3>1
        <3>3. task[r].user \in gone => task[r].user \in gone'
            BY <1>2
        <3>4. CASE task[r].user = u
            BY <1>2, <2>1, <3>1, <3>2, <3>4 DEF TurnFits
        <3>5. CASE task[r].user # u
            BY <1>2, <2>1, <3>1, <3>2, <3>3, <3>5, Zenon DEF TurnFits
        <3> QED BY <3>4, <3>5
    <2>2. CASE ~OnPage(r)
        BY <1>2, <2>2, Zenon DEF TurnFits, OnPage
    <2> QED BY <2>1, <2>2
<1> QED BY <1>4, <1>5, Zenon DEF Fits

\* The steps that say nothing of pages.
Elsewhere ==
    \/ \E r \in Runs :
          \/ CreateRun(r) \/ Start(r) \/ NextBatch(r) \/ BatchDone(r) \/ Finish(r) \/ Fail(r)
          \/ LockExpires(r) \/ FailUnrecorded(r) \/ \E u \in task[r].todo : SkipUser(r, u)
    \/ Restart \/ \E u \in Users : Watch(u) \/ Unwatch(u)
    \/ UNCHANGED vars

\* They leave rows and histories alone, and every task that is on a page.
LEMMA ElsewhereKeeps ==
    ASSUME PInv, Elsewhere
    PROVE  /\ UNCHANGED <<recipient, gone, seen, repeats>>
           /\ \A r \in Runs : \/ task'[r] = task[r]
                              \/ ~OnPage(r) /\ task'[r].at \notin {"send", "record"}
<1>0. TypeOK /\ task \in [Runs -> Task]
    BY Types DEF PInv, IInv
<1> DEFINE Kept == UNCHANGED <<recipient, gone, seen, repeats>>
           Away == \A r \in Runs : \/ task'[r] = task[r]
                                   \/ ~OnPage(r) /\ task'[r].at \notin {"send", "record"}
<1>1. ASSUME NEW r \in Runs, CreateRun(r) PROVE Kept /\ Away
    <2>1. runs[r] = NoValue /\ task' = [task EXCEPT ![r] = NewTask]
        BY <1>1, Zenon DEF CreateRun
    <2>2. task[r].at = "none"
        BY <2>1 DEF PInv, IInv, Exclusive, Active
    <2>3. task'[r].at = "wait" /\ \A s \in Runs \ {r} : task'[s] = task[s]
        BY <1>0, <2>1 DEF NewTask, Idle
    <2>4. Away
        BY <2>2, <2>3 DEF OnPage
    <2> QED BY <1>1, <2>4, Zenon DEF CreateRun, people, history
<1>2. ASSUME NEW r \in Runs, Start(r) \/ BatchDone(r) \/ Finish(r) \/ Fail(r) \/ FailUnrecorded(r)
      PROVE  Kept /\ Away
    <2>1. task[r].at \in {"wait", "users", "batch", "failing"}
        BY <1>2, SMT DEF Start, BatchDone, Finish, Fail, FailUnrecorded
    <2>2. Goto(r, "batch") \/ EndTask(r)
        BY <1>2, Zenon DEF Start, BatchDone, Finish, Fail, FailUnrecorded
    <2>3. Away
        BY <1>0, <2>1, <2>2, OffPage DEF OnPage
    <2> QED BY <1>2, <2>3, Zenon DEF Start, BatchDone, Finish, Fail, FailUnrecorded,
               rows, people, history
<1>3. ASSUME NEW r \in Runs, NextBatch(r) PROVE Kept /\ Away
    <2>1. task[r].at = "batch" /\ \E last, batch : task' = [task EXCEPT ![r] = InBatch(last, batch)]
        BY <1>3, Zenon DEF NextBatch
    <2>2. task'[r].at = "users" /\ \A s \in Runs \ {r} : task'[s] = task[s]
        BY <1>0, <2>1 DEF InBatch
    <2>3. Away
        BY <2>1, <2>2 DEF OnPage
    <2> QED BY <1>3, <2>3, Zenon DEF NextBatch, rows, people, history
<1>4. ASSUME NEW r \in Runs, NEW u, SkipUser(r, u) PROVE Kept /\ Away
    <2>1. task[r].at = "users" /\ Leave(r, u)
        BY <1>4, Zenon DEF SkipUser, IsNext
    <2>2. Away
        BY <1>0, <2>1, OffPage DEF OnPage
    <2> QED BY <1>4, <2>2, Zenon DEF SkipUser, rows, people, history
<1>5. CASE Restart
    <2>1. \A r \in Runs : task[r].at = "none"
        BY <1>5 DEF Restart, PInv, DownIdle
    <2>2. \A r \in Runs : task'[r] \in {NoTask, NewTask}
        BY <1>5 DEF Restart
    <2>3. Away
        BY <2>1, <2>2 DEF OnPage, NoTask, NewTask, Idle
    <2> QED BY <1>5, <2>3, Zenon DEF Restart, rows, people, history
<1>6. CASE \/ \E r \in Runs : LockExpires(r)
           \/ \E u \in Users : Watch(u) \/ Unwatch(u)
           \/ UNCHANGED vars
    BY <1>6, Zenon DEF LockExpires, Watch, Unwatch, vars, rows, people, history
<1> QED BY <1>1, <1>2, <1>3, <1>4, <1>5, <1>6, Zenon DEF Elsewhere

\* The faults that end a task's turn: rows and histories stay.
LEMMA Interrupted ==
    ASSUME PInv, Crash \/ Shutdown \/ \E r \in Runs : DatabaseFails(r)
    PROVE  /\ UNCHANGED <<recipient, gone, seen, repeats>> /\ faults' = faults + 1
           /\ \A r \in Runs : task'[r] = task[r] \/ task'[r].at \notin {"send", "record"}
<1>0. TypeOK
    BY DEF PInv, IInv
<1>1. ASSUME NEW r \in Runs, DatabaseFails(r)
      PROVE  \A s \in Runs : task'[s] = task[s] \/ task'[s].at \notin {"send", "record"}
    BY <1>0, <1>1, OffPage DEF DatabaseFails
<1>2. CASE Crash \/ Shutdown
    <2>1. \A r \in Runs : task'[r] = NoTask
        BY <1>2 DEF Crash, Shutdown
    <2>2. \A r \in Runs : task'[r].at \notin {"send", "record"}
        BY <2>1 DEF NoTask, Idle
    <2> QED BY <1>2, <2>2, Zenon DEF Crash, Shutdown, rows, people
<1>3. ASSUME NEW r \in Runs, DatabaseFails(r)
      PROVE  UNCHANGED <<recipient, gone, seen, repeats>> /\ faults' = faults + 1
    BY <1>3, Zenon DEF DatabaseFails, rows, people
<1> QED BY <1>1, <1>2, <1>3

\* A user's turn, a page, a user who is deleted, a fault, or a step elsewhere.
LEMMA Steps ==
    ASSUME PInv, [Next]_vars
    PROVE  \/ Elsewhere
           \/ Crash \/ Shutdown \/ \E r \in Runs : DatabaseFails(r)
           \/ \E u \in Users : DeleteUser(u)
           \/ \E r \in Runs, u \in Users :
                 NoDeals(r, u) \/ Defer(r, u) \/ StorePages(r, u) \/ ResumePages(r, u)
           \/ \E r \in Runs, u \in Users :
                 /\ task[r].user = u
                 /\ SendPage(r) \/ RecordPage(r) \/ RecordError(r) \/ UserSent(r)
<1>1. ASSUME NEW r \in Runs PROVE task[r].todo \subseteq Users
    <2>1. task[r] \in Task
        BY Types DEF PInv, IInv
    <2> QED BY <2>1, SMT DEF Task
<1>2. ASSUME NEW r \in Runs, SendPage(r) \/ RecordPage(r) \/ RecordError(r) \/ UserSent(r)
      PROVE  task[r].user \in Users
    BY <1>2, Zenon DEF PInv, IInv, PagesLeft, SendPage, RecordPage, RecordError, UserSent
<1>3. ASSUME NEW r \in Runs, ProcessUser(r)
      PROVE  \/ \E u \in task[r].todo : SkipUser(r, u)
             \/ \E u \in Users :
                   NoDeals(r, u) \/ Defer(r, u) \/ StorePages(r, u) \/ ResumePages(r, u)
             \/ \E u \in Users :
                   /\ task[r].user = u
                   /\ SendPage(r) \/ RecordPage(r) \/ RecordError(r) \/ UserSent(r)
    BY <1>1, <1>2, <1>3, Zenon DEF ProcessUser
<1> QED BY <1>3, Zenon DEF Next, TaskStep, Elsewhere

LEMMA FitsNext == PInv /\ [Next]_vars => Fits'
<1> SUFFICES ASSUME PInv, [Next]_vars PROVE Fits'
    OBVIOUS
<1>0. Fits
    BY DEF PInv
<1>1. CASE Elsewhere
    BY <1>0, <1>1, ElsewhereKeeps, FitsTask
<1>2. CASE Crash \/ Shutdown \/ \E r \in Runs : DatabaseFails(r)
    BY <1>0, <1>2, Interrupted, FitsTask
<1> QED BY <1>1, <1>2, Steps, FitsTurn, FitsPage, FitsDelete, Zenon

LEMMA DownIdleNext == PInv /\ [Next]_vars => DownIdle'
<1> SUFFICES ASSUME PInv, [Next]_vars, ~up' PROVE \A r \in Runs : task'[r].at = "none"
    BY DEF DownIdle
<1>1. CASE up
    <2>1. CASE Crash \/ Shutdown
        BY <2>1 DEF Crash, Shutdown, NoTask, Idle
    <2>2. CASE ~(Crash \/ Shutdown)
        <3>1. ASSUME NEW r \in Runs, ProcessUser(r) PROVE up' = up
            BY <3>1, Zenon DEF ProcessUser, SkipUser, NoDeals, Defer, StorePages, ResumePages,
               SendPage, RecordPage, RecordError, UserSent, process
        <3>2. ASSUME NEW r \in Runs, Start(r) \/ NextBatch(r) \/ BatchDone(r) \/ Finish(r) \/ Fail(r)
              PROVE  up' = up
            BY <3>2, Zenon DEF Start, NextBatch, BatchDone, Finish, Fail, process
        <3>3. ASSUME NEW r \in Runs,
                     CreateRun(r) \/ LockExpires(r) \/ DatabaseFails(r) \/ FailUnrecorded(r)
              PROVE  up' = up
            BY <3>3, Zenon DEF CreateRun, LockExpires, DatabaseFails, FailUnrecorded, process
        <3>4. ASSUME NEW u \in Users, Watch(u) \/ Unwatch(u) \/ DeleteUser(u) PROVE up' = up
            BY <3>4, Zenon DEF Watch, Unwatch, DeleteUser, process
        <3>5. Restart \/ UNCHANGED vars => up' = up
            BY <1>1, Zenon DEF Restart, vars, process
        <3>6. up' = up
            BY <2>2, <3>1, <3>2, <3>3, <3>4, <3>5, Zenon DEF Next, TaskStep
        <3> QED BY <1>1, <3>6
    <2> QED BY <2>1, <2>2
<1>2. CASE ~up
    <2>1. \A r \in Runs : task[r].at = "none"
        BY <1>2 DEF PInv, DownIdle
    <2>2. ASSUME NEW r \in Runs,
                 CreateRun(r) \/ TaskStep(r) \/ DatabaseFails(r) \/ FailUnrecorded(r)
          PROVE  FALSE
        <3>1. task[r].at \notin {"wait", "batch", "users", "send", "record", "failing"}
            BY <2>1
        <3>2. \A u : ~IsNext(r, u)
            BY <2>1 DEF IsNext
        <3>3. ~ProcessUser(r)
            BY <3>1, <3>2, Zenon DEF ProcessUser, SkipUser, NoDeals, Defer, StorePages,
               ResumePages, FirstTime, SendPage, RecordPage, RecordError, UserSent
        <3> QED BY <1>2, <2>2, <3>1, <3>3, Zenon DEF CreateRun, TaskStep, Start, NextBatch,
                   BatchDone, Finish, Fail, DatabaseFails, FailUnrecorded
    <2>3. CASE \/ \E r \in Runs : LockExpires(r)
               \/ \E u \in Users : Watch(u) \/ Unwatch(u) \/ DeleteUser(u)
               \/ UNCHANGED vars
        <3>1. task' = task
            BY <2>3, Zenon DEF LockExpires, Watch, Unwatch, DeleteUser, vars
        <3> QED BY <2>1, <3>1
    <2>4. ~(Restart \/ Crash \/ Shutdown)
        BY <1>2, Zenon DEF Restart, Crash, Shutdown
    <2> QED BY <2>2, <2>3, <2>4, Zenon DEF Next
<1> QED BY <1>1, <1>2

LEMMA PInit == Init => PInv
<1> SUFFICES ASSUME Init PROVE PInv
    OBVIOUS
<1>1. \A r \in Runs, u \in Users : RowFits(r, u)
    BY SMT DEF Init, RowFits
<1>2. \A r \in Runs : TurnFits(r)
    BY SMT DEF Init, TurnFits, OnPage, NoTask, Idle
<1> QED BY <1>1, <1>2, Initially DEF PInv, Fits, DownIdle, Init

LEMMA PInductive == PInv /\ [Next]_vars => PInv'
BY Inductive, FitsNext, DownIdleNext DEF PInv

\* What the rows say was sent did arrive, whatever the number of users, pages,
\* resumptions and faults.
THEOREM SentPagesHold == Spec => []SentPagesArrived
<1>1. PInv => SentPagesArrived
    BY Zenon DEF PInv, Fits, RowFits, SentPagesArrived
<1> QED BY PInit, PInductive, <1>1, PTL DEF Spec

-----------------------------------------------------------------------------
(* The refinement: every step is a step of Delivery or a stutter.          *)

LEMMA Message ==
    /\ \A m \in Pages : /\ m[1] \in Runs /\ m[2] \in Users
                        /\ m[3] \in Nat /\ m[3] < MaxPages
    /\ \A m, n \in Pages : m[1] = n[1] /\ m[2] = n[2] /\ m[3] = n[3] => m = n
    /\ \A r \in Runs, u \in Users, page \in 0..MaxPages - 1 :
          /\ <<r, u, page>> \in Pages
          /\ \A m \in Pages : m[1] = r /\ m[2] = u /\ m[3] = page => m = <<r, u, page>>
<1>1. MaxPages \in Nat
    BY BoundsAssumption
<1> QED BY <1>1, SMT DEF Pages

LEMMA RefineInit == Init => D!Init
<1> SUFFICES ASSUME Init PROVE D!Init
    OBVIOUS
<1>1. \A m \in Pages : ~(m[3] < seen[m[1]][m[2]])
    BY Message, SMT DEF Init
<1>2. \A m \in Pages : ~Recorded(m) /\ m[2] \notin gone
    BY Message, SMT DEF Init, Recorded
<1>3. \A m \in Pages : ~OnItsWay(m)
    BY Message, SMT DEF Init, OnItsWay, NoTask, Idle
<1>4. Got = {} /\ Noted = {} /\ InFlight = {}
    BY <1>1, <1>2, <1>3, Zenon DEF Got, Noted, InFlight
<1> QED BY <1>4, Zenon DEF D!Init, Init

\* A task that is not on a page has no message on its way.
LEMMA Off ==
    ASSUME NEW m \in Pages, ~OnPage(m[1])
    PROVE  ~OnItsWay(m) /\ m \notin InFlight
BY Zenon DEF OnItsWay, OnPage, InFlight

\* One task at a time is on a page, and it has one message on its way.
LEMMA OneInFlight ==
    ASSUME PInv, NEW m \in InFlight, NEW n \in InFlight
    PROVE  m = n
<1>1. m \in Pages /\ n \in Pages /\ OnItsWay(m) /\ OnItsWay(n)
    BY DEF InFlight
<1>2. task[m[1]].at # "none" /\ task[n[1]].at # "none"
    BY DEF InFlight
<1>3. m[1] = n[1]
    BY <1>1, <1>2, Message, Zenon DEF PInv, IInv, Exclusive
<1>4. m[2] = n[2] /\ m[3] = n[3]
    BY <1>1, <1>3, Zenon DEF OnItsWay
<1> QED BY <1>1, <1>3, <1>4, Message, Zenon

\* Delivery's Note, by what it says of each message.
LEMMA NoteStep ==
    ASSUME UNCHANGED <<seen, repeats, faults>>,
           \A m \in Pages : /\ m \in Noted => m \in Noted'
                            /\ m \in InFlight' => m \in InFlight
                            /\ m \in InFlight => m \in InFlight' \/ m \in Noted'
    PROVE  D!Note
<1>1. Got' = Got
    BY Zenon DEF Got
<1>2. Noted \subseteq Pages /\ Noted' \subseteq Pages /\ InFlight \subseteq Pages /\ InFlight' \subseteq Pages
    BY Zenon DEF Noted, InFlight
<1>3. Noted' \in SUBSET Pages /\ Noted \subseteq Noted'
    BY <1>2
<1>4. InFlight' \in SUBSET InFlight /\ InFlight \ Noted' \subseteq InFlight'
    BY <1>2
<1> QED BY <1>1, <1>3, <1>4, Zenon DEF D!Note

\* Elsewhere nothing happens to the pages, but a failure may be counted.
LEMMA RefineElsewhere ==
    ASSUME PInv, Elsewhere
    PROVE  [D!Next]_D!vars
<1>1. /\ UNCHANGED <<recipient, gone, seen, repeats>>
      /\ \A r \in Runs : \/ task'[r] = task[r]
                         \/ ~OnPage(r) /\ task'[r].at \notin {"send", "record"}
    BY ElsewhereKeeps
<1>2. ASSUME NEW m \in Pages
      PROVE  /\ OnItsWay(m)' <=> OnItsWay(m)
             /\ (m \in InFlight)' <=> m \in InFlight
             /\ Recorded(m)' <=> Recorded(m)
    <2>1. m[1] \in Runs
        BY Message
    <2>2. CASE task'[m[1]] = task[m[1]]
        BY <1>1, <2>2, Zenon DEF OnItsWay, InFlight, Recorded
    <2>3. CASE ~OnPage(m[1]) /\ task'[m[1]].at \notin {"send", "record"}
        <3>1. ~OnItsWay(m) /\ m \notin InFlight
            BY <2>3, Off
        <3>2. ~OnItsWay(m)' /\ ~(m \in InFlight)'
            BY <2>3, Zenon DEF OnItsWay, InFlight
        <3> QED BY <1>1, <3>1, <3>2, Zenon DEF Recorded
    <2> QED BY <1>1, <2>1, <2>2, <2>3
<1>3. Got' = Got /\ Noted' = Noted /\ InFlight' = InFlight
    <2>1. Got' = Got
        BY <1>1, Zenon DEF Got
    <2>2. Noted' = Noted
        BY <1>1, <1>2, Zenon DEF Noted
    <2>3. InFlight' \subseteq Pages /\ InFlight \subseteq Pages
        BY Zenon DEF InFlight
    <2>4. \A m \in Pages : m \in InFlight' <=> m \in InFlight
        BY <1>2
    <2> QED BY <2>1, <2>2, <2>3, <2>4
<1>4. faults' = faults \/ faults' = faults + 1
    BY Zenon DEF Elsewhere, CreateRun, Start, NextBatch, BatchDone, Finish, Fail, LockExpires,
       FailUnrecorded, SkipUser, Restart, Watch, Unwatch, vars, history
<1>5. CASE faults' = faults
    BY <1>1, <1>3, <1>5, Zenon DEF D!vars
<1>6. CASE faults' = faults + 1
    <2>1. faults \in Nat
        BY Types DEF PInv, IInv
    <2>2. faults' \in Nat /\ faults' > faults
        BY <1>6, <2>1
    <2>3. Noted' \in SUBSET Pages
        BY Zenon DEF Noted
    <2>4. D!Fault
        BY <1>1, <1>3, <2>2, <2>3, Zenon DEF D!Fault
    <2> QED BY <2>4 DEF D!Next
<1> QED BY <1>4, <1>5, <1>6

\* An interrupted task may lose the note of the one message on its way.
LEMMA RefineInterrupted ==
    ASSUME PInv, Crash \/ Shutdown \/ \E r \in Runs : DatabaseFails(r)
    PROVE  D!Fault
<1>1. /\ UNCHANGED <<recipient, gone, seen, repeats>> /\ faults' = faults + 1
      /\ \A r \in Runs : task'[r] = task[r] \/ task'[r].at \notin {"send", "record"}
    BY Interrupted
<1>2. faults' \in Nat /\ faults' > faults
    <2>1. faults \in Nat
        BY Types DEF PInv, IInv
    <2> QED BY <1>1, <2>1
<1>3. ASSUME NEW m \in Pages
      PROVE  /\ OnItsWay(m)' => OnItsWay(m)
             /\ m \in InFlight' => m \in InFlight
             /\ Recorded(m)' <=> Recorded(m)
    <2>1. m[1] \in Runs
        BY Message
    <2>2. CASE task'[m[1]] = task[m[1]]
        BY <1>1, <2>2, Zenon DEF OnItsWay, InFlight, Recorded
    <2>3. CASE task'[m[1]].at \notin {"send", "record"}
        <3>1. ~OnItsWay(m)' /\ ~(m \in InFlight)'
            BY <2>3, Zenon DEF OnItsWay, InFlight
        <3> QED BY <1>1, <3>1, Zenon DEF Recorded
    <2> QED BY <1>1, <2>1, <2>2, <2>3
<1>4. Got' = Got
    BY <1>1, Zenon DEF Got
<1>5. Noted' \in SUBSET Pages /\ Noted \subseteq Noted'
    BY <1>1, <1>3, Zenon DEF Noted
<1>6. InFlight' = InFlight \/ \E m \in InFlight : InFlight' = InFlight \ {m}
    <2>1. InFlight' \subseteq InFlight
        <3>1. InFlight' \subseteq Pages
            BY Zenon DEF InFlight
        <3> QED BY <1>3, <3>1
    <2>2. \A m, n \in InFlight : m = n
        BY OneInFlight
    <2> QED BY <2>1, <2>2
<1> QED BY <1>1, <1>2, <1>4, <1>5, <1>6, Zenon DEF D!Fault

\* A user's turn begins: his pages are noted as deferred, or are still to come.
LEMMA RefineTurn ==
    ASSUME PInv, NEW r \in Runs, NEW u \in Users,
           NoDeals(r, u) \/ Defer(r, u) \/ StorePages(r, u) \/ ResumePages(r, u)
    PROVE  D!Note
<1>1. TypeOK
    BY DEF PInv, IInv
<1>2. /\ u \notin gone /\ gone' = gone /\ task[r].at = "users"
      /\ UNCHANGED <<seen, repeats, faults>>
    BY Zenon DEF NoDeals, Defer, StorePages, ResumePages, FirstTime, IsNext, people, history
<1>3. /\ \A s \in Runs \ {r} : task'[s] = task[s]
      /\ task'[r].at = "users" \/ (task'[r].at = "send" /\ task'[r].user = u)
    <2>1. CASE NoDeals(r, u) \/ Defer(r, u)
        <3>1. Leave(r, u)
            BY <2>1, Zenon DEF NoDeals, Defer
        <3> QED BY <1>1, <3>1, OffPage
    <2>2. CASE StorePages(r, u) \/ ResumePages(r, u)
        <3>1. PICK page, pages : task' = [task EXCEPT ![r] = Sending(task[r], u, page, pages)]
            BY <2>2, Zenon DEF StorePages, ResumePages
        <3> QED BY <1>1, <3>1, SendingLeaves, Zenon
    <2> QED BY <2>1, <2>2
<1>4. \/ recipient' = recipient
      \/ recipient[r][u] = NoValue /\ \E row : Record(r, u, row)
    BY Zenon DEF NoDeals, Defer, StorePages, ResumePages, FirstTime, rows
<1>5. ASSUME NEW m \in Pages
      PROVE  Recorded(m) => Recorded(m)'
    <2>1. CASE recipient' = recipient
        BY <2>1, Zenon DEF Recorded
    <2>2. ASSUME recipient[r][u] = NoValue, NEW row, Record(r, u, row), Recorded(m)
          PROVE  Recorded(m)'
        <3>1. m[1] \in Runs /\ m[2] \in Users /\ ~(m[1] = r /\ m[2] = u)
            BY <2>2, Message DEF Recorded
        <3>2. recipient'[m[1]][m[2]] = recipient[m[1]][m[2]]
            BY <1>1, <2>2, <3>1, RecordLeaves
        <3> QED BY <2>2, <3>2, Zenon DEF Recorded
    <2> QED BY <1>4, <2>1, <2>2
<1>6. ASSUME NEW m \in Pages
      PROVE  /\ m \in InFlight' <=> m \in InFlight
             /\ m[2] \in gone /\ OnItsWay(m)' => OnItsWay(m)
    <2>1. CASE m[1] = r
        <3>1. m \notin InFlight /\ m \notin InFlight'
            BY <1>2, <1>3, <2>1 DEF InFlight
        <3>2. OnItsWay(m)' => m[2] = u
            BY <1>3, <2>1 DEF OnItsWay
        <3> QED BY <1>2, <3>1, <3>2
    <2>2. CASE m[1] # r
        <3>1. task'[m[1]] = task[m[1]]
            BY <1>3, <2>2, Message
        <3> QED BY <3>1, Zenon DEF OnItsWay, InFlight
    <2> QED BY <2>1, <2>2
<1>7. \A m \in Pages : m \in Noted => m \in Noted'
    BY <1>2, <1>5, <1>6, Zenon DEF Noted
<1> QED BY <1>2, <1>6, <1>7, NoteStep

\* The outcome of a page is recorded, or its user is found to be gone.
LEMMA RefineRecord ==
    ASSUME PInv, NEW r \in Runs, NEW u \in Users, task[r].user = u,
           RecordPage(r) \/ RecordError(r) \/ UserSent(r)
    PROVE  D!Note
<1> DEFINE page == task[r].page
           row  == recipient[r][u]
<1>1. TypeOK /\ OnPage(r) /\ TurnFits(r)
    BY Zenon DEF PInv, IInv, Fits, OnPage, RecordPage, RecordError, UserSent
<1>2. gone' = gone /\ UNCHANGED <<seen, repeats, faults>>
    BY Zenon DEF RecordPage, RecordError, UserSent, people, history
<1>3. /\ row = NoValue => u \in gone
      /\ row # NoValue => row.message_count = page
    BY <1>1, Zenon DEF TurnFits
<1>4. u \in gone => row = NoValue
    BY Zenon DEF PInv, Fits, RowFits
<1>5. page \in Nat
    <2>1. task[r] \in Task
        BY <1>1, Types
    <2> QED BY <2>1, BoundsAssumption, SMT DEF Task
<1>6. ASSUME task'[r].at \notin {"send", "record"} \/ u \notin gone,
             task'[r].at \in {"send", "record"} => task'[r].user = u,
             task'[r].at # "record",
             \A s \in Runs \ {r} : task'[s] = task[s],
             \A m \in Pages : Recorded(m) => Recorded(m)',
             \A m \in Pages : m[1] = r /\ m \in InFlight => m \in Noted'
      PROVE  D!Note
    <2>1. ASSUME NEW m \in Pages
          PROVE  /\ m[2] \in gone /\ OnItsWay(m)' => OnItsWay(m)
                 /\ m \in InFlight' => m \in InFlight
                 /\ m \in InFlight => m \in InFlight' \/ m \in Noted'
        <3>1. CASE m[1] = r
            <4>1. m \notin InFlight'
                BY <1>6, <3>1, Zenon DEF InFlight
            <4>2. ~(m[2] \in gone /\ OnItsWay(m)')
                BY <1>6, <3>1, Zenon DEF OnItsWay
            <4> QED BY <1>6, <3>1, <4>1, <4>2
        <3>2. CASE m[1] # r
            <4>1. task'[m[1]] = task[m[1]]
                BY <1>6, <3>2, Message
            <4> QED BY <4>1, Zenon DEF OnItsWay, InFlight
        <3> QED BY <3>1, <3>2
    <2>2. \A m \in Pages : m \in Noted => m \in Noted'
        BY <1>2, <1>6, <2>1, Zenon DEF Noted
    <2> QED BY <1>2, <2>1, <2>2, NoteStep
<1>7. CASE row = NoValue
    <2>1. /\ task'[r].at = "failing" /\ \A s \in Runs \ {r} : task'[s] = task[s]
          /\ recipient' = recipient
        BY <1>1, <1>7, OffPage, Zenon DEF RecordPage, RecordError, UserSent, rows
    <2>2. \A m \in Pages : Recorded(m) => Recorded(m)'
        BY <2>1, Zenon DEF Recorded
    <2>3. ASSUME NEW m \in Pages, m[1] = r, m \in InFlight PROVE m \in Noted'
        <3>1. m[2] = u /\ u \in gone'
            BY <1>2, <1>3, <1>7, <2>3, Zenon DEF InFlight, OnItsWay
        <3>2. ~OnItsWay(m)'
            BY <2>1, <2>3 DEF OnItsWay
        <3> QED BY <3>1, <3>2, Zenon DEF Noted
    <2> QED BY <1>6, <2>1, <2>2, <2>3
<1>8. CASE row # NoValue
    <2>1. u \notin gone
        BY <1>4, <1>8
    <2>2. PICK new \in RecipientRow :
             /\ Record(r, u, new) /\ new.message_count >= page
             /\ RecordPage(r) => new.message_count = page + 1
        <3>1. row \in RecipientRow
            BY <1>1, <1>8, Types
        <3>2. row.message_count = page
            BY <1>3, <1>8
        <3>3. CASE RecordPage(r)
            <4>1. Record(r, u, Row(row.status, row.pages, page + 1))
                BY <1>8, <3>3, Zenon DEF RecordPage
            <4>2. page < task[r].pages
                BY <3>3, Zenon DEF PInv, IInv, PagesLeft, RecordPage
            <4>3. task[r].pages \in 0..MaxPages
                <5>1. task[r] \in Task
                    BY <1>1, Types
                <5> QED BY <5>1, SMT DEF Task
            <4>4. row.status \in UserStatus /\ row.pages \in 0..MaxPages /\ page + 1 \in 0..MaxPages
                <5>1. row.status \in UserStatus /\ row.pages \in 0..MaxPages
                    BY <3>1, SMT DEF RecipientRow
                <5>2. page + 1 \in 0..MaxPages
                    BY <1>5, <4>2, <4>3, BoundsAssumption, SMT
                <5> QED BY <5>1, <5>2
            <4>5. Row(row.status, row.pages, page + 1) \in RecipientRow
                BY <4>4, MadeRow
            <4>6. Row(row.status, row.pages, page + 1).message_count = page + 1
                BY RowFields
            <4>7. page + 1 >= page
                BY <1>5, SMT
            <4> HIDE DEF page, row
            <4> QED BY <4>1, <4>5, <4>6, <4>7
        <3>4. ASSUME NEW status \in UserStatus, Record(r, u, Row(status, row.pages, row.message_count)),
                     ~RecordPage(r)
              PROVE  \E new \in RecipientRow :
                        /\ Record(r, u, new) /\ new.message_count >= page
                        /\ RecordPage(r) => new.message_count = page + 1
            <4>1. row.pages \in 0..MaxPages /\ row.message_count \in 0..MaxPages
                BY <3>1, SMT DEF RecipientRow
            <4>2. Row(status, row.pages, row.message_count) \in RecipientRow
                BY <4>1, MadeRow
            <4>3. Row(status, row.pages, row.message_count).message_count = page
                BY <3>2, RowFields
            <4>4. page >= page
                BY <1>5, SMT
            <4> HIDE DEF page, row
            <4> QED BY <3>4, <4>2, <4>3, <4>4
        <3>5. CASE RecordError(r)
            <4>1. Record(r, u, Row(task[r].outcome, row.pages, row.message_count))
                BY <1>8, <3>5, Zenon DEF RecordError
            <4>2. ~RecordPage(r)
                BY <3>5, Zenon DEF RecordError, RecordPage
            <4>3. task[r].outcome \in UserStatus
                <5>1. task[r] \in Task
                    BY <1>1, Types
                <5> QED BY <5>1, SMT DEF Task, UserStatus
            <4> QED BY <3>4, <4>1, <4>2, <4>3
        <3>6. CASE UserSent(r)
            <4>1. Record(r, u, Row("sent", row.pages, row.message_count))
                BY <1>8, <3>6, Zenon DEF UserSent
            <4>2. ~RecordPage(r)
                BY <3>6 DEF UserSent, RecordPage
            <4>3. "sent" \in UserStatus
                BY DEF UserStatus, Outcomes
            <4> QED BY <3>4, <4>1, <4>2, <4>3
        <3> QED BY <3>3, <3>5, <3>6
    <2>3. /\ task'[r].at \in {"send", "users"}
          /\ task'[r].at = "send" => task'[r].user = u
          /\ \A s \in Runs \ {r} : task'[s] = task[s]
        <3>1. CASE RecordPage(r)
            <4>1. PICK next, pages : task' = [task EXCEPT ![r] = Sending(task[r], u, next, pages)]
                BY <1>8, <3>1, Zenon DEF RecordPage
            <4> QED BY <1>1, <4>1, SendingLeaves
        <3>2. CASE RecordError(r) \/ UserSent(r)
            <4>1. Leave(r, u)
                BY <1>8, <3>2, Zenon DEF RecordError, UserSent
            <4> QED BY <1>1, <4>1, OffPage
        <3> QED BY <3>1, <3>2
    <2>4. /\ recipient'[r][u] = new /\ new # NoValue
          /\ \A s \in Runs, v \in Users : s # r \/ v # u => recipient'[s][v] = recipient[s][v]
        BY <1>1, <2>2, RecordLeaves, NoRowAssumption
    <2>5. ASSUME NEW m \in Pages, Recorded(m) PROVE Recorded(m)'
        <3>1. CASE m[1] = r /\ m[2] = u
            <4>1. m[3] < page /\ m[3] \in Nat
                BY <1>3, <1>8, <2>5, <3>1, Message DEF Recorded
            <4>2. new.message_count \in Nat
                BY <2>2, BoundsAssumption, SMT DEF RecipientRow
            <4>3. m[3] < new.message_count
                BY <1>5, <2>2, <4>1, <4>2, SMT
            <4> QED BY <2>4, <3>1, <4>3 DEF Recorded
        <3>2. CASE ~(m[1] = r /\ m[2] = u)
            <4>1. recipient'[m[1]][m[2]] = recipient[m[1]][m[2]]
                BY <2>4, <3>2, Message
            <4> QED BY <2>5, <4>1, Zenon DEF Recorded
        <3> QED BY <3>1, <3>2
    <2>6. ASSUME NEW m \in Pages, m[1] = r, m \in InFlight PROVE m \in Noted'
        <3>1. /\ m[2] = u /\ m[3] = page /\ task[r].at = "record" /\ task[r].outcome = "sent"
            BY <2>6, Zenon DEF InFlight, OnItsWay
        <3>2. RecordPage(r)
            BY <3>1, SMT DEF RecordError, UserSent
        <3>3. m[3] < new.message_count
            BY <1>5, <2>2, <3>1, <3>2, SMT
        <3>4. Recorded(m)'
            BY <2>4, <2>6, <3>1, <3>3 DEF Recorded
        <3> QED BY <3>4, Zenon DEF Noted
    <2> QED BY <1>6, <2>1, <2>3, <2>5, <2>6
<1> QED BY <1>7, <1>8

\* The pages of a deleted user are noted, but for the one on its way.
LEMMA RefineDelete ==
    ASSUME PInv, NEW u \in Users, DeleteUser(u)
    PROVE  D!Note
<1>1. /\ TypeOK /\ PagesLeft
    BY DEF PInv, IInv
<1>2. /\ gone' = gone \cup {u} /\ UNCHANGED <<task, seen, repeats, faults>>
      /\ recipient' = [r \in Runs |-> [recipient[r] EXCEPT ![u] = NoValue]]
    BY Zenon DEF DeleteUser, history
<1>3. ASSUME NEW m \in Pages
      PROVE  /\ OnItsWay(m)' <=> OnItsWay(m)
             /\ m \in InFlight' <=> m \in InFlight
    BY <1>2, Zenon DEF OnItsWay, InFlight
<1>4. ASSUME NEW m \in Pages, Recorded(m) PROVE m \in Noted'
    <2>1. m[1] \in Runs /\ m[2] \in Users /\ m[3] \in Nat
        BY Message
    <2>2. CASE m[2] = u
        <3>1. ~OnItsWay(m)
            <4>1. SUFFICES ASSUME OnItsWay(m) PROVE FALSE
                OBVIOUS
            <4>2. OnPage(m[1]) /\ task[m[1]].user = m[2] /\ task[m[1]].page = m[3]
                BY <4>1, Zenon DEF OnItsWay, OnPage
            <4>3. recipient[m[1]][m[2]].message_count = m[3]
                BY <1>4, <2>1, <4>2, Zenon DEF PInv, Fits, TurnFits, Recorded
            <4>4. m[3] < m[3]
                BY <1>4, <4>3, Zenon DEF Recorded
            <4> QED BY <2>1, <4>4, SMT
        <3> QED BY <1>2, <1>3, <2>2, <3>1 DEF Noted
    <2>3. CASE m[2] # u
        <3>1. recipient'[m[1]][m[2]] = recipient[m[1]][m[2]]
            BY <1>1, <1>2, <2>1, <2>3, Types
        <3>2. Recorded(m)'
            BY <1>4, <3>1, Zenon DEF Recorded
        <3> QED BY <3>2, Zenon DEF Noted
    <2> QED BY <2>2, <2>3
<1>5. ASSUME NEW m \in Pages, m \in Noted PROVE m \in Noted'
    <2>1. CASE Recorded(m)
        BY <1>4, <2>1
    <2>2. CASE m[2] \in gone /\ ~OnItsWay(m)
        BY <1>2, <1>3, <2>2 DEF Noted
    <2> QED BY <1>5, <2>1, <2>2, Zenon DEF Noted
<1> QED BY <1>2, <1>3, <1>5, NoteStep

\* Copies that arrived, and the repeats among them.
LEMMA Copies ==
    ASSUME NEW f \in Nat, NEW f2, NEW hidden \in 0..3, NEW ok \in BOOLEAN, f2 = f + hidden
    PROVE  LET copies == hidden + (IF ok THEN 1 ELSE 0) IN
           /\ f2 \in Nat /\ f2 >= f
           /\ copies \in 0..(f2 - f) + 1
           /\ copies <= (f2 - f) + (IF ok THEN 1 ELSE 0)
           /\ ok => copies > 0
<1>1. hidden \in Nat /\ f2 - f = hidden
    BY SMT
<1> QED BY <1>1, SMT

\* A page is sent: Delivery's Send, with as many faults as hidden deliveries.
LEMMA RefineSend ==
    ASSUME PInv, NEW r \in Runs, NEW u \in Users, task[r].user = u, SendPage(r)
    PROVE  \E m \in Pages : D!Send(m)
<1> DEFINE page == task[r].page
<1>1. TypeOK /\ OnPage(r) /\ TurnFits(r) /\ task[r].at = "send"
    BY Zenon DEF PInv, IInv, Fits, OnPage, SendPage
<1>2. page \in Nat /\ page < task[r].pages /\ page \in 0..MaxPages - 1
    <2>1. task[r] \in Task
        BY <1>1, Types
    <2>2. page \in 0..MaxPages /\ task[r].pages \in 0..MaxPages
        BY <2>1, SMT DEF Task
    <2>3. page < task[r].pages
        BY Zenon DEF SendPage
    <2> QED BY <2>2, <2>3, BoundsAssumption, SMT
<1>3. PICK outcome \in Outcomes, hidden \in 0..3 :
         LET copies == hidden + (IF outcome = "sent" THEN 1 ELSE 0)
             first  == seen[r][u] <= page
         IN /\ faults' = faults + hidden
            /\ repeats' = repeats + (IF first /\ copies > 0 THEN copies - 1 ELSE copies)
            /\ seen' = IF first /\ copies > 0
                       THEN [seen EXCEPT ![r][u] = page + 1] ELSE seen
            /\ task' = [task EXCEPT ![r] = Recording(task[r], outcome)]
    BY Zenon DEF SendPage
<1> DEFINE m == <<r, u, page>>
           ok == outcome = "sent"
           copies == hidden + (IF ok THEN 1 ELSE 0)
<1>4. /\ m \in Pages /\ m[1] = r /\ m[2] = u /\ m[3] = page
      /\ \A n \in Pages : n[1] = r /\ n[2] = u /\ n[3] = page => n = m
    BY <1>2, Message
<1>5. UNCHANGED <<recipient, gone>>
    BY Zenon DEF SendPage, rows, people
<1>6. /\ task'[r].at = "record" /\ task'[r].user = u /\ task'[r].page = page
      /\ task'[r].outcome = outcome
      /\ \A s \in Runs \ {r} : task'[s] = task[s]
    BY <1>1, <1>3, RecordingLeaves
<1>7. page <= seen[r][u] /\ seen[r][u] \in Nat
    <2>1. seen[r][u] \in 0..MaxPages
        BY <1>1, Types
    <2> QED BY <1>1, <2>1, BoundsAssumption DEF TurnFits
<1>8. \A n \in Pages : OnItsWay(n)' <=> OnItsWay(n)
    BY <1>1, <1>6, Message DEF OnItsWay
<1>9. Noted' = Noted
    BY <1>5, <1>8, Zenon DEF Noted, Recorded
<1>10. m \notin Noted \cup InFlight
    <2>1. OnItsWay(m)
        BY <1>1, <1>4 DEF OnItsWay
    <2>2. ~Recorded(m)
        <3>1. recipient[r][u] # NoValue => recipient[r][u].message_count = page
            BY <1>1, Zenon DEF TurnFits
        <3>2. ~(page < page)
            BY <1>2, SMT
        <3> QED BY <1>4, <3>1, <3>2 DEF Recorded
    <2>3. m \notin Noted
        BY <2>1, <2>2, Zenon DEF Noted
    <2>4. m \notin InFlight
        BY <1>1, <1>4 DEF InFlight
    <2> QED BY <2>3, <2>4
<1>11. InFlight' = IF ok THEN InFlight \cup {m} ELSE InFlight
    <2>1. ASSUME NEW n \in Pages, n[1] = r
          PROVE  n \notin InFlight /\ (n \in InFlight' <=> ok /\ n = m)
        BY <1>1, <1>4, <1>6, <2>1 DEF InFlight, OnItsWay
    <2>2. ASSUME NEW n \in Pages, n[1] # r
          PROVE  (n \in InFlight' <=> n \in InFlight) /\ n # m
        <3>1. task'[n[1]] = task[n[1]]
            BY <1>6, <2>2, Message
        <3> QED BY <1>4, <2>2, <3>1 DEF InFlight, OnItsWay
    <2>3. InFlight \subseteq Pages /\ InFlight' \subseteq Pages
        BY Zenon DEF InFlight
    <2> HIDE DEF m, ok
    <2> QED BY <1>4, <2>1, <2>2, <2>3
<1>12. m \in Got <=> ~(seen[r][u] <= page)
    <2>1. m \in Got <=> page < seen[r][u]
        BY <1>4 DEF Got
    <2> QED BY <1>2, <1>7, <2>1, SMT
<1>13. Got' = IF copies > 0 THEN Got \cup {m} ELSE Got
    <2>1. CASE seen[r][u] <= page /\ copies > 0
        <3>1. seen' = [seen EXCEPT ![r][u] = page + 1]
            BY <1>3, <2>1
        <3>2. seen[r][u] = page
            BY <1>2, <1>7, <2>1, SMT
        <3>3. seen'[r][u] = page + 1 /\ \A s \in Runs, v \in Users :
                 s # r \/ v # u => seen'[s][v] = seen[s][v]
            BY <1>1, <3>1, Types
        <3>4. ASSUME NEW n \in Pages PROVE n \in Got' <=> n \in Got \/ n = m
            <4>1. CASE n[1] = r /\ n[2] = u
                <5>1. n \in Got' <=> n[3] < page + 1
                    BY <3>3, <4>1 DEF Got
                <5>2. n \in Got <=> n[3] < page
                    BY <3>2, <4>1 DEF Got
                <5>3. n = m <=> n[3] = page
                    BY <1>4, <4>1
                <5>4. n[3] \in Nat
                    BY Message
                <5>5. n[3] < page + 1 <=> n[3] < page \/ n[3] = page
                    BY <1>2, <5>4, SMT
                <5> QED BY <5>1, <5>2, <5>3, <5>5
            <4>2. CASE ~(n[1] = r /\ n[2] = u)
                <5>1. seen'[n[1]][n[2]] = seen[n[1]][n[2]]
                    BY <3>3, <4>2, Message
                <5>2. n # m
                    BY <1>4, <4>2
                <5> QED BY <5>1, <5>2, Zenon DEF Got
            <4> QED BY <4>1, <4>2
        <3>5. Got \subseteq Pages /\ Got' \subseteq Pages
            BY Zenon DEF Got
        <3>6. Got' = Got \cup {m}
            <4> HIDE DEF m
            <4> QED BY <1>4, <3>4, <3>5
        <3> QED BY <2>1, <3>6
    <2>2. CASE ~(seen[r][u] <= page /\ copies > 0)
        <3>1. seen' = seen
            BY <1>3, <2>2
        <3>2. Got' = Got
            BY <3>1, Zenon DEF Got
        <3>3. copies > 0 => m \in Got
            BY <1>12, <2>2
        <3> QED BY <3>2, <3>3
    <2> QED BY <2>1, <2>2
<1>14. repeats' = repeats + copies - (IF copies > 0 /\ m \notin Got THEN 1 ELSE 0)
    <2>1. repeats \in Nat /\ copies \in Nat
        <3>1. repeats \in Nat
            BY <1>1, Types
        <3>2. copies \in Nat
            <4>1. hidden \in Nat
                BY SMT
            <4> QED BY <4>1, SMT
        <3> QED BY <3>1, <3>2
    <2>2. CASE seen[r][u] <= page /\ copies > 0
        <3>1. repeats' = repeats + (copies - 1)
            BY <1>3, <2>2
        <3> HIDE DEF m, copies
        <3> QED BY <1>12, <2>1, <2>2, <3>1
    <2>3. CASE ~(seen[r][u] <= page /\ copies > 0)
        <3>1. repeats' = repeats + copies
            BY <1>3, <2>3
        <3> HIDE DEF m, copies
        <3> QED BY <1>12, <2>1, <2>3, <3>1
    <2> QED BY <2>2, <2>3
<1>15. /\ faults' \in Nat /\ faults' >= faults
       /\ copies \in 0..(faults' - faults) + 1
       /\ copies <= (faults' - faults) + (IF ok THEN 1 ELSE 0)
       /\ ok => copies > 0
    <2>1. faults \in Nat
        BY <1>1, Types
    <2>2. faults' = faults + hidden /\ ok \in BOOLEAN
        BY <1>3
    <2> HIDE DEF ok
    <2> QED BY <2>1, <2>2, Copies
<1>16. D!Send(m)
    <2>1. ok \in BOOLEAN
        OBVIOUS
    <2> HIDE DEF m, ok, copies
    <2> QED BY <1>9, <1>10, <1>11, <1>13, <1>14, <1>15, <2>1, Zenon DEF D!Send
<1> QED BY <1>4, <1>16

LEMMA RefineStep == PInv /\ [Next]_vars => [D!Next]_D!vars
<1> SUFFICES ASSUME PInv, [Next]_vars PROVE [D!Next]_D!vars
    OBVIOUS
<1>1. CASE Elsewhere
    BY <1>1, RefineElsewhere
<1>2. CASE Crash \/ Shutdown \/ \E r \in Runs : DatabaseFails(r)
    BY <1>2, RefineInterrupted DEF D!Next
<1>3. ASSUME NEW u \in Users, DeleteUser(u) PROVE D!Next
    BY <1>3, RefineDelete DEF D!Next
<1>4. ASSUME NEW r \in Runs, NEW u \in Users,
             NoDeals(r, u) \/ Defer(r, u) \/ StorePages(r, u) \/ ResumePages(r, u)
      PROVE  D!Next
    BY <1>4, RefineTurn DEF D!Next
<1>5. ASSUME NEW r \in Runs, NEW u \in Users, task[r].user = u,
             SendPage(r) \/ RecordPage(r) \/ RecordError(r) \/ UserSent(r)
      PROVE  D!Next
    BY <1>5, RefineSend, RefineRecord DEF D!Next
<1> QED BY <1>1, <1>2, <1>3, <1>4, <1>5, Steps, Zenon

\* Every page of a broadcast is sent and recorded as Delivery says, through
\* batches, retries, resumptions, crashes and deleted users.
THEOREM BroadcastRefinesDelivery == Spec => PagesAreDelivered
BY PInit, PInductive, RefineInit, RefineStep, PTL DEF Spec, PagesAreDelivered, D!Spec

\* Carried over from Delivery by the refinement: repeated pages need faults.
THEOREM RepeatsNeedFaultsHold == Spec => []PageRepeatsNeedFaults
<1>1. D!Init => P!Init
    BY DEF D!Init, P!Init
<1>2. [D!Next]_D!vars => [P!Next]_P!vars
    BY DEF D!Next, P!Next, D!vars, P!vars, D!Send, P!Send, D!Note, P!Note, D!Fault, P!Fault
<1>3. P!AtMostOncePerFault => PageRepeatsNeedFaults
    BY DEF PageRepeatsNeedFaults, P!AtMostOncePerFault
<1> QED BY BroadcastRefinesDelivery, P!RepeatsOweToFaults, <1>1, <1>2, <1>3, PTL
        DEF PagesAreDelivered, D!Spec, P!Spec

-----------------------------------------------------------------------------
(* A completed run left no one out.                                        *)

Errors(r) == runs[r].count["temporary_error"] # 0 \/ runs[r].count["failed"] # 0

\* u is done with in run r: for good, or an error is counted.
Served(r, u) ==
    /\ recipient[r][u] # NoValue
    /\ IsComplete(recipient[r][u].status) \/ Errors(r)

Looping(r) == task[r].at \in {"batch", "users", "send", "record"}

\* Everybody entitled, up to the last user taken up, has been served or is in
\* the batch still.
Behind(r) ==
    \A u \in entitled[r] : u <= task[r].last /\ u \notin task[r].todo => Served(r, u)

Completed(r) == runs[r] # NoValue /\ runs[r].status = "completed"

Round(r) ==
    /\ task[r].at \in {"wait", "batch"} => task[r].todo = {}
    /\ task[r].at = "wait" => task[r].last = 0
    /\ OnPage(r) => task[r].user \in task[r].todo
    /\ Looping(r) => Behind(r)
    /\ Active(r) => entitled[r] \subseteq watching
    /\ \A u \in entitled[r] : u \notin gone
    /\ Completed(r) => \A u \in entitled[r] :
          recipient[r][u] # NoValue /\ IsComplete(recipient[r][u].status)

NoneLeft ==
    /\ \A u \in watching : u \notin gone
    /\ \A r \in Runs : Round(r)

\* Steps of run r: those of the other runs stay.
Others(r) ==
    /\ \A s \in Runs \ {r} : /\ task'[s] = task[s] /\ runs'[s] = runs[s]
                             /\ recipient'[s] = recipient[s]
    /\ UNCHANGED <<watching, gone, entitled>>

LEMMA RoundOthers ==
    ASSUME NoneLeft, NEW r \in Runs, Others(r), Round(r)'
    PROVE  NoneLeft'
<1>1. ASSUME NEW s \in Runs \ {r} PROVE Round(s)'
    <2>1. /\ task'[s] = task[s] /\ runs'[s] = runs[s] /\ recipient'[s] = recipient[s]
          /\ UNCHANGED <<watching, gone, entitled>> /\ Round(s)
        BY Zenon DEF Others, NoneLeft
    <2> QED BY <2>1, Zenon DEF Round, OnPage, Looping, Behind, Served, Errors, Active, Completed
<1>2. ASSUME NEW s \in Runs PROVE Round(s)'
    BY <1>1
<1> QED BY <1>2, Zenon DEF NoneLeft, Others

\* The loop goes on.
LEMMA RoundLoop ==
    ASSUME NoneLeft, IInv, IInv', NEW r \in Runs, Others(r), Looping(r), Looping(r)',
           task'[r].at = "batch" => task'[r].todo = {},
           OnPage(r)' => task'[r].user \in task'[r].todo,
           Behind(r)'
    PROVE  NoneLeft'
<1>1. Round(r) /\ UNCHANGED <<watching, gone, entitled>>
    BY Zenon DEF NoneLeft, Others
<1>2. Active(r)
    BY SMT DEF IInv, Exclusive, Looping
<1>3. ~Completed(r)'
    <2>1. runs'[r].status = "running"
        <3>1. Exclusive' /\ Working(r)'
            BY SMT DEF IInv, Looping, Working
        <3> QED BY <3>1, Zenon DEF Exclusive
    <2> QED BY <2>1 DEF Completed
<1>4. task'[r].at # "wait"
    BY SMT DEF Looping
<1>5. Round(r)'
    BY <1>1, <1>2, <1>3, <1>4, SMT DEF Round
<1> QED BY <1>5, RoundOthers

\* The loop ends before it is done.
LEMMA RoundStop ==
    ASSUME NoneLeft, IInv, NEW r \in Runs, Others(r), task[r].at # "none",
           task'[r].at \in {"none", "failing"}, ~Completed(r)'
    PROVE  NoneLeft'
<1>1. Round(r) /\ UNCHANGED <<watching, gone, entitled>>
    BY Zenon DEF NoneLeft, Others
<1>2. Active(r)
    BY Zenon DEF IInv, Exclusive
<1>3. task'[r].at \notin {"wait", "batch"} /\ task'[r].at # "wait" /\ ~OnPage(r)' /\ ~Looping(r)'
    BY SMT DEF OnPage, Looping
<1>4. Round(r)'
    BY <1>1, <1>2, <1>3, Zenon DEF Round
<1> QED BY <1>4, RoundOthers

LEMMA ServedKept ==
    ASSUME IInv, NEW r \in Runs, NEW v \in Users, task[r].at # "none",
           runs' = runs \/ \E counters : Count(r, counters),
           recipient'[r][v] = recipient[r][v]
    PROVE  Served(r, v) => Served(r, v)'
<1>1. Errors(r) => Errors(r)'
    <2>1. CASE runs' = runs
        BY <2>1, Zenon DEF Errors
    <2>2. ASSUME NEW counters, Count(r, counters) PROVE Errors(r) => Errors(r)'
        <3>1. /\ runs \in [Runs -> RunRow \cup {NoValue}] /\ runs[r] # NoValue
              /\ TypeOK
            BY WorkingRun, Types DEF IInv
        <3>2. runs'[r] = Counted(runs[r], counters) /\ runs[r] \in RunRow
            BY <2>2, <3>1 DEF Count
        <3>3. \A c \in Counters :
                 runs'[r].count[c] = runs[r].count[c] + IF c \in counters THEN 1 ELSE 0
            BY <3>2 DEF Counted
        <3>4. \A c \in Counters : runs[r].count[c] \in Nat
            BY <3>2, SMT DEF RunRow
        <3>5. \A c \in Counters : runs[r].count[c] # 0 => runs'[r].count[c] # 0
            BY <3>3, <3>4, SMT
        <3>6. "temporary_error" \in Counters /\ "failed" \in Counters
            BY DEF Counters
        <3> QED BY <3>5, <3>6 DEF Errors
    <2> QED BY <2>1, <2>2
<1> QED BY <1>1, Zenon DEF Served

\* The fields of a task.
LEMMA TaskFields ==
    ASSUME TypeOK, NEW r \in Runs
    PROVE  /\ \A u : Leave(r, u) => /\ task'[r].at = "users" /\ task'[r].last = task[r].last
                                    /\ task'[r].todo = task[r].todo \ {u}
           /\ \A u, page, pages : task' = [task EXCEPT ![r] = Sending(task[r], u, page, pages)] =>
                 /\ task'[r].at = "send" /\ task'[r].last = task[r].last
                 /\ task'[r].todo = task[r].todo /\ task'[r].user = u
           /\ \A outcome : task' = [task EXCEPT ![r] = Recording(task[r], outcome)] =>
                 /\ task'[r].at = "record" /\ task'[r].last = task[r].last
                 /\ task'[r].todo = task[r].todo /\ task'[r].user = task[r].user
           /\ \A last, batch : task' = [task EXCEPT ![r] = InBatch(last, batch)] =>
                 task'[r].at = "users" /\ task'[r].last = last /\ task'[r].todo = batch
           /\ \A place : Goto(r, place) =>
                 /\ task'[r].at = place /\ task'[r].last = task[r].last
                 /\ task'[r].todo = task[r].todo
<1>1. task \in [Runs -> Task]
    BY Types
<1>2. ASSUME NEW u, Leave(r, u)
      PROVE  /\ task'[r].at = "users" /\ task'[r].last = task[r].last
             /\ task'[r].todo = task[r].todo \ {u}
    BY <1>1, <1>2, SMT DEF Leave, InBatch
<1>3. ASSUME NEW u, NEW page, NEW pages,
             task' = [task EXCEPT ![r] = Sending(task[r], u, page, pages)]
      PROVE  /\ task'[r].at = "send" /\ task'[r].last = task[r].last
             /\ task'[r].todo = task[r].todo /\ task'[r].user = u
    BY <1>1, <1>3, SMT DEF Sending
<1>4. ASSUME NEW outcome, task' = [task EXCEPT ![r] = Recording(task[r], outcome)]
      PROVE  /\ task'[r].at = "record" /\ task'[r].last = task[r].last
             /\ task'[r].todo = task[r].todo /\ task'[r].user = task[r].user
    BY <1>1, <1>4, SMT DEF Recording
<1>5. ASSUME NEW last, NEW batch, task' = [task EXCEPT ![r] = InBatch(last, batch)]
      PROVE  task'[r].at = "users" /\ task'[r].last = last /\ task'[r].todo = batch
    BY <1>1, <1>5, SMT DEF InBatch
<1>6. ASSUME NEW place, Goto(r, place)
      PROVE  /\ task'[r].at = place /\ task'[r].last = task[r].last
             /\ task'[r].todo = task[r].todo
    BY <1>1, <1>6, SMT DEF Goto, Task
<1> QED BY <1>2, <1>3, <1>4, <1>5, <1>6, Zenon

\* The loop over the users.
LEMMA NoneLeftLoop ==
    ASSUME PInv, IInv', NoneLeft, NEW r \in Runs,
           NextBatch(r) \/ BatchDone(r) \/ \E u \in task[r].todo : SkipUser(r, u)
    PROVE  NoneLeft'
<1>1. TypeOK /\ IInv /\ Round(r) /\ task \in [Runs -> Task]
    BY Types, Zenon DEF PInv, IInv, NoneLeft
<1>2. Others(r) /\ UNCHANGED <<recipient, runs, entitled>>
    <2>1. /\ UNCHANGED <<recipient, runs, entitled, watching, gone>>
          /\ \/ \E last, batch : task' = [task EXCEPT ![r] = InBatch(last, batch)]
             \/ Goto(r, "batch")
        BY Zenon DEF NextBatch, BatchDone, SkipUser, Leave, rows, people
    <2>2. \A s \in Runs \ {r} : task'[s] = task[s]
        BY <1>1, <2>1, OffPage
    <2> QED BY <2>1, <2>2 DEF Others
<1>3. Looping(r) /\ Behind(r)
    BY <1>1, SMT DEF NextBatch, BatchDone, SkipUser, IsNext, Looping, Round
<1>4. \A u : Served(r, u)' <=> Served(r, u)
    BY <1>2, Zenon DEF Served, Errors
<1>5. CASE NextBatch(r)
    <2>0. PICK batch \in SUBSET watching :
             /\ IsBatch(batch, task[r].last)
             /\ \E last \in batch : /\ \A u \in batch : u <= last
                                   /\ task' = [task EXCEPT ![r] = InBatch(last, batch)]
        BY <1>5, Zenon DEF NextBatch
    <2>1. PICK last \in batch : /\ \A u \in batch : u <= last
                                /\ task' = [task EXCEPT ![r] = InBatch(last, batch)]
        BY <2>0
    <2>2. task'[r].at = "users" /\ task'[r].last = last /\ task'[r].todo = batch
        <3>1. task' = [task EXCEPT ![r] = InBatch(last, batch)]
            BY <2>1
        <3> QED BY <1>1, <3>1, SMT DEF InBatch
    <2>3. Active(r) /\ entitled[r] \subseteq watching /\ task[r].todo = {} /\ task[r].at = "batch"
        BY <1>1, <1>5, SMT DEF NextBatch, Round, IInv, Exclusive
    <2>4. ASSUME NEW u \in entitled[r], u <= last, u \notin batch PROVE Served(r, u)
        <3>1. u \in watching /\ u \in Nat /\ last \in Nat /\ task[r].last \in Nat
            <4>1. watching \subseteq Users /\ task[r] \in Task
                BY <1>1, Types
            <4>2. task[r].last \in Nat
                BY <4>1, SMT DEF Task
            <4>3. u \in Users /\ last \in Users /\ u \in watching
                BY <2>3, <4>1
            <4> QED BY <4>2, <4>3, UsersAssumption
        <3>2. CASE u <= task[r].last
            BY <1>3, <2>3, <3>2 DEF Behind
        <3>3. CASE ~(u <= task[r].last)
            <4>1. u > task[r].last
                BY <3>1, <3>3, SMT
            <4>2. last < u
                BY <2>0, <2>1, <2>4, <3>1, <4>1, Zenon DEF IsBatch
            <4> QED BY <2>4, <3>1, <4>2, SMT
        <3> QED BY <3>2, <3>3
    <2>5. Behind(r)'
        BY <1>2, <1>4, <2>2, <2>4, Zenon DEF Behind
    <2>6. Looping(r)' /\ ~OnPage(r)' /\ task'[r].at # "batch"
        BY <2>2 DEF Looping, OnPage
    <2> QED BY <1>1, <1>2, <1>3, <2>5, <2>6, RoundLoop
<1>6. CASE BatchDone(r)
    <2>1. /\ task'[r].at = "batch" /\ task'[r].last = task[r].last
          /\ task'[r].todo = task[r].todo /\ task[r].todo = {}
        BY <1>1, <1>6, TaskFields, Zenon DEF BatchDone
    <2>2. Behind(r)'
        BY <1>2, <1>3, <1>4, <2>1, Zenon DEF Behind
    <2>3. Looping(r)' /\ ~OnPage(r)'
        BY <2>1 DEF Looping, OnPage
    <2> QED BY <1>1, <1>2, <1>3, <2>1, <2>2, <2>3, RoundLoop
<1>7. ASSUME NEW u \in task[r].todo, SkipUser(r, u) PROVE NoneLeft'
    <2>1. /\ task'[r].at = "users" /\ task'[r].last = task[r].last
          /\ task'[r].todo = task[r].todo \ {u}
        BY <1>1, <1>7, TaskFields, Zenon DEF SkipUser
    <2>2. u \in entitled[r] => Served(r, u)
        BY <1>1, <1>7, Zenon DEF SkipUser, Round, Served
    <2>3. ASSUME NEW v \in entitled[r], v <= task[r].last, v \notin task[r].todo \ {u}
          PROVE  Served(r, v)
        BY <1>3, <2>2, <2>3 DEF Behind
    <2>4. Behind(r)'
        BY <1>2, <1>4, <2>1, <2>3, Zenon DEF Behind
    <2>5. Looping(r)' /\ ~OnPage(r)' /\ task'[r].at # "batch"
        BY <2>1 DEF Looping, OnPage
    <2> QED BY <1>1, <1>2, <1>3, <2>4, <2>5, RoundLoop
<1> QED BY <1>5, <1>6, <1>7

\* What the turns of the users have in common: only the row of u changes, and
\* u stays in the batch, or is served.
LEMMA NoneLeftTurn ==
    ASSUME PInv, IInv', NoneLeft, NEW r \in Runs, NEW u \in Users, u \in task[r].todo, Looping(r),
           UNCHANGED <<watching, gone, entitled>>,
           \A s \in Runs \ {r} : task'[s] = task[s],
           runs' = runs \/ \E counters : Count(r, counters),
           recipient' = recipient \/ \E row : Record(r, u, row),
           task'[r].at \in {"users", "send", "record"}, task'[r].last = task[r].last,
           \/ OnPage(r)' /\ task'[r].todo = task[r].todo /\ task'[r].user = u
           \/ ~OnPage(r)' /\ task'[r].todo = task[r].todo \ {u} /\ Served(r, u)'
    PROVE  NoneLeft'
<1>1. TypeOK /\ IInv /\ Round(r) /\ Behind(r)
    BY Zenon DEF PInv, IInv, NoneLeft, Round
<1>2. \A s \in Runs \ {r} : runs'[s] = runs[s]
    BY <1>1, Types DEF Count
<1>3. \A s \in Runs, v \in Users : s # r \/ v # u => recipient'[s][v] = recipient[s][v]
    BY <1>1, RecordLeaves, Zenon
<1>4. \A s \in Runs \ {r} : recipient'[s] = recipient[s]
    BY <1>1, Types DEF Record
<1>5. Others(r)
    BY <1>2, <1>4, Zenon DEF Others
<1>6. task[r].at # "none"
    BY SMT DEF Looping
<1>7. entitled[r] \subseteq Users
    BY <1>1 DEF TypeOK
<1>8. ASSUME NEW v \in entitled[r], v <= task[r].last, v \notin task'[r].todo
      PROVE  Served(r, v)'
    <2>1. CASE v = u
        BY <1>8, <2>1
    <2>2. CASE v # u
        <3>1. v \notin task[r].todo
            BY <1>8, <2>2
        <3>2. Served(r, v)
            BY <1>1, <1>8, <3>1 DEF Behind
        <3>3. v \in Users /\ recipient'[r][v] = recipient[r][v]
            BY <1>3, <1>7, <2>2
        <3> QED BY <1>1, <1>6, <3>2, <3>3, ServedKept
    <2> QED BY <2>1, <2>2
<1>9. Behind(r)'
    BY <1>8, Zenon DEF Behind
<1>10. Looping(r)' /\ task'[r].at # "batch"
    BY SMT DEF Looping
<1>11. OnPage(r)' => task'[r].user \in task'[r].todo
    OBVIOUS
<1> QED BY <1>1, <1>5, <1>9, <1>10, <1>11, RoundLoop

LEMMA NoneLeftUsers ==
    ASSUME PInv, IInv', NoneLeft, NEW r \in Runs, NEW u \in Users, u \in task[r].todo,
           NoDeals(r, u) \/ Defer(r, u) \/ StorePages(r, u) \/ ResumePages(r, u)
    PROVE  NoneLeft'
<1>1. TypeOK /\ task[r].at = "users"
    BY Zenon DEF PInv, IInv, NoDeals, Defer, StorePages, ResumePages, FirstTime, IsNext
<1>2. /\ Looping(r) /\ UNCHANGED <<watching, gone, entitled>>
      /\ runs' = runs \/ \E counters : Count(r, counters)
      /\ recipient' = recipient \/ \E row : Record(r, u, row)
    <2>1. Looping(r)
        BY <1>1 DEF Looping
    <2> QED BY <2>1, Zenon DEF NoDeals, Defer, StorePages, ResumePages, people, rows
<1>3. CASE NoDeals(r, u) \/ Defer(r, u)
    <2>1. /\ task'[r].at = "users" /\ task'[r].last = task[r].last
          /\ task'[r].todo = task[r].todo \ {u}
          /\ \A s \in Runs \ {r} : task'[s] = task[s]
        BY <1>1, <1>3, TaskFields, OffPage, Zenon DEF NoDeals, Defer
    <2>2. PICK status \in {"no_deals", "deferred"}, n \in 0..MaxPages :
             Record(r, u, Row(status, n, n))
        <3>1. 0 \in 0..MaxPages /\ \A n \in 1..MaxPages : n \in 0..MaxPages
            BY BoundsAssumption, SMT
        <3> QED BY <1>3, <3>1 DEF NoDeals, Defer
    <2>3. Row(status, n, n) \in RecipientRow
        BY MadeRow DEF UserStatus
    <2>4. Served(r, u)'
        <3>1. recipient'[r][u] = Row(status, n, n)
            BY <1>1, <2>2, RecordLeaves, Zenon
        <3> QED BY <2>3, <3>1, RowFields, NoRowAssumption DEF Served, IsComplete
    <2>5. ~OnPage(r)' /\ task'[r].at \in {"users", "send", "record"}
        BY <2>1 DEF OnPage
    <2> QED BY <1>2, <2>1, <2>4, <2>5, NoneLeftTurn
<1>4. CASE StorePages(r, u) \/ ResumePages(r, u)
    <2>1. PICK page, pages : task' = [task EXCEPT ![r] = Sending(task[r], u, page, pages)]
        BY <1>4, Zenon DEF StorePages, ResumePages
    <2>2. /\ task'[r].at = "send" /\ task'[r].last = task[r].last
          /\ task'[r].todo = task[r].todo /\ task'[r].user = u
          /\ \A s \in Runs \ {r} : task'[s] = task[s]
        BY <1>1, <2>1, TaskFields, SendingLeaves, Zenon
    <2>3. OnPage(r)' /\ task'[r].at \in {"users", "send", "record"}
        BY <2>2 DEF OnPage
    <2> QED BY <1>2, <2>2, <2>3, NoneLeftTurn
<1> QED BY <1>3, <1>4

\* A task that ends, fails or is interrupted leaves its run uncompleted.
LEMMA NoneLeftStop ==
    ASSUME PInv, NoneLeft, NEW r \in Runs, Goto(r, "failing") \/ EndTask(r),
           task[r].at # "none",
           UNCHANGED <<watching, gone, entitled, recipient>>,
           runs' = runs \/ runs' = [runs EXCEPT ![r].status = "failed"]
    PROVE  NoneLeft'
<1>1. /\ TypeOK /\ IInv /\ Active(r) /\ runs \in [Runs -> RunRow \cup {NoValue}]
      /\ runs[r] \in RunRow
    <2>1. TypeOK /\ IInv /\ Active(r) /\ runs \in [Runs -> RunRow \cup {NoValue}]
        BY Types, Zenon DEF PInv, IInv, Exclusive
    <2> QED BY <2>1 DEF Active
<1>2. ~Completed(r)' /\ \A s \in Runs \ {r} : runs'[s] = runs[s]
    <2>1. runs'[r] = runs[r] \/ runs'[r].status = "failed"
        BY <1>1, SMT DEF RunRow
    <2> QED BY <1>1, <2>1 DEF Completed, Active
<1>3. task'[r].at \in {"none", "failing"} /\ \A s \in Runs \ {r} : task'[s] = task[s]
    BY <1>1, OffPage
<1>4. Others(r)
    BY <1>2, <1>3 DEF Others
<1> QED BY <1>1, <1>2, <1>3, <1>4, RoundStop

LEMMA NoneLeftPages ==
    ASSUME PInv, IInv', NoneLeft, NEW r \in Runs, NEW u \in Users, task[r].user = u,
           SendPage(r) \/ RecordPage(r) \/ RecordError(r) \/ UserSent(r)
    PROVE  NoneLeft'
<1> DEFINE row == recipient[r][u]
<1>1. TypeOK /\ OnPage(r) /\ Looping(r) /\ u \in task[r].todo /\ task[r].at # "none"
    <2>1. TypeOK /\ OnPage(r) /\ Round(r)
        BY Zenon DEF PInv, IInv, NoneLeft, OnPage, SendPage, RecordPage, RecordError, UserSent
    <2> QED BY <2>1 DEF Round, OnPage, Looping
<1>2. UNCHANGED <<watching, gone, entitled>>
    BY Zenon DEF SendPage, RecordPage, RecordError, UserSent, people
<1>3. CASE SendPage(r)
    <2>1. PICK outcome : task' = [task EXCEPT ![r] = Recording(task[r], outcome)]
        BY <1>3, Zenon DEF SendPage
    <2>2. /\ task'[r].at = "record" /\ task'[r].last = task[r].last
          /\ task'[r].todo = task[r].todo /\ task'[r].user = u
          /\ \A s \in Runs \ {r} : task'[s] = task[s]
        BY <1>1, <2>1, TaskFields, RecordingLeaves, Zenon
    <2>3. OnPage(r)' /\ task'[r].at \in {"users", "send", "record"}
        BY <2>2 DEF OnPage
    <2>4. runs' = runs /\ recipient' = recipient
        BY <1>3, Zenon DEF SendPage, rows
    <2> QED BY <1>1, <1>2, <2>2, <2>3, <2>4, NoneLeftTurn
<1>4. CASE row = NoValue /\ ~SendPage(r)
    <2>1. Goto(r, "failing") /\ UNCHANGED rows
        BY <1>4, Zenon DEF RecordPage, RecordError, UserSent
    <2> QED BY <1>1, <1>2, <2>1, NoneLeftStop, Zenon DEF rows
<1>5. CASE row # NoValue /\ RecordPage(r)
    <2>1. /\ \E new : Record(r, u, new)
          /\ \E counters : Count(r, counters)
          /\ \E page, pages : task' = [task EXCEPT ![r] = Sending(task[r], u, page, pages)]
        BY <1>5, Zenon DEF RecordPage
    <2>2. PICK page, pages : task' = [task EXCEPT ![r] = Sending(task[r], u, page, pages)]
        BY <2>1
    <2>3. /\ task'[r].at = "send" /\ task'[r].last = task[r].last
          /\ task'[r].todo = task[r].todo /\ task'[r].user = u
          /\ \A s \in Runs \ {r} : task'[s] = task[s]
        <3>1. \A s \in Runs \ {r} : task'[s] = task[s]
            BY <1>1, <2>2, SendingLeaves
        <3>2. /\ task'[r].at = "send" /\ task'[r].last = task[r].last
              /\ task'[r].todo = task[r].todo /\ task'[r].user = u
            BY <1>1, <2>2, Types, SMT DEF Sending
        <3> QED BY <3>1, <3>2
    <2>4. OnPage(r)' /\ task'[r].at \in {"users", "send", "record"}
        BY <2>3 DEF OnPage
    <2> QED BY <1>1, <1>2, <2>1, <2>3, <2>4, NoneLeftTurn
<1>6. ASSUME NEW status \in UserStatus, NEW counters, row # NoValue,
             Record(r, u, Row(status, row.pages, row.message_count)), Count(r, counters), Leave(r, u),
             IsComplete(status) \/ (status \in {"temporary_error", "failed"} /\ status \in counters)
      PROVE  NoneLeft'
    <2>1. /\ task'[r].at = "users" /\ task'[r].last = task[r].last
          /\ task'[r].todo = task[r].todo \ {u}
          /\ \A s \in Runs \ {r} : task'[s] = task[s]
        BY <1>1, <1>6, TaskFields, OffPage, Zenon
    <2>2. ~OnPage(r)' /\ task'[r].at \in {"users", "send", "record"}
        BY <2>1 DEF OnPage
    <2>3. Errors(r)' \/ IsComplete(status)
        <3>1. runs \in [Runs -> RunRow \cup {NoValue}] /\ runs[r] # NoValue
            BY <1>1, WorkingRun, Types, Zenon DEF PInv, IInv
        <3>2. runs'[r] = Counted(runs[r], counters) /\ runs[r] \in RunRow
            BY <1>6, <3>1 DEF Count
        <3>3. ASSUME NEW c \in Counters, c \in counters PROVE runs'[r].count[c] # 0
            <4>1. runs'[r].count[c] = runs[r].count[c] + 1
                BY <3>2, <3>3 DEF Counted
            <4>2. runs[r].count[c] \in Nat
                BY <3>2, SMT DEF RunRow
            <4> QED BY <4>1, <4>2
        <3>4. "temporary_error" \in Counters /\ "failed" \in Counters
            BY DEF Counters
        <3> QED BY <1>6, <3>3, <3>4 DEF Errors
    <2>4. Served(r, u)'
        <3>1. row \in RecipientRow
            BY <1>1, <1>6, Types
        <3>2. row.pages \in 0..MaxPages /\ row.message_count \in 0..MaxPages
            BY <3>1, SMT DEF RecipientRow
        <3>3. Row(status, row.pages, row.message_count) \in RecipientRow
            BY <3>2, MadeRow
        <3>4. recipient'[r][u] = Row(status, row.pages, row.message_count)
            BY <1>1, <1>6, RecordLeaves
        <3>5. recipient'[r][u] # NoValue /\ recipient'[r][u].status = status
            BY <3>3, <3>4, RowFields, NoRowAssumption
        <3> QED BY <2>3, <3>5, Zenon DEF Served
    <2> HIDE DEF row
    <2> QED BY <1>1, <1>2, <1>6, <2>1, <2>2, <2>4, NoneLeftTurn
<1>7. CASE row # NoValue /\ RecordError(r)
    <2>1. /\ Record(r, u, Row(task[r].outcome, row.pages, row.message_count)) /\ Leave(r, u)
          /\ Count(r, {task[r].outcome, "checked"}) /\ task[r].outcome # "sent"
        BY <1>7, Zenon DEF RecordError
    <2>2. task[r].outcome \in Outcomes
        <3>1. task[r] \in Task
            BY <1>1, Types
        <3> QED BY <3>1, SMT DEF Task
    <2>3. /\ task[r].outcome \in UserStatus /\ task[r].outcome \in {task[r].outcome, "checked"}
          /\ IsComplete(task[r].outcome) \/ task[r].outcome \in {"temporary_error", "failed"}
        BY <2>1, <2>2 DEF UserStatus, Outcomes, IsComplete
    <2> HIDE DEF row
    <2> QED BY <1>6, <1>7, <2>1, <2>3
<1>8. CASE row # NoValue /\ UserSent(r)
    <2>1. /\ Record(r, u, Row("sent", row.pages, row.message_count)) /\ Leave(r, u)
          /\ Count(r, {"checked"})
        BY <1>8, Zenon DEF UserSent
    <2>2. "sent" \in UserStatus /\ IsComplete("sent")
        BY DEF UserStatus, Outcomes, IsComplete
    <2> HIDE DEF row
    <2> QED BY <1>6, <1>8, <2>1, <2>2
<1> QED BY <1>3, <1>4, <1>5, <1>7, <1>8

\* A run begins with everybody who watches entitled to it.
LEMMA NoneLeftCreate ==
    ASSUME PInv, NoneLeft, NEW r \in Runs, CreateRun(r)
    PROVE  NoneLeft'
<1>1. /\ TypeOK /\ runs \in [Runs -> RunRow \cup {NoValue}] /\ task \in [Runs -> Task]
      /\ entitled \in [Runs -> SUBSET Users]
    BY Types, Zenon DEF PInv, IInv, TypeOK
<1>2. /\ task'[r] = NewTask /\ runs'[r] = NewRun /\ entitled'[r] = watching
      /\ \A s \in Runs \ {r} : task'[s] = task[s] /\ runs'[s] = runs[s] /\ entitled'[s] = entitled[s]
      /\ UNCHANGED <<watching, gone, recipient>>
    <2>1. /\ runs' = [runs EXCEPT ![r] = NewRun] /\ task' = [task EXCEPT ![r] = NewTask]
          /\ entitled' = [entitled EXCEPT ![r] = watching]
          /\ UNCHANGED <<watching, gone, recipient>>
        BY Zenon DEF CreateRun, people
    <2> QED BY <1>1, <2>1
<1>3. ASSUME NEW s \in Runs \ {r} PROVE Round(s)'
    <2>1. Round(s)
        BY DEF NoneLeft
    <2> QED BY <1>2, <1>3, <2>1, Zenon DEF Round, OnPage, Looping, Behind, Served, Errors, Active, Completed
<1>4. Round(r)'
    <2>1. /\ NewTask.at = "wait" /\ NewTask.todo = {} /\ NewTask.last = 0
          /\ NewRun.status = "pending"
        BY DEF NewTask, NewRun, Idle
    <2>2. ~OnPage(r)' /\ ~Looping(r)' /\ ~Completed(r)'
        BY <1>2, <2>1 DEF OnPage, Looping, Completed
    <2> QED BY <1>2, <2>1, <2>2, Zenon DEF Round, NoneLeft
<1>5. \A s \in Runs : Round(s)'
    BY <1>3, <1>4
<1> QED BY <1>2, <1>5, Zenon DEF NoneLeft

\* A waiting task begins before the first user, or gives up.
LEMMA NoneLeftStart ==
    ASSUME PInv, NoneLeft, NEW r \in Runs, Start(r)
    PROVE  NoneLeft'
<1>1. /\ TypeOK /\ Round(r) /\ task[r].at = "wait" /\ Active(r)
      /\ runs \in [Runs -> RunRow \cup {NoValue}]
      /\ UNCHANGED <<watching, gone, entitled, recipient>>
    <2>1. TypeOK /\ Round(r) /\ task[r].at = "wait" /\ UNCHANGED <<watching, gone, entitled, recipient>>
        BY Zenon DEF PInv, IInv, NoneLeft, Start, people
    <2> QED BY <2>1, Types DEF PInv, IInv, Exclusive
<1>2. CASE EndTask(r) /\ UNCHANGED runs
    BY <1>1, <1>2, NoneLeftStop
<1>3. CASE Goto(r, "batch") /\ runs' = [runs EXCEPT ![r].status = "running"]
    <2>1. /\ task'[r].at = "batch" /\ task'[r].last = 0 /\ task'[r].todo = {}
          /\ \A s \in Runs \ {r} : task'[s] = task[s]
        BY <1>1, <1>3, TaskFields, OffPage DEF Round
    <2>2. runs'[r].status = "running" /\ \A s \in Runs \ {r} : runs'[s] = runs[s]
        <3>1. runs[r] \in RunRow
            BY <1>1 DEF Active
        <3> QED BY <1>1, <1>3, <3>1, SMT DEF RunRow
    <2>3. Behind(r)'
        <3>1. entitled[r] \subseteq Users
            BY <1>1 DEF TypeOK
        <3>2. \A u \in Users : ~(u <= 0)
            BY UsersAssumption
        <3> QED BY <1>1, <2>1, <3>1, <3>2 DEF Behind
    <2>4. Others(r)
        BY <1>1, <2>1, <2>2 DEF Others
    <2>5. ~OnPage(r)' /\ ~Completed(r)'
        BY <2>1, <2>2 DEF OnPage, Completed
    <2>6. entitled[r] \subseteq watching /\ \A u \in entitled[r] : u \notin gone
        BY <1>1, Zenon DEF Round
    <2>7. task'[r].at # "wait"
        BY <2>1
    <2>8. Round(r)'
        BY <1>1, <2>1, <2>3, <2>5, <2>6, <2>7, Zenon DEF Round
    <2> QED BY <2>4, <2>8, RoundOthers
<1> QED BY <1>2, <1>3, Zenon DEF Start

\* A run that ends as completed has counted no error.
LEMMA NoneLeftFinish ==
    ASSUME PInv, NoneLeft, NEW r \in Runs, Finish(r)
    PROVE  NoneLeft'
<1>1. /\ TypeOK /\ Round(r) /\ task[r].at = "batch" /\ Active(r)
      /\ UNCHANGED <<watching, gone, entitled, recipient>> /\ EndTask(r)
      /\ ~\E u \in watching : u > task[r].last
      /\ runs \in [Runs -> RunRow \cup {NoValue}] /\ task[r] \in Task
    <2>1. /\ TypeOK /\ Round(r) /\ task[r].at = "batch"
          /\ UNCHANGED <<watching, gone, entitled, recipient>> /\ EndTask(r)
          /\ ~\E u \in watching : u > task[r].last
        BY Zenon DEF PInv, IInv, NoneLeft, Finish, people
    <2> QED BY <2>1, Types DEF PInv, IInv, Exclusive
<1>2. /\ task'[r].at = "none" /\ \A s \in Runs \ {r} : task'[s] = task[s]
    BY <1>1, OffPage
<1>3. PICK status : /\ runs' = [runs EXCEPT ![r].status = status]
                    /\ status \in {"completed", "partially_completed"}
                    /\ status = "completed" => ~Errors(r)
    <2>1. runs' = [runs EXCEPT ![r].status =
                      IF runs[r].count["temporary_error"] = 0 /\ runs[r].count["failed"] = 0
                      THEN "completed" ELSE "partially_completed"]
        BY Zenon DEF Finish
    <2>2. CASE Errors(r)
        <3>1. runs' = [runs EXCEPT ![r].status = "partially_completed"]
            BY <2>1, <2>2, Zenon DEF Errors
        <3>2. "partially_completed" # "completed"
            OBVIOUS
        <3> QED BY <3>1, <3>2, Zenon
    <2>3. CASE ~Errors(r)
        <3>1. runs' = [runs EXCEPT ![r].status = "completed"]
            BY <2>1, <2>3, Zenon DEF Errors
        <3> QED BY <2>3, <3>1
    <2> QED BY <2>2, <2>3
<1>4. runs'[r].status = status /\ \A s \in Runs \ {r} : runs'[s] = runs[s]
    <2>1. runs[r] \in RunRow
        BY <1>1 DEF Active
    <2> QED BY <1>1, <1>3, <2>1, SMT DEF RunRow
<1>5. ASSUME status = "completed", NEW u \in entitled[r]
      PROVE  recipient[r][u] # NoValue /\ IsComplete(recipient[r][u].status)
    <2>1. Behind(r) /\ u \in watching /\ task[r].todo = {}
        BY <1>1, <1>5 DEF Round, Looping
    <2>2. u <= task[r].last
        <3>1. u \in Nat /\ task[r].last \in Nat
            <4>1. watching \subseteq Users
                BY <1>1, Types
            <4>2. task[r].last \in Nat
                BY <1>1, SMT DEF Task
            <4> QED BY <2>1, <4>1, <4>2, UsersAssumption
        <3>2. ~(u > task[r].last)
            BY <1>1, <2>1
        <3> QED BY <3>1, <3>2, SMT
    <2>3. Served(r, u)
        BY <1>5, <2>1, <2>2 DEF Behind
    <2> QED BY <1>3, <1>5, <2>3, Zenon DEF Served
<1>6. ~OnPage(r)' /\ ~Looping(r)' /\ ~Active(r)' /\ (Completed(r)' => status = "completed")
    BY <1>2, <1>3, <1>4 DEF OnPage, Looping, Active, Completed
<1>7. task'[r].at \notin {"wait", "batch"} /\ task'[r].at # "wait"
    BY <1>2
<1>8. Round(r)'
    BY <1>1, <1>5, <1>6, <1>7, Zenon DEF Round
<1>9. Others(r)
    BY <1>1, <1>2, <1>4 DEF Others
<1> QED BY <1>8, <1>9, RoundOthers

\* Users come and go, and the process stops and starts: whoever stays entitled
\* keeps his row.
LEMMA NoneLeftWorld ==
    ASSUME NoneLeft, runs' = runs,
           \A u \in watching' : u \notin gone',
           \A r \in Runs :
              /\ task'[r] \in {task[r], NoTask, NewTask}
              /\ entitled'[r] \subseteq entitled[r]
              /\ Active(r) => entitled'[r] \subseteq watching'
              /\ \A u \in entitled'[r] : u \notin gone' /\ recipient'[r][u] = recipient[r][u]
    PROVE  NoneLeft'
<1>1. /\ NoTask.at = "none" /\ NewTask.at = "wait" /\ NewTask.todo = {} /\ NewTask.last = 0
    BY DEF NoTask, NewTask, Idle
<1>2. ASSUME NEW r \in Runs PROVE Round(r)'
    <2>1. Round(r)
        BY DEF NoneLeft
    <2>2. Active(r)' <=> Active(r)
        BY DEF Active
    <2>3. Completed(r)' => \A u \in entitled'[r] :
             recipient'[r][u] # NoValue /\ IsComplete(recipient'[r][u].status)
        <3>1. Completed(r)' => Completed(r)
            BY DEF Completed
        <3>2. ASSUME Completed(r), NEW u \in entitled'[r]
              PROVE  recipient'[r][u] # NoValue /\ IsComplete(recipient'[r][u].status)
            <4>1. u \in entitled[r] /\ recipient'[r][u] = recipient[r][u]
                BY <3>2
            <4> QED BY <2>1, <3>2, <4>1, Zenon DEF Round
        <3> QED BY <3>1, <3>2
    <2>4. CASE task'[r] = task[r]
        <3>1. Looping(r)' => Behind(r)'
            <4>1. SUFFICES ASSUME Looping(r), NEW u \in entitled'[r],
                                  u <= task[r].last, u \notin task[r].todo
                           PROVE  Served(r, u)'
                BY <2>4, Zenon DEF Looping, Behind
            <4>2. u \in entitled[r] /\ recipient'[r][u] = recipient[r][u]
                BY <4>1
            <4>3. Served(r, u)
                BY <2>1, <4>1, <4>2, Zenon DEF Round, Behind
            <4> QED BY <4>2, <4>3, Zenon DEF Served, Errors
        <3> QED BY <2>1, <2>2, <2>3, <2>4, <3>1, Zenon DEF Round, OnPage
    <2>5. CASE task'[r] \in {NoTask, NewTask}
        <3>1. ~OnPage(r)' /\ ~Looping(r)'
            BY <1>1, <2>5 DEF OnPage, Looping
        <3>2. /\ task'[r].at \in {"wait", "batch"} => task'[r].todo = {}
              /\ task'[r].at = "wait" => task'[r].last = 0
            BY <1>1, <2>5
        <3> QED BY <2>2, <2>3, <3>1, <3>2, Zenon DEF Round
    <2> QED BY <2>4, <2>5
<1> QED BY <1>2, Zenon DEF NoneLeft

LEMMA NoneLeftRest ==
    ASSUME PInv, NoneLeft,
           \/ Restart \/ Crash \/ Shutdown \/ UNCHANGED vars
           \/ \E r \in Runs : LockExpires(r)
           \/ \E u \in Users : Watch(u) \/ Unwatch(u) \/ DeleteUser(u)
    PROVE  NoneLeft'
<1>1. /\ TypeOK /\ \A u \in watching : u \notin gone
      /\ \A r \in Runs : /\ Active(r) => entitled[r] \subseteq watching
                         /\ \A u \in entitled[r] : u \notin gone
      /\ entitled \in [Runs -> SUBSET Users]
      /\ recipient \in [Runs -> [Users -> RecipientRow \cup {NoValue}]]
    <2>1. TypeOK /\ entitled \in [Runs -> SUBSET Users]
        BY Zenon DEF PInv, IInv, TypeOK
    <2> QED BY <2>1, Types, Zenon DEF NoneLeft, Round
<1>2. runs' = runs
    BY Zenon DEF Restart, Crash, Shutdown, LockExpires, Watch, Unwatch, DeleteUser, vars, rows
<1>3. CASE Restart \/ Crash \/ Shutdown
    <2>1. \A r \in Runs : task'[r] \in {NoTask, NewTask}
        BY <1>3 DEF Restart, Crash, Shutdown
    <2>2. UNCHANGED <<watching, gone, entitled, recipient>>
        BY <1>3, Zenon DEF Restart, Crash, Shutdown, people, rows
    <2> QED BY <1>1, <1>2, <2>1, <2>2, NoneLeftWorld
<1>4. CASE UNCHANGED vars \/ \E r \in Runs : LockExpires(r)
    <2>1. UNCHANGED <<task, watching, gone, entitled, recipient>>
        BY <1>4, Zenon DEF LockExpires, people, rows, vars
    <2> QED BY <1>1, <1>2, <2>1, NoneLeftWorld
<1>5. ASSUME NEW u \in Users, Watch(u) PROVE NoneLeft'
    <2>1. /\ UNCHANGED <<task, gone, entitled, recipient>> /\ watching' = watching \cup {u}
          /\ u \notin gone
        BY <1>5, Zenon DEF Watch, rows
    <2> QED BY <1>1, <1>2, <2>1, NoneLeftWorld
<1>6. ASSUME NEW u \in Users, Unwatch(u) PROVE NoneLeft'
    <2>1. /\ UNCHANGED <<task, gone, recipient>> /\ watching' = watching \ {u}
          /\ entitled' = [r \in Runs |-> IF Active(r) THEN entitled[r] \ {u} ELSE entitled[r]]
        BY <1>6, Zenon DEF Unwatch, rows
    <2>2. \A r \in Runs : /\ entitled'[r] \subseteq entitled[r]
                          /\ Active(r) => entitled'[r] \subseteq watching'
        BY <1>1, <2>1
    <2> QED BY <1>1, <1>2, <2>1, <2>2, NoneLeftWorld
<1>7. ASSUME NEW u \in Users, DeleteUser(u) PROVE NoneLeft'
    <2>1. /\ task' = task /\ watching' = watching \ {u} /\ gone' = gone \cup {u}
          /\ entitled' = [r \in Runs |-> entitled[r] \ {u}]
          /\ recipient' = [r \in Runs |-> [recipient[r] EXCEPT ![u] = NoValue]]
        BY <1>7, Zenon DEF DeleteUser
    <2>2. \A r \in Runs : /\ entitled'[r] \subseteq entitled[r]
                          /\ Active(r) => entitled'[r] \subseteq watching'
                          /\ \A v \in entitled'[r] : v \notin gone' /\ v # u /\ v \in Users
        BY <1>1, <2>1
    <2>3. \A r \in Runs : \A v \in entitled'[r] : recipient'[r][v] = recipient[r][v]
        BY <1>1, <2>1, <2>2
    <2>4. \A v \in watching' : v \notin gone'
        BY <1>1, <2>1
    <2> QED BY <1>2, <2>1, <2>2, <2>3, <2>4, NoneLeftWorld
<1> QED BY <1>3, <1>4, <1>5, <1>6, <1>7

LEMMA NoneLeftNext == PInv /\ NoneLeft /\ [Next]_vars => NoneLeft'
<1> SUFFICES ASSUME PInv, NoneLeft, [Next]_vars PROVE NoneLeft'
    OBVIOUS
<1>1. IInv'
    BY Inductive DEF PInv
<1>2. ASSUME NEW r \in Runs PROVE task[r].todo \subseteq Users
    <2>1. task[r] \in Task
        BY Types DEF PInv, IInv
    <2> QED BY <2>1, SMT DEF Task
<1>3. ASSUME NEW r \in Runs, ProcessUser(r) PROVE NoneLeft'
    <2>1. ASSUME NEW u \in task[r].todo,
                 \/ SkipUser(r, u) \/ NoDeals(r, u) \/ Defer(r, u)
                 \/ StorePages(r, u) \/ ResumePages(r, u)
          PROVE  NoneLeft'
        <3>1. u \in Users
            BY <1>2
        <3> QED BY <1>1, <2>1, <3>1, NoneLeftLoop, NoneLeftUsers, Zenon
    <2>2. CASE SendPage(r) \/ RecordPage(r) \/ RecordError(r) \/ UserSent(r)
        <3>1. task[r].user \in Users
            BY <2>2, Zenon DEF PInv, IInv, PagesLeft, SendPage, RecordPage, RecordError, UserSent
        <3> QED BY <1>1, <2>2, <3>1, NoneLeftPages
    <2> QED BY <1>3, <2>1, <2>2, Zenon DEF ProcessUser
<1>4. ASSUME NEW r \in Runs, Fail(r) \/ FailUnrecorded(r) \/ DatabaseFails(r) PROVE NoneLeft'
    <2>1. /\ Goto(r, "failing") \/ EndTask(r)
          /\ UNCHANGED <<watching, gone, entitled, recipient>>
          /\ runs' = runs \/ runs' = [runs EXCEPT ![r].status = "failed"]
        BY <1>4, Zenon DEF Fail, FailUnrecorded, DatabaseFails, people, rows
    <2>2. task[r].at # "none"
        BY <1>4 DEF Fail, FailUnrecorded, DatabaseFails
    <2> QED BY <2>1, <2>2, NoneLeftStop
<1>5. ASSUME NEW r \in Runs, NextBatch(r) \/ BatchDone(r) PROVE NoneLeft'
    BY <1>1, <1>5, NoneLeftLoop
<1> QED BY <1>3, <1>4, <1>5, NoneLeftCreate, NoneLeftStart, NoneLeftFinish, NoneLeftRest,
           Zenon DEF Next, TaskStep

LEMMA NoneLeftInit == Init => NoneLeft
<1> SUFFICES ASSUME Init PROVE NoneLeft
    OBVIOUS
<1>1. \A r \in Runs : task[r] = NoTask /\ runs[r] = NoValue /\ entitled[r] = {}
    BY DEF Init
<1>2. NoTask.at = "none"
    BY DEF NoTask, Idle
<1>3. gone = {}
    BY DEF Init
<1> QED BY <1>1, <1>2, <1>3 DEF NoneLeft, Round, OnPage, Looping, Active, Completed

\* A completed run left no one out, for any number of users, any size of the
\* batches and whatever failed, crashed or was resumed on the way.
THEOREM CompletedHolds == Spec => []CompletedServesAll
<1>1. NoneLeft => CompletedServesAll
    BY Zenon DEF NoneLeft, Round, Completed, CompletedServesAll
<1> QED BY PInit, PInductive, NoneLeftInit, NoneLeftNext, <1>1, PTL DEF Spec

-----------------------------------------------------------------------------
(* The report adds up.                                                     *)

\* User u is counted under this status in run r.
Has(r, u, status) == recipient[r][u] # NoValue /\ recipient[r][u].status = status

\* Page p of user u is counted as sent in run r.
PageSent(r, u, p) ==
    LET row == recipient[r][u]
    IN row # NoValue /\ row.status # "deferred" /\ p < row.message_count

\* ReportAddsUp counts sets of rows, which are finite because a run has taken up
\* finitely many users so far; a run that is not created yet has no rows.
Sums(r) ==
    /\ \A status \in UserStatus : IsFiniteSet(WithStatus(r, status))
    /\ IsFiniteSet(SentPages(r))
    /\ runs[r] = NoValue => \A u \in Users : recipient[r][u] = NoValue
    /\ runs[r] # NoValue => CountsRows(r)

Reported == gone = {} => \A r \in Runs : Sums(r)

\* One row changes: a status gains or loses its user, or stays.
LEMMA StatusChange ==
    ASSUME NEW r \in Runs, NEW u \in Users, NEW status, IsFiniteSet(WithStatus(r, status)),
           \A v \in Users : v # u => recipient'[r][v] = recipient[r][v]
    PROVE  /\ IsFiniteSet(WithStatus(r, status)')
           /\ (Has(r, u, status)' <=> Has(r, u, status)) =>
                 StatusCount(r, status)' = StatusCount(r, status)
           /\ ~Has(r, u, status) /\ Has(r, u, status)' =>
                 StatusCount(r, status)' = StatusCount(r, status) + 1
           /\ Has(r, u, status) /\ ~Has(r, u, status)' =>
                 StatusCount(r, status)' = StatusCount(r, status) - 1
<1>1. \A v \in Users : v # u => (Has(r, v, status)' <=> Has(r, v, status))
    BY Zenon DEF Has
<1>2. /\ WithStatus(r, status) = {v \in Users : Has(r, v, status)}
      /\ WithStatus(r, status)' = {v \in Users : Has(r, v, status)'}
    BY Zenon DEF WithStatus, Has
<1>3. CASE Has(r, u, status)' <=> Has(r, u, status)
    <2>1. WithStatus(r, status)' = WithStatus(r, status)
        BY <1>1, <1>2, <1>3, Zenon
    <2> QED BY <1>3, <2>1, Zenon DEF StatusCount
<1>4. CASE ~Has(r, u, status) /\ Has(r, u, status)'
    <2>1. /\ WithStatus(r, status)' = WithStatus(r, status) \cup {u}
          /\ u \notin WithStatus(r, status)
        BY <1>1, <1>2, <1>4, Zenon
    <2>2. /\ IsFiniteSet(WithStatus(r, status) \cup {u})
          /\ Cardinality(WithStatus(r, status) \cup {u}) = Cardinality(WithStatus(r, status)) + 1
        BY <2>1, FS_AddElement, Zenon
    <2> QED BY <1>4, <2>1, <2>2, Zenon DEF StatusCount
<1>5. CASE Has(r, u, status) /\ ~Has(r, u, status)'
    <2>1. /\ WithStatus(r, status)' = WithStatus(r, status) \ {u}
          /\ u \in WithStatus(r, status)
        BY <1>1, <1>2, <1>5, Zenon
    <2>2. /\ IsFiniteSet(WithStatus(r, status) \ {u})
          /\ Cardinality(WithStatus(r, status) \ {u}) = Cardinality(WithStatus(r, status)) - 1
        BY <2>1, FS_RemoveElement, Zenon
    <2> QED BY <1>5, <2>1, <2>2, Zenon DEF StatusCount
<1> QED BY <1>3, <1>4, <1>5, Zenon

\* One row changes: the pages stay, or one more is sent.
LEMMA PagesChange ==
    ASSUME NEW r \in Runs, NEW u \in Users, IsFiniteSet(SentPages(r)),
           \A v \in Users : v # u => recipient'[r][v] = recipient[r][v]
    PROVE  /\ (\A p \in 0..MaxPages - 1 : PageSent(r, u, p)' <=> PageSent(r, u, p)) =>
                 SentPages(r)' = SentPages(r)
           /\ \A q \in 0..MaxPages - 1 :
                 /\ ~PageSent(r, u, q) /\ PageSent(r, u, q)'
                 /\ \A p \in 0..MaxPages - 1 :
                       p # q => (PageSent(r, u, p)' <=> PageSent(r, u, p))
                 => /\ IsFiniteSet(SentPages(r)')
                    /\ Cardinality(SentPages(r)') = Cardinality(SentPages(r)) + 1
<1> DEFINE M == Users \X (0..MaxPages - 1)
<1>1. \A m \in M : /\ m[1] \in Users /\ m[2] \in 0..MaxPages - 1
                   /\ m = <<m[1], m[2]>>
    OBVIOUS
<1>2. /\ SentPages(r) = {m \in M : PageSent(r, m[1], m[2])}
      /\ SentPages(r)' = {m \in M : PageSent(r, m[1], m[2])'}
    BY Zenon DEF SentPages, PageSent
<1>3. \A m \in M : m[1] # u => (PageSent(r, m[1], m[2])' <=> PageSent(r, m[1], m[2]))
    BY <1>1, Zenon DEF PageSent
<1>4. ASSUME \A p \in 0..MaxPages - 1 : PageSent(r, u, p)' <=> PageSent(r, u, p)
      PROVE  SentPages(r)' = SentPages(r)
    <2>1. \A m \in M : PageSent(r, m[1], m[2])' <=> PageSent(r, m[1], m[2])
        BY <1>1, <1>3, <1>4, Zenon
    <2> HIDE DEF M
    <2> QED BY <1>2, <2>1, Zenon
<1>5. ASSUME NEW q \in 0..MaxPages - 1, ~PageSent(r, u, q), PageSent(r, u, q)',
             \A p \in 0..MaxPages - 1 : p # q => (PageSent(r, u, p)' <=> PageSent(r, u, p))
      PROVE  /\ IsFiniteSet(SentPages(r)')
             /\ Cardinality(SentPages(r)') = Cardinality(SentPages(r)) + 1
    <2>1. <<u, q>> \in M /\ <<u, q>>[1] = u /\ <<u, q>>[2] = q
        OBVIOUS
    <2>2. \A m \in M : m # <<u, q>> => (PageSent(r, m[1], m[2])' <=> PageSent(r, m[1], m[2]))
        BY <1>1, <1>3, <1>5, Zenon
    <2>3. PageSent(r, <<u, q>>[1], <<u, q>>[2])' /\ ~PageSent(r, <<u, q>>[1], <<u, q>>[2])
        BY <1>5, <2>1, Zenon
    <2> HIDE DEF M
    <2>4. /\ SentPages(r)' = SentPages(r) \cup {<<u, q>>}
          /\ <<u, q>> \notin SentPages(r)
        BY <1>2, <2>1, <2>2, <2>3, Zenon
    <2>5. /\ IsFiniteSet(SentPages(r) \cup {<<u, q>>})
          /\ Cardinality(SentPages(r) \cup {<<u, q>>}) = Cardinality(SentPages(r)) + 1
        BY <2>4, FS_AddElement, Zenon
    <2> QED BY <2>4, <2>5, Zenon
<1> QED BY <1>4, <1>5, Zenon

\* Runs whose rows and counters stay.
LEMMA SumsKept ==
    ASSUME NEW r \in Runs, Sums(r), recipient'[r] = recipient[r],
           \/ runs'[r] = runs[r]
           \/ runs[r] # NoValue /\ runs'[r] # NoValue /\ runs'[r].count = runs[r].count
    PROVE  Sums(r)'
<1>1. /\ SentPages(r)' = SentPages(r)
      /\ \A status : /\ WithStatus(r, status)' = WithStatus(r, status)
                     /\ StatusCount(r, status)' = StatusCount(r, status)
    BY Zenon DEF SentPages, WithStatus, StatusCount
<1>2. CountsRows(r) /\ runs'[r].count = runs[r].count => CountsRows(r)'
    BY <1>1, Zenon DEF CountsRows
<1> QED BY <1>1, <1>2, Zenon DEF Sums

\* A step adds one to these counters of run r.
Adds(r, counters) ==
    /\ runs'[r] # NoValue
    /\ \A c \in Counters :
          runs'[r].count[c] = runs[r].count[c] + (IF c \in counters THEN 1 ELSE 0)

\* The counters of a user whose row takes this status.
CountersOf(status, counters) ==
    \/ /\ status \in {"no_deals", "deferred", "blocked", "temporary_error", "failed"}
       /\ counters = {status, "checked"}
    \/ status = "sent" /\ counters = {"checked"}
    \/ status = "pending" /\ counters = {}

LEMMA CountAdds ==
    ASSUME TypeOK, NEW r \in Runs, runs[r] # NoValue, NEW counters, Count(r, counters)
    PROVE  Adds(r, counters) /\ \A s \in Runs \ {r} : runs'[s] = runs[s]
<1>1. runs \in [Runs -> RunRow \cup {NoValue}] /\ runs[r] \in RunRow
    BY Types
<1>2. runs' = [runs EXCEPT ![r] = Counted(runs[r], counters)]
    BY Zenon DEF Count
<1>3. Counted(runs[r], counters) # NoValue
    BY <1>1, CountedRun, NoValueAssumption
<1> QED BY <1>1, <1>2, <1>3 DEF Counted, Adds

\* The counters are natural numbers, and so are the numbers of rows.
LEMMA CountersAreNat ==
    ASSUME TypeOK, NEW r \in Runs, runs[r] # NoValue
    PROVE  \A c \in Counters : runs[r].count[c] \in Nat
<1>1. runs[r] \in RunRow
    BY Types
<1> QED BY <1>1, SMT DEF RunRow

\* A turn of user u ends, or begins: the row takes another status, its pages
\* stay, and the counters are those of the new status.
LEMMA SumsTurn ==
    ASSUME TypeOK, NEW r \in Runs, NEW u \in Users, Sums(r), runs[r] # NoValue,
           NEW new, NEW counters, Adds(r, counters), CountersOf(new, counters),
           \A v \in Users : v # u => recipient'[r][v] = recipient[r][v],
           \A status : Has(r, u, status)' <=> status = new,
           \A status : Has(r, u, status) => status \in {"pending", "temporary_error", "failed"},
           \A p \in 0..MaxPages - 1 : PageSent(r, u, p)' <=> PageSent(r, u, p)
    PROVE  Sums(r)'
<1> DEFINE old(c) == runs[r].count[c]
           num(c) == runs'[r].count[c]
           few(status) == StatusCount(r, status)
           now(status) == StatusCount(r, status)'
<1>1. SentPages(r)' = SentPages(r) /\ IsFiniteSet(SentPages(r)) /\ CountsRows(r)
    <2>1. IsFiniteSet(SentPages(r)) /\ CountsRows(r)
        BY Zenon DEF Sums
    <2> QED BY <2>1, PagesChange, Zenon
<1>2. \A status \in UserStatus :
         /\ IsFiniteSet(WithStatus(r, status)')
         /\ few(status) \in Nat
         /\ (Has(r, u, status)' <=> Has(r, u, status)) => now(status) = few(status)
         /\ ~Has(r, u, status) /\ Has(r, u, status)' => now(status) = few(status) + 1
         /\ Has(r, u, status) /\ ~Has(r, u, status)' => now(status) = few(status) - 1
    <2>1. ASSUME NEW status \in UserStatus PROVE IsFiniteSet(WithStatus(r, status))
        BY Zenon DEF Sums
    <2>2. ASSUME NEW status \in UserStatus PROVE few(status) \in Nat
        BY <2>1, FS_CardinalityType, Zenon DEF StatusCount
    <2> HIDE DEF few, now
    <2>3. ASSUME NEW status \in UserStatus
          PROVE  /\ IsFiniteSet(WithStatus(r, status)')
                 /\ (Has(r, u, status)' <=> Has(r, u, status)) => now(status) = few(status)
                 /\ ~Has(r, u, status) /\ Has(r, u, status)' => now(status) = few(status) + 1
                 /\ Has(r, u, status) /\ ~Has(r, u, status)' => now(status) = few(status) - 1
        BY <2>1, StatusChange, Zenon DEF few, now
    <2> QED BY <2>2, <2>3, Zenon
<1>3. \A c \in Counters : /\ old(c) \in Nat
                          /\ num(c) = old(c) + (IF c \in counters THEN 1 ELSE 0)
    BY CountersAreNat DEF Adds
<1>4. /\ \A status \in {"no_deals", "deferred", "blocked"} : old(status) = few(status)
      /\ \A status \in {"temporary_error", "failed"} : old(status) >= few(status)
      /\ old("checked") = few("sent") + old("no_deals") + old("deferred")
                          + old("blocked") + old("temporary_error") + old("failed")
      /\ old("pages") = Cardinality(SentPages(r))
    BY <1>1, Zenon DEF CountsRows
<1> HIDE DEF old, num, few, now
<1>5. ASSUME NEW status \in {"no_deals", "deferred", "blocked"}
      PROVE  num(status) = now(status)
    <2>1. /\ status \in Counters /\ status \in UserStatus /\ status # "checked"
          /\ status \notin {"pending", "temporary_error", "failed"}
        BY DEF Counters, UserStatus, Outcomes
    <2>2. ~Has(r, u, status) /\ (status \in counters <=> status = new)
        BY <2>1, SMT DEF CountersOf
    <2> QED BY <1>2, <1>3, <1>4, <2>1, <2>2, SMT
<1>6. ASSUME NEW status \in {"temporary_error", "failed"}
      PROVE  num(status) >= now(status)
    <2>1. /\ status \in Counters /\ status \in UserStatus /\ status # "checked"
          /\ status \notin {"sent", "pending"}
        BY DEF Counters, UserStatus, Outcomes
    <2>2. status \in counters <=> status = new
        BY <2>1, SMT DEF CountersOf
    <2> QED BY <1>2, <1>3, <1>4, <2>1, <2>2, SMT
<1>7. num("checked") = now("sent") + num("no_deals") + num("deferred")
                       + num("blocked") + num("temporary_error") + num("failed")
    <2>1. now("sent") = few("sent") + (IF new = "sent" THEN 1 ELSE 0) /\ few("sent") \in Nat
        <3>1. "sent" \in UserStatus /\ "sent" \notin {"pending", "temporary_error", "failed"}
            BY DEF UserStatus, Outcomes
        <3> QED BY <1>2, <3>1, SMT
    <2>2. \A c \in {"checked", "no_deals", "deferred", "blocked", "temporary_error", "failed"} :
             c \in Counters
        BY DEF Counters
    <2> QED BY <1>3, <1>4, <2>1, <2>2, SMT DEF CountersOf
<1>8. num("pages") = Cardinality(SentPages(r))
    <2>1. "pages" \in Counters /\ "pages" \notin counters
        BY SMT DEF Counters, CountersOf
    <2> QED BY <1>3, <1>4, <2>1, SMT
<1>9. CountsRows(r)'
    BY <1>1, <1>5, <1>6, <1>7, <1>8, Zenon DEF CountsRows, num, now
<1> QED BY <1>1, <1>2, <1>9, Zenon DEF Sums, Adds

\* A page is recorded as sent: its row says so and the counter of pages.
LEMMA SumsPage ==
    ASSUME TypeOK, NEW r \in Runs, NEW u \in Users, Sums(r), runs[r] # NoValue,
           NEW q \in 0..MaxPages - 1, Adds(r, {"pages"}),
           \A v \in Users : v # u => recipient'[r][v] = recipient[r][v],
           \A status : Has(r, u, status)' <=> Has(r, u, status),
           ~PageSent(r, u, q), PageSent(r, u, q)',
           \A p \in 0..MaxPages - 1 : p # q => (PageSent(r, u, p)' <=> PageSent(r, u, p))
    PROVE  Sums(r)'
<1>1. /\ CountsRows(r) /\ IsFiniteSet(SentPages(r))
      /\ \A status \in UserStatus : IsFiniteSet(WithStatus(r, status))
    BY Zenon DEF Sums
<1>2. /\ IsFiniteSet(SentPages(r)')
      /\ Cardinality(SentPages(r)') = Cardinality(SentPages(r)) + 1
    BY <1>1, PagesChange, Zenon
<1>3. \A status \in UserStatus : /\ IsFiniteSet(WithStatus(r, status)')
                                 /\ StatusCount(r, status)' = StatusCount(r, status)
    BY <1>1, StatusChange, Zenon
<1>4. /\ \A status \in {"no_deals", "deferred", "blocked", "temporary_error", "failed", "sent"} :
            status \in UserStatus
      /\ \A c \in Counters : c # "pages" => runs'[r].count[c] = runs[r].count[c]
      /\ runs'[r].count["pages"] = runs[r].count["pages"] + 1
    <2>1. "pages" \in Counters
        BY DEF Counters
    <2>2. \A c \in Counters : runs[r].count[c] \in Nat
        BY CountersAreNat
    <2>3. \A c \in Counters : c # "pages" => runs'[r].count[c] = runs[r].count[c]
        BY <2>2, SMT DEF Adds
    <2> QED BY <2>1, <2>3, SMT DEF Adds, UserStatus, Outcomes
<1>5. \A c \in {"no_deals", "deferred", "blocked", "temporary_error", "failed", "checked"} :
         runs'[r].count[c] = runs[r].count[c]
    <2>1. \A c \in {"no_deals", "deferred", "blocked", "temporary_error", "failed", "checked"} :
             c \in Counters /\ c # "pages"
        BY DEF Counters
    <2> QED BY <1>4, <2>1, Zenon
<1>6. CountsRows(r)'
    <2>1. ASSUME NEW status \in {"no_deals", "deferred", "blocked"}
          PROVE  runs'[r].count[status] = StatusCount(r, status)'
        <3>1. runs[r].count[status] = StatusCount(r, status)
            BY <1>1, Zenon DEF CountsRows
        <3> QED BY <1>3, <1>4, <1>5, <3>1
    <2>2. ASSUME NEW status \in {"temporary_error", "failed"}
          PROVE  runs'[r].count[status] >= StatusCount(r, status)'
        <3>1. runs[r].count[status] >= StatusCount(r, status)
            BY <1>1, Zenon DEF CountsRows
        <3> QED BY <1>3, <1>4, <1>5, <3>1
    <2>3. runs'[r].count["checked"] =
             StatusCount(r, "sent")' + runs'[r].count["no_deals"] + runs'[r].count["deferred"]
             + runs'[r].count["blocked"] + runs'[r].count["temporary_error"]
             + runs'[r].count["failed"]
        <3>1. runs[r].count["checked"] =
                 StatusCount(r, "sent") + runs[r].count["no_deals"] + runs[r].count["deferred"]
                 + runs[r].count["blocked"] + runs[r].count["temporary_error"]
                 + runs[r].count["failed"]
            BY <1>1, Zenon DEF CountsRows
        <3> QED BY <1>3, <1>4, <1>5, <3>1
    <2>4. runs'[r].count["pages"] = Cardinality(SentPages(r)')
        <3>1. runs[r].count["pages"] = Cardinality(SentPages(r))
            BY <1>1, Zenon DEF CountsRows
        <3> QED BY <1>2, <1>4, <3>1
    <2> QED BY <2>1, <2>2, <2>3, <2>4, Zenon DEF CountsRows
<1> QED BY <1>2, <1>3, <1>6, Zenon DEF Sums, Adds

\* A row with this status and these pages, and the others as they were.
LEMMA NewRow ==
    ASSUME TypeOK, NEW r \in Runs, NEW u \in Users, NEW status \in UserStatus,
           NEW pages \in 0..MaxPages, NEW count \in 0..MaxPages,
           Record(r, u, Row(status, pages, count))
    PROVE  /\ \A v \in Users : v # u => recipient'[r][v] = recipient[r][v]
           /\ \A s \in Runs \ {r} : recipient'[s] = recipient[s]
           /\ \A t : Has(r, u, t)' <=> t = status
           /\ \A p : PageSent(r, u, p)' <=> status # "deferred" /\ p < count
<1>1. Row(status, pages, count) # NoValue
    BY MadeRow, NoRowAssumption
<1>2. /\ recipient'[r][u] = Row(status, pages, count)
      /\ \A s \in Runs, v \in Users : s # r \/ v # u => recipient'[s][v] = recipient[s][v]
    BY RecordLeaves, Zenon
<1>3. \A s \in Runs \ {r} : recipient'[s] = recipient[s]
    <2>1. recipient' = [recipient EXCEPT ![r] = [recipient[r] EXCEPT ![u] = Row(status, pages, count)]]
        BY Zenon DEF Record
    <2> QED BY <2>1, Types
<1>4. /\ recipient'[r][u] # NoValue /\ recipient'[r][u].status = status
      /\ recipient'[r][u].message_count = count
    BY <1>1, <1>2, RowFields
<1>5. \A t : Has(r, u, t)' <=> t = status
    BY <1>4, Zenon DEF Has
<1>6. \A p : PageSent(r, u, p)' <=> status # "deferred" /\ p < count
    BY <1>4, Zenon DEF PageSent
<1> QED BY <1>2, <1>3, <1>5, <1>6

\* The turn of a user begins.
LEMMA ReportedTurn ==
    ASSUME PInv, NEW r \in Runs, NEW u \in Users, \A s \in Runs : Sums(s),
           NoDeals(r, u) \/ Defer(r, u) \/ StorePages(r, u)
    PROVE  \A s \in Runs : Sums(s)'
<1>1. /\ TypeOK /\ runs[r] # NoValue /\ recipient[r][u] = NoValue
      /\ runs \in [Runs -> RunRow \cup {NoValue}]
    <2>1. TypeOK /\ Exclusive /\ recipient[r][u] = NoValue /\ task[r].at = "users"
        BY Zenon DEF PInv, IInv, NoDeals, Defer, StorePages, FirstTime, IsNext
    <2> QED BY <2>1, WorkingRun, Types
<1>2. /\ \A status : ~Has(r, u, status)
      /\ \A p : ~PageSent(r, u, p)
    BY <1>1, Zenon DEF Has, PageSent
<1>3. 0 \in 0..MaxPages /\ \A n \in 1..MaxPages : n \in 0..MaxPages
    BY BoundsAssumption, SMT
<1>4. \A p \in 0..MaxPages - 1 : ~(p < 0)
    BY BoundsAssumption, SMT
<1>5. ASSUME NEW status \in {"no_deals", "deferred", "pending"}, NEW n \in 0..MaxPages,
             NEW count \in 0..MaxPages, Record(r, u, Row(status, n, count)),
             status = "deferred" \/ count = 0,
             NEW counters, Adds(r, counters), CountersOf(status, counters)
      PROVE  Sums(r)' /\ \A s \in Runs \ {r} : recipient'[s] = recipient[s]
    <2>1. status \in UserStatus
        BY DEF UserStatus
    <2>2. /\ \A v \in Users : v # u => recipient'[r][v] = recipient[r][v]
          /\ \A s \in Runs \ {r} : recipient'[s] = recipient[s]
          /\ \A t : Has(r, u, t)' <=> t = status
          /\ \A p : PageSent(r, u, p)' <=> status # "deferred" /\ p < count
        BY <1>1, <1>5, <2>1, NewRow, Zenon
    <2>3. \A p \in 0..MaxPages - 1 : PageSent(r, u, p)' <=> PageSent(r, u, p)
        BY <1>2, <1>4, <1>5, <2>2, Zenon
    <2>4. \A t : Has(r, u, t) => t \in {"pending", "temporary_error", "failed"}
        BY <1>2
    <2>5. Sums(r)'
        BY <1>1, <1>5, <2>2, <2>3, <2>4, SumsTurn
    <2> QED BY <2>2, <2>5
<1>6. CASE NoDeals(r, u)
    <2>1. Record(r, u, Row("no_deals", 0, 0)) /\ Count(r, {"no_deals", "checked"})
        BY <1>6, Zenon DEF NoDeals
    <2>2. Adds(r, {"no_deals", "checked"}) /\ \A s \in Runs \ {r} : runs'[s] = runs[s]
        BY <1>1, <2>1, CountAdds, Zenon
    <2>3. /\ "no_deals" \in {"no_deals", "deferred", "pending"}
          /\ CountersOf("no_deals", {"no_deals", "checked"})
        BY DEF CountersOf
    <2>4. Sums(r)' /\ \A s \in Runs \ {r} : recipient'[s] = recipient[s]
        BY <1>3, <1>5, <2>1, <2>2, <2>3, Zenon
    <2> QED BY <2>2, <2>4, SumsKept
<1>7. CASE Defer(r, u)
    <2>1. PICK n \in 1..MaxPages : Record(r, u, Row("deferred", n, n))
        BY <1>7, Zenon DEF Defer
    <2>2. Count(r, {"deferred", "checked"})
        BY <1>7, Zenon DEF Defer
    <2>3. Adds(r, {"deferred", "checked"}) /\ \A s \in Runs \ {r} : runs'[s] = runs[s]
        BY <1>1, <2>2, CountAdds, Zenon
    <2>4. /\ "deferred" \in {"no_deals", "deferred", "pending"}
          /\ CountersOf("deferred", {"deferred", "checked"})
        BY DEF CountersOf
    <2>5. n \in 0..MaxPages
        BY <1>3
    <2>6. Sums(r)' /\ \A s \in Runs \ {r} : recipient'[s] = recipient[s]
        BY <1>5, <2>1, <2>3, <2>4, <2>5, Zenon
    <2> QED BY <2>3, <2>6, SumsKept
<1>8. CASE StorePages(r, u)
    <2>1. PICK n \in 1..MaxPages : Record(r, u, Row("pending", n, 0))
        BY <1>8, Zenon DEF StorePages
    <2>2. runs' = runs
        BY <1>8, Zenon DEF StorePages
    <2>3. Adds(r, {})
        <3>1. \A c \in Counters : runs[r].count[c] \in Nat
            BY <1>1, CountersAreNat
        <3> QED BY <1>1, <2>2, <3>1, SMT DEF Adds
    <2>4. /\ "pending" \in {"no_deals", "deferred", "pending"} /\ n \in 0..MaxPages
          /\ CountersOf("pending", {})
        BY <1>3 DEF CountersOf
    <2>5. Sums(r)' /\ \A s \in Runs \ {r} : recipient'[s] = recipient[s]
        BY <1>3, <1>5, <2>1, <2>3, <2>4, Zenon
    <2> QED BY <2>2, <2>5, SumsKept
<1> QED BY <1>6, <1>7, <1>8

\* A page, or a user's turn, is recorded.
LEMMA ReportedPages ==
    ASSUME PInv, NEW r \in Runs, NEW u \in Users, \A s \in Runs : Sums(s), task[r].user = u,
           RecordPage(r) \/ RecordError(r) \/ UserSent(r), recipient[r][u] # NoValue
    PROVE  \A s \in Runs : Sums(s)'
<1> DEFINE row == recipient[r][u]
<1>1. /\ TypeOK /\ runs[r] # NoValue /\ task[r] \in Task /\ row \in RecipientRow
      /\ runs \in [Runs -> RunRow \cup {NoValue}]
    <2>1. TypeOK /\ Exclusive /\ task[r].at # "none"
        BY DEF PInv, IInv, RecordPage, RecordError, UserSent
    <2> QED BY <2>1, WorkingRun, Types
<1>2. row.message_count = task[r].page /\ ~IsComplete(row.status)
    <2>1. OnPage(r) /\ TurnFits(r)
        BY Zenon DEF PInv, Fits, OnPage, RecordPage, RecordError, UserSent
    <2> QED BY <2>1, Zenon DEF TurnFits
<1>3. /\ row.status \in UserStatus /\ row.pages \in 0..MaxPages
      /\ row.message_count \in 0..MaxPages
    BY <1>1, SMT DEF RecipientRow
<1>4. row.status \in {"pending", "temporary_error", "failed"}
    BY <1>2, <1>3 DEF UserStatus, Outcomes, IsComplete
<1>5. /\ \A t : Has(r, u, t) <=> t = row.status
      /\ \A p : PageSent(r, u, p) <=> p < row.message_count
    BY <1>4, Zenon DEF Has, PageSent
<1> HIDE DEF row
<1>6. CASE RecordPage(r)
    <2>1. /\ Record(r, u, Row(row.status, row.pages, task[r].page + 1)) /\ Count(r, {"pages"})
          /\ task[r].at = "record"
        BY <1>6, Zenon DEF RecordPage, row
    <2>2. task[r].page \in 0..MaxPages - 1 /\ task[r].page + 1 \in 0..MaxPages
        <3>1. task[r].page < task[r].pages
            BY <2>1, Zenon DEF PInv, IInv, PagesLeft
        <3>2. task[r].page \in 0..MaxPages /\ task[r].pages \in 0..MaxPages
            BY <1>1, SMT DEF Task
        <3> QED BY <3>1, <3>2, BoundsAssumption, SMT
    <2>3. /\ \A v \in Users : v # u => recipient'[r][v] = recipient[r][v]
          /\ \A s \in Runs \ {r} : recipient'[s] = recipient[s]
          /\ \A t : Has(r, u, t)' <=> t = row.status
          /\ \A p : PageSent(r, u, p)' <=> row.status # "deferred" /\ p < task[r].page + 1
        BY <1>1, <1>3, <2>1, <2>2, NewRow
    <2>4. Adds(r, {"pages"}) /\ \A s \in Runs \ {r} : runs'[s] = runs[s]
        BY <1>1, <2>1, CountAdds, Zenon
    <2>5. PICK q \in 0..MaxPages - 1 : q = task[r].page
        BY <2>2
    <2>6. /\ ~PageSent(r, u, q) /\ PageSent(r, u, q)'
          /\ \A p \in 0..MaxPages - 1 : p # q => (PageSent(r, u, p)' <=> PageSent(r, u, p))
        <3>1. /\ ~(q < q) /\ q < q + 1
              /\ \A p \in 0..MaxPages - 1 : p # q => (p < q + 1 <=> p < q)
            BY BoundsAssumption, SMT
        <3>2. row.status # "deferred"
            BY <1>4
        <3>3. \A p : PageSent(r, u, p) <=> p < q
            BY <1>2, <1>5, <2>5
        <3>4. \A p : PageSent(r, u, p)' <=> p < q + 1
            BY <2>3, <2>5, <3>2
        <3> QED BY <3>1, <3>3, <3>4, Zenon
    <2>7. Sums(r)'
        BY <1>1, <1>5, <2>3, <2>4, <2>6, SumsPage
    <2> QED BY <2>3, <2>4, <2>7, SumsKept
<1>7. ASSUME NEW status \in UserStatus, status # "deferred", NEW counters,
             Record(r, u, Row(status, row.pages, row.message_count)), Count(r, counters),
             CountersOf(status, counters)
      PROVE  \A s \in Runs : Sums(s)'
    <2>1. /\ \A v \in Users : v # u => recipient'[r][v] = recipient[r][v]
          /\ \A s \in Runs \ {r} : recipient'[s] = recipient[s]
          /\ \A t : Has(r, u, t)' <=> t = status
          /\ \A p : PageSent(r, u, p)' <=> status # "deferred" /\ p < row.message_count
        BY <1>1, <1>3, <1>7, NewRow
    <2>2. Adds(r, counters) /\ \A s \in Runs \ {r} : runs'[s] = runs[s]
        BY <1>1, <1>7, CountAdds, Zenon
    <2>3. \A p \in 0..MaxPages - 1 : PageSent(r, u, p)' <=> PageSent(r, u, p)
        BY <1>5, <1>7, <2>1, Zenon
    <2>4. \A t : Has(r, u, t) => t \in {"pending", "temporary_error", "failed"}
        BY <1>4, <1>5
    <2>5. Sums(r)'
        BY <1>1, <1>7, <2>1, <2>2, <2>3, <2>4, SumsTurn
    <2> QED BY <2>1, <2>2, <2>5, SumsKept
<1>8. CASE RecordError(r)
    <2>1. /\ Record(r, u, Row(task[r].outcome, row.pages, row.message_count))
          /\ Count(r, {task[r].outcome, "checked"}) /\ task[r].outcome # "sent"
        BY <1>8, Zenon DEF RecordError, row
    <2>2. task[r].outcome \in {"blocked", "temporary_error", "failed"}
        <3>1. task[r].outcome \in Outcomes
            BY <1>1, SMT DEF Task
        <3> QED BY <2>1, <3>1 DEF Outcomes
    <2>3. /\ task[r].outcome \in UserStatus /\ task[r].outcome # "deferred"
          /\ CountersOf(task[r].outcome, {task[r].outcome, "checked"})
        BY <2>2 DEF UserStatus, Outcomes, CountersOf
    <2> QED BY <1>7, <2>1, <2>3
<1>9. CASE UserSent(r)
    <2>1. /\ Record(r, u, Row("sent", row.pages, row.message_count)) /\ Count(r, {"checked"})
        BY <1>9, Zenon DEF UserSent, row
    <2>2. "sent" \in UserStatus /\ CountersOf("sent", {"checked"})
        BY DEF UserStatus, Outcomes, CountersOf
    <2> QED BY <1>7, <2>1, <2>2
<1> QED BY <1>6, <1>8, <1>9

\* A new run counts nothing.
LEMMA ReportedCreate ==
    ASSUME TypeOK, NEW r \in Runs, \A s \in Runs : Sums(s), CreateRun(r)
    PROVE  \A s \in Runs : Sums(s)'
<1>1. /\ runs[r] = NoValue /\ recipient' = recipient
      /\ runs' = [runs EXCEPT ![r] = NewRun]
    BY Zenon DEF CreateRun
<1>2. runs'[r] = NewRun /\ \A s \in Runs \ {r} : runs'[s] = runs[s]
    BY <1>1, Types
<1>3. \A u \in Users : recipient'[r][u] = NoValue
    BY <1>1, Zenon DEF Sums
<1>4. /\ SentPages(r)' = {}
      /\ \A status : WithStatus(r, status)' = {}
    BY <1>3 DEF SentPages, WithStatus
<1>5. \A status : StatusCount(r, status)' = 0
    BY <1>4, FS_EmptySet, Zenon DEF StatusCount
<1>6. \A c \in {"checked", "pages", "no_deals", "deferred", "blocked", "temporary_error", "failed"} :
         runs'[r].count[c] = 0
    BY <1>2, SMT DEF NewRun, Counters
<1>7. CountsRows(r)'
    BY <1>4, <1>5, <1>6, FS_EmptySet, SMT DEF CountsRows
<1>8. NewRun # NoValue
    <2>1. NewRun \in RunRow
        BY SMT DEF NewRun, RunRow, RunStatus
    <2> QED BY <2>1, NoValueAssumption
<1>9. Sums(r)'
    BY <1>2, <1>4, <1>7, <1>8, FS_EmptySet, Zenon DEF Sums
<1> QED BY <1>1, <1>2, <1>9, SumsKept

\* The steps of a run that change its status alone, and those of the others.
LEMMA CountStays ==
    ASSUME TypeOK, NEW r \in Runs, runs[r] # NoValue, NEW status \in RunStatus,
           runs' = [runs EXCEPT ![r].status = status]
    PROVE  /\ runs'[r] # NoValue /\ runs'[r].count = runs[r].count
           /\ \A s \in Runs \ {r} : runs'[s] = runs[s]
<1>1. runs \in [Runs -> RunRow \cup {NoValue}] /\ runs[r] \in RunRow
    BY Types
<1>2. /\ [runs[r] EXCEPT !.status = status] \in RunRow
      /\ [runs[r] EXCEPT !.status = status].count = runs[r].count
    BY <1>1, SMT DEF RunRow
<1> QED BY <1>1, <1>2, NoValueAssumption

\* The report still adds up after each step, unless a user was deleted.
LEMMA ReportedNext == PInv /\ Reported /\ [Next]_vars => Reported'
<1> SUFFICES ASSUME PInv, Reported, [Next]_vars, gone' = {}
             PROVE  \A s \in Runs : Sums(s)'
    BY Zenon DEF Reported
<1>1. TypeOK /\ Exclusive
    BY DEF PInv, IInv
<1>2. ASSUME NEW u \in Users, DeleteUser(u) PROVE FALSE
    BY <1>2 DEF DeleteUser
<1>3. gone = {}
    <2>1. CASE Elsewhere
        BY <2>1, ElsewhereKeeps
    <2>2. CASE Crash \/ Shutdown \/ \E r \in Runs : DatabaseFails(r)
        BY <2>2, Interrupted
    <2>3. ASSUME NEW r \in Runs, NEW u \in Users,
                 \/ NoDeals(r, u) \/ Defer(r, u) \/ StorePages(r, u) \/ ResumePages(r, u)
                 \/ SendPage(r) \/ RecordPage(r) \/ RecordError(r) \/ UserSent(r)
          PROVE  gone = {}
        BY <2>3, Zenon DEF NoDeals, Defer, StorePages, ResumePages, SendPage, RecordPage,
           RecordError, UserSent, people
    <2> QED BY <1>2, <2>1, <2>2, <2>3, Steps, Zenon
<1>4. \A s \in Runs : Sums(s)
    BY <1>3 DEF Reported
<1>5. ASSUME runs' = runs, recipient' = recipient PROVE \A s \in Runs : Sums(s)'
    BY <1>4, <1>5, SumsKept
<1>6. ASSUME NEW r \in Runs, runs[r] # NoValue, NEW status \in RunStatus,
             runs' = [runs EXCEPT ![r].status = status], recipient' = recipient
      PROVE  \A s \in Runs : Sums(s)'
    <2>1. /\ runs'[r] # NoValue /\ runs'[r].count = runs[r].count
          /\ \A s \in Runs \ {r} : runs'[s] = runs[s]
        BY <1>1, <1>6, CountStays
    <2> QED BY <1>4, <1>6, <2>1, SumsKept
<1>7. CASE Elsewhere
    <2>1. recipient' = recipient
        BY <1>7, ElsewhereKeeps
    <2>2. ASSUME NEW r \in Runs, Start(r) \/ Finish(r) \/ Fail(r) PROVE \A s \in Runs : Sums(s)'
        <3>1. runs[r] # NoValue
            <4>1. task[r].at # "none"
                BY <2>2 DEF Start, Finish, Fail
            <4> QED BY <1>1, <4>1, WorkingRun
        <3>2. \/ runs' = runs
              \/ \E status \in RunStatus : runs' = [runs EXCEPT ![r].status = status]
            BY <2>2, Zenon DEF Start, Finish, Fail, RunStatus
        <3> QED BY <1>5, <1>6, <2>1, <3>1, <3>2
    <2>3. ASSUME NEW r \in Runs, CreateRun(r) PROVE \A s \in Runs : Sums(s)'
        BY <1>1, <1>4, <2>3, ReportedCreate
    <2>4. ASSUME NEW r \in Runs,
                 \/ NextBatch(r) \/ BatchDone(r) \/ LockExpires(r) \/ FailUnrecorded(r)
                 \/ \E u \in task[r].todo : SkipUser(r, u)
          PROVE  runs' = runs
        BY <2>4, Zenon DEF NextBatch, BatchDone, LockExpires, FailUnrecorded, SkipUser, rows
    <2>5. ASSUME Restart \/ UNCHANGED vars \/ \E u \in Users : Watch(u) \/ Unwatch(u)
          PROVE  runs' = runs
        BY <2>5, Zenon DEF Restart, Watch, Unwatch, vars, rows
    <2> QED BY <1>5, <1>7, <2>1, <2>2, <2>3, <2>4, <2>5, Zenon DEF Elsewhere
<1>8. CASE Crash \/ Shutdown \/ \E r \in Runs : DatabaseFails(r)
    <2>1. runs' = runs /\ recipient' = recipient
        BY <1>8, Zenon DEF Crash, Shutdown, DatabaseFails, rows
    <2> QED BY <1>5, <2>1
<1>9. ASSUME NEW r \in Runs, NEW u \in Users,
             NoDeals(r, u) \/ Defer(r, u) \/ StorePages(r, u) \/ ResumePages(r, u)
      PROVE  \A s \in Runs : Sums(s)'
    <2>1. CASE ResumePages(r, u)
        <3>1. runs' = runs /\ recipient' = recipient
            BY <2>1, Zenon DEF ResumePages, rows
        <3> QED BY <1>5, <3>1
    <2> QED BY <1>4, <1>9, <2>1, ReportedTurn
<1>10. ASSUME NEW r \in Runs, NEW u \in Users, task[r].user = u,
              SendPage(r) \/ RecordPage(r) \/ RecordError(r) \/ UserSent(r)
       PROVE  \A s \in Runs : Sums(s)'
    <2>1. CASE SendPage(r) \/ recipient[r][u] = NoValue
        <3>1. runs' = runs /\ recipient' = recipient
            BY <1>10, <2>1, Zenon DEF SendPage, RecordPage, RecordError, UserSent, rows
        <3> QED BY <1>5, <3>1
    <2> QED BY <1>4, <1>10, <2>1, ReportedPages
<1> QED BY <1>2, <1>7, <1>8, <1>9, <1>10, Steps, Zenon

LEMMA ReportedInit == Init => Reported
<1> SUFFICES ASSUME Init, NEW r \in Runs PROVE Sums(r)
    BY Zenon DEF Reported
<1>1. runs[r] = NoValue /\ \A u \in Users : recipient[r][u] = NoValue
    BY DEF Init
<1>2. SentPages(r) = {} /\ \A status : WithStatus(r, status) = {}
    BY <1>1 DEF SentPages, WithStatus
<1> QED BY <1>1, <1>2, FS_EmptySet, Zenon DEF Sums

\* The report adds up, for any number of users and pages, whatever failed,
\* crashed or was resumed, as long as no user was deleted.
THEOREM ReportHolds == Spec => []ReportAddsUp
<1>1. Reported => ReportAddsUp
    BY Zenon DEF Reported, Sums, ReportAddsUp
<1> QED BY PInit, PInductive, ReportedInit, ReportedNext, <1>1, PTL DEF Spec
=============================================================================
