--------------------------- MODULE DealBroadcast ---------------------------
(***************************************************************************)
(* DealBroadcastService: the administrator's broadcast that sends each     *)
(* watching user personal pages of current deals.                          *)
(*                                                                         *)
(* The rows of deal_broadcast_runs (runs) and deal_broadcast_recipients    *)
(* (recipient) survive a crash; the task that works a run off does not, and *)
(* the run's redis lock outlives a crashed task until its TTL ends.  A task *)
(* sends a page first and commits that it did so afterwards.  Which deals  *)
(* a user has is left open: any number of pages up to MaxPages.            *)
(***************************************************************************)
EXTENDS Integers, FiniteSets

CONSTANTS
    NoValue,     \* no such row
    Runs,        \* runs that may ever be created
    Users,       \* user ids
    Allowed,     \* the values admin_ids may take: is the runs' admin in it?
    BatchSize,   \* deal_broadcast_batch_size
    MaxPages,    \* bound: pages per user
    MaxFaults,   \* bound: doubtful sends, lost commits and crashes
    MaxEdits     \* bound: changes of watch lists and deleted users

ASSUME UsersAssumption == Users \subseteq Nat \ {0}
ASSUME BatchAssumption == BatchSize \in Nat \ {0}
ASSUME BoundsAssumption == MaxPages \in Nat /\ MaxFaults \in Nat /\ MaxEdits \in Nat
ASSUME AllowedAssumption == Allowed \in SUBSET BOOLEAN /\ Allowed # {}

VARIABLES
    runs,       \* [Runs -> row or NoValue]
    recipient,  \* [Runs -> [Users -> row or NoValue]]
    locked,     \* runs whose lock:deal-broadcast exists in redis
    task,       \* [Runs -> the asyncio task that works the run off]
    up,         \* the bot's process runs
    allowed,    \* the runs' admin is in admin_ids
    watching,   \* users with an enabled watch rule
    gone,       \* deleted users
    seen,       \* history: [Runs -> [Users -> pages the user got so far]]
    entitled,   \* history: [Runs -> users watching since the run was created]
    repeats,    \* history: pages that reached a user again
    faults, edits  \* history: what MaxFaults and MaxEdits count

rows == <<runs, recipient>>
people == <<watching, gone, edits>>
process == <<up, allowed>>
history == <<seen, repeats, faults>>
vars == <<rows, locked, task, process, people, entitled, history>>

-----------------------------------------------------------------------------
RunStatus == {"pending", "running", "completed", "partially_completed", "failed"}
Outcomes == {"sent", "blocked", "temporary_error", "failed"}
UserStatus == Outcomes \cup {"pending", "deferred", "no_deals"}

\* The counters of a run: users_checked ("checked"), messages_sent ("pages"), and
\* one for each way a user's turn can end but "sent".
Counters == {"checked", "pages", "no_deals", "deferred", "blocked", "temporary_error", "failed"}

RunRow == [status : RunStatus, count : [Counters -> Nat]]

ASSUME NoValueAssumption == NoValue \notin RunRow

RecipientRow ==
    [status : UserStatus, pages : 0..MaxPages, message_count : 0..MaxPages]

ASSUME NoRowAssumption == NoValue \notin RecipientRow

\* at: none (no task), wait (created, lock not tried), batch (select the next
\* users), users (take the next of todo), send, record (the outcome is known
\* but not committed), failing (an exception is being handled).
Places == {"none", "wait", "batch", "users", "send", "record", "failing"}

Task ==
    [at : Places, last : Nat, todo : SUBSET Users, user : Users \cup {0},
     page : 0..MaxPages, pages : 0..MaxPages, outcome : Outcomes]

Idle(place) ==
    [at |-> place, last |-> 0, todo |-> {}, user |-> 0, page |-> 0, pages |-> 0,
     outcome |-> "sent"]

NoTask == Idle("none")
NewTask == Idle("wait")

\* The task between two users of a batch, before a page, and after it.
InBatch(last, todo) ==
    [at |-> "users", last |-> last, todo |-> todo, user |-> 0, page |-> 0, pages |-> 0,
     outcome |-> "sent"]
Sending(t, u, page, pages) ==
    [at |-> "send", last |-> t.last, todo |-> t.todo, user |-> u, page |-> page,
     pages |-> pages, outcome |-> "sent"]
Recording(t, outcome) ==
    [at |-> "record", last |-> t.last, todo |-> t.todo, user |-> t.user, page |-> t.page,
     pages |-> t.pages, outcome |-> outcome]

NewRun == [status |-> "pending", count |-> [c \in Counters |-> 0]]

\* The run's row with one more in each of these counters.
Counted(run, counters) ==
    [status |-> run.status,
     count |-> [c \in Counters |-> run.count[c] + IF c \in counters THEN 1 ELSE 0]]

TypeOK ==
    /\ runs \in [Runs -> RunRow \cup {NoValue}]
    /\ recipient \in [Runs -> [Users -> RecipientRow \cup {NoValue}]]
    /\ locked \subseteq Runs
    /\ task \in [Runs -> Task]
    /\ up \in BOOLEAN /\ allowed \in BOOLEAN
    /\ watching \subseteq Users /\ gone \subseteq Users
    /\ seen \in [Runs -> [Users -> 0..MaxPages]]
    /\ entitled \in [Runs -> SUBSET Users]
    /\ repeats \in Nat /\ faults \in 0..MaxFaults /\ edits \in 0..MaxEdits

\* The partial unique index uq_active_deal_broadcast is over these runs.
Active(r) == runs[r] # NoValue /\ runs[r].status \in {"pending", "running"}

\* Mutant of IsComplete: "sent" is forgotten.
IsCompleteButSent(status) == status \in {"deferred", "no_deals", "blocked"}

\* recipient_is_complete.
IsComplete(status) == status \in {"sent", "deferred", "no_deals", "blocked"}

Init ==
    /\ runs = [r \in Runs |-> NoValue]
    /\ recipient = [r \in Runs |-> [u \in Users |-> NoValue]]
    /\ locked = {} /\ task = [r \in Runs |-> NoTask]
    /\ up = TRUE /\ allowed = TRUE
    /\ watching \in SUBSET Users /\ gone = {} /\ edits = 0
    /\ seen = [r \in Runs |-> [u \in Users |-> 0]]
    /\ entitled = [r \in Runs |-> {}]
    /\ repeats = 0 /\ faults = 0

-----------------------------------------------------------------------------
(* The administrator starts a run; the process resumes runs at startup.    *)

\* create_run: the insert fails on the index while a run is active.
CreateRun(r) ==
    /\ up /\ allowed
    /\ runs[r] = NoValue
    /\ \A s \in Runs : ~Active(s)
    /\ runs' = [runs EXCEPT ![r] = NewRun]
    /\ task' = [task EXCEPT ![r] = NewTask]
    /\ entitled' = [entitled EXCEPT ![r] = watching]
    /\ UNCHANGED <<recipient, locked, process, people, history>>

\* resume_active: one task for every active run.  admin_ids is read again.
Restart ==
    /\ ~up /\ up' = TRUE
    /\ allowed' \in Allowed
    /\ task' = [r \in Runs |-> IF Active(r) THEN NewTask ELSE NoTask]
    /\ UNCHANGED <<rows, locked, people, entitled, history>>

-----------------------------------------------------------------------------
(* run: the loop over the users, in batches in the order of their ids.     *)

Goto(r, place) == task' = [task EXCEPT ![r].at = place]
EndTask(r) == task' = [task EXCEPT ![r] = NoTask]

\* Held lock: return.  No admin any more: take the lock, return, release it.
Start(r) ==
    /\ task[r].at = "wait"
    /\ IF r \in locked \/ ~allowed
       THEN EndTask(r) /\ UNCHANGED <<runs, locked>>
       ELSE /\ locked' = locked \cup {r}
            /\ runs' = [runs EXCEPT ![r].status = "running"]
            /\ Goto(r, "batch")
    /\ UNCHANGED <<recipient, process, people, entitled, history>>

\* Watching users after the last one handled, at most BatchSize of them, the
\* smallest ids first.
IsBatch(batch, last) ==
    LET later == {u \in watching : u > last}
    IN /\ batch \subseteq later /\ batch # {} /\ IsFiniteSet(batch)
       /\ Cardinality(batch) <= BatchSize
       /\ \A u \in batch, v \in later \ batch : u < v
       /\ batch # later => Cardinality(batch) = BatchSize

\* Mutant of NextBatch: last_user_id stays where it was.
NextBatchFromStart(r) ==
    /\ task[r].at = "batch"
    /\ \E batch \in SUBSET watching :
          /\ IsBatch(batch, task[r].last)
          /\ task' = [task EXCEPT ![r] = InBatch(@.last, batch)]
    /\ UNCHANGED <<rows, locked, process, people, entitled, history>>

NextBatch(r) ==
    /\ task[r].at = "batch"
    /\ \E batch \in SUBSET watching :
          /\ IsBatch(batch, task[r].last)
          /\ \E last \in batch :
                /\ \A u \in batch : u <= last
                /\ task' = [task EXCEPT ![r] = InBatch(last, batch)]
    /\ UNCHANGED <<rows, locked, process, people, entitled, history>>

BatchDone(r) ==
    /\ task[r].at = "users" /\ task[r].todo = {}
    /\ Goto(r, "batch")
    /\ UNCHANGED <<rows, locked, process, people, entitled, history>>

\* Mutant of Finish: the status does not look at the errors.
FinishCompleted(r) ==
    /\ task[r].at = "batch"
    /\ ~\E u \in watching : u > task[r].last
    /\ runs' = [runs EXCEPT ![r].status = "completed"]
    /\ locked' = locked \ {r}
    /\ EndTask(r)
    /\ UNCHANGED <<recipient, process, people, entitled, history>>

\* _finish, and the lock is released.
Finish(r) ==
    /\ task[r].at = "batch"
    /\ ~\E u \in watching : u > task[r].last
    /\ runs' = [runs EXCEPT ![r].status =
                   IF runs[r].count["temporary_error"] = 0 /\ runs[r].count["failed"] = 0
                   THEN "completed" ELSE "partially_completed"]
    /\ locked' = locked \ {r}
    /\ EndTask(r)
    /\ UNCHANGED <<recipient, process, people, entitled, history>>

-----------------------------------------------------------------------------
(* _process_user.                                                          *)

\* u is the next user of the batch.
IsNext(r, u) ==
    task[r].at = "users" /\ u \in task[r].todo /\ \A v \in task[r].todo : u <= v

Leave(r, u) == task' = [task EXCEPT ![r] = InBatch(@.last, @.todo \ {u})]

Count(r, counters) == runs' = [runs EXCEPT ![r] = Counted(@, counters)]

Record(r, u, row) ==
    recipient' = [recipient EXCEPT ![r] = [@ EXCEPT ![u] = row]]

Row(status, pages, count) ==
    [status |-> status, pages |-> pages, message_count |-> count]

\* A user who is gone or served already is passed over.
SkipUser(r, u) ==
    /\ IsNext(r, u)
    /\ u \in gone \/ (recipient[r][u] # NoValue /\ IsComplete(recipient[r][u].status))
    /\ Leave(r, u)
    /\ UNCHANGED <<rows, locked, process, people, entitled, history>>

FirstTime(r, u) == IsNext(r, u) /\ u \notin gone /\ recipient[r][u] = NoValue

NoDeals(r, u) ==
    /\ FirstTime(r, u)
    /\ Record(r, u, Row("no_deals", 0, 0))
    /\ Count(r, {"no_deals", "checked"})
    /\ Leave(r, u)
    /\ UNCHANGED <<locked, process, people, entitled, history>>

\* In quiet hours every page goes to deferred_notifications.
Defer(r, u) ==
    /\ FirstTime(r, u)
    /\ \E n \in 1..MaxPages : Record(r, u, Row("deferred", n, n))
    /\ Count(r, {"deferred", "checked"})
    /\ Leave(r, u)
    /\ UNCHANGED <<locked, process, people, entitled, history>>

\* The pages are stored before the first of them is sent.
StorePages(r, u) ==
    /\ FirstTime(r, u)
    /\ \E n \in 1..MaxPages :
          /\ Record(r, u, Row("pending", n, 0))
          /\ task' = [task EXCEPT ![r] = Sending(@, u, 0, n)]
    /\ UNCHANGED <<runs, locked, process, people, entitled, history>>

\* Mutant of ResumePages: the pages are sent from the first one again.
ResumePagesFromFirst(r, u) ==
    /\ IsNext(r, u) /\ u \notin gone
    /\ recipient[r][u] # NoValue /\ ~IsComplete(recipient[r][u].status)
    /\ task' = [task EXCEPT ![r] = Sending(@, u, 0, recipient[r][u].pages)]
    /\ UNCHANGED <<rows, locked, process, people, entitled, history>>

\* Mutant of ResumePages: message_count is taken for the last page's index.
ResumePagesAfterNext(r, u) ==
    /\ IsNext(r, u) /\ u \notin gone
    /\ recipient[r][u] # NoValue /\ ~IsComplete(recipient[r][u].status)
    /\ task' = [task EXCEPT ![r] =
                   Sending(@, u, recipient[r][u].message_count + 1, recipient[r][u].pages)]
    /\ UNCHANGED <<rows, locked, process, people, entitled, history>>

\* A recipient left over by an earlier task: go on after the pages recorded.
ResumePages(r, u) ==
    /\ IsNext(r, u) /\ u \notin gone
    /\ recipient[r][u] # NoValue /\ ~IsComplete(recipient[r][u].status)
    /\ task' = [task EXCEPT ![r] =
                   Sending(@, u, recipient[r][u].message_count, recipient[r][u].pages)]
    /\ UNCHANGED <<rows, locked, process, people, entitled, history>>

\* _send_page: up to three attempts.  hidden of them delivered the page and
\* then raised, which costs a fault each.
SendPage(r) ==
    /\ task[r].at = "send" /\ task[r].page < task[r].pages
    /\ \E outcome \in Outcomes, hidden \in 0..3 :
          LET u      == task[r].user
              copies == hidden + (IF outcome = "sent" THEN 1 ELSE 0)
              first  == seen[r][u] <= task[r].page
          IN /\ hidden = 3 => outcome = "temporary_error"
             /\ faults + hidden <= MaxFaults
             /\ faults' = faults + hidden
             /\ repeats' = repeats + (IF first /\ copies > 0 THEN copies - 1 ELSE copies)
             /\ seen' = IF first /\ copies > 0
                        THEN [seen EXCEPT ![r][u] = task[r].page + 1] ELSE seen
             /\ task' = [task EXCEPT ![r] = Recording(@, outcome)]
    /\ UNCHANGED <<rows, locked, process, people, entitled>>

\* The commit after a page that went out.  A recipient row that vanished with
\* its user raises.
RecordPage(r) ==
    LET u   == task[r].user
        row == recipient[r][u]
    IN
    /\ task[r].at = "record" /\ task[r].outcome = "sent"
    /\ IF row = NoValue
       THEN Goto(r, "failing") /\ UNCHANGED rows
       ELSE /\ Record(r, u, Row(row.status, row.pages, task[r].page + 1))
            /\ Count(r, {"pages"})
            /\ task' = [task EXCEPT ![r] = Sending(@, u, @.page + 1, @.pages)]
    /\ UNCHANGED <<locked, process, people, entitled, history>>

\* Mutant of RecordError: the next page is tried all the same.
RecordErrorGoOn(r) ==
    LET u == task[r].user IN
    /\ task[r].at = "record" /\ task[r].outcome # "sent"
    /\ IF recipient[r][u] = NoValue
       THEN Goto(r, "failing")
       ELSE task' = [task EXCEPT ![r] = Sending(@, u, @.page + 1, @.pages)]
    /\ UNCHANGED <<rows, locked, process, people, entitled, history>>

\* The commit after a page that did not go out.
RecordError(r) ==
    LET u   == task[r].user
        row == recipient[r][u]
        o   == task[r].outcome
    IN
    /\ task[r].at = "record" /\ o # "sent"
    /\ IF row = NoValue
       THEN Goto(r, "failing") /\ UNCHANGED rows
       ELSE /\ Record(r, u, Row(o, row.pages, row.message_count))
            /\ Count(r, {o, "checked"})
            /\ Leave(r, u)
    /\ UNCHANGED <<locked, process, people, entitled, history>>

\* All pages are out.
UserSent(r) ==
    LET u   == task[r].user
        row == recipient[r][u]
    IN
    /\ task[r].at = "send" /\ task[r].page >= task[r].pages
    /\ IF row = NoValue
       THEN Goto(r, "failing") /\ UNCHANGED rows
       ELSE /\ Record(r, u, Row("sent", row.pages, row.message_count))
            /\ Count(r, {"checked"})
            /\ Leave(r, u)
    /\ UNCHANGED <<locked, process, people, entitled, history>>

-----------------------------------------------------------------------------
(* Faults.                                                                 *)

\* The database refuses something: an exception, the run counts as failed.
DatabaseFails(r) ==
    /\ task[r].at \in {"batch", "users", "send", "record"}
    /\ faults < MaxFaults /\ faults' = faults + 1
    /\ Goto(r, "failing")
    /\ UNCHANGED <<rows, locked, process, people, entitled, seen, repeats>>

\* Mutant of Fail: the exception is handled inside the loop over the batches.
FailInLoop(r) ==
    /\ task[r].at = "failing"
    /\ runs' = [runs EXCEPT ![r].status = "failed"]
    /\ Goto(r, "batch")
    /\ UNCHANGED <<recipient, locked, process, people, entitled, history>>

Fail(r) ==
    /\ task[r].at = "failing"
    /\ runs' = [runs EXCEPT ![r].status = "failed"]
    /\ locked' = locked \ {r}
    /\ EndTask(r)
    /\ UNCHANGED <<recipient, process, people, entitled, history>>

\* The database refuses this, too: the run stays active without a task.
FailUnrecorded(r) ==
    /\ task[r].at = "failing"
    /\ faults < MaxFaults /\ faults' = faults + 1
    /\ locked' = locked \ {r}
    /\ EndTask(r)
    /\ UNCHANGED <<rows, process, people, entitled, seen, repeats>>

\* The process is killed: the locks stay.
Crash ==
    /\ up /\ faults < MaxFaults
    /\ up' = FALSE /\ faults' = faults + 1
    /\ task' = [r \in Runs |-> NoTask]
    /\ UNCHANGED <<rows, locked, allowed, people, entitled, seen, repeats>>

\* The process is stopped: the cancelled tasks still release their locks.
Shutdown ==
    /\ up /\ faults < MaxFaults
    /\ up' = FALSE /\ faults' = faults + 1
    /\ locked' = {r \in locked : task[r].at \in {"none", "wait"}}
    /\ task' = [r \in Runs |-> NoTask]
    /\ UNCHANGED <<rows, allowed, people, entitled, seen, repeats>>

LockExpires(r) ==
    /\ r \in locked /\ task[r].at \in {"none", "wait"}
    /\ locked' = locked \ {r}
    /\ UNCHANGED <<rows, task, process, people, entitled, history>>

-----------------------------------------------------------------------------
(* Users.                                                                  *)

Edit == edits < MaxEdits /\ edits' = edits + 1

\* The first rule is added.
Watch(u) ==
    /\ Edit /\ u \notin watching /\ u \notin gone
    /\ watching' = watching \cup {u}
    /\ UNCHANGED <<rows, locked, task, process, gone, entitled, history>>

\* The last rule is deleted.
Unwatch(u) ==
    /\ Edit /\ u \in watching
    /\ watching' = watching \ {u}
    /\ entitled' = [r \in Runs |-> IF Active(r) THEN entitled[r] \ {u} ELSE entitled[r]]
    /\ UNCHANGED <<rows, locked, task, process, gone, history>>

\* An administrator deletes the user; the rules and recipient rows go, too.
DeleteUser(u) ==
    /\ Edit /\ u \notin gone
    /\ gone' = gone \cup {u} /\ watching' = watching \ {u}
    /\ recipient' = [r \in Runs |-> [recipient[r] EXCEPT ![u] = NoValue]]
    /\ entitled' = [r \in Runs |-> entitled[r] \ {u}]
    /\ UNCHANGED <<runs, locked, task, process, history>>

-----------------------------------------------------------------------------
ProcessUser(r) ==
    \/ \E u \in task[r].todo :
          \/ SkipUser(r, u) \/ NoDeals(r, u) \/ Defer(r, u)
          \/ StorePages(r, u) \/ ResumePages(r, u)
    \/ SendPage(r) \/ RecordPage(r) \/ RecordError(r) \/ UserSent(r)

TaskStep(r) ==
    Start(r) \/ NextBatch(r) \/ BatchDone(r) \/ Finish(r) \/ ProcessUser(r) \/ Fail(r)

Next ==
    \/ \E r \in Runs : CreateRun(r) \/ TaskStep(r) \/ LockExpires(r)
    \/ \E r \in Runs : DatabaseFails(r) \/ FailUnrecorded(r)
    \/ Restart \/ Crash \/ Shutdown
    \/ \E u \in Users : Watch(u) \/ Unwatch(u) \/ DeleteUser(u)

Spec == Init /\ [][Next]_vars

\* The event loop runs the tasks, a stopped process is started again, and redis
\* expires locks.  Nothing is assumed of admins, users and faults.
Fairness ==
    /\ \A r \in Runs : WF_vars(TaskStep(r)) /\ WF_vars(LockExpires(r))
    /\ WF_vars(Restart)

FairSpec == Spec /\ Fairness

-----------------------------------------------------------------------------
(* Properties.                                                             *)

\* The pages are delivered as Delivery says.  A deferred page is left to the
\* monitor's queue; of a deleted user only the page on its way is still sent.
Pages == Runs \X Users \X (0..MaxPages - 1)

OnItsWay(m) ==
    LET t == task[m[1]] IN t.at \in {"send", "record"} /\ t.user = m[2] /\ t.page = m[3]

Recorded(m) ==
    LET row == recipient[m[1]][m[2]] IN row # NoValue /\ m[3] < row.message_count

Got == {m \in Pages : m[3] < seen[m[1]][m[2]]}

Noted == {m \in Pages : Recorded(m) \/ (m[2] \in gone /\ ~OnItsWay(m))}

InFlight ==
    {m \in Pages : /\ OnItsWay(m) /\ task[m[1]].at = "record"
                   /\ task[m[1]].outcome = "sent"}

D == INSTANCE Delivery WITH
        Messages <- Pages, got <- Got, noted <- Noted, flight <- InFlight

\* Through batches, retries, resumptions and deleted users every page is sent
\* and recorded in the way that keeps repetitions down to one per fault.
PagesAreDelivered == D!Spec

\* A page reaches a user again only where a fault hid the first delivery:
\* resuming a run costs at most one repeated page per doubtful send, lost
\* commit or stop.
PageRepeatsNeedFaults == repeats <= faults

\* What the rows say was sent did arrive: the recorded pages, and with status
\* "sent" all of them, through resumptions, errors and deleted users.
SentPagesArrived ==
    \A r \in Runs, u \in Users :
        LET row == recipient[r][u] IN
        row # NoValue /\ row.status # "deferred" =>
            /\ row.message_count <= seen[r][u]
            /\ row.status = "sent" => seen[r][u] = row.pages

\* A completed run left no one out: everybody who watched a game from its
\* creation to its end is served, blocked the bot, or has no deals, however
\* often the run was interrupted.
CompletedServesAll ==
    \A r \in Runs : runs[r] # NoValue /\ runs[r].status = "completed" =>
        \A u \in entitled[r] :
            recipient[r][u] # NoValue /\ IsComplete(recipient[r][u].status)

WithStatus(r, status) ==
    {u \in Users : recipient[r][u] # NoValue /\ recipient[r][u].status = status}

StatusCount(r, status) == Cardinality(WithStatus(r, status))

\* The pages of a run that its rows say were sent, a pair of user and page each.
SentPages(r) ==
    {m \in Users \X (0..MaxPages - 1) :
        LET row == recipient[r][m[1]]
        IN row # NoValue /\ row.status # "deferred" /\ m[2] < row.message_count}

\* The counters of a run agree with its recipient rows.
CountsRows(r) ==
    LET count == runs[r].count IN
    /\ \A status \in {"no_deals", "deferred", "blocked"} :
          count[status] = StatusCount(r, status)
    /\ \A status \in {"temporary_error", "failed"} :
          count[status] >= StatusCount(r, status)
    /\ count["checked"] =
          StatusCount(r, "sent") + count["no_deals"] + count["deferred"]
          + count["blocked"] + count["temporary_error"] + count["failed"]
    /\ count["pages"] = Cardinality(SentPages(r))

\* The report adds up: the counters of a run agree with its recipient rows,
\* although they are updated by several tasks and crashes come in between.
\* Errors that a later task retried stay counted.
ReportAddsUp ==
    gone = {} => \A r \in Runs : runs[r] # NoValue => CountsRows(r)

\* One task at a time works a run off, it holds the run's lock, and no other
\* run has a task.
TaskOwnsRun ==
    \A r \in Runs : task[r].at \notin {"none", "wait"} =>
        /\ r \in locked /\ runs[r] # NoValue /\ runs[r].status = "running"
        /\ \A s \in Runs \ {r} : task[s].at = "none" /\ ~Active(s)

\* A task that has taken a run up comes to its end, even while users come, go
\* and change their lists.
TaskEnds == \A r \in Runs : task[r].at # "none" ~> task[r].at = "none"

\* Runs are durable: an active run ends, and so lets the next one start.
RunEnds == \A r \in Runs : Active(r) ~> ~Active(r)
=============================================================================
