----------------------------- MODULE Scheduler -----------------------------
(***************************************************************************)
(* The cron scheduler: internal/scheduler/scheduler.go, the schedule       *)
(* queries of internal/repository/workflow_repo.go and the requests of     *)
(* internal/api/schedule_handler.go.                                       *)
(*                                                                         *)
(* Several replicas compete for advisory lock 1000.  The lock belongs to a *)
(* database connection, the polling to a process: a replica looks at its   *)
(* connection once, at the start of a poll, and then works through what    *)
(* it has read, in any order, each call a transaction of its own.          *)
(*                                                                         *)
(* Engine.StartWorkflow is one step that creates an execution.  Time is a  *)
(* bounded clock.  A row's schedule type, expression and interval never    *)
(* change, and were parsed when the row was created.                       *)
(***************************************************************************)
EXTENDS Integers, FiniteSets

CONSTANTS
    Schedule,       \* identifiers of rows of scheduled_workflows
    Kind,           \* Kind[s]: "once" (once and delayed), "cron" or "interval"
    Period,         \* ticks between two runs of a recurring schedule
    Replica,        \* scheduler processes
    Nobody,         \* the holder of the free lock
    NoItem,         \* no schedule
    MaxTime,        \* bound: the clock
    MaxResumes,     \* bound: resume requests per schedule
    MaxFaults       \* bound: crashes, lost connections, failed calls and shutdowns

ASSUME KindAssumption == Kind \in [Schedule -> {"once", "cron", "interval"}]
ASSUME PeriodAssumption == Period \in Nat \ {0} /\ Nobody \notin Replica
ASSUME ReplicaAssumption == IsFiniteSet(Replica)
ASSUME BoundAssumption == {MaxTime, MaxResumes, MaxFaults} \subseteq Nat

Time   == 0..(MaxTime + Period)
Status == {"ABSENT", "ACTIVE", "PAUSED", "FINISHED", "DELETED"}
Item   == [id : Schedule, at : Time]        \* a row of a snapshot: its id and next_run_at

ASSUME ItemAssumption == NoItem \notin Item

VARIABLES
    clock,      \* time.Now()
    status,     \* scheduled_workflows.status
    next,       \* scheduled_workflows.next_run_at
    started,    \* started[s][t]: executions started for the run of s that was due at t
    resumes,    \* resume requests so far
    lock,       \* the replica whose connection holds advisory lock 1000
    conn,       \* leaderConn: none, held, or dead (the server has dropped it)
    pc,         \* where a replica's loop stands
    now,        \* the time of its poll
    todo,       \* what the poll has read and not yet handled
    current,    \* the row whose workflow it has just started
    stopping,   \* replicas that run their deferred calls
    faults      \* faults so far

rows == <<status, next>>
loop == <<pc, now, todo, current>>
vars == <<clock, status, next, started, resumes, lock, conn, pc, now, todo, current,
          stopping, faults>>

TypeOK ==
    /\ clock \in 0..MaxTime
    /\ status \in [Schedule -> Status]
    /\ next \in [Schedule -> Time]
    /\ started \in [Schedule -> [Time -> Nat]]
    /\ resumes \in [Schedule -> 0..MaxResumes]
    /\ lock \in Replica \cup {Nobody}
    /\ conn \in [Replica -> {"none", "held", "dead"}]
    /\ pc \in [Replica -> {"select", "lock", "query", "start", "advance", "quit"}]
    /\ now \in [Replica -> 0..MaxTime]
    /\ todo \in [Replica -> SUBSET Item]
    /\ current \in [Replica -> Item \cup {NoItem}]
    /\ stopping \subseteq Replica
    /\ faults \in 0..MaxFaults

Init ==
    /\ clock = 0
    /\ status = [s \in Schedule |-> "ABSENT"]
    /\ next = [s \in Schedule |-> 0]
    /\ started = [s \in Schedule |-> [t \in Time |-> 0]]
    /\ resumes = [s \in Schedule |-> 0]
    /\ lock = Nobody
    /\ conn = [r \in Replica |-> "none"]
    /\ pc = [r \in Replica |-> "select"]
    /\ now = [r \in Replica |-> 0]
    /\ todo = [r \in Replica |-> {}]
    /\ current = [r \in Replica |-> NoItem]
    /\ stopping = {}
    /\ faults = 0

Exists(s) == status[s] \notin {"ABSENT", "DELETED"}
Fault     == faults < MaxFaults /\ faults' = faults + 1

\* Mutant of NextRun: one period too far.
NextRunLate(s, t) == IF Kind[s] = "cron" THEN (t \div Period + 2) * Period ELSE t + 2 * Period

\* cron.Schedule.Next: the first run strictly after t; an interval counts from t.
NextRun(s, t) == IF Kind[s] = "cron" THEN (t \div Period + 1) * Period ELSE t + Period

-----------------------------------------------------------------------------
(* Requests.                                                               *)

CreateSchedule(s) ==
    /\ status[s] = "ABSENT"
    /\ status' = [status EXCEPT ![s] = "ACTIVE"]
    /\ \E t \in IF Kind[s] = "once" THEN clock..MaxTime ELSE {NextRun(s, clock)} :
          next' = [next EXCEPT ![s] = t]
    /\ UNCHANGED <<clock, started, resumes, lock, conn, loop, stopping, faults>>

\* UPDATE ... WHERE id: the present status is not looked at.
Pause(s) ==
    /\ Exists(s)
    /\ status' = [status EXCEPT ![s] = "PAUSED"]
    /\ UNCHANGED <<clock, next, started, resumes, lock, conn, loop, stopping, faults>>

\* Mutant of Resume: next_run_at is computed anew, as when the schedule was created.
ResumeSkipping(s) ==
    /\ Exists(s)
    /\ resumes[s] < MaxResumes
    /\ resumes' = [resumes EXCEPT ![s] = @ + 1]
    /\ status' = [status EXCEPT ![s] = "ACTIVE"]
    /\ next' = [next EXCEPT ![s] = NextRun(s, clock)]
    /\ UNCHANGED <<clock, started, lock, conn, loop, stopping, faults>>

Resume(s) ==
    /\ Exists(s)
    /\ resumes[s] < MaxResumes
    /\ resumes' = [resumes EXCEPT ![s] = @ + 1]
    /\ status' = [status EXCEPT ![s] = "ACTIVE"]
    /\ UNCHANGED <<clock, next, started, lock, conn, loop, stopping, faults>>

DeleteSchedule(s) ==
    /\ Exists(s)
    /\ status' = [status EXCEPT ![s] = "DELETED"]
    /\ UNCHANGED <<clock, next, started, resumes, lock, conn, loop, stopping, faults>>

-----------------------------------------------------------------------------
(* poll.                                                                   *)

Ticks(r) ==
    /\ pc[r] = "select"
    /\ r \notin stopping
    /\ pc' = [pc EXCEPT ![r] = "lock"]
    /\ UNCHANGED <<clock, rows, started, resumes, lock, conn, now, todo, current, stopping, faults>>

Goto(r, place) == pc' = [pc EXCEPT ![r] = place]

\* Mutant of TryAcquireLock: the answer of pg_try_advisory_lock is not looked at.
TryAcquireLockAnyway(r) ==
    /\ pc[r] = "lock"
    /\ lock' = IF lock = Nobody THEN r ELSE lock
    /\ conn' = [conn EXCEPT ![r] = "held"]
    /\ Goto(r, "query")
    /\ UNCHANGED <<clock, rows, started, resumes, now, todo, current, stopping, faults>>

\* tryAcquireLock: ping the connection that holds the lock, or try with a new one.
TryAcquireLock(r) ==
    /\ pc[r] = "lock"
    /\ \/ /\ conn[r] = "held"
          /\ Goto(r, "query")
          /\ UNCHANGED <<conn, lock>>
       \/ /\ conn[r] = "dead"
          /\ conn' = [conn EXCEPT ![r] = "none"]
          /\ Goto(r, "select")
          /\ UNCHANGED lock
       \/ /\ conn[r] = "none" /\ lock = Nobody
          /\ lock' = r
          /\ conn' = [conn EXCEPT ![r] = "held"]
          /\ Goto(r, "query")
       \/ /\ conn[r] = "none" /\ lock # Nobody
          /\ Goto(r, "select")
          /\ UNCHANGED <<conn, lock>>
    /\ UNCHANGED <<clock, rows, started, resumes, now, todo, current, stopping, faults>>

Due(s, t) == status[s] = "ACTIVE" /\ next[s] <= t
GetDueSchedules(r) ==
    /\ pc[r] = "query"
    /\ now' = [now EXCEPT ![r] = clock]
    /\ todo' = [todo EXCEPT ![r] = {i \in Item : i.at = next[i.id] /\ Due(i.id, clock)}]
    /\ Goto(r, "start")
    /\ UNCHANGED <<clock, rows, started, resumes, lock, conn, current, stopping, faults>>

\* The row is not read again: the workflow is started even if the schedule has meanwhile
\* been paused, deleted, or advanced by another replica.
StartWorkflow(r, i) ==
    /\ pc[r] = "start"
    /\ i \in todo[r]
    /\ todo' = [todo EXCEPT ![r] = @ \ {i}]
    /\ started' = [started EXCEPT ![i.id][i.at] = @ + 1]
    /\ current' = [current EXCEPT ![r] = i]
    /\ Goto(r, "advance")
    /\ UNCHANGED <<clock, rows, resumes, lock, conn, now, stopping, faults>>

\* The lock or the due rows cannot be asked for: the poll is given up.
PollFails(r) ==
    /\ Fault
    /\ \/ pc[r] = "lock" /\ conn[r] = "none"
       \/ pc[r] = "query"
    /\ Goto(r, "select")
    /\ UNCHANGED <<clock, rows, started, resumes, lock, conn, now, todo, current, stopping>>

\* The row stays due for the next poll.
StartWorkflowFails(r, i) ==
    /\ Fault
    /\ pc[r] = "start"
    /\ i \in todo[r]
    /\ todo' = [todo EXCEPT ![r] = @ \ {i}]
    /\ UNCHANGED <<clock, rows, started, resumes, lock, conn, pc, now, current, stopping>>

PollEnds(r) ==
    /\ pc[r] = "start"
    /\ todo[r] = {}
    /\ Goto(r, "select")
    /\ UNCHANGED <<clock, rows, started, resumes, lock, conn, now, todo, current, stopping, faults>>

\* Mutant of UpdateScheduleState: a schedule that runs once stays active.
UpdateScheduleStateActive(s, t) ==
    IF ~Exists(s) THEN UNCHANGED rows
    ELSE /\ status' = [status EXCEPT ![s] = "ACTIVE"]
         /\ next' = IF Kind[s] = "once" THEN next ELSE [next EXCEPT ![s] = NextRun(s, t)]

\* The next run counts from the time of the poll, not from the time of this step.
UpdateScheduleState(s, t) ==
    IF ~Exists(s) THEN UNCHANGED rows
    ELSE IF Kind[s] = "once"
         THEN status' = [status EXCEPT ![s] = "FINISHED"] /\ UNCHANGED next
         ELSE /\ status' = [status EXCEPT ![s] = "ACTIVE"]
              /\ next' = [next EXCEPT ![s] = NextRun(s, t)]

AdvanceSchedule(r) ==
    /\ pc[r] = "advance"
    /\ UpdateScheduleState(current[r].id, now[r])
    /\ current' = [current EXCEPT ![r] = NoItem]
    /\ Goto(r, "start")
    /\ UNCHANGED <<clock, started, resumes, lock, conn, now, todo, stopping, faults>>

\* The error is logged; the row is as it was.
AdvanceScheduleFails(r) ==
    /\ Fault
    /\ pc[r] = "advance"
    /\ current' = [current EXCEPT ![r] = NoItem]
    /\ Goto(r, "start")
    /\ UNCHANGED <<clock, rows, started, resumes, lock, conn, now, todo, stopping>>

-----------------------------------------------------------------------------
(* Shutdown and faults.                                                    *)

\* Mutant of Unlocked: the lock outlives its connection.
UnlockedNever(r) == lock

Unlocked(r) == IF lock = r THEN Nobody ELSE lock

\* Stop closes quit and releases the lock; the loop may be in the middle of a poll.
Stop(r) ==
    /\ Fault
    /\ r \notin stopping
    /\ stopping' = stopping \cup {r}
    /\ lock' = Unlocked(r)
    /\ conn' = [conn EXCEPT ![r] = "none"]
    /\ UNCHANGED <<clock, rows, started, resumes, loop>>

Restarted(r) ==
    /\ lock' = Unlocked(r)
    /\ conn' = [conn EXCEPT ![r] = "none"]
    /\ pc' = [pc EXCEPT ![r] = "select"]
    /\ todo' = [todo EXCEPT ![r] = {}]
    /\ current' = [current EXCEPT ![r] = NoItem]
    /\ stopping' = stopping \ {r}
    /\ UNCHANGED <<clock, rows, started, resumes, now>>

Exit(r)  == r \in stopping /\ Restarted(r) /\ UNCHANGED faults
Crash(r) == Fault /\ r \notin stopping /\ Restarted(r)

\* The server drops the connection and with it the lock; the replica does not know.
LoseConnection(r) ==
    /\ Fault
    /\ conn[r] = "held"
    /\ conn' = [conn EXCEPT ![r] = "dead"]
    /\ lock' = Unlocked(r)
    /\ UNCHANGED <<clock, rows, started, resumes, loop, stopping>>

TimePasses ==
    /\ clock < MaxTime
    /\ clock' = clock + 1
    /\ UNCHANGED <<rows, started, resumes, lock, conn, loop, stopping, faults>>

-----------------------------------------------------------------------------
Request(s) == CreateSchedule(s) \/ Pause(s) \/ Resume(s) \/ DeleteSchedule(s)
Starting(r) == \E i \in todo[r] : StartWorkflow(r, i)
Poll(r) ==
    \/ Ticks(r) \/ TryAcquireLock(r) \/ GetDueSchedules(r) \/ Starting(r)
    \/ PollEnds(r) \/ AdvanceSchedule(r)
Faulty(r) ==
    \/ \E i \in todo[r] : StartWorkflowFails(r, i)
    \/ PollFails(r) \/ AdvanceScheduleFails(r) \/ Stop(r) \/ Crash(r) \/ LoseConnection(r)

Next ==
    \/ \E s \in Schedule : Request(s)
    \/ \E r \in Replica : Poll(r) \/ Faulty(r) \/ Exit(r)
    \/ TimePasses

Spec == Init /\ [][Next]_vars

-----------------------------------------------------------------------------
(* Safety.                                                                 *)

\* A run of a schedule is started once, and once more for each fault (a crash between the
\* start and the update, a leader that does not know it has lost the lock) and each resume
\* (poll starts the workflow and updates the row in two transactions).
OncePerRun ==
    \A s \in Schedule, t \in Time : started[s][t] <= 1 + faults + resumes[s]

\* A replica that may have schedules in hand and the lock's holder are the same replica, as
\* long as nothing fails: no two leaders poll at the same time.
OneLeader ==
    \A r \in Replica : faults = 0 /\ pc[r] \in {"query", "start", "advance"} => lock = r

\* A due run is not passed over: next_run_at moves beyond a run only if that run has been
\* started, whatever the requests do, unless a fault lets two replicas poll at a time.
RunsNotSkipped ==
    [][\A s \in Schedule : faults = 0 /\ Exists(s) /\ next'[s] # next[s] => started[s][next[s]] > 0]_vars

-----------------------------------------------------------------------------
(* Progress.                                                               *)

\* Tickers tick, a poll runs to its end, a process that stops is started again.
Fairness == \A r \in Replica : WF_vars(Poll(r)) /\ WF_vars(Exit(r))

FairSpec == Spec /\ Fairness

\* A due schedule is started, or changed: after a crash, a lost connection or a shutdown of
\* the leader some replica takes over.
DueIsHandled ==
    \A s \in Schedule, t \in Time :
        (Due(s, clock) /\ next[s] = t) ~>
            (started[s][t] > 0 \/ next[s] # t \/ status[s] # "ACTIVE")

=============================================================================
