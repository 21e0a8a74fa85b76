------------------------------- MODULE Engine -------------------------------
(***************************************************************************)
(* The workflow engine: internal/engine/engine.go and the timeout half of  *)
(* internal/engine/reaper.go over the transactions of                      *)
(* internal/repository/execution_repo.go.                                  *)
(*                                                                         *)
(* One database transaction is one step.  A handler that runs several      *)
(* transactions is a sequence of steps held together by the handler record *)
(* h[p], so that other handlers, the operators' requests, the reaper and   *)
(* crashes fall between them.  The result queue delivers at least once and *)
(* in any order; the workers are an environment that answers a published   *)
(* task any number of times, with any outcome.                             *)
(*                                                                         *)
(* Left out, as no property is about them: the event log and               *)
(* current_activity (written, never read by the engine), the payloads, and *)
(* the clock: a pending row may look overdue at any scan.  The workflow    *)
(* definition is fixed while its executions run.                           *)
(***************************************************************************)
EXTENDS Integers, FiniteSets

CONSTANTS
    Exec,           \* identifiers of workflow executions
    N,              \* number of activities of the workflow; they are 1..N in position order
    CompName,       \* names of compensation activities
    NoComp,         \* the empty Compensation field of an activity
    Comp,           \* Comp[i]: the compensation of activity i, or NoComp
    MaxAttempts,    \* MaxAttempts[i]: RetryPolicy.MaxAttempts of activity i, at least 1
    Consumer,       \* engine replicas: each handles one result message at a time
    Reaper,         \* the reaper goroutines
    Client,         \* API requests that run concurrently
    Nobody,         \* the holder of a free lock
    NoKey,          \* "no row" in an idle handler
    AttemptCap,     \* bound: attempts of one activity that are modelled
    MaxFaults,      \* bound: database errors and process crashes
    MaxRepeats      \* bound: tasks that are delivered to a worker once more

Step == 1..N
Name == Step \cup CompName
Proc == Consumer \cup Reaper \cup Client

ASSUME WorkflowAssumption ==
    /\ N \in Nat
    /\ CompName \cap Step = {}
    /\ NoComp \notin CompName
    /\ Comp \in [Step -> CompName \cup {NoComp}]
    /\ \A c \in CompName : \E i \in Step : Comp[i] = c

ASSUME AttemptAssumption ==
    /\ AttemptCap \in Nat \ {0}
    /\ MaxAttempts \in [Step -> 1..AttemptCap]

ASSUME ProcessAssumption ==
    /\ Consumer \cap Reaper = {}
    /\ Consumer \cap Client = {}
    /\ Reaper \cap Client = {}
    /\ Nobody \notin Proc
    /\ MaxFaults \in Nat
    /\ MaxRepeats \in Nat

\* A row of activity_executions; UNIQUE (idempotency_key) makes this its identity.
Key == [exec : Exec, name : Name, attempt : 1..AttemptCap]

ASSUME KeyAssumption == NoKey \notin Key

ExecStatus == {"ABSENT", "RUNNING", "COMPLETED", "FAILED", "COMPENSATING",
               "COMPENSATED", "CANCELLED", "DELETED"}
RowStatus  == {"NONE", "PENDING", "COMPLETED", "FAILED"}
Outcome    == {"ok", "err", "fatal"}    \* success, failure, non-retryable failure
Result     == [key : Key, res : Outcome]
Tier       == {"now", "later", "dlq"}   \* OutboxMessage.Tier: 0, the backoff tiers, -1
Message    == [key : Key, tier : Tier]

\* Where a handler stands: the step it takes next.
Locked   == {"complete", "readExec", "advance", "fail", "retry", "compensate", "retryComp"}
Location == Locked \cup {"idle", "wait", "ack", "nack", "reap", "retryRow"}

VARIABLES
    status,     \* workflow_executions.status
    act,        \* activity_executions.status, NONE when the row does not exist
    done,       \* rows with a completed_at
    earlier,    \* earlier[k]: rows of the same execution with an earlier completed_at
    dead,       \* rows with a dead_lettered_at
    outbox,     \* messages in outbox_messages or on their way to a worker or the DLQ
    results,    \* messages in the activity_results queue
    lock,       \* holder of the advisory lock of an execution
    leader,     \* holder of advisory lock 2000
    overdue,    \* rows of a reaper's snapshot it has still to report
    h,          \* the handler a process is running
    faults,     \* faults so far
    repeats     \* repeated deliveries so far

db   == <<status, act, done, earlier, dead, outbox>>
vars == <<status, act, done, earlier, dead, outbox, results, lock, leader, overdue, h, faults, repeats>>

Idle == [pc |-> "idle", key |-> NoKey, res |-> "ok", seen |-> "ABSENT"]

TypeOK ==
    /\ status \in [Exec -> ExecStatus]
    /\ act \in [Key -> RowStatus]
    /\ done \in SUBSET Key
    /\ earlier \in [Key -> SUBSET Key]
    /\ dead \in SUBSET Key
    /\ outbox \in SUBSET Message
    /\ results \in SUBSET Result
    /\ lock \in [Exec -> Proc \cup {Nobody}]
    /\ leader \in Reaper \cup {Nobody}
    /\ overdue \in [Proc -> SUBSET Key]
    /\ h \in [Proc -> [pc : Location, key : Key \cup {NoKey}, res : Outcome, seen : ExecStatus]]
    /\ faults \in 0..MaxFaults
    /\ repeats \in 0..MaxRepeats

Init ==
    /\ status = [e \in Exec |-> "ABSENT"]
    /\ act = [k \in Key |-> "NONE"]
    /\ done = {}
    /\ earlier = [k \in Key |-> {}]
    /\ dead = {}
    /\ outbox = {}
    /\ results = {}
    /\ lock = [e \in Exec |-> Nobody]
    /\ leader = Nobody
    /\ overdue = [p \in Proc |-> {}]
    /\ h = [p \in Proc |-> Idle]
    /\ faults = 0
    /\ repeats = 0

-----------------------------------------------------------------------------
(* Rows and the workflow definition.                                       *)

Row(e, n, a) == [exec |-> e, name |-> n, attempt |-> a]
NextAttempt(k) == [k EXCEPT !.attempt = @ + 1]
Exists(e) == status[e] \notin {"ABSENT", "DELETED"}
RowsOf(e) == {k \in Key : k.exec = e}

\* maxAttempts: a compensation has the retry policy of the first activity that names it.
Budget(n) ==
    MaxAttempts[IF n \in Step THEN n
                ELSE CHOOSE i \in Step : Comp[i] = n /\ \A j \in 1..(i-1) : Comp[j] # n]

Attempted(e, c) == \E k \in RowsOf(e) : k.name = c /\ act[k] \in {"COMPLETED", "FAILED"}

\* Mutant of Uncompensated: an activity counts as done once it has been scheduled.
UncompensatedOpen(e) ==
    {k \in RowsOf(e) : k.name \in Step /\ act[k] # "NONE" /\ Comp[k.name] # NoComp
                       /\ ~Attempted(e, Comp[k.name])}

\* determineNextCompensation: among the completed rows whose activity has a compensation
\* that has not been attempted, the one with the latest completed_at.
Uncompensated(e) ==
    {k \in RowsOf(e) : /\ k.name \in Step
                       /\ act[k] = "COMPLETED"
                       /\ Comp[k.name] # NoComp
                       /\ ~Attempted(e, Comp[k.name])}
\* Mutant of NextCompensation: the first that completed is undone first.
NextCompensationForwards(e) ==
    {Comp[k.name] : k \in {k \in Uncompensated(e) :
                              \A j \in Uncompensated(e) \ {k} : k \in earlier[j]}}

NextCompensation(e) ==
    {Comp[k.name] : k \in {k \in Uncompensated(e) :
                              \A j \in Uncompensated(e) \ {k} : j \in earlier[k]}}

-----------------------------------------------------------------------------
(* The transactions of ExecutionRepo.  Each is enabled when it commits.    *)

\* UNIQUE (idempotency_key) and the foreign key to workflow_executions.
CanInsert(k) == Exists(k.exec) /\ act[k] = "NONE"

\* Mutant of Insert: the row starts as RUNNING, a status no query of the engine expects.
InsertRunning(k, tier) ==
    /\ CanInsert(k)
    /\ act' = [act EXCEPT ![k] = "RUNNING"]
    /\ outbox' = outbox \cup {[key |-> k, tier |-> tier]}
    /\ UNCHANGED <<done, earlier, dead>>

Insert(k, tier) ==
    /\ CanInsert(k)
    /\ act' = [act EXCEPT ![k] = "PENDING"]
    /\ outbox' = outbox \cup {[key |-> k, tier |-> tier]}
    /\ UNCHANGED <<done, earlier, dead>>

CreateExecution(e) ==
    /\ status[e] = "ABSENT"
    /\ status' = [status EXCEPT ![e] = IF N = 0 THEN "COMPLETED" ELSE "RUNNING"]
    /\ IF N = 0
       THEN UNCHANGED <<act, outbox>>
       ELSE /\ act' = [act EXCEPT ![Row(e, 1, 1)] = "PENDING"]
            /\ outbox' = outbox \cup {[key |-> Row(e, 1, 1), tier |-> "now"]}
    /\ UNCHANGED <<done, earlier, dead>>

\* Mutant of CompleteActivity: completed_at is not written.
CompleteActivityUntimed(k) ==
    act[k] # "NONE" /\ act' = [act EXCEPT ![k] = "COMPLETED"]
    /\ UNCHANGED <<status, done, earlier, dead, outbox>>

CompleteActivity(k) ==
    /\ act[k] # "NONE"
    /\ act' = [act EXCEPT ![k] = "COMPLETED"]
    /\ done' = done \cup {k}
    /\ earlier' = [j \in Key |-> IF j = k THEN (done \cap RowsOf(k.exec)) \ {k}
                                 ELSE earlier[j] \ {k}]
    /\ UNCHANGED <<status, dead, outbox>>

FailActivity(k) ==
    /\ act[k] # "NONE"
    /\ act' = [act EXCEPT ![k] = "FAILED"]
    /\ UNCHANGED <<status, done, earlier, dead, outbox>>

DeadLetterActivity(k) ==
    /\ act[k] # "NONE"
    /\ act' = [act EXCEPT ![k] = "FAILED"]
    /\ dead' = dead \cup {k}
    /\ outbox' = outbox \cup {[key |-> k, tier |-> "dlq"]}
    /\ UNCHANGED <<status, done, earlier>>

ScheduleNextActivity(k, tier) == Insert(k, tier) /\ UNCHANGED status

StartCompensating(k) ==
    Insert(k, "now") /\ status' = [status EXCEPT ![k.exec] = "COMPENSATING"]

RetryActivity(k, newStatus) ==
    Insert(k, "now") /\ status' = [status EXCEPT ![k.exec] = newStatus]

SetStatus(e, s) ==
    /\ Exists(e)
    /\ status' = [status EXCEPT ![e] = s]
    /\ UNCHANGED <<act, done, earlier, dead, outbox>>

CompleteExecution(e)    == SetStatus(e, "COMPLETED")
FailExecution(e)        == SetStatus(e, "FAILED")
CompensatedExecution(e) == SetStatus(e, "COMPENSATED")

-----------------------------------------------------------------------------
(* Handlers: the control around the transactions.                          *)

env == <<results, leader, overdue, faults, repeats>>

\* Mutant of Free: the deferred unlock is missing.
FreeNothing(p) == lock

Free(p) == [e \in Exec |-> IF lock[e] = p THEN Nobody ELSE lock[e]]

\* Mutant of LockWorkflow: pg_try_advisory_lock with its answer ignored.
LockWithoutWaiting(p, e) == lock' = [lock EXCEPT ![e] = p]

\* LockWorkflow: pg_advisory_lock blocks until the lock is free.
LockWorkflow(p, e) ==
    /\ lock[e] = Nobody
    /\ lock' = [lock EXCEPT ![e] = p]

\* The handler returns: the deferred UnlockWorkflow runs, and the result goes back to the
\* caller.  A consumer acknowledges or requeues its message, the reaper logs the error and
\* goes on with its snapshot, an API request answers.
Return(p, verdict) ==
    /\ lock' = Free(p)
    /\ h' = [h EXCEPT ![p] = IF p \in Consumer THEN [@ EXCEPT !.pc = verdict, !.seen = "ABSENT"]
                             ELSE IF p \in Reaper THEN [Idle EXCEPT !.pc = "reap"]
                             ELSE Idle]

Goto(p, pc) == h' = [h EXCEPT ![p].pc = pc] /\ UNCHANGED lock

\* A transaction that violates a constraint rolls back and the handler returns its error.
Rejected(p) == UNCHANGED db /\ Return(p, "nack")

StartWorkflow(e) ==
    CreateExecution(e) /\ UNCHANGED <<lock, h, env>>

\* A worker takes a published task and reports an outcome.  The task message may come back:
\* the outbox publishes before it deletes, and the broker redelivers what was not acknowledged.
WorkOnce(k, r) ==
    \E t \in {"now", "later"} :
        /\ [key |-> k, tier |-> t] \in outbox
        /\ outbox' = outbox \ {[key |-> k, tier |-> t]}
        /\ results' = results \cup {[key |-> k, res |-> r]}
        /\ UNCHANGED <<status, act, done, earlier, dead, lock, leader, overdue, h, faults, repeats>>
WorkAgain(k, r) ==
    /\ repeats < MaxRepeats
    /\ \E t \in {"now", "later"} : [key |-> k, tier |-> t] \in outbox
    /\ results' = results \cup {[key |-> k, res |-> r]}
    /\ repeats' = repeats + 1
    /\ UNCHANGED <<db, lock, leader, overdue, h, faults>>

\* StartResultConsumer: the message stays unacknowledged with p until Settle.
Deliver(p, m) ==
    /\ h[p].pc = "idle"
    /\ m \in results
    /\ results' = results \ {m}
    /\ h' = [h EXCEPT ![p] = [pc |-> "wait", key |-> m.key, res |-> m.res, seen |-> "ABSENT"]]
    /\ UNCHANGED <<db, lock, leader, overdue, faults, repeats>>

\* Mutant of Settle: Nack(false, false) discards the message instead of requeueing it.
SettleDiscarding(p) ==
    /\ h[p].pc \in {"ack", "nack"}
    /\ h' = [h EXCEPT ![p] = Idle]
    /\ UNCHANGED <<db, lock, env>>

Settle(p) ==
    /\ h[p].pc \in {"ack", "nack"}
    /\ results' = IF h[p].pc = "ack" THEN results
                  ELSE results \cup {[key |-> h[p].key, res |-> h[p].res]}
    /\ h' = [h EXCEPT ![p] = Idle]
    /\ UNCHANGED <<db, lock, leader, overdue, faults, repeats>>

(* ReportActivitySuccess *)

BeginSuccess(p) ==
    LET k == h[p].key IN
    /\ h[p].pc = "wait" /\ h[p].res = "ok"
    /\ \/ act[k] \in {"PENDING", "FAILED"} /\ LockWorkflow(p, k.exec)
          /\ h' = [h EXCEPT ![p].pc = "complete"]
       \/ act[k] = "COMPLETED" /\ lock[k.exec] = Nobody /\ Return(p, "ack")
       \/ act[k] = "NONE" /\ lock[k.exec] = Nobody /\ Return(p, "nack")
    /\ UNCHANGED <<db, env>>

CompleteStep(p) ==
    /\ h[p].pc = "complete"
    /\ \/ CompleteActivity(h[p].key) /\ Goto(p, "readExec")
       \/ act[h[p].key] = "NONE" /\ Rejected(p)
    /\ UNCHANGED env

\* GetExecution: the status the handler decides on.
ReadExecution(p) ==
    LET e == h[p].key.exec IN
    /\ h[p].pc = "readExec"
    /\ \/ /\ Exists(e)
          /\ h' = [h EXCEPT ![p].pc = "advance", ![p].seen = status[e]]
          /\ UNCHANGED <<db, lock>>
       \/ ~Exists(e) /\ Rejected(p)
    /\ UNCHANGED env

AdvanceCompensation(p) ==
    /\ h[p].pc = "advance" /\ h[p].seen = "COMPENSATING"
    /\ \E c \in NextCompensation(h[p].key.exec) :
          LET k == Row(h[p].key.exec, c, 1) IN
          \/ StartCompensating(k) /\ Return(p, "ack")
          \/ ~CanInsert(k) /\ Rejected(p)
    /\ UNCHANGED env

\* Mutant of FinishCompensation: the last compensation leaves the execution as it is.
FinishCompensationSilently(p) ==
    /\ h[p].pc = "advance" /\ h[p].seen = "COMPENSATING"
    /\ Uncompensated(h[p].key.exec) = {}
    /\ Return(p, "ack")
    /\ UNCHANGED <<db, env>>

FinishCompensation(p) ==
    LET e == h[p].key.exec IN
    /\ h[p].pc = "advance" /\ h[p].seen = "COMPENSATING"
    /\ Uncompensated(e) = {}
    /\ \/ CompensatedExecution(e) /\ Return(p, "ack")
       \/ ~Exists(e) /\ Rejected(p)
    /\ UNCHANGED env

AdvanceStep(p) ==
    LET k == h[p].key IN
    /\ h[p].pc = "advance" /\ h[p].seen # "COMPENSATING"
    /\ k.name \in Step /\ k.name # N
    /\ LET next == Row(k.exec, k.name + 1, 1) IN
       \/ ScheduleNextActivity(next, "now") /\ Return(p, "ack")
       \/ ~CanInsert(next) /\ Rejected(p)
    /\ UNCHANGED env

\* Mutant of FinishWorkflow: the last but one activity already counts as the last.
FinishWorkflowEarly(p) ==
    /\ h[p].pc = "advance" /\ h[p].seen # "COMPENSATING"
    /\ h[p].key.name \in {N - 1, N}
    /\ CompleteExecution(h[p].key.exec) /\ Return(p, "ack")
    /\ UNCHANGED env

FinishWorkflow(p) ==
    LET e == h[p].key.exec IN
    /\ h[p].pc = "advance" /\ h[p].seen # "COMPENSATING"
    /\ h[p].key.name = N
    /\ \/ CompleteExecution(e) /\ Return(p, "ack")
       \/ ~Exists(e) /\ Rejected(p)
    /\ UNCHANGED env

\* A compensation succeeded but its execution is not COMPENSATING.
UnknownActivity(p) ==
    /\ h[p].pc = "advance" /\ h[p].seen # "COMPENSATING"
    /\ h[p].key.name \notin Step
    /\ Rejected(p)
    /\ UNCHANGED env

(* ReportActivityFailure *)

BeginFailure(p) ==
    LET k == h[p].key IN
    /\ h[p].pc = "wait" /\ h[p].res # "ok"
    /\ \/ act[k] \in {"PENDING", "COMPLETED"} /\ LockWorkflow(p, k.exec)
          /\ h' = [h EXCEPT ![p].pc = "fail", ![p].seen = status[k.exec]]
       \/ act[k] = "FAILED" /\ lock[k.exec] = Nobody /\ Return(p, "ack")
       \/ act[k] = "NONE" /\ lock[k.exec] = Nobody /\ Return(p, "nack")
    /\ UNCHANGED <<db, env>>

\* Mutant of Retryable: <= for <.
RetryableOnceMore(p) ==
    h[p].key.attempt <= Budget(h[p].key.name) /\ h[p].key.attempt < AttemptCap
    /\ h[p].res # "fatal"

Retryable(p) == h[p].key.attempt < Budget(h[p].key.name) /\ h[p].res # "fatal"

\* Mutants of FailStep: the retry is scheduled without closing the failed attempt; the last
\* failure closes the attempt without dead-lettering it.
FailStepUnmarked(p) ==
    /\ h[p].pc = "fail"
    /\ \/ Retryable(p) /\ UNCHANGED db /\ Goto(p, "retry")
       \/ ~Retryable(p) /\ DeadLetterActivity(h[p].key) /\ Goto(p, "compensate")
    /\ UNCHANGED env
FailStepWithoutDLQ(p) ==
    /\ h[p].pc = "fail"
    /\ FailActivity(h[p].key) /\ Goto(p, IF Retryable(p) THEN "retry" ELSE "compensate")
    /\ UNCHANGED env

FailStep(p) ==
    /\ h[p].pc = "fail"
    /\ \/ Retryable(p) /\ FailActivity(h[p].key) /\ Goto(p, "retry")
       \/ ~Retryable(p) /\ DeadLetterActivity(h[p].key) /\ Goto(p, "compensate")
       \/ act[h[p].key] = "NONE" /\ Rejected(p)
    /\ UNCHANGED env

RetryStep(p) ==
    LET next == NextAttempt(h[p].key) IN
    /\ h[p].pc = "retry"
    /\ \/ ScheduleNextActivity(next, "later") /\ Return(p, "ack")
       \/ ~CanInsert(next) /\ Rejected(p)
    /\ UNCHANGED env

CompensateStep(p) ==
    /\ h[p].pc = "compensate" /\ h[p].seen # "COMPENSATING"
    /\ \E c \in NextCompensation(h[p].key.exec) :
          LET k == Row(h[p].key.exec, c, 1) IN
          \/ StartCompensating(k) /\ Return(p, "ack")
          \/ ~CanInsert(k) /\ Rejected(p)
    /\ UNCHANGED env

FailWorkflow(p) ==
    LET e == h[p].key.exec IN
    /\ h[p].pc = "compensate"
    /\ h[p].seen = "COMPENSATING" \/ Uncompensated(e) = {}
    /\ \/ FailExecution(e) /\ Return(p, "ack")
       \/ ~Exists(e) /\ Rejected(p)
    /\ UNCHANGED env

-----------------------------------------------------------------------------
(* The reaper.  Advisory lock 2000 admits one reaper at a time.            *)

Scan(r) ==
    /\ h[r].pc = "idle" /\ leader = Nobody
    /\ \E S \in SUBSET {k \in Key : act[k] = "PENDING"} :
          S # {} /\ overdue' = [overdue EXCEPT ![r] = S]
    /\ leader' = r
    /\ h' = [h EXCEPT ![r].pc = "reap"]
    /\ UNCHANGED <<db, results, lock, faults, repeats>>

\* reapTimeouts reports each row of its snapshot through ReportActivityFailure.
ReapNext(r) ==
    /\ h[r].pc = "reap"
    /\ \E k \in overdue[r] :
          /\ overdue' = [overdue EXCEPT ![r] = @ \ {k}]
          /\ h' = [h EXCEPT ![r] = [pc |-> "wait", key |-> k, res |-> "err", seen |-> "ABSENT"]]
    /\ UNCHANGED <<db, results, lock, leader, faults, repeats>>

ReapEnd(r) ==
    /\ h[r].pc = "reap" /\ overdue[r] = {}
    /\ leader' = Nobody
    /\ h' = [h EXCEPT ![r] = Idle]
    /\ UNCHANGED <<db, results, lock, overdue, faults, repeats>>

-----------------------------------------------------------------------------
(* Operators' requests.                                                    *)

\* RetryDeadLetteredActivity takes no lock.
ReadDeadLetter(c, k) ==
    /\ h[c].pc = "idle"
    /\ k \in dead
    /\ status[k.exec] \notin {"COMPENSATED", "CANCELLED", "COMPLETED"}
    /\ k.attempt < AttemptCap
    /\ h' = [h EXCEPT ![c] = [pc |-> "retryRow", key |-> k, res |-> "ok", seen |-> status[k.exec]]]
    /\ UNCHANGED <<db, lock, env>>

RetryDeadLetter(c) ==
    LET k == h[c].key
        newStatus == IF k.name \in Step THEN "RUNNING" ELSE "COMPENSATING" IN
    /\ h[c].pc = "retryRow"
    /\ \/ RetryActivity(NextAttempt(k), newStatus)
       \/ ~CanInsert(NextAttempt(k)) /\ UNCHANGED db
    /\ Return(c, "ack")
    /\ UNCHANGED env

\* RetryCompensation: the first dead-lettered compensation in the order of completed_at,
\* rows without one last and among themselves in any order.
FailedCompensation(e) ==
    LET comps == {k \in dead : k.exec = e /\ k.name \notin Step} IN
    {k \in comps : \A j \in comps : j \notin earlier[k] /\ (j \in done => k \in done)}

ReadFailedCompensation(c, e) ==
    /\ h[c].pc = "idle"
    /\ LockWorkflow(c, e)
    /\ status[e] = "FAILED"
    /\ \E k \in FailedCompensation(e) :
          /\ k.attempt < AttemptCap
          /\ h' = [h EXCEPT ![c] = [pc |-> "retryComp", key |-> k, res |-> "ok", seen |-> "FAILED"]]
    /\ UNCHANGED <<db, env>>

RetryFailedCompensation(c) ==
    LET next == NextAttempt(h[c].key) IN
    /\ h[c].pc = "retryComp"
    /\ \/ StartCompensating(next)
       \/ ~CanInsert(next) /\ UNCHANGED db
    /\ Return(c, "ack")
    /\ UNCHANGED env

CancelExecution(c, e) ==
    /\ h[c].pc = "idle"
    /\ status[e] \notin {"COMPLETED", "FAILED", "CANCELLED"}
    /\ SetStatus(e, "CANCELLED")
    /\ UNCHANGED <<lock, h, env>>

\* DELETE cascades to the activity rows; messages already sent stay where they are.
DeleteExecution(c, e) ==
    /\ h[c].pc = "idle"
    /\ Exists(e)
    /\ status' = [status EXCEPT ![e] = "DELETED"]
    /\ act' = [k \in Key |-> IF k.exec = e THEN "NONE" ELSE act[k]]
    /\ done' = done \ RowsOf(e)
    /\ earlier' = [k \in Key |-> earlier[k] \ RowsOf(e)]
    /\ dead' = dead \ RowsOf(e)
    /\ UNCHANGED <<outbox, lock, h, env>>

-----------------------------------------------------------------------------
(* Faults.                                                                 *)

\* A statement fails (the database is gone for a moment): the handler returns the error.
DBError(p) ==
    /\ faults < MaxFaults
    /\ h[p].pc \in Locked \cup {"wait", "retryRow"}
    /\ Return(p, "nack")
    /\ faults' = faults + 1
    /\ UNCHANGED <<db, results, leader, overdue, repeats>>

\* The process dies: PostgreSQL releases its session locks, RabbitMQ requeues its message.
Crash(p) ==
    /\ faults < MaxFaults
    /\ h[p].pc # "idle"
    /\ lock' = Free(p)
    /\ leader' = IF leader = p THEN Nobody ELSE leader
    /\ overdue' = [overdue EXCEPT ![p] = {}]
    /\ results' = IF p \in Consumer THEN results \cup {[key |-> h[p].key, res |-> h[p].res]}
                  ELSE results
    /\ h' = [h EXCEPT ![p] = Idle]
    /\ faults' = faults + 1
    /\ UNCHANGED <<db, repeats>>

-----------------------------------------------------------------------------
Handle(p) ==
    \/ BeginSuccess(p) \/ CompleteStep(p) \/ ReadExecution(p)
    \/ AdvanceCompensation(p) \/ FinishCompensation(p)
    \/ AdvanceStep(p) \/ FinishWorkflow(p) \/ UnknownActivity(p)
    \/ BeginFailure(p) \/ FailStep(p) \/ RetryStep(p)
    \/ CompensateStep(p) \/ FailWorkflow(p)

Consume(p) == Handle(p) \/ Settle(p) \/ \E m \in results : Deliver(p, m)
Reap(r)    == Handle(r) \/ Scan(r) \/ ReapNext(r) \/ ReapEnd(r)
Request(c) ==
    \/ \E k \in Key : ReadDeadLetter(c, k)
    \/ RetryDeadLetter(c)
    \/ \E e \in Exec : \/ ReadFailedCompensation(c, e)
                       \/ CancelExecution(c, e) \/ DeleteExecution(c, e)
    \/ RetryFailedCompensation(c)

Undisturbed ==
    \/ \E e \in Exec : StartWorkflow(e)
    \/ \E k \in Key, r \in Outcome : WorkOnce(k, r) \/ WorkAgain(k, r)
    \/ \E p \in Consumer : Consume(p)
    \/ \E r \in Reaper : Reap(r)
    \/ \E c \in Client : Request(c)

Next == Undisturbed \/ \E p \in Proc : DBError(p) \/ Crash(p)

Spec == Init /\ [][Next]_vars

-----------------------------------------------------------------------------
(* Safety.                                                                 *)

Completed(e, i) == \E k \in done : k.exec = e /\ k.name = i

\* An activity is scheduled only after every earlier activity of the workflow has completed
\* at least once: whatever late, duplicated or contradictory reports the handlers of several
\* engines interleave, no activity is skipped (engine.go, ReportActivitySuccess).
SequentialSteps ==
    \A k \in Key : k.name \in Step /\ act[k] # "NONE" =>
        \A i \in 1..(k.name - 1) : Completed(k.exec, i)

\* An execution is COMPLETED only if each of its activities has completed, also after
\* cancellations, timeouts, operators' retries and crashes in between.
CompletedMeansAllDone ==
    \A e \in Exec : status[e] = "COMPLETED" => \A i \in Step : Completed(e, i)

\* A compensation is scheduled only for an activity that has completed: nothing is undone
\* that was never done (determineNextCompensation and the two operators' retries).
NoSpuriousCompensation ==
    \A k \in Key : k.name \in CompName /\ act[k] # "NONE" =>
        \E i \in Step : Comp[i] = k.name /\ Completed(k.exec, i)

\* Rollback has a cause: an execution that compensates, has compensated or has failed holds
\* a dead-lettered activity.  A retryable failure never starts a rollback.
RollbackOnlyAfterDeadLetter ==
    \A e \in Exec :
        status[e] \in {"COMPENSATING", "COMPENSATED", "FAILED"} => \E k \in dead : k.exec = e

\* Two attempts of one activity are never both open: a row is inserted only when the
\* attempt before it has been closed, by whichever of the four paths that insert one.
OneOpenAttempt ==
    \A j, k \in Key :
        j.exec = k.exec /\ j.name = k.name /\ j.attempt < k.attempt /\ act[k] # "NONE"
            => act[j] \in {"COMPLETED", "FAILED"}

\* The engine alone never exceeds the retry policy: an attempt beyond it follows a
\* dead-lettered one, hence an operator's decision.
BudgetOnlyByOperator ==
    \A k \in Key : act[k] # "NONE" /\ k.attempt > Budget(k.name) =>
        \E j \in dead : NextAttempt(j) = k

\* What a handler read under the execution's lock is still so when it writes: no other
\* handler completes or fails its row in between, although it runs several transactions.
ReadStaysCurrent ==
    \A p \in Proc : h[p].pc \in Locked /\ Exists(h[p].key.exec) =>
        LET a == act[h[p].key] IN
        /\ h[p].pc = "complete" => a \in {"PENDING", "FAILED"}
        /\ h[p].pc \in {"readExec", "advance"} => a = "COMPLETED"
        /\ h[p].pc = "fail" => a \in {"PENDING", "COMPLETED"}
        /\ h[p].pc \in {"retry", "compensate"} => a = "FAILED"

\* A lock belongs to a handler that is still working on that execution: every return,
\* error and crash gives it back, and nobody works on an execution without it.
LockHeldByHandler ==
    \A p \in Proc, e \in Exec :
        lock[e] = p <=> h[p].pc \in Locked /\ h[p].key.exec = e

\* At least once: an open row always has a task on its way, a result in the queue, or a
\* handler that works on its result; a crash or a requeue never loses the last of them.
PendingIsCarried ==
    \A k \in Key : act[k] = "PENDING" =>
        \/ \E t \in {"now", "later"} : [key |-> k, tier |-> t] \in outbox
        \/ \E r \in Outcome : [key |-> k, res |-> r] \in results
        \/ \E p \in Consumer : h[p].pc # "idle" /\ h[p].key = k

\* An execution that still has to move has something that moves it: an open row, or a
\* handler between its transactions.  It holds of UninterruptedSpec (below) only: a fault
\* between two transactions strands the execution, which nothing in the code finds again.
Open(e) == status[e] \in {"RUNNING", "COMPENSATING"}
NoStranded ==
    \A e \in Exec : Open(e) =>
        \/ \E k \in RowsOf(e) : act[k] = "PENDING"
        \/ \E p \in Proc : h[p].pc \in Locked /\ h[p].key.exec = e

-----------------------------------------------------------------------------
(* Progress.                                                               *)

\* Handlers run until they return; queues deliver what they hold; a worker that takes a
\* task reports something, sooner or later.
Fairness ==
    /\ \A p \in Consumer : SF_vars(Handle(p)) /\ WF_vars(Settle(p))
                           /\ WF_vars(\E m \in results : Deliver(p, m))
    /\ \A r \in Reaper : SF_vars(Handle(r)) /\ WF_vars(ReapNext(r) \/ ReapEnd(r))
    /\ \A k \in Key : WF_vars(\E r \in Outcome : WorkOnce(k, r))

FairSpec == Spec /\ Fairness

\* A fault between two transactions of a handler: it has closed a row, or read the status,
\* and not yet committed what follows from it.
Between == {"readExec", "advance", "retry", "compensate"}

\* Statements fail and engines die, but never there.
UninterruptedNext ==
    Undisturbed \/ \E p \in Proc : h[p].pc \notin Between /\ (DBError(p) \/ Crash(p))

UninterruptedSpec == Init /\ [][UninterruptedNext]_vars
FairUninterruptedSpec == UninterruptedSpec /\ Fairness

\* Without faults between two transactions and without operators' requests, an execution in
\* progress reaches a final status.
EventuallySettled == \A e \in Exec : Open(e) ~> ~Open(e)

-----------------------------------------------------------------------------
(* What the documents say of the program, and a run refutes.               *)

\* docs/how_it_works.md: an execution becomes COMPENSATED once compensated, that is when the
\* compensation of every completed activity has succeeded.  It is so as long as the reports
\* of a row do not contradict each other (Compensation!AgreeingSpec).
CompensatedMeansUndone ==
    [][\A e \in Exec : status[e] # "COMPENSATED" /\ status'[e] = "COMPENSATED" =>
          \A i \in Step : Completed(e, i) /\ Comp[i] # NoComp => Completed(e, Comp[i])]_vars

=============================================================================
