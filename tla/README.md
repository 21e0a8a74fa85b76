# FlowScale: formal model

TLA+ models of FlowScale's engine, task delivery, timeouts, scheduler and workflow catalogue, checked
with TLC, and proofs about them checked with TLAPS. Paths below are relative to the repository's root.

## 1. The system

FlowScale runs workflows: lists of activities, each with an optional retry policy and compensation.
One binary (`cmd/engine/main.go`) plays one or several roles; `k8s/` runs two replicas each of
`api`, `engine` and `scheduler` and three of `worker`. The processes share PostgreSQL and RabbitMQ
and never talk to each other directly.

| Component | State it keeps | Operations |
|---|---|---|
| engine (`internal/engine/engine.go`) | none of its own; one report at a time | start a workflow, report success, report failure, retry a dead letter, retry a compensation, cancel |
| execution repository (`internal/repository/execution_repo.go`) | `workflow_executions`, `activity_executions`, `outbox_messages`, `workflow_events`; advisory locks | one transaction per operation |
| reaper (`internal/engine/reaper.go`) | a snapshot of overdue rows; advisory lock 2000 | every 30 s: fail rows that are pending for more than 5 minutes; record heartbeats |
| outbox publisher (`internal/engine/outbox_publisher.go`) | a batch of rows | every second: read up to 100 rows, publish each, delete it |
| queue (`internal/queue/rabbitmq.go`) | activity queues, five parking queues, DLQs, results, heartbeats | declare, publish, consume |
| worker (`internal/worker/worker.go`) | a loop per activity, a semaphore, a wait group, goroutines | take a task, check for a duplicate, run, publish the report, acknowledge; shut down |
| scheduler (`internal/scheduler/scheduler.go`) | a database connection that holds advisory lock 1000 | every 5 s: find due schedules, start each, move it on |
| schedule API (`internal/api/schedule_handler.go`) | none | create, pause, resume, delete, list |
| workflow catalogue (`internal/repository/workflow_repo.go`, `internal/api/workflow_handler.go`) | `workflows`, `activities` | create, replace, delete, read |
| execution and DLQ API | none | requests to the engine, queries |
| authentication, middleware, health, seed and demo data, observability, configuration | per request | see section 7 |
| `cmd/tui`, `web/`, `internal/client` | user interface | requests to the API |

How they interact:

    API, scheduler --StartWorkflow--> tables + outbox row      (one transaction)
    outbox publisher --publish--> activity / parking / dead-letter queue, then delete the row
    worker <--deliver-- queue;  worker --report--> results queue, then ack
    engine <--deliver-- results queue;  lock, read, several transactions, unlock, then ack or requeue
    reaper --ReportActivityFailure--> engine (in its own process)
    operator --retry, cancel, delete--> API --> engine and tables

What is hard here:

- A handler of the engine runs up to three transactions, under an advisory lock that belongs to a
  connection. Other replicas, the reaper, operators (who take no lock) and crashes fall in between.
- Every hop delivers at least once and in any order, and a timeout may contradict a late success.
- The rollback chooses the next compensation from `completed_at`, which a late report sets anew.
- The publisher, the worker and the scheduler each do an effect and record it in two steps.
- The worker's semaphore, wait group and shutdown share no lock.
- Leadership belongs to a connection, the work to a process.
- A timeout is measured against heartbeats that pass through a queue; the reaper acts on a snapshot.
- An execution keeps no copy of its definition: every step reads the catalogue anew.
- Connections and channels are opened once: after a restart of the broker a process that lives on is
  deaf until it is replaced.

What makes each part correct:

- Engine: activities run in order, none is skipped, COMPLETED means all done; only what completed is
  compensated, and only after a dead letter; one open attempt at a time, within the policy; nothing
  in progress is stranded; locks are given back.
- Delivery: a committed task is carried until answered or closed; duplicates have a cause; dead
  letters stay; slots are accounted for; every task is reported in the end.
- Scheduler: a run is started once per cause, no run is passed over, somebody takes over.
- Timeouts: an activity that beats in time is not reaped, a silent one is.
- Catalogue: deletions leave nothing behind; an execution follows the definition it was started from
  unless somebody replaced it, and one open activity at a time even then.

## 2. Modules

| Module | What it is |
|---|---|
| `Engine` | engine, execution transactions, the reaper's reports, operators, crashes; workers as environment |
| `Compensation` | the loops of `determineNextCompensation` beside the set by which `Engine` describes them; `Engine` as an implementation of `Saga` |
| `Saga` | abstract: an execution performs its activities in order and undoes them in the reverse order |
| `Backoff` | the delay of a retry: shift, cap, column, parking queue |
| `EngineProofs` | theorems about `Engine` and their proofs |
| `StrandedProofs` | that nothing is stranded unless a fault falls between two transactions, on top of `EngineProofs` |
| `CompensationProofs` | theorems about `Compensation`, the refinement of `Saga` among them, and their proofs |
| `Delivery` | abstract: what outbox, broker and workers promise together |
| `Dispatch` | publisher, broker routes and restarts, worker with semaphore, wait group and shutdown; implements `Delivery` |
| `DispatchProofs` | theorems about `Dispatch`, its refinement of `Delivery` among them, and their proofs |
| `DuplicateProofs` | the bound on repeated runs of a task, on top of `DispatchProofs` |
| `Heartbeats` | heartbeats, their queue and consumers, the reaper's lock and scan, with a clock |
| `HeartbeatProofs` | theorems about `Heartbeats` and their proofs |
| `Scheduler` | leadership, poll, schedule requests, shutdown and faults |
| `SchedulerProofs` | theorems about `Scheduler` and their proofs |
| `Catalogue` | definitions, their replacement and deletion, and the handlers that read them |
| `CatalogueProofs` | theorems about `Catalogue` and their proofs |
| `MCEngine`, `MCCompensation`, `MCDispatch`, `MCScheduler`, `MCCatalogue` | instances for TLC |

### Engine

One transaction is one step, and so is a read that a later step relies on. A handler that runs
several steps is the record `h[p]`: where it stands (`pc`), the row it reports on, the outcome and
the status it has read. Processes are result consumers, reapers and API requests.

| Code | Actions |
|---|---|
| `StartWorkflow`, `CreateExecution` | `StartWorkflow` |
| `StartResultConsumer` | `Deliver`, `Settle` (ack or requeue) |
| `ReportActivitySuccess` | `BeginSuccess`, `CompleteStep`, `ReadExecution`, then `AdvanceStep`, `FinishWorkflow`, `AdvanceCompensation`, `FinishCompensation` or `UnknownActivity` |
| `ReportActivityFailure` | `BeginFailure`, `FailStep`, then `RetryStep`, `CompensateStep` or `FailWorkflow` |
| `RetryDeadLetteredActivity`, `RetryCompensation` | `ReadDeadLetter` and `RetryDeadLetter`, `ReadFailedCompensation` and `RetryFailedCompensation` |
| `CancelExecution`, `DeleteExecution` | actions of the same names |
| `reapTimeouts` | `Scan`, `ReapNext`, `ReapEnd`, and the failure handler |
| publisher, broker and worker (environment) | `WorkOnce`, `WorkAgain`: a task is answered with any outcome, any number of times |
| failures | `DBError` (a statement fails), `Crash` (locks are released, the message is requeued) |

`act[k]` is the row with idempotency key `k` = (execution, name, attempt), so the unique constraint
is the row's identity. `completed_at` is abstracted to `done` and `earlier[k]`, the order in which
rows completed. The names of activities are their positions: they are unique within a workflow
(`UNIQUE (workflow_id, name)`), and the model assumes that compensations have other names.

### Saga and Backoff

`Saga` knows of an execution only its status, how many activities it has performed, and which
compensations. Its rule is that `Undo` takes the last performed activity that is not undone yet: the
engine finds it by its loop over `completed_at`. `Compensation` maps the tables to it (`Reached`, `Undone`).
Every transaction of the handlers, every crash between two of them and every repeated delivery is then a
step of the saga or no step at all.

`Compensation` also has the two loops of `determineNextCompensation` over the list that
`ListActivityExecutions` returns, beside the set by which `Engine` describes them. In the list, a row with
a `completed_at` stands at the place that the number of its earlier rows gives it.

The refinement holds under `AgreeingSpec`: the reports of one row may be many and late, but they do
not contradict each other. This excludes a reaper that reports a failure of a row whose worker succeeds
after all; the theorem excludes operators, too. It is a real restriction: under `Spec`, TLC finds an execution that has FAILED
because an activity did, and then performs that activity when the contradicting success arrives.
What holds without it are the safety properties of `EngineTimeouts` and `EngineOperator`, and
`EngineUndone` shows one that does not.

`Backoff` is `1 << (nextAttempt - 2)` with its cap, in an int of `IntWidth` bits, stored in a column
of `ColumnWidth` bits. The runs use 12 and 8 bits for the 64 and 32 of the program: the arithmetic
depends on the width only by where it ends, and 12 is enough for the five tiers, the cap, the sign and
the zeros beyond. The retry policy's `initial_interval` and `backoff_coefficient` are stored and
shown, and never read by the engine.

### Dispatch and Delivery

A copy is one message in the broker and keeps its identity on its way through `parked`, `queue`, a
worker's `channel`, `spawn` (it has a slot, `wg.Add` is next), `check`, `run`, `publish`, `ack` or
`nack`. `worker[w]` holds the mode of the process (`down`, `up`, `stopping`, `drained`), the
queues it consumes and its live loops, the counts of the semaphore and the wait group, and the goroutines in their deferred calls.

| Code | Actions |
|---|---|
| `processOutbox` | `Poll`, `Publish`, `Delete`; `PublishFails`, `DeleteFails`, `PublisherCrash` |
| routes of `rabbitmq.go` | `Routed`, `Bound`, `Enqueue`, `Expire`, `Deliver` |
| the broker stops and starts | `BrokerRestart`; then `CallFails` for every process that is not `connected` |
| `Worker.Start` | `Start`, `StartPartly`, `Acquire`, `Spawn`, `CheckDuplicate`, `CheckFails`, `HandlerReturns`, `PublishResult`, `PublishResultFails`, `Acknowledge`, `ReleaseSlot`, `LeaveGroup` |
| `Shutdown` and the end of `main` | `Stop`, `LoopEnds`, `LoopReturnsDelivery`, `Drained`, `Exit`, `WorkerCrash` |
| engine and reaper (environment) | `Commit`, `Close`, `DeadLetter` |

`Delivery` has five sets: open and closed rows, tasks that are carried, tasks that are answered, and
tasks of which the broker has dropped a message (a queue that nobody had declared, or a restart:
messages are transient and publishes unconfirmed, so nobody is told). Its one rule is that a carried
task disappears only when it is answered, closed or in the last of these sets. `Dispatch` implements
it with `carried` being the tasks in the outbox, in a publisher's batch, or in a copy outside the
DLQ (a second publisher's batch can bring a task back after its row and its copies are gone: this is
why the batch belongs to the mapping). `Engine`'s environment is written to what `Delivery` states:
`WorkOnce` and `WorkAgain` answer a task that is carried, as often as they like.

### Scheduler

`conn[r]` is `leaderConn`; `lock` is who holds lock 1000 in the server, so that the two can differ.
`todo[r]` is what is left of the snapshot, `now[r]` the time of the poll, from which the next run is
counted. `StartWorkflow` and `AdvanceSchedule` are two steps, as they are two transactions. `Stop`
releases the lock while the loop may be in a poll; the process ends with `Exit`.

### Heartbeats

`last_heartbeat_at` is modelled by its age, which `Tick` increases; so are the heartbeats in the queue.

| Code | Actions |
|---|---|
| `InsertActivityExecution` (sets `last_heartbeat_at`) | `InsertActivity` |
| `Worker.Start`, `Heartbeat`, the report | `Start`, `Heartbeat`, `FallSilent`, `Return`, `Report`, `WorkerCrash` |
| `consumeHeartbeats`, `RecordHeartbeat` | `Record`; `LoseHeartbeat`, `ConsumerEnds` |
| `reapTimeouts` | `TryLock`, `Snapshot`, `ReapNext`, `Unlock`; `SnapshotFails`, `ReapFails`, `SessionLost`, `ReplicaCrash` |

`late` collects the tasks for which the promise of heartbeats was not kept: one that was lost, one
that lay in the queue because no consumer is left, or a task that waited so long for a worker that the
first heartbeat cannot be in time (the clock starts with the insertion of the row).

### Catalogue

| Code | Actions |
|---|---|
| `CreateWorkflow`, `UpdateWorkflow`, `DeleteWorkflow`, `DeleteExecution` | actions of the same names, with the cascades of the foreign keys |
| `StartWorkflow` | `AskWorkflow`, then `CreateExecution` or `CreateFails` |
| consumer loop | `Deliver`, `Ack`, `Requeue`, `Fault` |
| `ReportActivitySuccess`, `ReportActivityFailure` | `Begin`, `CompleteActivity`, `ReadWorkflow` and `ReadActivities` (the two queries of `GetWorkflow`), then `DeadLetterActivity`, `Advance` or `RollBack` |

This module has the definitions that `Engine` takes for constant. It leaves out what `Engine` has:
retries, operators, timeouts, and reports that repeat or contradict each other. As in `Engine`, no activity
has the name of a compensation (`DefinitionAssumption`); the code does not check this. `version` is
`updated_at`; `born` is the version `StartWorkflow` has read, which only the properties look at.

## 3. Runs

Passing runs (each finishes with no error; together they take every action):

| Run | Question | Bounds |
|---|---|---|
| `EngineTimeouts` | do reports and timeouts, contradictory and repeated, keep order, completion, locks and reads? | 1 execution, 2 activities, 1 compensation, 2 consumers, 1 reaper, 1 fault, 1 repeat |
| `EngineOperator` | do retries by operators, cancel and delete keep the policy and the rollback's cause? | 1 consumer, 1 request at a time, 3 attempts |
| `EngineProgress` | one open attempt, nothing stranded, loops that find what the set says, delays that double; does every execution settle, through faults that do not fall between two transactions? (fair) | 2 activities, 2 compensations, a policy of 2 attempts for the second, 2 consumers, 1 repeat, 1 fault |
| `EngineSaga` | is the engine a saga, through crashes and repeated reports, and COMPENSATED only when everything is undone? | 4 activities, 2 compensations (one shared), a policy of 2 attempts for the second, 2 consumers, 1 fault, 1 repeat |
| `DispatchDelivery` | is `Delivery` implemented, do duplicates have a cause, do dead letters stay, are slots accounted for? | 1 task, 2 publishers, 2 workers, 3 copies, 2 faults, no queue declared at first |
| `DispatchProgress` | is a task reported in spite of faults, unless a process runs that cannot reach its queue? (fair) | 1 task, 1 publisher, 1 worker, 4 copies, 2 faults |
| `HeartbeatTimeouts` | is a punctual activity spared, and a silent one reaped in the end? (fair) | 1 task, 2 replicas, timeout 4 = heartbeat every 2 + delay 2, 2 faults |
| `SchedulerRuns` | how often is a run started, by how many leaders, and is one skipped? | 2 replicas, a one-time and a cron schedule, 1 resume each, 1 fault, clock to 2 |
| `SchedulerTakeover` | is a due schedule handled in the end? (fair) | 2 replicas, 1 cron schedule, 2 faults, clock to 2 |
| `CatalogueChanges` | what do replaced and deleted definitions do to executions at work, and do the others settle? (fair) | 1 workflow, 4 definitions, 2 executions, 1 update, 1 consumer, 1 client, 1 fault |

Runs that show a disagreement between what is said and what the code does:

| Run | What is said | What happens |
|---|---|---|
| `EngineCrash` | README: workflows survive restarts or crashes | a crash between closing a row and scheduling what follows strands the execution |
| `EngineUndone` | docs/how_it_works.md: COMPENSATED once compensated | a failed compensation with an open retry counts as compensated |

Two more of this kind, for which the models take the step and no run asks. docs/clients.md:26 speaks
of cancelling an ongoing execution; a report after the cancellation schedules the next activity
(`ReportActivitySuccess` asks for COMPENSATING alone, engine.go:179, so `AdvanceStep` does too).
docs/how_it_works.md:18 says that workers deduplicate tasks; two workers run one task at the same time,
without a fault, when two publishers have read its row (`DuplicatesHaveCause` counts such runs).

The models take further steps that no property forbids because the code takes them: a success of a
compensation whose execution is no longer COMPENSATING (`UnknownActivity`), a finished task run again
because the deduplication check failed (`CheckFails`), a goroutine that starts while the process shuts
down (`Spawn` after `Drained`), a message for an undeclared queue that is dropped (`Enqueue`), a
schedule started and set ACTIVE after it was paused (`StartWorkflow`, `UpdateScheduleState`), a former
leader that finishes its poll, a row reaped although it has beaten since the snapshot (`ReapNext`), and
an activity removed from a definition whose row then counts as a compensation (`Attempted`). The hazards
of PROJECT.json name their lines.

Why the bounds are enough. The handlers of one execution exclude each other by its lock and touch
no other execution, so one execution shows every interleaving; two consumers are the least that
contend, and a third would wait as the second does. Two activities are the least with a first, a
last and a step between them. With them `EngineProgress` has an order among two compensations
when the second activity succeeds late, after its retry has been scheduled, and the retry then
fails; `EngineSaga`, whose reports agree, takes four, since that order then needs two completed
activities and a failing one, and so that an activity with nothing to undo fails last. One repeated
delivery and one fault are the least that lets a late report meet each state; most safety properties of these instances have a theorem
for every value (section 5). In `Dispatch` two publishers and two workers are the least that
duplicate, one slot the least that contends; `Copy` is one larger than the copies that exist without
faults, and two faults are a restart of the broker with a crash before or after it. In
`Heartbeats` the timeout is the smallest sum of a period and a delay that are longer than one tick, so
that heartbeats overtake each other and the age reaches the threshold exactly. In `Scheduler` two
replicas and a clock with three readings give a former leader, a new one, and a run between two
others. `Period` is 1, so each tick is a run. In `Catalogue` the definitions are those that differ in
what a handler finds: nothing, its activity alone, before another one, or after another one; the second
execution is the one that must not be held up by the first.

`CHECK_DEADLOCK FALSE` stands where the system really stops: all executions final and all messages
consumed. The scheduler never stops, and its runs check for deadlock.

Symmetry is used for replicas, workers, publishers and copies where a run has no liveness property.

## 4. Fairness

- Engine (`FairSpec`, `FairUninterruptedSpec`): a handler that can take its next step takes it, strongly
  fair since the wait for the advisory lock is a queue in PostgreSQL; a message in a queue is delivered;
  a task is answered; the reaper's loop goes on. Nothing is assumed of operators, of the reaper's clock,
  or of repeated deliveries. That `EngineProgress` has no fault between two transactions is no fairness but
  a restriction: `EngineCrash` shows what happens with one.
- Dispatch: tickers tick; the broker offers a message to some consumer; senders waiting on the Go
  channel of the semaphore are served in order (strong fairness of `Acquire`); the activity
  functions return; a stopping process ends (10 s) and is started again by its deployment. A
  publisher's `Publish` is strongly fair only because the model bounds the copies.
- Heartbeats: time passes; an activity that is not silent beats; a heartbeat that is due is recorded
  while a consumer is left; some replica's ticker takes the free lock, and a scan goes on to its end.
- Catalogue: workers answer; a handler goes on; and a report of each execution is delivered again and
  again (strong fairness per execution), because the consumer has no prefetch limit: reports that are
  requeued for ever do not keep back the others.
- Scheduler: a replica's loop goes on and a stopping process is started again. Faults are bounded,
  so that from some time on there are none; requests are not fair.

## 5. Proofs

`EngineProofs` proves, for every set of executions, number of activities, choice of compensations and
policies, number of consumers, reapers and requests, and any number of faults and repeats:

| Theorem | Property |
|---|---|
| `TypeCorrect` | `TypeOK` |
| `StepsInOrder` | `SequentialSteps` |
| `CompletionIsReal` | `CompletedMeansAllDone` |
| `CompensationIsEarned` | `NoSpuriousCompensation` |
| `RollbackHasCause` | `RollbackOnlyAfterDeadLetter` |
| `AttemptsOneByOne` | `OneOpenAttempt` |
| `BudgetRespected` | `BudgetOnlyByOperator` |
| `LockDiscipline` | `LockHeldByHandler` |
| `ReadsStayCurrent` | `ReadStaysCurrent` |
| `OpenRowsAreCarried` | `PendingIsCarried` |
| `Inductive` | the invariant they follow from |

Assumptions of `EngineProofs`: the four named ASSUMEs of `Engine` (activities are 1..N and compensations have other
names, attempts are positive, processes are distinct, the marker of an idle handler is no row).

The argument. None of the properties is inductive: a handler between two of its transactions acts on
what it read before. `IInv` therefore adds

- `RowInv`: what a row's status says of `done` and `dead`;
- `HandlerInv`: what each handler knows at each place (`Knows`): after `CompleteStep` its row is
  completed, before `RetryStep` it is failed and an attempt is left, and so on;
- `StartedInv`: rows, messages and results belong to executions that were started.

The proof has three layers. First, every step of `Next` is shown to be one of a few transactions or to
leave the tables alone (`NextTransaction`), and rows are never lost while their execution exists
(`RowsPersist`). Second, each property's part holds because an insertion or a change of status is
justified by what its handler knows (`InsertionJustified`, `StatusJustified`). Third, what a handler
knows stays true because only the holder of the lock changes a row of the execution (`OwnRowStays`,
`StillKnows`); operators and deletions are the exception, and what they may change is exactly what
`Knows` does not claim. `IInv` itself was checked with TLC on three of the engine's instances.

`StrandedProofs` and `CompensationProofs` prove, with the same assumptions:

| Theorem | Property |
|---|---|
| `NothingStranded` | `NoStranded`, under `UninterruptedSpec` and with `Client = {}` |
| `LoopIsRule` | `LoopFindsNextCompensation`, without conditions |
| `BackoffIsDoubling` | `Doubles` and `Overflows`, the parts of `RetriesWait` about numbers, for every width |
| `RetriesReallyWait` | `RetriesWait`, if no policy allows more than `IntWidth` attempts |
| `EngineIsSaga` | `IsSaga`: `AgreeingSpec` implements `Saga`, with `Client = {}` |
| `CompensatedIsUndone` | `CompensatedMeansUndone`, under `AgreeingSpec` and with `Client = {}` |

The conditions are those of the statements, not of the proofs.

- `UninterruptedSpec` allows any number of faults, except a failed statement or a crash of a handler that is
  between two of its transactions (`Between`). Such a fault does strand an execution (`EngineCrash`); the theorem
  says that nothing else does: a fault while a handler waits for the lock, has it and has not committed
  anything, or has committed everything is made good by the redelivered report. With operators, a request may
  strand an execution too (`UnknownActivity` after a cancellation), hence `Client = {}`.
- Nothing in the code bounds `max_attempts`. `Overflows` says what happens beyond the width: the
  first such retry fits no column, so its transaction fails, and the ones after it would not wait. With
  the program's 64 bits that is attempt 65.
- Why `IsSaga` needs agreeing reports is said in section 2. Under `Spec` the documented meaning of COMPENSATED is
  refuted (`EngineUndone`); `CompensatedIsUndone` is the condition under which it holds.

Reapers, any number of engines, and repeated reports are in all of them (agreeing ones where the theorem says so).

- `NoStranded` is not inductive because an open row is not enough: the success of a row that is not the
  last one reached schedules nothing. `Driven` names the rows that do move their execution (`Leads`), or the
  handler that has closed such a row and owes the next step (`Owes`). Each transaction then hands the
  duty on: a closed row to its handler, the handler to the row it inserts or to a final status.
- A delay is what a shift computes, and doubling is a recursion, so `BackoffIsDoubling` is an induction. The
  library's induction theorems take a predicate as a parameter, which the provers cannot instantiate; but
  that < is well-founded on the numbers is a fact about sets (`NatLessThanWellFounded`, `WFMin`), and
  from it `SetInduction` follows: a set that holds 0 and the successor of each of its numbers holds all of
  them. `PrimitiveRecursion` builds a recursive function from its beginnings, so that `PowerOfTwo` and `Delay`
  are what their definitions say. That only retries within the policy are sent to wait is `LaterInv`.
- The loops agree with the set because `completed_at` is a strict total order of the completed rows of an
  execution, also when late reports set it anew (`OrderInv`). A row's rank is then its place in the list
  (`RankOrder`, `RankOnto`, `ListHolds`): every completed row is at exactly one place, so the last hit of the
  loop is the latest uncompensated row (`HitsAreUncompensated`, `LoopFinds`).
- For the refinement, `SagaInv` says that agreeing reports make statuses final (`FinalInv`, `RetriedInv`), so that
  at most one activity or compensation of an execution is under way (`OneUnderWay`); that completed rows are
  ordered as the activities are (`TrailInv`), so that the latest uncompensated row is the saga's last
  activity to undo (`NextIsUp`), retries and shared compensations included; and what each handler relies
  on between its transactions (`BusyInv`). Then each action of `Engine` is mapped to an action of `Saga`
  or to a stutter. `CompensatedIsUndone` is read off that mapping: of the saga's actions only `Compensated`
  leads to COMPENSATED, and it requires that nothing is left to undo.

`SagaInv`, `OrderInv` and `LaterInv` were checked with TLC before their proofs, on instances of the two runs.

`HeartbeatProofs` proves, for every timeout, period, delay, set of tasks and replicas and number of faults:

| Theorem | Property |
|---|---|
| `HeartbeatTypes` | `TypeOK` |
| `PunctualityPays` | `PunctualNotReaped` |
| `HeartbeatInductive` | the invariant it follows from |

`PunctualNotReaped` speaks of a snapshot, so it is not inductive. Its strengthening is three bounds that share a row's
time among them: the age of a row is at most the silence of its activity plus the age of what is in the queue
(`WorkInv`, `QueueInv`), and what is in a snapshot was overdue (`TodoInv`). Assumptions:
`TimeAssumption` (a period and a delay fit into the timeout: without it the code does not keep the
promise either) and `FaultAssumption`.

`SchedulerProofs` proves, for every set of schedules, number of replicas, period, and bounds of the clock,
the resumes and the faults:

| Theorem | Property |
|---|---|
| `TypeCorrect` | `TypeOK` |
| `LeaderIsAlone` | `OneLeader` |
| `RunsHaveCauses` | `OncePerRun` |
| `RunsAreKept` | `RunsNotSkipped` (an action property) |
| `Inductive` | the invariant they follow from |

`OncePerRun` is a count, and its invariant counts too (`CauseInv`): to what has been started it adds what
may still be. A run can still be started once by the replica that leads (`Possible`), from the row, from
what it has read, or because it will move the row to that run; and once by each replica that polls without
leading (`Late`), and every one of those got there by a fault of its own (`Strays`). Each step is then one
of six (`Accounted`): it starts what was possible and no longer is, a stray spends its turn, a fault or a resume
pays for what becomes possible, or nothing changes. `RunsNotSkipped` needs that without faults
a row in hand is the row of the table (`FreshInv`), which needs `LockInv`. Assumptions: the kinds, a positive
period, finitely many replicas, and natural bounds.

`DispatchProofs` proves, for every set of tasks, activities, publishers and workers, any finite number of
copies, slots, rows per poll, and faults:

| Theorem | Property |
|---|---|
| `TypeCorrect` | `TypeOK` |
| `SlotsAreAccounted` | `SlotsAccounted` |
| `DeadLettersAreKept` | `DeadLettersKept` |
| `AtLeastOnce` | `DeliversAtLeastOnce`: `Spec` implements `Delivery` |
| `Inductive` | the invariant they follow from |

The argument. A step of `Dispatch` that makes a task disappear must be a step of `Delivery`: the task has been
reported, closed or dropped by the broker. `Safe` says that; `Live` says that a copy outside the DLQ carries
the task. No step knows this by itself: the publisher deletes a row because it has published it
before, and the worker acknowledges because it has reported before. So `IInv` adds

- `SentInv`: while a publisher is between publish and delete, the task at the head of its batch is in a copy,
  safe, or, for a dead letter, buried in the DLQ; other publishers and workers may have handled that copy
  meanwhile;
- `CopyInv`: what the place of a copy says of its task: a copy about to be acknowledged is safe; a copy
  at a worker whose connection is gone belongs to a task of which the broker has dropped a message;
- `TaskInv`: a committed task is in the outbox, live, or safe. A publisher's batch does not count: another
  publisher may have deleted the row since;
- `MessageInv`, `DownInv`, `CountInv`: messages belong to committed tasks; a process that is down has no
  copies and counts nothing; the semaphore and the wait group count the copies in goroutines.

With the invariant, each action is shown to map to one action of `Delivery` or to a stutter; `Lose` and
`Release` take sets because one restart or one dead process ends many copies. Assumptions:
`TaskAssumption`, `BoundAssumption`, and `ProcessAssumption` (publishers and workers are different processes,
publishers and copies are finitely many). `IInv` itself was checked with TLC on the instance of `DispatchDelivery`.

`DuplicateProofs` proves, with the same assumptions:

| Theorem | Property |
|---|---|
| `DuplicatesAreCaused` | `DuplicatesHaveCause` |
| `DuplicatesInductive` | the invariant it follows from |

How often a task has been started says nothing of the starts still to come, so `Budget` adds those: a publisher
that may still publish the task (`MayPublish`: it has the row in its batch or will find it in the outbox), and a
copy that a worker will still run, now or after a requeue (`MayRun`). Their sum with `starts` stays within
`Causes * Rounds`: `Causes` counts the publishers and the faults, `Rounds` is one and one more for each fault.

- A publish turns a publisher into a copy and a start uses a copy up, so neither changes the sum by
  more than it gives back (`Publishes`, `Runs`).
- A fault brings a publisher back, by a publish whose row was not deleted, or it makes copies that have
  been run ones that may run again, because their process or their connection is gone (`Repeats`). There are
  at most `Causes` publishers and copies together, the second part of `Budget`, and a round pays for all of them.
- A shutdown is a fault when it begins, but its copies come back when the process ends. The rounds of the
  processes in between are set aside (`Ending`, `Stops`, `Ends`).

That a publish uses its publisher up needs that the task is in the outbox once and that a batch holds the same
message (`OnceInv`): otherwise a publisher could publish it again without a fault. The product of two growing
numbers is beyond the SMT solver; `Products` and `BoundGrows` state what is used of it. `OnceInv` and
`Budget` were checked with TLC on the instance of `DispatchDelivery`.

`CatalogueProofs` proves, for any workflows, definitions with unique names, executions, handlers, clients, and
any number of updates and faults:

| Theorem | Property |
|---|---|
| `TypeCorrect` | `TypeOK` |
| `NothingIsOrphaned` | `NoOrphans` |
| `OneActivityOpen` | `AtMostOneOpen` |
| `DefinitionIsFollowed` | `RunsAsDefined` |
| `Inductive` | the invariant they follow from |

The argument. A handler reads status, workflow and activities in separate queries and acts later, so each
property needs what is known in between. `IInv` adds

- `MailInv`: an open activity is either a task or a report, in the queue or in a handler's hands, never both, and
  reports of it agree: this is why a second handling of a report changes nothing;
- `Knows`: a handler that is about to insert a row or to finish knows that no row is open, unless its
  execution has been deleted, and then its write fails;
- `StartOK` and the last part of `Knows`: what a start request or a handler has read is still the definition,
  if the version is still the one it read or the execution was started from. Versions only grow, so the
  equality cannot become true again (`born[e] <= version[workflow[e]]`);
- `RowsOK`: the trail has the completed activities and no others.

`ExecKept`, `MailKept` and `KnowsKept` say that all of this stays true of an execution which a step does
not write, or deletes; each step is then shown for the one execution it writes (`TableStep`). Assumptions:
`DefinitionAssumption` and `BoundAssumption`. `IInv` was checked with TLC first, with two consumers.

Only model-checked: liveness (`EventuallySettled`, `EventuallyReported`, `DueIsHandled`, `SilentIsReaped`,
`SettlesUnlessChanged`). The provers have no rules for fairness and ENABLED.

## 6. Plan

Every safety invariant and every action property of the passing runs is a theorem, and so are the refinements.
What would add most to that: that the environment of `Engine` (which tasks are delivered, which results arrive)
allows every behaviour that `Delivery` does, as a refinement of its own.

## 7. Not modelled

- Contents of messages and errors, the event log and `current_activity`: written, never read by the
  engine. Lists, details and health are queries.
- The clock of the parking queues: a message may leave its parking queue at any time. In `Engine` a
  pending row may look overdue at any scan; `Heartbeats` has the clock of timeouts.
- A restart of PostgreSQL: it looks to a process like a failed statement and a lost session, which
  are faults of the modules.
- A composition of `Engine` with `Dispatch` in place of its environment: `Dispatch` is shown to implement
  `Delivery`, and the environment of `Engine` is written to what `Delivery` states; that it allows no
  less is not checked. The product of the two is beyond TLC.
- The requests of `internal/client`, `cmd/tui` and `web/`: they keep a view of what the API returned.
  A list that was requested before the user changed the tab may arrive after it (cmd/tui/main.go:394);
  nothing of the system depends on it.
- `BackpressureMiddleware` reads the depth of the results queue before a start is let through
  (middleware.go:31-44): concurrent starts may all pass on the same reading. The limit is a bound on
  load and nothing relies on it.
- A task that cannot be decoded: the engine writes every task itself.
- Cron parsing: the next run is the next multiple of a period. The handler parses an expression
  before it stores it, so the scheduler's branches for unreadable ones are not reachable.
- Authentication, rate limit, CORS, configuration, logging, metrics and tracing, the clients and the
  deployment files: no behaviour of the properties depends on them.
