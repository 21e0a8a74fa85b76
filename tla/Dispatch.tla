------------------------------ MODULE Dispatch ------------------------------
(***************************************************************************)
(* The way of a task from its row in outbox_messages to the report of a    *)
(* worker: internal/engine/outbox_publisher.go, the topology and publishes *)
(* of internal/queue/rabbitmq.go, and internal/worker/worker.go with its   *)
(* semaphore, its wait group and its shutdown.                             *)
(*                                                                         *)
(* A copy is one message inside the broker; it keeps its identity while it *)
(* moves from a queue to a worker's channel and into the goroutine that    *)
(* runs it, so that an acknowledgement or a requeue concerns that copy.    *)
(* The engine is the environment: it commits tasks with their outbox row   *)
(* and closes their activity row, on a report or by a timeout.             *)
(*                                                                         *)
(* A restart of the broker loses its messages, which are transient, and    *)
(* all connections.  A process of this code connects once, when it starts. *)
(*                                                                         *)
(* Left out: the contents of messages and errors, and the clock of the     *)
(* parking queues.                                                         *)
(***************************************************************************)
EXTENDS Integers, Sequences, SequencesExt, FiniteSets

CONSTANTS
    Task,           \* activity executions; each has one task message
    Activity,       \* activity names, all of them registered by every worker
    ActivityOf,     \* ActivityOf[t]: the name of the activity t is an attempt of
    Publisher,      \* engine replicas: each runs an OutboxPublisher
    Worker,         \* worker processes
    Copy,           \* bound: messages inside the broker at a time
    Slots,          \* maxConcurrency, the capacity of the semaphore
    BatchLimit,     \* rows one poll of the outbox reads
    Known,          \* activities whose queues exist in the broker at the start
    None,           \* no task, no worker
    MaxFaults       \* bound: crashes, failed calls and shutdowns

ASSUME TaskAssumption == ActivityOf \in [Task -> Activity] /\ Known \subseteq Activity
ASSUME BoundAssumption ==
    /\ Slots \in Nat \ {0}
    /\ BatchLimit \in Nat \ {0}
    /\ MaxFaults \in Nat
    /\ None \notin Worker \cup Task
ASSUME ProcessAssumption == Publisher \cap Worker = {} /\ IsFiniteSet(Copy) /\ IsFiniteSet(Publisher)

Row     == {"NONE", "PENDING", "CLOSED", "DEAD"}
Tier    == {"now", "later", "dlq"}              \* 0, the backoff tiers, -1
Message == [task : Task, tier : Tier]

\* Where a copy is.  From "channel" on it is delivered to a worker and not yet acknowledged;
\* from "check" on a goroutine works on it.
InGoroutine == {"check", "run", "publish", "ack", "nack"}
AtWorker    == InGoroutine \cup {"channel", "spawn"}
Place       == AtWorker \cup {"free", "parked", "queue", "dlq"}
Mode        == {"down", "up", "stopping", "drained"}

VARIABLES
    row,        \* activity_executions.status of a task; CLOSED and DEAD are final
    outbox,     \* outbox_messages, by created_at
    batch,      \* rows of a publisher's last poll that it has still to handle
    sent,       \* publishers that have published the head of their batch
    declared,   \* activities whose queue and DLQ, both durable, are declared and bound
    connected,  \* processes with a live connection to the broker
    lost,       \* tasks of which the broker has dropped a message
    copy,       \* the copies: task, place, and worker
    worker,     \* per worker: mode, consumed queues, loops, semaphore, wait group, ending goroutines
    reported,   \* tasks with a report in the results queue
    starts,     \* starts[t]: how often a worker has called the handler for t
    faults      \* faults so far

vars == <<row, outbox, batch, sent, declared, connected, lost, copy, worker, reported, starts, faults>>
env  == <<row, outbox, reported, starts>>
broker == <<declared, connected, lost>>

Free == [place |-> "free", task |-> None, at |-> None]
Idle(mode, served) ==
    [mode |-> mode, consumes |-> served, loops |-> served, sem |-> 0, wg |-> 0, ending |-> 0, leaving |-> 0]
Down == Idle("down", {})

TypeOK ==
    /\ row \in [Task -> Row]
    /\ outbox \in Seq(Message)
    /\ batch \in [Publisher -> Seq(Message)]
    /\ sent \subseteq Publisher
    /\ declared \subseteq Activity
    /\ connected \subseteq Publisher \cup Worker
    /\ lost \subseteq Task
    /\ copy \in [Copy -> [place : Place, task : Task \cup {None}, at : Worker \cup {None}]]
    /\ worker \in [Worker -> [mode : Mode, consumes : SUBSET Activity, loops : SUBSET Activity,
                              sem : 0..Slots, wg : Nat, ending : Nat, leaving : Nat]]
    /\ reported \subseteq Task
    /\ starts \in [Task -> Nat]
    /\ faults \in 0..MaxFaults

Init ==
    /\ row = [t \in Task |-> "NONE"]
    /\ outbox = <<>>
    /\ batch = [p \in Publisher |-> <<>>]
    /\ sent = {}
    /\ declared = Known
    /\ connected = Publisher
    /\ lost = {}
    /\ copy = [c \in Copy |-> Free]
    /\ worker = [w \in Worker |-> Down]
    /\ reported = {}
    /\ starts = [t \in Task |-> 0]
    /\ faults = 0

Final(t) == row[t] \in {"CLOSED", "DEAD"}

Fault == faults < MaxFaults /\ faults' = faults + 1

-----------------------------------------------------------------------------
(* The engine, as the environment: every transaction that inserts a row    *)
(* inserts its message too.                                                *)

Commit(t, tier) ==
    /\ row[t] = "NONE"
    /\ row' = [row EXCEPT ![t] = "PENDING"]
    /\ outbox' = Append(outbox, [task |-> t, tier |-> tier])
    /\ UNCHANGED <<batch, sent, broker, copy, worker, reported, starts, faults>>

\* A report, or the reaper, completes or fails the row.
Close(t) ==
    /\ row[t] = "PENDING"
    /\ row' = [row EXCEPT ![t] = "CLOSED"]
    /\ UNCHANGED <<outbox, batch, sent, broker, copy, worker, reported, starts, faults>>

DeadLetter(t) ==
    /\ row[t] \in {"PENDING", "CLOSED"}
    /\ row' = [row EXCEPT ![t] = "DEAD"]
    /\ outbox' = Append(outbox, [task |-> t, tier |-> "dlq"])
    /\ UNCHANGED <<batch, sent, broker, copy, worker, reported, starts, faults>>

-----------------------------------------------------------------------------
(* processOutbox.                                                          *)

\* GetPendingOutboxMessages: no lock is taken, so two publishers may read the same rows.
Poll(p) ==
    /\ batch[p] = <<>>
    /\ outbox # <<>>
    /\ batch' = [batch EXCEPT ![p] =
                    SubSeq(outbox, 1, IF Len(outbox) < BatchLimit THEN Len(outbox) ELSE BatchLimit)]
    /\ UNCHANGED <<env, sent, broker, copy, worker, faults>>

\* Mutant of Routed: dead letters go to the workflow exchange.
RoutedToWorkers(tier) == IF tier = "later" THEN "parked" ELSE "queue"

\* The broker puts a message into the queue that is bound, and drops it if there is none:
\* mandatory is false, so the publisher is not told.
Routed(tier) == CASE tier = "now" -> "queue" [] tier = "later" -> "parked" [] tier = "dlq" -> "dlq"
Bound(m) == m.tier = "later" \/ ActivityOf[m.task] \in declared
Enqueue(m) ==
    IF Bound(m)
    THEN /\ \E c \in Copy :
              /\ copy[c] = Free
              /\ copy' = [copy EXCEPT ![c] = [place |-> Routed(m.tier), task |-> m.task, at |-> None]]
         /\ UNCHANGED lost
    ELSE lost' = lost \cup {m.task} /\ UNCHANGED copy

\* Publishes are not confirmed: that the message is on its way is all the publisher knows.
Publish(p) ==
    /\ batch[p] # <<>>
    /\ p \in connected \ sent
    /\ Enqueue(Head(batch[p]))
    /\ sent' = sent \cup {p}
    /\ UNCHANGED <<env, batch, declared, connected, worker, faults>>

\* A call over the broker's connection fails now and then, and always once it is closed.
CallFails(process) == IF process \in connected THEN Fault ELSE UNCHANGED faults

\* The row stays for the next poll.
PublishFails(p) ==
    /\ CallFails(p)
    /\ batch[p] # <<>>
    /\ p \notin sent
    /\ batch' = [batch EXCEPT ![p] = Tail(@)]
    /\ UNCHANGED <<env, sent, broker, copy, worker>>

\* Mutant of Delete: the row stays in the outbox.
DeleteLocally(p) ==
    /\ p \in sent
    /\ batch' = [batch EXCEPT ![p] = Tail(@)]
    /\ sent' = sent \ {p}
    /\ UNCHANGED <<row, outbox, broker, copy, worker, reported, starts, faults>>

\* By the id of the row; a publisher that comes second deletes nothing and is not told.
DeleteRow(m) ==
    \/ \E i \in 1..Len(outbox) : outbox[i] = m /\ outbox' = RemoveAt(outbox, i)
    \/ (\A i \in 1..Len(outbox) : outbox[i] # m) /\ UNCHANGED outbox

Delete(p) ==
    /\ p \in sent
    /\ DeleteRow(Head(batch[p]))
    /\ batch' = [batch EXCEPT ![p] = Tail(@)]
    /\ sent' = sent \ {p}
    /\ UNCHANGED <<row, broker, copy, worker, reported, starts, faults>>

DeleteFails(p) ==
    /\ Fault
    /\ p \in sent
    /\ batch' = [batch EXCEPT ![p] = Tail(@)]
    /\ sent' = sent \ {p}
    /\ UNCHANGED <<env, broker, copy, worker>>

\* The process that replaces it connects anew.
PublisherCrash(p) ==
    /\ Fault
    /\ batch[p] # <<>> \/ p \notin connected
    /\ batch' = [batch EXCEPT ![p] = <<>>]
    /\ sent' = sent \ {p}
    /\ connected' = connected \cup {p}
    /\ UNCHANGED <<env, declared, lost, copy, worker>>

-----------------------------------------------------------------------------
(* The broker.                                                             *)

MoveCopy(c, place) == copy' = [copy EXCEPT ![c].place = place]

\* A copy that its worker gives back, or loses with its connection, is queued again; the broker
\* that delivered it before a restart has forgotten it.
Requeued(c) == IF copy[c].at \in connected THEN [place |-> "queue", task |-> copy[c].task, at |-> None] ELSE Free

\* The TTL of a parking queue: the message goes to the workflow exchange under its old key.
Expire(c) ==
    /\ copy[c].place = "parked"
    /\ IF ActivityOf[copy[c].task] \in declared
       THEN MoveCopy(c, "queue") /\ UNCHANGED lost
       ELSE copy' = [copy EXCEPT ![c] = Free] /\ lost' = lost \cup {copy[c].task}
    /\ UNCHANGED <<env, batch, sent, declared, connected, worker, faults>>

\* There is no prefetch limit: the broker sends what it has to any consumer, busy or not.
Deliver(c, w) ==
    /\ copy[c].place = "queue"
    /\ w \in connected
    /\ ActivityOf[copy[c].task] \in worker[w].consumes
    /\ copy' = [copy EXCEPT ![c] = [place |-> "channel", task |-> copy[c].task, at |-> w]]
    /\ UNCHANGED <<env, batch, sent, broker, worker, faults>>

\* Queues and bindings survive, messages and connections do not.  A message that was published
\* just now, and a report that nobody has handled, go with the others.
BrokerRestart ==
    /\ Fault
    /\ connected' = {}
    /\ copy' = [c \in Copy |-> IF copy[c].at = None THEN Free ELSE copy[c]]
    /\ reported' = {t \in reported : Final(t)}
    /\ lost' = lost \cup {t \in Task : \/ \E c \in Copy : copy[c].task = t
                                       \/ \E p \in sent : Head(batch[p]).task = t
                                       \/ t \in reported}
    /\ UNCHANGED <<row, outbox, starts, batch, sent, declared, worker>>

-----------------------------------------------------------------------------
(* The worker's loops and goroutines.                                      *)

Up(served) == Idle("up", served)

\* Start: declare each activity's queues and consume.
Start(w) ==
    /\ worker[w].mode = "down"
    /\ declared' = Activity
    /\ connected' = connected \cup {w}
    /\ worker' = [worker EXCEPT ![w] = Up(Activity)]
    /\ UNCHANGED <<env, batch, sent, lost, copy, faults>>

\* The error of the declaration is dropped, that of the consumption is logged: the worker runs
\* without a loop for the activity and never tries again.
StartPartly(w) ==
    /\ Fault
    /\ worker[w].mode = "down"
    /\ \E served \in SUBSET Activity \ {Activity}, registered \in SUBSET Activity :
          /\ served \subseteq registered
          /\ declared' = declared \cup registered
          /\ worker' = [worker EXCEPT ![w] = Up(served)]
    /\ connected' = connected \cup {w}
    /\ UNCHANGED <<env, batch, sent, lost, copy>>

\* Mutant of Acquire: the semaphore is not acquired.
AcquireUncounted(c, w) ==
    /\ copy[c].at = w /\ copy[c].place = "channel"
    /\ ActivityOf[copy[c].task] \in worker[w].loops
    /\ MoveCopy(c, "spawn")
    /\ UNCHANGED <<env, batch, sent, broker, worker, faults>>

\* Mutant of Acquire: the semaphore has no capacity.
AcquireUnlimited(c, w) ==
    /\ copy[c].at = w /\ copy[c].place = "channel"
    /\ ActivityOf[copy[c].task] \in worker[w].loops
    /\ worker' = [worker EXCEPT ![w].sem = @ + 1]
    /\ MoveCopy(c, "spawn")
    /\ UNCHANGED <<env, batch, sent, broker, faults>>

\* The loop of the activity receives a delivery and gets a slot of the semaphore; when the
\* context is done, both selects may still choose that case.
Acquire(c, w) ==
    /\ copy[c].at = w /\ copy[c].place = "channel"
    /\ ActivityOf[copy[c].task] \in worker[w].loops
    /\ \A d \in Copy : copy[d].at = w /\ copy[d].place = "spawn"
                          => ActivityOf[copy[d].task] # ActivityOf[copy[c].task]
    /\ worker[w].sem < Slots
    /\ worker' = [worker EXCEPT ![w].sem = @ + 1]
    /\ MoveCopy(c, "spawn")
    /\ UNCHANGED <<env, batch, sent, broker, faults>>

Spawn(c, w) ==
    /\ copy[c].at = w /\ copy[c].place = "spawn"
    /\ worker' = [worker EXCEPT ![w].wg = @ + 1]
    /\ MoveCopy(c, "check")
    /\ UNCHANGED <<env, batch, sent, broker, faults>>

\* The deduplication check: the row of the task, read once, outside any transaction.
CheckDuplicate(c, w) ==
    /\ copy[c].at = w /\ copy[c].place = "check"
    /\ worker[w].mode = "up"
    /\ IF Final(copy[c].task)
       THEN MoveCopy(c, "ack") /\ UNCHANGED starts
       ELSE MoveCopy(c, "run") /\ starts' = [starts EXCEPT ![copy[c].task] = @ + 1]
    /\ UNCHANGED <<row, outbox, reported, batch, sent, broker, worker, faults>>

\* A failed read counts as "not a duplicate"; so does a read under a cancelled context.
CheckFails(c, w) ==
    /\ copy[c].at = w /\ copy[c].place = "check"
    /\ IF worker[w].mode = "up" THEN Fault ELSE UNCHANGED faults
    /\ MoveCopy(c, "run")
    /\ starts' = [starts EXCEPT ![copy[c].task] = @ + 1]
    /\ UNCHANGED <<row, outbox, reported, batch, sent, broker, worker>>

HandlerReturns(c, w) ==
    /\ copy[c].at = w /\ copy[c].place = "run"
    /\ MoveCopy(c, "publish")
    /\ UNCHANGED <<env, batch, sent, broker, worker, faults>>

PublishResult(c, w) ==
    /\ copy[c].at = w /\ copy[c].place = "publish"
    /\ w \in connected
    /\ reported' = reported \cup {copy[c].task}
    /\ MoveCopy(c, "ack")
    /\ UNCHANGED <<row, outbox, starts, batch, sent, broker, worker, faults>>

PublishResultFails(c, w) ==
    /\ CallFails(w)
    /\ copy[c].at = w /\ copy[c].place = "publish"
    /\ MoveCopy(c, "nack")
    /\ UNCHANGED <<env, batch, sent, broker, worker>>

\* Mutant of Acknowledge: a task whose report was not published is acknowledged as well.
AcknowledgeAlways(c, w) ==
    /\ copy[c].at = w /\ copy[c].place \in {"ack", "nack"}
    /\ copy' = [copy EXCEPT ![c] = Free]
    /\ worker' = [worker EXCEPT ![w].ending = @ + 1]
    /\ UNCHANGED <<env, batch, sent, broker, faults>>

Acknowledge(c, w) ==
    /\ copy[c].at = w
    /\ \/ copy[c].place = "ack" /\ copy' = [copy EXCEPT ![c] = Free]
       \/ copy[c].place = "nack" /\ copy' = [copy EXCEPT ![c] = Requeued(c)]
    /\ worker' = [worker EXCEPT ![w].ending = @ + 1]
    /\ UNCHANGED <<env, batch, sent, broker, faults>>

\* The deferred calls of a goroutine, last one first: the semaphore, then the wait group.
ReleaseSlot(w) ==
    /\ worker[w].ending > 0
    /\ worker' = [worker EXCEPT ![w].ending = @ - 1, ![w].leaving = @ + 1, ![w].sem = @ - 1]
    /\ UNCHANGED <<env, batch, sent, broker, copy, faults>>

LeaveGroup(w) ==
    /\ worker[w].leaving > 0
    /\ worker' = [worker EXCEPT ![w].leaving = @ - 1, ![w].wg = @ - 1]
    /\ UNCHANGED <<env, batch, sent, broker, copy, faults>>

-----------------------------------------------------------------------------
(* Shutdown and crashes.                                                   *)

\* SIGTERM: main cancels the context and calls Shutdown, which waits for the wait group.
Stop(w) ==
    /\ Fault
    /\ worker[w].mode = "up"
    /\ worker' = [worker EXCEPT ![w].mode = "stopping"]
    /\ UNCHANGED <<env, batch, sent, broker, copy>>

\* A loop sees the cancelled context while it waits for a delivery, or that its channel is
\* closed: what the client library had in its buffer for it is then dropped ...
LoopEnds(w, a) ==
    /\ worker[w].mode \in {"stopping", "drained"} \/ w \notin connected
    /\ a \in worker[w].loops
    /\ ~\E c \in Copy : copy[c].at = w /\ copy[c].place = "spawn" /\ ActivityOf[copy[c].task] = a
    /\ worker' = [worker EXCEPT ![w].loops = @ \ {a}]
    /\ copy' = [c \in Copy |-> IF /\ copy[c].at = w /\ copy[c].place = "channel"
                                  /\ ActivityOf[copy[c].task] = a /\ w \notin connected
                               THEN Free ELSE copy[c]]
    /\ UNCHANGED <<env, batch, sent, broker, faults>>

\* ... or while it waits for a slot with a delivery in its hand, which it gives back.
LoopReturnsDelivery(w, c) ==
    /\ worker[w].mode \in {"stopping", "drained"}
    /\ copy[c].at = w /\ copy[c].place = "channel"
    /\ ActivityOf[copy[c].task] \in worker[w].loops
    /\ ~\E d \in Copy : /\ copy[d].at = w /\ copy[d].place = "spawn"
                        /\ ActivityOf[copy[d].task] = ActivityOf[copy[c].task]
    /\ copy' = [copy EXCEPT ![c] = Requeued(c)]
    /\ worker' = [worker EXCEPT ![w].loops = @ \ {ActivityOf[copy[c].task]}]
    /\ UNCHANGED <<env, batch, sent, broker, faults>>

\* "Worker drained successfully".
Drained(w) ==
    /\ worker[w].mode = "stopping"
    /\ worker[w].wg = 0
    /\ worker' = [worker EXCEPT ![w].mode = "drained"]
    /\ UNCHANGED <<env, batch, sent, broker, copy, faults>>

\* Mutant of Gone: what the process had in hand counts as handled.
GoneWithCopies(w) ==
    /\ copy' = [c \in Copy |-> IF copy[c].at = w THEN Free ELSE copy[c]]
    /\ worker' = [worker EXCEPT ![w] = Down]
    /\ connected' = connected \ {w}
    /\ UNCHANGED <<env, batch, sent, declared, lost>>

\* The process is gone: the broker requeues what it had not acknowledged.
Gone(w) ==
    /\ copy' = [c \in Copy |-> IF copy[c].at = w THEN Requeued(c) ELSE copy[c]]
    /\ worker' = [worker EXCEPT ![w] = Down]
    /\ connected' = connected \ {w}
    /\ UNCHANGED <<env, batch, sent, declared, lost>>

\* main returns: after draining, or when the shutdown context expires.
Exit(w) == worker[w].mode \in {"stopping", "drained"} /\ Gone(w) /\ UNCHANGED faults

WorkerCrash(w) == Fault /\ worker[w].mode # "down" /\ Gone(w)

-----------------------------------------------------------------------------
Commits(t)     == (\E tier \in {"now", "later"} : Commit(t, tier)) \/ Close(t) \/ DeadLetter(t)
Publishing(p)  == Poll(p) \/ Publish(p) \/ Delete(p)
PublishFaults(p) == PublishFails(p) \/ DeleteFails(p) \/ PublisherCrash(p)
Goroutine(c, w) ==
    \/ Spawn(c, w) \/ CheckDuplicate(c, w) \/ CheckFails(c, w) \/ HandlerReturns(c, w)
    \/ PublishResult(c, w) \/ PublishResultFails(c, w) \/ Acknowledge(c, w)
Process(w)     == ReleaseSlot(w) \/ LeaveGroup(w) \/ Drained(w) \/ Exit(w)

Next ==
    \/ \E t \in Task : Commits(t)
    \/ \E p \in Publisher : Publishing(p) \/ PublishFaults(p)
    \/ BrokerRestart
    \/ \E c \in Copy : Expire(c)
    \/ \E c \in Copy, w \in Worker :
          Deliver(c, w) \/ Acquire(c, w) \/ Goroutine(c, w) \/ LoopReturnsDelivery(w, c)
    \/ \E w \in Worker, a \in Activity : LoopEnds(w, a)
    \/ \E w \in Worker : Start(w) \/ StartPartly(w) \/ Process(w) \/ Stop(w) \/ WorkerCrash(w)

Spec == Init /\ [][Next]_vars

-----------------------------------------------------------------------------
(* Safety.                                                                 *)

At(w, places) == {c \in Copy : copy[c].at = w /\ copy[c].place \in places}

\* Backpressure: however deliveries, failures and shutdown interleave, a worker never has
\* more than Slots tasks in its goroutines, and every slot and every count of the wait group
\* belongs to a goroutine that will give it back (worker.go, the semaphore and wg).
SlotsAccounted ==
    \A w \in Worker :
        LET n == Cardinality(At(w, InGoroutine)) IN
        /\ n <= Slots
        /\ worker[w].sem = n + Cardinality(At(w, {"spawn"})) + worker[w].ending
        /\ worker[w].wg = n + worker[w].ending + worker[w].leaving

\* A task is executed again for a cause: each publisher may publish it once, each publisher's
\* fault once more, and each fault of a worker may repeat every copy.  Without faults and
\* with one publisher a task runs at most once.
DuplicatesHaveCause ==
    \A t \in Task : starts[t] <= (Cardinality(Publisher) + faults) * (1 + faults)

\* A dead letter stays until an operator looks at it: it is in the outbox until it is in the
\* activity's DLQ, which nobody consumes, or the broker has dropped it.
DeadLettersKept ==
    \A t \in Task : row[t] = "DEAD" =>
        \/ \E i \in 1..Len(outbox) : outbox[i] = [task |-> t, tier |-> "dlq"]
        \/ \E c \in Copy : copy[c].place = "dlq" /\ copy[c].task = t
        \/ t \in lost

\* The outbox row, a publisher that has read it, or a copy carries the task, if the copy is
\* outside the DLQ and known to the broker.
Holds(messages, t) == \E i \in 1..Len(messages) : messages[i].task = t /\ messages[i].tier # "dlq"
Carried ==
    {t \in Task :
        \/ Holds(outbox, t)
        \/ \E p \in Publisher : Holds(batch[p], t)
        \/ \E c \in Copy : /\ copy[c].task = t /\ copy[c].place # "dlq"
                          /\ copy[c].at \in connected \cup {None}}

D == INSTANCE Delivery WITH
        open     <- {t \in Task : row[t] = "PENDING"},
        closed   <- {t \in Task : Final(t)},
        carried  <- Carried,
        answered <- reported,
        lost     <- lost

\* Publishers, broker and workers deliver at least once: a task disappears only when a
\* report was published, its row was closed or the broker dropped a message of it, through
\* crashes of publishers and workers, failed calls, requeues, shutdowns and broker restarts.
DeliversAtLeastOnce == D!Spec

-----------------------------------------------------------------------------
(* Progress.                                                               *)

\* The publisher's ticker never stops; the broker sends what it holds to a consumer; the
\* semaphore's waiters are served in order; handlers of activities return; a process that
\* was stopped ends after its 10 seconds and is started again.
Fairness ==
    /\ \A p \in Publisher : WF_vars(Poll(p)) /\ SF_vars(Publish(p)) /\ WF_vars(Delete(p))
    /\ \A c \in Copy :
          /\ WF_vars(Expire(c))
          /\ WF_vars(\E w \in Worker : Deliver(c, w))
          /\ \A w \in Worker : SF_vars(Acquire(c, w)) /\ WF_vars(Goroutine(c, w))
    /\ \A w \in Worker : /\ WF_vars(Start(w)) /\ WF_vars(ReleaseSlot(w))
                         /\ WF_vars(LeaveGroup(w)) /\ WF_vars(Exit(w))

FairSpec == Spec /\ Fairness

\* A worker that could not consume the queue, or has lost its connection, and nobody restarts.
Deaf(t) == \E w \in Worker : /\ worker[w].mode = "up"
                              /\ ~(ActivityOf[t] \in worker[w].consumes /\ w \in connected)
Cut == \E p \in Publisher : p \notin connected

\* Every committed task is reported in the end, unless its row was closed before, the broker
\* has dropped a message of it, or a process runs that cannot reach it and is not restarted.
\* After a restart of the broker, what is still in the outbox is reported as soon as
\* the processes have been replaced.
EventuallyReported ==
    \A t \in Task :
        row[t] = "PENDING" ~> (t \in reported \/ Final(t) \/ t \in lost \/ Deaf(t) \/ Cut)

=============================================================================
