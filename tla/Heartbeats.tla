----------------------------- MODULE Heartbeats -----------------------------
(***************************************************************************)
(* The timeout of an activity: heartbeats of internal/worker/worker.go,    *)
(* the heartbeat consumers and the scan of internal/engine/reaper.go, and  *)
(* RecordHeartbeat of internal/repository/execution_repo.go.               *)
(*                                                                         *)
(* last_heartbeat_at is modelled by its age, which one step of the clock   *)
(* increases.  A task is one attempt; Engine says what follows when its    *)
(* row fails, here the report of a failure is one step.  A task waits in   *)
(* its queue for as long as it likes, and its activity may fall silent.    *)
(***************************************************************************)
EXTENDS Integers

CONSTANTS
    Task,           \* activity executions
    Replica,        \* engine replicas: each runs a heartbeat consumer and a reaper
    Timeout,        \* timeoutDuration, in ticks
    BeatEvery,      \* a working activity calls Heartbeat at least this often
    Delay,          \* a heartbeat is recorded within this time while anybody consumes
    Nobody,         \* advisory lock 2000 is free
    MaxFaults       \* bound: crashes, lost sessions and channels, failed calls

\* What an activity and its deployment have to keep to for the fixed timeout.
ASSUME TimeAssumption ==
    /\ {Timeout, BeatEvery, Delay} \subseteq Nat
    /\ BeatEvery + Delay <= Timeout
ASSUME FaultAssumption == MaxFaults \in Nat /\ Nobody \notin Replica

Row      == {"NONE", "PENDING", "COMPLETED", "FAILED"}
Run      == {"waiting", "running", "silent", "succeeded", "failed", "done"}
Location == {"idle", "locked", "reap", "unlock"}

VARIABLES
    row,            \* activity_executions.status
    age,            \* the age of last_heartbeat_at, up to just more than Timeout
    run,            \* the task's message, and then its activity
    quiet,          \* time since the activity began or beat
    beats,          \* ages of the task's heartbeats in the heartbeat queue
    late,           \* tasks for which a heartbeat was due that did not come in time
    consuming,      \* replicas whose heartbeat consumer runs
    lock,           \* who holds advisory lock 2000 in the server
    pc,             \* where a replica's reaper is
    todo,           \* what is left of its snapshot
    faults          \* faults so far

clocks == <<age, quiet, beats>>
reaper == <<lock, pc, todo>>
vars   == <<row, age, run, quiet, beats, late, consuming, lock, pc, todo, faults>>

TypeOK ==
    /\ row \in [Task -> Row]
    /\ age \in [Task -> 0..Timeout + 1]
    /\ run \in [Task -> Run]
    /\ quiet \in [Task -> 0..BeatEvery]
    /\ beats \in [Task -> SUBSET (0..Delay)]
    /\ late \subseteq Task
    /\ consuming \subseteq Replica
    /\ lock \in Replica \cup {Nobody}
    /\ pc \in [Replica -> Location]
    /\ todo \in [Replica -> SUBSET Task]
    /\ faults \in 0..MaxFaults

Init ==
    /\ row = [t \in Task |-> "NONE"]
    /\ age = [t \in Task |-> 0]
    /\ run = [t \in Task |-> "waiting"]
    /\ quiet = [t \in Task |-> 0]
    /\ beats = [t \in Task |-> {}]
    /\ late = {}
    /\ consuming = Replica
    /\ lock = Nobody
    /\ pc = [r \in Replica |-> "idle"]
    /\ todo = [r \in Replica |-> {}]
    /\ faults = 0

Fault == faults < MaxFaults /\ faults' = faults + 1

-----------------------------------------------------------------------------
(* Tasks and their activities.                                             *)

\* Every INSERT sets last_heartbeat_at: the time in the outbox and the queue counts.
InsertActivity(t) ==
    /\ row[t] = "NONE"
    /\ row' = [row EXCEPT ![t] = "PENDING"]
    /\ age' = [age EXCEPT ![t] = 0]
    /\ UNCHANGED <<run, quiet, beats, late, consuming, reaper, faults>>

\* The worker skips a task whose row is final.  One that waited for too long may be reaped
\* before its first heartbeat can be recorded.
Start(t) ==
    /\ run[t] = "waiting"
    /\ row[t] # "NONE"
    /\ run' = [run EXCEPT ![t] = IF row[t] = "PENDING" THEN "running" ELSE "done"]
    /\ quiet' = [quiet EXCEPT ![t] = 0]
    /\ late' = IF age[t] + BeatEvery + Delay > Timeout THEN late \cup {t} ELSE late
    /\ UNCHANGED <<row, age, beats, consuming, reaper, faults>>

Heartbeat(t) ==
    /\ run[t] = "running"
    /\ quiet' = [quiet EXCEPT ![t] = 0]
    /\ beats' = [beats EXCEPT ![t] = @ \cup {0}]
    /\ UNCHANGED <<row, age, run, late, consuming, reaper, faults>>

\* The activity hangs, or is one that does not call Heartbeat.
FallSilent(t) ==
    /\ run[t] = "running"
    /\ run' = [run EXCEPT ![t] = "silent"]
    /\ UNCHANGED <<row, clocks, late, consuming, reaper, faults>>

Return(t, outcome) ==
    /\ run[t] \in {"running", "silent"}
    /\ run' = [run EXCEPT ![t] = outcome]
    /\ UNCHANGED <<row, clocks, late, consuming, reaper, faults>>

\* ReportActivityFailure ignores a failed row, ReportActivitySuccess a completed one.
Report(t) ==
    /\ run[t] \in {"succeeded", "failed"}
    /\ row' = [row EXCEPT ![t] = IF run[t] = "succeeded" THEN "COMPLETED" ELSE "FAILED"]
    /\ run' = [run EXCEPT ![t] = "done"]
    /\ UNCHANGED <<clocks, late, consuming, reaper, faults>>

\* The broker gives the task to another worker.
WorkerCrash(t) ==
    /\ Fault
    /\ run[t] \in {"running", "silent"}
    /\ run' = [run EXCEPT ![t] = "waiting"]
    /\ UNCHANGED <<row, clocks, late, consuming, reaper>>

-----------------------------------------------------------------------------
(* consumeHeartbeats.                                                      *)

\* Mutant of Record: the heartbeat is stamped ahead of the clock that thresholdTime is taken from.
RecordAhead(r, t, m) ==
    /\ r \in consuming
    /\ m \in beats[t]
    /\ beats' = [beats EXCEPT ![t] = @ \ {m}]
    /\ age' = [age EXCEPT ![t] = IF row[t] = "PENDING" THEN -1 ELSE @]
    /\ UNCHANGED <<row, run, quiet, late, consuming, reaper, faults>>

\* last_heartbeat_at is the time of recording, not that of the heartbeat.
Record(r, t, m) ==
    /\ r \in consuming
    /\ m \in beats[t]
    /\ beats' = [beats EXCEPT ![t] = @ \ {m}]
    /\ age' = [age EXCEPT ![t] = IF row[t] = "PENDING" THEN 0 ELSE @]
    /\ UNCHANGED <<row, run, quiet, late, consuming, reaper, faults>>

\* A failed publish, or a failed statement: the consumer acknowledges all the same.
LoseHeartbeat(t, m) ==
    /\ Fault
    /\ m \in beats[t]
    /\ beats' = [beats EXCEPT ![t] = @ \ {m}]
    /\ late' = late \cup {t}
    /\ UNCHANGED <<row, age, run, quiet, consuming, reaper>>

\* The channel is closed: the loop returns, and the process does not consume again.
ConsumerEnds(r) ==
    /\ Fault
    /\ r \in consuming
    /\ consuming' = consuming \ {r}
    /\ UNCHANGED <<row, clocks, run, late, reaper>>

-----------------------------------------------------------------------------
(* reapTimeouts.                                                           *)

Goto(r, l) == pc' = [pc EXCEPT ![r] = l]

\* pg_try_advisory_lock; a replica that does not get it waits for its next tick.
TryLock(r) ==
    /\ pc[r] = "idle"
    /\ lock = Nobody
    /\ lock' = r
    /\ Goto(r, "locked")
    /\ UNCHANGED <<row, clocks, run, late, consuming, todo, faults>>

\* Mutant of Overdue: last_heartbeat_at <= thresholdTime.
OverdueEarly(t) == row[t] = "PENDING" /\ age[t] >= Timeout

\* last_heartbeat_at < thresholdTime.
Overdue(t) == row[t] = "PENDING" /\ age[t] > Timeout

Snapshot(r) ==
    /\ pc[r] = "locked"
    /\ todo' = [todo EXCEPT ![r] = {t \in Task : Overdue(t)}]
    /\ Goto(r, "reap")
    /\ UNCHANGED <<row, clocks, run, late, consuming, lock, faults>>

SnapshotFails(r) ==
    /\ Fault
    /\ pc[r] = "locked"
    /\ Goto(r, "unlock")
    /\ UNCHANGED <<row, clocks, run, late, consuming, lock, todo>>

\* A row that has completed since the snapshot, or has had a heartbeat, is failed as well.
ReapNext(r, t) ==
    /\ pc[r] = "reap"
    /\ t \in todo[r]
    /\ row' = [row EXCEPT ![t] = "FAILED"]
    /\ todo' = [todo EXCEPT ![r] = @ \ {t}]
    /\ UNCHANGED <<clocks, run, late, consuming, lock, pc, faults>>

ReapFails(r, t) ==
    /\ Fault
    /\ pc[r] = "reap"
    /\ t \in todo[r]
    /\ todo' = [todo EXCEPT ![r] = @ \ {t}]
    /\ UNCHANGED <<row, clocks, run, late, consuming, lock, pc>>

\* Mutant of Unlock: the deferred unlock is missing.
UnlockMissing(r) ==
    /\ pc[r] = "unlock" \/ (pc[r] = "reap" /\ todo[r] = {})
    /\ Goto(r, "idle")
    /\ UNCHANGED <<row, clocks, run, late, consuming, lock, todo, faults>>

Unlock(r) ==
    /\ pc[r] = "unlock" \/ (pc[r] = "reap" /\ todo[r] = {})
    /\ lock' = IF lock = r THEN Nobody ELSE lock
    /\ Goto(r, "idle")
    /\ UNCHANGED <<row, clocks, run, late, consuming, todo, faults>>

\* The reaper's connection breaks: the server releases the lock.  The query fails without
\* it, the loop over the snapshot does not need it.
SessionLost(r) ==
    /\ Fault
    /\ lock = r
    /\ lock' = Nobody
    /\ IF pc[r] = "locked" THEN Goto(r, "idle") ELSE UNCHANGED pc
    /\ UNCHANGED <<row, clocks, run, late, consuming, todo>>

\* The process that replaces it connects anew.
ReplicaCrash(r) ==
    /\ Fault
    /\ lock' = IF lock = r THEN Nobody ELSE lock
    /\ Goto(r, "idle")
    /\ todo' = [todo EXCEPT ![r] = {}]
    /\ consuming' = consuming \cup {r}
    /\ UNCHANGED <<row, clocks, run, late>>

-----------------------------------------------------------------------------
(* The clock: activities beat in time and heartbeats are recorded in time, *)
(* as long as anybody consumes them.                                       *)

Older(n, most) == IF n < most THEN n + 1 ELSE most

Tick ==
    /\ \A t \in Task : run[t] = "running" => quiet[t] < BeatEvery
    /\ consuming # {} => \A t \in Task : Delay \notin beats[t]
    /\ age' = [t \in Task |-> IF row[t] = "PENDING" THEN Older(age[t], Timeout + 1) ELSE age[t]]
    /\ quiet' = [t \in Task |-> IF run[t] = "running" THEN quiet[t] + 1 ELSE quiet[t]]
    /\ beats' = [t \in Task |-> {Older(m, Delay) : m \in beats[t]}]
    /\ late' = late \cup {t \in Task : Delay \in beats[t]}
    /\ UNCHANGED <<row, run, consuming, reaper, faults>>

-----------------------------------------------------------------------------
Working(t) ==
    \/ InsertActivity(t) \/ Start(t) \/ Heartbeat(t) \/ FallSilent(t)
    \/ \E outcome \in {"succeeded", "failed"} : Return(t, outcome)
    \/ Report(t) \/ WorkerCrash(t)
Reaping(r) ==
    \/ TryLock(r) \/ Snapshot(r) \/ SnapshotFails(r) \/ Unlock(r) \/ SessionLost(r)
    \/ \E t \in Task : ReapNext(r, t) \/ ReapFails(r, t)

Next ==
    \/ \E t \in Task : Working(t)
    \/ \E r \in Replica, t \in Task, m \in 0..Delay : Record(r, t, m)
    \/ \E t \in Task, m \in 0..Delay : LoseHeartbeat(t, m)
    \/ \E r \in Replica : Reaping(r) \/ ConsumerEnds(r) \/ ReplicaCrash(r)
    \/ Tick

Spec == Init /\ [][Next]_vars

-----------------------------------------------------------------------------
\* A working activity that was taken up early enough, and of which no heartbeat is lost or left
\* in the queue, is never in a snapshot: neither the wait for the consumer, nor heartbeats that are
\* recorded out of order or by several replicas, nor a former holder's stale snapshot makes
\* the reaper time it out (worker.go's Heartbeat against reaper.go's threshold).
PunctualNotReaped ==
    \A r \in Replica : \A t \in todo[r] : run[t] = "running" => t \in late

\* Time passes; activities that are not silent beat; reports and the heartbeats that are due are
\* consumed; the tickers of the replicas go on.
Fairness ==
    /\ WF_vars(Tick)
    /\ \A t \in Task :
          /\ WF_vars(Heartbeat(t)) /\ WF_vars(Report(t))
          /\ WF_vars(\E r \in Replica : Record(r, t, Delay))
    /\ WF_vars(\E r \in Replica : TryLock(r))
    /\ \A r \in Replica :
          WF_vars(Snapshot(r)) /\ WF_vars(Unlock(r)) /\ WF_vars(\E t \in Task : ReapNext(r, t))

FairSpec == Spec /\ Fairness

\* An activity that stays silent does not keep its row open for ever, whatever becomes of the
\* replica that scans, of its session and of the heartbeat consumers.
SilentIsReaped ==
    \A t \in Task : row[t] = "PENDING" /\ run[t] = "silent" ~> row[t] # "PENDING" \/ run[t] # "silent"
=============================================================================
