-------------------------- MODULE HeartbeatProofs --------------------------
(***************************************************************************)
(* A working activity is not timed out, for every timeout, every interval  *)
(* of heartbeats and every delay in recording them that fit together, any  *)
(* number of replicas and any number of faults.                            *)
(***************************************************************************)
EXTENDS Heartbeats, TLAPS

-----------------------------------------------------------------------------
(* Types.                                                                  *)

LEMMA TypeInit == Init => TypeOK
  BY TimeAssumption, FaultAssumption
  DEF Init, TypeOK, Row, Run, Location, TimeAssumption, FaultAssumption

LEMMA TypeWorking ==
  ASSUME TypeOK, NEW t \in Task, Working(t)
  PROVE  TypeOK'
<1>0. {Timeout, BeatEvery, Delay, MaxFaults} \subseteq Nat
  BY TimeAssumption, FaultAssumption DEF TimeAssumption, FaultAssumption
<1>1. CASE InsertActivity(t)
  BY <1>0, <1>1 DEF TypeOK, InsertActivity, Row, Run, reaper
<1>2. CASE Start(t)
  BY <1>0, <1>2 DEF TypeOK, Start, Row, Run, reaper
<1>3. CASE Heartbeat(t)
  BY <1>0, <1>3 DEF TypeOK, Heartbeat, Row, Run, reaper
<1>4. CASE FallSilent(t)
  BY <1>0, <1>4 DEF TypeOK, FallSilent, Row, Run, reaper, clocks
<1>5. ASSUME NEW outcome \in {"succeeded", "failed"}, Return(t, outcome)
      PROVE  TypeOK'
  BY <1>0, <1>5 DEF TypeOK, Return, Row, Run, reaper, clocks
<1>6. CASE Report(t)
  BY <1>0, <1>6 DEF TypeOK, Report, Row, Run, reaper, clocks
<1>7. CASE WorkerCrash(t)
  BY <1>0, <1>7 DEF TypeOK, WorkerCrash, Fault, Row, Run, reaper, clocks
<1>8. QED
  BY <1>1, <1>2, <1>3, <1>4, <1>5, <1>6, <1>7 DEF Working

LEMMA TypeBeats ==
  ASSUME TypeOK, NEW t \in Task, NEW m \in 0..Delay,
         LoseHeartbeat(t, m) \/ \E r \in Replica : Record(r, t, m)
  PROVE  TypeOK'
<1>0. {Timeout, BeatEvery, Delay, MaxFaults} \subseteq Nat
  BY TimeAssumption, FaultAssumption DEF TimeAssumption, FaultAssumption
<1>1. CASE LoseHeartbeat(t, m)
  BY <1>0, <1>1 DEF TypeOK, LoseHeartbeat, Fault, reaper
<1>2. CASE \E r \in Replica : Record(r, t, m)
  BY <1>0, <1>2 DEF TypeOK, Record, reaper
<1>3. QED
  BY <1>1, <1>2

LEMMA TypeReaping ==
  ASSUME TypeOK, NEW r \in Replica, Reaping(r) \/ ConsumerEnds(r) \/ ReplicaCrash(r)
  PROVE  TypeOK'
<1>0. MaxFaults \in Nat /\ Location = {"idle", "locked", "reap", "unlock"}
  BY FaultAssumption DEF FaultAssumption, Location
<1>1. CASE TryLock(r)
  BY <1>0, <1>1 DEF TypeOK, TryLock, Goto, clocks
<1>2. CASE Snapshot(r)
  BY <1>0, <1>2 DEF TypeOK, Snapshot, Goto, clocks
<1>3. CASE SnapshotFails(r)
  BY <1>0, <1>3 DEF TypeOK, SnapshotFails, Fault, Goto, clocks
<1>4. CASE Unlock(r)
  BY <1>0, <1>4 DEF TypeOK, Unlock, Goto, clocks
<1>5. CASE SessionLost(r)
  BY <1>0, <1>5 DEF TypeOK, SessionLost, Fault, Goto, clocks
<1>6. ASSUME NEW t \in Task, ReapNext(r, t)
      PROVE  TypeOK'
  BY <1>0, <1>6 DEF TypeOK, ReapNext, Row, clocks
<1>7. ASSUME NEW t \in Task, ReapFails(r, t)
      PROVE  TypeOK'
  BY <1>0, <1>7 DEF TypeOK, ReapFails, Fault, clocks
<1>8. CASE ConsumerEnds(r)
  BY <1>0, <1>8 DEF TypeOK, ConsumerEnds, Fault, clocks, reaper
<1>9. CASE ReplicaCrash(r)
  BY <1>0, <1>9 DEF TypeOK, ReplicaCrash, Fault, Goto, clocks
<1>10. QED
  BY <1>1, <1>2, <1>3, <1>4, <1>5, <1>6, <1>7, <1>8, <1>9 DEF Reaping

LEMMA TypeTick == TypeOK /\ Tick => TypeOK'
<1>0. {Timeout, BeatEvery, Delay, MaxFaults} \subseteq Nat
  BY TimeAssumption, FaultAssumption DEF TimeAssumption, FaultAssumption
<1> SUFFICES ASSUME TypeOK, Tick
             PROVE  TypeOK'
  OBVIOUS
<1>1. age' \in [Task -> 0..Timeout + 1]
  BY <1>0 DEF TypeOK, Tick, Older
<1>2. quiet' \in [Task -> 0..BeatEvery]
  BY <1>0 DEF TypeOK, Tick
<1>3. beats' \in [Task -> SUBSET (0..Delay)]
  BY <1>0 DEF TypeOK, Tick, Older
<1>4. late' \subseteq Task
  BY DEF TypeOK, Tick
<1>5. QED
  BY <1>1, <1>2, <1>3, <1>4 DEF TypeOK, Tick, reaper

LEMMA TypeStep == TypeOK /\ [Next]_vars => TypeOK'
<1> SUFFICES ASSUME TypeOK, [Next]_vars
             PROVE  TypeOK'
  OBVIOUS
<1>1. CASE UNCHANGED vars
  BY <1>1 DEF vars, TypeOK
<1>2. CASE Next
  BY <1>2, TypeWorking, TypeBeats, TypeReaping, TypeTick DEF Next
<1>3. QED
  BY <1>1, <1>2

\* Types: in particular an age never leaves its range, which SMT needs to compare it.
THEOREM HeartbeatTypes == Spec => []TypeOK
  BY TypeInit, TypeStep, PTL DEF Spec

-----------------------------------------------------------------------------
(* PunctualNotReaped is not inductive: that a row is not overdue depends   *)
(* on a heartbeat in the queue, or on the activity's next one.             *)

\* A heartbeat in the queue will be recorded before the row is overdue.
Queued(t) == \E m \in beats[t] : age[t] + Delay <= Timeout + m

\* So will the activity's next heartbeat, if it comes when it has to at the latest.
Upcoming(t) == age[t] + BeatEvery + Delay <= Timeout + quiet[t]

InTime(t) == row[t] = "PENDING" /\ t \notin late

QueueInv == \A t \in Task : InTime(t) /\ beats[t] # {} => Queued(t)
WorkInv  == \A t \in Task : InTime(t) /\ run[t] = "running" => Queued(t) \/ Upcoming(t)

\* What a snapshot says of a task that was never late: nobody works on it, and nothing is on
\* its way that could make its row young again.
TodoInv ==
    \A r \in Replica : \A t \in todo[r] :
        /\ row[t] # "NONE"
        /\ t \notin late => /\ run[t] # "running"
                            /\ beats[t] = {}
                            /\ row[t] = "PENDING" => age[t] > Timeout

Inv  == QueueInv /\ WorkInv /\ TodoInv
IInv == TypeOK /\ Inv

LEMMA InvInit == Init => Inv
  BY DEF Init, Inv, QueueInv, WorkInv, TodoInv, InTime

\* A row that a heartbeat or the activity will keep young is not overdue.
LEMMA YoungEnough ==
  ASSUME TypeOK, NEW t \in Task, Queued(t) \/ Upcoming(t)
  PROVE  age[t] <= Timeout
<1>0. {Timeout, BeatEvery, Delay} \subseteq Nat
  BY TimeAssumption DEF TimeAssumption
<1>1. CASE Queued(t)
  BY <1>0, <1>1 DEF TypeOK, Queued
<1>2. CASE Upcoming(t)
  BY <1>0, <1>2 DEF TypeOK, Upcoming
<1>3. QED
  BY <1>1, <1>2

\* A step that leaves clocks, activities and snapshots alone, and at most closes a row.
LEMMA InvClosing ==
  ASSUME Inv, UNCHANGED <<age, run, quiet, beats, late>>,
         \A t \in Task : row'[t] = row[t] \/ row'[t] \in {"COMPLETED", "FAILED"},
         \A r \in Replica : todo'[r] \subseteq todo[r], todo \in [Replica -> SUBSET Task]
  PROVE  Inv'
<1>1. QueueInv'
  BY DEF Inv, QueueInv, InTime, Queued
<1>2. WorkInv'
  BY DEF Inv, WorkInv, InTime, Queued, Upcoming
<1>3. TodoInv'
  <2> SUFFICES ASSUME NEW r \in Replica, NEW t \in todo'[r]
               PROVE  /\ row'[t] # "NONE"
                      /\ t \notin late' => /\ run'[t] # "running" /\ beats'[t] = {}
                                           /\ row'[t] = "PENDING" => age'[t] > Timeout
    BY DEF TodoInv
  <2>1. t \in todo[r] /\ t \in Task
    OBVIOUS
  <2>2. QED
    BY <2>1 DEF Inv, TodoInv
<1>4. QED
  BY <1>1, <1>2, <1>3 DEF Inv

LEMMA InvWorking ==
  ASSUME TypeOK, Inv, NEW t \in Task, Working(t)
  PROVE  Inv'
<1>0. {Timeout, BeatEvery, Delay} \subseteq Nat /\ BeatEvery + Delay <= Timeout
  BY TimeAssumption DEF TimeAssumption
<1>1. CASE InsertActivity(t)
  <2>1. UNCHANGED <<run, quiet, beats, late, todo>>
    BY <1>1 DEF InsertActivity, reaper
  <2>2. row' = [row EXCEPT ![t] = "PENDING"] /\ age' = [age EXCEPT ![t] = 0] /\ row[t] = "NONE"
    BY <1>1 DEF InsertActivity
  <2>3. QueueInv'
    BY <1>0, <2>1, <2>2 DEF TypeOK, Inv, QueueInv, InTime, Queued
  <2>4. WorkInv'
    BY <1>0, <2>1, <2>2 DEF TypeOK, Inv, WorkInv, InTime, Queued, Upcoming
  <2>5. TodoInv'
    BY <2>1, <2>2 DEF TypeOK, Inv, TodoInv
  <2>6. QED
    BY <2>3, <2>4, <2>5 DEF Inv
<1>2. CASE Start(t)
  <2>1. UNCHANGED <<row, age, beats, todo>>
    BY <1>2 DEF Start, reaper
  <2>2. /\ run' = [run EXCEPT ![t] = IF row[t] = "PENDING" THEN "running" ELSE "done"]
        /\ quiet' = [quiet EXCEPT ![t] = 0]
        /\ late' = IF age[t] + BeatEvery + Delay > Timeout THEN late \cup {t} ELSE late
    BY <1>2 DEF Start
  <2>3. QueueInv'
    BY <2>1, <2>2 DEF Inv, QueueInv, InTime, Queued
  <2>4. WorkInv'
    BY <1>0, <2>1, <2>2 DEF TypeOK, Inv, WorkInv, InTime, Queued, Upcoming
  <2>5. TodoInv'
    BY <1>0, <2>1, <2>2 DEF TypeOK, Inv, TodoInv
  <2>6. QED
    BY <2>3, <2>4, <2>5 DEF Inv
<1>3. CASE Heartbeat(t)
  <2>1. UNCHANGED <<row, age, run, late, todo>>
    BY <1>3 DEF Heartbeat, reaper
  <2>2. /\ quiet' = [quiet EXCEPT ![t] = 0] /\ beats' = [beats EXCEPT ![t] = @ \cup {0}]
        /\ run[t] = "running"
    BY <1>3 DEF Heartbeat
  <2>3. InTime(t) => Queued(t)'
    <3> SUFFICES ASSUME InTime(t)
                 PROVE  Queued(t)'
      OBVIOUS
    <3>1. CASE Queued(t)
      BY <3>1, <2>1, <2>2 DEF TypeOK, Queued
    <3>2. CASE Upcoming(t)
      <4>1. age[t] + Delay <= Timeout + 0
        BY <1>0, <3>2 DEF TypeOK, Upcoming
      <4>2. 0 \in beats'[t]
        BY <2>2 DEF TypeOK
      <4>3. QED
        BY <4>1, <4>2, <2>1 DEF Queued
    <3>3. QED
      BY <2>2, <3>1, <3>2 DEF Inv, WorkInv
  <2>4. QueueInv' /\ WorkInv'
    BY <2>1, <2>2, <2>3 DEF TypeOK, Inv, QueueInv, WorkInv, InTime, Queued, Upcoming
  <2>5. TodoInv'
    BY <2>1, <2>2 DEF TypeOK, Inv, TodoInv
  <2>6. QED
    BY <2>4, <2>5 DEF Inv
<1>4. ASSUME NEW now \in Run \ {"running"}, run' = [run EXCEPT ![t] = now],
             UNCHANGED <<row, age, quiet, beats, late, todo>>
      PROVE  Inv'
  <2>1. QueueInv'
    BY <1>4 DEF Inv, QueueInv, InTime, Queued
  <2>2. WorkInv'
    BY <1>4 DEF TypeOK, Inv, WorkInv, InTime, Queued, Upcoming
  <2>3. TodoInv'
    BY <1>4 DEF TypeOK, Inv, TodoInv
  <2>4. QED
    BY <2>1, <2>2, <2>3 DEF Inv
<1>5. CASE FallSilent(t)
  BY <1>4, <1>5 DEF FallSilent, clocks, reaper, Run
<1>6. ASSUME NEW outcome \in {"succeeded", "failed"}, Return(t, outcome)
      PROVE  Inv'
  BY <1>4, <1>6 DEF Return, clocks, reaper, Run
<1>7. CASE WorkerCrash(t)
  BY <1>4, <1>7 DEF WorkerCrash, clocks, reaper, Run
<1>8. CASE Report(t)
  <2>1. /\ row' = [row EXCEPT ![t] = IF run[t] = "succeeded" THEN "COMPLETED" ELSE "FAILED"]
        /\ run' = [run EXCEPT ![t] = "done"]
        /\ UNCHANGED <<age, quiet, beats, late, todo>>
    BY <1>8 DEF Report, clocks, reaper
  <2>2. QueueInv'
    BY <2>1 DEF TypeOK, Inv, QueueInv, InTime, Queued
  <2>3. WorkInv'
    BY <2>1 DEF TypeOK, Inv, WorkInv, InTime, Queued, Upcoming
  <2>4. TodoInv'
    BY <2>1 DEF TypeOK, Inv, TodoInv
  <2>5. QED
    BY <2>2, <2>3, <2>4 DEF Inv
<1>9. QED
  BY <1>1, <1>2, <1>3, <1>5, <1>6, <1>7, <1>8 DEF Working

LEMMA InvBeats ==
  ASSUME TypeOK, Inv, NEW t \in Task, NEW m \in 0..Delay,
         LoseHeartbeat(t, m) \/ \E r \in Replica : Record(r, t, m)
  PROVE  Inv'
<1>0. {Timeout, BeatEvery, Delay} \subseteq Nat /\ BeatEvery + Delay <= Timeout
  BY TimeAssumption DEF TimeAssumption
<1>1. CASE LoseHeartbeat(t, m)
  <2>1. /\ beats' = [beats EXCEPT ![t] = @ \ {m}] /\ late' = late \cup {t}
        /\ UNCHANGED <<row, age, run, quiet, todo>>
    BY <1>1 DEF LoseHeartbeat, reaper
  <2>2. QueueInv' /\ WorkInv'
    BY <2>1 DEF TypeOK, Inv, QueueInv, WorkInv, InTime, Queued, Upcoming
  <2>3. TodoInv'
    BY <2>1 DEF TypeOK, Inv, TodoInv
  <2>4. QED
    BY <2>2, <2>3 DEF Inv
<1>2. CASE \E r \in Replica : Record(r, t, m)
  <2>1. /\ beats' = [beats EXCEPT ![t] = @ \ {m}] /\ m \in beats[t]
        /\ age' = [age EXCEPT ![t] = IF row[t] = "PENDING" THEN 0 ELSE @]
        /\ UNCHANGED <<row, run, quiet, late, todo>>
    BY <1>2 DEF Record, reaper
  <2>2. QueueInv'
    <3> SUFFICES ASSUME NEW u \in Task, InTime(u)', beats'[u] # {}
                 PROVE  Queued(u)'
      BY DEF QueueInv
    <3>1. CASE u = t
      BY <1>0, <2>1, <3>1 DEF TypeOK, InTime, Queued
    <3>2. CASE u # t
      BY <2>1, <3>2 DEF TypeOK, Inv, QueueInv, InTime, Queued
    <3>3. QED
      BY <3>1, <3>2
  <2>3. WorkInv'
    <3> SUFFICES ASSUME NEW u \in Task, InTime(u)', run'[u] = "running"
                 PROVE  Queued(u)' \/ Upcoming(u)'
      BY DEF WorkInv
    <3>1. CASE u = t
      BY <1>0, <2>1, <3>1 DEF TypeOK, InTime, Upcoming
    <3>2. CASE u # t
      BY <2>1, <3>2 DEF TypeOK, Inv, WorkInv, InTime, Queued, Upcoming
    <3>3. QED
      BY <3>1, <3>2
  <2>4. TodoInv'
    BY <2>1 DEF TypeOK, Inv, TodoInv
  <2>5. QED
    BY <2>2, <2>3, <2>4 DEF Inv
<1>3. QED
  BY <1>1, <1>2

LEMMA InvReaping ==
  ASSUME TypeOK, Inv, NEW r \in Replica, Reaping(r) \/ ConsumerEnds(r) \/ ReplicaCrash(r)
  PROVE  Inv'
<1>1. CASE Snapshot(r)
  <2>1. /\ todo' = [todo EXCEPT ![r] = {t \in Task : Overdue(t)}]
        /\ UNCHANGED <<row, age, run, quiet, beats, late>>
    BY <1>1 DEF Snapshot, clocks
  <2>2. QueueInv' /\ WorkInv'
    BY <2>1 DEF Inv, QueueInv, WorkInv, InTime, Queued, Upcoming
  <2>3. ASSUME NEW t \in Task, Overdue(t), t \notin late
        PROVE  run[t] # "running" /\ beats[t] = {}
    <3>1. ~(Queued(t) \/ Upcoming(t))
      BY <2>3, YoungEnough, TimeAssumption DEF TypeOK, Overdue, TimeAssumption
    <3>2. QED
      BY <2>3, <3>1 DEF Overdue, InTime, Inv, QueueInv, WorkInv
  <2>4. TodoInv'
    <3> SUFFICES ASSUME NEW q \in Replica, NEW t \in todo'[q]
                 PROVE  /\ row[t] # "NONE"
                        /\ t \notin late => /\ run[t] # "running" /\ beats[t] = {}
                                            /\ row[t] = "PENDING" => age[t] > Timeout
      BY <2>1 DEF TodoInv
    <3>1. CASE t \in todo[q]
      BY <3>1 DEF Inv, TodoInv
    <3>2. CASE t \notin todo[q]
      <4>1. t \in Task /\ Overdue(t)
        BY <2>1, <3>2 DEF TypeOK
      <4>2. QED
        BY <2>3, <4>1 DEF Overdue
    <3>3. QED
      BY <3>1, <3>2
  <2>5. QED
    BY <2>2, <2>4 DEF Inv
<1>2. CASE TryLock(r) \/ SnapshotFails(r) \/ Unlock(r) \/ SessionLost(r) \/ ConsumerEnds(r)
  <2>1. UNCHANGED <<row, age, run, quiet, beats, late, todo>>
    BY <1>2 DEF TryLock, SnapshotFails, Unlock, SessionLost, ConsumerEnds, clocks, reaper
  <2>2. QED
    BY <2>1, InvClosing DEF TypeOK
<1>3. ASSUME NEW t \in Task, ReapNext(r, t)
      PROVE  Inv'
  <2>1. /\ UNCHANGED <<age, run, quiet, beats, late>>
        /\ row' = [row EXCEPT ![t] = "FAILED"] /\ todo' = [todo EXCEPT ![r] = @ \ {t}]
    BY <1>3 DEF ReapNext, clocks
  <2>2. /\ \A u \in Task : row'[u] = row[u] \/ row'[u] \in {"COMPLETED", "FAILED"}
        /\ \A q \in Replica : todo'[q] \subseteq todo[q]
    BY <2>1 DEF TypeOK
  <2>3. QED
    BY <2>1, <2>2, InvClosing DEF TypeOK
<1>4. ASSUME NEW t \in Task, ReapFails(r, t)
      PROVE  Inv'
  <2>1. /\ UNCHANGED <<row, age, run, quiet, beats, late>> /\ todo' = [todo EXCEPT ![r] = @ \ {t}]
    BY <1>4 DEF ReapFails, clocks
  <2>2. \A q \in Replica : todo'[q] \subseteq todo[q]
    BY <2>1 DEF TypeOK
  <2>3. QED
    BY <2>1, <2>2, InvClosing DEF TypeOK
<1>5. CASE ReplicaCrash(r)
  <2>1. /\ UNCHANGED <<row, age, run, quiet, beats, late>> /\ todo' = [todo EXCEPT ![r] = {}]
    BY <1>5 DEF ReplicaCrash, clocks
  <2>2. \A q \in Replica : todo'[q] \subseteq todo[q]
    BY <2>1 DEF TypeOK
  <2>3. QED
    BY <2>1, <2>2, InvClosing DEF TypeOK
<1>6. QED
  BY <1>1, <1>2, <1>3, <1>4, <1>5 DEF Reaping

LEMMA InvTick == TypeOK /\ Inv /\ Tick => Inv'
<1> SUFFICES ASSUME TypeOK, Inv, Tick
             PROVE  Inv'
  OBVIOUS
<1>0. {Timeout, BeatEvery, Delay} \subseteq Nat /\ BeatEvery + Delay <= Timeout
  BY TimeAssumption DEF TimeAssumption
<1>1. UNCHANGED <<row, run, todo>>
  BY DEF Tick, reaper
<1>2. ASSUME NEW t \in Task, InTime(t)', Queued(t)
      PROVE  Queued(t)'
  <2>1. PICK m \in beats[t] : age[t] + Delay <= Timeout + m
    BY <1>2 DEF Queued
  <2>2. m \in 0..Delay /\ m # Delay
    BY <1>2, <2>1 DEF TypeOK, InTime, Tick
  <2>3. m + 1 \in beats'[t]
    BY <1>0, <2>1, <2>2 DEF Tick, Older
  <2>4. age'[t] <= age[t] + 1 /\ age'[t] \in Nat
    BY <1>0 DEF TypeOK, Tick, Older
  <2>5. age'[t] + Delay <= Timeout + (m + 1)
    BY <1>0, <2>1, <2>2, <2>4 DEF TypeOK
  <2>6. QED
    BY <2>3, <2>5 DEF Queued
<1>3. ASSUME NEW t \in Task, run[t] = "running", Upcoming(t)
      PROVE  Upcoming(t)'
  <2>1. quiet'[t] = quiet[t] + 1
    BY <1>3 DEF Tick
  <2>2. age'[t] <= age[t] + 1 /\ age'[t] \in Nat
    BY <1>0 DEF TypeOK, Tick, Older
  <2>3. QED
    BY <1>0, <1>3, <2>1, <2>2 DEF TypeOK, Upcoming
<1>4. \A t \in Task : (InTime(t)' => InTime(t)) /\ (beats'[t] # {} => beats[t] # {})
  BY <1>1 DEF Tick, InTime
<1>5. QueueInv'
  BY <1>2, <1>4 DEF Inv, QueueInv
<1>6. WorkInv'
  BY <1>1, <1>2, <1>3, <1>4 DEF Inv, WorkInv
<1>7. TodoInv'
  <2> SUFFICES ASSUME NEW r \in Replica, NEW t \in todo[r]
               PROVE  /\ row[t] # "NONE"
                      /\ t \notin late' => /\ run[t] # "running" /\ beats'[t] = {}
                                           /\ row[t] = "PENDING" => age'[t] > Timeout
    BY <1>1 DEF TodoInv
  <2>1. t \in Task /\ (t \in late => t \in late')
    BY DEF TypeOK, Tick
  <2>2. row[t] = "PENDING" /\ age[t] > Timeout => age'[t] > Timeout
    BY <1>0, <2>1 DEF TypeOK, Tick, Older
  <2>3. beats[t] = {} => beats'[t] = {}
    BY <2>1 DEF Tick
  <2>4. QED
    BY <2>1, <2>2, <2>3 DEF Inv, TodoInv
<1>8. QED
  BY <1>5, <1>6, <1>7 DEF Inv

\* The invariant the property follows from.
THEOREM HeartbeatInductive == Spec => []IInv
<1>1. Init => IInv
  BY TypeInit, InvInit DEF IInv
<1>2. IInv /\ [Next]_vars => IInv'
  <2> SUFFICES ASSUME TypeOK, Inv, [Next]_vars
               PROVE  IInv'
    BY DEF IInv
  <2>1. CASE UNCHANGED vars
    BY <2>1, InvClosing, TypeStep DEF vars, TypeOK, IInv
  <2>2. CASE Next
    BY <2>2, InvWorking, InvBeats, InvReaping, InvTick, TypeStep DEF Next, IInv
  <2>3. QED
    BY <2>1, <2>2
<1>3. QED
  BY <1>1, <1>2, PTL DEF Spec

\* A working activity whose heartbeats come, and are recorded, in time is in no snapshot.
THEOREM PunctualityPays == Spec => []PunctualNotReaped
<1>1. IInv => PunctualNotReaped
  BY DEF IInv, Inv, TodoInv, PunctualNotReaped
<1>2. QED
  BY <1>1, HeartbeatInductive, PTL
=============================================================================
