-------------------------- MODULE SchedulerProofs --------------------------
(***************************************************************************)
(* Proofs about Scheduler, for any set of schedules, number of replicas,   *)
(* period, and bounds on the clock, the resumes and the faults.            *)
(*                                                                         *)
(* OncePerRun is a count, so its invariant counts too.  A run can still be *)
(* started once by the replica that leads and once by each replica that    *)
(* polls without leading; every replica of the second kind got there by a  *)
(* fault of its own.                                                       *)
(***************************************************************************)
EXTENDS Scheduler, FiniteSetTheorems, TLAPS

Working(r) == pc[r] \in {"query", "start", "advance"}

\* It holds the lock and is not shutting down.
Leads(r) == lock = r /\ r \notin stopping

\* It polls, or is about to, although it does not lead.
Stray(r) == ~Leads(r) /\ (Working(r) \/ (pc[r] = "lock" /\ r \in stopping))
Strays   == {r \in Replica : Stray(r)}

Run(s, t) == [id |-> s, at |-> t]

\* r has a row of s in hand and will make t its next run.
Reopens(r, s, t) ==
    /\ Kind[s] # "once"
    /\ t = NextRun(s, now[r])
    /\ \E i \in Item : i.id = s /\ (i \in todo[r] \/ i = current[r])

MayStart(r, s, t) == Run(s, t) \in todo[r] \/ Reopens(r, s, t)

\* Strays that may still start the run of s at t, or let it be started once more.
Late(s, t) == {r \in Strays : pc[r] \in {"lock", "query"} \/ MayStart(r, s, t)}

\* The leader may still start the run: from the row, from what it has read, or after it has
\* moved the row on.  A run it has just started does not count: it is about to move the row.
Possible(s, t) ==
    \/ /\ status[s] = "ACTIVE" /\ next[s] = t
       /\ \A r \in Replica : Leads(r) => current[r] # Run(s, t)
    \/ \E r \in Replica : Leads(r) /\ MayStart(r, s, t)

-----------------------------------------------------------------------------
LockInv ==
    /\ \A r \in Replica : lock = r <=> conn[r] = "held"
    /\ faults = 0 =>
          /\ stopping = {}
          /\ \A r \in Replica : conn[r] # "dead" /\ (Working(r) => conn[r] = "held")

\* What a replica has in hand was due at the time of its poll, one item per schedule.
InHand(r) ==
    /\ now[r] <= clock
    /\ pc[r] \in {"select", "lock", "query", "quit"} => todo[r] = {}
    /\ current[r] \in Item <=> pc[r] = "advance"
    /\ pc[r] = "advance" =>
          /\ current[r].at <= now[r] /\ status[current[r].id] # "ABSENT"
          /\ \A i \in todo[r] : i.id # current[r].id
    /\ \A i \in todo[r] : i.at <= now[r] /\ status[i.id] # "ABSENT"
    /\ \A i, j \in todo[r] : i.id = j.id => i = j
HandInv == \A r \in Replica : InHand(r)

StartedInv ==
    \A s \in Schedule, t \in Time : started[s][t] > 0 => t <= clock /\ status[s] # "ABSENT"

\* Without a fault the rows in hand are the rows of the table.
FreshInv ==
    faults = 0 =>
        \A r \in Replica :
            /\ \A i \in todo[r] : next[i.id] = i.at
            /\ pc[r] = "advance" =>
                  /\ next[current[r].id] = current[r].at
                  /\ started[current[r].id][current[r].at] > 0

\* What has been started and what may still be, against what may have caused it.
Counted(s, t) ==
    started[s][t] + Cardinality(Late(s, t)) + (IF Possible(s, t) THEN 1 ELSE 0)
        <= 1 + faults + resumes[s]

CauseInv ==
    \A s \in Schedule, t \in Time : Cardinality(Strays) <= faults /\ Counted(s, t)

IInv == TypeOK /\ LockInv /\ HandInv /\ StartedInv /\ FreshInv /\ CauseInv

-----------------------------------------------------------------------------
(* The next run.                                                           *)

\* Two bounds of the quotient, as the arithmetic of NextRun needs them.
LEMMA Quotient ==
    ASSUME NEW t \in Nat, NEW P \in Nat \ {0}
    PROVE  /\ t \div P \in Nat
           /\ t < (t \div P + 1) * P
           /\ (t \div P + 1) * P <= t + P
<1>1. t \div P \in Nat
  OBVIOUS
<1>2. P * (t \div P) <= t
  BY Z3T(20)
<1>3. t < P * (t \div P) + P
  BY Z3T(20)
<1> DEFINE q == t \div P
<1> HIDE DEF q
<1>4. ASSUME q \in Nat, P * q <= t, t < P * q + P
      PROVE  t < (q + 1) * P /\ (q + 1) * P <= t + P
  BY <1>4
<1> QED
  BY <1>1, <1>2, <1>3, <1>4 DEF q

\* NextRun looks ahead, by at most a period.
LEMMA NextRunAhead ==
    ASSUME NEW s \in Schedule, NEW t \in 0..MaxTime
    PROVE  NextRun(s, t) \in Time /\ t < NextRun(s, t)
<1>1. Period \in Nat \ {0} /\ MaxTime \in Nat
  BY PeriodAssumption, BoundAssumption
<1>2. CASE Kind[s] = "cron"
  <2> DEFINE n == (t \div Period + 1) * Period
  <2>1. n \in Nat /\ t < n /\ n <= t + Period
    BY <1>1, Quotient
  <2> HIDE DEF n
  <2>2. n \in Time
    BY <2>1, <1>1 DEF Time
  <2> QED
    BY <1>2, <2>1, <2>2 DEF NextRun, n
<1>3. CASE Kind[s] # "cron"
  BY <1>1, <1>3 DEF NextRun, Time
<1> QED
  BY <1>2, <1>3

-----------------------------------------------------------------------------
(* Types.                                                                  *)

LEMMA InitTypeOK == Init => TypeOK
  BY PeriodAssumption, BoundAssumption DEF Init, TypeOK, Time, Status

LEMMA NextTypeOK == TypeOK /\ [Next]_vars => TypeOK'
<1> SUFFICES ASSUME TypeOK, [Next]_vars PROVE TypeOK'
  OBVIOUS
<1> USE DEF TypeOK
<1>0. /\ MaxTime \in Nat /\ Period \in Nat \ {0} /\ MaxResumes \in Nat /\ MaxFaults \in Nat
  BY PeriodAssumption, BoundAssumption
<1>1. ASSUME NEW s \in Schedule, CreateSchedule(s) PROVE TypeOK'
  <2>1. NextRun(s, clock) \in Time
    BY NextRunAhead
  <2>2. PICK t \in Time : next' = [next EXCEPT ![s] = t]
    <3>1. clock..MaxTime \subseteq Time
      BY <1>0 DEF Time
    <3>2. (IF Kind[s] = "once" THEN clock..MaxTime ELSE {NextRun(s, clock)}) \subseteq Time
      BY <2>1, <3>1
    <3> HIDE DEF TypeOK
    <3> QED
      BY <1>1, <3>2 DEF CreateSchedule
  <2> QED
    BY <1>1, <2>2 DEF CreateSchedule, loop, Status
<1>2. ASSUME NEW s \in Schedule, Pause(s) PROVE TypeOK'
  BY <1>2 DEF Pause, loop, Status
<1>3. ASSUME NEW s \in Schedule, Resume(s) PROVE TypeOK'
  BY <1>0, <1>3 DEF Resume, loop, Status
<1>4. ASSUME NEW s \in Schedule, DeleteSchedule(s) PROVE TypeOK'
  BY <1>4 DEF DeleteSchedule, loop, Status
<1>5. ASSUME NEW r \in Replica, Ticks(r) PROVE TypeOK'
  BY <1>5 DEF Ticks, rows
<1>6. ASSUME NEW r \in Replica, TryAcquireLock(r) PROVE TypeOK'
  BY <1>6 DEF TryAcquireLock, rows, Goto
<1>7. ASSUME NEW r \in Replica, GetDueSchedules(r) PROVE TypeOK'
  BY <1>7 DEF GetDueSchedules, rows, Goto
<1>8. ASSUME NEW r \in Replica, NEW i \in todo[r], StartWorkflow(r, i) PROVE TypeOK'
  <2>1. i \in Item /\ i.id \in Schedule /\ i.at \in Time
    BY <1>8 DEF Item
  <2> QED
    BY <1>8, <2>1 DEF StartWorkflow, rows, Goto
<1>9. ASSUME NEW r \in Replica, PollEnds(r) PROVE TypeOK'
  BY <1>9 DEF PollEnds, rows, Goto
<1>10. ASSUME NEW r \in Replica, AdvanceSchedule(r) PROVE TypeOK'
  <2> DEFINE s == current[r].id
             t == NextRun(s, now[r])
  <2>1. s \in Schedule => t \in Time
    BY NextRunAhead
  <2>2. /\ status' \in [Schedule -> Status]
        /\ next' \in [Schedule -> Time]
    <3>1. CASE UNCHANGED rows
      BY <3>1 DEF rows
    <3>2. CASE ~ UNCHANGED rows
      <4>1. Exists(s) /\ UpdateScheduleState(s, now[r])
        BY <1>10, <3>2 DEF AdvanceSchedule, UpdateScheduleState
      <4>2. \/ status' = [status EXCEPT ![s] = "FINISHED"] /\ UNCHANGED next
            \/ status' = [status EXCEPT ![s] = "ACTIVE"] /\ next' = [next EXCEPT ![s] = t]
        BY <4>1 DEF UpdateScheduleState
      <4> HIDE DEF s, t
      <4> QED
        BY <2>1, <4>2 DEF Status
    <3> QED
      BY <3>1, <3>2
  <2> QED
    BY <1>10, <2>2 DEF AdvanceSchedule, Goto
<1>11. ASSUME NEW r \in Replica, NEW i \in todo[r], StartWorkflowFails(r, i) PROVE TypeOK'
  BY <1>0, <1>11 DEF StartWorkflowFails, rows, Fault
<1>12. ASSUME NEW r \in Replica, PollFails(r) PROVE TypeOK'
  BY <1>0, <1>12 DEF PollFails, rows, Fault, Goto
<1>13. ASSUME NEW r \in Replica, AdvanceScheduleFails(r) PROVE TypeOK'
  BY <1>0, <1>13 DEF AdvanceScheduleFails, rows, Fault, Goto
<1>14. ASSUME NEW r \in Replica, Stop(r) PROVE TypeOK'
  BY <1>0, <1>14 DEF Stop, rows, loop, Fault, Unlocked
<1>15. ASSUME NEW r \in Replica, Crash(r) PROVE TypeOK'
  BY <1>0, <1>15 DEF Crash, Restarted, rows, Fault, Unlocked
<1>16. ASSUME NEW r \in Replica, LoseConnection(r) PROVE TypeOK'
  BY <1>0, <1>16 DEF LoseConnection, rows, loop, Fault, Unlocked
<1>17. ASSUME NEW r \in Replica, Exit(r) PROVE TypeOK'
  BY <1>17 DEF Exit, Restarted, rows, Unlocked
<1>18. CASE TimePasses
  BY <1>0, <1>18 DEF TimePasses, rows, loop
<1>19. CASE UNCHANGED vars
  BY <1>19 DEF vars, rows, loop
<1> QED
  BY <1>1, <1>2, <1>3, <1>4, <1>5, <1>6, <1>7, <1>8, <1>9, <1>10, <1>11, <1>12, <1>13, <1>14,
     <1>15, <1>16, <1>17, <1>18, <1>19
  DEF Next, Request, Poll, Starting, Faulty

-----------------------------------------------------------------------------
(* The lock and its connection.                                            *)

LEMMA NextLockInv == TypeOK /\ LockInv /\ [Next]_vars => LockInv'
<1> SUFFICES ASSUME TypeOK, LockInv, [Next]_vars PROVE LockInv'
  OBVIOUS
<1>0. /\ Nobody \notin Replica /\ faults \in Nat /\ lock \in Replica \cup {Nobody}
      /\ conn \in [Replica -> {"none", "held", "dead"}] /\ DOMAIN pc = Replica
      /\ stopping \subseteq Replica
  BY PeriodAssumption, BoundAssumption DEF TypeOK
<1> USE <1>0 DEF LockInv
<1>1. ASSUME NEW s \in Schedule, Request(s) PROVE LockInv'
  BY <1>1 DEF Request, CreateSchedule, Pause, Resume, DeleteSchedule, loop, Working
<1>2. ASSUME NEW r \in Replica, Ticks(r) PROVE LockInv'
  BY <1>2 DEF Ticks, Working
<1>3. ASSUME NEW r \in Replica, TryAcquireLock(r) PROVE LockInv'
  <2>1. CASE conn[r] = "none" /\ lock = Nobody
    BY <1>3, <2>1 DEF TryAcquireLock, Goto, Working
  <2>2. CASE ~ (conn[r] = "none" /\ lock = Nobody)
    BY <1>3, <2>2 DEF TryAcquireLock, Goto, Working
  <2> QED
    BY <2>1, <2>2
<1>4. ASSUME NEW r \in Replica, GetDueSchedules(r) \/ PollEnds(r) \/ AdvanceSchedule(r) \/ Starting(r)
      PROVE  LockInv'
  <2>1. /\ pc[r] \in {"query", "start", "advance"}
        /\ \E place \in {"start", "advance", "select"} : pc' = [pc EXCEPT ![r] = place]
        /\ UNCHANGED <<lock, conn, stopping, faults>>
    BY <1>4 DEF GetDueSchedules, PollEnds, AdvanceSchedule, Starting, StartWorkflow, Goto
  <2> QED
    BY <2>1 DEF Working
<1>5. ASSUME NEW r \in Replica, NEW i \in todo[r], StartWorkflowFails(r, i) PROVE LockInv'
  BY <1>5 DEF StartWorkflowFails, Fault
<1>6. ASSUME NEW r \in Replica, PollFails(r) \/ AdvanceScheduleFails(r) PROVE LockInv'
  BY <1>6 DEF PollFails, AdvanceScheduleFails, Fault
<1>7. ASSUME NEW r \in Replica, Stop(r) \/ LoseConnection(r) PROVE LockInv'
  BY <1>7 DEF Stop, LoseConnection, Fault, Unlocked
<1>8. ASSUME NEW r \in Replica, Crash(r) \/ Exit(r) PROVE LockInv'
  BY <1>8 DEF Crash, Exit, Restarted, Fault, Unlocked
<1>9. CASE TimePasses \/ UNCHANGED vars
  BY <1>9 DEF TimePasses, vars, loop, Working
<1> QED
  BY <1>1, <1>2, <1>3, <1>4, <1>5, <1>6, <1>7, <1>8, <1>9 DEF Next, Poll, Faulty

-----------------------------------------------------------------------------
(* What a replica has in hand.                                             *)

\* A row that exists is not forgotten.
LEMMA StatusSticks ==
    ASSUME TypeOK, [Next]_vars, NEW s \in Schedule, status[s] # "ABSENT"
    PROVE  status'[s] # "ABSENT"
<1>0. status \in [Schedule -> Status]
  BY DEF TypeOK
<1>1. ASSUME NEW z \in Schedule, Request(z) PROVE status'[s] # "ABSENT"
  BY <1>0, <1>1 DEF Request, CreateSchedule, Pause, Resume, DeleteSchedule
<1>2. ASSUME NEW r \in Replica, AdvanceSchedule(r) PROVE status'[s] # "ABSENT"
  BY <1>0, <1>2 DEF AdvanceSchedule, UpdateScheduleState, rows
<1>3. ASSUME NEW r \in Replica, Poll(r) \/ Faulty(r) \/ Exit(r), ~ AdvanceSchedule(r)
      PROVE  status'[s] # "ABSENT"
  <2>1. UNCHANGED rows
    BY <1>3 DEF Poll, Faulty, Exit, Ticks, TryAcquireLock, GetDueSchedules, Starting, StartWorkflow,
       PollEnds, StartWorkflowFails, PollFails, AdvanceScheduleFails, Stop, Crash, LoseConnection,
       Restarted
  <2> QED
    BY <2>1 DEF rows
<1>4. CASE TimePasses \/ UNCHANGED vars
  BY <1>4 DEF TimePasses, vars, rows
<1> QED
  BY <1>1, <1>2, <1>3, <1>4 DEF Next

LEMMA NextHandInv == TypeOK /\ HandInv /\ [Next]_vars => HandInv'
<1> SUFFICES ASSUME TypeOK, HandInv, [Next]_vars, NEW q \in Replica PROVE InHand(q)'
  BY DEF HandInv
<1>0. /\ DOMAIN pc = Replica /\ DOMAIN now = Replica /\ DOMAIN current = Replica
      /\ todo \in [Replica -> SUBSET Item] /\ clock \in Nat /\ now \in [Replica -> 0..MaxTime]
      /\ current \in [Replica -> Item \cup {NoItem}] /\ MaxTime \in Nat
      /\ \A i \in Item : i.id \in Schedule /\ i.at \in Int
      /\ NoItem \notin Item
  BY BoundAssumption, PeriodAssumption, ItemAssumption DEF TypeOK, Item, Time
<1>a. InHand(q)
  BY DEF HandInv
<1>b. \A s \in Schedule : status[s] # "ABSENT" => status'[s] # "ABSENT"
  BY StatusSticks
<1>c. ASSUME UNCHANGED <<pc, now, todo, current>>, clock' >= clock, clock' \in Nat
      PROVE  InHand(q)'
  BY <1>0, <1>a, <1>b, <1>c DEF InHand
<1> USE <1>0, <1>a, <1>b DEF InHand
<1>1. ASSUME NEW s \in Schedule, Request(s) PROVE InHand(q)'
  BY <1>1, <1>c DEF Request, CreateSchedule, Pause, Resume, DeleteSchedule, loop
<1>2. ASSUME NEW r \in Replica, Ticks(r) PROVE InHand(q)'
  BY <1>2 DEF Ticks
<1>3. ASSUME NEW r \in Replica, TryAcquireLock(r) PROVE InHand(q)'
  BY <1>3 DEF TryAcquireLock, Goto
<1>4. ASSUME NEW r \in Replica, GetDueSchedules(r) PROVE InHand(q)'
  BY <1>4 DEF GetDueSchedules, Goto, Due, Item
<1>5. ASSUME NEW r \in Replica, NEW i \in todo[r], StartWorkflow(r, i) PROVE InHand(q)'
  BY <1>5 DEF StartWorkflow, Goto
<1>6. ASSUME NEW r \in Replica, PollEnds(r) \/ PollFails(r) PROVE InHand(q)'
  BY <1>6 DEF PollEnds, PollFails, Goto
<1>7. ASSUME NEW r \in Replica, AdvanceSchedule(r) \/ AdvanceScheduleFails(r) PROVE InHand(q)'
  BY <1>7 DEF AdvanceSchedule, AdvanceScheduleFails, Goto
<1>8. ASSUME NEW r \in Replica, NEW i \in todo[r], StartWorkflowFails(r, i) PROVE InHand(q)'
  BY <1>8 DEF StartWorkflowFails
<1>9. ASSUME NEW r \in Replica, Stop(r) \/ LoseConnection(r) PROVE InHand(q)'
  BY <1>9, <1>c DEF Stop, LoseConnection, loop
<1>10. ASSUME NEW r \in Replica, Crash(r) \/ Exit(r) PROVE InHand(q)'
  BY <1>10 DEF Crash, Exit, Restarted
<1>11. CASE TimePasses \/ UNCHANGED vars
  BY <1>11, <1>c DEF TimePasses, vars, loop
<1> QED
  BY <1>1, <1>2, <1>3, <1>4, <1>5, <1>6, <1>7, <1>8, <1>9, <1>10, <1>11
  DEF Next, Poll, Starting, Faulty

-----------------------------------------------------------------------------
(* What has been started.                                                  *)

LEMMA NextStartedInv == TypeOK /\ HandInv /\ StartedInv /\ [Next]_vars => StartedInv'
<1> SUFFICES ASSUME TypeOK, HandInv, StartedInv, [Next]_vars PROVE StartedInv'
  OBVIOUS
<1>0. /\ clock \in Nat /\ MaxTime \in Nat /\ now \in [Replica -> 0..MaxTime]
      /\ started \in [Schedule -> [Time -> Nat]] /\ todo \in [Replica -> SUBSET Item]
      /\ \A i \in Item : i.id \in Schedule /\ i.at \in Time /\ i.at \in Int
      /\ \A t \in Time : t \in Int
      /\ \A r \in Replica : now[r] \in Int
  BY BoundAssumption, PeriodAssumption DEF TypeOK, Item, Time
<1>b. \A s \in Schedule : status[s] # "ABSENT" => status'[s] # "ABSENT"
  BY StatusSticks
<1>1. ASSUME NEW r \in Replica, NEW i \in todo[r], StartWorkflow(r, i) PROVE StartedInv'
  <2>1. i \in Item /\ i.at <= clock /\ status[i.id] # "ABSENT" /\ UNCHANGED clock
    <3>1. i \in Item /\ i.at <= now[r] /\ now[r] <= clock /\ status[i.id] # "ABSENT"
      BY <1>0, <1>1 DEF HandInv, InHand
    <3>2. UNCHANGED clock
      BY <1>1 DEF StartWorkflow
    <3> QED
      BY <1>0, <3>1, <3>2
  <2>2. started' = [started EXCEPT ![i.id][i.at] = @ + 1]
    BY <1>1 DEF StartWorkflow
  <2> QED
    BY <1>0, <1>b, <2>1, <2>2, SMTT(30) DEF StartedInv
<1>2. ASSUME UNCHANGED started, clock' \in Int, clock' >= clock PROVE StartedInv'
  BY <1>0, <1>b, <1>2 DEF StartedInv
<1>3. CASE ~ \E r \in Replica, i \in Item : i \in todo[r] /\ StartWorkflow(r, i)
  <2>1. UNCHANGED started /\ clock' \in Int /\ clock' >= clock
    BY <1>0, <1>3 DEF Next, Request, CreateSchedule, Pause, Resume, DeleteSchedule, Poll, Faulty, Exit,
       Ticks, TryAcquireLock, GetDueSchedules, Starting, PollEnds, AdvanceSchedule,
       StartWorkflowFails, PollFails, AdvanceScheduleFails, Stop, Crash, LoseConnection, Restarted,
       TimePasses, vars, rows
  <2> QED
    BY <1>2, <2>1
<1> QED
  BY <1>1, <1>3

-----------------------------------------------------------------------------
(* Without faults.                                                         *)

LEMMA NextFreshInv ==
    TypeOK /\ LockInv /\ HandInv /\ FreshInv /\ [Next]_vars => FreshInv'
<1> SUFFICES ASSUME TypeOK, LockInv, HandInv, FreshInv, [Next]_vars, faults' = 0,
                    NEW q \in Replica
             PROVE  /\ \A i \in todo'[q] : next'[i.id] = i.at
                    /\ pc'[q] = "advance" =>
                          /\ next'[current'[q].id] = current'[q].at
                          /\ started'[current'[q].id][current'[q].at] > 0
  BY DEF FreshInv
<1> DEFINE Goal == /\ \A i \in todo'[q] : next'[i.id] = i.at
                   /\ pc'[q] = "advance" =>
                         /\ next'[current'[q].id] = current'[q].at
                         /\ started'[current'[q].id][current'[q].at] > 0
<1>0. /\ DOMAIN pc = Replica /\ DOMAIN todo = Replica /\ DOMAIN current = Replica
      /\ DOMAIN next = Schedule /\ \A r \in Replica : todo[r] \subseteq Item
      /\ current[q] \in Item \cup {NoItem}
      /\ started \in [Schedule -> [Time -> Nat]]
      /\ \A i \in Item : i.id \in Schedule /\ i.at \in Time
      /\ faults \in Nat
  BY BoundAssumption DEF TypeOK, Item
<1>1. /\ InHand(q)
      /\ faults = 0 =>
            /\ \A i \in todo[q] : next[i.id] = i.at
            /\ pc[q] = "advance" =>
                  next[current[q].id] = current[q].at /\ started[current[q].id][current[q].at] > 0
  BY DEF HandInv, FreshInv
<1>2. ASSUME NEW r \in Replica, Faulty(r) PROVE FALSE
  BY <1>0, <1>2 DEF Faulty, Fault, StartWorkflowFails, PollFails, AdvanceScheduleFails, Stop, Crash,
     LoseConnection
<1>3. ASSUME UNCHANGED <<next, started, faults, pc, todo, current>> PROVE Goal
  BY <1>1, <1>3
<1>4. ASSUME NEW s \in Schedule, CreateSchedule(s) PROVE Goal
  <2>1. \A z \in Schedule : status[z] # "ABSENT" => next'[z] = next[z]
    BY <1>0, <1>4 DEF CreateSchedule
  <2>2. UNCHANGED <<started, faults, pc, todo, current>>
    BY <1>4 DEF CreateSchedule, loop
  <2> QED
    BY <1>0, <1>1, <2>1, <2>2 DEF InHand
<1>5. ASSUME NEW s \in Schedule, Pause(s) \/ Resume(s) \/ DeleteSchedule(s) PROVE Goal
  BY <1>3, <1>5 DEF Pause, Resume, DeleteSchedule, loop
<1>6. ASSUME NEW r \in Replica, Ticks(r) \/ TryAcquireLock(r) PROVE Goal
  <2>1. UNCHANGED <<next, started, faults, todo, current>> /\ pc'[q] \in {pc[q], "lock", "query", "select"}
    BY <1>0, <1>6 DEF Ticks, TryAcquireLock, rows, Goto
  <2> QED
    BY <1>1, <2>1
<1>7. ASSUME NEW r \in Replica, GetDueSchedules(r) PROVE Goal
  BY <1>0, <1>1, <1>7 DEF GetDueSchedules, rows, Goto
<1>8. ASSUME NEW r \in Replica, NEW i \in todo[r], StartWorkflow(r, i) PROVE Goal
  <2>1. /\ UNCHANGED <<next, faults>>
        /\ todo' = [todo EXCEPT ![r] = @ \ {i}] /\ current' = [current EXCEPT ![r] = i]
        /\ pc' = [pc EXCEPT ![r] = "advance"]
        /\ started' = [started EXCEPT ![i.id][i.at] = @ + 1]
    BY <1>8 DEF StartWorkflow, rows, Goto
  <2>2. i \in Item
    BY <1>0
  <2>3. /\ started'[i.id][i.at] > 0
        /\ \A z \in Schedule, t \in Time : started[z][t] > 0 => started'[z][t] > 0
    BY <1>0, <2>1, <2>2
  <2>4. CASE q = r
    BY <1>0, <1>1, <2>1, <2>3, <2>4
  <2>5. CASE q # r
    BY <1>0, <1>1, <2>1, <2>3, <2>5 DEF InHand
  <2> QED
    BY <2>4, <2>5
<1>9. ASSUME NEW r \in Replica, PollEnds(r) PROVE Goal
  BY <1>0, <1>1, <1>9 DEF PollEnds, rows, Goto
<1>10. ASSUME NEW r \in Replica, AdvanceSchedule(r) PROVE Goal
  <2>1. faults = 0 /\ pc[r] = "advance" /\ UNCHANGED <<todo, started>> /\ pc' = [pc EXCEPT ![r] = "start"]
        /\ current' = [current EXCEPT ![r] = NoItem]
    BY <1>10 DEF AdvanceSchedule, Goto
  <2>2. \A z \in Schedule : z # current[r].id => next'[z] = next[z]
    BY <1>0, <1>10 DEF AdvanceSchedule, UpdateScheduleState, rows
  <2>3. CASE q = r
    BY <1>0, <1>1, <2>1, <2>2, <2>3 DEF InHand
  <2>4. CASE q # r
    <3>1. lock = r
      BY <2>1 DEF LockInv, Working
    <3>2. ~ Working(q)
      BY <2>1, <2>4, <3>1 DEF LockInv
    <3>3. todo[q] = {} /\ pc'[q] # "advance"
      <4>1. pc[q] \in {"select", "lock", "query", "quit"}
        BY <3>2 DEF Working, TypeOK
      <4> QED
        BY <1>0, <1>1, <2>1, <2>4, <4>1 DEF InHand
    <3> QED
      BY <2>1, <3>3
  <2> QED
    BY <2>3, <2>4
<1>11. ASSUME NEW r \in Replica, Exit(r) PROVE Goal
  BY <1>0, <1>1, <1>11 DEF Exit, Restarted, rows
<1>12. CASE TimePasses \/ UNCHANGED vars
  BY <1>3, <1>12 DEF TimePasses, vars, rows, loop
<1>13. ASSUME NEW s \in Schedule, Request(s) PROVE Goal
  BY <1>4, <1>5, <1>13 DEF Request
<1>14. ASSUME NEW r \in Replica, Poll(r) PROVE Goal
  BY <1>6, <1>7, <1>8, <1>9, <1>10, <1>14 DEF Poll, Starting
<1> HIDE DEF Goal
<1>15. CASE \E s \in Schedule : Request(s)
  BY <1>13, <1>15 DEF Goal
<1>16. CASE \E r \in Replica : Poll(r)
  BY <1>14, <1>16 DEF Goal
<1>17. CASE \E r \in Replica : Exit(r)
  BY <1>11, <1>17 DEF Goal
<1>18. CASE \E r \in Replica : Faulty(r)
  BY <1>2, <1>18
<1> QED
  BY <1>12, <1>15, <1>16, <1>17, <1>18 DEF Next, Goal

-----------------------------------------------------------------------------
(* Counting.                                                               *)

LEMMA SetsOfReplicas ==
    ASSUME NEW A \in SUBSET Replica, NEW B \in SUBSET Replica, NEW r \in Replica
    PROVE  /\ Cardinality(A) \in Nat
           /\ A \subseteq B => Cardinality(A) <= Cardinality(B)
           /\ A \subseteq B \cup {r} => Cardinality(A) <= Cardinality(B) + 1
           /\ r \in B /\ A \subseteq B \ {r} => Cardinality(A) + 1 <= Cardinality(B)
<1>1. IsFiniteSet(A) /\ IsFiniteSet(B) /\ Cardinality(A) \in Nat /\ Cardinality(B) \in Nat
  <2>1. IsFiniteSet(A) /\ IsFiniteSet(B)
    BY ReplicaAssumption, FS_Subset
  <2> QED
    BY <2>1, FS_CardinalityType
<1>2. A \subseteq B => Cardinality(A) <= Cardinality(B)
  BY <1>1, FS_Subset
<1>3. ASSUME A \subseteq B \cup {r} PROVE Cardinality(A) <= Cardinality(B) + 1
  <2>1. /\ IsFiniteSet(B \cup {r})
        /\ Cardinality(B \cup {r}) = IF r \in B THEN Cardinality(B) ELSE Cardinality(B) + 1
    BY <1>1, FS_AddElement
  <2>2. Cardinality(A) <= Cardinality(B \cup {r}) /\ Cardinality(B \cup {r}) \in Nat
    BY <1>3, <2>1, FS_Subset, FS_CardinalityType
  <2> QED
    BY <1>1, <2>1, <2>2
<1>4. ASSUME r \in B, A \subseteq B \ {r} PROVE Cardinality(A) + 1 <= Cardinality(B)
  <2>1. IsFiniteSet(B \ {r}) /\ Cardinality(B \ {r}) = Cardinality(B) - 1
    BY <1>1, <1>4, FS_RemoveElement
  <2>2. Cardinality(A) <= Cardinality(B \ {r})
    BY <1>4, <2>1, FS_Subset
  <2> QED
    BY <1>1, <2>1, <2>2
<1> QED
  BY <1>1, <1>2, <1>3, <1>4

\* A fault makes at most one more replica stray; nothing else does.
StraysStep ==
    \/ Strays' \subseteq Strays /\ faults' >= faults
    \/ faults' = faults + 1 /\ \E r \in Replica : Strays' \subseteq Strays \cup {r}

\* The ways a step may change what has been started and what may still be: it starts a run
\* that was possible, a stray spends its turn, or a fault or a resume pays for the change.
Accounted(s, t) ==
    \/ started'[s][t] = 0
    \/ /\ started'[s][t] = started[s][t]
       /\ Late(s, t)' \subseteq Late(s, t)
       /\ (Possible(s, t)' => Possible(s, t)) \/ faults' = faults + 1 \/ resumes'[s] = resumes[s] + 1
    \/ /\ started'[s][t] = started[s][t] + 1
       /\ Late(s, t)' \subseteq Late(s, t)
       /\ Possible(s, t) /\ ~ Possible(s, t)'
    \/ /\ \E r \in Replica : r \in Late(s, t) /\ Late(s, t)' \subseteq Late(s, t) \ {r}
       /\ \/ started'[s][t] = started[s][t] + 1 /\ (Possible(s, t)' => Possible(s, t))
          \/ started'[s][t] = started[s][t]
    \/ /\ faults' = faults + 1
       /\ \E r \in Replica : Late(s, t)' \subseteq Late(s, t) \cup {r}
       /\ started'[s][t] = started[s][t] /\ (Possible(s, t)' => Possible(s, t))

LEMMA AccountedIsCounted ==
    ASSUME TypeOK, TypeOK', CauseInv,
           NEW s \in Schedule, NEW t \in Time, Accounted(s, t), StraysStep,
           faults' >= faults, resumes'[s] >= resumes[s]
    PROVE  Cardinality(Strays') <= faults' /\ Counted(s, t)'
<1>0. faults \in Nat /\ faults' \in Nat /\ Strays \in SUBSET Replica /\ Strays' \in SUBSET Replica
  BY BoundAssumption DEF TypeOK, Strays
<1>1. Cardinality(Strays') <= faults' /\ Cardinality(Strays') \in Nat
  <2>1. Cardinality(Strays) <= faults
    BY DEF CauseInv
  <2>2. CASE Strays' \subseteq Strays /\ faults' >= faults
    <3>1. CASE Replica = {}
      <4>1. Strays = Strays'
        BY <3>1 DEF Strays
      <4> QED
        BY <1>0, <2>1, <2>2, <4>1, FS_Subset, FS_CardinalityType, ReplicaAssumption
    <3>2. CASE Replica # {}
      BY <1>0, <2>1, <2>2, <3>2, SetsOfReplicas
    <3> QED
      BY <3>1, <3>2
  <2>3. CASE faults' = faults + 1 /\ \E r \in Replica : Strays' \subseteq Strays \cup {r}
    <3>1. PICK r \in Replica : Strays' \subseteq Strays \cup {r}
      BY <2>3
    <3>2. /\ Cardinality(Strays') <= Cardinality(Strays) + 1
          /\ Cardinality(Strays) \in Nat /\ Cardinality(Strays') \in Nat
      BY <1>0, <3>1, SetsOfReplicas
    <3> QED
      BY <1>0, <2>1, <2>3, <3>2
  <2> QED
    BY <2>2, <2>3 DEF StraysStep
<1>2. Counted(s, t)'
  <2> DEFINE L  == Late(s, t)
             L2 == Late(s, t)'
             n  == Cardinality(L)
             n2 == Cardinality(L2)
             P  == Possible(s, t)
             P2 == Possible(s, t)'
  <2>0. L \in SUBSET Replica /\ L2 \in SUBSET Replica /\ L2 \subseteq Strays'
    BY DEF Late, Strays
  <2>1. n \in Nat /\ n2 \in Nat
    BY <2>0, ReplicaAssumption, FS_Subset, FS_CardinalityType
  <2>2. n2 <= faults'
    <3>1. n2 <= Cardinality(Strays')
      BY <1>0, <2>0, ReplicaAssumption, FS_Subset
    <3> QED
      BY <1>0, <1>1, <2>1, <3>1
  <2>3. /\ L2 \subseteq L => n2 <= n
        /\ \A r \in Replica : L2 \subseteq L \cup {r} => n2 <= n + 1
        /\ \A r \in Replica : r \in L /\ L2 \subseteq L \ {r} => n2 + 1 <= n
    <3>1. L2 \subseteq L => n2 <= n
      BY <2>0, ReplicaAssumption, FS_Subset
    <3> QED
      BY <2>0, <3>1, SetsOfReplicas
  <2>4. /\ started[s][t] \in Nat /\ started'[s][t] \in Nat
        /\ resumes[s] \in Nat /\ resumes'[s] \in Nat
    BY BoundAssumption DEF TypeOK
  <2>5. started[s][t] + n + (IF P THEN 1 ELSE 0) <= 1 + faults + resumes[s]
    BY DEF CauseInv, Counted
  <2>6. faults' >= faults /\ resumes'[s] >= resumes[s]
    OBVIOUS
  <2>7. \/ started'[s][t] = 0
        \/ /\ started'[s][t] = started[s][t] /\ n2 <= n
           /\ (P2 => P) \/ faults' = faults + 1 \/ resumes'[s] = resumes[s] + 1
        \/ started'[s][t] = started[s][t] + 1 /\ n2 <= n /\ P /\ ~ P2
        \/ /\ n2 + 1 <= n
           /\ \/ started'[s][t] = started[s][t] + 1 /\ (P2 => P)
              \/ started'[s][t] = started[s][t]
        \/ faults' = faults + 1 /\ n2 <= n + 1 /\ started'[s][t] = started[s][t] /\ (P2 => P)
    <3>1. Accounted(s, t)
      OBVIOUS
    <3> QED
      BY <2>3, <3>1 DEF Accounted
  <2> HIDE DEF n, n2, P, P2
  <2>8. started'[s][t] + n2 + (IF P2 THEN 1 ELSE 0) <= 1 + faults' + resumes'[s]
    BY <1>0, <2>1, <2>2, <2>4, <2>5, <2>6, <2>7
  <2> QED
    BY <2>8 DEF Counted, n2, P2
<1> QED
  BY <1>1, <1>2

-----------------------------------------------------------------------------
(* Every step is accounted for.                                            *)

\* A row in hand stands for one run: the one it was due for, or after it was started, the next.
LEMMA OneRunInHand ==
    ASSUME TypeOK, HandInv, NEW r \in Replica, NEW s \in Schedule, NEW t \in Time
    PROVE  /\ Run(s, t) \in Item
           /\ Run(s, t) \in todo[r] => t <= now[r]
           /\ Reopens(r, s, t) => t > now[r]
           /\ current[r] = Run(s, t) => ~ MayStart(r, s, t) /\ pc[r] = "advance"
           /\ pc[r] \in {"select", "lock", "query"} => ~ MayStart(r, s, t)
           /\ now[r] \in Int /\ t \in Int
<1>1. Run(s, t) \in Item /\ NoItem \notin Item /\ t \in Int /\ now[r] \in 0..MaxTime /\ now[r] \in Int
  BY PeriodAssumption, BoundAssumption, ItemAssumption DEF Run, Item, TypeOK, Time
<1>2. InHand(r)
  BY DEF HandInv
<1>3. Run(s, t) \in todo[r] => t <= now[r]
  BY <1>2 DEF InHand, Run
<1>4. Reopens(r, s, t) => t > now[r]
  <2>1. NextRun(s, now[r]) \in Time /\ now[r] < NextRun(s, now[r])
    BY <1>1, NextRunAhead
  <2> QED
    BY <1>1, <2>1 DEF Reopens
<1>5. ASSUME current[r] = Run(s, t) PROVE ~ MayStart(r, s, t) /\ pc[r] = "advance"
  <2>1. pc[r] = "advance" /\ current[r].at <= now[r] /\ \A i \in todo[r] : i.id # current[r].id
    BY <1>1, <1>2, <1>5 DEF InHand
  <2>2. Run(s, t).id = s /\ Run(s, t).at = t
    BY DEF Run
  <2>3. Run(s, t) \notin todo[r]
    BY <1>5, <2>1, <2>2
  <2>4. ~ Reopens(r, s, t)
    BY <1>1, <1>4, <1>5, <2>1, <2>2
  <2> QED
    BY <2>1, <2>3, <2>4 DEF MayStart
<1>6. pc[r] \in {"select", "lock", "query"} => ~ MayStart(r, s, t)
  BY <1>1, <1>2 DEF InHand, MayStart, Reopens
<1> QED
  BY <1>1, <1>3, <1>4, <1>5, <1>6

\* What a replica may start depends on its hand alone.
LEMMA SameHand ==
    ASSUME NEW r \in Replica, NEW s \in Schedule, NEW t \in Time,
           now'[r] = now[r], current'[r] = current[r], todo'[r] = todo[r]
    PROVE  MayStart(r, s, t)' = MayStart(r, s, t)
  BY DEF MayStart, Reopens

\* Requests: only a resume makes a run possible again, and a new schedule has run nothing.
LEMMA RequestAccounted ==
    ASSUME TypeOK, StartedInv, NEW z \in Schedule, Request(z),
           NEW s \in Schedule, NEW t \in Time
    PROVE  Accounted(s, t) /\ StraysStep
<1>0. /\ status \in [Schedule -> Status] /\ next \in [Schedule -> Time]
      /\ started[s][t] \in Nat /\ faults \in Nat /\ resumes \in [Schedule -> Nat]
  BY BoundAssumption DEF TypeOK
<1>1. UNCHANGED <<started, lock, stopping, faults, pc, now, todo, current>>
  BY DEF Request, CreateSchedule, Pause, Resume, DeleteSchedule, loop
<1>2. Late(s, t)' = Late(s, t) /\ Strays' = Strays
  BY <1>1 DEF Late, Strays, Stray, Leads, Working, MayStart, Reopens
<1>3. CASE CreateSchedule(z) /\ s = z
  BY <1>0, <1>1, <1>2, <1>3 DEF CreateSchedule, StartedInv, Accounted, StraysStep
<1>4. CASE Resume(z) /\ s = z
  BY <1>0, <1>1, <1>2, <1>4 DEF Resume, Accounted, StraysStep
<1>5. CASE ~ (CreateSchedule(z) /\ s = z) /\ ~ (Resume(z) /\ s = z)
  <2>1. /\ status'[s] = "ACTIVE" => status[s] = "ACTIVE"
        /\ next'[s] = next[s]
    BY <1>0, <1>5 DEF Request, CreateSchedule, Pause, Resume, DeleteSchedule
  <2>2. Possible(s, t)' => Possible(s, t)
    BY <1>1, <2>1 DEF Possible, Leads, MayStart, Reopens
  <2> QED
    BY <1>0, <1>1, <1>2, <2>2 DEF Accounted, StraysStep
<1> QED
  BY <1>3, <1>4, <1>5

\* The steps by which a replica comes to lead, and the end of its poll.
LEMMA LeadingAccounted ==
    ASSUME TypeOK, LockInv, HandInv, NEW r \in Replica,
           Ticks(r) \/ TryAcquireLock(r) \/ PollEnds(r) \/ PollFails(r),
           NEW s \in Schedule, NEW t \in Time
    PROVE  Accounted(s, t) /\ StraysStep
<1>0. /\ DOMAIN pc = Replica /\ faults \in Nat /\ Nobody \notin Replica
      /\ lock \in Replica \cup {Nobody}
  BY PeriodAssumption, BoundAssumption DEF TypeOK
<1>1. /\ UNCHANGED <<status, next, started, stopping, now, todo, current>>
      /\ faults' \in {faults, faults + 1}
      /\ lock' = lock \/ (lock = Nobody /\ lock' = r /\ pc[r] = "lock")
      /\ \A q \in Replica : q # r => pc'[q] = pc[q]
      /\ \/ pc'[r] = "select"
         \/ pc[r] = "select" /\ pc'[r] = "lock" /\ r \notin stopping
         \/ pc[r] = "lock" /\ pc'[r] = "query" /\ lock' = r
  <2>1. CASE Ticks(r)
    BY <1>0, <2>1 DEF Ticks, rows
  <2>2. CASE TryAcquireLock(r)
    <3>1. conn[r] = "held" => lock = r
      BY DEF LockInv
    <3> QED
      BY <1>0, <2>2, <3>1 DEF TryAcquireLock, Goto, rows
  <2>3. CASE PollEnds(r) \/ PollFails(r)
    BY <1>0, <2>3 DEF PollEnds, PollFails, Goto, Fault, rows
  <2> QED
    BY <2>1, <2>2, <2>3
<1>2. \A q \in Replica : Stray(q)' => Stray(q)
  BY <1>0, <1>1 DEF Stray, Leads, Working
<1>3. \A q \in Replica : q # r /\ Stray(q)' => pc'[q] = pc[q]
  BY <1>1
<1>4. Stray(r)' => pc[r] = "lock"
  BY <1>1 DEF Stray, Leads, Working
<1>5. \A q \in Replica : MayStart(q, s, t)' = MayStart(q, s, t)
  BY <1>1, SameHand
<1>6. Late(s, t)' \subseteq Late(s, t) /\ Strays' \subseteq Strays
  BY <1>2, <1>3, <1>4, <1>5 DEF Late, Strays
<1>7. Possible(s, t)' => Possible(s, t)
  <2>1. \A q \in Replica : Leads(q) => Leads(q)'
    BY <1>0, <1>1 DEF Leads
  <2>2. \A q \in Replica : Leads(q)' => Leads(q) \/ (q = r /\ pc[r] = "lock")
    BY <1>0, <1>1 DEF Leads
  <2>3. pc[r] = "lock" => ~ MayStart(r, s, t)
    BY OneRunInHand
  <2> QED
    BY <1>1, <1>5, <2>1, <2>2, <2>3 DEF Possible
<1> QED
  BY <1>0, <1>1, <1>6, <1>7 DEF Accounted, StraysStep

\* A poll reads a row: for the leader it was possible from the row, for a stray it counted before.
LEMMA QueryAccounted ==
    ASSUME TypeOK, HandInv, StartedInv, NEW r \in Replica, GetDueSchedules(r),
           NEW s \in Schedule, NEW t \in Time
    PROVE  Accounted(s, t) /\ StraysStep
<1>0. /\ DOMAIN pc = Replica /\ DOMAIN now = Replica /\ DOMAIN todo = Replica
      /\ clock \in 0..MaxTime /\ clock \in Int /\ t \in Int /\ faults \in Nat
      /\ started[s][t] \in Nat
  BY BoundAssumption, PeriodAssumption DEF TypeOK, Time
<1>1. /\ UNCHANGED <<status, next, started, lock, stopping, current, faults>>
      /\ pc[r] = "query" /\ pc'[r] = "start" /\ now'[r] = clock
      /\ Run(s, t) \in todo'[r] => next[s] = t /\ status[s] = "ACTIVE"
      /\ \A q \in Replica : q # r =>
            pc'[q] = pc[q] /\ now'[q] = now[q] /\ todo'[q] = todo[q]
  <2>1. /\ UNCHANGED <<status, next, started, lock, stopping, current, faults>>
        /\ pc[r] = "query" /\ pc' = [pc EXCEPT ![r] = "start"]
        /\ now' = [now EXCEPT ![r] = clock]
    BY DEF GetDueSchedules, rows, Goto
  <2>2. /\ todo'[r] = {i \in Item : i.at = next[i.id] /\ Due(i.id, clock)}
        /\ \A q \in Replica : q # r => todo'[q] = todo[q]
    BY <1>0 DEF GetDueSchedules
  <2>3. Run(s, t) \in todo'[r] => next[s] = t /\ status[s] = "ACTIVE"
    BY <2>2 DEF Run, Due
  <2> QED
    BY <1>0, <2>1, <2>2, <2>3
<1>2. \A q \in Replica : Stray(q)' <=> Stray(q)
  BY <1>1 DEF Stray, Leads, Working
<1>3. \A q \in Replica : q # r => MayStart(q, s, t)' = MayStart(q, s, t)
  BY <1>1, SameHand
<1>4. Strays' \subseteq Strays
  BY <1>2 DEF Strays
<1>5. \A q \in Replica : q # r /\ q \in Late(s, t)' => q \in Late(s, t)
  BY <1>1, <1>2, <1>3 DEF Late, Strays
<1>6. Stray(r) => r \in Late(s, t)
  BY <1>1 DEF Late, Strays
<1>7. Late(s, t)' \subseteq Late(s, t)
  BY <1>2, <1>5, <1>6 DEF Late, Strays
<1>8. CASE Leads(r)
  <2>1. CASE Reopens(r, s, t)'
    <3>1. t > clock
      <4>1. NextRun(s, clock) \in Time /\ clock < NextRun(s, clock)
        BY <1>0, NextRunAhead
      <4>2. t = NextRun(s, clock)
        BY <1>1, <2>1 DEF Reopens
      <4> QED
        BY <4>1, <4>2
    <3>2. started[s][t] = 0
      BY <1>0, <3>1 DEF StartedInv
    <3> QED
      BY <1>0, <1>1, <1>4, <3>2 DEF Accounted, StraysStep
  <2>2. CASE ~ Reopens(r, s, t)'
    <3>1. current[r] # Run(s, t)
      BY <1>1, OneRunInHand
    <3>2. \A q \in Replica : Leads(q) <=> q = r
      BY <1>8 DEF Leads
    <3>3. MayStart(r, s, t)' => Possible(s, t)
      BY <1>1, <2>2, <3>1, <3>2 DEF MayStart, Possible
    <3>4. Possible(s, t)' => Possible(s, t)
      BY <1>1, <3>2, <3>3 DEF Possible, Leads
    <3> QED
      BY <1>0, <1>1, <1>4, <1>7, <3>4 DEF Accounted, StraysStep
  <2> QED
    BY <2>1, <2>2
<1>9. CASE ~ Leads(r)
  <2>1. Possible(s, t)' => Possible(s, t)
    BY <1>1, <1>3, <1>9 DEF Possible, Leads
  <2> QED
    BY <1>0, <1>1, <1>4, <1>7, <2>1 DEF Accounted, StraysStep
<1> QED
  BY <1>8, <1>9

\* A workflow is started: what was possible no longer is, or a stray has spent its turn.
LEMMA StartAccounted ==
    ASSUME TypeOK, HandInv, TypeOK', HandInv', NEW r \in Replica, NEW i \in todo[r],
           StartWorkflow(r, i), NEW s \in Schedule, NEW t \in Time
    PROVE  Accounted(s, t) /\ StraysStep
<1>0. /\ DOMAIN pc = Replica /\ DOMAIN todo = Replica /\ DOMAIN current = Replica
      /\ i \in Item /\ faults \in Nat /\ started \in [Schedule -> [Time -> Nat]]
      /\ Item = [id : Schedule, at : Time]
  BY BoundAssumption DEF TypeOK, Item
<1>1. /\ UNCHANGED <<status, next, lock, stopping, faults, now>>
      /\ pc[r] = "start" /\ pc'[r] = "advance" /\ current'[r] = i
      /\ todo'[r] = todo[r] \ {i}
      /\ \A q \in Replica : q # r =>
            pc'[q] = pc[q] /\ todo'[q] = todo[q] /\ current'[q] = current[q]
  BY <1>0 DEF StartWorkflow, rows, Goto
<1>2. \A q \in Replica : Stray(q)' <=> Stray(q)
  BY <1>1 DEF Stray, Leads, Working
<1>3. \A q \in Replica : q # r => MayStart(q, s, t)' = MayStart(q, s, t)
  BY <1>1, SameHand
<1>4. MayStart(r, s, t)' => MayStart(r, s, t)
  BY <1>1 DEF MayStart, Reopens
<1>5. Strays' \subseteq Strays /\ Late(s, t)' \subseteq Late(s, t)
  BY <1>1, <1>2, <1>3, <1>4 DEF Late, Strays
<1>6. current[r] # Run(s, t)
  BY <1>1, OneRunInHand
<1>7. ~ Leads(r) \/ i # Run(s, t) => (Possible(s, t)' => Possible(s, t))
  BY <1>1, <1>3, <1>4, <1>6 DEF Possible, Leads
<1>8. CASE i # Run(s, t)
  <2>1. started'[s][t] = started[s][t]
    BY <1>0, <1>8 DEF StartWorkflow, Run
  <2> QED
    BY <1>0, <1>1, <1>5, <1>7, <1>8, <2>1 DEF Accounted, StraysStep
<1>9. CASE i = Run(s, t)
  <2>1. started'[s][t] = started[s][t] + 1
    BY <1>0, <1>9 DEF StartWorkflow, Run
  <2>2. MayStart(r, s, t) /\ ~ MayStart(r, s, t)'
    <3>1. current'[r] = Run(s, t)
      BY <1>1, <1>9
    <3>2. MayStart(r, s, t)
      BY <1>9 DEF MayStart
    <3>3. ASSUME current'[r] = Run(s, t) PROVE ~ MayStart(r, s, t)'
      <4>1. InHand(r)'
        BY DEF HandInv
      <4>2. /\ i.at <= now'[r] /\ i.id = s /\ i.at = t
            /\ \A j \in todo'[r] : j.id # s
        BY <1>0, <1>1, <1>9, <4>1 DEF InHand, Run
      <4>3. ~ Reopens(r, s, t)
        <5>1. t <= now[r] /\ t \in Int /\ now[r] \in Int
          BY <1>1, <4>2, OneRunInHand
        <5> QED
          BY <5>1, OneRunInHand
      <4>4. Run(s, t) \notin todo'[r]
        BY <4>2 DEF Run
      <4> QED
        BY <1>1, <4>3, <4>4 DEF MayStart, Reopens
    <3> QED
      BY <3>1, <3>2, <3>3
  <2>3. CASE Leads(r)
    <3>1. \A q \in Replica : Leads(q)' <=> q = r
      BY <1>1, <2>3 DEF Leads
    <3>2. Possible(s, t)
      BY <2>2, <2>3 DEF Possible
    <3>3. ~ Possible(s, t)'
      BY <1>1, <1>9, <2>2, <3>1 DEF Possible
    <3> QED
      BY <1>0, <1>1, <1>5, <2>1, <3>2, <3>3 DEF Accounted, StraysStep
  <2>4. CASE ~ Leads(r)
    <3>1. r \in Late(s, t)
      BY <1>1, <2>2, <2>4 DEF Late, Strays, Stray, Working
    <3>2. r \notin Late(s, t)'
      BY <1>1, <2>2 DEF Late
    <3> QED
      BY <1>0, <1>1, <1>5, <1>7, <2>1, <2>4, <3>1, <3>2 DEF Accounted, StraysStep
  <2> QED
    BY <2>3, <2>4
<1> QED
  BY <1>8, <1>9

\* The row is moved on: the leader makes possible what already was, a stray spends its turn.
LEMMA AdvanceAccounted ==
    ASSUME TypeOK, HandInv, NEW r \in Replica, AdvanceSchedule(r),
           NEW s \in Schedule, NEW t \in Time
    PROVE  Accounted(s, t) /\ StraysStep
<1>0. /\ DOMAIN pc = Replica /\ DOMAIN current = Replica /\ faults \in Nat
      /\ status \in [Schedule -> Status] /\ next \in [Schedule -> Time]
      /\ started[s][t] \in Nat /\ NoItem \notin Item /\ InHand(r)
      /\ Run(s, t) \in Item /\ todo[r] \subseteq Item
  BY BoundAssumption, ItemAssumption DEF TypeOK, HandInv, Run, Item
<1>1. /\ UNCHANGED <<started, lock, stopping, faults, now, todo>>
      /\ pc[r] = "advance" /\ pc'[r] = "start" /\ current'[r] = NoItem
      /\ \A q \in Replica : q # r => pc'[q] = pc[q] /\ current'[q] = current[q]
      /\ UpdateScheduleState(current[r].id, now[r])
  BY <1>0 DEF AdvanceSchedule, Goto
<1>2. current[r] \in Item /\ current[r].id \in Schedule /\ \A i \in todo[r] : i.id # current[r].id
  BY <1>0, <1>1 DEF InHand, Item
<1>3. \A q \in Replica : Stray(q)' <=> Stray(q)
  BY <1>1 DEF Stray, Leads, Working
<1>4. \A q \in Replica : q # r => MayStart(q, s, t)' = MayStart(q, s, t)
  BY <1>1, SameHand
<1>5. MayStart(r, s, t)' => MayStart(r, s, t) /\ s # current[r].id
  <2>1. Run(s, t).id = s
    BY DEF Run
  <2> QED
    BY <1>0, <1>1, <1>2, <2>1 DEF MayStart, Reopens
<1>6. Strays' \subseteq Strays /\ Late(s, t)' \subseteq Late(s, t)
  BY <1>1, <1>3, <1>4, <1>5 DEF Late, Strays
<1>7. \A q \in Replica : Leads(q)' <=> Leads(q)
  BY <1>1 DEF Leads
<1>8. ASSUME Possible(s, t)' => Possible(s, t) PROVE Accounted(s, t) /\ StraysStep
  BY <1>0, <1>1, <1>6, <1>8 DEF Accounted, StraysStep
<1>9. ASSUME ~ (status'[s] = "ACTIVE" /\ next'[s] = t) PROVE Possible(s, t)' => Possible(s, t)
  BY <1>4, <1>5, <1>7, <1>9 DEF Possible
<1>10. CASE s # current[r].id
  <2>1. status'[s] = status[s] /\ next'[s] = next[s]
    BY <1>0, <1>1, <1>2, <1>10 DEF UpdateScheduleState, rows
  <2>2. current[r] # Run(s, t)
    BY <1>10 DEF Run
  <2>3. Possible(s, t)' => Possible(s, t)
    BY <1>1, <1>4, <1>5, <1>7, <2>1, <2>2 DEF Possible
  <2> QED
    BY <1>8, <2>3
<1>11. CASE s = current[r].id /\ ~ (Exists(s) /\ Kind[s] # "once")
  <2>1. status'[s] # "ACTIVE"
    BY <1>0, <1>1, <1>11 DEF UpdateScheduleState, rows, Exists
  <2> QED
    BY <1>8, <1>9, <2>1
<1>12. CASE s = current[r].id /\ Exists(s) /\ Kind[s] # "once"
  <2>1. next'[s] = NextRun(s, now[r])
    BY <1>0, <1>1, <1>12 DEF UpdateScheduleState
  <2>2. CASE t # NextRun(s, now[r])
    BY <1>8, <1>9, <2>1, <2>2
  <2>3. CASE t = NextRun(s, now[r])
    <3>1. MayStart(r, s, t)
      BY <1>2, <1>12, <2>3 DEF MayStart, Reopens
    <3>2. CASE Leads(r)
      BY <1>8, <3>1, <3>2 DEF Possible
    <3>3. CASE ~ Leads(r)
      <4>1. r \in Late(s, t)
        BY <1>1, <3>1, <3>3 DEF Late, Strays, Stray, Working
      <4>2. r \notin Late(s, t)'
        BY <1>1, <1>5, <1>12 DEF Late
      <4> QED
        BY <1>0, <1>1, <1>6, <4>1, <4>2 DEF Accounted, StraysStep
    <3> QED
      BY <3>2, <3>3
  <2> QED
    BY <2>2, <2>3
<1> QED
  BY <1>10, <1>11, <1>12

\* Failed calls: the fault pays for what the leader has left undone.
LEMMA FailureAccounted ==
    ASSUME TypeOK, HandInv, NEW r \in Replica,
           AdvanceScheduleFails(r) \/ \E i \in todo[r] : StartWorkflowFails(r, i),
           NEW s \in Schedule, NEW t \in Time
    PROVE  Accounted(s, t) /\ StraysStep
<1>0. /\ DOMAIN pc = Replica /\ DOMAIN current = Replica /\ DOMAIN todo = Replica /\ faults \in Nat
      /\ NoItem \notin Item /\ Run(s, t) \in Item
  BY BoundAssumption, ItemAssumption DEF TypeOK, Run, Item
<1>1. /\ UNCHANGED <<started, lock, stopping, now>> /\ faults' = faults + 1
      /\ pc[r] \in {"start", "advance"} /\ pc'[r] = "start"
      /\ todo'[r] \subseteq todo[r] /\ current'[r] \in {current[r], NoItem}
      /\ \A q \in Replica : q # r =>
            pc'[q] = pc[q] /\ current'[q] = current[q] /\ todo'[q] = todo[q]
  <2>1. CASE AdvanceScheduleFails(r)
    BY <1>0, <2>1 DEF AdvanceScheduleFails, Fault, Goto
  <2>2. CASE \E i \in todo[r] : StartWorkflowFails(r, i)
    BY <1>0, <2>2 DEF StartWorkflowFails, Fault
  <2> QED
    BY <2>1, <2>2
<1>2. \A q \in Replica : Stray(q)' <=> Stray(q)
  BY <1>1 DEF Stray, Leads, Working
<1>3. \A q \in Replica : q # r => MayStart(q, s, t)' = MayStart(q, s, t)
  BY <1>1, SameHand
<1>4. MayStart(r, s, t)' => MayStart(r, s, t)
  BY <1>0, <1>1 DEF MayStart, Reopens
<1>5. Strays' \subseteq Strays /\ Late(s, t)' \subseteq Late(s, t)
  BY <1>1, <1>2, <1>3, <1>4 DEF Late, Strays
<1> QED
  BY <1>0, <1>1, <1>5 DEF Accounted, StraysStep

\* Shutdown or a lost connection: the replica may become a stray, and the fault pays for it.
LEMMA ReleaseAccounted ==
    ASSUME TypeOK, LockInv, HandInv, NEW r \in Replica, Stop(r) \/ LoseConnection(r),
           NEW s \in Schedule, NEW t \in Time
    PROVE  Accounted(s, t) /\ StraysStep
<1>0. faults \in Nat /\ Nobody \notin Replica /\ (conn[r] = "held" => lock = r)
  BY PeriodAssumption, BoundAssumption DEF TypeOK, LockInv
<1>1. /\ UNCHANGED <<status, next, started, pc, now, todo, current>> /\ faults' = faults + 1
      /\ \A q \in Replica : q # r => (q \in stopping' <=> q \in stopping)
      /\ lock' = Unlocked(r)
  BY DEF Stop, LoseConnection, Fault, rows, loop
<1>2. /\ \A q \in Replica : q # r => (Leads(q)' <=> Leads(q))
      /\ ~ Leads(r)'
  BY <1>0, <1>1 DEF Leads, Unlocked
<1>3. \A q \in Replica : q # r => (Stray(q)' <=> Stray(q))
  BY <1>1, <1>2 DEF Stray, Working
<1>4. \A q \in Replica : MayStart(q, s, t)' = MayStart(q, s, t)
  BY <1>1, SameHand
<1>5. Strays' \subseteq Strays \cup {r} /\ Late(s, t)' \subseteq Late(s, t) \cup {r}
  BY <1>1, <1>3, <1>4 DEF Strays, Late
<1>6. StraysStep
  BY <1>1, <1>5 DEF StraysStep
<1>7. CASE current[r] = Run(s, t)
  <2>1. r \notin Late(s, t)'
    <3>1. ~ MayStart(r, s, t) /\ pc[r] = "advance"
      BY <1>7, OneRunInHand
    <3> QED
      BY <1>1, <1>4, <3>1 DEF Late
  <2>2. Late(s, t)' \subseteq Late(s, t)
    BY <1>5, <2>1
  <2> QED
    BY <1>1, <1>6, <2>2 DEF Accounted
<1>8. CASE current[r] # Run(s, t)
  <2>1. Possible(s, t)' => Possible(s, t)
    BY <1>1, <1>2, <1>4, <1>8 DEF Possible
  <2> QED
    BY <1>1, <1>5, <1>6, <2>1 DEF Accounted
<1> QED
  BY <1>7, <1>8

\* A process ends: what it had in hand is gone; if it led, the fault pays for the row it left.
LEMMA EndAccounted ==
    ASSUME TypeOK, NEW r \in Replica, Crash(r) \/ Exit(r),
           NEW s \in Schedule, NEW t \in Time
    PROVE  Accounted(s, t) /\ StraysStep
<1>0. /\ DOMAIN pc = Replica /\ DOMAIN current = Replica /\ DOMAIN todo = Replica
      /\ faults \in Nat /\ Nobody \notin Replica
  BY PeriodAssumption, BoundAssumption DEF TypeOK
<1>1. /\ UNCHANGED <<status, next, started, now>>
      /\ lock' = Unlocked(r) /\ stopping' = stopping \ {r} /\ pc'[r] = "select"
      /\ \A q \in Replica : q # r =>
            pc'[q] = pc[q] /\ current'[q] = current[q] /\ todo'[q] = todo[q]
      /\ faults' = faults + 1 \/ (faults' = faults /\ r \in stopping)
  BY <1>0 DEF Crash, Exit, Restarted, Fault, rows
<1>2. /\ \A q \in Replica : q # r => (Leads(q)' <=> Leads(q))
      /\ ~ Leads(r)'
  BY <1>0, <1>1 DEF Leads, Unlocked
<1>3. /\ \A q \in Replica : q # r => (Stray(q)' <=> Stray(q))
      /\ ~ Stray(r)'
  BY <1>1, <1>2 DEF Stray, Working
<1>4. \A q \in Replica : q # r => MayStart(q, s, t)' = MayStart(q, s, t)
  BY <1>1, SameHand
<1>5. Strays' \subseteq Strays /\ Late(s, t)' \subseteq Late(s, t)
  BY <1>1, <1>3, <1>4 DEF Strays, Late
<1>6. r \in stopping => (Possible(s, t)' => Possible(s, t))
  <2>1. r \in stopping => ~ Leads(r)
    BY DEF Leads
  <2> QED
    BY <1>1, <1>2, <1>4, <2>1 DEF Possible
<1> QED
  BY <1>0, <1>1, <1>5, <1>6 DEF Accounted, StraysStep

LEMMA IdleAccounted ==
    ASSUME TypeOK, TimePasses \/ UNCHANGED vars, NEW s \in Schedule, NEW t \in Time
    PROVE  Accounted(s, t) /\ StraysStep
<1>1. UNCHANGED <<status, next, started, lock, stopping, faults, pc, now, todo, current>>
  BY DEF TimePasses, vars, rows, loop
<1>2. Late(s, t)' = Late(s, t) /\ Strays' = Strays /\ Possible(s, t)' = Possible(s, t)
  BY <1>1 DEF Late, Strays, Stray, Leads, Working, MayStart, Reopens, Possible
<1> QED
  BY <1>1, <1>2, BoundAssumption DEF Accounted, StraysStep, TypeOK

LEMMA StepAccounted ==
    ASSUME TypeOK, LockInv, HandInv, StartedInv, TypeOK', HandInv', [Next]_vars,
           NEW s \in Schedule, NEW t \in Time
    PROVE  Accounted(s, t) /\ StraysStep
<1>1. ASSUME NEW z \in Schedule, Request(z) PROVE Accounted(s, t) /\ StraysStep
  BY <1>1, RequestAccounted
<1>2. ASSUME NEW r \in Replica, Poll(r) PROVE Accounted(s, t) /\ StraysStep
  <2>1. CASE Ticks(r) \/ TryAcquireLock(r) \/ PollEnds(r)
    BY <2>1, LeadingAccounted
  <2>2. CASE GetDueSchedules(r)
    BY <2>2, QueryAccounted
  <2>3. ASSUME NEW i \in todo[r], StartWorkflow(r, i) PROVE Accounted(s, t) /\ StraysStep
    BY <2>3, StartAccounted
  <2>4. CASE AdvanceSchedule(r)
    BY <2>4, AdvanceAccounted
  <2> QED
    BY <1>2, <2>1, <2>2, <2>3, <2>4 DEF Poll, Starting
<1>3. ASSUME NEW r \in Replica, Faulty(r) PROVE Accounted(s, t) /\ StraysStep
  <2>1. CASE PollFails(r)
    BY <2>1, LeadingAccounted
  <2>2. CASE AdvanceScheduleFails(r) \/ \E i \in todo[r] : StartWorkflowFails(r, i)
    BY <2>2, FailureAccounted
  <2>3. CASE Stop(r) \/ LoseConnection(r)
    BY <2>3, ReleaseAccounted
  <2>4. CASE Crash(r)
    BY <2>4, EndAccounted
  <2> QED
    BY <1>3, <2>1, <2>2, <2>3, <2>4 DEF Faulty
<1>4. ASSUME NEW r \in Replica, Exit(r) PROVE Accounted(s, t) /\ StraysStep
  BY <1>4, EndAccounted
<1>5. CASE TimePasses \/ UNCHANGED vars
  BY <1>5, IdleAccounted
<1> QED
  BY <1>1, <1>2, <1>3, <1>4, <1>5 DEF Next

LEMMA CountersGrow ==
    ASSUME TypeOK, [Next]_vars, NEW s \in Schedule
    PROVE  faults' >= faults /\ resumes'[s] >= resumes[s]
<1>0. faults \in Nat /\ resumes \in [Schedule -> Nat] /\ resumes[s] \in Nat
  BY BoundAssumption DEF TypeOK
<1>1. ASSUME NEW z \in Schedule, Request(z) PROVE faults' >= faults /\ resumes'[s] >= resumes[s]
  BY <1>0, <1>1 DEF Request, CreateSchedule, Pause, Resume, DeleteSchedule
<1>2. ASSUME NEW r \in Replica, Poll(r) \/ Faulty(r) \/ Exit(r)
      PROVE  faults' >= faults /\ resumes'[s] >= resumes[s]
  <2>1. UNCHANGED resumes /\ faults' \in {faults, faults + 1}
    BY <1>2 DEF Poll, Faulty, Exit, Ticks, TryAcquireLock, GetDueSchedules, Starting, StartWorkflow,
       PollEnds, AdvanceSchedule, StartWorkflowFails, PollFails, AdvanceScheduleFails, Stop, Crash,
       LoseConnection, Restarted, Fault
  <2> QED
    BY <1>0, <2>1
<1>3. CASE TimePasses \/ UNCHANGED vars
  BY <1>0, <1>3 DEF TimePasses, vars
<1> QED
  BY <1>1, <1>2, <1>3 DEF Next

-----------------------------------------------------------------------------
(* The theorems.                                                           *)

LEMMA InitIInv == Init => IInv
<1> SUFFICES ASSUME Init PROVE IInv
  OBVIOUS
<1>1. TypeOK
  BY InitTypeOK
<1>2. Nobody \notin Replica /\ NoItem \notin Item /\ MaxFaults \in Nat
  BY PeriodAssumption, ItemAssumption, BoundAssumption
<1>3. LockInv
  BY <1>2 DEF Init, LockInv, Working
<1>4. HandInv /\ StartedInv /\ FreshInv
  BY <1>1, <1>2 DEF Init, HandInv, InHand, StartedInv, FreshInv
<1>5. CauseInv
  <2>1. Strays = {}
    BY DEF Init, Strays, Stray, Working
  <2>2. ASSUME NEW s \in Schedule, NEW t \in Time PROVE Counted(s, t)
    <3>1. Late(s, t) = {} /\ ~ Possible(s, t)
      BY <1>2, <2>1 DEF Init, Late, Possible, Leads
    <3> QED
      BY <3>1, FS_EmptySet DEF Init, Counted
  <2> QED
    BY <2>1, <2>2, FS_EmptySet DEF Init, CauseInv
<1> QED
  BY <1>1, <1>3, <1>4, <1>5 DEF IInv

LEMMA NextIInv == IInv /\ [Next]_vars => IInv'
<1> SUFFICES ASSUME IInv, [Next]_vars PROVE IInv'
  OBVIOUS
<1>1. TypeOK' /\ LockInv' /\ HandInv' /\ StartedInv' /\ FreshInv'
  BY NextTypeOK, NextLockInv, NextHandInv, NextStartedInv, NextFreshInv DEF IInv
<1>2. ASSUME NEW s \in Schedule, NEW t \in Time
      PROVE  Cardinality(Strays') <= faults' /\ Counted(s, t)'
  <2>1. Accounted(s, t) /\ StraysStep
    BY <1>1, StepAccounted DEF IInv
  <2>2. faults' >= faults /\ resumes'[s] >= resumes[s]
    BY CountersGrow DEF IInv
  <2> QED
    BY <1>1, <2>1, <2>2, AccountedIsCounted DEF IInv
<1>3. CauseInv'
  BY <1>2 DEF CauseInv
<1> QED
  BY <1>1, <1>3 DEF IInv

\* The invariant the other theorems follow from: types, the lock and its connection, what a
\* replica holds between reading a row and moving it on, and the causes of every start.
THEOREM Inductive == Spec => []IInv
<1> QED
  BY InitIInv, NextIInv, PTL DEF Spec

\* Every variable keeps its type: next_run_at stays within a period of the clock's bound.
THEOREM TypeCorrect == Spec => []TypeOK
<1>1. IInv => TypeOK
  BY DEF IInv
<1> QED
  BY <1>1, Inductive, PTL

\* A replica that polls holds advisory lock 1000, as long as nothing has failed.
THEOREM LeaderIsAlone == Spec => []OneLeader
<1>1. IInv => OneLeader
  BY DEF IInv, LockInv, OneLeader, Working
<1> QED
  BY <1>1, Inductive, PTL

\* A run is started once, and once more at most for each fault and each resume: poll starts
\* the workflow in one transaction and moves the row on in another.
THEOREM RunsHaveCauses == Spec => []OncePerRun
<1>1. IInv => OncePerRun
  <2> SUFFICES ASSUME IInv, NEW s \in Schedule, NEW t \in Time
               PROVE  started[s][t] <= 1 + faults + resumes[s]
    BY DEF OncePerRun
  <2>1. Late(s, t) \subseteq Replica
    BY DEF Late, Strays
  <2>2. Cardinality(Late(s, t)) \in Nat
    BY <2>1, ReplicaAssumption, FS_Subset, FS_CardinalityType
  <2>3. started[s][t] \in Nat /\ faults \in Nat /\ resumes[s] \in Nat
    BY BoundAssumption DEF IInv, TypeOK
  <2>4. started[s][t] + Cardinality(Late(s, t)) + (IF Possible(s, t) THEN 1 ELSE 0)
            <= 1 + faults + resumes[s]
    BY DEF IInv, CauseInv, Counted
  <2> HIDE DEF Possible
  <2> QED
    BY <2>2, <2>3, <2>4
<1> QED
  BY <1>1, Inductive, PTL

\* next_run_at moves beyond a run only when that run has been started, unless a fault lets
\* two replicas poll at a time; no request, and no order of them, passes a run over.
THEOREM RunsAreKept == Spec => RunsNotSkipped
<1>1. ASSUME IInv, [Next]_vars, NEW s \in Schedule, faults = 0, Exists(s), next'[s] # next[s]
      PROVE  started[s][next[s]] > 0
  <2>0. next \in [Schedule -> Time]
    BY <1>1 DEF IInv, TypeOK
  <2>1. ASSUME NEW z \in Schedule, Request(z) PROVE FALSE
    BY <1>1, <2>0, <2>1 DEF Request, CreateSchedule, Pause, Resume, DeleteSchedule, Exists
  <2>2. PICK r \in Replica : AdvanceSchedule(r)
    <3>1. ASSUME NEW r \in Replica, Poll(r) \/ Faulty(r) \/ Exit(r), ~ AdvanceSchedule(r)
          PROVE  UNCHANGED next
      BY <3>1 DEF Poll, Faulty, Exit, Ticks, TryAcquireLock, GetDueSchedules, Starting,
         StartWorkflow, PollEnds, StartWorkflowFails, PollFails, AdvanceScheduleFails, Stop, Crash,
         LoseConnection, Restarted, rows
    <3>2. TimePasses \/ UNCHANGED vars => UNCHANGED next
      BY DEF TimePasses, vars, rows
    <3> QED
      BY <1>1, <2>1, <3>1, <3>2 DEF Next
  <2>3. s = current[r].id /\ pc[r] = "advance"
    BY <1>1, <2>0, <2>2 DEF AdvanceSchedule, UpdateScheduleState, rows
  <2> QED
    BY <1>1, <2>3 DEF IInv, FreshInv
<1>2. IInv /\ [Next]_vars =>
          \A s \in Schedule : faults = 0 /\ Exists(s) /\ next'[s] # next[s] => started[s][next[s]] > 0
  BY <1>1
<1> QED
  BY <1>2, Inductive, PTL DEF RunsNotSkipped, Spec
=============================================================================
