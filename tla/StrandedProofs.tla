--------------------------- MODULE StrandedProofs ---------------------------
(***************************************************************************)
(* An execution that still has to move has something that moves it         *)
(* (Engine!NoStranded), for every workflow, every number of executions,    *)
(* engines and reapers, reports repeated, late or contradicting each other *)
(* without limit, and faults everywhere but between two transactions of a  *)
(* handler.                                                                *)
(*                                                                         *)
(* An open row alone does not move an execution: the success of a row that *)
(* is not the last one reached schedules nothing.  The invariant names the *)
(* rows whose report does (Leads), and what a handler still owes that has  *)
(* closed such a row (Owes).  A fault between the two transactions loses   *)
(* the debt (hence UninterruptedSpec), an operator's request adds open     *)
(* rows that lead nowhere (hence Client = {}).                             *)
(***************************************************************************)
EXTENDS EngineProofs

\* Its success schedules the next activity, or completes the workflow.
Frontier(k) == k.name \in Step /\ (k.name = N \/ act[Row(k.exec, k.name + 1, 1)] = "NONE")

\* A report of k moves its execution on.
Leads(k) == IF status[k.exec] = "RUNNING" THEN Frontier(k) ELSE k.name \notin Step

\* The next transactions of p move its execution on.
Owes(p) ==
    LET k == h[p].key IN
    \/ h[p].pc \in {"readExec", "advance"} /\ (status[k.exec] = "COMPENSATING" \/ Leads(k))
    \/ h[p].pc = "retry" /\ Leads(k) /\ act[NextAttempt(k)] = "NONE"
    \/ h[p].pc = "compensate"

Driven(e) ==
    Open(e) => \/ \E k \in Key : k.exec = e /\ act[k] = "PENDING" /\ Leads(k)
               \/ \E p \in Proc : Owes(p) /\ h[p].key.exec = e

\* The status a handler decides on is still the status of the execution.
SeenInv ==
    \A p \in Proc : h[p].pc \in {"fail", "advance", "compensate"} => h[p].seen = status[h[p].key.exec]

\* No compensation is scheduled while the execution runs forwards.
ForwardInv == \A k \in Key : status[k.exec] = "RUNNING" /\ k.name \notin Step => act[k] = "NONE"

\* Only an operator deletes executions.
KeptInv == \A e \in Exec : status[e] # "DELETED"

\* What only an operator could disturb.
QuietInv == SeenInv /\ ForwardInv /\ KeptInv

\* What a fault could disturb, too.
MovingInv == \A e \in Exec : Driven(e)

-----------------------------------------------------------------------------
(* Steps outside an execution, and steps that leave the tables alone.      *)

LEMMA Successor ==
    ASSUME NEW k \in Key, k.name \in Step, k.name # N
    PROVE  /\ k.name + 1 \in Step
           /\ Row(k.exec, k.name + 1, 1) \in Key
           /\ Row(k.exec, k.name + 1, 1).exec = k.exec
           /\ Row(k.exec, k.name + 1, 1).name = k.name + 1
           /\ Row(k.exec, k.name + 1, 1).attempt = 1
<1>1. k.name + 1 \in Step
  BY WorkflowAssumption DEF Step
<1>2. k.exec \in Exec /\ k.name + 1 \in Name /\ 1 \in 1..AttemptCap
  BY <1>1, AttemptAssumption DEF Key, Name
<1> QED
  BY <1>1, <1>2, RowType DEF Row

\* Whether a row leads is a matter of its own execution.
LEMMA LeadsStays ==
    ASSUME NEW k \in Key, status'[k.exec] = status[k.exec],
           \A j \in Key : j.exec = k.exec /\ act[j] = "NONE" => act'[j] = "NONE" \/ j.attempt # 1,
           Leads(k)
    PROVE  Leads(k)'
<1>1. CASE status[k.exec] # "RUNNING"
  BY <1>1 DEF Leads
<1>2. CASE status[k.exec] = "RUNNING"
  <2>1. Frontier(k)
    BY <1>2 DEF Leads
  <2>2. Frontier(k)'
    BY <2>1, Successor DEF Frontier
  <2> QED
    BY <1>2, <2>2 DEF Leads
<1> QED
  BY <1>1, <1>2

\* An execution that no step of p concerns stays driven.
LEMMA OthersDriven ==
    ASSUME IInv, NEW e \in Exec, Driven(e), status'[e] = status[e],
           \A k \in Key : k.exec = e => act'[k] = act[k],
           \A q \in Proc : Owes(q) /\ h[q].key.exec = e => h'[q] = h[q]
    PROVE  Driven(e)'
<1> SUFFICES ASSUME Open(e)' PROVE Driven(e)'
  BY DEF Driven
<1>1. Open(e)
  BY DEF Open
<1>2. ASSUME NEW k \in Key, k.exec = e, Leads(k) PROVE Leads(k)'
  BY <1>2, LeadsStays
<1>3. CASE \E k \in Key : k.exec = e /\ act[k] = "PENDING" /\ Leads(k)
  BY <1>2, <1>3 DEF Driven
<1>4. ASSUME NEW q \in Proc, Owes(q), h[q].key.exec = e PROVE Owes(q)' /\ h'[q].key.exec = e
  <2>1. h'[q] = h[q]
    BY <1>4
  <2>2. h[q].key \in Key
    BY <1>4 DEF IInv, HandlerInv, Owes
  <2>3. CASE h[q].pc \in {"readExec", "advance"}
    BY <1>2, <1>4, <2>1, <2>2, <2>3 DEF Owes
  <2>4. CASE h[q].pc = "compensate"
    BY <1>4, <2>1, <2>4 DEF Owes
  <2>5. CASE h[q].pc = "retry"
    <3>1. h[q].key.attempt < Budget(h[q].key.name) /\ h[q].key.name \in Name
      BY <2>2, <2>5 DEF IInv, HandlerInv, Key
    <3>2. h[q].key.attempt < AttemptCap
      BY <2>2, <3>1, BudgetType, AttemptAssumption DEF Key
    <3>3. NextAttempt(h[q].key) \in Key /\ NextAttempt(h[q].key).exec = e
      BY <1>4, <2>2, <3>2, NextAttemptType
    <3>4. Leads(h[q].key) /\ act[NextAttempt(h[q].key)] = "NONE"
      BY <1>4, <2>5 DEF Owes
    <3>5. Leads(h[q].key)' /\ act'[NextAttempt(h[q].key)] = "NONE"
      BY <1>2, <1>4, <2>1, <2>2, <3>3, <3>4
    <3> QED
      BY <1>4, <2>1, <2>5, <3>5 DEF Owes
  <2> QED
    BY <1>4, <2>3, <2>4, <2>5 DEF Owes
<1> QED
  BY <1>1, <1>3, <1>4 DEF Driven

-----------------------------------------------------------------------------
(* The steps of a handler.                                                 *)

LEMMA HandlerFrame ==
    ASSUME IInv, NEW p \in Consumer \cup Reaper, Handle(p)
    PROVE  /\ p \in Proc
           /\ h[p].pc \in Locked \cup {"wait"}
           /\ h[p].key \in Key /\ h[p].key.exec \in Exec /\ h[p].key.name \in Name
           /\ faults' = faults
           /\ \A q \in Proc \ {p} : h'[q] = h[q]
           /\ \A e \in Exec \ {h[p].key.exec} : status'[e] = status[e]
           /\ \A k \in Key : k.exec # h[p].key.exec => act'[k] = act[k]
<1> PICK k : k = h[p].key
  OBVIOUS
<1>1. p \in Proc
  BY DEF Proc
<1>2. h[p].pc \in Locked \cup {"wait"}
  BY DEF Handle, BeginSuccess, CompleteStep, ReadExecution, AdvanceCompensation, FinishCompensation,
     AdvanceStep, FinishWorkflow, UnknownActivity, BeginFailure, FailStep, RetryStep, CompensateStep,
     FailWorkflow, Locked
<1>3. k \in Key /\ k.exec \in Exec /\ k.name \in Name
  BY <1>1, <1>2 DEF IInv, HandlerInv, Locked, Key
<1>4. faults' = faults
  BY DEF Handle, BeginSuccess, CompleteStep, ReadExecution, AdvanceCompensation, FinishCompensation,
     AdvanceStep, FinishWorkflow, UnknownActivity, BeginFailure, FailStep, RetryStep, CompensateStep,
     FailWorkflow, env
<1>5. \A q \in Proc \ {p} : h'[q] = h[q]
  BY DEF Handle, BeginSuccess, CompleteStep, ReadExecution, AdvanceCompensation, FinishCompensation,
     AdvanceStep, FinishWorkflow, UnknownActivity, BeginFailure, FailStep, RetryStep, CompensateStep,
     FailWorkflow, Rejected, Return, Goto, IInv, TypeOK
<1>6. CASE BeginSuccess(p) \/ BeginFailure(p) \/ ReadExecution(p) \/ UnknownActivity(p)
  BY <1>1, <1>2, <1>3, <1>4, <1>5, <1>6
  DEF BeginSuccess, BeginFailure, ReadExecution, UnknownActivity, Rejected, db
<1>7. CASE UNCHANGED db
  BY <1>1, <1>2, <1>3, <1>4, <1>5, <1>7 DEF db
<1>8. CASE CompleteStep(p) \/ FailStep(p)
  <2>1. CompleteActivity(k) \/ FailActivity(k) \/ DeadLetterActivity(k) \/ UNCHANGED db
    BY <1>8 DEF CompleteStep, FailStep, Rejected
  <2>2. \/ UNCHANGED db
        \/ status' = status /\ \A j \in Key : j # k => act'[j] = act[j]
    BY <2>1 DEF IInv, TypeOK, CompleteActivity, FailActivity, DeadLetterActivity
  <2> QED
    BY <1>1, <1>2, <1>3, <1>4, <1>5, <1>7, <2>2
<1>9. CASE FinishCompensation(p) \/ FinishWorkflow(p) \/ FailWorkflow(p)
  <2>1. \/ UNCHANGED db
        \/ \E s \in ExecStatus : SetStatus(k.exec, s)
    BY <1>9 DEF FinishCompensation, FinishWorkflow, FailWorkflow, Rejected, CompensatedExecution,
       CompleteExecution, FailExecution, ExecStatus
  <2>2. \/ UNCHANGED db
        \/ act' = act /\ \A e \in Exec \ {k.exec} : status'[e] = status[e]
    BY <2>1 DEF IInv, TypeOK, SetStatus
  <2> QED
    BY <1>1, <1>2, <1>3, <1>4, <1>5, <1>7, <2>2
<1>10. ASSUME NEW j \in Key, NEW t, j.exec = k.exec, Insert(j, t),
              status' = status \/ status' = [status EXCEPT ![j.exec] = "COMPENSATING"]
       PROVE  /\ \A e \in Exec \ {k.exec} : status'[e] = status[e]
              /\ \A i \in Key : i.exec # k.exec => act'[i] = act[i]
  BY <1>10 DEF IInv, TypeOK, Insert
<1>11. CASE AdvanceStep(p)
  <2>1. k.name \in Step /\ k.name # N
    BY <1>11 DEF AdvanceStep
  <2>2. Row(k.exec, k.name + 1, 1) \in Key /\ Row(k.exec, k.name + 1, 1).exec = k.exec
    BY <1>3, <2>1, Successor
  <2>3. \/ UNCHANGED db
        \/ Insert(Row(k.exec, k.name + 1, 1), "now") /\ status' = status
    BY <1>11 DEF AdvanceStep, ScheduleNextActivity, Rejected
  <2> QED
    BY <1>1, <1>2, <1>3, <1>4, <1>5, <1>7, <1>10, <2>2, <2>3
<1>12. CASE RetryStep(p)
  <2>1. k.attempt < AttemptCap
    BY <1>1, <1>3, <1>12, BudgetType, AttemptAssumption DEF RetryStep, IInv, HandlerInv, Key
  <2>2. NextAttempt(k) \in Key /\ NextAttempt(k).exec = k.exec
    BY <1>3, <2>1, NextAttemptType
  <2>3. \/ UNCHANGED db
        \/ Insert(NextAttempt(k), "later") /\ status' = status
    BY <1>12 DEF RetryStep, ScheduleNextActivity, Rejected
  <2> QED
    BY <1>1, <1>2, <1>3, <1>4, <1>5, <1>7, <1>10, <2>2, <2>3
<1>13. CASE AdvanceCompensation(p) \/ CompensateStep(p)
  <2>1. PICK c \in NextCompensation(k.exec) :
           StartCompensating(Row(k.exec, c, 1)) \/ UNCHANGED db
    BY <1>13 DEF AdvanceCompensation, CompensateStep, Rejected
  <2>2. Row(k.exec, c, 1) \in Key /\ Row(k.exec, c, 1).exec = k.exec
    BY <1>3, <2>1, NextCompensationType, RowType, AttemptAssumption DEF Name, Row
  <2>3. StartCompensating(Row(k.exec, c, 1))
          => /\ Insert(Row(k.exec, c, 1), "now")
             /\ status' = [status EXCEPT ![Row(k.exec, c, 1).exec] = "COMPENSATING"]
    BY DEF StartCompensating
  <2> QED
    BY <1>1, <1>2, <1>3, <1>4, <1>5, <1>7, <1>10, <2>1, <2>2, <2>3
<1> QED
  BY <1>6, <1>8, <1>9, <1>11, <1>12, <1>13 DEF Handle

\* Who owes something to an execution holds its lock.
LEMMA OneDebtor ==
    ASSUME IInv, NEW p \in Proc, h[p].pc \in Locked,
           NEW q \in Proc, h[q].pc \in Locked, h[q].key.exec = h[p].key.exec
    PROVE  q = p
<1>1. h[p].key.exec \in Exec
  BY DEF IInv, HandlerInv, Locked, Key
<1> QED
  BY <1>1 DEF IInv, LockHeldByHandler

LEMMA WhoDrives ==
    ASSUME IInv, MovingInv, NEW p \in Proc, h[p].pc \in Locked, h[p].key.exec \in Exec,
           Open(h[p].key.exec), ~Owes(p)
    PROVE  \E j \in Key : j.exec = h[p].key.exec /\ act[j] = "PENDING" /\ Leads(j)
<1>1. ASSUME NEW q \in Proc, Owes(q), h[q].key.exec = h[p].key.exec PROVE FALSE
  <2>1. h[q].pc \in Locked
    BY <1>1 DEF Owes, Locked
  <2> QED
    BY <1>1, <2>1, OneDebtor
<1> QED
  BY <1>1 DEF MovingInv, Driven

\* The execution of a handler has been started and is not deleted.
LEMMA HandlerExists ==
    ASSUME IInv, QuietInv, NEW p \in Proc, h[p].pc \in Locked \cup {"wait"}
    PROVE  Exists(h[p].key.exec) /\ Knows(p)
<1>1. h[p].key.exec \in Exec
  BY DEF IInv, HandlerInv, Locked, Key
<1>2. Exists(h[p].key.exec)
  BY <1>1 DEF IInv, StartedInv, QuietInv, KeptInv, Exists, Locked
<1> QED
  BY <1>2 DEF IInv, HandlerInv, Locked

\* Taking the lock, and reading the status under it.
LEMMA BeginDriven ==
    ASSUME IInv, QuietInv, MovingInv, NEW p \in Consumer \cup Reaper, NEW e, h[p].key.exec = e,
           BeginSuccess(p) \/ BeginFailure(p) \/ ReadExecution(p)
    PROVE  Driven(e)'
<1> PICK k : k = h[p].key
  OBVIOUS
<1>1. /\ p \in Proc /\ e \in Exec /\ h[p].pc \in Locked \cup {"wait"}
      /\ \A q \in Proc \ {p} : h'[q] = h[q]
  BY HandlerFrame DEF Handle
<1>2. Exists(e)
  BY <1>1, HandlerExists
<1>3. status' = status /\ act' = act
  BY DEF BeginSuccess, BeginFailure, ReadExecution, Rejected, db
<1>4. Driven(e)
  BY <1>1 DEF MovingInv
<1>5. CASE ~Owes(p)
  BY <1>1, <1>3, <1>4, <1>5, OthersDriven
<1>6. CASE Owes(p)
  <2>1. h[p].pc = "readExec"
    BY <1>6 DEF Owes, BeginSuccess, BeginFailure, ReadExecution
  <2>2. h'[p].pc = "advance" /\ h'[p].key = k
    BY <1>1, <1>2, <2>1 DEF BeginSuccess, BeginFailure, ReadExecution, IInv, TypeOK
  <2>3. Leads(k)' <=> Leads(k)
    BY <1>3 DEF Leads, Frontier
  <2>4. Owes(p)'
    BY <1>3, <1>6, <2>1, <2>2, <2>3 DEF Owes
  <2> QED
    BY <1>1, <2>2, <2>4 DEF Driven
<1> QED
  BY <1>5, <1>6

\* Closing the row that leads makes its handler the one that moves the execution.
LEMMA CloseDriven ==
    ASSUME IInv, QuietInv, MovingInv, NEW p \in Consumer \cup Reaper, NEW k, h[p].key = k,
           CompleteStep(p) \/ FailStep(p)
    PROVE  Driven(k.exec)'
<1> SUFFICES ASSUME Open(k.exec)' PROVE Driven(k.exec)'
  BY DEF Driven
<1>1. /\ p \in Proc /\ h[p].pc \in {"complete", "fail"} /\ h[p].pc \in Locked
      /\ k \in Key /\ k.exec \in Exec
  BY HandlerFrame DEF Handle, CompleteStep, FailStep, Locked
<1>2. Exists(k.exec) /\ Knows(p)
  BY <1>1, HandlerExists
<1>3. act[k] # "NONE"
  BY <1>1, <1>2 DEF Knows
<1>4. /\ status' = status
      /\ \A j \in Key \ {k} : act'[j] = act[j]
      /\ act'[k] # "NONE"
  BY <1>1, <1>3 DEF CompleteStep, FailStep, CompleteActivity, FailActivity, DeadLetterActivity, IInv, TypeOK
<1>5. /\ h'[p].key = k
      /\ \/ CompleteStep(p) /\ h'[p].pc = "readExec"
         \/ FailStep(p) /\ h'[p].pc \in {"retry", "compensate"}
  BY <1>1, <1>3 DEF CompleteStep, FailStep, Goto, IInv, TypeOK
<1>6. Open(k.exec) /\ ~Owes(p)
  BY <1>1, <1>4 DEF Open, Owes
<1>7. PICK j \in Key : j.exec = k.exec /\ act[j] = "PENDING" /\ Leads(j)
  BY <1>1, <1>6, WhoDrives
<1>8. Leads(j)'
  BY <1>3, <1>4, <1>7, LeadsStays
<1>9. CASE j # k
  BY <1>1, <1>4, <1>7, <1>8, <1>9 DEF Driven
<1>10. CASE j = k
  <2>1. h'[p].pc = "retry" => act'[NextAttempt(k)] = "NONE"
    <3> SUFFICES ASSUME h'[p].pc = "retry" PROVE act'[NextAttempt(k)] = "NONE"
      OBVIOUS
    <3>1. Retryable(p)
      BY <1>3, <1>5 DEF FailStep, Goto, IInv, TypeOK
    <3>2. k.attempt < AttemptCap
      BY <1>1, <3>1, BudgetType, AttemptAssumption DEF Retryable, Key
    <3>3. /\ NextAttempt(k) \in Key /\ NextAttempt(k).exec = k.exec /\ NextAttempt(k).name = k.name
          /\ NextAttempt(k).attempt = k.attempt + 1
      BY <1>1, <3>2, NextAttemptType
    <3>4. k.attempt < NextAttempt(k).attempt /\ NextAttempt(k) # k
      BY <1>1, <3>3 DEF Key
    <3>5. act[NextAttempt(k)] = "NONE"
      BY <1>1, <1>7, <1>10, <3>3, <3>4 DEF IInv, OneOpenAttempt
    <3> QED
      BY <1>4, <3>3, <3>4, <3>5
  <2>2. Owes(p)'
    BY <1>5, <1>8, <1>10, <2>1 DEF Owes
  <2> QED
    BY <1>1, <1>5, <2>2 DEF Driven
<1> QED
  BY <1>9, <1>10

\* A retry takes the place of the attempt it repeats.
LEMMA RetryDriven ==
    ASSUME IInv, QuietInv, MovingInv, NEW p \in Consumer \cup Reaper, NEW k, h[p].key = k, RetryStep(p)
    PROVE  Driven(k.exec)'
<1> DEFINE next == NextAttempt(k)
<1> SUFFICES ASSUME Open(k.exec)' PROVE Driven(k.exec)'
  BY DEF Driven
<1>1. /\ p \in Proc /\ h[p].pc = "retry" /\ h[p].pc \in Locked
      /\ k \in Key /\ k.exec \in Exec /\ k.name \in Name
  BY HandlerFrame DEF Handle, RetryStep, Locked
<1>2. Exists(k.exec)
  BY <1>1, HandlerExists
<1>3. k.attempt < AttemptCap
  BY <1>1, BudgetType, AttemptAssumption DEF IInv, HandlerInv, Key
<1>4. /\ next \in Key /\ next.exec = k.exec /\ next.name = k.name
      /\ next.attempt = k.attempt + 1
  BY <1>1, <1>3, NextAttemptType
<1>5. next.attempt # 1
  BY <1>1, <1>4 DEF Key
<1> HIDE DEF next
<1>6. status' = status /\ Open(k.exec)
  BY DEF RetryStep, ScheduleNextActivity, Rejected, db, Open
<1>7. \A j \in Key \ {next} : act'[j] = act[j]
  BY <1>4 DEF RetryStep, ScheduleNextActivity, Rejected, Insert, db, IInv, TypeOK, next
<1>8. ASSUME NEW j \in Key, j.exec = k.exec, Leads(j) PROVE Leads(j)'
  BY <1>5, <1>6, <1>7, <1>8, LeadsStays
<1>9. CASE act[next] = "NONE" /\ Leads(k)
  <2>1. CanInsert(next)
    BY <1>2, <1>4, <1>9 DEF CanInsert
  <2>2. act'[next] = "PENDING"
    BY <1>4, <2>1 DEF RetryStep, ScheduleNextActivity, Insert, IInv, TypeOK, next
  <2>3. Leads(next)
    BY <1>4, <1>9 DEF Leads, Frontier
  <2>4. Leads(next)'
    BY <1>4, <1>8, <2>3
  <2> QED
    BY <1>4, <2>2, <2>4 DEF Driven
<1>10. CASE ~(act[next] = "NONE" /\ Leads(k))
  <2>1. ~Owes(p)
    BY <1>1, <1>10 DEF Owes, next
  <2>2. PICK j \in Key : j.exec = k.exec /\ act[j] = "PENDING" /\ Leads(j)
    BY <1>1, <1>6, <2>1, WhoDrives
  <2>3. act'[j] = "PENDING"
    <3>1. act[next] # "NONE" => act'[next] = act[next]
      BY <1>4 DEF RetryStep, ScheduleNextActivity, Rejected, Insert, CanInsert, db, IInv, TypeOK, next
    <3> QED
      BY <1>7, <2>2, <3>1
  <2> QED
    BY <1>8, <2>2, <2>3 DEF Driven
<1> QED
  BY <1>9, <1>10

\* A compensation that is scheduled, or was and is still open, drives the rollback.
LEMMA CompensationDriven ==
    ASSUME IInv, QuietInv, MovingInv, NEW p \in Consumer \cup Reaper, NEW k, h[p].key = k,
           AdvanceCompensation(p) \/ CompensateStep(p)
    PROVE  Driven(k.exec)'
<1> SUFFICES ASSUME Open(k.exec)' PROVE Driven(k.exec)'
  BY DEF Driven
<1>1. /\ p \in Proc /\ h[p].pc \in {"advance", "compensate"} /\ h[p].pc \in Locked
      /\ k \in Key /\ k.exec \in Exec
  BY HandlerFrame DEF Handle, AdvanceCompensation, CompensateStep, Locked
<1>2. Exists(k.exec) /\ h[p].seen = status[k.exec]
  BY <1>1, HandlerExists DEF QuietInv, SeenInv
<1>3. PICK c \in NextCompensation(k.exec) :
         \/ StartCompensating(Row(k.exec, c, 1))
         \/ ~CanInsert(Row(k.exec, c, 1)) /\ UNCHANGED db
  BY DEF AdvanceCompensation, CompensateStep, Rejected
<1> DEFINE next == Row(k.exec, c, 1)
<1>4. c \in CompName /\ c \notin Step
  BY <1>1, NextCompensationType, WorkflowAssumption
<1>5. next \in Key /\ next.exec = k.exec /\ next.name = c
  BY <1>1, <1>4, RowType, AttemptAssumption DEF Name, Row
<1> HIDE DEF next
<1>6. CASE StartCompensating(next)
  <2>1. act'[next] = "PENDING" /\ status'[k.exec] = "COMPENSATING"
    BY <1>1, <1>5, <1>6 DEF StartCompensating, Insert, IInv, TypeOK
  <2>2. Leads(next)'
    BY <1>4, <1>5, <2>1 DEF Leads
  <2> QED
    BY <1>5, <2>1, <2>2 DEF Driven
<1>7. CASE ~CanInsert(next) /\ UNCHANGED db
  <2>1. act[next] # "NONE"
    BY <1>2, <1>5, <1>7 DEF CanInsert
  <2>2. status[k.exec] = "COMPENSATING"
    BY <1>4, <1>5, <1>7, <2>1 DEF QuietInv, ForwardInv, Open, db
  <2>3. PICK j \in Uncompensated(k.exec) : c = Comp[j.name]
    BY DEF NextCompensation
  <2>4. act[next] \notin Closed
    BY <1>5, <2>3 DEF Uncompensated, Attempted, RowsOf, Closed
  <2>5. act[next] = "PENDING"
    BY <1>5, <2>1, <2>4 DEF IInv, TypeOK, RowStatus, Closed
  <2>6. act'[next] = "PENDING" /\ Leads(next)'
    BY <1>4, <1>5, <1>7, <2>2, <2>5 DEF db, Leads
  <2> QED
    BY <1>5, <2>6 DEF Driven
<1> QED
  BY <1>3, <1>6, <1>7 DEF next

\* The success of the last activity reached schedules the next one; any other is refused and
\* changes nothing.
LEMMA AdvanceDriven ==
    ASSUME IInv, QuietInv, MovingInv, NEW p \in Consumer \cup Reaper, NEW k, h[p].key = k, AdvanceStep(p)
    PROVE  Driven(k.exec)'
<1> DEFINE next == Row(k.exec, k.name + 1, 1)
<1> SUFFICES ASSUME Open(k.exec)' PROVE Driven(k.exec)'
  BY DEF Driven
<1>1. /\ p \in Proc /\ h[p].pc = "advance" /\ h[p].pc \in Locked
      /\ k \in Key /\ k.exec \in Exec /\ k.name \in Step /\ k.name # N
  BY HandlerFrame DEF Handle, AdvanceStep, Locked
<1>2. Exists(k.exec) /\ h[p].seen = status[k.exec]
  BY <1>1, HandlerExists DEF QuietInv, SeenInv
<1>3. status' = status /\ Open(k.exec)
  BY DEF AdvanceStep, ScheduleNextActivity, Rejected, db, Open
<1>4. status[k.exec] = "RUNNING"
  BY <1>2, <1>3 DEF AdvanceStep, Open
<1>5. /\ next \in Key /\ next.exec = k.exec /\ next.attempt = 1
      /\ next.name = k.name + 1 /\ next.name \in Step
  BY <1>1, Successor
<1> HIDE DEF next
<1>6. CASE act[next] = "NONE"
  <2>1. CanInsert(next)
    BY <1>2, <1>5, <1>6 DEF CanInsert
  <2>2. act'[next] = "PENDING" /\ \A j \in Key \ {next} : act'[j] = act[j]
    BY <1>5, <2>1 DEF AdvanceStep, ScheduleNextActivity, Insert, IInv, TypeOK, next
  <2>3. ASSUME NEW j \in Key, j.exec = k.exec, j.name = next.name PROVE act[j] = "NONE"
    <3>1. CASE j = next
      BY <1>6, <3>1
    <3>2. CASE j # next
      <4>1. next.attempt < j.attempt
        BY <1>5, <2>3, <3>2 DEF Key
      <4> QED
        BY <1>5, <1>6, <2>3, <4>1 DEF IInv, OneOpenAttempt
    <3> QED
      BY <3>1, <3>2
  <2>4. ~Completed(k.exec, next.name)
    BY <2>3 DEF Completed, IInv, RowInv, TypeOK, Closed
  <2>5. ASSUME next.name # N PROVE act'[Row(k.exec, next.name + 1, 1)] = "NONE"
    <3> DEFINE after == Row(k.exec, next.name + 1, 1)
    <3>1. /\ after \in Key /\ after.exec = k.exec /\ after.name = next.name + 1
          /\ after.name \in Step
      BY <1>5, <2>5, Successor
    <3>2. next.name \in 1..(after.name - 1) /\ after # next
      BY <1>5, <3>1 DEF Step
    <3>3. act[after] = "NONE"
      BY <2>4, <3>1, <3>2 DEF IInv, SequentialSteps
    <3> QED
      BY <2>2, <3>1, <3>2, <3>3
  <2>6. Leads(next)'
    BY <1>3, <1>4, <1>5, <2>5 DEF Leads, Frontier
  <2> QED
    BY <1>5, <2>2, <2>6 DEF Driven
<1>7. CASE act[next] # "NONE"
  <2>1. UNCHANGED db
    BY <1>7 DEF AdvanceStep, ScheduleNextActivity, Insert, CanInsert, Rejected, next
  <2>2. ~Owes(p)
    BY <1>1, <1>4, <1>7 DEF Owes, Leads, Frontier, next
  <2>3. PICK j \in Key : j.exec = k.exec /\ act[j] = "PENDING" /\ Leads(j)
    BY <1>1, <1>3, <2>2, WhoDrives
  <2>4. Leads(j)' /\ act'[j] = "PENDING"
    BY <2>1, <2>3 DEF db, Leads, Frontier
  <2> QED
    BY <2>3, <2>4 DEF Driven
<1> QED
  BY <1>6, <1>7

\* A handler that sets a final status settles the execution; one that does not know its
\* activity works on an execution that is settled already.
LEMMA FinishDriven ==
    ASSUME IInv, QuietInv, MovingInv, NEW p \in Consumer \cup Reaper, NEW k, h[p].key = k,
           FinishCompensation(p) \/ FinishWorkflow(p) \/ FailWorkflow(p) \/ UnknownActivity(p)
    PROVE  Driven(k.exec)'
<1> SUFFICES ASSUME Open(k.exec)' PROVE FALSE
  BY DEF Driven
<1>1. /\ p \in Proc /\ h[p].pc \in {"advance", "compensate"}
      /\ k \in Key /\ k.exec \in Exec
  BY HandlerFrame DEF Handle, FinishCompensation, FinishWorkflow, FailWorkflow, UnknownActivity
<1>2. Exists(k.exec) /\ Knows(p) /\ h[p].seen = status[k.exec]
  BY <1>1, HandlerExists DEF QuietInv, SeenInv, Locked
<1>3. CASE UnknownActivity(p)
  <2>1. act[k] = "COMPLETED"
    BY <1>2, <1>3 DEF UnknownActivity, Knows
  <2>2. status[k.exec] # "RUNNING"
    BY <1>1, <1>3, <2>1 DEF UnknownActivity, QuietInv, ForwardInv
  <2>3. status' = status
    BY <1>3 DEF UnknownActivity, Rejected, db
  <2> QED
    BY <1>2, <1>3, <2>2, <2>3 DEF UnknownActivity, Open
<1>4. CASE FinishCompensation(p) \/ FinishWorkflow(p) \/ FailWorkflow(p)
  <2>1. status'[k.exec] \in {"COMPENSATED", "COMPLETED", "FAILED"}
    BY <1>1, <1>2, <1>4 DEF FinishCompensation, FinishWorkflow, FailWorkflow, CompensatedExecution,
       CompleteExecution, FailExecution, SetStatus, IInv, TypeOK
  <2> QED
    BY <2>1 DEF Open
<1> QED
  BY <1>3, <1>4

LEMMA HandleDriven ==
    ASSUME IInv, QuietInv, MovingInv, NEW p \in Consumer \cup Reaper, Handle(p), NEW e \in Exec
    PROVE  Driven(e)'
<1> PICK k : k = h[p].key
  OBVIOUS
<1>1. CASE k.exec # e
  <2>1. /\ status'[e] = status[e]
        /\ \A j \in Key : j.exec = e => act'[j] = act[j]
        /\ \A q \in Proc : Owes(q) /\ h[q].key.exec = e => h'[q] = h[q]
    BY <1>1, HandlerFrame
  <2> QED
    BY <2>1, OthersDriven DEF MovingInv
<1>2. CASE k.exec = e
  BY <1>2, BeginDriven, CloseDriven, RetryDriven, CompensationDriven, AdvanceDriven, FinishDriven DEF Handle
<1> QED
  BY <1>1, <1>2

LEMMA ReturnGoesTo ==
    ASSUME TypeOK, NEW p \in Proc, NEW v \in {"ack", "nack"}, Return(p, v)
    PROVE  h'[p].pc \in {"ack", "nack", "reap", "idle"}
<1>1. CASE p \in Consumer
  BY <1>1 DEF Return, TypeOK
<1>2. CASE p \notin Consumer
  BY <1>2 DEF Return, Idle, TypeOK
<1> QED
  BY <1>1, <1>2

LEMMA HandleSeen ==
    ASSUME IInv, QuietInv, NEW p \in Consumer \cup Reaper, Handle(p)
    PROVE  SeenInv'
<1> PICK k : k = h[p].key
  OBVIOUS
<1>1. /\ p \in Proc /\ k \in Key /\ k.exec \in Exec /\ h[p].pc \in Locked \cup {"wait"}
      /\ \A q \in Proc \ {p} : h'[q] = h[q]
      /\ \A e \in Exec \ {k.exec} : status'[e] = status[e]
  BY HandlerFrame
<1>2. h[p].pc = "wait" => status' = status
  BY DEF Handle, BeginSuccess, CompleteStep, ReadExecution, AdvanceCompensation, FinishCompensation,
     AdvanceStep, FinishWorkflow, UnknownActivity, BeginFailure, FailStep, RetryStep, CompensateStep,
     FailWorkflow, db
<1>3. ASSUME NEW q \in Proc, q # p, h[q].pc \in {"fail", "advance", "compensate"}
      PROVE  h'[q] = h[q] /\ status'[h[q].key.exec] = status[h[q].key.exec]
  <2>1. h[q].key.exec \in Exec /\ h[q].pc \in Locked
    BY <1>3 DEF IInv, HandlerInv, Key, Locked
  <2>2. h[p].pc \in Locked => h[q].key.exec # k.exec
    BY <1>1, <1>3, <2>1, OneDebtor
  <2> QED
    BY <1>1, <1>2, <1>3, <2>1, <2>2
<1>4. ASSUME h'[p].pc \in {"fail", "advance", "compensate"}
      PROVE  h'[p].seen = status'[h'[p].key.exec]
  <2>0. ASSUME NEW v \in {"ack", "nack"}, Return(p, v) PROVE FALSE
    BY <1>1, <1>4, <2>0, ReturnGoesTo DEF IInv
  <2>1. CASE BeginFailure(p)
    <3>1. status' = status /\ h' = [h EXCEPT ![p].pc = "fail", ![p].seen = status[k.exec]]
      BY <2>0, <2>1 DEF BeginFailure, db
    <3> QED
      BY <1>1, <3>1 DEF IInv, TypeOK
  <2>2. CASE ReadExecution(p)
    <3>1. status' = status /\ h' = [h EXCEPT ![p].pc = "advance", ![p].seen = status[k.exec]]
      BY <2>0, <2>2 DEF ReadExecution, Rejected, db
    <3> QED
      BY <1>1, <3>1 DEF IInv, TypeOK
  <2>3. CASE FailStep(p)
    <3>1. h[p].seen = status[k.exec]
      BY <1>1, <2>3 DEF FailStep, QuietInv, SeenInv
    <3>2. status' = status
      BY <2>3 DEF FailStep, FailActivity, DeadLetterActivity, Rejected, db
    <3>3. \E pc \in {"retry", "compensate"} : h' = [h EXCEPT ![p].pc = pc]
      BY <2>0, <2>3 DEF FailStep, Rejected, Goto
    <3> QED
      BY <1>1, <3>1, <3>2, <3>3 DEF IInv, TypeOK
  <2>4. CASE \/ h' = [h EXCEPT ![p].pc = "complete"]
             \/ h' = [h EXCEPT ![p].pc = "readExec"]
    BY <1>1, <1>4, <2>4 DEF IInv, TypeOK
  <2> QED
    BY <2>0, <2>1, <2>2, <2>3, <2>4
    DEF Handle, BeginSuccess, CompleteStep, AdvanceCompensation, FinishCompensation, AdvanceStep,
        FinishWorkflow, UnknownActivity, RetryStep, CompensateStep, FailWorkflow, Rejected, Goto
<1> QED
  BY <1>1, <1>3, <1>4 DEF QuietInv, SeenInv

LEMMA HandleForward ==
    ASSUME IInv, QuietInv, NEW p \in Consumer \cup Reaper, Handle(p)
    PROVE  ForwardInv' /\ KeptInv'
<1> PICK k : k = h[p].key
  OBVIOUS
<1>1. /\ p \in Proc /\ k \in Key /\ k.exec \in Exec /\ k.name \in Name
      /\ h[p].pc \in Locked \cup {"wait"}
  BY HandlerFrame
<1>2. \A j \in Key : j.exec \in Exec
  BY DEF Key
<1>3. CASE status' = status /\ \A j \in Key : act[j] = "NONE" /\ j.name \notin Step => act'[j] = "NONE"
  BY <1>2, <1>3 DEF QuietInv, ForwardInv, KeptInv
<1>4. CASE UNCHANGED db
  BY <1>3, <1>4 DEF db
<1>5. CASE CompleteStep(p) \/ FailStep(p)
  <2>1. /\ status' = status
        /\ \A j \in Key : act[j] = "NONE" => act'[j] = "NONE"
    BY <1>5 DEF CompleteStep, FailStep, CompleteActivity, FailActivity, DeadLetterActivity, Rejected,
       db, IInv, TypeOK
  <2> QED
    BY <1>3, <2>1
<1>6. CASE AdvanceStep(p)
  <2>1. Row(k.exec, k.name + 1, 1).name \in Step
    BY <1>1, <1>6, Successor DEF AdvanceStep
  <2>2. status' = status /\ \A j \in Key : act'[j] = act[j] \/ j = Row(k.exec, k.name + 1, 1)
    BY <1>6 DEF AdvanceStep, ScheduleNextActivity, Insert, Rejected, db, IInv, TypeOK
  <2> QED
    BY <1>3, <2>1, <2>2
<1>7. CASE RetryStep(p)
  <2>1. k.attempt < AttemptCap /\ Knows(p)
    BY <1>1, <1>7, BudgetType, AttemptAssumption, HandlerExists DEF RetryStep, IInv, HandlerInv, Key
  <2>2. NextAttempt(k).name = k.name /\ NextAttempt(k).exec = k.exec
    BY <1>1, <2>1, NextAttemptType
  <2>3. status' = status /\ \A j \in Key : act'[j] = act[j] \/ j = NextAttempt(k)
    BY <1>7 DEF RetryStep, ScheduleNextActivity, Insert, Rejected, db, IInv, TypeOK
  <2>4. act[k] # "NONE"
    BY <1>7, <2>1 DEF RetryStep, Knows
  <2>5. status[k.exec] # "RUNNING" \/ k.name \in Step
    BY <1>1, <2>4 DEF QuietInv, ForwardInv
  <2> QED
    BY <1>2, <2>2, <2>3, <2>5 DEF QuietInv, ForwardInv, KeptInv
<1>8. CASE (AdvanceCompensation(p) \/ CompensateStep(p)) /\ ~UNCHANGED db
  <2>1. PICK c \in NextCompensation(k.exec) : StartCompensating(Row(k.exec, c, 1))
    BY <1>8 DEF AdvanceCompensation, CompensateStep, Rejected
  <2>2. Row(k.exec, c, 1).exec = k.exec
    BY DEF Row
  <2>3. status' = [status EXCEPT ![k.exec] = "COMPENSATING"]
    BY <2>1, <2>2 DEF StartCompensating
  <2>4. \A j \in Key : j.exec # k.exec => act'[j] = act[j]
    BY HandlerFrame
  <2> QED
    BY <1>1, <1>2, <2>3, <2>4 DEF QuietInv, ForwardInv, KeptInv, IInv, TypeOK
<1>9. CASE FinishCompensation(p) \/ FinishWorkflow(p) \/ FailWorkflow(p)
  <2>1. \/ UNCHANGED db
        \/ \E s \in {"COMPENSATED", "COMPLETED", "FAILED"} : SetStatus(k.exec, s)
    BY <1>9 DEF FinishCompensation, FinishWorkflow, FailWorkflow, Rejected, CompensatedExecution,
       CompleteExecution, FailExecution
  <2>2. ASSUME NEW s \in {"COMPENSATED", "COMPLETED", "FAILED"}, SetStatus(k.exec, s)
        PROVE  ForwardInv' /\ KeptInv'
    BY <1>1, <1>2, <2>2 DEF SetStatus, QuietInv, ForwardInv, KeptInv, IInv, TypeOK
  <2> QED
    BY <1>4, <2>1, <2>2
<1>10. CASE BeginSuccess(p) \/ BeginFailure(p) \/ ReadExecution(p) \/ UnknownActivity(p)
  BY <1>4, <1>10 DEF BeginSuccess, BeginFailure, ReadExecution, UnknownActivity, Rejected
<1> QED
  BY <1>4, <1>5, <1>6, <1>7, <1>8, <1>9, <1>10 DEF Handle

-----------------------------------------------------------------------------
(* All steps.                                                              *)

\* A handler stops, at a return, an error or a crash, and the tables stay as they are.
LEMMA IdleQuiet ==
    ASSUME QuietInv, status' = status, act' = act,
           \A q \in Proc : h'[q].pc \in {"fail", "advance", "compensate"} => h'[q] = h[q]
    PROVE  QuietInv'
  BY DEF QuietInv, SeenInv, ForwardInv, KeptInv

LEMMA IdleMoving ==
    ASSUME IInv, MovingInv, status' = status, act' = act,
           \A q \in Proc : Owes(q) => h'[q] = h[q]
    PROVE  MovingInv'
  BY OthersDriven DEF MovingInv

\* The first row of a new execution leads.
LEMMA StartQuiet ==
    ASSUME IInv, QuietInv, NEW e \in Exec, StartWorkflow(e)
    PROVE  QuietInv'
<1> DEFINE first == Row(e, 1, 1)
<1>1. /\ status[e] = "ABSENT" /\ status' = [status EXCEPT ![e] = IF N = 0 THEN "COMPLETED" ELSE "RUNNING"]
      /\ h' = h
  BY DEF StartWorkflow, CreateExecution
<1>2. \A k \in Key : k.exec = e => act[k] = "NONE"
  BY <1>1 DEF IInv, RowInv, Exists
<1>3. first.name = 1
  BY DEF Row
<1> HIDE DEF first
<1>4. act' = act \/ (N # 0 /\ act' = [act EXCEPT ![first] = "PENDING"])
  BY DEF StartWorkflow, CreateExecution, first
<1>5. N # 0 => 1 \in Step
  BY WorkflowAssumption DEF Step
<1>6. ASSUME NEW p \in Proc, h[p].pc \in {"fail", "advance", "compensate"}
      PROVE  status'[h[p].key.exec] = status[h[p].key.exec]
  <2>1. h[p].key.exec \in Exec /\ h[p].key.exec # e
    BY <1>1, <1>6 DEF IInv, HandlerInv, StartedInv, Key
  <2> QED
    BY <1>1, <2>1
<1>7. SeenInv'
  BY <1>1, <1>6 DEF QuietInv, SeenInv
<1>8. ForwardInv'
  <2> SUFFICES ASSUME NEW k \in Key, status'[k.exec] = "RUNNING", k.name \notin Step
               PROVE  act'[k] = "NONE"
    BY DEF ForwardInv
  <2>1. act'[k] = act[k]
    BY <1>3, <1>4, <1>5 DEF IInv, TypeOK
  <2>2. CASE k.exec = e
    BY <1>2, <2>1, <2>2
  <2>3. CASE k.exec # e
    BY <1>1, <2>1, <2>3 DEF QuietInv, ForwardInv, IInv, TypeOK, Key
  <2> QED
    BY <2>2, <2>3
<1>9. KeptInv'
  BY <1>1 DEF QuietInv, KeptInv, IInv, TypeOK
<1> QED
  BY <1>7, <1>8, <1>9 DEF QuietInv

LEMMA StartMoving ==
    ASSUME IInv, MovingInv, NEW e \in Exec, StartWorkflow(e)
    PROVE  MovingInv'
<1> DEFINE first == Row(e, 1, 1)
<1>1. /\ status[e] = "ABSENT" /\ status' = [status EXCEPT ![e] = IF N = 0 THEN "COMPLETED" ELSE "RUNNING"]
      /\ h' = h
  BY DEF StartWorkflow, CreateExecution
<1>2. \A k \in Key : k.exec = e => act[k] = "NONE"
  BY <1>1 DEF IInv, RowInv, Exists
<1>3. first.exec = e /\ first.name = 1 /\ first.attempt = 1
  BY DEF Row
<1>4. CASE N = 0
  <2>1. act' = act /\ status'[e] = "COMPLETED"
    BY <1>1, <1>4 DEF StartWorkflow, CreateExecution, IInv, TypeOK
  <2>2. Driven(e)'
    BY <2>1 DEF Driven, Open
  <2>3. ASSUME NEW f \in Exec, f # e PROVE Driven(f)'
    BY <1>1, <2>1, <2>3, OthersDriven DEF MovingInv, IInv, TypeOK
  <2> QED
    BY <2>2, <2>3 DEF MovingInv
<1>5. CASE N # 0
  <2>1. act' = [act EXCEPT ![first] = "PENDING"] /\ status'[e] = "RUNNING"
    BY <1>1, <1>5 DEF StartWorkflow, CreateExecution, IInv, TypeOK
  <2>2. first \in Key /\ 1 \in Step
    BY <1>5, RowType, WorkflowAssumption, AttemptAssumption DEF Name, Step
  <2> HIDE DEF first
  <2>3. Frontier(first)'
    <3>1. CASE N = 1
      BY <1>3, <2>2, <3>1 DEF Frontier
    <3>2. CASE N # 1
      <4>1. /\ Row(e, 1 + 1, 1) \in Key /\ Row(e, 1 + 1, 1).exec = e /\ Row(e, 1 + 1, 1).name = 1 + 1
        BY <1>3, <2>2, <3>2, Successor
      <4>2. Row(e, 1 + 1, 1) # first
        BY <1>3, <4>1
      <4>3. act'[Row(e, 1 + 1, 1)] = "NONE"
        BY <1>2, <2>1, <4>1, <4>2 DEF IInv, TypeOK
      <4> QED
        BY <1>3, <2>2, <4>3 DEF Frontier
    <3> QED
      BY <3>1, <3>2
  <2>4. Driven(e)'
    <3>1. act'[first] = "PENDING" /\ Leads(first)'
      BY <1>3, <2>1, <2>2, <2>3 DEF Leads, IInv, TypeOK
    <3> QED
      BY <1>3, <2>2, <3>1 DEF Driven
  <2>5. \A k \in Key : k.exec # e => act'[k] = act[k]
    BY <1>3, <2>1 DEF IInv, TypeOK
  <2>6. ASSUME NEW f \in Exec, f # e PROVE Driven(f)'
    BY <1>1, <2>5, <2>6, OthersDriven DEF MovingInv, IInv, TypeOK
  <2> QED
    BY <2>4, <2>6 DEF MovingInv
<1> QED
  BY <1>4, <1>5

LEMMA QuietNext ==
    ASSUME Client = {}, IInv, [Next]_vars, QuietInv
    PROVE  QuietInv'
<1>1. ASSUME NEW p \in Proc, DBError(p) \/ Crash(p) PROVE QuietInv'
  <2>1. h'[p].pc \in {"ack", "nack", "reap", "idle"}
    BY <1>1, ReturnGoesTo DEF DBError, Crash, Idle, IInv, TypeOK
  <2>2. \A q \in Proc \ {p} : h'[q] = h[q]
    BY <1>1 DEF DBError, Crash, Return, IInv, TypeOK
  <2>3. status' = status /\ act' = act
    BY <1>1 DEF DBError, Crash, db
  <2> QED
    BY <2>1, <2>2, <2>3, IdleQuiet
<1>2. ASSUME NEW e \in Exec, StartWorkflow(e) PROVE QuietInv'
  BY <1>2, StartQuiet
<1>3. ASSUME NEW p \in Consumer \cup Reaper, Handle(p) PROVE QuietInv'
  BY <1>3, HandleSeen, HandleForward DEF QuietInv
<1>4. ASSUME NEW p \in Proc, \/ Settle(p) \/ (\E m \in results : Deliver(p, m))
                             \/ Scan(p) \/ ReapNext(p) \/ ReapEnd(p)
      PROVE  QuietInv'
  <2>1. /\ status' = status /\ act' = act
        /\ h'[p].pc \notin Locked
        /\ \A q \in Proc \ {p} : h'[q] = h[q]
    BY <1>4 DEF Settle, Deliver, Scan, ReapNext, ReapEnd, db, Idle, Locked, IInv, TypeOK
  <2> QED
    BY <2>1, IdleQuiet DEF Locked
<1>5. CASE \/ \E k \in Key, r \in Outcome : WorkOnce(k, r) \/ WorkAgain(k, r)
           \/ UNCHANGED vars
  <2>1. status' = status /\ act' = act /\ h' = h
    BY <1>5 DEF WorkOnce, WorkAgain, db, vars
  <2> QED
    BY <2>1, IdleQuiet
<1> QED
  BY <1>1, <1>2, <1>3, <1>4, <1>5 DEF Next, Undisturbed, Consume, Reap, Proc

LEMMA MovingNext ==
    ASSUME Client = {}, IInv, QuietInv, MovingInv, [UninterruptedNext]_vars
    PROVE  MovingInv'
<1>1. ASSUME NEW p \in Proc, h[p].pc \notin Between, DBError(p) \/ Crash(p) PROVE MovingInv'
  <2>1. ~Owes(p)
    BY <1>1 DEF Owes, Between
  <2>2. \A q \in Proc \ {p} : h'[q] = h[q]
    BY <1>1 DEF DBError, Crash, Return, IInv, TypeOK
  <2>3. status' = status /\ act' = act
    BY <1>1 DEF DBError, Crash, db
  <2> QED
    BY <2>1, <2>2, <2>3, IdleMoving
<1>2. ASSUME NEW e \in Exec, StartWorkflow(e) PROVE MovingInv'
  BY <1>2, StartMoving
<1>3. ASSUME NEW p \in Consumer \cup Reaper, Handle(p) PROVE MovingInv'
  BY <1>3, HandleDriven DEF MovingInv
<1>4. ASSUME NEW p \in Proc, \/ Settle(p) \/ (\E m \in results : Deliver(p, m))
                             \/ Scan(p) \/ ReapNext(p) \/ ReapEnd(p)
      PROVE  MovingInv'
  <2>1. /\ status' = status /\ act' = act
        /\ h[p].pc \notin Locked
        /\ \A q \in Proc \ {p} : h'[q] = h[q]
    BY <1>4 DEF Settle, Deliver, Scan, ReapNext, ReapEnd, db, Idle, Locked, IInv, TypeOK
  <2>2. ~Owes(p)
    BY <2>1 DEF Owes, Locked
  <2> QED
    BY <2>1, <2>2, IdleMoving
<1>5. CASE \/ \E k \in Key, r \in Outcome : WorkOnce(k, r) \/ WorkAgain(k, r)
           \/ UNCHANGED vars
  <2>1. status' = status /\ act' = act /\ h' = h
    BY <1>5 DEF WorkOnce, WorkAgain, db, vars
  <2> QED
    BY <2>1, IdleMoving
<1> QED
  BY <1>1, <1>2, <1>3, <1>4, <1>5 DEF UninterruptedNext, Undisturbed, Consume, Reap, Proc

LEMMA InitQuiet == Init => QuietInv /\ MovingInv
<1> SUFFICES ASSUME Init PROVE QuietInv /\ MovingInv
  OBVIOUS
<1> QED
  BY DEF Init, QuietInv, MovingInv, Driven, Open, SeenInv, ForwardInv, KeptInv, Idle, Key

\* Without operators' requests, what a handler has seen under the lock stays so.
LEMMA Quiet == ASSUME Client = {} PROVE Spec => []QuietInv
<1>1. Init => QuietInv
  BY InitQuiet
<1>2. IInv /\ QuietInv /\ [Next]_vars => QuietInv'
  BY QuietNext
<1> QED
  BY <1>1, <1>2, Inductive, PTL DEF Spec

\* Whatever is delivered twice or late, reported by the reaper or contradicted by another
\* report, however the handlers interleave, and however often a statement fails or an engine
\* dies while no handler is between two of its transactions: no execution is left without an
\* open row or a handler to move it.
THEOREM NothingStranded == ASSUME Client = {} PROVE UninterruptedSpec => []NoStranded
<1>1. Init => MovingInv
  BY InitQuiet
<1>2. IInv /\ QuietInv /\ MovingInv /\ [UninterruptedNext]_vars => MovingInv'
  BY MovingNext
<1>3. IInv /\ MovingInv => NoStranded
  <2> SUFFICES ASSUME IInv, MovingInv, NEW e \in Exec, Open(e)
               PROVE  \/ \E k \in RowsOf(e) : act[k] = "PENDING"
                      \/ \E p \in Proc : h[p].pc \in Locked /\ h[p].key.exec = e
    BY DEF NoStranded
  <2> QED
    BY DEF MovingInv, Driven, RowsOf, Owes, Locked
<1>4. [UninterruptedNext]_vars => [Next]_vars
  BY DEF UninterruptedNext, Next
<1>5. UninterruptedSpec => Spec
  BY <1>4, PTL DEF UninterruptedSpec, Spec
<1> QED
  BY <1>1, <1>2, <1>3, <1>5, Inductive, Quiet, PTL DEF UninterruptedSpec

=============================================================================
