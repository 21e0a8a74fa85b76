---------------------------- MODULE EngineProofs ----------------------------
(***************************************************************************)
(* The safety properties of Engine, proved for every workflow definition,  *)
(* every number of executions, engines, reapers and clients, and any       *)
(* number of faults and repeated deliveries.                               *)
(*                                                                         *)
(* None of the properties is inductive.  They rest on what each handler    *)
(* knows between two of its transactions (HandlerInv), which other         *)
(* processes keep true because of the lock (LockHeldByHandler) and because *)
(* rows only move forward (RowsPersist).  Two lemmas then summarise every  *)
(* step of the system: what a new row is justified by (InsertionJustified) *)
(* and what a new status is justified by (StatusJustified); the properties *)
(* follow from these without another look at the actions.                  *)
(***************************************************************************)
EXTENDS Engine, TLAPS, WellFoundedInduction

-----------------------------------------------------------------------------
(* The inductive invariant.                                                *)

Closed == {"COMPLETED", "FAILED"}

\* Rows belong to existing executions, and the timestamps agree with the statuses.
RowInv ==
    \A k \in Key :
        /\ act[k] # "NONE" => Exists(k.exec)
        /\ act[k] = "COMPLETED" => k \in done
        /\ k \in done \cup dead => act[k] \in Closed

\* What a handler knows at each point; only a DELETE of the execution can refute it.
Knows(p) ==
    LET k == h[p].key IN
    /\ h[p].pc = "complete" => act[k] \in {"PENDING", "FAILED"}
    /\ h[p].pc \in {"readExec", "advance"} => act[k] = "COMPLETED"
    /\ h[p].pc = "advance" /\ h[p].seen = "COMPENSATING" => \E d \in dead : d.exec = k.exec
    /\ h[p].pc = "fail" => act[k] \in {"PENDING", "COMPLETED"}
    /\ h[p].pc \in {"retry", "compensate"} => act[k] = "FAILED"
    /\ h[p].pc \in {"compensate", "retryRow", "retryComp"} => k \in dead
    /\ h[p].pc = "ack" => act[k] \in Closed

HandlerInv ==
    \A p \in Proc :
        /\ h[p].pc \notin {"idle", "reap"} => h[p].key \in Key
        /\ h[p].pc = "reap" => p \in Reaper
        /\ h[p].pc = "retry" => h[p].key.attempt < Budget(h[p].key.name)
        /\ h[p].pc \in {"retryRow", "retryComp"} => h[p].key.attempt < AttemptCap
        /\ h[p].pc \notin {"idle", "reap"} /\ Exists(h[p].key.exec) => Knows(p)

\* Messages, snapshots and handlers are about executions that have been started.
StartedInv ==
    /\ \A m \in outbox \cup results : status[m.key.exec] # "ABSENT"
    /\ \A p \in Proc : /\ \A k \in overdue[p] : status[k.exec] # "ABSENT"
                       /\ h[p].pc \notin {"idle", "reap"} => status[h[p].key.exec] # "ABSENT"

IInv ==
    /\ TypeOK /\ RowInv /\ HandlerInv /\ StartedInv /\ LockHeldByHandler
    /\ SequentialSteps /\ CompletedMeansAllDone /\ NoSpuriousCompensation
    /\ RollbackOnlyAfterDeadLetter /\ OneOpenAttempt /\ BudgetOnlyByOperator
    /\ PendingIsCarried

-----------------------------------------------------------------------------
(* The retry budget lies within the bound on attempts.                     *)

LEMMA LeastStep ==
    ASSUME NEW T \in SUBSET Step, T # {}
    PROVE  \E i \in T : \A j \in 1..(i-1) : j \notin T
<1>1. T \subseteq Nat
  BY DEF Step
<1>2. PICK i \in T : \A j \in T : ~(<<j, i>> \in OpToRel(<, Nat))
  BY <1>1, NatLessThanWellFounded, WFMin, Zenon
<1>3. \A j \in T : ~(j < i)
  BY <1>1, <1>2 DEF OpToRel
<1> QED
  BY <1>1, <1>3

\* The budget of a name is some activity's policy.
LEMMA BudgetIsPolicy ==
    ASSUME NEW n \in Name
    PROVE  \E i \in Step : Budget(n) = MaxAttempts[i]
<1>1. CASE n \in Step
  BY <1>1 DEF Budget
<1>2. CASE n \in CompName /\ n \notin Step
  <2> DEFINE T == {i \in Step : Comp[i] = n}
  <2>1. T # {}
    BY <1>2, WorkflowAssumption
  <2>2. PICK i \in T : \A j \in 1..(i-1) : j \notin T
    BY <2>1, LeastStep
  <2>3. i \in Step /\ Comp[i] = n /\ \A j \in 1..(i-1) : Comp[j] # n
    BY <2>2, WorkflowAssumption DEF Step
  <2> QED
    BY <1>2, <2>3 DEF Budget
<1> QED
  BY <1>1, <1>2 DEF Name

LEMMA BudgetType ==
    ASSUME NEW n \in Name
    PROVE  Budget(n) \in 1..AttemptCap
  BY BudgetIsPolicy, AttemptAssumption

-----------------------------------------------------------------------------
(* Type correctness.                                                       *)

HandlerType == [Proc -> [pc : Location, key : Key \cup {NoKey}, res : Outcome, seen : ExecStatus]]

LEMMA RowType ==
    ASSUME NEW e \in Exec, NEW n \in Name, NEW a \in 1..AttemptCap
    PROVE  Row(e, n, a) \in Key
  BY DEF Row, Key

LEMMA NextAttemptType ==
    ASSUME NEW k \in Key, k.attempt < AttemptCap
    PROVE  /\ NextAttempt(k) \in Key
           /\ NextAttempt(k).exec = k.exec
           /\ NextAttempt(k).name = k.name
           /\ NextAttempt(k).attempt = k.attempt + 1
  BY AttemptAssumption DEF NextAttempt, Key

LEMMA ReturnType ==
    ASSUME TypeOK, NEW p \in Proc, NEW v \in {"ack", "nack"}, Return(p, v)
    PROVE  lock' \in [Exec -> Proc \cup {Nobody}] /\ h' \in HandlerType
<1>1. lock' \in [Exec -> Proc \cup {Nobody}]
  BY DEF TypeOK, Return, Free
<1>2. Idle \in [pc : Location, key : Key \cup {NoKey}, res : Outcome, seen : ExecStatus]
  BY DEF Idle, Location, Outcome, ExecStatus
<1>3. h' \in HandlerType
  BY <1>2 DEF TypeOK, Return, HandlerType, Idle, Location, ExecStatus
<1> QED
  BY <1>1, <1>3

LEMMA GotoType ==
    ASSUME TypeOK, NEW p \in Proc, NEW pc \in Location, Goto(p, pc)
    PROVE  lock' \in [Exec -> Proc \cup {Nobody}] /\ h' \in HandlerType
  BY DEF TypeOK, Goto, HandlerType

LEMMA TypeInit == Init => TypeOK
  BY ProcessAssumption, AttemptAssumption
  DEF Init, TypeOK, Idle, Location, Outcome, ExecStatus, RowStatus

DbType ==
    /\ status \in [Exec -> ExecStatus]
    /\ act \in [Key -> RowStatus]
    /\ done \in SUBSET Key
    /\ earlier \in [Key -> SUBSET Key]
    /\ dead \in SUBSET Key
    /\ outbox \in SUBSET Message

LEMMA InsertType ==
    ASSUME TypeOK, NEW k \in Key, NEW tier \in Tier, NEW s \in ExecStatus, Insert(k, tier),
           status' = status \/ status' = [status EXCEPT ![k.exec] = s]
    PROVE  DbType'
<1>1. [key |-> k, tier |-> tier] \in Message
  BY DEF Message
<1>2. "PENDING" \in RowStatus
  BY DEF RowStatus
<1> QED
  BY <1>1, <1>2 DEF TypeOK, DbType, Insert

LEMMA CloseType ==
    ASSUME TypeOK, NEW k \in Key,
           CompleteActivity(k) \/ FailActivity(k) \/ DeadLetterActivity(k)
    PROVE  DbType'
<1>1. [key |-> k, tier |-> "dlq"] \in Message
  BY DEF Message, Tier
<1>2. "COMPLETED" \in RowStatus /\ "FAILED" \in RowStatus
  BY DEF RowStatus
<1>3. CASE CompleteActivity(k)
  BY <1>2, <1>3 DEF TypeOK, DbType, CompleteActivity, RowsOf
<1>4. CASE FailActivity(k)
  BY <1>2, <1>4 DEF TypeOK, DbType, FailActivity
<1>5. CASE DeadLetterActivity(k)
  BY <1>1, <1>2, <1>5 DEF TypeOK, DbType, DeadLetterActivity
<1> QED
  BY <1>3, <1>4, <1>5

LEMMA SetStatusType ==
    ASSUME TypeOK, NEW e \in Exec, NEW s \in ExecStatus, SetStatus(e, s)
    PROVE  DbType'
  BY DEF TypeOK, DbType, SetStatus

LEMMA DbUnchanged ==
    ASSUME TypeOK, UNCHANGED db
    PROVE  DbType'
  BY DEF TypeOK, DbType, db

\* The compensation to run next is a compensation of the workflow.
LEMMA NextCompensationType ==
    ASSUME NEW e \in Exec, NEW c \in NextCompensation(e)
    PROVE  /\ c \in CompName
           /\ \E i \in Step : Comp[i] = c /\ \E k \in Uncompensated(e) : k.name = i
<1>1. PICK k \in Uncompensated(e) : c = Comp[k.name]
  BY DEF NextCompensation
<1>2. k.name \in Step /\ Comp[k.name] # NoComp
  BY <1>1 DEF Uncompensated
<1> QED
  BY <1>1, <1>2, WorkflowAssumption

EnvType ==
    /\ results \in SUBSET Result
    /\ leader \in Reaper \cup {Nobody}
    /\ overdue \in [Proc -> SUBSET Key]
    /\ faults \in 0..MaxFaults
    /\ repeats \in 0..MaxRepeats

LockType == lock \in [Exec -> Proc \cup {Nobody}] /\ h \in HandlerType

LEMMA TypeParts == DbType' /\ EnvType' /\ LockType' => TypeOK'
  BY DEF TypeOK, DbType, EnvType, LockType, HandlerType

LEMMA HandleType ==
    ASSUME TypeOK, HandlerInv, NEW p \in Consumer \cup Reaper, Handle(p)
    PROVE  TypeOK'
<1> DEFINE k == h[p].key
<1>1. p \in Proc /\ "ack" \in {"ack", "nack"} /\ "nack" \in {"ack", "nack"}
  BY DEF Proc
<1>2. k \in Key /\ k.exec \in Exec /\ k.name \in Name
  BY <1>1 DEF HandlerInv, Handle, BeginSuccess, CompleteStep, ReadExecution, AdvanceCompensation,
     FinishCompensation, AdvanceStep, FinishWorkflow, UnknownActivity, BeginFailure, FailStep,
     RetryStep, CompensateStep, FailWorkflow, Key
<1>3. EnvType'
  BY DEF TypeOK, EnvType, env, Handle, BeginSuccess, CompleteStep, ReadExecution, AdvanceCompensation,
     FinishCompensation, AdvanceStep, FinishWorkflow, UnknownActivity, BeginFailure, FailStep,
     RetryStep, CompensateStep, FailWorkflow
<1>4. CASE BeginSuccess(p)
  <2>1. DbType'
    BY <1>4, DbUnchanged DEF BeginSuccess
  <2>2. LockType'
    <3>1. CASE Return(p, "ack") \/ Return(p, "nack")
      BY <3>1, <1>1, ReturnType DEF LockType
    <3>2. CASE LockWorkflow(p, k.exec) /\ h' = [h EXCEPT ![p].pc = "complete"]
      <4>1. "complete" \in Location
        BY DEF Location, Locked
      <4> QED
        BY <3>2, <1>1, <1>2, <4>1 DEF LockWorkflow, LockType, HandlerType, TypeOK
    <3> QED
      BY <1>4, <3>1, <3>2 DEF BeginSuccess
  <2> QED
    BY <2>1, <2>2, <1>3, TypeParts
<1>5. CASE BeginFailure(p)
  <2>1. DbType'
    BY <1>5, DbUnchanged DEF BeginFailure
  <2>2. LockType'
    <3>1. CASE Return(p, "ack") \/ Return(p, "nack")
      BY <3>1, <1>1, ReturnType DEF LockType
    <3>2. CASE /\ LockWorkflow(p, k.exec)
               /\ h' = [h EXCEPT ![p].pc = "fail", ![p].seen = status[k.exec]]
      <4>1. lock' \in [Exec -> Proc \cup {Nobody}]
        BY <3>2, <1>1, <1>2 DEF LockWorkflow, TypeOK
      <4>2. "fail" \in Location /\ status[k.exec] \in ExecStatus
        BY <1>2 DEF Location, Locked, TypeOK
      <4> QED
        BY <3>2, <1>1, <4>1, <4>2 DEF LockType, HandlerType, TypeOK
    <3> QED
      BY <1>5, <3>1, <3>2 DEF BeginFailure
  <2> QED
    BY <2>1, <2>2, <1>3, TypeParts
<1>6. CASE CompleteStep(p)
  <2>1. DbType'
    BY <1>2, <1>6, CloseType, DbUnchanged DEF CompleteStep, Rejected
  <2>2. "readExec" \in Location
    BY DEF Location, Locked
  <2>3. LockType'
    BY <1>1, <1>6, <2>2, ReturnType, GotoType DEF CompleteStep, Rejected, LockType
  <2> QED
    BY <2>1, <2>3, <1>3, TypeParts
<1>7. CASE FailStep(p)
  <2>1. DbType'
    BY <1>2, <1>7, CloseType, DbUnchanged DEF FailStep, Rejected
  <2>2. "retry" \in Location /\ "compensate" \in Location
    BY DEF Location, Locked
  <2>3. LockType'
    BY <1>1, <1>7, <2>2, ReturnType, GotoType DEF FailStep, Rejected, LockType
  <2> QED
    BY <2>1, <2>3, <1>3, TypeParts
<1>8. CASE ReadExecution(p)
  <2>1. DbType'
    BY <1>8, DbUnchanged DEF ReadExecution, Rejected
  <2>2. LockType'
    <3>1. CASE Return(p, "nack")
      BY <3>1, <1>1, ReturnType DEF LockType
    <3>2. CASE /\ h' = [h EXCEPT ![p].pc = "advance", ![p].seen = status[k.exec]]
               /\ UNCHANGED lock
      <4>1. "advance" \in Location /\ status[k.exec] \in ExecStatus
        BY <1>2 DEF Location, Locked, TypeOK
      <4> QED
        BY <3>2, <1>1, <4>1 DEF LockType, HandlerType, TypeOK
    <3> QED
      BY <1>8, <3>1, <3>2 DEF ReadExecution, Rejected
  <2> QED
    BY <2>1, <2>2, <1>3, TypeParts
<1>9. CASE AdvanceCompensation(p) \/ CompensateStep(p)
  <2>1. PICK c \in NextCompensation(k.exec) :
           \/ StartCompensating(Row(k.exec, c, 1)) /\ Return(p, "ack")
           \/ Rejected(p)
    BY <1>9 DEF AdvanceCompensation, CompensateStep
  <2>2. Row(k.exec, c, 1) \in Key /\ Row(k.exec, c, 1).exec = k.exec
    BY <1>2, <2>1, NextCompensationType, RowType, AttemptAssumption DEF Name, Row
  <2>3. DbType'
    BY <2>1, <2>2, InsertType, DbUnchanged DEF StartCompensating, Rejected, Tier, ExecStatus
  <2>4. LockType'
    BY <2>1, <1>1, ReturnType DEF Rejected, LockType
  <2> QED
    BY <2>3, <2>4, <1>3, TypeParts
<1>10. CASE FinishCompensation(p) \/ FinishWorkflow(p) \/ FailWorkflow(p) \/ UnknownActivity(p)
  <2>1. DbType'
    BY <1>2, <1>10, SetStatusType, DbUnchanged
    DEF FinishCompensation, FinishWorkflow, FailWorkflow, UnknownActivity, Rejected, ExecStatus,
        CompensatedExecution, CompleteExecution, FailExecution
  <2>2. LockType'
    BY <1>1, <1>10, ReturnType
    DEF FinishCompensation, FinishWorkflow, FailWorkflow, UnknownActivity, Rejected, LockType
  <2> QED
    BY <2>1, <2>2, <1>3, TypeParts
<1>11. CASE AdvanceStep(p)
  <2>1. k.name + 1 \in Step
    BY <1>11, WorkflowAssumption DEF AdvanceStep, Step
  <2>2. Row(k.exec, k.name + 1, 1) \in Key
    BY <1>2, <2>1, RowType, AttemptAssumption DEF Name
  <2>3. DbType'
    BY <1>11, <2>2, InsertType, DbUnchanged
    DEF AdvanceStep, ScheduleNextActivity, Rejected, Tier, ExecStatus
  <2>4. LockType'
    BY <1>1, <1>11, ReturnType DEF AdvanceStep, Rejected, LockType
  <2> QED
    BY <2>3, <2>4, <1>3, TypeParts
<1>12. CASE RetryStep(p)
  <2>1. k.attempt < AttemptCap
    BY <1>1, <1>2, <1>12, BudgetType, AttemptAssumption DEF RetryStep, HandlerInv, Key
  <2>2. NextAttempt(k) \in Key
    BY <1>2, <2>1, NextAttemptType
  <2>3. DbType'
    BY <1>12, <2>2, InsertType, DbUnchanged
    DEF RetryStep, ScheduleNextActivity, Rejected, Tier, ExecStatus
  <2>4. LockType'
    BY <1>1, <1>12, ReturnType DEF RetryStep, Rejected, LockType
  <2> QED
    BY <2>3, <2>4, <1>3, TypeParts
<1> QED
  BY <1>4, <1>5, <1>6, <1>7, <1>8, <1>9, <1>10, <1>11, <1>12 DEF Handle

LEMMA RequestType ==
    ASSUME TypeOK, HandlerInv, NEW c \in Client, Request(c)
    PROVE  TypeOK'
<1>1. c \in Proc /\ "ack" \in {"ack", "nack"}
  BY DEF Proc
<1>2. EnvType'
  BY DEF TypeOK, EnvType, env, Request, ReadDeadLetter, RetryDeadLetter, ReadFailedCompensation,
     RetryFailedCompensation, CancelExecution, DeleteExecution
<1>3. ASSUME NEW k \in Key, ReadDeadLetter(c, k) PROVE TypeOK'
  <2>1. DbType'
    BY <1>3, DbUnchanged DEF ReadDeadLetter
  <2>2. "retryRow" \in Location /\ "ok" \in Outcome /\ status[k.exec] \in ExecStatus
    BY DEF Location, Outcome, TypeOK, Key
  <2>3. LockType'
    BY <1>1, <1>3, <2>2 DEF ReadDeadLetter, LockType, HandlerType, TypeOK
  <2> QED
    BY <2>1, <2>3, <1>2, TypeParts
<1>4. CASE RetryDeadLetter(c) \/ RetryFailedCompensation(c)
  <2> DEFINE k == h[c].key
  <2>1. k \in Key /\ k.attempt < AttemptCap
    BY <1>1, <1>4 DEF HandlerInv, RetryDeadLetter, RetryFailedCompensation
  <2>2. NextAttempt(k) \in Key
    BY <2>1, NextAttemptType
  <2>3. DbType'
    BY <1>4, <2>2, InsertType, DbUnchanged
    DEF RetryDeadLetter, RetryFailedCompensation, RetryActivity, StartCompensating, Tier, ExecStatus
  <2>4. LockType'
    BY <1>1, <1>4, ReturnType DEF RetryDeadLetter, RetryFailedCompensation, LockType
  <2> QED
    BY <2>3, <2>4, <1>2, TypeParts
<1>5. ASSUME NEW e \in Exec, ReadFailedCompensation(c, e) PROVE TypeOK'
  <2>1. DbType'
    BY <1>5, DbUnchanged DEF ReadFailedCompensation
  <2>2. "retryComp" \in Location /\ "ok" \in Outcome /\ "FAILED" \in ExecStatus
    BY DEF Location, Locked, Outcome, ExecStatus
  <2>3. PICK k \in dead :
           h' = [h EXCEPT ![c] = [pc |-> "retryComp", key |-> k, res |-> "ok", seen |-> "FAILED"]]
    BY <1>5 DEF ReadFailedCompensation, FailedCompensation
  <2>4. LockType'
    BY <1>1, <1>5, <2>2, <2>3 DEF ReadFailedCompensation, LockWorkflow, LockType, HandlerType, TypeOK
  <2> QED
    BY <2>1, <2>4, <1>2, TypeParts
<1>6. ASSUME NEW e \in Exec, CancelExecution(c, e) \/ DeleteExecution(c, e) PROVE TypeOK'
  <2>1. LockType'
    BY <1>6 DEF CancelExecution, DeleteExecution, LockType, TypeOK, HandlerType
  <2>2. CASE CancelExecution(c, e)
    BY <2>1, <2>2, <1>2, SetStatusType, TypeParts DEF CancelExecution, ExecStatus
  <2>3. CASE DeleteExecution(c, e)
    <3>1. DbType'
      BY <2>3 DEF DeleteExecution, DbType, TypeOK, ExecStatus, RowStatus
    <3> QED
      BY <2>1, <3>1, <1>2, TypeParts
  <2> QED
    BY <1>6, <2>2, <2>3
<1> QED
  BY <1>3, <1>4, <1>5, <1>6 DEF Request

LEMMA TypeNext ==
    ASSUME TypeOK, HandlerInv, [Next]_vars
    PROVE  TypeOK'
<1>1. ASSUME NEW e \in Exec, StartWorkflow(e) PROVE TypeOK'
  <2>1. EnvType' /\ LockType'
    BY <1>1 DEF StartWorkflow, env, TypeOK, EnvType, LockType, HandlerType
  <2>2. CASE N = 0
    <3>1. DbType'
      BY <1>1, <2>2 DEF StartWorkflow, CreateExecution, TypeOK, DbType, ExecStatus
    <3> QED
      BY <2>1, <3>1, TypeParts
  <2>3. CASE N # 0
    <3>1. Row(e, 1, 1) \in Key
      BY <2>3, RowType, WorkflowAssumption, AttemptAssumption DEF Name, Step
    <3>2. [key |-> Row(e, 1, 1), tier |-> "now"] \in Message
      BY <3>1 DEF Message, Tier
    <3>3. DbType'
      BY <1>1, <2>3, <3>1, <3>2
      DEF StartWorkflow, CreateExecution, TypeOK, DbType, ExecStatus, RowStatus
    <3> QED
      BY <2>1, <3>3, TypeParts
  <2> QED
    BY <2>2, <2>3
<1>2. ASSUME NEW k \in Key, NEW r \in Outcome, WorkOnce(k, r) \/ WorkAgain(k, r) PROVE TypeOK'
  <2>1. [key |-> k, res |-> r] \in Result
    BY DEF Result
  <2>2. DbType'
    BY <1>2 DEF WorkOnce, WorkAgain, TypeOK, DbType, db
  <2>3. EnvType' /\ LockType'
    BY <1>2, <2>1, ProcessAssumption
    DEF WorkOnce, WorkAgain, TypeOK, EnvType, LockType, HandlerType
  <2> QED
    BY <2>2, <2>3, TypeParts
<1>3. ASSUME NEW p \in Consumer, Settle(p) PROVE TypeOK'
  <2>1. p \in Proc /\ h[p].key \in Key
    BY <1>3 DEF Settle, HandlerInv, Proc
  <2>2. [key |-> h[p].key, res |-> h[p].res] \in Result
    BY <2>1 DEF Result, TypeOK
  <2>3. Idle \in [pc : Location, key : Key \cup {NoKey}, res : Outcome, seen : ExecStatus]
    BY DEF Idle, Location, Outcome, ExecStatus
  <2>4. DbType'
    BY <1>3, DbUnchanged DEF Settle
  <2>5. EnvType' /\ LockType'
    BY <1>3, <2>1, <2>2, <2>3 DEF Settle, TypeOK, EnvType, LockType, HandlerType
  <2> QED
    BY <2>4, <2>5, TypeParts
<1>4. ASSUME NEW p \in Consumer, NEW m \in results, Deliver(p, m) PROVE TypeOK'
  <2>1. p \in Proc /\ m.key \in Key /\ m.res \in Outcome
    BY DEF TypeOK, Result, Proc
  <2>2. "wait" \in Location /\ "ABSENT" \in ExecStatus
    BY DEF Location, ExecStatus
  <2>3. DbType'
    BY <1>4, DbUnchanged DEF Deliver
  <2>4. EnvType' /\ LockType'
    BY <1>4, <2>1, <2>2 DEF Deliver, TypeOK, EnvType, LockType, HandlerType
  <2> QED
    BY <2>3, <2>4, TypeParts
<1>5. ASSUME NEW r \in Reaper, Scan(r) \/ ReapNext(r) \/ ReapEnd(r) PROVE TypeOK'
  <2>1. r \in Proc /\ Idle \in [pc : Location, key : Key \cup {NoKey}, res : Outcome, seen : ExecStatus]
    BY DEF Proc, Idle, Location, Outcome, ExecStatus
  <2>2. /\ "wait" \in Location /\ "reap" \in Location /\ "err" \in Outcome
        /\ "ABSENT" \in ExecStatus
    BY DEF Location, Outcome, ExecStatus
  <2>3. DbType'
    BY <1>5, DbUnchanged DEF Scan, ReapNext, ReapEnd
  <2>4. CASE Scan(r)
    BY <2>1, <2>2, <2>3, <2>4, TypeParts DEF Scan, TypeOK, EnvType, LockType, HandlerType
  <2>5. CASE ReapNext(r)
    BY <2>1, <2>2, <2>3, <2>5, TypeParts DEF ReapNext, TypeOK, EnvType, LockType, HandlerType
  <2>6. CASE ReapEnd(r)
    BY <2>1, <2>2, <2>3, <2>6, TypeParts DEF ReapEnd, TypeOK, EnvType, LockType, HandlerType
  <2> QED
    BY <1>5, <2>4, <2>5, <2>6
<1>6. ASSUME NEW p \in Proc, DBError(p) PROVE TypeOK'
  <2>1. DbType' /\ EnvType'
    BY <1>6, DbUnchanged, ProcessAssumption DEF DBError, TypeOK, EnvType
  <2>2. LockType'
    BY <1>6, ReturnType DEF DBError, LockType
  <2> QED
    BY <2>1, <2>2, TypeParts
<1>7. ASSUME NEW p \in Proc, Crash(p) PROVE TypeOK'
  <2>1. p \in Consumer => [key |-> h[p].key, res |-> h[p].res] \in Result
    <3>1. p \in Consumer => h[p].pc # "reap"
      BY ProcessAssumption DEF HandlerInv
    <3> QED
      BY <1>7, <3>1 DEF HandlerInv, Crash, Result, TypeOK
  <2>2. Idle \in [pc : Location, key : Key \cup {NoKey}, res : Outcome, seen : ExecStatus]
    BY DEF Idle, Location, Outcome, ExecStatus
  <2>3. DbType' /\ LockType'
    BY <1>7, <2>2, DbUnchanged DEF Crash, Free, TypeOK, LockType, HandlerType
  <2>4. EnvType'
    BY <1>7, <2>1, ProcessAssumption DEF Crash, TypeOK, EnvType
  <2> QED
    BY <2>3, <2>4, TypeParts
<1>8. CASE UNCHANGED vars
  BY <1>8 DEF TypeOK, vars
<1> QED
  BY <1>1, <1>2, <1>3, <1>4, <1>5, <1>6, <1>7, <1>8, HandleType, RequestType
  DEF Next, Undisturbed, Consume, Reap

-----------------------------------------------------------------------------
(* The lock.                                                               *)

\* A step of p that leaves the other handlers and their locks alone.
LEMMA OneHandlerMoves ==
    ASSUME LockHeldByHandler, NEW p \in Proc,
           \A q \in Proc \ {p} : h'[q] = h[q],
           \A q \in Proc \ {p}, e \in Exec : lock'[e] = q <=> lock[e] = q,
           \A e \in Exec : lock'[e] = p <=> h'[p].pc \in Locked /\ h'[p].key.exec = e
    PROVE  LockHeldByHandler'
  BY DEF LockHeldByHandler

LEMMA ReturnKeepsLocks ==
    ASSUME TypeOK, LockHeldByHandler, NEW p \in Proc, NEW v \in {"ack", "nack"}, Return(p, v)
    PROVE  LockHeldByHandler'
<1>1. \A q \in Proc \ {p} : h'[q] = h[q]
  BY DEF Return, TypeOK
<1>2. \A q \in Proc \ {p}, e \in Exec : lock'[e] = q <=> lock[e] = q
  BY ProcessAssumption DEF Return, Free, TypeOK
<1>3. \A e \in Exec : lock'[e] # p
  BY ProcessAssumption DEF Return, Free
<1>4. h'[p].pc \notin Locked
  BY DEF Return, TypeOK, Idle, Locked
<1> QED
  BY <1>1, <1>2, <1>3, <1>4, OneHandlerMoves

LEMMA GotoKeepsLocks ==
    ASSUME TypeOK, LockHeldByHandler, NEW p \in Proc, h[p].pc \in Locked,
           NEW pc \in Locked, Goto(p, pc)
    PROVE  LockHeldByHandler'
<1>1. /\ \A q \in Proc \ {p} : h'[q] = h[q]
      /\ h'[p].pc = pc /\ h'[p].key = h[p].key
      /\ lock' = lock
  BY DEF Goto, TypeOK
<1> QED
  BY <1>1, OneHandlerMoves DEF LockHeldByHandler

LEMMA TakingLock ==
    ASSUME TypeOK, LockHeldByHandler, NEW p \in Proc, NEW e \in Exec, LockWorkflow(p, e),
           h[p].pc \notin Locked,
           \A q \in Proc \ {p} : h'[q] = h[q], h'[p].pc \in Locked, h'[p].key.exec = e
    PROVE  LockHeldByHandler'
<1>1. \A q \in Proc \ {p}, x \in Exec : lock'[x] = q <=> lock[x] = q
  BY ProcessAssumption DEF LockWorkflow, TypeOK
<1>2. \A x \in Exec : lock'[x] = p <=> x = e
  BY DEF LockWorkflow, LockHeldByHandler, TypeOK
<1> QED
  BY <1>1, <1>2, OneHandlerMoves

LEMMA UnlockedMove ==
    ASSUME LockHeldByHandler, NEW p \in Proc, h[p].pc \notin Locked, h'[p].pc \notin Locked,
           \A q \in Proc \ {p} : h'[q] = h[q], lock' = lock
    PROVE  LockHeldByHandler'
  BY DEF LockHeldByHandler

LEMMA LockNext ==
    ASSUME TypeOK, HandlerInv, LockHeldByHandler, [Next]_vars
    PROVE  LockHeldByHandler'
<1>1. ASSUME NEW p \in Consumer \cup Reaper, Handle(p) PROVE LockHeldByHandler'
  <2> DEFINE k == h[p].key
  <2>1. p \in Proc /\ "ack" \in {"ack", "nack"} /\ "nack" \in {"ack", "nack"}
    BY DEF Proc
  <2>2. CASE Return(p, "ack") \/ Return(p, "nack")
    BY <2>1, <2>2, ReturnKeepsLocks
  <2>3. CASE /\ h[p].pc = "wait" /\ LockWorkflow(p, k.exec)
             /\ \/ h' = [h EXCEPT ![p].pc = "complete"]
                \/ h' = [h EXCEPT ![p].pc = "fail", ![p].seen = status[k.exec]]
    <3>1. /\ k.exec \in Exec /\ h[p].pc \notin Locked
          /\ \A q \in Proc \ {p} : h'[q] = h[q]
          /\ h'[p].pc \in Locked /\ h'[p].key = k
      BY <2>1, <2>3 DEF HandlerInv, TypeOK, Key, Locked
    <3> QED
      BY <2>1, <2>3, <3>1, TakingLock
  <2>4. CASE /\ h[p].pc \in Locked
             /\ \E pc \in Locked : Goto(p, pc)
    BY <2>1, <2>4, GotoKeepsLocks
  <2>5. CASE ReadExecution(p) /\ ~Rejected(p)
    <3>1. /\ \A q \in Proc \ {p} : h'[q] = h[q]
          /\ h[p].pc = "readExec" /\ h'[p].pc = "advance"
          /\ h'[p].key = h[p].key /\ lock' = lock
      BY <2>1, <2>5 DEF ReadExecution, TypeOK
    <3> QED
      BY <2>1, <3>1, OneHandlerMoves DEF LockHeldByHandler, Locked
  <2> QED
    BY <1>1, <2>2, <2>3, <2>4, <2>5
    DEF Handle, BeginSuccess, CompleteStep, ReadExecution, AdvanceCompensation, FinishCompensation,
        AdvanceStep, FinishWorkflow, UnknownActivity, BeginFailure, FailStep, RetryStep,
        CompensateStep, FailWorkflow, Rejected, Locked
<1>2. ASSUME NEW c \in Client, Request(c) PROVE LockHeldByHandler'
  <2>1. c \in Proc /\ "ack" \in {"ack", "nack"}
    BY DEF Proc
  <2>2. ASSUME NEW k \in Key, ReadDeadLetter(c, k) PROVE LockHeldByHandler'
    BY <2>1, <2>2, UnlockedMove DEF ReadDeadLetter, TypeOK, Locked
  <2>3. CASE RetryDeadLetter(c) \/ RetryFailedCompensation(c)
    BY <2>1, <2>3, ReturnKeepsLocks DEF RetryDeadLetter, RetryFailedCompensation
  <2>4. ASSUME NEW e \in Exec, ReadFailedCompensation(c, e) PROVE LockHeldByHandler'
    <3>1. /\ \A q \in Proc \ {c} : h'[q] = h[q]
          /\ h[c].pc \notin Locked /\ h'[c].pc \in Locked /\ h'[c].key.exec = e
      BY <2>1, <2>4 DEF ReadFailedCompensation, FailedCompensation, TypeOK, Locked
    <3> QED
      BY <2>1, <2>4, <3>1, TakingLock DEF ReadFailedCompensation
  <2>5. ASSUME NEW e \in Exec, CancelExecution(c, e) \/ DeleteExecution(c, e)
        PROVE  LockHeldByHandler'
    BY <2>5 DEF CancelExecution, DeleteExecution, LockHeldByHandler
  <2> QED
    BY <1>2, <2>2, <2>3, <2>4, <2>5 DEF Request
<1>3. ASSUME NEW p \in Consumer, Settle(p) \/ \E m \in results : Deliver(p, m)
      PROVE  LockHeldByHandler'
  <2>1. /\ p \in Proc /\ h[p].pc \notin Locked /\ h'[p].pc \notin Locked
        /\ \A q \in Proc \ {p} : h'[q] = h[q]
        /\ lock' = lock
    BY <1>3 DEF Settle, Deliver, Idle, TypeOK, Locked, Proc
  <2> QED
    BY <2>1, UnlockedMove
<1>4. ASSUME NEW r \in Reaper, Scan(r) \/ ReapNext(r) \/ ReapEnd(r) PROVE LockHeldByHandler'
  <2>1. /\ r \in Proc /\ h[r].pc \notin Locked /\ h'[r].pc \notin Locked
        /\ \A q \in Proc \ {r} : h'[q] = h[q]
        /\ lock' = lock
    BY <1>4 DEF Scan, ReapNext, ReapEnd, Idle, TypeOK, Locked, Proc
  <2> QED
    BY <2>1, UnlockedMove
<1>5. ASSUME NEW p \in Proc, DBError(p) PROVE LockHeldByHandler'
  BY <1>5, ReturnKeepsLocks DEF DBError
<1>6. ASSUME NEW p \in Proc, Crash(p) PROVE LockHeldByHandler'
  <2>1. \A q \in Proc \ {p} : h'[q] = h[q]
    BY <1>6 DEF Crash, TypeOK
  <2>2. \A q \in Proc \ {p}, e \in Exec : lock'[e] = q <=> lock[e] = q
    BY <1>6, ProcessAssumption DEF Crash, Free, TypeOK
  <2>3. (\A e \in Exec : lock'[e] # p) /\ h'[p].pc \notin Locked
    BY <1>6, ProcessAssumption DEF Crash, Free, TypeOK, Idle, Locked
  <2> QED
    BY <2>1, <2>2, <2>3, OneHandlerMoves
<1>7. CASE \/ \E e \in Exec : StartWorkflow(e)
           \/ \E k \in Key, r \in Outcome : WorkOnce(k, r) \/ WorkAgain(k, r)
           \/ UNCHANGED vars
  <2>1. lock' = lock /\ h' = h
    BY <1>7 DEF StartWorkflow, WorkOnce, WorkAgain, vars
  <2> QED
    BY <2>1 DEF LockHeldByHandler
<1> QED
  BY <1>1, <1>2, <1>3, <1>4, <1>5, <1>6, <1>7 DEF Next, Undisturbed, Consume, Reap

-----------------------------------------------------------------------------
(* What a step may do to the database, and what justifies it.              *)

Cause(e) == \E d \in dead : d.exec = e

\* A new row is the first activity, the successor of a completed activity, a compensation of
\* a completed activity, or the next attempt of a closed one that had attempts left or was
\* dead-lettered.
Justified(k) ==
    \/ /\ k.name \in Step /\ k.attempt = 1
       /\ k.name = 1 \/ \E j \in done : j.exec = k.exec /\ j.name + 1 = k.name /\ j.name \in Step
    \/ /\ k.name \in CompName /\ k.attempt = 1
       /\ \E i \in Step : Comp[i] = k.name /\ Completed(k.exec, i)
    \/ \E j \in Key : /\ k = NextAttempt(j) /\ j.attempt < AttemptCap
                      /\ act[j] \in Closed
                      /\ j.attempt < Budget(j.name) \/ j \in dead

InsertTransaction ==
    \E k \in Key, tier \in {"now", "later"} :
        /\ Insert(k, tier) /\ Justified(k)
        /\ \/ status' = status
           \/ status' = [status EXCEPT ![k.exec] = "RUNNING"]
           \/ status' = [status EXCEPT ![k.exec] = "COMPENSATING"] /\ Cause(k.exec)

CloseTransaction ==
    \E k \in Key : CompleteActivity(k) \/ FailActivity(k) \/ DeadLetterActivity(k)

StatusTransaction ==
    \E e \in Exec : \/ CompleteExecution(e) /\ \A i \in Step : Completed(e, i)
                    \/ (FailExecution(e) \/ CompensatedExecution(e)) /\ Cause(e)
                    \/ SetStatus(e, "CANCELLED")

DeleteTransaction == \E e \in Exec, c \in Client : DeleteExecution(c, e)

Transaction ==
    \/ UNCHANGED <<status, act, done, earlier, dead>> /\ outbox' \subseteq outbox
    \/ \E e \in Exec : CreateExecution(e)
    \/ InsertTransaction
    \/ CloseTransaction
    \/ StatusTransaction
    \/ DeleteTransaction

LEMMA HandleTransaction ==
    ASSUME IInv, NEW p \in Consumer \cup Reaper, Handle(p)
    PROVE  Transaction
<1> DEFINE k == h[p].key
<1> USE DEF IInv
<1>1. p \in Proc
  BY DEF Proc
<1>2. /\ k \in Key /\ k.exec \in Exec /\ k.name \in Name
      /\ Exists(k.exec) => Knows(p)
  BY <1>1 DEF HandlerInv, Handle, BeginSuccess, CompleteStep, ReadExecution, AdvanceCompensation,
     FinishCompensation, AdvanceStep, FinishWorkflow, UnknownActivity, BeginFailure, FailStep,
     RetryStep, CompensateStep, FailWorkflow, Key
<1>3. CASE UNCHANGED db
  BY <1>3 DEF db, Transaction
<1>4. CASE CompleteStep(p) \/ FailStep(p)
  BY <1>2, <1>3, <1>4 DEF CompleteStep, FailStep, Rejected, Transaction, CloseTransaction
<1>5. CASE AdvanceStep(p) /\ ~UNCHANGED db
  <2> DEFINE next == Row(k.exec, k.name + 1, 1)
  <2>1. ScheduleNextActivity(next, "now")
    BY <1>5 DEF AdvanceStep, Rejected
  <2>2. k.name \in Step /\ k.name + 1 \in Step
    BY <1>5, WorkflowAssumption DEF AdvanceStep, Step
  <2>3. /\ next \in Key /\ next.exec = k.exec
        /\ next.name = k.name + 1 /\ next.attempt = 1
    BY <1>2, <2>2, RowType, AttemptAssumption DEF Name, Row
  <2>4. k \in done
    BY <1>2, <1>5, <2>1, <2>3 DEF AdvanceStep, ScheduleNextActivity, Insert, CanInsert, Knows, RowInv
  <2>5. Justified(next)
    BY <2>2, <2>3, <2>4 DEF Justified
  <2> QED
    BY <2>1, <2>3, <2>5 DEF Transaction, InsertTransaction, ScheduleNextActivity
<1>6. CASE RetryStep(p) /\ ~UNCHANGED db
  <2>1. ScheduleNextActivity(NextAttempt(k), "later")
    BY <1>6 DEF RetryStep, Rejected
  <2>2. k.attempt < Budget(k.name) /\ k.attempt < AttemptCap
    BY <1>1, <1>2, <1>6, BudgetType, AttemptAssumption DEF RetryStep, HandlerInv, Key
  <2>3. NextAttempt(k) \in Key /\ NextAttempt(k).exec = k.exec
    BY <1>2, <2>2, NextAttemptType
  <2>4. act[k] \in Closed
    BY <1>2, <1>6, <2>1, <2>3
    DEF RetryStep, ScheduleNextActivity, Insert, CanInsert, Knows, Closed
  <2>5. Justified(NextAttempt(k))
    BY <1>2, <2>2, <2>4 DEF Justified
  <2> QED
    BY <2>1, <2>3, <2>5 DEF Transaction, InsertTransaction, ScheduleNextActivity
<1>7. CASE (AdvanceCompensation(p) \/ CompensateStep(p)) /\ ~UNCHANGED db
  <2>1. PICK c \in NextCompensation(k.exec) : StartCompensating(Row(k.exec, c, 1))
    BY <1>7 DEF AdvanceCompensation, CompensateStep, Rejected
  <2> DEFINE next == Row(k.exec, c, 1)
  <2>2. c \in CompName
    BY <1>2, <2>1, NextCompensationType
  <2>3. /\ next \in Key /\ next.exec = k.exec
        /\ next.name = c /\ next.attempt = 1
    BY <1>2, <2>2, RowType, AttemptAssumption DEF Name, Row
  <2>4. PICK i \in Step : Comp[i] = c /\ \E j \in Uncompensated(k.exec) : j.name = i
    BY <1>2, <2>1, NextCompensationType
  <2>5. Completed(k.exec, i)
    BY <2>4 DEF Uncompensated, RowsOf, RowInv, Completed
  <2>6. Cause(k.exec)
    BY <1>2, <1>7, <2>1, <2>3
    DEF AdvanceCompensation, CompensateStep, StartCompensating, Insert, CanInsert, Knows, Cause
  <2>7. Justified(next)
    BY <2>2, <2>3, <2>4, <2>5 DEF Justified
  <2> QED
    BY <2>1, <2>3, <2>6, <2>7 DEF Transaction, InsertTransaction, StartCompensating
<1>8. CASE (FinishCompensation(p) \/ FailWorkflow(p)) /\ ~UNCHANGED db
  <2>1. CompensatedExecution(k.exec) \/ FailExecution(k.exec)
    BY <1>8 DEF FinishCompensation, FailWorkflow, Rejected
  <2>2. Cause(k.exec)
    BY <1>2, <1>8, <2>1 DEF FinishCompensation, FailWorkflow, CompensatedExecution, FailExecution,
       SetStatus, Knows, Cause
  <2> QED
    BY <1>2, <2>1, <2>2 DEF Transaction, StatusTransaction
<1>9. CASE FinishWorkflow(p) /\ ~UNCHANGED db
  <2>1. CompleteExecution(k.exec)
    BY <1>9 DEF FinishWorkflow, Rejected
  <2>2. act[k] = "COMPLETED" /\ k \in done
    BY <1>2, <1>9, <2>1 DEF FinishWorkflow, CompleteExecution, SetStatus, Knows, RowInv
  <2>3. \A i \in Step : Completed(k.exec, i)
    <3> SUFFICES ASSUME NEW i \in Step PROVE Completed(k.exec, i)
      OBVIOUS
    <3>1. CASE i = N
      BY <1>9, <2>2, <3>1 DEF FinishWorkflow, Completed
    <3>2. CASE i # N
      <4>1. N \in Step /\ i \in 1..(N - 1)
        BY <3>2, WorkflowAssumption DEF Step
      <4> QED
        BY <1>2, <1>9, <2>2, <4>1 DEF FinishWorkflow, SequentialSteps
    <3> QED
      BY <3>1, <3>2
  <2> QED
    BY <1>2, <2>1, <2>3 DEF Transaction, StatusTransaction
<1>10. CASE BeginSuccess(p) \/ BeginFailure(p) \/ ReadExecution(p) \/ UnknownActivity(p)
  BY <1>3, <1>10 DEF BeginSuccess, BeginFailure, ReadExecution, UnknownActivity, Rejected
<1> QED
  BY <1>3, <1>4, <1>5, <1>6, <1>7, <1>8, <1>9, <1>10 DEF Handle

LEMMA RequestTransaction ==
    ASSUME IInv, NEW c \in Client, Request(c)
    PROVE  Transaction
<1> DEFINE k == h[c].key
<1> USE DEF IInv
<1>1. c \in Proc
  BY DEF Proc
<1>2. CASE UNCHANGED db
  BY <1>2 DEF db, Transaction
<1>3. CASE (RetryDeadLetter(c) \/ RetryFailedCompensation(c)) /\ ~UNCHANGED db
  <2>1. k \in Key /\ k.attempt < AttemptCap /\ (Exists(k.exec) => Knows(c))
    BY <1>1, <1>3 DEF RetryDeadLetter, RetryFailedCompensation, HandlerInv
  <2>2. NextAttempt(k) \in Key /\ NextAttempt(k).exec = k.exec
    BY <2>1, NextAttemptType
  <2>3. CanInsert(NextAttempt(k))
    BY <1>3 DEF RetryDeadLetter, RetryFailedCompensation, RetryActivity, StartCompensating, Insert
  <2>4. k \in dead
    BY <1>3, <2>1, <2>2, <2>3
    DEF RetryDeadLetter, RetryFailedCompensation, CanInsert, Knows
  <2>5. Justified(NextAttempt(k)) /\ Cause(k.exec)
    BY <2>1, <2>4 DEF Justified, RowInv, Cause
  <2> QED
    BY <1>3, <2>2, <2>5
    DEF RetryDeadLetter, RetryFailedCompensation, RetryActivity, StartCompensating,
        Transaction, InsertTransaction
<1>4. ASSUME NEW e \in Exec, CancelExecution(c, e) \/ DeleteExecution(c, e) PROVE Transaction
  BY <1>4 DEF CancelExecution, Transaction, StatusTransaction, DeleteTransaction
<1>5. ASSUME NEW e \in Exec, ReadFailedCompensation(c, e) PROVE UNCHANGED db
  BY <1>5 DEF ReadFailedCompensation
<1>6. ASSUME NEW r \in Key, ReadDeadLetter(c, r) PROVE UNCHANGED db
  BY <1>6 DEF ReadDeadLetter
<1> QED
  BY <1>2, <1>3, <1>4, <1>5, <1>6 DEF Request

\* Every step of the system is one of these transactions.
LEMMA NextTransaction ==
    ASSUME IInv, [Next]_vars
    PROVE  Transaction
<1>1. ASSUME NEW e \in Exec, StartWorkflow(e) PROVE Transaction
  BY <1>1 DEF StartWorkflow, Transaction
<1>2. CASE \E k \in Key, r \in Outcome : WorkOnce(k, r) \/ WorkAgain(k, r)
  BY <1>2 DEF WorkOnce, WorkAgain, db, Transaction
<1>3. ASSUME UNCHANGED db PROVE Transaction
  BY <1>3 DEF db, Transaction
<1>4. ASSUME NEW p \in Consumer, Settle(p) \/ \E m \in results : Deliver(p, m) PROVE UNCHANGED db
  BY <1>4 DEF Settle, Deliver
<1>5. ASSUME NEW r \in Reaper, Scan(r) \/ ReapNext(r) \/ ReapEnd(r) PROVE UNCHANGED db
  BY <1>5 DEF Scan, ReapNext, ReapEnd
<1>6. ASSUME NEW p \in Proc, DBError(p) \/ Crash(p) PROVE UNCHANGED db
  BY <1>6 DEF DBError, Crash
<1>7. CASE UNCHANGED vars
  BY <1>7 DEF vars, Transaction
<1> QED
  BY <1>1, <1>2, <1>3, <1>4, <1>5, <1>6, <1>7, HandleTransaction, RequestTransaction
  DEF Next, Undisturbed, Consume, Reap

\* Rows only move forward while their execution exists: they stay, closed rows stay closed,
\* and a completed_at or dead_lettered_at is never cleared.
LEMMA RowsPersist ==
    ASSUME IInv, Transaction, NEW k \in Key, Exists(k.exec)'
    PROVE  /\ act[k] # "NONE" => act'[k] # "NONE"
           /\ act[k] \in Closed => act'[k] \in Closed
           /\ k \in done => k \in done'
           /\ k \in dead => k \in dead'
<1> USE DEF IInv, TypeOK, Closed
<1>1. CASE UNCHANGED <<status, act, done, dead>>
  BY <1>1
<1>2. ASSUME NEW e \in Exec, CreateExecution(e) PROVE act[k] # "NONE" => k.exec # e
  BY <1>2 DEF CreateExecution, RowInv, Exists
<1>3. CASE \E e \in Exec : CreateExecution(e)
  <2>1. PICK e \in Exec : CreateExecution(e)
    BY <1>3
  <2>2. Row(e, 1, 1).exec = e
    BY DEF Row
  <2>3. done' = done /\ dead' = dead /\ (act' = act \/ act' = [act EXCEPT ![Row(e, 1, 1)] = "PENDING"])
    BY <2>1 DEF CreateExecution
  <2>4. act[k] # "NONE" => act'[k] = act[k]
    BY <1>2, <2>1, <2>2, <2>3
  <2> QED
    BY <2>3, <2>4
<1>4. CASE InsertTransaction
  BY <1>4 DEF InsertTransaction, Insert, CanInsert
<1>5. CASE CloseTransaction
  BY <1>5 DEF CloseTransaction, CompleteActivity, FailActivity, DeadLetterActivity
<1>6. CASE StatusTransaction
  BY <1>6 DEF StatusTransaction, CompleteExecution, FailExecution, CompensatedExecution, SetStatus
<1>7. CASE DeleteTransaction
  <2>1. PICK e \in Exec, c \in Client : DeleteExecution(c, e)
    BY <1>7 DEF DeleteTransaction
  <2>2. k.exec # e
    BY <2>1 DEF DeleteExecution, Exists
  <2> QED
    BY <2>1, <2>2 DEF DeleteExecution, RowsOf
<1> QED
  BY <1>1, <1>3, <1>4, <1>5, <1>6, <1>7 DEF Transaction

LEMMA RowInvNext ==
    ASSUME IInv, Transaction
    PROVE  RowInv'
<1> USE DEF IInv, TypeOK, Closed
<1> SUFFICES ASSUME NEW k \in Key
             PROVE  /\ act'[k] # "NONE" => Exists(k.exec)'
                    /\ act'[k] = "COMPLETED" => k \in done'
                    /\ k \in done' \cup dead' => act'[k] \in Closed
  BY DEF RowInv
<1> USE DEF RowInv
<1>0. k.exec \in Exec
  BY DEF Key
<1>1. CASE UNCHANGED <<status, act, done, dead>>
  BY <1>1 DEF Exists
<1>2. CASE \E e \in Exec : CreateExecution(e)
  <2>1. PICK e \in Exec : CreateExecution(e)
    BY <1>2
  <2>2. Row(e, 1, 1).exec = e
    BY DEF Row
  <2>3. /\ done' = done /\ dead' = dead
        /\ act' = act \/ act' = [act EXCEPT ![Row(e, 1, 1)] = "PENDING"]
        /\ Exists(e)' /\ ~Exists(e)
        /\ \A x \in Exec \ {e} : status'[x] = status[x]
    BY <2>1 DEF CreateExecution, Exists
  <2> QED
    BY <1>0, <2>2, <2>3 DEF Exists
<1>3. CASE InsertTransaction
  BY <1>0, <1>3 DEF InsertTransaction, Insert, CanInsert, Exists
<1>4. CASE CloseTransaction
  <2>1. PICK j \in Key : CompleteActivity(j) \/ FailActivity(j) \/ DeadLetterActivity(j)
    BY <1>4 DEF CloseTransaction
  <2>2. status' = status /\ act[j] # "NONE" /\ (\A i \in Key \ {j} : act'[i] = act[i])
    BY <2>1 DEF CompleteActivity, FailActivity, DeadLetterActivity
  <2>3. (act'[j] = "COMPLETED" /\ done' = done \cup {j} /\ dead' = dead)
        \/ (act'[j] = "FAILED" /\ done' = done /\ dead' \in {dead, dead \cup {j}})
    BY <2>1 DEF CompleteActivity, FailActivity, DeadLetterActivity
  <2> QED
    BY <2>2, <2>3 DEF Exists
<1>5. CASE StatusTransaction
  BY <1>0, <1>5 DEF StatusTransaction, CompleteExecution, FailExecution, CompensatedExecution,
     SetStatus, Exists
<1>6. CASE DeleteTransaction
  BY <1>0, <1>6 DEF DeleteTransaction, DeleteExecution, RowsOf, Exists
<1> QED
  BY <1>1, <1>2, <1>3, <1>4, <1>5, <1>6 DEF Transaction

\* A row that a step adds is justified by the rows there were, or is the first of a new
\* execution; either way its task message is sent with it.
LEMMA InsertionJustified ==
    ASSUME IInv, Transaction, NEW k \in Key, act[k] = "NONE", act'[k] # "NONE"
    PROVE  /\ (k.name = 1 /\ k.attempt = 1) \/ Justified(k)
           /\ act'[k] = "PENDING"
           /\ \E t \in {"now", "later"} : [key |-> k, tier |-> t] \in outbox'
<1> USE DEF IInv, TypeOK
<1>1. CASE \E e \in Exec : CreateExecution(e)
  <2>1. PICK e \in Exec : CreateExecution(e)
    BY <1>1
  <2>2. /\ act' = [act EXCEPT ![Row(e, 1, 1)] = "PENDING"]
        /\ outbox' = outbox \cup {[key |-> Row(e, 1, 1), tier |-> "now"]}
    BY <2>1 DEF CreateExecution
  <2>3. k = Row(e, 1, 1)
    BY <2>2
  <2>4. k.name = 1 /\ k.attempt = 1
    BY <2>3 DEF Row
  <2> QED
    BY <2>2, <2>3, <2>4
<1>2. CASE InsertTransaction
  <2>1. PICK j \in Key, tier \in {"now", "later"} : Insert(j, tier) /\ Justified(j)
    BY <1>2 DEF InsertTransaction
  <2>2. k = j
    BY <2>1 DEF Insert
  <2> QED
    BY <2>1, <2>2 DEF Insert
<1>3. CASE UNCHANGED <<status, act, done, dead>> \/ CloseTransaction
           \/ StatusTransaction \/ DeleteTransaction
  BY <1>3 DEF CloseTransaction, CompleteActivity, FailActivity, DeadLetterActivity,
     StatusTransaction, CompleteExecution, FailExecution, CompensatedExecution, SetStatus,
     DeleteTransaction, DeleteExecution
<1> QED
  BY <1>1, <1>2, <1>3 DEF Transaction

LEMMA CompletedPersists ==
    ASSUME IInv, Transaction, NEW e \in Exec, NEW i, Completed(e, i), Exists(e)'
    PROVE  Completed(e, i)'
<1>1. PICK k \in done : k.exec = e /\ k.name = i
  BY DEF Completed
<1>2. k \in Key
  BY DEF IInv, TypeOK
<1>3. k \in done'
  BY <1>1, <1>2, RowsPersist
<1> QED
  BY <1>1, <1>3 DEF Completed

LEMMA CausePersists ==
    ASSUME IInv, Transaction, NEW e \in Exec, Cause(e), Exists(e)'
    PROVE  Cause(e)'
<1>1. PICK d \in dead : d.exec = e
  BY DEF Cause
<1>2. d \in Key
  BY DEF IInv, TypeOK
<1>3. d \in dead'
  BY <1>1, <1>2, RowsPersist
<1> QED
  BY <1>1, <1>3 DEF Cause

\* What justifies a status that a step sets.
LEMMA StatusJustified ==
    ASSUME IInv, Transaction, NEW e \in Exec, status'[e] # status[e]
    PROVE  /\ status'[e] = "COMPLETED" => \A i \in Step : Completed(e, i)
           /\ status'[e] \in {"COMPENSATING", "COMPENSATED", "FAILED"} => Cause(e)
<1> USE DEF IInv, TypeOK
<1>1. CASE \E x \in Exec : CreateExecution(x)
  BY <1>1, WorkflowAssumption DEF CreateExecution, Step
<1>2. CASE InsertTransaction
  BY <1>2 DEF InsertTransaction
<1>3. CASE StatusTransaction
  BY <1>3 DEF StatusTransaction, CompleteExecution, FailExecution, CompensatedExecution, SetStatus
<1>4. CASE DeleteTransaction
  BY <1>4 DEF DeleteTransaction, DeleteExecution
<1>5. CASE UNCHANGED <<status, act, done, dead>> \/ CloseTransaction
  BY <1>5 DEF CloseTransaction, CompleteActivity, FailActivity, DeadLetterActivity
<1> QED
  BY <1>1, <1>2, <1>3, <1>4, <1>5 DEF Transaction

-----------------------------------------------------------------------------
(* The properties are preserved.                                           *)

LEMMA SequentialNext ==
    ASSUME IInv, Transaction
    PROVE  SequentialSteps'
<1> SUFFICES ASSUME NEW k \in Key, k.name \in Step, act'[k] # "NONE", NEW i \in 1..(k.name - 1)
             PROVE  Completed(k.exec, i)'
  BY DEF SequentialSteps
<1>1. k.exec \in Exec /\ Exists(k.exec)'
  BY RowInvNext DEF RowInv, Key
<1> SUFFICES Completed(k.exec, i)
  BY <1>1, CompletedPersists
<1>2. CASE act[k] # "NONE"
  BY <1>2 DEF IInv, SequentialSteps
<1>3. CASE act[k] = "NONE"
  <2>1. k.name # 1 /\ i \in Step
    BY WorkflowAssumption DEF Step
  <2>2. Justified(k)
    BY <1>3, <2>1, InsertionJustified
  <2>3. ASSUME NEW j \in done, j.exec = k.exec, j.name + 1 = k.name, j.name \in Step
        PROVE  Completed(k.exec, i)
    <3>1. j \in Key /\ act[j] # "NONE"
      BY DEF IInv, TypeOK, RowInv, Closed
    <3>2. i = j.name \/ i \in 1..(j.name - 1)
      BY <2>3, WorkflowAssumption DEF Step
    <3> QED
      BY <2>3, <3>1, <3>2 DEF IInv, SequentialSteps, Completed
  <2>4. ASSUME NEW j \in Key, k = NextAttempt(j), j.attempt < AttemptCap, act[j] \in Closed
        PROVE  Completed(k.exec, i)
    <3>1. j.name = k.name /\ j.exec = k.exec
      BY <2>4, NextAttemptType
    <3> QED
      BY <2>4, <3>1 DEF IInv, SequentialSteps, Closed
  <2>5. k.name \notin CompName
    BY WorkflowAssumption
  <2> QED
    BY <2>1, <2>2, <2>3, <2>4, <2>5 DEF Justified
<1> QED
  BY <1>2, <1>3

LEMMA CompletedNext ==
    ASSUME IInv, Transaction
    PROVE  CompletedMeansAllDone'
<1> SUFFICES ASSUME NEW e \in Exec, status'[e] = "COMPLETED", NEW i \in Step
             PROVE  Completed(e, i)'
  BY DEF CompletedMeansAllDone
<1>1. Exists(e)'
  BY DEF Exists
<1>2. Completed(e, i)
  BY StatusJustified DEF IInv, CompletedMeansAllDone
<1> QED
  BY <1>1, <1>2, CompletedPersists

LEMMA RollbackNext ==
    ASSUME IInv, Transaction
    PROVE  RollbackOnlyAfterDeadLetter'
<1> SUFFICES ASSUME NEW e \in Exec, status'[e] \in {"COMPENSATING", "COMPENSATED", "FAILED"}
             PROVE  Cause(e)'
  BY DEF RollbackOnlyAfterDeadLetter, Cause
<1>1. Exists(e)'
  BY DEF Exists
<1>2. Cause(e)
  BY StatusJustified DEF IInv, RollbackOnlyAfterDeadLetter, Cause
<1> QED
  BY <1>1, <1>2, CausePersists

LEMMA CompensationNext ==
    ASSUME IInv, Transaction
    PROVE  NoSpuriousCompensation'
<1> SUFFICES ASSUME NEW k \in Key, k.name \in CompName, act'[k] # "NONE"
             PROVE  \E i \in Step : Comp[i] = k.name /\ Completed(k.exec, i)'
  BY DEF NoSpuriousCompensation
<1>1. k.exec \in Exec /\ Exists(k.exec)'
  BY RowInvNext DEF RowInv, Key
<1> SUFFICES \E i \in Step : Comp[i] = k.name /\ Completed(k.exec, i)
  BY <1>1, CompletedPersists
<1>2. CASE act[k] # "NONE"
  BY <1>2 DEF IInv, NoSpuriousCompensation
<1>3. CASE act[k] = "NONE"
  <2>1. k.name \notin Step /\ (k.name = 1 => N = 0)
    BY WorkflowAssumption DEF Step
  <2>2. Justified(k) \/ k.name = 1
    BY <1>3, InsertionJustified
  <2>3. ASSUME NEW j \in Key, k = NextAttempt(j), j.attempt < AttemptCap, act[j] \in Closed
        PROVE  \E i \in Step : Comp[i] = k.name /\ Completed(k.exec, i)
    <3>1. j.name = k.name /\ j.exec = k.exec
      BY <2>3, NextAttemptType
    <3> QED
      BY <2>3, <3>1 DEF IInv, NoSpuriousCompensation, Closed
  <2>4. k.name # 1
    BY <2>1, WorkflowAssumption DEF Step
  <2> QED
    BY <2>1, <2>2, <2>3, <2>4 DEF Justified
<1> QED
  BY <1>2, <1>3

LEMMA OneOpenNext ==
    ASSUME IInv, Transaction
    PROVE  OneOpenAttempt'
<1> SUFFICES ASSUME NEW j \in Key, NEW k \in Key, j.exec = k.exec, j.name = k.name,
                    j.attempt < k.attempt, act'[k] # "NONE"
             PROVE  act'[j] \in Closed
  BY DEF OneOpenAttempt, Closed
<1>1. j.exec \in Exec /\ Exists(j.exec)'
  BY RowInvNext DEF RowInv, Key
<1> SUFFICES act[j] \in Closed
  BY <1>1, RowsPersist
<1>2. CASE act[k] # "NONE"
  BY <1>2 DEF IInv, OneOpenAttempt, Closed
<1>3. CASE act[k] = "NONE"
  <2>1. j.attempt \in Nat \ {0} /\ k.attempt \in Nat /\ k.attempt # 1
    BY AttemptAssumption DEF Key
  <2>2. PICK i \in Key : k = NextAttempt(i) /\ i.attempt < AttemptCap /\ act[i] \in Closed
    BY <1>3, <2>1, InsertionJustified DEF Justified
  <2>3. i.exec = j.exec /\ i.name = j.name /\ k.attempt = i.attempt + 1 /\ i.attempt \in Nat
    BY <2>2, NextAttemptType, AttemptAssumption DEF Key
  <2>4. CASE i.attempt = j.attempt
    <3>1. i = j
      BY <2>3, <2>4 DEF Key
    <3> QED
      BY <2>2, <3>1
  <2>5. CASE j.attempt < i.attempt
    BY <2>2, <2>3, <2>5 DEF IInv, OneOpenAttempt, Closed
  <2> QED
    BY <2>1, <2>3, <2>4, <2>5
<1> QED
  BY <1>2, <1>3

LEMMA BudgetNext ==
    ASSUME IInv, Transaction
    PROVE  BudgetOnlyByOperator'
<1> SUFFICES ASSUME NEW k \in Key, act'[k] # "NONE", k.attempt > Budget(k.name)
             PROVE  \E j \in dead' : NextAttempt(j) = k
  BY DEF BudgetOnlyByOperator
<1>1. k.exec \in Exec /\ Exists(k.exec)' /\ k.name \in Name
  BY RowInvNext DEF RowInv, Key
<1>2. ASSUME NEW j \in Key, j \in dead, NextAttempt(j) = k
      PROVE  \E x \in dead' : NextAttempt(x) = k
  <2>1. j.exec = k.exec
    BY <1>2 DEF NextAttempt, Key
  <2>2. j \in dead'
    BY <1>1, <1>2, <2>1, RowsPersist
  <2> QED
    BY <1>2, <2>2
<1>3. CASE act[k] # "NONE"
  <2>1. PICK j \in dead : NextAttempt(j) = k
    BY <1>3 DEF IInv, BudgetOnlyByOperator
  <2> QED
    BY <1>2, <2>1 DEF IInv, TypeOK
<1>4. CASE act[k] = "NONE"
  <2>1. Budget(k.name) \in 1..AttemptCap /\ k.attempt \in Nat
    BY <1>1, BudgetType, AttemptAssumption DEF Key
  <2>2. k.attempt # 1
    BY <2>1, AttemptAssumption
  <2>3. PICK j \in Key : /\ k = NextAttempt(j) /\ j.attempt < AttemptCap
                         /\ j.attempt < Budget(j.name) \/ j \in dead
    BY <1>4, <2>2, InsertionJustified DEF Justified
  <2>4. j.name = k.name /\ k.attempt = j.attempt + 1 /\ j.attempt \in Nat
    BY <2>3, NextAttemptType, AttemptAssumption DEF Key
  <2>5. j \in dead
    BY <2>1, <2>3, <2>4, AttemptAssumption
  <2> QED
    BY <1>2, <2>3, <2>5
<1> QED
  BY <1>3, <1>4

-----------------------------------------------------------------------------
(* Open rows are carried.                                                  *)

Carried(k) ==
    \/ \E t \in {"now", "later"} : [key |-> k, tier |-> t] \in outbox
    \/ \E r \in Outcome : [key |-> k, res |-> r] \in results
    \/ \E p \in Consumer : h[p].pc # "idle" /\ h[p].key = k

\* Only WorkOnce takes a message out of the outbox, and only Deliver out of the queue.
LEMMA MessagesStay ==
    ASSUME IInv, [Next]_vars
    PROVE  /\ \A m \in outbox : m \notin outbox' =>
                 m.tier # "dlq" /\ \E r \in Outcome : [key |-> m.key, res |-> r] \in results'
           /\ \A m \in results : m \notin results' => \E p \in Consumer : Deliver(p, m)
<1>1. ASSUME NEW k \in Key, NEW r \in Outcome, WorkOnce(k, r)
      PROVE  /\ \A m \in outbox : m \notin outbox' =>
                   m.tier # "dlq" /\ [key |-> m.key, res |-> r] \in results'
             /\ \A m \in results : m \in results'
  BY <1>1 DEF WorkOnce
<1>2. ASSUME NEW p \in Consumer, NEW x \in results, Deliver(p, x)
      PROVE  /\ outbox' = outbox
             /\ \A m \in results : m \notin results' => Deliver(p, m)
  BY <1>2 DEF Deliver, db
<1>3. ASSUME NEW p \in Proc, Handle(p) \/ Settle(p) \/ DBError(p) \/ Crash(p)
      PROVE  outbox \subseteq outbox' /\ results \subseteq results'
  BY <1>3 DEF Handle, BeginSuccess, CompleteStep, ReadExecution, AdvanceCompensation,
     FinishCompensation, AdvanceStep, FinishWorkflow, UnknownActivity, BeginFailure, FailStep,
     RetryStep, CompensateStep, FailWorkflow, Rejected, CompleteActivity, FailActivity,
     DeadLetterActivity, ScheduleNextActivity, StartCompensating, Insert, CompleteExecution,
     FailExecution, CompensatedExecution, SetStatus, Settle, DBError, Crash, db, env
<1>4. ASSUME NEW r \in Reaper, Scan(r) \/ ReapNext(r) \/ ReapEnd(r)
      PROVE  outbox \subseteq outbox' /\ results \subseteq results'
  BY <1>4 DEF Scan, ReapNext, ReapEnd, db
<1>5. ASSUME NEW c \in Client, Request(c)
      PROVE  outbox \subseteq outbox' /\ results \subseteq results'
  BY <1>5 DEF Request, ReadDeadLetter, RetryDeadLetter, ReadFailedCompensation,
     RetryFailedCompensation, RetryActivity, StartCompensating, Insert, CancelExecution,
     DeleteExecution, SetStatus, db, env
<1>6. CASE \/ \E e \in Exec : StartWorkflow(e)
           \/ \E k \in Key, r \in Outcome : WorkAgain(k, r)
           \/ UNCHANGED vars
  BY <1>6 DEF StartWorkflow, CreateExecution, WorkAgain, vars, db, env
<1> QED
  BY <1>1, <1>2, <1>3, <1>4, <1>5, <1>6 DEF Next, Undisturbed, Consume, Reap, Proc

\* A step changes the record of at most the handler that takes it.
LEMMA WhoMoves ==
    ASSUME IInv, [Next]_vars, NEW p \in Proc, h'[p] # h[p]
    PROVE  \/ p \in Consumer \cup Reaper /\ Handle(p)
           \/ p \in Consumer /\ (Settle(p) \/ \E m \in results : Deliver(p, m))
           \/ p \in Reaper /\ (Scan(p) \/ ReapNext(p) \/ ReapEnd(p))
           \/ p \in Client /\ Request(p)
           \/ DBError(p) \/ Crash(p)
<1> USE DEF IInv, TypeOK
<1>1. ASSUME NEW q \in Proc, Handle(q), q # p PROVE h'[p] = h[p]
  BY <1>1 DEF Handle, BeginSuccess, CompleteStep, ReadExecution, AdvanceCompensation,
     FinishCompensation, AdvanceStep, FinishWorkflow, UnknownActivity, BeginFailure, FailStep,
     RetryStep, CompensateStep, FailWorkflow, Rejected, Return, Goto
<1>2. ASSUME NEW q \in Proc, q # p,
             Settle(q) \/ (\E m \in results : Deliver(q, m)) \/ Scan(q) \/ ReapNext(q) \/ ReapEnd(q)
      PROVE  h'[p] = h[p]
  BY <1>2 DEF Settle, Deliver, Scan, ReapNext, ReapEnd
<1>3. ASSUME NEW q \in Proc, q # p, Request(q) PROVE h'[p] = h[p]
  BY <1>3 DEF Request, ReadDeadLetter, RetryDeadLetter, ReadFailedCompensation,
     RetryFailedCompensation, CancelExecution, DeleteExecution, Return
<1>4. ASSUME NEW q \in Proc, q # p, DBError(q) \/ Crash(q) PROVE h'[p] = h[p]
  BY <1>4 DEF DBError, Crash, Return
<1>5. CASE \/ \E e \in Exec : StartWorkflow(e)
           \/ \E k \in Key, r \in Outcome : WorkOnce(k, r) \/ WorkAgain(k, r)
           \/ UNCHANGED vars
  BY <1>5 DEF StartWorkflow, WorkOnce, WorkAgain, vars
<1> QED
  BY <1>1, <1>2, <1>3, <1>4, <1>5 DEF Next, Undisturbed, Consume, Reap, Proc

LEMMA CarriedStays ==
    ASSUME IInv, [Next]_vars, NEW k \in Key, act[k] = "PENDING", Carried(k)
    PROVE  Carried(k)'
<1>1. ASSUME NEW t \in {"now", "later"}, [key |-> k, tier |-> t] \in outbox PROVE Carried(k)'
  BY <1>1, MessagesStay DEF Carried
<1>2. ASSUME NEW r \in Outcome, [key |-> k, res |-> r] \in results PROVE Carried(k)'
  <2> DEFINE m == [key |-> k, res |-> r]
  <2>1. CASE m \in results'
    BY <2>1 DEF Carried
  <2>2. CASE m \notin results'
    <3>1. PICK p \in Consumer : Deliver(p, m)
      BY <1>2, <2>2, MessagesStay
    <3>2. h'[p].pc # "idle" /\ h'[p].key = k
      BY <3>1 DEF Deliver, IInv, TypeOK, Proc
    <3> QED
      BY <3>2 DEF Carried
  <2> QED
    BY <2>1, <2>2
<1>3. ASSUME NEW p \in Consumer, h[p].pc # "idle", h[p].key = k PROVE Carried(k)'
  <2>1. p \in Proc /\ p \notin Reaper /\ p \notin Client /\ h[p].pc # "reap" /\ h[p].res \in Outcome
    BY ProcessAssumption DEF Proc, IInv, HandlerInv, TypeOK
  <2>2. Exists(k.exec) /\ Knows(p)
    BY <1>3, <2>1 DEF IInv, HandlerInv, RowInv
  <2>3. CASE h'[p] = h[p]
    BY <1>3, <2>3 DEF Carried
  <2>4. CASE Settle(p)
    <3>1. h[p].pc = "nack"
      BY <1>3, <2>2, <2>4 DEF Settle, Knows, Closed
    <3>2. [key |-> k, res |-> h[p].res] \in results'
      BY <1>3, <2>4, <3>1 DEF Settle
    <3> QED
      BY <2>1, <3>2 DEF Carried
  <2>5. CASE Crash(p)
    <3>1. [key |-> k, res |-> h[p].res] \in results'
      BY <1>3, <2>5 DEF Crash
    <3> QED
      BY <2>1, <3>1 DEF Carried
  <2>6. CASE Handle(p) \/ DBError(p)
    <3>1. h'[p].pc # "idle" /\ h'[p].key = h[p].key
      <4>1. ASSUME Return(p, "ack") \/ Return(p, "nack")
            PROVE  h'[p].pc # "idle" /\ h'[p].key = h[p].key
        BY <2>1, <4>1 DEF Return, IInv, TypeOK
      <4>2. ASSUME NEW pc \in Locked, Goto(p, pc)
            PROVE  h'[p].pc # "idle" /\ h'[p].key = h[p].key
        BY <2>1, <4>2 DEF Goto, IInv, TypeOK, Locked
      <4>3. ASSUME \/ h' = [h EXCEPT ![p].pc = "complete"]
                   \/ h' = [h EXCEPT ![p].pc = "fail", ![p].seen = status[k.exec]]
                   \/ h' = [h EXCEPT ![p].pc = "advance", ![p].seen = status[k.exec]]
            PROVE  h'[p].pc # "idle" /\ h'[p].key = h[p].key
        BY <2>1, <4>3 DEF IInv, TypeOK
      <4>4. {"readExec", "retry", "compensate"} \subseteq Locked
        BY DEF Locked
      <4> QED
        BY <1>3, <2>6, <4>1, <4>2, <4>3, <4>4
        DEF Handle, BeginSuccess, CompleteStep, ReadExecution, AdvanceCompensation,
            FinishCompensation, AdvanceStep, FinishWorkflow, UnknownActivity, BeginFailure,
            FailStep, RetryStep, CompensateStep, FailWorkflow, Rejected, DBError
    <3> QED
      BY <1>3, <3>1 DEF Carried
  <2>7. CASE \E m \in results : Deliver(p, m)
    BY <1>3, <2>7 DEF Deliver
  <2> QED
    BY <2>1, <2>3, <2>4, <2>5, <2>6, <2>7, WhoMoves
<1> QED
  BY <1>1, <1>2, <1>3 DEF Carried

LEMMA CarriedNext ==
    ASSUME IInv, [Next]_vars
    PROVE  PendingIsCarried'
<1> SUFFICES ASSUME NEW k \in Key, act'[k] = "PENDING" PROVE Carried(k)'
  BY DEF PendingIsCarried, Carried
<1>1. Transaction
  BY NextTransaction
<1>2. Exists(k.exec)' /\ act[k] \in RowStatus
  BY <1>1, RowInvNext DEF RowInv, IInv, TypeOK
<1>3. act[k] \in {"NONE", "PENDING"}
  BY <1>1, <1>2, RowsPersist DEF RowStatus, Closed
<1>4. CASE act[k] = "NONE"
  BY <1>1, <1>4, InsertionJustified DEF Carried
<1>5. CASE act[k] = "PENDING"
  BY <1>5, CarriedStays DEF IInv, PendingIsCarried, Carried
<1> QED
  BY <1>3, <1>4, <1>5

-----------------------------------------------------------------------------
(* Messages and handlers stay about started executions.                    *)

LEMMA StartedPersists ==
    ASSUME IInv, Transaction, NEW e \in Exec, status[e] # "ABSENT"
    PROVE  status'[e] # "ABSENT" /\ (Exists(e)' => Exists(e))
<1> USE DEF IInv, TypeOK, Exists
<1>1. CASE \E x \in Exec : CreateExecution(x)
  BY <1>1 DEF CreateExecution
<1>2. CASE InsertTransaction
  BY <1>2 DEF InsertTransaction, Insert, CanInsert
<1>3. CASE StatusTransaction
  BY <1>3 DEF StatusTransaction, CompleteExecution, FailExecution, CompensatedExecution, SetStatus
<1>4. CASE DeleteTransaction
  BY <1>4 DEF DeleteTransaction, DeleteExecution
<1>5. CASE UNCHANGED <<status, act, done, dead>> \/ CloseTransaction
  BY <1>5 DEF CloseTransaction, CompleteActivity, FailActivity, DeadLetterActivity
<1> QED
  BY <1>1, <1>2, <1>3, <1>4, <1>5 DEF Transaction

LEMMA NewMessageStarted ==
    ASSUME IInv, Transaction, NEW m \in outbox', m \notin outbox
    PROVE  status'[m.key.exec] # "ABSENT"
<1> USE DEF IInv, TypeOK
<1>1. CASE \E e \in Exec : CreateExecution(e)
  <2>1. PICK e \in Exec : CreateExecution(e)
    BY <1>1
  <2>2. m = [key |-> Row(e, 1, 1), tier |-> "now"] /\ status'[e] # "ABSENT"
    BY <2>1 DEF CreateExecution
  <2> QED
    BY <2>2 DEF Row
<1>2. CASE InsertTransaction
  <2>1. PICK k \in Key, tier \in {"now", "later"} : Insert(k, tier)
    BY <1>2 DEF InsertTransaction
  <2>2. m.key = k /\ status[k.exec] # "ABSENT" /\ k.exec \in Exec
    BY <2>1 DEF Insert, CanInsert, Exists, Key
  <2> QED
    BY <2>2, StartedPersists
<1>3. CASE CloseTransaction
  <2>1. PICK k \in Key : DeadLetterActivity(k)
    BY <1>3 DEF CloseTransaction, CompleteActivity, FailActivity
  <2>2. m.key = k /\ status[k.exec] # "ABSENT" /\ k.exec \in Exec
    BY <2>1 DEF DeadLetterActivity, RowInv, Exists, Key
  <2> QED
    BY <2>2, StartedPersists
<1>4. CASE StatusTransaction \/ DeleteTransaction
  BY <1>4 DEF StatusTransaction, CompleteExecution, FailExecution, CompensatedExecution, SetStatus,
     DeleteTransaction, DeleteExecution
<1> QED
  BY <1>1, <1>2, <1>3, <1>4 DEF Transaction

\* Where a handler's key comes from.
LEMMA KeyOrigin ==
    ASSUME IInv, [Next]_vars, NEW p \in Proc, h'[p].pc \notin {"idle", "reap"}
    PROVE  \/ h[p].pc \notin {"idle", "reap"} /\ h'[p].key = h[p].key
           \/ \E m \in results : h'[p].key = m.key /\ h'[p].pc = "wait"
           \/ h'[p].key \in overdue[p] /\ h'[p].pc = "wait"
           \/ h'[p].key \in dead /\ h'[p].key.attempt < AttemptCap /\ UNCHANGED db
<1> USE DEF IInv, TypeOK
<1>1. CASE h'[p] = h[p]
  BY <1>1
<1>2. ASSUME p \in Consumer \cup Reaper, Handle(p)
      PROVE  h[p].pc \notin {"idle", "reap"} /\ h'[p].key = h[p].key
  <2>1. h[p].pc \notin {"idle", "reap"}
    BY <1>2 DEF Handle, BeginSuccess, CompleteStep, ReadExecution, AdvanceCompensation,
       FinishCompensation, AdvanceStep, FinishWorkflow, UnknownActivity, BeginFailure, FailStep,
       RetryStep, CompensateStep, FailWorkflow
  <2>2. ASSUME Return(p, "ack") \/ Return(p, "nack") PROVE h'[p].key = h[p].key
    <3>1. CASE p \in Consumer
      BY <2>2, <3>1 DEF Return
    <3>2. CASE p \in Reaper /\ p \notin Consumer
      BY <2>2, <3>2 DEF Return, Idle
    <3> QED
      BY <1>2, <3>1, <3>2
  <2>3. ASSUME \/ \E pc \in Locked : Goto(p, pc)
               \/ \E pc \in Locked, s \in ExecStatus : h' = [h EXCEPT ![p].pc = pc, ![p].seen = s]
               \/ h' = [h EXCEPT ![p].pc = "complete"]
        PROVE  h'[p].key = h[p].key
    <3>1. CASE \E pc \in Locked : Goto(p, pc)
      BY <3>1 DEF Goto
    <3>2. CASE \E pc \in Locked, s \in ExecStatus : h' = [h EXCEPT ![p].pc = pc, ![p].seen = s]
      BY <3>2
    <3>3. CASE h' = [h EXCEPT ![p].pc = "complete"]
      BY <3>3
    <3> QED
      BY <2>3, <3>1, <3>2, <3>3
  <2>4. h[p].key.exec \in Exec
    BY <2>1 DEF HandlerInv, Key
  <2>5. status[h[p].key.exec] \in ExecStatus /\ {"readExec", "retry", "compensate", "fail", "advance"} \subseteq Locked
    BY <2>4 DEF Locked
  <2> QED
    BY <1>2, <2>1, <2>2, <2>3, <2>5
    DEF Handle, BeginSuccess, CompleteStep, ReadExecution, AdvanceCompensation,
        FinishCompensation, AdvanceStep, FinishWorkflow, UnknownActivity, BeginFailure,
        FailStep, RetryStep, CompensateStep, FailWorkflow, Rejected
<1>3. ASSUME Settle(p) \/ Crash(p) \/ Scan(p) \/ ReapEnd(p) PROVE FALSE
  BY <1>3 DEF Settle, Crash, Scan, ReapEnd, Idle
<1>4. ASSUME NEW m \in results, Deliver(p, m) PROVE h'[p].key = m.key /\ h'[p].pc = "wait"
  BY <1>4 DEF Deliver
<1>5. ASSUME ReapNext(p) PROVE h'[p].key \in overdue[p] /\ h'[p].pc = "wait"
  BY <1>5 DEF ReapNext
<1>6. ASSUME p \in Client, Request(p), h'[p] # h[p]
      PROVE  h'[p].key \in dead /\ h'[p].key.attempt < AttemptCap /\ UNCHANGED db
  <2>1. ASSUME RetryDeadLetter(p) \/ RetryFailedCompensation(p) PROVE FALSE
    BY <1>6, <2>1, ProcessAssumption DEF RetryDeadLetter, RetryFailedCompensation, Return, Idle
  <2>2. ASSUME NEW k \in Key, ReadDeadLetter(p, k)
        PROVE  h'[p].key \in dead /\ h'[p].key.attempt < AttemptCap /\ UNCHANGED db
    BY <2>2 DEF ReadDeadLetter
  <2>3. ASSUME NEW e \in Exec, ReadFailedCompensation(p, e)
        PROVE  h'[p].key \in dead /\ h'[p].key.attempt < AttemptCap /\ UNCHANGED db
    BY <2>3 DEF ReadFailedCompensation, FailedCompensation
  <2>4. ASSUME NEW e \in Exec, CancelExecution(p, e) \/ DeleteExecution(p, e) PROVE FALSE
    BY <1>6, <2>4 DEF CancelExecution, DeleteExecution
  <2> QED
    BY <1>6, <2>1, <2>2, <2>3, <2>4 DEF Request
<1>7. ASSUME DBError(p) PROVE h[p].pc \notin {"idle", "reap"} /\ h'[p].key = h[p].key
  BY <1>7 DEF DBError, Return, Idle, Locked
<1> QED
  BY <1>1, <1>2, <1>3, <1>4, <1>5, <1>6, <1>7, WhoMoves

LEMMA StartedNext ==
    ASSUME IInv, [Next]_vars
    PROVE  StartedInv'
<1> USE DEF IInv, TypeOK
<1>1. Transaction
  BY NextTransaction
<1>2. \A e \in Exec : status[e] # "ABSENT" => status'[e] # "ABSENT"
  BY <1>1, StartedPersists
<1>3. ASSUME NEW m \in outbox' PROVE status'[m.key.exec] # "ABSENT"
  <2>1. CASE m \in outbox
    <3>1. m.key.exec \in Exec
      BY <2>1 DEF Message, Key
    <3> QED
      BY <1>2, <2>1, <3>1 DEF StartedInv
  <2> QED
    BY <1>1, <2>1, NewMessageStarted
<1>4. ASSUME NEW m \in results' PROVE status'[m.key.exec] # "ABSENT"
  <2>1. \/ m \in results
        \/ \E x \in outbox : m.key = x.key
        \/ \E p \in Proc : h[p].pc \notin {"idle", "reap"} /\ m.key = h[p].key
    <3>1. ASSUME NEW k \in Key, NEW r \in Outcome, WorkOnce(k, r) \/ WorkAgain(k, r)
          PROVE  m \in results \/ \E x \in outbox : m.key = x.key
      BY <3>1, <1>4 DEF WorkOnce, WorkAgain
    <3>2. ASSUME NEW p \in Proc, Settle(p) \/ Crash(p)
          PROVE  m \in results \/ (h[p].pc \notin {"idle", "reap"} /\ m.key = h[p].key)
      BY <3>2, <1>4, ProcessAssumption DEF Settle, Crash, HandlerInv
    <3>3. ASSUME NEW p \in Proc, Handle(p) \/ (\E x \in results : Deliver(p, x)) \/ DBError(p)
          PROVE  m \in results
      BY <3>3, <1>4 DEF Handle, BeginSuccess, CompleteStep, ReadExecution, AdvanceCompensation,
         FinishCompensation, AdvanceStep, FinishWorkflow, UnknownActivity, BeginFailure, FailStep,
         RetryStep, CompensateStep, FailWorkflow, Deliver, DBError, env
    <3>4. ASSUME NEW r \in Reaper, Scan(r) \/ ReapNext(r) \/ ReapEnd(r) PROVE m \in results
      BY <3>4, <1>4 DEF Scan, ReapNext, ReapEnd
    <3>5. ASSUME NEW c \in Client, Request(c) PROVE m \in results
      BY <3>5, <1>4 DEF Request, ReadDeadLetter, RetryDeadLetter, ReadFailedCompensation,
         RetryFailedCompensation, CancelExecution, DeleteExecution, env
    <3>6. ASSUME (\E e \in Exec : StartWorkflow(e)) \/ UNCHANGED vars PROVE m \in results
      BY <3>6, <1>4 DEF StartWorkflow, vars, env
    <3> QED
      BY <3>1, <3>2, <3>3, <3>4, <3>5, <3>6 DEF Next, Undisturbed, Consume, Reap, Proc
  <2>2. status[m.key.exec] # "ABSENT" /\ m.key.exec \in Exec
    BY <2>1 DEF StartedInv, HandlerInv, Result, Message, Key
  <2> QED
    BY <1>2, <2>2
<1>5. ASSUME NEW p \in Proc, NEW k \in overdue'[p] PROVE status'[k.exec] # "ABSENT"
  <2>1. k \in overdue[p] \/ (k \in Key /\ act[k] = "PENDING")
    <3>1. ASSUME NEW r \in Reaper, Scan(r) \/ ReapNext(r) \/ ReapEnd(r)
          PROVE  k \in overdue[p] \/ (k \in Key /\ act[k] = "PENDING")
      BY <3>1, <1>5 DEF Scan, ReapNext, ReapEnd, Proc
    <3>2. ASSUME NEW q \in Proc, Crash(q) PROVE k \in overdue[p]
      BY <3>2, <1>5 DEF Crash
    <3>3. ASSUME NEW q \in Proc, \/ Handle(q) \/ (\E x \in results : Deliver(q, x))
                                \/ DBError(q) \/ Settle(q)
          PROVE  k \in overdue[p]
      BY <3>3, <1>5 DEF Handle, BeginSuccess, CompleteStep, ReadExecution, AdvanceCompensation,
         FinishCompensation, AdvanceStep, FinishWorkflow, UnknownActivity, BeginFailure, FailStep,
         RetryStep, CompensateStep, FailWorkflow, Deliver, DBError, Settle, env
    <3>4. ASSUME NEW c \in Client, Request(c) PROVE k \in overdue[p]
      BY <3>4, <1>5 DEF Request, ReadDeadLetter, RetryDeadLetter, ReadFailedCompensation,
         RetryFailedCompensation, CancelExecution, DeleteExecution, env
    <3>5. ASSUME \/ \E e \in Exec : StartWorkflow(e)
                 \/ \E j \in Key, r \in Outcome : WorkOnce(j, r) \/ WorkAgain(j, r)
                 \/ UNCHANGED vars
          PROVE  k \in overdue[p]
      BY <3>5, <1>5 DEF StartWorkflow, WorkOnce, WorkAgain, vars, env
    <3> QED
      BY <3>1, <3>2, <3>3, <3>4, <3>5 DEF Next, Undisturbed, Consume, Reap, Proc
  <2>2. status[k.exec] # "ABSENT" /\ k.exec \in Exec
    BY <2>1 DEF StartedInv, RowInv, Exists, Key
  <2> QED
    BY <1>2, <2>2
<1>6. ASSUME NEW p \in Proc, h'[p].pc \notin {"idle", "reap"} PROVE status'[h'[p].key.exec] # "ABSENT"
  <2>1. status[h'[p].key.exec] # "ABSENT" /\ h'[p].key.exec \in Exec
    BY <1>6, KeyOrigin DEF StartedInv, HandlerInv, RowInv, Exists, Result, Key, Closed
  <2> QED
    BY <1>2, <2>1
<1> QED
  BY <1>3, <1>4, <1>5, <1>6 DEF StartedInv

-----------------------------------------------------------------------------
(* What a handler knows stays true while it waits, and holds where it goes. *)

\* An existing row changes only by the handler that holds its execution's lock.
LEMMA RowChangedByHandler ==
    ASSUME IInv, [Next]_vars, NEW k \in Key, act[k] # "NONE", act'[k] # act[k], Exists(k.exec)'
    PROVE  \E q \in Proc : h[q].pc \in Locked /\ h[q].key = k /\ h'[q] # h[q]
<1> USE DEF IInv, TypeOK
<1>1. ASSUME NEW e \in Exec, StartWorkflow(e) PROVE FALSE
  <2>1. k.exec # e
    BY <1>1 DEF StartWorkflow, CreateExecution, RowInv, Exists
  <2>2. Row(e, 1, 1).exec = e
    BY DEF Row
  <2> QED
    BY <1>1, <2>1, <2>2 DEF StartWorkflow, CreateExecution
<1>2. ASSUME NEW q \in Proc, CompleteStep(q) \/ FailStep(q), h[q].key # k PROVE FALSE
  BY <1>2 DEF CompleteStep, FailStep, CompleteActivity, FailActivity, DeadLetterActivity, Rejected, db
<1>3. ASSUME NEW q \in Proc, CompleteStep(q) \/ FailStep(q)
      PROVE  h[q].pc \in Locked /\ h'[q] # h[q]
  <2>1. ~Rejected(q)
    BY DEF Rejected, db
  <2>2. h[q].pc \in {"complete", "fail"} /\ \E pc \in {"readExec", "retry", "compensate"} : Goto(q, pc)
    BY <1>3, <2>1 DEF CompleteStep, FailStep
  <2> QED
    BY <2>2 DEF Goto, Locked
<1>4. ASSUME NEW q \in Proc, Handle(q), ~CompleteStep(q), ~FailStep(q) PROVE FALSE
  BY <1>4 DEF Handle, BeginSuccess, ReadExecution, AdvanceCompensation, FinishCompensation,
     AdvanceStep, FinishWorkflow, UnknownActivity, BeginFailure, RetryStep, CompensateStep,
     FailWorkflow, Rejected, ScheduleNextActivity, StartCompensating, Insert, CanInsert,
     CompleteExecution, FailExecution, CompensatedExecution, SetStatus, db
<1>5. ASSUME NEW c \in Client, Request(c) PROVE FALSE
  <2>1. ASSUME NEW e \in Exec, DeleteExecution(c, e) PROVE FALSE
    BY <2>1 DEF DeleteExecution, Exists
  <2> QED
    BY <1>5, <2>1 DEF Request, ReadDeadLetter, RetryDeadLetter, ReadFailedCompensation,
       RetryFailedCompensation, RetryActivity, StartCompensating, Insert, CanInsert,
       CancelExecution, SetStatus, db
<1>6. ASSUME NEW p \in Proc, \/ Settle(p) \/ (\E m \in results : Deliver(p, m)) \/ Scan(p)
                             \/ ReapNext(p) \/ ReapEnd(p) \/ DBError(p) \/ Crash(p)
      PROVE  FALSE
  BY <1>6 DEF Settle, Deliver, Scan, ReapNext, ReapEnd, DBError, Crash, db
<1>7. ASSUME \/ \E j \in Key, r \in Outcome : WorkOnce(j, r) \/ WorkAgain(j, r)
             \/ UNCHANGED vars
      PROVE  FALSE
  BY <1>7 DEF WorkOnce, WorkAgain, vars, db
<1> QED
  BY <1>1, <1>2, <1>3, <1>4, <1>5, <1>6, <1>7 DEF Next, Undisturbed, Consume, Reap, Proc

\* Nobody else changes the row of a handler that holds the lock.
LEMMA OwnRowStays ==
    ASSUME IInv, [Next]_vars, NEW p \in Proc, h[p].pc \in Locked, h'[p] = h[p],
           act[h[p].key] # "NONE", Exists(h[p].key.exec)'
    PROVE  act'[h[p].key] = act[h[p].key]
<1> DEFINE k == h[p].key
<1>1. k \in Key /\ k.exec \in Exec
  BY DEF IInv, HandlerInv, Locked, Key
<1>2. ASSUME NEW q \in Proc, h[q].pc \in Locked, h[q].key = k PROVE q = p
  BY <1>1, <1>2 DEF IInv, LockHeldByHandler
<1> QED
  BY <1>1, <1>2, RowChangedByHandler

LEMMA StillKnows ==
    ASSUME IInv, [Next]_vars, NEW p \in Proc, h'[p] = h[p], h[p].pc \notin {"idle", "reap"},
           Exists(h[p].key.exec)'
    PROVE  Knows(p)'
<1> DEFINE k == h[p].key
<1>1. k \in Key /\ k.exec \in Exec
  BY DEF IInv, HandlerInv, Key
<1>2. Transaction
  BY NextTransaction
<1>3. Exists(k.exec) /\ Knows(p)
  BY <1>1, <1>2, StartedPersists DEF IInv, StartedInv, HandlerInv
<1>4. h[p].pc \in Locked /\ act[k] # "NONE" => act'[k] = act[k]
  BY OwnRowStays
<1>5. /\ act[k] \in Closed => act'[k] \in Closed
      /\ k \in dead => k \in dead'
      /\ Cause(k.exec) => Cause(k.exec)'
  BY <1>1, <1>2, RowsPersist, CausePersists
<1> QED
  BY <1>3, <1>4, <1>5 DEF Knows, Locked, Cause

\* A handler that takes a step knows what the next step needs.
LEMMA HandleKnows ==
    ASSUME IInv, [Next]_vars, NEW p \in Consumer \cup Reaper, Handle(p),
           h'[p].pc \notin {"idle", "reap"}
    PROVE  /\ (Exists(h[p].key.exec) => Knows(p))'
           /\ h'[p].pc = "retry" => h'[p].key.attempt < Budget(h'[p].key.name)
           /\ h'[p].pc \notin {"retryRow", "retryComp"}
<1> USE DEF IInv, TypeOK
<1> PICK k : k = h[p].key
  OBVIOUS
<1>1. p \in Proc /\ Transaction
  BY NextTransaction DEF Proc
<1>2. h[p].pc \notin {"idle", "reap"} /\ k \in Key /\ k.exec \in Exec
  BY <1>1 DEF Handle, BeginSuccess, CompleteStep, ReadExecution, AdvanceCompensation,
     FinishCompensation, AdvanceStep, FinishWorkflow, UnknownActivity, BeginFailure, FailStep,
     RetryStep, CompensateStep, FailWorkflow, HandlerInv, Key
<1>3. Exists(k.exec)' => Exists(k.exec) /\ Knows(p)
  BY <1>1, <1>2, StartedPersists DEF StartedInv, HandlerInv
<1>4. ASSUME NEW v \in {"ack", "nack"}, Return(p, v) PROVE h'[p].key = k /\ h'[p].pc = v
  <2>1. p \in Consumer
    BY <1>1, <1>4 DEF Return, Idle
  <2> QED
    BY <1>1, <1>4, <2>1 DEF Return
<1>5. ASSUME NEW v \in {"ack", "nack"}, Return(p, v),
             v = "ack" /\ Exists(k.exec)' => act'[k] \in Closed
      PROVE  /\ (Exists(h[p].key.exec) => Knows(p))'
             /\ h'[p].pc \notin {"retry", "retryRow", "retryComp"}
  BY <1>4, <1>5 DEF Knows
<1>6. CASE Return(p, "nack")
  BY <1>5, <1>6
<1>7. CASE Return(p, "ack") /\ h[p].pc \in {"advance", "retry", "compensate"}
  <2>1. Exists(k.exec)' => act'[k] \in Closed
    BY <1>1, <1>2, <1>3, <1>7, RowsPersist DEF Knows, Closed
  <2> QED
    BY <1>5, <1>7, <2>1
<1>8. CASE BeginSuccess(p)
  <2>1. CASE Return(p, "ack")
    <3>1. act[k] = "COMPLETED" /\ act' = act
      <4>1. act' = act
        BY <1>8 DEF BeginSuccess, db
      <4>2. h'[p].pc = "ack"
        BY <2>1, <1>4
      <4>3. \/ h' = [h EXCEPT ![p].pc = "complete"]
            \/ act[k] = "COMPLETED"
            \/ Return(p, "nack")
        BY <1>8 DEF BeginSuccess
      <4>4. ~Return(p, "nack")
        BY <4>2, <1>4
      <4> QED
        BY <1>1, <4>1, <4>2, <4>3, <4>4
    <3> QED
      BY <1>5, <2>1, <3>1 DEF Closed
  <2>2. CASE h' = [h EXCEPT ![p].pc = "complete"] /\ act[k] \in {"PENDING", "FAILED"}
    <3>1. h'[p].pc = "complete" /\ h'[p].key = k /\ act'[k] = act[k]
      BY <1>1, <1>8, <2>2 DEF BeginSuccess, db
    <3> QED
      BY <2>2, <3>1 DEF Knows
  <2> QED
    BY <1>6, <1>8, <2>1, <2>2 DEF BeginSuccess
<1>9. CASE BeginFailure(p)
  <2>1. CASE Return(p, "ack") /\ act[k] = "FAILED"
    <3>1. act' = act
      BY <1>9 DEF BeginFailure, db
    <3> QED
      BY <1>5, <2>1, <3>1 DEF Closed
  <2>2. CASE /\ h' = [h EXCEPT ![p].pc = "fail", ![p].seen = status[k.exec]]
             /\ act[k] \in {"PENDING", "COMPLETED"}
    <3>1. h'[p].pc = "fail" /\ h'[p].key = k /\ act'[k] = act[k]
      BY <1>1, <1>9, <2>2 DEF BeginFailure, db
    <3> QED
      BY <2>2, <3>1 DEF Knows
  <2> QED
    BY <1>6, <1>9, <2>1, <2>2 DEF BeginFailure
<1>10. CASE CompleteStep(p)
  <2>1. CASE CompleteActivity(k) /\ Goto(p, "readExec")
    <3>1. h'[p].pc = "readExec" /\ h'[p].key = k /\ act'[k] = "COMPLETED"
      BY <1>1, <1>2, <2>1 DEF Goto, CompleteActivity
    <3> QED
      BY <3>1 DEF Knows
  <2> QED
    BY <1>6, <1>10, <2>1 DEF CompleteStep, Rejected
<1>11. CASE ReadExecution(p)
  <2>1. CASE ~Rejected(p)
    <3>1. /\ h'[p].pc = "advance" /\ h'[p].key = k /\ h'[p].seen = status[k.exec]
          /\ Exists(k.exec) /\ status' = status /\ act' = act /\ dead' = dead
      BY <1>1, <1>11, <2>1 DEF ReadExecution, db
    <3>2. act[k] = "COMPLETED"
      BY <1>1, <1>2, <1>11, <3>1 DEF ReadExecution, HandlerInv, Knows
    <3>3. status[k.exec] = "COMPENSATING" => \E d \in dead : d.exec = k.exec
      BY <1>2 DEF RollbackOnlyAfterDeadLetter
    <3> QED
      BY <3>1, <3>2, <3>3 DEF Knows
  <2> QED
    BY <1>6, <1>11, <2>1 DEF ReadExecution, Rejected
<1>12. CASE FailStep(p)
  <2>1. CASE Retryable(p) /\ FailActivity(k) /\ Goto(p, "retry")
    <3>1. h'[p].pc = "retry" /\ h'[p].key = k /\ act'[k] = "FAILED"
      BY <1>1, <1>2, <2>1 DEF Goto, FailActivity
    <3> QED
      BY <2>1, <3>1 DEF Knows, Retryable
  <2>2. CASE DeadLetterActivity(k) /\ Goto(p, "compensate")
    <3>1. h'[p].pc = "compensate" /\ h'[p].key = k /\ act'[k] = "FAILED" /\ k \in dead'
      BY <1>1, <1>2, <2>2 DEF Goto, DeadLetterActivity
    <3> QED
      BY <3>1 DEF Knows
  <2> QED
    BY <1>6, <1>12, <2>1, <2>2 DEF FailStep, Rejected
<1>13. CASE \/ AdvanceCompensation(p) \/ FinishCompensation(p) \/ AdvanceStep(p) \/ FinishWorkflow(p)
            \/ UnknownActivity(p) \/ RetryStep(p) \/ CompensateStep(p) \/ FailWorkflow(p)
  BY <1>6, <1>7, <1>13 DEF AdvanceCompensation, FinishCompensation, AdvanceStep, FinishWorkflow,
     UnknownActivity, RetryStep, CompensateStep, FailWorkflow, Rejected
<1> QED
  BY <1>8, <1>9, <1>10, <1>11, <1>12, <1>13 DEF Handle

LEMMA HandlerNext ==
    ASSUME IInv, [Next]_vars
    PROVE  HandlerInv'
<1> USE DEF IInv, TypeOK
<1>1. TypeOK' /\ Transaction
  BY TypeNext, NextTransaction
<1> SUFFICES ASSUME NEW p \in Proc
             PROVE  /\ h'[p].pc \notin {"idle", "reap"} => h'[p].key \in Key
                    /\ h'[p].pc = "reap" => p \in Reaper
                    /\ h'[p].pc = "retry" => h'[p].key.attempt < Budget(h'[p].key.name)
                    /\ h'[p].pc \in {"retryRow", "retryComp"} => h'[p].key.attempt < AttemptCap
                    /\ (h[p].pc \notin {"idle", "reap"} /\ Exists(h[p].key.exec) => Knows(p))'
  BY DEF HandlerInv
<1>2. h'[p].pc \notin {"idle", "reap"} => h'[p].key \in Key
  BY KeyOrigin DEF HandlerInv, Result
<1>3. CASE h'[p] = h[p]
  BY <1>2, <1>3, StillKnows DEF HandlerInv
<1>4. CASE h'[p].pc = "idle"
  BY <1>4
<1>5. CASE h'[p].pc = "wait"
  BY <1>2, <1>5 DEF Knows
<1>6. CASE p \in Consumer \cup Reaper /\ Handle(p)
  <2>1. h'[p].pc = "reap" => p \in Reaper
    <3>1. ASSUME Return(p, "ack") \/ Return(p, "nack") PROVE h'[p].pc = "reap" => p \in Reaper
      <4>1. CASE p \in Consumer
        BY <3>1, <4>1 DEF Return
      <4> QED
        BY <1>6, <4>1
    <3>2. ASSUME NEW pc \in Locked, Goto(p, pc) PROVE h'[p].pc # "reap"
      BY <3>2 DEF Goto, Locked
    <3>3. ASSUME \/ h' = [h EXCEPT ![p].pc = "complete"]
                 \/ \E s : h' = [h EXCEPT ![p].pc = "fail", ![p].seen = s]
                 \/ \E s : h' = [h EXCEPT ![p].pc = "advance", ![p].seen = s]
          PROVE  h'[p].pc # "reap"
      <4>1. CASE h' = [h EXCEPT ![p].pc = "complete"]
        BY <4>1
      <4>2. CASE \E s : h' = [h EXCEPT ![p].pc = "fail", ![p].seen = s]
        BY <4>2
      <4>3. CASE \E s : h' = [h EXCEPT ![p].pc = "advance", ![p].seen = s]
        BY <4>3
      <4> QED
        BY <3>3, <4>1, <4>2, <4>3
    <3>4. {"readExec", "retry", "compensate"} \subseteq Locked
      BY DEF Locked
    <3> QED
      BY <1>6, <3>1, <3>2, <3>3, <3>4
      DEF Handle, BeginSuccess, CompleteStep, ReadExecution, AdvanceCompensation,
          FinishCompensation, AdvanceStep, FinishWorkflow, UnknownActivity, BeginFailure, FailStep,
          RetryStep, CompensateStep, FailWorkflow, Rejected
  <2> QED
    BY <1>2, <1>6, <2>1, HandleKnows
<1>7. CASE p \in Consumer /\ (Settle(p) \/ \E m \in results : Deliver(p, m))
  BY <1>4, <1>5, <1>7 DEF Settle, Deliver, Idle
<1>8. CASE p \in Reaper /\ (Scan(p) \/ ReapNext(p) \/ ReapEnd(p))
  <2>1. h'[p].pc \in {"idle", "reap", "wait"}
    BY <1>8 DEF Scan, ReapNext, ReapEnd, Idle
  <2> QED
    BY <1>4, <1>5, <1>8, <2>1
<1>9. CASE Crash(p)
  BY <1>4, <1>9 DEF Crash, Idle
<1>10. CASE DBError(p)
  <2>1. h'[p].pc \in {"idle", "nack"} \/ (h'[p].pc = "reap" /\ p \in Reaper)
    BY <1>10 DEF DBError, Return, Idle
  <2> QED
    BY <1>2, <1>4, <2>1 DEF Knows
<1>11. CASE p \in Client /\ Request(p) /\ h'[p] # h[p]
  <2>1. ASSUME RetryDeadLetter(p) \/ RetryFailedCompensation(p) PROVE h'[p].pc = "idle"
    BY <1>11, <2>1, ProcessAssumption DEF RetryDeadLetter, RetryFailedCompensation, Return, Idle
  <2>2. ASSUME (\E k \in Key : ReadDeadLetter(p, k)) \/ \E e \in Exec : ReadFailedCompensation(p, e)
        PROVE  /\ h'[p].pc \in {"retryRow", "retryComp"} /\ dead' = dead
               /\ h'[p].key \in dead /\ h'[p].key.attempt < AttemptCap
    BY <2>2 DEF ReadDeadLetter, ReadFailedCompensation, FailedCompensation, db
  <2>3. ASSUME NEW e \in Exec, CancelExecution(p, e) \/ DeleteExecution(p, e) PROVE FALSE
    BY <1>11, <2>3 DEF CancelExecution, DeleteExecution
  <2> QED
    BY <1>2, <1>4, <1>11, <2>1, <2>2, <2>3 DEF Request, Knows
<1> QED
  BY <1>3, <1>6, <1>7, <1>8, <1>9, <1>10, <1>11, WhoMoves

-----------------------------------------------------------------------------
(* The theorems.                                                           *)

LEMMA InitIInv == Init => IInv
<1> SUFFICES ASSUME Init PROVE IInv
  OBVIOUS
<1> USE DEF Init
<1>1. TypeOK
  BY TypeInit
<1>2. RowInv /\ HandlerInv /\ StartedInv
  BY DEF RowInv, HandlerInv, StartedInv, Idle
<1>3. LockHeldByHandler
  BY ProcessAssumption DEF LockHeldByHandler, Idle, Locked
<1>4. SequentialSteps /\ NoSpuriousCompensation /\ OneOpenAttempt /\ BudgetOnlyByOperator
  BY DEF SequentialSteps, NoSpuriousCompensation, OneOpenAttempt, BudgetOnlyByOperator
<1>5. CompletedMeansAllDone /\ RollbackOnlyAfterDeadLetter /\ PendingIsCarried
  BY DEF CompletedMeansAllDone, RollbackOnlyAfterDeadLetter, PendingIsCarried
<1> QED
  BY <1>1, <1>2, <1>3, <1>4, <1>5 DEF IInv

LEMMA NextIInv ==
    ASSUME IInv, [Next]_vars
    PROVE  IInv'
<1>1. Transaction
  BY NextTransaction
<1>2. TypeOK' /\ RowInv' /\ HandlerInv' /\ StartedInv' /\ LockHeldByHandler'
  BY <1>1, TypeNext, RowInvNext, HandlerNext, StartedNext, LockNext DEF IInv
<1>3. SequentialSteps' /\ CompletedMeansAllDone' /\ NoSpuriousCompensation'
  BY <1>1, SequentialNext, CompletedNext, CompensationNext
<1>4. RollbackOnlyAfterDeadLetter' /\ OneOpenAttempt' /\ BudgetOnlyByOperator' /\ PendingIsCarried'
  BY <1>1, RollbackNext, OneOpenNext, BudgetNext, CarriedNext
<1> QED
  BY <1>2, <1>3, <1>4 DEF IInv

\* The inductive invariant holds in every reachable state.
THEOREM Inductive == Spec => []IInv
  BY InitIInv, NextIInv, PTL DEF Spec

\* Every variable keeps its type: every row, message and handler is about an execution, an
\* activity and an attempt that exist in the model.
THEOREM TypeCorrect == Spec => []TypeOK
<1>1. IInv => TypeOK
  BY DEF IInv
<1> QED
  BY <1>1, Inductive, PTL

\* No interleaving of reports, timeouts, operators' requests and crashes skips an activity.
THEOREM StepsInOrder == Spec => []SequentialSteps
<1>1. IInv => SequentialSteps
  BY DEF IInv
<1> QED
  BY <1>1, Inductive, PTL

\* An execution that is COMPLETED has completed every activity of its workflow.
THEOREM CompletionIsReal == Spec => []CompletedMeansAllDone
<1>1. IInv => CompletedMeansAllDone
  BY DEF IInv
<1> QED
  BY <1>1, Inductive, PTL

\* Only what completed is compensated.
THEOREM CompensationIsEarned == Spec => []NoSpuriousCompensation
<1>1. IInv => NoSpuriousCompensation
  BY DEF IInv
<1> QED
  BY <1>1, Inductive, PTL

\* An execution that rolls back or has failed holds a dead-lettered activity.
THEOREM RollbackHasCause == Spec => []RollbackOnlyAfterDeadLetter
<1>1. IInv => RollbackOnlyAfterDeadLetter
  BY DEF IInv
<1> QED
  BY <1>1, Inductive, PTL

\* Attempts of one activity follow one another.
THEOREM AttemptsOneByOne == Spec => []OneOpenAttempt
<1>1. IInv => OneOpenAttempt
  BY DEF IInv
<1> QED
  BY <1>1, Inductive, PTL

\* The engine alone never exceeds the retry policy.
THEOREM BudgetRespected == Spec => []BudgetOnlyByOperator
<1>1. IInv => BudgetOnlyByOperator
  BY DEF IInv
<1> QED
  BY <1>1, Inductive, PTL

\* Nobody writes to an execution from a report without its lock, and every lock is returned.
THEOREM LockDiscipline == Spec => []LockHeldByHandler
<1>1. IInv => LockHeldByHandler
  BY DEF IInv
<1> QED
  BY <1>1, Inductive, PTL

\* What a handler read under the lock is what it writes on.
THEOREM ReadsStayCurrent == Spec => []ReadStaysCurrent
<1>1. IInv => ReadStaysCurrent
  <2> SUFFICES ASSUME IInv, NEW p \in Proc, h[p].pc \in Locked, Exists(h[p].key.exec)
               PROVE  Knows(p)
    BY DEF ReadStaysCurrent, Knows
  <2> QED
    BY DEF IInv, HandlerInv, Locked
<1> QED
  BY <1>1, Inductive, PTL

\* No crash, requeue or error loses the last task, result or handler of an open row.
THEOREM OpenRowsAreCarried == Spec => []PendingIsCarried
<1>1. IInv => PendingIsCarried
  BY DEF IInv
<1> QED
  BY <1>1, Inductive, PTL

=============================================================================
