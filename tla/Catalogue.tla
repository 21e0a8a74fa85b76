----------------------------- MODULE Catalogue -----------------------------
(***************************************************************************)
(* The workflow catalogue and the executions that depend on it: the        *)
(* definitions of internal/repository/workflow_repo.go, the requests of    *)
(* internal/api/workflow_handler.go, and the handlers of                   *)
(* internal/engine/engine.go that read a definition anew at every step.    *)
(*                                                                         *)
(* An execution keeps no copy of its definition.  A definition may be      *)
(* replaced, or deleted with all that depends on it, between any two       *)
(* queries of a handler; GetWorkflow itself is two queries.                *)
(*                                                                         *)
(* Engine has what is left out here: retries (the definitions of this      *)
(* module have no retry policy), operators' requests, timeouts, and        *)
(* repeated or contradictory reports, so that an activity has one row per  *)
(* execution.                                                              *)
(***************************************************************************)
EXTENDS Integers, Sequences, SequencesExt, FiniteSets

CONSTANTS
    Workflow,       \* identifiers of workflows
    Activity,       \* names of activities and of compensations
    NoComp,         \* the empty Compensation field
    Definition,     \* the activity lists requests may give: sequences of [name, comp]
    Exec,           \* identifiers of executions
    Consumer,       \* engine replicas: each handles one report at a time
    Client,         \* concurrent requests to start a workflow
    Unused,         \* a workflow that has not been created
    Gone,           \* a workflow that has been deleted
    NoReport,       \* an idle handler's report
    MaxChanges,     \* bound: updates per workflow
    MaxFaults       \* bound: failed statements and crashes of handlers

Names(d) == {d[i].name : i \in DOMAIN d}

\* UNIQUE (workflow_id, name): a request that repeats a name is rolled back.  Nothing checks
\* that a compensation is not also an activity; a definition that says so is left out.
ASSUME DefinitionAssumption ==
    /\ Definition \subseteq Seq([name : Activity, comp : Activity \cup {NoComp}])
    /\ \A d \in Definition : \A i, j \in DOMAIN d :
          /\ d[i].name = d[j].name => i = j
          /\ d[i].comp # d[j].name
ASSUME BoundAssumption ==
    /\ {Unused, Gone} \cap Definition = {} /\ Unused # Gone
    /\ Workflow # {} /\ NoComp \notin Activity
    /\ {MaxChanges, MaxFaults} \subseteq Nat

Status   == {"ABSENT", "RUNNING", "COMPLETED", "FAILED", "COMPENSATING", "COMPENSATED", "DELETED"}
Row      == {"NONE", "PENDING", "COMPLETED", "FAILED"}
Task     == [exec : Exec, name : Activity]
Report   == [exec : Exec, name : Activity, ok : BOOLEAN]
Location == {"idle", "begin", "complete", "readWorkflow", "readActivities", "deadLetter",
             "advance", "rollBack", "ack"}

VARIABLES
    definition,     \* the rows of workflows and activities
    version,        \* workflows.updated_at: updates so far
    status,         \* workflow_executions.status
    workflow,       \* workflow_executions.workflow_id
    born,           \* the version that StartWorkflow read
    row,            \* activity_executions.status
    trail,          \* names of the rows with a completed_at, by completed_at
    tasks,          \* tasks on their way to a worker
    reports,        \* the results queue
    h,              \* the report a consumer handles
    start,          \* the start request a client has sent
    faults          \* faults so far

catalogue  == <<definition, version>>
executions == <<status, workflow, born>>
vars == <<definition, version, status, workflow, born, row, trail, tasks, reports, h, start, faults>>

Idle   == [pc |-> "idle", report |-> NoReport, seen |-> "ABSENT", def |-> <<>>]
Silent == [pc |-> "idle", of |-> CHOOSE w \in Workflow : TRUE, def |-> <<>>, version |-> 0]

TypeOK ==
    /\ definition \in [Workflow -> Definition \cup {Unused, Gone}]
    /\ version \in [Workflow -> 0..MaxChanges]
    /\ status \in [Exec -> Status]
    /\ workflow \in [Exec -> Workflow]
    /\ born \in [Exec -> 0..MaxChanges]
    /\ row \in [Exec -> [Activity -> Row]]
    /\ trail \in [Exec -> Seq(Activity)]
    /\ tasks \subseteq Task
    /\ reports \subseteq Report
    /\ h \in [Consumer -> [pc : Location, report : Report \cup {NoReport}, seen : Status,
                           def : Definition \cup {<<>>}]]
    /\ start \in [Client -> [pc : {"idle", "create"}, of : Workflow,
                             def : Definition \cup {<<>>}, version : 0..MaxChanges]]
    /\ faults \in 0..MaxFaults

NoRows == [n \in Activity |-> "NONE"]

Init ==
    /\ definition = [w \in Workflow |-> Unused]
    /\ version = [w \in Workflow |-> 0]
    /\ status = [e \in Exec |-> "ABSENT"]
    /\ workflow = [e \in Exec |-> Silent.of]
    /\ born = [e \in Exec |-> 0]
    /\ row = [e \in Exec |-> NoRows]
    /\ trail = [e \in Exec |-> <<>>]
    /\ tasks = {}
    /\ reports = {}
    /\ h = [p \in Consumer |-> Idle]
    /\ start = [c \in Client |-> Silent]
    /\ faults = 0

Stored(w) == definition[w] \notin {Unused, Gone}
Exists(e) == status[e] \notin {"ABSENT", "DELETED"}

-----------------------------------------------------------------------------
(* Requests to the catalogue; each is one transaction.                     *)

CreateWorkflow(w, d) ==
    /\ definition[w] = Unused
    /\ definition' = [definition EXCEPT ![w] = d]
    /\ UNCHANGED <<version, executions, row, trail, tasks, reports, h, start, faults>>

\* The activities are deleted and inserted anew, whatever executions are at work.
UpdateWorkflow(w, d) ==
    /\ Stored(w)
    /\ version[w] < MaxChanges
    /\ definition' = [definition EXCEPT ![w] = d]
    /\ version' = [version EXCEPT ![w] = @ + 1]
    /\ UNCHANGED <<executions, row, trail, tasks, reports, h, start, faults>>

\* ON DELETE CASCADE: executions and activity rows go too; what was sent stays on its way.
DeleteWorkflow(w) ==
    LET dropped == {e \in Exec : workflow[e] = w /\ Exists(e)} IN
    /\ Stored(w)
    /\ definition' = [definition EXCEPT ![w] = Gone]
    /\ status' = [e \in Exec |-> IF e \in dropped THEN "DELETED" ELSE status[e]]
    /\ row' = [e \in Exec |-> IF e \in dropped THEN NoRows ELSE row[e]]
    /\ trail' = [e \in Exec |-> IF e \in dropped THEN <<>> ELSE trail[e]]
    /\ UNCHANGED <<version, workflow, born, tasks, reports, h, start, faults>>

\* DELETE /workflows/executions/{id}; the cascade takes the rows.
DeleteExecution(e) ==
    /\ Exists(e)
    /\ status' = [status EXCEPT ![e] = "DELETED"]
    /\ row' = [row EXCEPT ![e] = NoRows]
    /\ trail' = [trail EXCEPT ![e] = <<>>]
    /\ UNCHANGED <<catalogue, workflow, born, tasks, reports, h, start, faults>>

-----------------------------------------------------------------------------
(* StartWorkflow: the definition is read, and then one transaction.        *)

\* The identifier of an execution is a new one (bound: while Exec has one).
Unborn == {e \in Exec : status[e] = "ABSENT"}

\* GetWorkflow: a deletion between its two queries also makes the insertion fail.
AskWorkflow(c, w) ==
    /\ start[c].pc = "idle"
    /\ Unborn # {}
    /\ Stored(w)
    /\ start' = [start EXCEPT ![c] = [pc |-> "create", of |-> w,
                                        def |-> definition[w], version |-> version[w]]]
    /\ UNCHANGED <<catalogue, executions, row, trail, tasks, reports, h, faults>>

\* Mutant of Insertable: no foreign key from an execution to its workflow.
InsertableAnyway(w) == TRUE

\* The foreign key of workflow_executions.
Insertable(w) == Stored(w)

CreateExecution(c) ==
    LET w == start[c].of
        d == start[c].def
        e == CHOOSE e \in Unborn : TRUE IN
    /\ start[c].pc = "create"
    /\ Unborn # {}
    /\ Insertable(w)
    /\ status' = [status EXCEPT ![e] = IF d = <<>> THEN "COMPLETED" ELSE "RUNNING"]
    /\ workflow' = [workflow EXCEPT ![e] = w]
    /\ born' = [born EXCEPT ![e] = start[c].version]
    /\ IF d = <<>> THEN UNCHANGED <<row, tasks>>
       ELSE /\ row' = [row EXCEPT ![e][d[1].name] = "PENDING"]
            /\ tasks' = tasks \cup {[exec |-> e, name |-> d[1].name]}
    /\ start' = [start EXCEPT ![c] = Silent]
    /\ UNCHANGED <<catalogue, trail, reports, h, faults>>

CreateFails(c) ==
    /\ start[c].pc = "create"
    /\ ~Insertable(start[c].of)
    /\ start' = [start EXCEPT ![c] = Silent]
    /\ UNCHANGED <<catalogue, executions, row, trail, tasks, reports, h, faults>>

-----------------------------------------------------------------------------
(* Workers and the results queue.                                          *)

\* A task of a deleted execution is executed as well: the worker finds no row to compare with.
Work(t, ok) ==
    /\ t \in tasks
    /\ tasks' = tasks \ {t}
    /\ reports' = reports \cup {[exec |-> t.exec, name |-> t.name, ok |-> ok]}
    /\ UNCHANGED <<catalogue, executions, row, trail, h, start, faults>>

\* The lock of the execution: another handler's step on it has to end first.
Deliver(p, r) ==
    /\ h[p].pc = "idle"
    /\ r \in reports
    /\ \A q \in Consumer : h[q].pc # "idle" => h[q].report.exec # r.exec
    /\ reports' = reports \ {r}
    /\ h' = [h EXCEPT ![p] = [Idle EXCEPT !.pc = "begin", !.report = r]]
    /\ UNCHANGED <<catalogue, executions, row, trail, tasks, start, faults>>

Goto(p, pc) == h' = [h EXCEPT ![p].pc = pc]

\* Mutant of Requeue: the handler is cleared before its report is put back.
RequeueCleared(p) ==
    /\ reports' = reports \cup {Idle.report}
    /\ h' = [h EXCEPT ![p] = Idle]
    /\ UNCHANGED <<catalogue, executions, row, trail, tasks, start>>

\* The handler returns an error: the message is requeued.
Requeue(p) ==
    /\ reports' = reports \cup {h[p].report}
    /\ h' = [h EXCEPT ![p] = Idle]
    /\ UNCHANGED <<catalogue, executions, row, trail, tasks, start>>
Rejected(p) == Requeue(p) /\ UNCHANGED faults

Ack(p) ==
    /\ h[p].pc = "ack"
    /\ h' = [h EXCEPT ![p] = Idle]
    /\ UNCHANGED <<catalogue, executions, row, trail, tasks, reports, start, faults>>

\* A statement fails or the process dies; after the last commit only a crash is left.
Fault(p) ==
    /\ faults < MaxFaults
    /\ h[p].pc # "idle"
    /\ faults' = faults + 1
    /\ Requeue(p)

-----------------------------------------------------------------------------
(* ReportActivitySuccess and ReportActivityFailure.                        *)

Outcome(r) == IF r.ok THEN "COMPLETED" ELSE "FAILED"

\* Mutants of Begin: a repeated success is handled again; a report without a row is waited for.
BeginAgain(p) ==
    LET r == h[p].report
        a == row[r.exec][r.name] IN
    /\ h[p].pc = "begin"
    /\ \/ a = "NONE" /\ Rejected(p)
       \/ /\ a # "NONE"
          /\ Goto(p, IF r.ok THEN "complete" ELSE "readWorkflow")
          /\ UNCHANGED <<catalogue, executions, row, trail, tasks, reports, start, faults>>
BeginWaiting(p) ==
    LET r == h[p].report
        a == row[r.exec][r.name] IN
    /\ h[p].pc = "begin"
    /\ a # "NONE"
    /\ Goto(p, IF a = Outcome(r) THEN "ack" ELSE IF r.ok THEN "complete" ELSE "readWorkflow")
    /\ UNCHANGED <<catalogue, executions, row, trail, tasks, reports, start, faults>>

\* GetActivityExecution.
Begin(p) ==
    LET r == h[p].report
        a == row[r.exec][r.name] IN
    /\ h[p].pc = "begin"
    /\ \/ a = "NONE" /\ Rejected(p)
       \/ /\ a # "NONE"
          /\ Goto(p, IF a = Outcome(r) THEN "ack" ELSE IF r.ok THEN "complete" ELSE "readWorkflow")
          /\ UNCHANGED <<catalogue, executions, row, trail, tasks, reports, start, faults>>

\* completed_at is set anew: a name that was in the trail moves to its end.
Moved(s, n) ==
    Append(IF \E i \in DOMAIN s : s[i] = n THEN RemoveAt(s, CHOOSE i \in DOMAIN s : s[i] = n) ELSE s, n)

\* A write to a row or an execution that has been deleted meanwhile is an error.
Write(p, present, effect) ==
    \/ present /\ effect
    \/ ~present /\ Rejected(p)

CompleteActivity(p) ==
    LET e == h[p].report.exec
        n == h[p].report.name IN
    /\ h[p].pc = "complete"
    /\ Write(p, Exists(e),
             /\ row' = [row EXCEPT ![e][n] = "COMPLETED"]
             /\ trail' = [trail EXCEPT ![e] = Moved(@, n)]
             /\ Goto(p, "readWorkflow")
             /\ UNCHANGED <<catalogue, executions, tasks, reports, start, faults>>)

\* A read, after which the handler of p goes on at pc with the status and definition it has seen.
Continue(p, present, pc, seen, d) ==
    Write(p, present,
          /\ h' = [h EXCEPT ![p] = [pc |-> pc, report |-> h[p].report, seen |-> seen, def |-> d]]
          /\ UNCHANGED <<catalogue, executions, row, trail, tasks, reports, start, faults>>)

\* GetExecution and the first query of GetWorkflow: nobody else changes the status while the
\* execution is locked, and a deletion between the two makes the second fail like the first.
ReadWorkflow(p) ==
    LET e == h[p].report.exec IN
    /\ h[p].pc = "readWorkflow"
    /\ Continue(p, Exists(e) /\ Stored(workflow[e]), "readActivities", status[e], h[p].def)

\* The names a failure handler looks for: an activity, or the compensation of one.
Known(d, n) == \E i \in DOMAIN d : n \in {d[i].name, d[i].comp}

\* The activities of a workflow that was deleted after the first query are an empty list.
Activities(w) == IF Stored(w) THEN definition[w] ELSE <<>>

\* GetWorkflow, second query; the branches that only look at what has been read.
ReadActivities(p) ==
    LET r == h[p].report
        d == Activities(workflow[r.exec])
        undoing == h[p].seen = "COMPENSATING" IN
    /\ h[p].pc = "readActivities"
    /\ IF r.ok
       THEN Continue(p, undoing \/ r.name \in Names(d),
                     IF undoing THEN "rollBack" ELSE "advance", h[p].seen, d)
       ELSE Continue(p, Known(d, r.name), "deadLetter", h[p].seen, d)

DeadLetterActivity(p) ==
    LET e == h[p].report.exec IN
    /\ h[p].pc = "deadLetter"
    /\ Write(p, Exists(e),
             /\ row' = [row EXCEPT ![e][h[p].report.name] = "FAILED"]
             /\ Goto(p, "rollBack")
             /\ UNCHANGED <<catalogue, executions, trail, tasks, reports, start, faults>>)

Schedule(p, n, s) ==
    LET e == h[p].report.exec IN
    Write(p, Exists(e) /\ row[e][n] = "NONE",
          /\ row' = [row EXCEPT ![e][n] = "PENDING"]
          /\ tasks' = tasks \cup {[exec |-> e, name |-> n]}
          /\ status' = [status EXCEPT ![e] = s]
          /\ Goto(p, "ack")
          /\ UNCHANGED <<catalogue, workflow, born, trail, reports, start, faults>>)

Finish(p, s) ==
    LET e == h[p].report.exec IN
    Write(p, Exists(e),
          /\ status' = [status EXCEPT ![e] = s]
          /\ Goto(p, "ack")
          /\ UNCHANGED <<catalogue, workflow, born, row, trail, tasks, reports, start, faults>>)

Position(d, n) == CHOOSE i \in DOMAIN d : d[i].name = n

\* Mutant of Advance: the activity after the next one.
AdvanceSkipping(p) ==
    LET d == h[p].def
        i == Position(d, h[p].report.name) IN
    /\ h[p].pc = "advance"
    /\ IF i + 2 <= Len(d) THEN Schedule(p, d[i + 2].name, status[h[p].report.exec])
       ELSE Finish(p, "COMPLETED")

\* The next activity by its position in the definition that was read just now.
Advance(p) ==
    LET d == h[p].def
        i == Position(d, h[p].report.name) IN
    /\ h[p].pc = "advance"
    /\ IF i < Len(d) THEN Schedule(p, d[i + 1].name, status[h[p].report.exec])
       ELSE Finish(p, "COMPLETED")

\* determineNextCompensation: whether a row is an activity's or a compensation's is decided by
\* the definition: the row of an activity that is no longer in it counts as a compensation.
Attempted(e, d) == {n \in Activity \ Names(d) : row[e][n] \in {"COMPLETED", "FAILED"}}
Undoable(e, d) ==
    {i \in DOMAIN trail[e] :
        LET n == trail[e][i] IN
        /\ row[e][n] = "COMPLETED" /\ n \in Names(d)
        /\ d[Position(d, n)].comp \notin Attempted(e, d) \cup {NoComp}}

RollBack(p) ==
    LET r == h[p].report
        d == h[p].def
        u == Undoable(r.exec, d) IN
    /\ h[p].pc = "rollBack"
    /\ IF u # {} /\ (r.ok \/ h[p].seen # "COMPENSATING")
       THEN \E last \in u :
                /\ \A i \in u : i <= last
                /\ Schedule(p, d[Position(d, trail[r.exec][last])].comp, "COMPENSATING")
       ELSE Finish(p, IF r.ok THEN "COMPENSATED" ELSE "FAILED")

-----------------------------------------------------------------------------
Request(w) ==
    \/ \E d \in Definition : CreateWorkflow(w, d) \/ UpdateWorkflow(w, d)
    \/ DeleteWorkflow(w)
Starting(c) ==
    \/ \E w \in Workflow : AskWorkflow(c, w)
    \/ CreateExecution(c)
    \/ CreateFails(c)
Handle(p) ==
    \/ Begin(p) \/ CompleteActivity(p) \/ ReadWorkflow(p) \/ ReadActivities(p)
    \/ DeadLetterActivity(p) \/ Advance(p) \/ RollBack(p) \/ Ack(p)

Next ==
    \/ \E w \in Workflow : Request(w)
    \/ \E c \in Client : Starting(c)
    \/ \E e \in Exec : DeleteExecution(e)
    \/ \E t \in Task, ok \in BOOLEAN : Work(t, ok)
    \/ \E p \in Consumer, r \in Report : Deliver(p, r)
    \/ \E p \in Consumer : Handle(p) \/ Fault(p)

Spec == Init /\ [][Next]_vars

-----------------------------------------------------------------------------
(* Safety.                                                                 *)

\* Whatever is deleted between two steps of a handler or of a start request, nothing is left
\* in the tables that refers to it: no execution of a workflow that is gone, no row of an
\* execution that is gone (the foreign keys against engine.go's separate transactions).
NoOrphans ==
    \A e \in Exec :
        /\ Exists(e) => Stored(workflow[e])
        /\ (\E n \in Activity : row[e][n] # "NONE") => Exists(e)

\* An execution has at most one open activity, and a finished one has none, also when its
\* definition is replaced between two steps of a handler, or a handler fails half-way and its
\* report is handled again under another definition.
AtMostOneOpen ==
    \A e \in Exec : Cardinality({n \in Activity : row[e][n] = "PENDING"})
                        <= IF status[e] \in {"RUNNING", "COMPENSATING"} THEN 1 ELSE 0

\* What handlers read anew at every step is what the execution was started from as long as
\* nobody replaced it: activities in order, COMPLETED after the last one, COMPENSATED after
\* every compensation of a completed activity, and no row of another name.
RunsAsDefined ==
    \A e \in Exec : Exists(e) /\ version[workflow[e]] = born[e] =>
        LET d == definition[workflow[e]]
            known == {n \in Activity : row[e][n] # "NONE"} IN
        /\ \A n \in known : Known(d, n)
        /\ \A i \in DOMAIN d : d[i].name \in known =>
              \A j \in 1..i - 1 : row[e][d[j].name] = "COMPLETED"
        /\ status[e] = "COMPLETED" => \A i \in DOMAIN d : row[e][d[i].name] = "COMPLETED"
        /\ status[e] = "COMPENSATED" =>
              \A i \in DOMAIN d : row[e][d[i].name] = "COMPLETED" /\ d[i].comp # NoComp
                                      => d[i].comp \in Attempted(e, d)

-----------------------------------------------------------------------------
(* Progress.                                                               *)

\* Workers answer.  A requeued report is delivered again, and those of other executions are
\* delivered as well: the consumer has no prefetch limit, so the broker holds none of them back.
Fairness ==
    /\ \A t \in Task : WF_vars(\E ok \in BOOLEAN : Work(t, ok))
    /\ \A p \in Consumer : WF_vars(Handle(p))
    /\ \A e \in Exec : SF_vars(\E p \in Consumer, r \in Report : r.exec = e /\ Deliver(p, r))

FairSpec == Spec /\ Fairness

\* Without faults an execution settles unless its own definition was replaced: neither the
\* deletion of other executions, whose reports fail and are requeued for ever, nor a start
\* that read an empty definition blocks it.
SettlesUnlessChanged ==
    \A e \in Exec : status[e] \in {"RUNNING", "COMPENSATING"} ~>
        \/ status[e] \notin {"RUNNING", "COMPENSATING"}
        \/ version[workflow[e]] # born[e]
        \/ faults > 0
=============================================================================
