--------------------------- MODULE CatalogueProofs ---------------------------
(***************************************************************************)
(* Proofs about Catalogue, for any workflows, definitions, executions,     *)
(* handlers, clients, updates and faults.                                  *)
(*                                                                         *)
(* An execution has one open activity because each activity is reported in *)
(* one way only, and a handler that is about to insert a row knows that    *)
(* none is open.  That an execution follows its definition needs that what *)
(* a handler or a start request has read is still the definition, as long  *)
(* as the version is the one the execution was started from.               *)
(***************************************************************************)
EXTENDS Catalogue, FiniteSetTheorems, TLAPS

Active == {"RUNNING", "COMPENSATING"}

\* A report that is in the queue or in the hands of a handler.
Sent(r) == r \in reports \/ \E p \in Consumer : h[p].pc # "idle" /\ h[p].report = r

\* What the rows of an execution say about each other and about the trail.
Clear(e) == \A n \in Activity : row[e][n] # "PENDING"
RowsOK(e) ==
    /\ \A n \in Activity : row[e][n] = "PENDING" =>
          status[e] \in Active /\ \A m \in Activity : row[e][m] = "PENDING" => m = n
    /\ \A n \in Activity : row[e][n] = "COMPLETED" <=> \E i \in DOMAIN trail[e] : trail[e][i] = n

NoOrphan(e) ==
    /\ Exists(e) => Stored(workflow[e]) /\ born[e] <= version[workflow[e]]
    /\ ~Exists(e) => row[e] = NoRows /\ trail[e] = <<>>

\* RunsAsDefined of one execution.
Follows(e, d) ==
    /\ \A n \in Activity : row[e][n] # "NONE" => Known(d, n)
    /\ \A i, j \in DOMAIN d : j < i /\ row[e][d[i].name] # "NONE" => row[e][d[j].name] = "COMPLETED"
    /\ status[e] = "COMPLETED" => \A i \in DOMAIN d : row[e][d[i].name] = "COMPLETED"
    /\ status[e] = "COMPENSATED" =>
          \A i \in DOMAIN d : row[e][d[i].name] = "COMPLETED" /\ d[i].comp # NoComp
                                  => d[i].comp \in Attempted(e, d)
AsDefined(e) ==
    \A d \in Definition :
        Exists(e) /\ version[workflow[e]] = born[e] /\ definition[workflow[e]] = d => Follows(e, d)

ExecInv == \A e \in Exec : NoOrphan(e) /\ RowsOK(e) /\ AsDefined(e)

\* Each activity of an execution has one task and then one report, perhaps several times.
TaskOK(t) ==
    /\ status[t.exec] # "ABSENT"
    /\ Exists(t.exec) => row[t.exec][t.name] = "PENDING"
ReportOK(r) ==
    /\ status[r.exec] # "ABSENT"
    /\ Exists(r.exec) => row[r.exec][r.name] \in {"PENDING", Outcome(r)}
    /\ \A t \in tasks : t.exec = r.exec => t.name # r.name
    /\ \A s \in Report : Sent(s) /\ s.exec = r.exec /\ s.name = r.name => s.ok = r.ok
MailInv ==
    /\ \A t \in tasks : TaskOK(t)
    /\ \A r \in Report : Sent(r) => ReportOK(r)

\* What a start request knows of the definition it has read.
StartOK(c) ==
    start[c].pc = "create" =>
        /\ start[c].def \in Definition
        /\ definition[start[c].of] # Unused
        /\ start[c].version <= version[start[c].of]
        /\ Stored(start[c].of) /\ start[c].version = version[start[c].of]
              => start[c].def = definition[start[c].of]
StartInv == \A c \in Client : StartOK(c)

\* What a handler knows of its execution, unless that has been deleted meanwhile.
Knows(p) ==
    LET r == h[p].report
        e == r.exec
        a == row[e][r.name] IN
    h[p].pc # "idle" =>
        /\ r \in Report
        /\ h[p].pc \in {"complete", "advance"} => r.ok
        /\ h[p].pc = "deadLetter" => ~r.ok
        /\ h[p].pc = "advance" => r.name \in Names(h[p].def)
        /\ Exists(e) =>
              /\ h[p].pc \in {"complete", "deadLetter"} => a = "PENDING"
              /\ h[p].pc \in {"readWorkflow", "readActivities"} /\ ~r.ok => a = "PENDING"
              /\ \/ h[p].pc \in {"readWorkflow", "readActivities"} /\ r.ok
                 \/ h[p].pc \in {"advance", "rollBack"}
                 => Clear(e) /\ status[e] \in Active /\ (r.ok => a = "COMPLETED")
              /\ /\ h[p].pc \in {"deadLetter", "advance", "rollBack"}
                 /\ version[workflow[e]] = born[e]
                 => h[p].def = definition[workflow[e]]
LockInv ==
    \A p, q \in Consumer :
        p # q /\ h[p].pc # "idle" /\ h[q].pc # "idle" => h[p].report.exec # h[q].report.exec
HandlerInv == LockInv /\ \A p \in Consumer : Knows(p)

IInv == TypeOK /\ ExecInv /\ MailInv /\ StartInv /\ HandlerInv

-----------------------------------------------------------------------------
(* Executions that a step does not write, or deletes.                      *)

Dropped(e) == status'[e] = "DELETED" /\ row'[e] = NoRows /\ trail'[e] = <<>>
Kept(e) ==
    /\ status'[e] = status[e] /\ row'[e] = row[e] /\ trail'[e] = trail[e]
    /\ workflow'[e] = workflow[e] /\ born'[e] = born[e]
    /\ Exists(e) =>
          /\ definition'[workflow[e]] \notin {Unused, Gone}
          /\ version[workflow[e]] <= version'[workflow[e]]
          /\ version'[workflow[e]] = version[workflow[e]]
                => definition'[workflow[e]] = definition[workflow[e]]

LEMMA Bounds == MaxChanges \in Nat /\ MaxFaults \in Nat
  BY BoundAssumption DEF BoundAssumption

LEMMA Versions ==
  ASSUME TypeOK, NEW e \in Exec
  PROVE  /\ workflow[e] \in Workflow /\ born[e] \in Nat /\ version[workflow[e]] \in Nat
         /\ workflow'[e] \in Workflow /\ version' \in [Workflow -> 0..MaxChanges]
               => version'[workflow'[e]] \in Nat
  BY Bounds DEF TypeOK

LEMMA ExecKept ==
  ASSUME TypeOK, ExecInv, NEW e \in Exec, Kept(e) \/ Dropped(e), TypeOK'
  PROVE  (NoOrphan(e) /\ RowsOK(e) /\ AsDefined(e))'
<1>1. CASE Dropped(e)
  <2>1. ~Exists(e)' /\ row'[e] = NoRows /\ trail'[e] = <<>>
    BY <1>1 DEF Dropped, Exists
  <2>2. NoOrphan(e)' /\ AsDefined(e)'
    BY <2>1 DEF NoOrphan, AsDefined
  <2>3. \A n \in Activity : row'[e][n] = "NONE"
    BY <2>1 DEF NoRows
  <2>4. ~ \E i \in DOMAIN trail'[e] : TRUE
    BY <2>1
  <2> QED
    BY <2>2, <2>3, <2>4 DEF RowsOK
<1>2. CASE Kept(e)
  <2>1. NoOrphan(e) /\ RowsOK(e) /\ AsDefined(e)
    BY DEF ExecInv
  <2>2. RowsOK(e)'
    BY <1>2, <2>1 DEF RowsOK, Kept
  <2>3. born[e] \in Nat /\ version[workflow[e]] \in Nat
    BY Versions
  <2>4. workflow'[e] \in Workflow /\ version' \in [Workflow -> 0..MaxChanges]
    BY DEF TypeOK
  <2>5. version'[workflow[e]] \in Nat
    BY <1>2, <2>4, Versions DEF Kept
  <2>6. NoOrphan(e)'
    BY <1>2, <2>1, <2>3, <2>5 DEF NoOrphan, Kept, Exists, Stored
  <2>7. AsDefined(e)'
    <3> SUFFICES ASSUME NEW d \in Definition,
                        Exists(e)', version'[workflow'[e]] = born'[e], definition'[workflow'[e]] = d
                 PROVE  Follows(e, d)'
      BY DEF AsDefined
    <3>1. Exists(e) /\ born[e] <= version[workflow[e]]
      BY <1>2, <2>1 DEF Kept, Exists, NoOrphan
    <3>2. version'[workflow[e]] = version[workflow[e]] /\ version[workflow[e]] = born[e]
      BY <1>2, <2>3, <2>5, <3>1 DEF Kept
    <3>3. definition[workflow[e]] = d
      BY <1>2, <3>1, <3>2 DEF Kept
    <3>4. Follows(e, d)
      BY <2>1, <3>1, <3>2, <3>3 DEF AsDefined
    <3> QED
      BY <1>2, <3>4 DEF Kept, Follows, Attempted
  <2> QED
    BY <2>2, <2>6, <2>7
<1> QED
  BY <1>1, <1>2

LEMMA MailKept ==
  ASSUME TypeOK, MailInv, TypeOK', \A e \in Exec : Kept(e) \/ Dropped(e),
         tasks' \subseteq tasks, \A r \in Report : Sent(r)' => Sent(r)
  PROVE  MailInv'
<1>1. ASSUME NEW t \in tasks' PROVE TaskOK(t)'
  <2>1. t \in tasks /\ t.exec \in Exec /\ TaskOK(t)
    BY <1>1 DEF MailInv, TypeOK, Task
  <2> QED
    BY <2>1 DEF TaskOK, Kept, Dropped, Exists
<1>2. ASSUME NEW r \in Report, Sent(r)' PROVE ReportOK(r)'
  <2>1. Sent(r) /\ ReportOK(r) /\ r.exec \in Exec
    BY <1>2 DEF MailInv, Report
  <2> QED
    BY <2>1 DEF ReportOK, Kept, Dropped, Exists
<1> QED
  BY <1>1, <1>2 DEF MailInv

LEMMA KnowsKept ==
  ASSUME TypeOK, ExecInv, TypeOK', NEW p \in Consumer, Knows(p), h'[p] = h[p],
         Kept(h[p].report.exec) \/ Dropped(h[p].report.exec)
  PROVE  Knows(p)'
<1> SUFFICES ASSUME h[p].pc # "idle" PROVE Knows(p)'
  BY DEF Knows
<1> DEFINE e == h[p].report.exec
<1>1. h[p].report \in Report /\ e \in Exec
  BY DEF Knows, Report
<1>2. CASE Dropped(e)
  <2>1. ~Exists(e)'
    BY <1>2 DEF Dropped, Exists
  <2> QED
    BY <2>1 DEF Knows
<1>3. CASE Kept(e)
  <2>1. Exists(e)' <=> Exists(e)
    BY <1>3 DEF Kept, Exists
  <2>2. Clear(e)' <=> Clear(e)
    BY <1>3 DEF Kept, Clear
  <2>3. ASSUME Exists(e), version'[workflow[e]] = born[e]
        PROVE  version[workflow[e]] = born[e] /\ definition'[workflow[e]] = definition[workflow[e]]
    <3>1. born[e] <= version[workflow[e]] /\ version[workflow[e]] <= version'[workflow[e]]
      BY <1>1, <1>3, <2>3 DEF Kept, ExecInv, NoOrphan
    <3>2. born[e] \in Nat /\ version[workflow[e]] \in Nat /\ workflow[e] \in Workflow
      BY <1>1, Versions
    <3>3. version'[workflow[e]] \in Nat
      BY <3>2, Bounds DEF TypeOK
    <3>4. version[workflow[e]] = born[e] /\ version'[workflow[e]] = version[workflow[e]]
      BY <2>3, <3>1, <3>2, <3>3
    <3> QED
      BY <1>3, <2>3, <3>4 DEF Kept
  <2>4. row'[e] = row[e] /\ status'[e] = status[e] /\ workflow'[e] = workflow[e] /\ born'[e] = born[e]
    BY <1>3 DEF Kept
  <2> HIDE DEF e
  <2>5. h'[p].report.exec = e
    BY DEF e
  <2> QED
    BY <2>1, <2>2, <2>3, <2>4, <2>5 DEF Knows, e
<1> QED
  BY <1>2, <1>3

-----------------------------------------------------------------------------
(* Types.                                                                  *)

HandlerRecord ==
    [pc : Location, report : Report \cup {NoReport}, seen : Status, def : Definition \cup {<<>>}]
RequestRecord ==
    [pc : {"idle", "create"}, of : Workflow, def : Definition \cup {<<>>}, version : 0..MaxChanges]

LEMMA Lists ==
  ASSUME NEW d \in Definition \cup {<<>>}
  PROVE  /\ DOMAIN d = 1..Len(d) /\ Len(d) \in Nat
         /\ d # <<>> => 1 \in DOMAIN d
         /\ \A i \in DOMAIN d : d[i].name \in Activity /\ d[i].comp \in Activity \cup {NoComp}
         /\ \A i, j \in DOMAIN d : d[i].name = d[j].name => i = j
         /\ \A i, j \in DOMAIN d : d[i].comp # d[j].name
<1> DEFINE X == [name : Activity, comp : Activity \cup {NoComp}]
<1>0. Definition \subseteq Seq(X)
  BY DefinitionAssumption DEF DefinitionAssumption
<1> HIDE DEF X
<1>1. d \in Seq(X)
  <2>1. <<>> \in Seq(X)
    OBVIOUS
  <2> QED
    BY <1>0, <2>1
<1>2. DOMAIN d = 1..Len(d) /\ Len(d) \in Nat /\ (d # <<>> => 1 \in DOMAIN d)
  BY <1>1
<1>3. \A i \in DOMAIN d : d[i].name \in Activity /\ d[i].comp \in Activity \cup {NoComp}
  <2>1. \A i \in DOMAIN d : d[i] \in X
    BY <1>1, <1>2
  <2> QED
    BY <2>1 DEF X
<1>4. \A i, j \in DOMAIN d : (d[i].name = d[j].name => i = j) /\ d[i].comp # d[j].name
  BY DefinitionAssumption, <1>2 DEF DefinitionAssumption
<1> QED
  BY <1>2, <1>3, <1>4

LEMMA IdleType == Idle \in HandlerRecord /\ Silent \in RequestRecord
<1>1. Silent.of \in Workflow
  BY BoundAssumption DEF BoundAssumption, Silent
<1> QED
  BY <1>1, Bounds DEF Idle, Silent, HandlerRecord, RequestRecord, Location, Status

LEMMA InitTypeOK == Init => TypeOK
<1>1. Silent.of \in Workflow
  BY BoundAssumption DEF BoundAssumption, Silent
<1> QED
  BY <1>1, IdleType, Bounds DEF Init, TypeOK, HandlerRecord, RequestRecord, NoRows, Row, Status

LEMMA RequestTypeOK ==
  ASSUME TypeOK, NEW w \in Workflow, Request(w) PROVE TypeOK'
<1>1. ASSUME NEW d \in Definition, CreateWorkflow(w, d) PROVE TypeOK'
  BY <1>1 DEF TypeOK, CreateWorkflow, executions
<1>2. ASSUME NEW d \in Definition, UpdateWorkflow(w, d) PROVE TypeOK'
  <2>1. version[w] + 1 \in 0..MaxChanges
    BY <1>2, Bounds DEF TypeOK, UpdateWorkflow
  <2> QED
    BY <1>2, <2>1 DEF TypeOK, UpdateWorkflow, executions
<1>3. CASE DeleteWorkflow(w)
  BY <1>3 DEF TypeOK, DeleteWorkflow, NoRows, Row, Status
<1> QED
  BY <1>1, <1>2, <1>3 DEF Request

LEMMA DeleteTypeOK ==
  ASSUME TypeOK, NEW e \in Exec, DeleteExecution(e) PROVE TypeOK'
BY DEF TypeOK, DeleteExecution, NoRows, Row, Status, catalogue

LEMMA WorkTypeOK ==
  ASSUME TypeOK, NEW t \in Task, NEW ok \in BOOLEAN, Work(t, ok) PROVE TypeOK'
BY DEF TypeOK, Work, Task, Report, catalogue, executions

LEMMA StartingTypeOK ==
  ASSUME TypeOK, StartInv, NEW c \in Client, Starting(c) PROVE TypeOK'
<1>1. ASSUME NEW w \in Workflow, AskWorkflow(c, w) PROVE TypeOK'
  <2>1. definition[w] \in Definition /\ version[w] \in 0..MaxChanges
    BY <1>1 DEF AskWorkflow, Stored, TypeOK
  <2> QED
    BY <1>1, <2>1 DEF AskWorkflow, TypeOK, catalogue, executions
<1>2. CASE CreateFails(c)
  BY <1>2, IdleType DEF CreateFails, TypeOK, RequestRecord, catalogue, executions
<1>3. CASE CreateExecution(c)
  <2> DEFINE w == start[c].of
             d == start[c].def
             e == CHOOSE e \in Unborn : TRUE
  <2>1. w \in Workflow /\ d \in Definition \cup {<<>>} /\ start[c].version \in 0..MaxChanges
    BY DEF TypeOK
  <2>2. e \in Exec
    BY <1>3 DEF CreateExecution, Unborn
  <2>3. start' \in [Client -> RequestRecord]
    BY <1>3, IdleType DEF CreateExecution, TypeOK, RequestRecord
  <2>4. /\ status' = [status EXCEPT ![e] = IF d = <<>> THEN "COMPLETED" ELSE "RUNNING"]
        /\ workflow' = [workflow EXCEPT ![e] = w]
        /\ born' = [born EXCEPT ![e] = start[c].version]
        /\ IF d = <<>> THEN UNCHANGED <<row, tasks>>
           ELSE /\ row' = [row EXCEPT ![e][d[1].name] = "PENDING"]
                /\ tasks' = tasks \cup {[exec |-> e, name |-> d[1].name]}
        /\ UNCHANGED <<catalogue, trail, reports, h, faults>>
    BY <1>3 DEF CreateExecution
  <2>5. d # <<>> => d[1].name \in Activity
    BY <2>1, Lists
  <2> HIDE DEF w, d, e
  <2>6. /\ status' \in [Exec -> Status] /\ workflow' \in [Exec -> Workflow]
        /\ born' \in [Exec -> 0..MaxChanges]
    BY <2>1, <2>2, <2>4 DEF TypeOK, Status
  <2>7. row' \in [Exec -> [Activity -> Row]] /\ tasks' \subseteq Task
    <3>1. CASE d = <<>>
      BY <2>4, <3>1 DEF TypeOK
    <3>2. CASE d # <<>>
      <4>1. row[e] \in [Activity -> Row] /\ "PENDING" \in Row
        BY <2>2 DEF TypeOK, Row
      <4>2. row' = [row EXCEPT ![e] = [row[e] EXCEPT ![d[1].name] = "PENDING"]]
        BY <2>4, <3>2
      <4>3. [exec |-> e, name |-> d[1].name] \in Task
        BY <2>2, <2>5, <3>2 DEF Task
      <4> QED
        BY <2>2, <2>4, <2>5, <3>2, <4>1, <4>2, <4>3 DEF TypeOK
    <3> QED
      BY <3>1, <3>2
  <2> QED
    BY <2>3, <2>4, <2>6, <2>7 DEF TypeOK, RequestRecord, catalogue
<1> QED
  BY <1>1, <1>2, <1>3 DEF Starting

-----------------------------------------------------------------------------
(* Steps of a handler.                                                     *)

Moves(p) ==
    /\ h[p].pc # "idle"
    /\ \A q \in Consumer : q # p => h'[q] = h[q]
    /\ h'[p].pc = "idle" \/ h'[p].report = h[p].report
    /\ \A r \in reports' : r \in reports \/ r = h[p].report

LEMMA MovesSent ==
  ASSUME HandlerInv, NEW p \in Consumer, Moves(p)
  PROVE  LockInv' /\ \A r \in Report : Sent(r)' => Sent(r)
<1>1. ASSUME NEW r \in Report, Sent(r)' PROVE Sent(r)
  BY <1>1 DEF Sent, Moves
<1>2. LockInv'
  BY DEF HandlerInv, LockInv, Moves
<1> QED
  BY <1>1, <1>2

\* Other handlers work on other executions.
LEMMA OthersKnow ==
  ASSUME IInv, TypeOK', NEW p \in Consumer, Moves(p), Knows(p)',
         \A e \in Exec : e # h[p].report.exec => Kept(e) \/ Dropped(e)
  PROVE  HandlerInv'
<1>1. LockInv' /\ TypeOK /\ ExecInv /\ HandlerInv
  BY MovesSent DEF IInv
<1>2. ASSUME NEW q \in Consumer, q # p PROVE Knows(q)'
  <2>1. h'[q] = h[q] /\ Knows(q)
    BY <1>1, <1>2 DEF Moves, HandlerInv
  <2>2. CASE h[q].pc = "idle"
    BY <2>1, <2>2 DEF Knows
  <2>3. CASE h[q].pc # "idle"
    <3>1. h[q].report.exec # h[p].report.exec /\ h[q].report.exec \in Exec
      BY <1>1, <1>2, <2>1, <2>3 DEF HandlerInv, LockInv, Moves, Knows, Report
    <3> QED
      BY <1>1, <2>1, <3>1, KnowsKept
  <2> QED
    BY <2>2, <2>3
<1> QED
  BY <1>1, <1>2 DEF HandlerInv

LEMMA QuietStep ==
  ASSUME IInv, TypeOK', NEW p \in Consumer, Moves(p), Knows(p)',
         UNCHANGED <<catalogue, executions, row, trail, tasks, start>>
  PROVE  IInv'
<1>1. \A e \in Exec : Kept(e)
  <2> SUFFICES ASSUME NEW e \in Exec PROVE Kept(e)
    OBVIOUS
  <2>1. NoOrphan(e) /\ version[workflow[e]] \in Nat
    BY Versions DEF IInv, ExecInv
  <2> QED
    BY <2>1 DEF Kept, NoOrphan, Stored, catalogue, executions
<1>2. HandlerInv'
  BY <1>1, OthersKnow
<1>3. MailInv'
  BY <1>1, MovesSent, MailKept DEF IInv
<1>4. ExecInv'
  BY <1>1, ExecKept DEF IInv, ExecInv
<1>5. StartInv'
  BY DEF IInv, StartInv, StartOK, Stored, catalogue
<1> QED
  BY <1>2, <1>3, <1>4, <1>5 DEF IInv

\* A transaction on the rows of the execution a handler works on.
LEMMA TableStep ==
  ASSUME IInv, TypeOK', NEW p \in Consumer, Moves(p), Knows(p)', MailInv',
         NEW e \in Exec, e = h[p].report.exec, NoOrphan(e)', RowsOK(e)', AsDefined(e)',
         \A f \in Exec : f # e => status'[f] = status[f] /\ row'[f] = row[f] /\ trail'[f] = trail[f],
         UNCHANGED <<catalogue, workflow, born, start>>
  PROVE  IInv'
<1>1. ASSUME NEW f \in Exec, f # e PROVE Kept(f)
  <2>1. NoOrphan(f) /\ version[workflow[f]] \in Nat
    BY Versions DEF IInv, ExecInv
  <2> QED
    BY <1>1, <2>1 DEF Kept, NoOrphan, Stored, catalogue
<1>2. HandlerInv'
  BY <1>1, OthersKnow
<1>3. ASSUME NEW f \in Exec PROVE (NoOrphan(f) /\ RowsOK(f) /\ AsDefined(f))'
  <2>1. CASE f = e
    BY <2>1
  <2>2. CASE f # e
    BY <1>1, <2>2, ExecKept DEF IInv
  <2> QED
    BY <2>1, <2>2
<1>4. StartInv'
  BY DEF IInv, StartInv, StartOK, Stored, catalogue
<1> QED
  BY <1>2, <1>3, <1>4 DEF IInv, ExecInv

LEMMA RequeueStep ==
  ASSUME IInv, NEW p \in Consumer, h[p].pc # "idle", Requeue(p), faults' \in 0..MaxFaults
  PROVE  IInv'
<1>1. h' = [h EXCEPT ![p] = Idle] /\ reports' = reports \cup {h[p].report}
  BY DEF Requeue
<1>2. h[p].report \in Report /\ h'[p] = Idle
  BY <1>1 DEF IInv, HandlerInv, Knows, TypeOK
<1>3. TypeOK'
  <2>1. h' \in [Consumer -> HandlerRecord]
    BY <1>1, IdleType DEF IInv, TypeOK, HandlerRecord
  <2> QED
    BY <1>1, <1>2, <2>1 DEF IInv, TypeOK, HandlerRecord, Requeue, catalogue, executions
<1>4. Moves(p)
  BY <1>1, <1>2 DEF Moves, Idle, IInv, TypeOK
<1>5. Knows(p)'
  BY <1>2 DEF Knows, Idle
<1> QED
  BY <1>3, <1>4, <1>5, QuietStep DEF Requeue

\* A step to another place in the handler, without a change of what was read.
LEMMA GotoStep ==
  ASSUME TypeOK, NEW p \in Consumer, NEW pc \in Location, Goto(p, pc)
  PROVE  /\ h' \in [Consumer -> HandlerRecord]
         /\ \A q \in Consumer : q # p => h'[q] = h[q]
         /\ h'[p].pc = pc /\ h'[p].report = h[p].report /\ h'[p].def = h[p].def
<1>1. h \in [Consumer -> HandlerRecord] /\ h[p] \in HandlerRecord
  BY DEF TypeOK, HandlerRecord
<1>2. h' = [h EXCEPT ![p] = [h[p] EXCEPT !.pc = pc]]
  BY DEF Goto
<1>3. [h[p] EXCEPT !.pc = pc] \in HandlerRecord
  BY <1>1 DEF HandlerRecord
<1>4. h'[p] = [h[p] EXCEPT !.pc = pc]
  BY <1>1, <1>2
<1> QED
  BY <1>1, <1>2, <1>3, <1>4 DEF HandlerRecord

LEMMA Handling ==
  ASSUME IInv, NEW p \in Consumer, h[p].pc # "idle"
  PROVE  /\ h[p].report \in Report /\ Knows(p) /\ h[p] \in HandlerRecord
         /\ h[p].report.exec \in Exec /\ h[p].report.name \in Activity /\ h[p].report.ok \in BOOLEAN
         /\ Sent(h[p].report) /\ ReportOK(h[p].report)
<1>1. h[p].report \in Report /\ Knows(p) /\ h[p] \in HandlerRecord
  BY DEF IInv, HandlerInv, Knows, TypeOK, HandlerRecord
<1>2. Sent(h[p].report)
  BY DEF Sent
<1> QED
  BY <1>1, <1>2 DEF Report, IInv, MailInv

LEMMA DeliverStep ==
  ASSUME IInv, NEW p \in Consumer, NEW r \in Report, Deliver(p, r) PROVE IInv'
<1> DEFINE x == [Idle EXCEPT !.pc = "begin", !.report = r]
<1>1. x \in HandlerRecord /\ x.pc = "begin" /\ x.report = r
  BY DEF Idle, HandlerRecord, Location, Status
<1>2. h' = [h EXCEPT ![p] = x] /\ reports' = reports \ {r} /\ h \in [Consumer -> HandlerRecord]
  BY DEF Deliver, IInv, TypeOK, HandlerRecord
<1> HIDE DEF x
<1>3. h' \in [Consumer -> HandlerRecord] /\ h'[p] = x /\ \A q \in Consumer : q # p => h'[q] = h[q]
  BY <1>1, <1>2
<1>4. TypeOK'
  BY <1>2, <1>3 DEF IInv, TypeOK, HandlerRecord, Deliver, catalogue, executions
<1>5. \A e \in Exec : Kept(e)
  <2> SUFFICES ASSUME NEW e \in Exec PROVE Kept(e)
    OBVIOUS
  <2>1. NoOrphan(e) /\ version[workflow[e]] \in Nat
    BY Versions DEF IInv, ExecInv
  <2> QED
    BY <2>1 DEF Kept, NoOrphan, Stored, catalogue, executions, Deliver
<1>6. Knows(p)'
  BY <1>1, <1>3 DEF Knows
<1>7. LockInv'
  BY <1>1, <1>3 DEF LockInv, Deliver, IInv, HandlerInv
<1>8. \A s \in Report : Sent(s)' => Sent(s)
  BY <1>1, <1>2, <1>3 DEF Sent, Deliver
<1>9. ASSUME NEW q \in Consumer PROVE Knows(q)'
  <2>1. CASE q = p
    BY <1>6, <2>1
  <2>2. CASE q # p /\ h[q].pc = "idle"
    BY <1>3, <2>2 DEF Knows
  <2>3. CASE q # p /\ h[q].pc # "idle"
    BY <1>3, <1>4, <1>5, <2>3, Handling, KnowsKept DEF IInv
  <2> QED
    BY <2>1, <2>2, <2>3
<1>10. MailInv' /\ ExecInv' /\ StartInv'
  <2>1. MailInv'
    BY <1>4, <1>5, <1>8, MailKept DEF IInv, Deliver
  <2>2. ExecInv'
    BY <1>4, <1>5, ExecKept DEF IInv, ExecInv
  <2>3. StartInv'
    BY DEF IInv, StartInv, StartOK, Stored, Deliver, catalogue
  <2> QED
    BY <2>1, <2>2, <2>3
<1> QED
  BY <1>4, <1>7, <1>9, <1>10 DEF IInv, HandlerInv

LEMMA AckStep ==
  ASSUME IInv, NEW p \in Consumer, Ack(p) PROVE IInv'
<1>1. h' = [h EXCEPT ![p] = Idle] /\ h[p].pc # "idle" /\ h \in [Consumer -> HandlerRecord]
  BY DEF Ack, IInv, TypeOK, HandlerRecord
<1>2. h' \in [Consumer -> HandlerRecord] /\ h'[p].pc = "idle"
  BY <1>1, IdleType DEF Idle
<1>3. TypeOK'
  BY <1>2 DEF IInv, TypeOK, HandlerRecord, Ack, catalogue, executions
<1>4. Moves(p)
  BY <1>1, <1>2 DEF Moves, Ack
<1>5. Knows(p)'
  BY <1>2 DEF Knows
<1> QED
  BY <1>3, <1>4, <1>5, QuietStep DEF Ack

\* The row of a report that is not answered yet is open, and no other one is.
LEMMA OpenRow ==
  ASSUME IInv, NEW e \in Exec, NEW n \in Activity, row[e][n] = "PENDING"
  PROVE  status[e] \in Active /\ \A m \in Activity : row[e][m] = "PENDING" => m = n
BY DEF IInv, ExecInv, RowsOK

LEMMA BeginStep ==
  ASSUME IInv, NEW p \in Consumer, Begin(p) PROVE IInv'
<1> DEFINE r == h[p].report
           a == row[r.exec][r.name]
<1>1. h[p].pc = "begin" /\ TypeOK
  BY DEF Begin, IInv
<1>2. CASE Rejected(p)
  BY <1>1, <1>2, RequeueStep DEF Rejected, TypeOK
<1>3. CASE /\ a # "NONE"
           /\ Goto(p, IF a = Outcome(r) THEN "ack" ELSE IF r.ok THEN "complete" ELSE "readWorkflow")
           /\ UNCHANGED <<catalogue, executions, row, trail, tasks, reports, start, faults>>
  <2>1. PICK pc \in {"ack", "complete", "readWorkflow"} :
           /\ Goto(p, pc)
           /\ pc = IF a = Outcome(r) THEN "ack" ELSE IF r.ok THEN "complete" ELSE "readWorkflow"
    BY <1>3
  <2>2. pc \in Location
    BY <2>1 DEF Location
  <2>3. /\ h' \in [Consumer -> HandlerRecord] /\ \A q \in Consumer : q # p => h'[q] = h[q]
        /\ h'[p].pc = pc /\ h'[p].report = r /\ h'[p].def = h[p].def
    BY <1>1, <2>1, <2>2, GotoStep
  <2>4. TypeOK'
    BY <1>1, <1>3, <2>3 DEF TypeOK, HandlerRecord, catalogue, executions
  <2>5. Moves(p)
    BY <1>1, <1>3, <2>3 DEF Moves
  <2>6. r \in Report /\ r.exec \in Exec /\ (Exists(r.exec) => a \in {"PENDING", Outcome(r)})
    BY <1>1, Handling DEF ReportOK
  <2>7. \A e \in Exec : Exists(e)' <=> Exists(e)
    BY <1>3 DEF Exists, executions
  <2>8. pc # "ack" => (Exists(r.exec) => a = "PENDING") /\ (pc = "complete" <=> r.ok)
    BY <2>1, <2>6
  <2>9. row' = row
    BY <1>3
  <2>10. PICK e \in Exec : e = r.exec
    BY <2>6
  <2>11. (Exists(e)' => Exists(e)) /\ h'[p].report.exec = e
    BY <2>3, <2>7, <2>10
  <2> HIDE DEF r
  <2>12. Knows(p)'
    BY <2>1, <2>3, <2>6, <2>8, <2>9, <2>10, <2>11 DEF Knows
  <2> QED
    BY <1>3, <2>4, <2>5, <2>12, QuietStep
<1> QED
  BY <1>2, <1>3 DEF Begin

LEMMA HandlerStep ==
  ASSUME TypeOK, NEW p \in Consumer, NEW x \in HandlerRecord, h' = [h EXCEPT ![p] = x]
  PROVE  h' \in [Consumer -> HandlerRecord] /\ h'[p] = x /\ \A q \in Consumer : q # p => h'[q] = h[q]
BY DEF TypeOK, HandlerRecord

LEMMA RejectedStep ==
  ASSUME IInv, NEW p \in Consumer, h[p].pc # "idle", Rejected(p) PROVE IInv'
BY RequeueStep DEF Rejected, IInv, TypeOK

LEMMA ReadWorkflowStep ==
  ASSUME IInv, NEW p \in Consumer, ReadWorkflow(p) PROVE IInv'
<1>1. h[p].pc = "readWorkflow" /\ TypeOK
  BY DEF ReadWorkflow, IInv
<1>2. CASE Rejected(p)
  BY <1>1, <1>2, RejectedStep
<1>3. CASE /\ h' = [h EXCEPT ![p] = [pc |-> "readActivities", report |-> h[p].report,
                                     seen |-> status[h[p].report.exec], def |-> h[p].def]]
           /\ UNCHANGED <<catalogue, executions, row, trail, tasks, reports, start, faults>>
  <2>1. PICK e \in Exec : e = h[p].report.exec
    BY <1>1, Handling
  <2> DEFINE x == [pc |-> "readActivities", report |-> h[p].report, seen |-> status[e], def |-> h[p].def]
  <2>2. h[p] \in HandlerRecord /\ h[p].report \in Report
    BY <1>1, Handling
  <2>3. x \in HandlerRecord
    BY <1>1, <2>1, <2>2 DEF HandlerRecord, Location, TypeOK
  <2>4. h' = [h EXCEPT ![p] = x] /\ x.pc = "readActivities" /\ x.report = h[p].report
    BY <1>3, <2>1, <2>3
  <2> HIDE DEF x
  <2>5. h' \in [Consumer -> HandlerRecord] /\ h'[p] = x /\ \A q \in Consumer : q # p => h'[q] = h[q]
    BY <1>1, <2>3, <2>4, HandlerStep
  <2>6. TypeOK'
    BY <1>1, <1>3, <2>5 DEF TypeOK, HandlerRecord, catalogue, executions
  <2>7. Moves(p)
    BY <1>1, <1>3, <2>4, <2>5 DEF Moves
  <2>8. Knows(p)'
    <3>1. Knows(p)
      BY <1>1, Handling
    <3>2. Exists(e)' = Exists(e) /\ Clear(e)' = Clear(e)
      BY <1>3 DEF Exists, Clear, executions
    <3>3. UNCHANGED <<row, status, workflow, born, version, definition>>
      BY <1>3 DEF executions, catalogue
    <3>4. h'[p].pc = "readActivities" /\ h'[p].report = h[p].report
      BY <2>4, <2>5
    <3>5. Exists(e) => /\ ~ h[p].report.ok => row[e][h[p].report.name] = "PENDING"
                       /\ h[p].report.ok => /\ Clear(e) /\ status[e] \in Active
                                            /\ row[e][h[p].report.name] = "COMPLETED"
      BY <1>1, <2>1, <3>1 DEF Knows
    <3> QED
      BY <2>1, <2>2, <3>2, <3>3, <3>4, <3>5 DEF Knows
  <2> QED
    BY <1>3, <2>6, <2>7, <2>8, QuietStep
<1> QED
  BY <1>2, <1>3 DEF ReadWorkflow, Continue, Write

LEMMA ReadActivitiesStep ==
  ASSUME IInv, NEW p \in Consumer, ReadActivities(p) PROVE IInv'
<1>1. h[p].pc = "readActivities" /\ TypeOK
  BY DEF ReadActivities, IInv
<1>2. CASE Rejected(p)
  BY <1>1, <1>2, RejectedStep
<1>3. ASSUME ~ Rejected(p) PROVE IInv'
  <2>1. PICK e \in Exec : e = h[p].report.exec
    BY <1>1, Handling
  <2> DEFINE r == h[p].report
             d == Activities(workflow[e])
             pc == IF ~ r.ok THEN "deadLetter"
                   ELSE IF h[p].seen = "COMPENSATING" THEN "rollBack" ELSE "advance"
             x == [pc |-> pc, report |-> r, seen |-> h[p].seen, def |-> d]
  <2>2. h[p] \in HandlerRecord /\ r \in Report /\ r.ok \in BOOLEAN
    BY <1>1, Handling
  <2>3. d \in Definition \cup {<<>>} /\ (Stored(workflow[e]) => d = definition[workflow[e]])
    BY <1>1, <2>1 DEF Activities, Stored, TypeOK
  <2> HIDE DEF d
  <2>4. x \in HandlerRecord
    BY <1>1, <2>1, <2>2, <2>3 DEF HandlerRecord, Location
  <2>5. /\ h' = [h EXCEPT ![p] = x]
        /\ pc = "advance" => r.name \in Names(d)
        /\ UNCHANGED <<catalogue, executions, row, trail, tasks, reports, start, faults>>
    BY <1>3, <2>1, <2>2 DEF ReadActivities, Continue, Write, d
  <2>6. /\ h' = [h EXCEPT ![p] = x] /\ x.pc = pc /\ x.report = r /\ x.def = d
        /\ pc \in {"deadLetter", "rollBack", "advance"} /\ (pc = "deadLetter" <=> ~ r.ok)
    BY <2>2, <2>4, <2>5
  <2> HIDE DEF x, pc
  <2>7. h' \in [Consumer -> HandlerRecord] /\ h'[p] = x /\ \A q \in Consumer : q # p => h'[q] = h[q]
    BY <1>1, <2>4, <2>6, HandlerStep
  <2>8. TypeOK'
    BY <1>1, <2>5, <2>7 DEF TypeOK, HandlerRecord, catalogue, executions
  <2>9. Moves(p)
    BY <1>1, <2>5, <2>6, <2>7 DEF Moves
  <2>10. Knows(p)'
    <3>1. Knows(p)
      BY <1>1, Handling
    <3>2. Exists(e)' = Exists(e) /\ Clear(e)' = Clear(e)
      BY <2>5 DEF Exists, Clear, executions
    <3>3. Exists(e) => d = definition[workflow[e]]
      BY <2>3 DEF IInv, ExecInv, NoOrphan
    <3>4. h'[p].pc = pc /\ h'[p].report = r /\ h'[p].def = d /\ r.exec = e
      BY <2>1, <2>6, <2>7
    <3>5. UNCHANGED <<row, status, workflow, born, version, definition>>
      BY <2>5 DEF executions, catalogue
    <3>6. Names(h[p].def)' = Names(d)
      BY <3>4 DEF Names
    <3>7. Exists(e) => /\ ~ r.ok => row[e][r.name] = "PENDING"
                       /\ r.ok => Clear(e) /\ status[e] \in Active /\ row[e][r.name] = "COMPLETED"
      BY <1>1, <2>1, <3>1 DEF Knows
    <3> HIDE DEF r
    <3> QED
      BY <2>2, <2>5, <2>6, <3>2, <3>3, <3>4, <3>5, <3>6, <3>7 DEF Knows
  <2> QED
    BY <2>5, <2>8, <2>9, <2>10, QuietStep
<1> QED
  BY <1>2, <1>3

-----------------------------------------------------------------------------
(* Transactions of the handlers.                                           *)

LEMMA RowSet ==
  ASSUME TypeOK, NEW e \in Exec, NEW n \in Activity, NEW s \in Row, row' = [row EXCEPT ![e][n] = s]
  PROVE  /\ row' \in [Exec -> [Activity -> Row]]
         /\ row'[e][n] = s
         /\ \A m \in Activity : m # n => row'[e][m] = row[e][m]
         /\ \A f \in Exec : f # e => row'[f] = row[f]
<1>1. row[e] \in [Activity -> Row] /\ row \in [Exec -> [Activity -> Row]]
  BY DEF TypeOK
<1>2. row' = [row EXCEPT ![e] = [row[e] EXCEPT ![n] = s]]
  OBVIOUS
<1>3. row'[e] = [row[e] EXCEPT ![n] = s] /\ \A f \in Exec : f # e => row'[f] = row[f]
  BY <1>1, <1>2
<1> QED
  BY <1>1, <1>2, <1>3

\* The row a handler works on is closed, as its report says.
LEMMA RowClosed ==
  ASSUME IInv, NEW p \in Consumer, Moves(p), NEW e \in Exec, NEW n \in Activity,
         e = h[p].report.exec, n = h[p].report.name, Exists(e), row[e][n] = "PENDING",
         row'[e][n] = Outcome(h[p].report),
         \A m \in Activity : m # n => row'[e][m] = row[e][m],
         \A f \in Exec : f # e => row'[f] = row[f],
         UNCHANGED <<catalogue, executions, tasks>>
  PROVE  MailInv' /\ NoOrphan(e)' /\ AsDefined(e)' /\ Clear(e)'
<1> DEFINE r == h[p].report
           s == Outcome(r)
<1>1. h[p].pc # "idle" /\ TypeOK /\ MailInv
  BY DEF Moves, IInv
<1>2. r \in Report /\ Sent(r) /\ ReportOK(r) /\ r.exec = e /\ r.name = n /\ r.ok \in BOOLEAN
  BY <1>1, Handling
<1>3. s \in {"COMPLETED", "FAILED"}
  BY DEF Outcome
<1>5. \A f \in Exec : f # e => row'[f] = row[f]
  OBVIOUS
<1>6. row'[e][n] = s /\ \A m \in Activity : m # n => row'[e][m] = row[e][m]
  OBVIOUS
<1> HIDE DEF s
<1>8. /\ status' = status /\ workflow' = workflow /\ born' = born
      /\ version' = version /\ definition' = definition
  BY DEF catalogue, executions
<1>9. status[e] \in Active /\ \A m \in Activity : row[e][m] = "PENDING" => m = n
  BY OpenRow
<1>10. Clear(e)'
  BY <1>3, <1>6, <1>9 DEF Clear
<1>11. MailInv'
  <2>1. ASSUME NEW t \in tasks' PROVE TaskOK(t)'
    <3>1. t \in tasks /\ TaskOK(t) /\ t.exec \in Exec /\ t.name \in Activity
      BY <1>1, <2>1 DEF MailInv, TypeOK, Task
    <3>2. ~ (t.exec = e /\ t.name = n)
      BY <1>2, <3>1 DEF ReportOK
    <3>3. row'[t.exec][t.name] = row[t.exec][t.name]
      BY <1>5, <1>6, <3>1, <3>2
    <3> QED
      BY <1>8, <3>1, <3>3 DEF TaskOK, Exists
  <2>2. ASSUME NEW q \in Report, Sent(q)' PROVE ReportOK(q)'
    <3>1. Sent(q) /\ ReportOK(q) /\ q.exec \in Exec /\ q.name \in Activity
      BY <1>1, <2>2, MovesSent DEF IInv, MailInv, Report
    <3>2. q.exec = e /\ q.name = n => q.ok = r.ok
      BY <1>2, <3>1 DEF ReportOK
    <3>3. row'[q.exec][q.name] \in {row[q.exec][q.name], Outcome(q)}
      BY <1>5, <1>6, <3>1, <3>2 DEF s, Outcome
    <3>4. \A u \in Report : Sent(u)' => Sent(u)
      BY MovesSent DEF IInv
    <3> QED
      BY <1>8, <3>1, <3>3, <3>4 DEF ReportOK, Exists
  <2> QED
    BY <2>1, <2>2 DEF MailInv
<1>12. NoOrphan(e) /\ AsDefined(e)
  BY DEF IInv, ExecInv
<1>13. NoOrphan(e)'
  BY <1>8, <1>12 DEF NoOrphan, Exists, Stored
<1>14. AsDefined(e)'
  <2> SUFFICES ASSUME NEW d \in Definition, Follows(e, d) PROVE Follows(e, d)'
    BY <1>8, <1>12 DEF AsDefined, Exists
  <2>1. ASSUME NEW m \in Activity PROVE row'[e][m] # "NONE" <=> row[e][m] # "NONE"
    BY <1>3, <1>6
  <2>2. \A i \in DOMAIN d : d[i].name \in Activity
    BY Lists
  <2>3. \A m \in Activity : row[e][m] = "COMPLETED" => row'[e][m] = "COMPLETED"
    BY <1>6
  <2>4. status'[e] \notin {"COMPLETED", "COMPENSATED"}
    BY <1>8, <1>9 DEF Active
  <2> QED
    BY <2>1, <2>2, <2>3, <2>4 DEF Follows
<1> QED
  BY <1>10, <1>11, <1>13, <1>14

\* A handler that goes on after a transaction of its own, to its next read or to the end.
LEMMA GoesOn ==
  ASSUME IInv, NEW p \in Consumer, h[p].pc # "idle", NEW pc \in Location, Goto(p, pc),
         UNCHANGED <<definition, version, workflow, born, reports, start, faults>>,
         status' \in [Exec -> Status], row' \in [Exec -> [Activity -> Row]],
         trail' \in [Exec -> Seq(Activity)], tasks' \subseteq Task
  PROVE  /\ TypeOK' /\ Moves(p)
         /\ h'[p].pc = pc /\ h'[p].report = h[p].report /\ h'[p].def = h[p].def
<1>1. TypeOK
  BY DEF IInv
<1>2. /\ h' \in [Consumer -> HandlerRecord]
      /\ \A q \in Consumer : q # p => h'[q] = h[q]
      /\ h'[p].pc = pc /\ h'[p].report = h[p].report /\ h'[p].def = h[p].def
  BY <1>1, GotoStep
<1>3. TypeOK'
  BY <1>1, <1>2 DEF TypeOK, HandlerRecord
<1>4. Moves(p)
  BY <1>2 DEF Moves
<1> QED
  BY <1>2, <1>3, <1>4

LEMMA CompleteActivityStep ==
  ASSUME IInv, NEW p \in Consumer, CompleteActivity(p) PROVE IInv'
<1>1. h[p].pc = "complete" /\ TypeOK
  BY DEF CompleteActivity, IInv
<1>2. CASE Rejected(p)
  BY <1>1, <1>2, RejectedStep
<1>3. ASSUME ~ Rejected(p) PROVE IInv'
  <2>1. PICK e \in Exec, n \in Activity : e = h[p].report.exec /\ n = h[p].report.name
    BY <1>1, Handling
  <2>2. /\ Exists(e) /\ row' = [row EXCEPT ![e][n] = "COMPLETED"]
        /\ trail' = [trail EXCEPT ![e] = Moved(trail[e], n)]
        /\ Goto(p, "readWorkflow")
        /\ UNCHANGED <<catalogue, executions, tasks, reports, start, faults>>
    BY <1>3, <2>1 DEF CompleteActivity, Write
  <2>3. Knows(p) /\ h[p].report.ok /\ row[e][n] = "PENDING" /\ Outcome(h[p].report) = "COMPLETED"
    BY <1>1, <2>1, <2>2, Handling DEF Knows, Outcome
  <2>4. RowsOK(e) /\ trail[e] \in Seq(Activity) /\ trail \in [Exec -> Seq(Activity)]
    BY <1>1 DEF IInv, ExecInv, TypeOK
  <2>5. Moved(trail[e], n) = Append(trail[e], n)
    BY <2>3, <2>4 DEF RowsOK, Moved
  <2>6. /\ trail' \in [Exec -> Seq(Activity)] /\ trail'[e] = Append(trail[e], n)
        /\ \A f \in Exec : f # e => trail'[f] = trail[f]
    BY <2>2, <2>4, <2>5
  <2>7. \A q \in Consumer : q # p => h'[q] = h[q]
    BY <1>1, <2>2 DEF Goto, TypeOK
  <2>8. Moves(p)
    <3>1. "readWorkflow" \in Location
      BY DEF Location
    <3> QED
      BY <1>1, <2>2, <3>1, GotoStep DEF Moves
  <2>9. /\ MailInv' /\ NoOrphan(e)' /\ AsDefined(e)' /\ Clear(e)'
        /\ row'[e][n] = "COMPLETED"
        /\ \A m \in Activity : m # n => row'[e][m] = row[e][m]
        /\ \A f \in Exec : f # e => row'[f] = row[f]
        /\ row' \in [Exec -> [Activity -> Row]]
    <3>1. "COMPLETED" \in Row
      BY DEF Row
    <3>2. /\ row'[e][n] = "COMPLETED" /\ row' \in [Exec -> [Activity -> Row]]
          /\ \A m \in Activity : m # n => row'[e][m] = row[e][m]
          /\ \A f \in Exec : f # e => row'[f] = row[f]
      BY <1>1, <2>2, <3>1, RowSet
    <3>3. UNCHANGED <<catalogue, executions, tasks>>
      BY <2>2
    <3>4. MailInv' /\ NoOrphan(e)' /\ AsDefined(e)' /\ Clear(e)'
      BY <2>1, <2>2, <2>3, <2>8, <3>2, <3>3, RowClosed
    <3> QED
      BY <3>2, <3>4
  <2>10. /\ TypeOK' /\ h'[p].pc = "readWorkflow" /\ h'[p].report = h[p].report
    <3>1. "readWorkflow" \in Location
      BY DEF Location
    <3> QED
      BY <1>1, <2>2, <2>6, <2>9, <3>1, GoesOn DEF catalogue, executions, TypeOK
  <2>11. RowsOK(e)'
    <3>1. \A m \in Activity : (\E i \in DOMAIN trail'[e] : trail'[e][i] = m)
                                <=> (\E i \in DOMAIN trail[e] : trail[e][i] = m) \/ m = n
      <4>1. Len(trail[e]) \in Nat /\ DOMAIN trail[e] = 1..Len(trail[e])
        BY <2>4
      <4>2. DOMAIN trail'[e] = 1..Len(trail[e]) + 1
        BY <2>4, <2>6, <4>1
      <4>3. \A i \in 1..Len(trail[e]) : trail'[e][i] = trail[e][i]
        BY <2>4, <2>6
      <4>4. trail'[e][Len(trail[e]) + 1] = n
        BY <2>4, <2>6
      <4> QED
        BY <4>1, <4>2, <4>3, <4>4
    <3> QED
      BY <2>4, <2>9, <3>1 DEF RowsOK, Clear
  <2>12. Knows(p)'
    <3>1. status'[e] \in Active
      BY <2>2, <2>3, OpenRow DEF executions
    <3> QED
      BY <2>1, <2>3, <2>9, <2>10, <3>1, <1>1, Handling DEF Knows
  <2>13. status' = status /\ workflow' = workflow /\ born' = born
    BY <2>2 DEF executions
  <2> QED
    BY <2>1, <2>2, <2>6, <2>8, <2>9, <2>10, <2>11, <2>12, <2>13, TableStep
<1> QED
  BY <1>2, <1>3

LEMMA DeadLetterStep ==
  ASSUME IInv, NEW p \in Consumer, DeadLetterActivity(p) PROVE IInv'
<1>1. h[p].pc = "deadLetter" /\ TypeOK
  BY DEF DeadLetterActivity, IInv
<1>2. CASE Rejected(p)
  BY <1>1, <1>2, RejectedStep
<1>3. ASSUME ~ Rejected(p) PROVE IInv'
  <2>1. PICK e \in Exec, n \in Activity : e = h[p].report.exec /\ n = h[p].report.name
    BY <1>1, Handling
  <2>2. /\ Exists(e) /\ row' = [row EXCEPT ![e][n] = "FAILED"]
        /\ Goto(p, "rollBack")
        /\ UNCHANGED <<catalogue, executions, trail, tasks, reports, start, faults>>
    BY <1>3, <2>1 DEF DeadLetterActivity, Write
  <2>3. Knows(p) /\ ~ h[p].report.ok /\ row[e][n] = "PENDING" /\ Outcome(h[p].report) = "FAILED"
    BY <1>1, <2>1, <2>2, Handling DEF Knows, Outcome
  <2>4. RowsOK(e)
    BY DEF IInv, ExecInv
  <2>5. "rollBack" \in Location
    BY DEF Location
  <2>6. Moves(p)
    BY <1>1, <2>2, <2>5, GotoStep DEF Moves
  <2>7. /\ MailInv' /\ NoOrphan(e)' /\ AsDefined(e)' /\ Clear(e)'
        /\ row'[e][n] = "FAILED"
        /\ \A m \in Activity : m # n => row'[e][m] = row[e][m]
        /\ \A f \in Exec : f # e => row'[f] = row[f]
        /\ row' \in [Exec -> [Activity -> Row]]
    <3>1. "FAILED" \in Row
      BY DEF Row
    <3>2. /\ row'[e][n] = "FAILED" /\ row' \in [Exec -> [Activity -> Row]]
          /\ \A m \in Activity : m # n => row'[e][m] = row[e][m]
          /\ \A f \in Exec : f # e => row'[f] = row[f]
      BY <1>1, <2>2, <3>1, RowSet
    <3>3. UNCHANGED <<catalogue, executions, tasks>>
      BY <2>2
    <3>4. MailInv' /\ NoOrphan(e)' /\ AsDefined(e)' /\ Clear(e)'
      BY <2>1, <2>2, <2>3, <2>6, <3>2, <3>3, RowClosed
    <3> QED
      BY <3>2, <3>4
  <2>8. /\ TypeOK' /\ h'[p].pc = "rollBack" /\ h'[p].report = h[p].report /\ h'[p].def = h[p].def
    BY <1>1, <2>2, <2>5, <2>7, GoesOn DEF catalogue, executions, TypeOK
  <2>9. RowsOK(e)'
    BY <2>2, <2>3, <2>4, <2>7 DEF RowsOK, Clear
  <2>10. UNCHANGED <<definition, version, status, workflow, born>>
    BY <2>2 DEF catalogue, executions
  <2>11. Knows(p)'
    <3>1. status'[e] \in Active
      BY <2>3, <2>10, OpenRow
    <3>2. Exists(e) /\ version[workflow[e]] = born[e] => h[p].def = definition[workflow[e]]
      BY <1>1, <2>1, <2>3 DEF Knows
    <3> QED
      BY <1>1, <2>1, <2>2, <2>3, <2>7, <2>8, <2>10, <3>1, <3>2, Handling DEF Knows
  <2> QED
    BY <2>1, <2>2, <2>6, <2>7, <2>8, <2>9, <2>10, <2>11, TableStep
<1> QED
  BY <1>2, <1>3

\* A row is inserted that the definition says comes next, when no row is open.
LEMMA ScheduleStep ==
  ASSUME IInv, NEW p \in Consumer, h[p].pc \in {"advance", "rollBack"}, NEW n \in Activity, NEW s,
         NEW e \in Exec, e = h[p].report.exec, Exists(e) => s \in Active, Schedule(p, n, s),
         \A d \in Definition :
            Exists(e) /\ version[workflow[e]] = born[e] /\ definition[workflow[e]] = d =>
                /\ Known(d, n)
                /\ \A i, j \in DOMAIN d : d[i].name = n /\ j < i => row[e][d[j].name] = "COMPLETED"
  PROVE  IInv'
<1>1. h[p].pc # "idle" /\ TypeOK
  BY DEF IInv
<1>2. CASE Rejected(p)
  BY <1>1, <1>2, RejectedStep
<1>3. ASSUME ~ Rejected(p) PROVE IInv'
  <2> DEFINE t == [exec |-> e, name |-> n]
  <2>1. /\ Exists(e) /\ row[e][n] = "NONE" /\ s \in Active
        /\ row' = [row EXCEPT ![e][n] = "PENDING"]
        /\ tasks' = tasks \cup {t}
        /\ status' = [status EXCEPT ![e] = s]
        /\ Goto(p, "ack")
        /\ UNCHANGED <<catalogue, workflow, born, trail, reports, start, faults>>
    BY <1>3 DEF Schedule, Write
  <2>0. t \in Task /\ t.exec = e /\ t.name = n
    BY DEF Task
  <2> HIDE DEF t
  <2>2. /\ row'[e][n] = "PENDING" /\ row' \in [Exec -> [Activity -> Row]]
        /\ \A m \in Activity : m # n => row'[e][m] = row[e][m]
        /\ \A f \in Exec : f # e => row'[f] = row[f]
    <3>1. row[e] \in [Activity -> Row] /\ row \in [Exec -> [Activity -> Row]] /\ "PENDING" \in Row
      BY <1>1 DEF TypeOK, Row
    <3>2. row' = [row EXCEPT ![e] = [row[e] EXCEPT ![n] = "PENDING"]]
      BY <2>1
    <3>3. row'[e] = [row[e] EXCEPT ![n] = "PENDING"] /\ \A f \in Exec : f # e => row'[f] = row[f]
      BY <3>1, <3>2
    <3> QED
      BY <3>1, <3>2, <3>3
  <2>3. /\ status' \in [Exec -> Status] /\ status'[e] = s
        /\ \A f \in Exec : f # e => status'[f] = status[f]
    BY <1>1, <2>1 DEF TypeOK, Status, Active
  <2>4. tasks' \subseteq Task /\ t \in Task /\ t.exec = e /\ t.name = n
    BY <1>1, <2>0, <2>1 DEF TypeOK
  <2>5. "ack" \in Location /\ UNCHANGED <<definition, version>>
    BY <2>1 DEF Location, catalogue
  <2>6. TypeOK' /\ Moves(p) /\ h'[p].pc = "ack" /\ h'[p].report = h[p].report
    <3>1. Goto(p, "ack") /\ trail' \in [Exec -> Seq(Activity)]
      BY <1>1, <2>1 DEF TypeOK
    <3>2. UNCHANGED <<definition, version, workflow, born, reports, start, faults>>
      BY <2>1, <2>5
    <3>3. row' \in [Exec -> [Activity -> Row]] /\ status' \in [Exec -> Status] /\ tasks' \subseteq Task
      BY <2>2, <2>3, <2>4
    <3> QED
      BY <1>1, <2>5, <3>1, <3>2, <3>3, GoesOn
  <2>7. h[p].report \in Report /\ Knows(p)
    BY <1>1, Handling
  <2>8. Knows(p)'
    BY <2>6, <2>7 DEF Knows
  <2>9. Clear(e) /\ status[e] \in Active
    BY <2>1, <2>7 DEF Knows
  <2>10. Exists(e)' /\ \A f \in Exec : f # e => (Exists(f)' <=> Exists(f))
    BY <2>1, <2>3 DEF Exists, Active
  <2>11. NoOrphan(e) /\ RowsOK(e) /\ AsDefined(e)
    BY DEF IInv, ExecInv
  <2>12. NoOrphan(e)'
    BY <2>1, <2>5, <2>10, <2>11 DEF NoOrphan, Stored
  <2>13. RowsOK(e)'
    BY <2>1, <2>2, <2>3, <2>9, <2>11 DEF RowsOK, Clear
  <2>14. AsDefined(e)'
    <3> SUFFICES ASSUME NEW d \in Definition, version[workflow[e]] = born[e], definition[workflow[e]] = d
                 PROVE  Follows(e, d)'
      BY <2>1, <2>5 DEF AsDefined
    <3>1. Follows(e, d)
      BY <2>1, <2>11 DEF AsDefined
    <3>2. /\ Known(d, n)
          /\ \A i, j \in DOMAIN d : d[i].name = n /\ j < i => row[e][d[j].name] = "COMPLETED"
      BY <2>1
    <3>3. \A i \in DOMAIN d : d[i].name \in Activity
      BY Lists
    <3>4. \A m \in Activity : row[e][m] = "COMPLETED" => row'[e][m] = "COMPLETED"
      BY <2>1, <2>2
    <3>5. \A m \in Activity : row'[e][m] # "NONE" => row[e][m] # "NONE" \/ m = n
      BY <2>2
    <3>6. status'[e] \notin {"COMPLETED", "COMPENSATED"}
      BY <2>1, <2>3 DEF Active
    <3> QED
      BY <3>1, <3>2, <3>3, <3>4, <3>5, <3>6 DEF Follows
  <2>15. MailInv'
    <3>1. ASSUME NEW u \in tasks' PROVE TaskOK(u)'
      <4>1. CASE u = t
        BY <2>2, <2>4, <2>10, <4>1 DEF TaskOK, Exists
      <4>2. CASE u # t
        <5>1. u \in tasks /\ TaskOK(u) /\ u.exec \in Exec /\ u.name \in Activity
          BY <1>1, <2>1, <3>1, <4>2 DEF IInv, MailInv, TypeOK, Task
        <5>2. ~ (u.exec = e /\ u.name = n)
          BY <2>1, <5>1 DEF TaskOK
        <5>3. row'[u.exec][u.name] = row[u.exec][u.name]
          BY <2>2, <5>1, <5>2
        <5>4. status'[u.exec] # "ABSENT" /\ (Exists(u.exec)' => Exists(u.exec))
          BY <2>1, <2>3, <2>10, <5>1 DEF TaskOK, Active
        <5> QED
          BY <5>1, <5>3, <5>4 DEF TaskOK
      <4> QED
        BY <4>1, <4>2
    <3>2. ASSUME NEW q \in Report, Sent(q)' PROVE ReportOK(q)'
      <4>1. Sent(q) /\ ReportOK(q) /\ q.exec \in Exec /\ q.name \in Activity
        BY <2>6, <3>2, MovesSent DEF IInv, MailInv, Report
      <4>2. ~ (q.exec = e /\ q.name = n)
        BY <2>1, <4>1 DEF ReportOK, Outcome
      <4>3. row'[q.exec][q.name] = row[q.exec][q.name]
        BY <2>2, <4>1, <4>2
      <4>4. status'[q.exec] # "ABSENT" /\ (Exists(q.exec)' => Exists(q.exec))
        BY <2>1, <2>3, <2>10, <4>1 DEF ReportOK, Active
      <4>5. \A u \in tasks' : u \in tasks \/ (u.exec = e /\ u.name = n)
        BY <2>1, <2>4
      <4>6. \A u \in Report : Sent(u)' => Sent(u)
        BY <2>6, MovesSent DEF IInv
      <4> QED
        BY <4>1, <4>2, <4>3, <4>4, <4>5, <4>6 DEF ReportOK
    <3> QED
      BY <3>1, <3>2 DEF MailInv
  <2> QED
    BY <2>1, <2>2, <2>3, <2>6, <2>8, <2>12, <2>13, <2>14, <2>15, TableStep
<1> QED
  BY <1>2, <1>3

\* An execution is finished, when no row is open and the definition has nothing left to do.
LEMMA FinishStep ==
  ASSUME IInv, NEW p \in Consumer, h[p].pc \in {"advance", "rollBack"},
         NEW s \in {"COMPLETED", "COMPENSATED", "FAILED"},
         NEW e \in Exec, e = h[p].report.exec, Finish(p, s),
         \A d \in Definition :
            Exists(e) /\ version[workflow[e]] = born[e] /\ definition[workflow[e]] = d =>
                /\ s = "COMPLETED" => \A i \in DOMAIN d : row[e][d[i].name] = "COMPLETED"
                /\ s = "COMPENSATED" =>
                      \A i \in DOMAIN d : row[e][d[i].name] = "COMPLETED" /\ d[i].comp # NoComp
                                              => d[i].comp \in Attempted(e, d)
  PROVE  IInv'
<1>1. h[p].pc # "idle" /\ TypeOK
  BY DEF IInv
<1>2. CASE Rejected(p)
  BY <1>1, <1>2, RejectedStep
<1>3. ASSUME ~ Rejected(p) PROVE IInv'
  <2>1. /\ Exists(e)
        /\ status' = [status EXCEPT ![e] = s]
        /\ Goto(p, "ack")
        /\ UNCHANGED <<catalogue, workflow, born, row, trail, tasks, reports, start, faults>>
    BY <1>3 DEF Finish, Write
  <2>2. /\ status' \in [Exec -> Status] /\ status'[e] = s
        /\ \A f \in Exec : f # e => status'[f] = status[f]
    BY <1>1, <2>1 DEF TypeOK, Status
  <2>3. "ack" \in Location /\ UNCHANGED <<definition, version>>
    BY <2>1 DEF Location, catalogue
  <2>4. TypeOK' /\ Moves(p) /\ h'[p].pc = "ack" /\ h'[p].report = h[p].report
    BY <1>1, <2>1, <2>2, <2>3, GoesOn DEF TypeOK
  <2>5. h[p].report \in Report /\ Knows(p)
    BY <1>1, Handling
  <2>6. Knows(p)'
    BY <2>4, <2>5 DEF Knows
  <2>7. Clear(e)
    BY <2>1, <2>5 DEF Knows
  <2>8. Exists(e)' /\ \A f \in Exec : f # e => (Exists(f)' <=> Exists(f))
    BY <2>2 DEF Exists
  <2>9. NoOrphan(e) /\ RowsOK(e) /\ AsDefined(e)
    BY DEF IInv, ExecInv
  <2>10. NoOrphan(e)'
    BY <2>1, <2>3, <2>8, <2>9 DEF NoOrphan, Stored
  <2>11. RowsOK(e)'
    BY <2>1, <2>7, <2>9 DEF RowsOK, Clear
  <2>12. AsDefined(e)'
    <3> SUFFICES ASSUME NEW d \in Definition, version[workflow[e]] = born[e], definition[workflow[e]] = d
                 PROVE  Follows(e, d)'
      BY <2>1, <2>3 DEF AsDefined
    <3>1. Follows(e, d)
      BY <2>1, <2>9 DEF AsDefined
    <3>2. /\ s = "COMPLETED" => \A i \in DOMAIN d : row[e][d[i].name] = "COMPLETED"
          /\ s = "COMPENSATED" =>
                \A i \in DOMAIN d : row[e][d[i].name] = "COMPLETED" /\ d[i].comp # NoComp
                                        => d[i].comp \in Attempted(e, d)
      BY <2>1
    <3>3. row' = row /\ Attempted(e, d)' = Attempted(e, d)
      BY <2>1 DEF Attempted
    <3>4. \A n \in Activity : row'[e][n] # "NONE" => Known(d, n)
      BY <3>1, <3>3 DEF Follows
    <3>5. \A i, j \in DOMAIN d : j < i /\ row'[e][d[i].name] # "NONE" => row'[e][d[j].name] = "COMPLETED"
      BY <3>1, <3>3 DEF Follows
    <3>6. status'[e] = "COMPLETED" => \A i \in DOMAIN d : row'[e][d[i].name] = "COMPLETED"
      BY <2>2, <3>2, <3>3
    <3>7. status'[e] = "COMPENSATED" =>
             \A i \in DOMAIN d : row'[e][d[i].name] = "COMPLETED" /\ d[i].comp # NoComp
                                     => d[i].comp \in Attempted(e, d)'
      BY <2>2, <3>2, <3>3
    <3> QED
      BY <3>4, <3>5, <3>6, <3>7 DEF Follows
  <2>13. MailInv'
    <3>1. ASSUME NEW u \in tasks' PROVE TaskOK(u)'
      <4>1. u \in tasks /\ TaskOK(u) /\ u.exec \in Exec
        BY <1>1, <2>1, <3>1 DEF IInv, MailInv, TypeOK, Task
      <4>2. status'[u.exec] # "ABSENT" /\ (Exists(u.exec)' => Exists(u.exec))
        BY <2>1, <2>2, <2>8, <4>1 DEF TaskOK
      <4> QED
        BY <2>1, <4>1, <4>2 DEF TaskOK
    <3>2. ASSUME NEW q \in Report, Sent(q)' PROVE ReportOK(q)'
      <4>1. Sent(q) /\ ReportOK(q) /\ q.exec \in Exec
        BY <2>4, <3>2, MovesSent DEF IInv, MailInv, Report
      <4>2. status'[q.exec] # "ABSENT" /\ (Exists(q.exec)' => Exists(q.exec))
        BY <2>1, <2>2, <2>8, <4>1 DEF ReportOK
      <4>3. \A u \in Report : Sent(u)' => Sent(u)
        BY <2>4, MovesSent DEF IInv
      <4> QED
        BY <2>1, <4>1, <4>2, <4>3 DEF ReportOK
    <3> QED
      BY <3>1, <3>2 DEF MailInv
  <2> QED
    BY <2>1, <2>2, <2>4, <2>6, <2>10, <2>11, <2>12, <2>13, TableStep
<1> QED
  BY <1>2, <1>3

LEMMA PositionOf ==
  ASSUME NEW d \in Definition \cup {<<>>}, NEW n \in Names(d)
  PROVE  Position(d, n) \in DOMAIN d /\ d[Position(d, n)].name = n
BY DEF Names, Position

LEMMA AdvanceStep ==
  ASSUME IInv, NEW p \in Consumer, Advance(p) PROVE IInv'
<1>1. h[p].pc = "advance" /\ TypeOK
  BY DEF Advance, IInv
<1>2. PICK e \in Exec, n \in Activity : e = h[p].report.exec /\ n = h[p].report.name
  BY <1>1, Handling
<1> DEFINE d == h[p].def
           i == Position(d, n)
<1>3. Knows(p) /\ d \in Definition \cup {<<>>} /\ n \in Names(d) /\ h[p].report.ok
  BY <1>1, <1>2, Handling DEF HandlerRecord, Knows
<1>4. i \in DOMAIN d /\ d[i].name = n
  BY <1>3, PositionOf
<1>5. /\ DOMAIN d = 1..Len(d) /\ Len(d) \in Nat
      /\ \A k \in DOMAIN d : d[k].name \in Activity
      /\ \A k, j \in DOMAIN d : d[k].name = d[j].name => k = j
  BY <1>3, Lists
<1>6. \/ i < Len(d) /\ Schedule(p, d[i + 1].name, status[e])
      \/ ~(i < Len(d)) /\ Finish(p, "COMPLETED")
  BY <1>2 DEF Advance
<1>7. Exists(e) => status[e] \in Active /\ row[e][n] = "COMPLETED"
  BY <1>1, <1>2, <1>3 DEF Knows
<1>8. Exists(e) /\ version[workflow[e]] = born[e] => definition[workflow[e]] = d
  BY <1>1, <1>2, <1>3 DEF Knows
<1> HIDE DEF d, i
<1>9. ASSUME NEW c \in Definition, Exists(e), version[workflow[e]] = born[e], definition[workflow[e]] = c
      PROVE  c = d /\ \A j \in DOMAIN d : j < i => row[e][d[j].name] = "COMPLETED"
  <2>1. c = d
    BY <1>8, <1>9
  <2>2. Follows(e, c)
    BY <1>9 DEF IInv, ExecInv, AsDefined
  <2> QED
    BY <1>4, <1>7, <1>9, <2>1, <2>2 DEF Follows
<1>10. CASE i < Len(d) /\ Schedule(p, d[i + 1].name, status[e])
  <2>1. i + 1 \in DOMAIN d /\ d[i + 1].name \in Activity
    BY <1>4, <1>5, <1>10
  <2>2. ASSUME NEW c \in Definition, Exists(e), version[workflow[e]] = born[e], definition[workflow[e]] = c
        PROVE  /\ Known(c, d[i + 1].name)
               /\ \A k, j \in DOMAIN c :
                     c[k].name = d[i + 1].name /\ j < k => row[e][c[j].name] = "COMPLETED"
    <3>1. c = d /\ \A j \in DOMAIN d : j < i => row[e][d[j].name] = "COMPLETED"
      BY <1>9, <2>2
    <3>2. Known(d, d[i + 1].name)
      BY <2>1 DEF Known
    <3>3. ASSUME NEW k \in DOMAIN d, NEW j \in DOMAIN d, d[k].name = d[i + 1].name, j < k
          PROVE  row[e][d[j].name] = "COMPLETED"
      <4>1. k = i + 1
        BY <1>5, <2>1, <3>3
      <4>2. j = i \/ j < i
        BY <1>4, <1>5, <3>3, <4>1
      <4> QED
        BY <1>4, <1>7, <2>2, <3>1, <4>2
    <3> QED
      BY <3>1, <3>2, <3>3
  <2> QED
    BY <1>1, <1>2, <1>7, <1>10, <2>1, <2>2, ScheduleStep
<1>11. CASE ~(i < Len(d)) /\ Finish(p, "COMPLETED")
  <2>1. ASSUME NEW c \in Definition, Exists(e), version[workflow[e]] = born[e], definition[workflow[e]] = c
        PROVE  \A k \in DOMAIN c : row[e][c[k].name] = "COMPLETED"
    <3>1. c = d /\ \A j \in DOMAIN d : j < i => row[e][d[j].name] = "COMPLETED"
      BY <1>9, <2>1
    <3>2. \A k \in DOMAIN d : k < i \/ k = i
      BY <1>4, <1>5, <1>11
    <3> QED
      BY <1>4, <1>7, <2>1, <3>1, <3>2
  <2> QED
    BY <1>1, <1>2, <1>11, <2>1, FinishStep
<1> QED
  BY <1>6, <1>10, <1>11

LEMMA RollBackStep ==
  ASSUME IInv, NEW p \in Consumer, RollBack(p) PROVE IInv'
<1>1. h[p].pc = "rollBack" /\ TypeOK
  BY DEF RollBack, IInv
<1>2. PICK e \in Exec, n \in Activity : e = h[p].report.exec /\ n = h[p].report.name
  BY <1>1, Handling
<1> DEFINE d == h[p].def
           u == Undoable(e, d)
<1>3. Knows(p) /\ d \in Definition \cup {<<>>} /\ h[p].report.ok \in BOOLEAN
  BY <1>1, Handling DEF HandlerRecord
<1>4. /\ \A k \in DOMAIN d : d[k].name \in Activity /\ d[k].comp \in Activity \cup {NoComp}
      /\ \A k, j \in DOMAIN d : d[k].name = d[j].name => k = j
      /\ \A k, j \in DOMAIN d : d[k].comp # d[j].name
  BY <1>3, Lists
<1>5. \/ \E last \in u : Schedule(p, d[Position(d, trail[e][last])].comp, "COMPENSATING")
      \/ h[p].report.ok /\ u = {} /\ Finish(p, "COMPENSATED")
      \/ Finish(p, "FAILED")
  BY <1>2, <1>3 DEF RollBack
<1>6. Exists(e) /\ version[workflow[e]] = born[e] => definition[workflow[e]] = d
  BY <1>1, <1>2, <1>3 DEF Knows
<1>7. ASSUME NEW last \in u, Schedule(p, d[Position(d, trail[e][last])].comp, "COMPENSATING") PROVE IInv'
  <2> DEFINE k == Position(d, trail[e][last])
             c == d[k].comp
  <2>1. trail[e][last] \in Names(d) /\ c \notin Attempted(e, d) \cup {NoComp}
    BY <1>7 DEF Undoable
  <2>2. k \in DOMAIN d
    BY <1>3, <2>1, PositionOf
  <2>3. c \in Activity
    BY <1>4, <2>1, <2>2
  <2>4. Known(d, c) /\ \A i \in DOMAIN d : d[i].name # c
    BY <1>4, <2>2 DEF Known
  <2>5. Schedule(p, c, "COMPENSATING") /\ "COMPENSATING" \in Active
    BY <1>7 DEF Active
  <2> HIDE DEF c, k
  <2>6. ASSUME NEW f \in Definition, Exists(e), version[workflow[e]] = born[e], definition[workflow[e]] = f
        PROVE  /\ Known(f, c)
               /\ \A i, j \in DOMAIN f : f[i].name = c /\ j < i => row[e][f[j].name] = "COMPLETED"
    BY <1>6, <2>4, <2>6
  <2> QED
    BY <1>1, <1>2, <2>3, <2>5, <2>6, ScheduleStep
<1>8. CASE h[p].report.ok /\ u = {} /\ Finish(p, "COMPENSATED")
  <2>1. ASSUME NEW f \in Definition, Exists(e), version[workflow[e]] = born[e], definition[workflow[e]] = f,
               NEW i \in DOMAIN f, row[e][f[i].name] = "COMPLETED", f[i].comp # NoComp
        PROVE  f[i].comp \in Attempted(e, f)
    <3>1. f = d /\ d[i].name \in Activity /\ d[i].name \in Names(d)
      BY <1>4, <1>6, <2>1 DEF Names
    <3>2. PICK k \in DOMAIN trail[e] : trail[e][k] = d[i].name
      BY <2>1, <3>1 DEF IInv, ExecInv, RowsOK
    <3>3. Position(d, d[i].name) = i
      BY <1>3, <1>4, <2>1, <3>1, PositionOf
    <3>4. k \notin u
      BY <1>8
    <3> QED
      BY <2>1, <3>1, <3>2, <3>3, <3>4 DEF Undoable
  <2> QED
    BY <1>1, <1>2, <1>8, <2>1, FinishStep
<1>9. CASE Finish(p, "FAILED")
  BY <1>1, <1>2, <1>9, FinishStep
<1> QED
  BY <1>5, <1>7, <1>8, <1>9

-----------------------------------------------------------------------------
(* Requests, workers and failures.                                         *)

LEMMA FaultStep ==
  ASSUME IInv, NEW p \in Consumer, Fault(p) PROVE IInv'
<1>1. h[p].pc # "idle" /\ Requeue(p) /\ faults' = faults + 1 /\ faults < MaxFaults /\ TypeOK
  BY DEF Fault, IInv
<1>2. faults' \in 0..MaxFaults
  BY <1>1, Bounds DEF TypeOK
<1> QED
  BY <1>1, <1>2, RequeueStep

\* No handler, task or report is touched.
LEMMA OutsideStep ==
  ASSUME IInv, TypeOK', StartInv', \A e \in Exec : Kept(e) \/ Dropped(e),
         UNCHANGED <<tasks, reports, h>>
  PROVE  IInv'
<1>1. \A r \in Report : Sent(r)' => Sent(r)
  BY DEF Sent
<1>2. MailInv'
  BY <1>1, MailKept DEF IInv
<1>3. ExecInv'
  BY ExecKept DEF IInv, ExecInv
<1>4. LockInv'
  BY DEF IInv, HandlerInv, LockInv
<1>5. ASSUME NEW p \in Consumer PROVE Knows(p)'
  <2>1. CASE h[p].pc = "idle"
    BY <2>1 DEF Knows
  <2>2. CASE h[p].pc # "idle"
    BY <2>2, Handling, KnowsKept DEF IInv
  <2> QED
    BY <2>1, <2>2
<1> QED
  BY <1>2, <1>3, <1>4, <1>5 DEF IInv, HandlerInv

LEMMA RequestStep ==
  ASSUME IInv, NEW w \in Workflow, Request(w) PROVE IInv'
<1>1. TypeOK /\ TypeOK' /\ StartInv /\ ExecInv
  BY RequestTypeOK DEF IInv
<1>2. ASSUME NEW e \in Exec
      PROVE  /\ Exists(e) => definition[workflow[e]] \notin {Unused, Gone}
             /\ workflow[e] \in Workflow /\ version[workflow[e]] \in Nat
  BY <1>1, Versions DEF ExecInv, NoOrphan, Stored
<1>3. ASSUME NEW c \in Client
      PROVE  /\ start[c].of \in Workflow /\ start[c].version \in Nat /\ version[start[c].of] \in Nat
             /\ StartOK(c)
  BY <1>1, Bounds DEF TypeOK, StartInv
<1>4. ASSUME NEW d \in Definition, CreateWorkflow(w, d) PROVE IInv'
  <2>1. /\ definition[w] = Unused /\ \A v \in Workflow : v # w => definition'[v] = definition[v]
        /\ UNCHANGED <<version, executions, row, trail, tasks, reports, h, start, faults>>
    BY <1>1, <1>4 DEF CreateWorkflow, TypeOK
  <2>2. \A e \in Exec : Kept(e)
    BY <1>2, <2>1 DEF Kept, executions
  <2>3. StartInv'
    BY <1>3, <2>1 DEF StartInv, StartOK, Stored
  <2> QED
    BY <1>1, <2>1, <2>2, <2>3, OutsideStep
<1>5. ASSUME NEW d \in Definition, UpdateWorkflow(w, d) PROVE IInv'
  <2>1. /\ version'[w] = version[w] + 1 /\ definition'[w] = d /\ version[w] \in Nat
        /\ d \notin {Unused, Gone}
        /\ \A v \in Workflow : v # w => definition'[v] = definition[v] /\ version'[v] = version[v]
        /\ UNCHANGED <<executions, row, trail, tasks, reports, h, start, faults>>
    BY <1>1, <1>5, Bounds, BoundAssumption DEF UpdateWorkflow, TypeOK, BoundAssumption
  <2>2. ASSUME NEW e \in Exec PROVE Kept(e)
    <3>1. CASE workflow[e] = w
      BY <1>2, <2>1, <3>1 DEF Kept, executions
    <3>2. CASE workflow[e] # w
      BY <1>2, <2>1, <3>2 DEF Kept, executions
    <3> QED
      BY <3>1, <3>2
  <2>3. ASSUME NEW c \in Client PROVE StartOK(c)'
    <3>1. CASE start[c].of = w
      BY <1>3, <2>1, <3>1 DEF StartOK, Stored
    <3>2. CASE start[c].of # w
      BY <1>3, <2>1, <3>2 DEF StartOK, Stored
    <3> QED
      BY <3>1, <3>2
  <2> QED
    BY <1>1, <2>1, <2>2, <2>3, OutsideStep DEF StartInv
<1>6. CASE DeleteWorkflow(w)
  <2> DEFINE dropped == {e \in Exec : workflow[e] = w /\ Exists(e)}
  <2>1. /\ definition'[w] = Gone /\ \A v \in Workflow : v # w => definition'[v] = definition[v]
        /\ \A e \in dropped : Dropped(e)
        /\ \A e \in Exec \ dropped : status'[e] = status[e] /\ row'[e] = row[e] /\ trail'[e] = trail[e]
        /\ UNCHANGED <<version, workflow, born, tasks, reports, h, start, faults>>
    BY <1>1, <1>6 DEF DeleteWorkflow, TypeOK, Dropped
  <2>2. ASSUME NEW e \in Exec PROVE Kept(e) \/ Dropped(e)
    <3>1. CASE e \in dropped
      BY <2>1, <3>1
    <3>2. CASE e \notin dropped
      BY <1>2, <2>1, <3>2 DEF Kept
    <3> QED
      BY <3>1, <3>2
  <2>3. StartInv'
    <3>1. Gone # Unused
      BY BoundAssumption DEF BoundAssumption
    <3> QED
      BY <1>3, <2>1, <3>1 DEF StartInv, StartOK, Stored
  <2> QED
    BY <1>1, <2>1, <2>2, <2>3, OutsideStep
<1> QED
  BY <1>4, <1>5, <1>6 DEF Request

LEMMA DeleteExecutionStep ==
  ASSUME IInv, NEW e \in Exec, DeleteExecution(e) PROVE IInv'
<1>1. TypeOK /\ TypeOK' /\ StartInv
  BY DeleteTypeOK DEF IInv
<1>2. ASSUME NEW f \in Exec PROVE Kept(f) \/ Dropped(f)
  <2>1. CASE f = e
    BY <1>1, <2>1 DEF DeleteExecution, Dropped, TypeOK
  <2>2. CASE f # e
    <3>1. NoOrphan(f) /\ version[workflow[f]] \in Nat
      BY Versions DEF IInv, ExecInv
    <3> QED
      BY <1>1, <2>2, <3>1 DEF DeleteExecution, Kept, NoOrphan, Stored, TypeOK, catalogue
  <2> QED
    BY <2>1, <2>2
<1>3. StartInv'
  BY <1>1 DEF DeleteExecution, StartInv, StartOK, Stored, catalogue
<1> QED
  BY <1>1, <1>2, <1>3, OutsideStep DEF DeleteExecution

LEMMA WorkStep ==
  ASSUME IInv, NEW t \in Task, NEW ok \in BOOLEAN, Work(t, ok) PROVE IInv'
<1> DEFINE r == [exec |-> t.exec, name |-> t.name, ok |-> ok]
<1>1. TypeOK /\ TypeOK' /\ MailInv
  BY WorkTypeOK DEF IInv
<1>2. /\ t \in tasks /\ tasks' = tasks \ {t} /\ reports' = reports \cup {r}
      /\ UNCHANGED <<catalogue, executions, row, trail, h, start, faults>>
  BY DEF Work
<1>3. r \in Report /\ r.exec = t.exec /\ r.name = t.name
  BY DEF Report, Task
<1> HIDE DEF r
<1>4. ASSUME NEW e \in Exec PROVE Kept(e)
  <2>1. NoOrphan(e) /\ version[workflow[e]] \in Nat
    BY Versions DEF IInv, ExecInv
  <2> QED
    BY <1>2, <2>1 DEF Kept, NoOrphan, Stored, catalogue, executions
<1>5. \A s \in Report : Sent(s)' => Sent(s) \/ s = r
  BY <1>2 DEF Sent
<1>6. \A e \in Exec : Exists(e)' <=> Exists(e)
  BY <1>2 DEF Exists, executions
<1>7. status' = status /\ row' = row
  BY <1>2 DEF executions
<1>8. ASSUME NEW s \in Report, Sent(s), s.exec = t.exec PROVE s.name # t.name
  BY <1>1, <1>2, <1>8 DEF MailInv, ReportOK
<1>9. MailInv'
  <2>1. ASSUME NEW u \in tasks' PROVE TaskOK(u)'
    BY <1>1, <1>2, <1>6, <1>7, <2>1 DEF MailInv, TaskOK, TypeOK, Task
  <2>2. ASSUME NEW s \in Report, Sent(s)' PROVE ReportOK(s)'
    <3>1. CASE Sent(s) /\ s # r
      <4>1. ReportOK(s) /\ s.exec \in Exec
        BY <1>1, <3>1 DEF MailInv, Report
      <4>2. ~ (r.exec = s.exec /\ r.name = s.name)
        BY <1>3, <1>8, <3>1
      <4> QED
        BY <1>2, <1>3, <1>5, <1>6, <1>7, <4>1, <4>2 DEF ReportOK
    <3>2. CASE s = r
      <4>1. TaskOK(t) /\ t.exec \in Exec
        BY <1>1, <1>2 DEF MailInv, Task
      <4>2. ASSUME NEW u \in tasks, u.exec = t.exec, u.name = t.name PROVE u = t
        <5>1. u \in Task
          BY <1>1 DEF TypeOK
        <5>2. u = [exec |-> u.exec, name |-> u.name] /\ t = [exec |-> t.exec, name |-> t.name]
          BY <5>1 DEF Task
        <5> QED
          BY <4>2, <5>2
      <4>3. \A u \in Report : Sent(u)' /\ u.exec = r.exec /\ u.name = r.name => u = r
        BY <1>3, <1>5, <1>8
      <4>4. status'[r.exec] # "ABSENT" /\ (Exists(t.exec)' => row'[r.exec][r.name] = "PENDING")
        BY <1>3, <1>6, <1>7, <4>1 DEF TaskOK
      <4> QED
        BY <1>2, <1>3, <3>2, <4>2, <4>3, <4>4 DEF ReportOK
    <3> QED
      BY <1>5, <2>2, <3>1, <3>2
  <2> QED
    BY <2>1, <2>2 DEF MailInv
<1>10. ExecInv'
  BY <1>1, <1>4, ExecKept DEF IInv, ExecInv
<1>11. StartInv'
  BY <1>2 DEF IInv, StartInv, StartOK, Stored, catalogue
<1>12. LockInv'
  BY <1>2 DEF IInv, HandlerInv, LockInv
<1>13. ASSUME NEW p \in Consumer PROVE Knows(p)'
  <2>1. CASE h[p].pc = "idle"
    BY <1>2, <2>1 DEF Knows
  <2>2. CASE h[p].pc # "idle"
    BY <1>1, <1>2, <1>4, <2>2, Handling, KnowsKept DEF IInv
  <2> QED
    BY <2>1, <2>2
<1> QED
  BY <1>1, <1>9, <1>10, <1>11, <1>12, <1>13 DEF IInv, HandlerInv
LEMMA CreateStep ==
  ASSUME IInv, NEW c \in Client, CreateExecution(c), TypeOK' PROVE IInv'
<1> DEFINE w == start[c].of
           d == start[c].def
<1>1. TypeOK /\ ExecInv /\ MailInv /\ StartInv
  BY DEF IInv
<1>2. PICK e \in Exec : e = (CHOOSE f \in Unborn : TRUE) /\ status[e] = "ABSENT"
  BY DEF CreateExecution, Unborn
<1>3. w \in Workflow /\ d \in Definition /\ start[c].version \in Nat /\ version[w] \in Nat /\ StartOK(c)
  BY <1>1, Bounds DEF TypeOK, StartInv, StartOK, CreateExecution
<1>4. Stored(w) /\ start[c].version <= version[w]
      /\ (start[c].version = version[w] => d = definition[w])
  BY <1>3 DEF CreateExecution, Insertable, StartOK
<1>5. /\ status' = [status EXCEPT ![e] = IF d = <<>> THEN "COMPLETED" ELSE "RUNNING"]
      /\ workflow' = [workflow EXCEPT ![e] = w]
      /\ born' = [born EXCEPT ![e] = start[c].version]
      /\ IF d = <<>> THEN UNCHANGED <<row, tasks>>
         ELSE /\ row' = [row EXCEPT ![e][d[1].name] = "PENDING"]
              /\ tasks' = tasks \cup {[exec |-> e, name |-> d[1].name]}
      /\ start' = [start EXCEPT ![c] = Silent]
      /\ UNCHANGED <<catalogue, trail, reports, h, faults>>
  BY <1>2 DEF CreateExecution
<1> DEFINE n == d[1].name
<1>6. /\ d # <<>> => 1 \in DOMAIN d /\ n \in Activity
      /\ DOMAIN d = 1..Len(d) /\ Len(d) \in Nat
      /\ \A i, j \in DOMAIN d : d[i].name = d[j].name => i = j
  BY <1>3, Lists
<1>7. ~Exists(e) /\ row[e] = NoRows /\ trail[e] = <<>>
  BY <1>1, <1>2 DEF ExecInv, NoOrphan, Exists
<1> HIDE DEF w, d, n
<1>8. /\ status'[e] = IF d = <<>> THEN "COMPLETED" ELSE "RUNNING"
      /\ workflow'[e] = w /\ born'[e] = start[c].version /\ trail'[e] = <<>>
      /\ UNCHANGED <<definition, version, h, reports>>
      /\ start'[c] = Silent /\ \A b \in Client : b # c => start'[b] = start[b]
  BY <1>1, <1>2, <1>5, <1>7 DEF TypeOK, catalogue
<1>9. \A f \in Exec : f # e => status'[f] = status[f] /\ workflow'[f] = workflow[f] /\ born'[f] = born[f]
                               /\ row'[f] = row[f] /\ trail'[f] = trail[f]
  <2>1. CASE d = <<>>
    BY <1>1, <1>2, <1>5, <2>1 DEF TypeOK
  <2>2. CASE d # <<>>
    BY <1>1, <1>2, <1>5, <2>2 DEF TypeOK
  <2> QED
    BY <2>1, <2>2
<1>10. \A m \in Activity : row'[e][m] = IF d # <<>> /\ m = n THEN "PENDING" ELSE "NONE"
  <2>1. row[e] \in [Activity -> Row] /\ \A m \in Activity : row[e][m] = "NONE"
    BY <1>1, <1>2, <1>7 DEF TypeOK, NoRows
  <2>2. CASE d = <<>>
    BY <1>5, <2>1, <2>2
  <2>3. CASE d # <<>>
    <3>1. row' = [row EXCEPT ![e] = [row[e] EXCEPT ![n] = "PENDING"]]
      BY <1>5, <2>3 DEF n
    <3>2. row'[e] = [row[e] EXCEPT ![n] = "PENDING"]
      BY <1>1, <1>2, <3>1 DEF TypeOK
    <3> QED
      BY <1>6, <2>1, <2>3, <3>2
  <2> QED
    BY <2>2, <2>3
<1>11. ASSUME NEW f \in Exec, f # e PROVE Kept(f)
  <2>1. NoOrphan(f) /\ version[workflow[f]] \in Nat
    BY <1>1, Versions DEF ExecInv
  <2> QED
    BY <1>8, <1>9, <1>11, <2>1 DEF Kept, NoOrphan, Stored
<1>12. NoOrphan(e)'
  <2>1. Exists(e)'
    BY <1>8 DEF Exists
  <2> QED
    BY <1>4, <1>8, <2>1 DEF NoOrphan, Stored
<1>13. RowsOK(e)'
  <2>1. d # <<>> => status'[e] \in Active
    BY <1>8 DEF Active
  <2>2. \A m \in Activity : ~ \E i \in DOMAIN trail'[e] : trail'[e][i] = m
    BY <1>8
  <2>3. \A m \in Activity : row'[e][m] # "COMPLETED"
    BY <1>10
  <2> QED
    BY <1>10, <2>1, <2>2, <2>3 DEF RowsOK
<1>14. AsDefined(e)'
  <2> SUFFICES ASSUME NEW g \in Definition,
                      version'[workflow'[e]] = born'[e], definition'[workflow'[e]] = g
               PROVE  Follows(e, g)'
    BY DEF AsDefined
  <2>1. g = d
    BY <1>4, <1>8
  <2>2. \A m \in Activity : row'[e][m] # "NONE" => Known(g, m)
    BY <1>6, <1>10, <2>1 DEF Known, n
  <2>3. \A i \in DOMAIN g : g[i].name \in Activity
    BY Lists
  <2>4. \A i, j \in DOMAIN g : j < i /\ row'[e][g[i].name] # "NONE" => row'[e][g[j].name] = "COMPLETED"
    <3> SUFFICES ASSUME NEW i \in DOMAIN g, NEW j \in DOMAIN g, j < i, row'[e][g[i].name] # "NONE"
                 PROVE  FALSE
      OBVIOUS
    <3>1. d # <<>> /\ g[i].name = n
      BY <1>10, <2>3
    <3>2. i = 1
      BY <1>6, <2>1, <3>1 DEF n
    <3> QED
      BY <1>6, <2>1, <3>2
  <2>5. status'[e] = "COMPLETED" => DOMAIN g = {}
    BY <1>8, <2>1
  <2>6. status'[e] # "COMPENSATED"
    BY <1>8
  <2> QED
    BY <2>2, <2>4, <2>5, <2>6 DEF Follows
<1>15. ASSUME NEW b \in Client PROVE StartOK(b)'
  <2>1. CASE b = c
    BY <1>8, <2>1 DEF StartOK, Silent
  <2>2. CASE b # c
    BY <1>1, <1>8, <2>2 DEF StartInv, StartOK, Stored
  <2> QED
    BY <2>1, <2>2
<1>16. \A r \in Report : Sent(r)' <=> Sent(r)
  BY <1>8 DEF Sent
<1>17. ASSUME NEW t \in tasks' PROVE TaskOK(t)'
  <2>1. CASE t \in tasks
    <3>1. TaskOK(t) /\ t.exec \in Exec
      BY <1>1, <2>1 DEF MailInv, TypeOK, Task
    <3>2. t.exec # e
      BY <1>2, <3>1 DEF TaskOK
    <3> QED
      BY <1>9, <3>1, <3>2 DEF TaskOK, Exists
  <2>2. CASE t \notin tasks
    <3>1. d # <<>> /\ t.exec = e /\ t.name = n
      BY <1>5, <1>17, <2>2 DEF n
    <3> QED
      BY <1>6, <1>8, <1>10, <3>1 DEF TaskOK
  <2> QED
    BY <2>1, <2>2
<1>18. ASSUME NEW r \in Report, Sent(r)' PROVE ReportOK(r)'
  <2>1. Sent(r) /\ ReportOK(r) /\ r.exec \in Exec
    BY <1>1, <1>16, <1>18 DEF MailInv, Report
  <2>2. r.exec # e
    BY <1>2, <2>1 DEF ReportOK
  <2>3. \A t \in tasks' : t \in tasks \/ t.exec = e
    BY <1>5
  <2> QED
    BY <1>9, <1>16, <2>1, <2>2, <2>3 DEF ReportOK, Exists
<1>19. ASSUME NEW p \in Consumer PROVE Knows(p)'
  <2>1. h'[p] = h[p] /\ Knows(p)
    BY <1>8 DEF IInv, HandlerInv
  <2>2. CASE h[p].pc = "idle"
    BY <2>1, <2>2 DEF Knows
  <2>3. CASE h[p].pc # "idle"
    <3>1. h[p].report \in Report /\ h[p].report.exec \in Exec /\ status[h[p].report.exec] # "ABSENT"
      BY <1>1, <2>1, <2>3 DEF Knows, Report, MailInv, ReportOK, Sent
    <3>2. h[p].report.exec # e
      BY <1>2, <3>1
    <3> QED
      BY <1>1, <1>11, <2>1, <3>1, <3>2, KnowsKept
  <2> QED
    BY <2>2, <2>3
<1>20. LockInv'
  BY <1>8 DEF IInv, HandlerInv, LockInv
<1>21. ASSUME NEW f \in Exec PROVE (NoOrphan(f) /\ RowsOK(f) /\ AsDefined(f))'
  <2>1. CASE f = e
    BY <1>12, <1>13, <1>14, <2>1
  <2>2. CASE f # e
    BY <1>1, <1>11, <2>2, ExecKept
  <2> QED
    BY <2>1, <2>2
<1> QED
  BY <1>15, <1>17, <1>18, <1>19, <1>20, <1>21 DEF IInv, ExecInv, MailInv, StartInv, HandlerInv

LEMMA StartStep ==
  ASSUME IInv, NEW c \in Client, Starting(c) PROVE IInv'
<1>1. TypeOK /\ TypeOK' /\ ExecInv /\ StartInv
  BY StartingTypeOK DEF IInv
<1>2. ASSUME UNCHANGED <<catalogue, executions, row, trail, tasks, reports, h, faults>>, StartOK(c)',
             \A b \in Client : b # c => start'[b] = start[b]
      PROVE  IInv'
  <2>1. ASSUME NEW e \in Exec PROVE Kept(e)
    <3>1. NoOrphan(e) /\ version[workflow[e]] \in Nat
      BY <1>1, Versions DEF ExecInv
    <3> QED
      BY <1>2, <3>1 DEF Kept, NoOrphan, Stored, catalogue, executions
  <2>2. ASSUME NEW b \in Client PROVE StartOK(b)'
    <3>1. CASE b = c
      BY <1>2, <3>1
    <3>2. CASE b # c
      BY <1>1, <1>2, <3>2 DEF StartInv, StartOK, Stored, catalogue
    <3> QED
      BY <3>1, <3>2
  <2> QED
    BY <1>1, <1>2, <2>1, <2>2, OutsideStep DEF StartInv
<1>3. ASSUME NEW w \in Workflow, AskWorkflow(c, w) PROVE IInv'
  <2>1. /\ start'[c] = [pc |-> "create", of |-> w, def |-> definition[w], version |-> version[w]]
        /\ \A b \in Client : b # c => start'[b] = start[b]
        /\ UNCHANGED <<catalogue, executions, row, trail, tasks, reports, h, faults>>
    BY <1>1, <1>3 DEF AskWorkflow, TypeOK
  <2>2. definition[w] \in Definition /\ definition[w] # Unused /\ version[w] \in Nat
    BY <1>1, <1>3, Bounds DEF AskWorkflow, Stored, TypeOK
  <2>3. StartOK(c)'
    BY <2>1, <2>2 DEF StartOK, catalogue
  <2> QED
    BY <1>2, <2>1, <2>3
<1>4. CASE CreateFails(c)
  <2>1. /\ start'[c] = Silent
        /\ \A b \in Client : b # c => start'[b] = start[b]
        /\ UNCHANGED <<catalogue, executions, row, trail, tasks, reports, h, faults>>
    BY <1>1, <1>4 DEF CreateFails, TypeOK
  <2>2. StartOK(c)'
    BY <2>1 DEF StartOK, Silent
  <2> QED
    BY <1>2, <2>1, <2>2
<1> QED
  BY <1>1, <1>3, <1>4, CreateStep DEF Starting

-----------------------------------------------------------------------------
(* Theorems.                                                               *)

LEMMA InitInv == Init => IInv
<1> SUFFICES ASSUME Init PROVE IInv
  OBVIOUS
<1>1. TypeOK
  BY InitTypeOK
<1>2. /\ \A e \in Exec : status[e] = "ABSENT" /\ row[e] = NoRows /\ trail[e] = <<>>
      /\ \A n \in Activity : NoRows[n] = "NONE"
  BY DEF Init, NoRows
<1>3. \A e \in Exec : NoOrphan(e) /\ RowsOK(e) /\ AsDefined(e)
  BY <1>2 DEF NoOrphan, RowsOK, AsDefined, Exists
<1>4. \A p \in Consumer : h[p].pc = "idle"
  BY DEF Init, Idle
<1>5. \A c \in Client : start[c].pc = "idle"
  BY DEF Init, Silent
<1>6. MailInv
  BY <1>4 DEF Init, MailInv, Sent
<1> QED
  BY <1>1, <1>3, <1>4, <1>5, <1>6 DEF IInv, ExecInv, StartInv, StartOK, HandlerInv, LockInv, Knows

LEMMA NextInv == IInv /\ [Next]_vars => IInv'
<1>1. ASSUME IInv, Next PROVE IInv'
  <2>1. ASSUME NEW p \in Consumer, Handle(p) PROVE IInv'
    BY <1>1, <2>1, BeginStep, CompleteActivityStep, ReadWorkflowStep, ReadActivitiesStep,
       DeadLetterStep, AdvanceStep, RollBackStep, AckStep DEF Handle
  <2> QED
    BY <1>1, <2>1, RequestStep, StartStep, DeleteExecutionStep, WorkStep, DeliverStep, FaultStep DEF Next
<1>2. ASSUME IInv, UNCHANGED vars PROVE IInv'
  BY <1>2 DEF vars, IInv, TypeOK, ExecInv, NoOrphan, RowsOK, AsDefined, Follows, Attempted, Exists, Stored,
              MailInv, TaskOK, ReportOK, Sent, StartInv, StartOK, HandlerInv, LockInv, Knows, Clear
<1> QED
  BY <1>1, <1>2

\* The inductive invariant: what tables, mail, start requests and handlers know of each other.
THEOREM Inductive == Spec => []IInv
BY InitInv, NextInv, PTL DEF Spec

\* Types, among them that no more than MaxChanges and MaxFaults happen.
THEOREM TypeCorrect == Spec => []TypeOK
<1>1. IInv => TypeOK
  BY DEF IInv
<1> QED
  BY <1>1, Inductive, PTL

\* No execution outlives its workflow and no activity row its execution, wherever a deletion
\* falls between the transactions of handlers and start requests.
THEOREM NothingIsOrphaned == Spec => []NoOrphans
<1>1. IInv => NoOrphans
  BY DEF IInv, ExecInv, NoOrphan, NoOrphans, NoRows
<1> QED
  BY <1>1, Inductive, PTL

\* An execution has at most one open activity, and none once it is finished, although its
\* definition may be replaced between any two steps of a handler.
THEOREM OneActivityOpen == Spec => []AtMostOneOpen
<1>1. ASSUME IInv, NEW e \in Exec
      PROVE  Cardinality({n \in Activity : row[e][n] = "PENDING"})
                 <= IF status[e] \in {"RUNNING", "COMPENSATING"} THEN 1 ELSE 0
  <2> DEFINE open == {n \in Activity : row[e][n] = "PENDING"}
  <2>1. RowsOK(e)
    BY <1>1 DEF IInv, ExecInv
  <2>2. CASE open = {}
    <3>1. Cardinality(open) = 0
      BY <2>2, FS_EmptySet
    <3> QED
      BY <3>1
  <2>3. CASE open # {}
    <3>1. PICK n \in Activity : row[e][n] = "PENDING"
      BY <2>3
    <3>2. status[e] \in {"RUNNING", "COMPENSATING"} /\ open = {n}
      BY <2>1, <3>1 DEF RowsOK, Active
    <3>3. Cardinality({n}) = 1
      BY FS_Singleton
    <3> QED
      BY <3>2, <3>3
  <2> QED
    BY <2>2, <2>3
<1>2. IInv => AtMostOneOpen
  BY <1>1 DEF AtMostOneOpen
<1> QED
  BY <1>2, Inductive, PTL

\* Until its definition is replaced an execution follows the definition it was started from,
\* which handlers read anew at every step: its order, its end and its compensations.
THEOREM DefinitionIsFollowed == Spec => []RunsAsDefined
<1>1. ASSUME IInv, NEW e \in Exec, Exists(e), version[workflow[e]] = born[e]
      PROVE  LET d == definition[workflow[e]]
                 known == {n \in Activity : row[e][n] # "NONE"} IN
             /\ \A n \in known : Known(d, n)
             /\ \A i \in DOMAIN d : d[i].name \in known =>
                   \A j \in 1..i - 1 : row[e][d[j].name] = "COMPLETED"
             /\ status[e] = "COMPLETED" => \A i \in DOMAIN d : row[e][d[i].name] = "COMPLETED"
             /\ status[e] = "COMPENSATED" =>
                   \A i \in DOMAIN d : row[e][d[i].name] = "COMPLETED" /\ d[i].comp # NoComp
                                           => d[i].comp \in Attempted(e, d)
  <2>1. PICK d \in Definition : d = definition[workflow[e]]
    BY <1>1 DEF IInv, ExecInv, NoOrphan, Stored, TypeOK
  <2>2. Follows(e, d)
    BY <1>1, <2>1 DEF IInv, ExecInv, AsDefined
  <2>3. DOMAIN d = 1..Len(d) /\ Len(d) \in Nat
    BY Lists
  <2>4. ASSUME NEW i \in DOMAIN d, NEW j \in 1..i - 1 PROVE j \in DOMAIN d /\ j < i
    BY <2>3
  <2> QED
    BY <2>1, <2>2, <2>4 DEF Follows
<1>2. IInv => RunsAsDefined
  BY <1>1 DEF RunsAsDefined
<1> QED
  BY <1>2, Inductive, PTL

=============================================================================
