---------------------------- MODULE Compensation ----------------------------
(***************************************************************************)
(* determineNextCompensation of internal/engine/engine.go, as the loops    *)
(* over the rows in the order ListActivityExecutions returns them, beside  *)
(* the set NextCompensation by which Engine says what the loops find;      *)
(* the delay of a retry; and the saga that the engine implements as long   *)
(* as reports do not contradict each other.                                *)
(***************************************************************************)
EXTENDS Engine, Backoff, SequencesExt

\* ORDER BY completed_at ASC NULLS LAST: rows without a completed_at come last, among
\* themselves in whatever order the database likes (here: one that SetToSeq picks).
ListActivityExecutions(e) ==
    LET rows  == {k \in RowsOf(e) : act[k] # "NONE"}
        timed == rows \cap done
    IN [i \in 1..Cardinality(timed) |-> CHOOSE k \in timed : Cardinality(earlier[k]) = i - 1]
          \o SetToSeq(rows \ done)

CompletedComps(acts) ==
    {k.name : k \in {k \in ToSet(acts) : k.name \notin Step /\ act[k] \in {"COMPLETED", "FAILED"}}}

\* Where the second loop may return: the rows of completedNormal, in the order of acts,
\* whose compensation is not in completedComps.
Hits(acts) ==
    {i \in DOMAIN acts : /\ acts[i].name \in Step
                         /\ act[acts[i]] = "COMPLETED"
                         /\ Comp[acts[i].name] # NoComp
                         /\ Comp[acts[i].name] \notin CompletedComps(acts)}

\* Mutant of DetermineNextCompensation: the loop runs forwards.
DetermineNextCompensationForwards(acts) ==
    IF Hits(acts) = {} THEN NoComp ELSE Comp[acts[Min(Hits(acts))].name]

\* The loop from the last completed row to the first, returning at the first hit.
DetermineNextCompensation(acts) ==
    IF Hits(acts) = {} THEN NoComp ELSE Comp[acts[Max(Hits(acts))].name]

\* The loops return the one compensation that Engine's set holds, and nil exactly when
\* nothing is left to compensate: in every reachable table of rows, re-completed and
\* re-failed rows and shared compensations included.
LoopFindsNextCompensation ==
    \A e \in Exec :
        LET c == DetermineNextCompensation(ListActivityExecutions(e)) IN
        IF Uncompensated(e) = {} THEN c = NoComp ELSE NextCompensation(e) = {c}

\* A retry that Engine sends "later" does wait in a parking queue, with a delay that doubles
\* from attempt to attempt up to 16 seconds, for every attempt number that an int can shift
\* by; the attempt after those is never inserted and the ones beyond would not wait
\* (ReportActivityFailure, InsertOutboxMessage, processOutbox, declareTopology).
RetriesWait ==
    /\ Doubles /\ Overflows
    /\ \A m \in outbox : m.tier = "later" => RouteOf(Backoff(m.key.attempt)) = "parked"

-----------------------------------------------------------------------------
(* The engine implements Saga.                                             *)

\* How far the activities got, and which compensations succeeded.
Reached(e) == Cardinality({i \in Step : Completed(e, i)})
Undone(e)  == {c \in CompName : Completed(e, c)}

Abstract == INSTANCE Saga WITH reached <- [e \in Exec |-> Reached(e)],
                               undone  <- [e \in Exec |-> Undone(e)]

\* Successes and failures reported of a row and not yet settled, the reaper's included.
Reports(k) ==
    {m.res : m \in {m \in results : m.key = k}}
        \cup {h[p].res : p \in {p \in Consumer \cup Reaper : h[p].key = k}}

\* The reports of one row may be many and late, but do not contradict each other.
Agreeing ==
    \A k \in Key :
        /\ "ok" \in Reports(k) => Reports(k) = {"ok"} /\ act[k] # "FAILED"
        /\ Reports(k) \cap {"err", "fatal"} # {} => act[k] # "COMPLETED"

AgreeingSpec == Init /\ [][Next /\ Agreeing']_vars

\* Whatever is delivered twice or late, interrupted by crashes or raced by replicas, an
\* execution performs its activities in order, compensates them in the reverse order, and
\* is COMPLETED, COMPENSATED or FAILED only when that is so (ReportActivitySuccess,
\* ReportActivityFailure and determineNextCompensation together).
IsSaga == Abstract!Spec
=============================================================================
