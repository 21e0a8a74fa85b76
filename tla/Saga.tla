-------------------------------- MODULE Saga --------------------------------
(***************************************************************************)
(* What the engine promises of one execution, without rows, attempts,      *)
(* messages, locks or handlers: the activities are performed in order, and *)
(* when one of them cannot be, the performed ones are compensated in the   *)
(* reverse order, until all are or one of them cannot be.                  *)
(***************************************************************************)
EXTENDS Integers

CONSTANTS Exec, N, CompName, NoComp, Comp   \* as in Engine

Step == 1..N

VARIABLES
    status,     \* where the execution is
    reached,    \* the last activity performed; all before it have been, too
    undone      \* the compensations performed

vars == <<status, reached, undone>>

Init ==
    /\ status = [e \in Exec |-> "ABSENT"]
    /\ reached = [e \in Exec |-> 0]
    /\ undone = [e \in Exec |-> {}]

Set(e, s) == status' = [status EXCEPT ![e] = s] /\ UNCHANGED <<reached, undone>>

\* The activities that are still to be undone.  A compensation that several activities share
\* undoes them all.
ToUndo(e) == {i \in 1..reached[e] : Comp[i] # NoComp /\ Comp[i] \notin undone[e]}

Start(e) ==
    /\ status[e] = "ABSENT"
    /\ Set(e, IF N = 0 THEN "COMPLETED" ELSE "RUNNING")

Do(e) ==
    /\ status[e] = "RUNNING"
    /\ reached[e] < N
    /\ reached' = [reached EXCEPT ![e] = @ + 1]
    /\ UNCHANGED <<status, undone>>

Complete(e) ==
    /\ status[e] = "RUNNING"
    /\ reached[e] = N
    /\ Set(e, "COMPLETED")

RollBack(e) ==
    /\ status[e] = "RUNNING"
    /\ reached[e] < N
    /\ ToUndo(e) # {}
    /\ Set(e, "COMPENSATING")

\* The last activity that is not undone yet.
Undo(e) ==
    /\ status[e] = "COMPENSATING"
    /\ \E i \in ToUndo(e) :
          /\ \A j \in ToUndo(e) : j <= i
          /\ undone' = [undone EXCEPT ![e] = @ \cup {Comp[i]}]
    /\ UNCHANGED <<status, reached>>

Compensated(e) ==
    /\ status[e] = "COMPENSATING"
    /\ ToUndo(e) = {}
    /\ Set(e, "COMPENSATED")

\* There is nothing to undo, or a compensation cannot be performed.
Fail(e) ==
    /\ \/ status[e] = "RUNNING" /\ reached[e] < N /\ ToUndo(e) = {}
       \/ status[e] = "COMPENSATING" /\ ToUndo(e) # {}
    /\ Set(e, "FAILED")

Next == \E e \in Exec :
    Start(e) \/ Do(e) \/ Complete(e) \/ RollBack(e) \/ Undo(e) \/ Compensated(e) \/ Fail(e)

Spec == Init /\ [][Next]_vars
=============================================================================
