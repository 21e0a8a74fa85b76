------------------------------ MODULE Delivery ------------------------------
(***************************************************************************)
(* What the outbox, the broker and the workers promise the engine together *)
(* and what the environment of Engine relies on: a task that was committed *)
(* is carried until it has been answered, nobody waits for the answer, or  *)
(* the broker has dropped a message of it, which nobody is told.           *)
(* It may be answered again and again, and never before it is committed.   *)
(***************************************************************************)
CONSTANT Task

VARIABLES
    open,       \* tasks whose row waits for a report
    closed,     \* tasks whose row has a final status
    carried,    \* tasks on their way to a worker
    answered,   \* tasks a worker has reported
    lost        \* tasks of which the broker has dropped a message

vars == <<open, closed, carried, answered, lost>>

Init == open = {} /\ closed = {} /\ carried = {} /\ answered = {} /\ lost = {}

Commit(t) ==
    /\ t \notin open \cup closed
    /\ open' = open \cup {t}
    /\ carried' = carried \cup {t}
    /\ UNCHANGED <<closed, answered, lost>>

Answer(t) ==
    /\ t \in carried
    /\ answered' = answered \cup {t}
    /\ UNCHANGED <<open, closed, carried, lost>>

\* The engine handles the report, or the reaper gives up waiting for it.
Close(t) ==
    /\ t \in open
    /\ open' = open \ {t}
    /\ closed' = closed \cup {t}
    /\ UNCHANGED <<carried, answered, lost>>

\* The last copies disappear: of one task, or of all that a process had in hand.
Release(gone) ==
    /\ gone \subseteq carried
    /\ gone \subseteq answered \cup closed \cup lost
    /\ carried' = carried \ gone
    /\ UNCHANGED <<open, closed, answered, lost>>

\* A message finds no queue, or the broker restarts without the messages it had.
Lose(dropped) ==
    /\ dropped \subseteq carried \cup answered \cup closed
    /\ lost' = lost \cup dropped
    /\ \E gone \in SUBSET dropped : carried' = carried \ gone
    /\ \E gone \in SUBSET dropped : answered' = answered \ gone
    /\ UNCHANGED <<open, closed>>

Next ==
    \/ \E set \in SUBSET Task : Lose(set) \/ Release(set)
    \/ \E t \in Task : Commit(t) \/ Answer(t) \/ Close(t)

Spec == Init /\ [][Next]_vars
=============================================================================
