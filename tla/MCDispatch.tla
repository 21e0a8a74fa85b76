----------------------------- MODULE MCDispatch -----------------------------
(* An instance of Dispatch for TLC: one activity, symmetric processes. *)
EXTENDS Dispatch, TLC

CONSTANTS t1, pay

OneTask == [t \in Task |-> pay]

Replicas == Permutations(Copy) \cup Permutations(Worker) \cup Permutations(Publisher)
=============================================================================
