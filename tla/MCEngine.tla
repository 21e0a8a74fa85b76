------------------------------ MODULE MCEngine ------------------------------
(* Instances of Engine for TLC: the workflow definitions the .cfg files choose. *)
EXTENDS Engine, TLC

CONSTANTS c1, c2

\* Two activities, of which the first has a compensation.
CompFirst  == <<c1, NoComp>>
TwoThenOne == <<2, 1>>
OneEach    == <<1, 1>>

Replicas == Permutations(Consumer)
=============================================================================
