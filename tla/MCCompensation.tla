--------------------------- MODULE MCCompensation ---------------------------
(* Workflows of two and of four activities that end in compensation, for TLC. *)
EXTENDS Compensation

CONSTANTS c1, c2

\* Two compensations to run, one after the other, after a retry.
CompBoth   == <<c1, c2>>
TwoTriesLast == <<1, 2>>

\* The first and the third activity share a compensation, the fourth has nothing to undo.
CompShared  == <<c1, c2, c1, NoComp>>
TwoTriesOne == <<1, 2, 1, 1>>

Replicas == Permutations(Consumer)
=============================================================================
