---------------------------- MODULE MCCatalogue ----------------------------
(* An instance of Catalogue for TLC: the activity lists that requests may give. *)
EXTENDS Catalogue

CONSTANTS pay, ship, refund

Plain(n)  == [name |-> n, comp |-> NoComp]
Undone(n) == [name |-> n, comp |-> refund]

\* Nothing; an activity that refund compensates, alone and with a second one on either side.
Lists == {<<>>, <<Undone(pay)>>, <<Undone(pay), Plain(ship)>>, <<Plain(ship), Undone(pay)>>}
=============================================================================
