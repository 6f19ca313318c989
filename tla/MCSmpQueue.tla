------------------------------ MODULE MCSmpQueue ------------------------------
(* Instances of SmpQueue for TLC. *)
EXTENDS SmpQueue

CONSTANTS i1, i2, i3, i4

FourItems == {i1, i2, i3, i4}

\* The first two wait for the fourth, which is stuck behind the queue of two
\* that they may fill; the third waits for nobody.
FirstTwoWaitForFourth == [i \in Items |-> IF i \in {i1, i2} THEN {i4} ELSE {}]
=============================================================================
