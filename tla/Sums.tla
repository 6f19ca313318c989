--------------------------------- MODULE Sums ---------------------------------
(***************************************************************************)
(* Sums of numbers, counted one unit at a time: a sum is the size of a     *)
(* set, so that what is known of finite sets can be used to reason about   *)
(* it.  The semaphores of the code count units of this kind.               *)
(***************************************************************************)
EXTENDS Integers, FiniteSets

\* The units of the members of S, when x has w[x] of them.
UnitsOf(S, w) == UNION {{x} \X (1..w[x]) : x \in S}

\* The sum of w[x] over the members x of S.
Total(S, w) == Cardinality(UnitsOf(S, w))

=============================================================================
