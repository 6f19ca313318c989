------------------------------- MODULE SubmitTo -------------------------------
(***************************************************************************)
(* What smp::submit_to() promises (the comment above it in core/reactor.hh *)
(* and the future it returns): every function submitted by one reactor to  *)
(* another begins once, in the order of submission, and its future becomes *)
(* ready once, after the function has ended.  SmpQueue implements it.      *)
(***************************************************************************)
EXTENDS Naturals, Sequences

CONSTANT Items      \* the functions submitted

VARIABLES
  waiting,   \* submitted and not begun, in order
  running,   \* begun on the remote reactor, not ended
  ended,     \* ended, result not back yet
  ready      \* the future the submitter holds is ready

vars == <<waiting, running, ended, ready>>

Init ==
  /\ waiting = <<>>
  /\ running = {}
  /\ ended = {}
  /\ ready = {}

Waiting == {waiting[k] : k \in 1..Len(waiting)}

Submit(i) ==
  /\ i \notin Waiting \cup running \cup ended \cup ready
  /\ waiting' = Append(waiting, i)
  /\ UNCHANGED <<running, ended, ready>>

\* The first n functions begin.
Begin(n) ==
  /\ running' = running \cup {waiting[k] : k \in 1..n}
  /\ waiting' = SubSeq(waiting, n + 1, Len(waiting))
  /\ UNCHANGED <<ended, ready>>

End(i) ==
  /\ i \in running
  /\ running' = running \ {i}
  /\ ended' = ended \cup {i}
  /\ UNCHANGED <<waiting, ready>>

Complete(S) ==
  /\ ended' = ended \ S
  /\ ready' = ready \cup S
  /\ UNCHANGED <<waiting, running>>

Next ==
  \/ \E i \in Items : Submit(i) \/ End(i)
  \/ \E n \in 1..Len(waiting) : Begin(n)
  \/ \E S \in SUBSET ended : Complete(S)

Spec == Init /\ [][Next]_vars
=============================================================================
