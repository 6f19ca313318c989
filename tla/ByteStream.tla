----------------------------- MODULE ByteStream -----------------------------
(***************************************************************************)
(* What one direction of a connection promises: the reader gets the bytes  *)
(* of the writer in order, some at a time, and the end of the stream after *)
(* the last of them, once the writer has closed.                           *)
(***************************************************************************)
EXTENDS Integers

CONSTANT Messages   \* how many bytes the writer has

VARIABLES
  given,    \* how many bytes the writer has sent
  writer,   \* "open", or "closing" once close_write() is called
  got,      \* how many bytes the reader has been given
  reader    \* "open", or "eof"

vars == <<given, writer, got, reader>>

Init == given = 0 /\ writer = "open" /\ got = 0 /\ reader = "open"

Send ==
  /\ writer = "open"
  /\ given < Messages
  /\ given' = given + 1
  /\ UNCHANGED <<writer, got, reader>>

Close ==
  /\ writer = "open"
  /\ writer' = "closing"
  /\ UNCHANGED <<given, got, reader>>

Read ==
  /\ reader = "open"
  /\ got' \in (got + 1)..given
  /\ UNCHANGED <<given, writer, reader>>

Eof ==
  /\ reader = "open"
  /\ writer = "closing" /\ got = given
  /\ reader' = "eof"
  /\ UNCHANGED <<given, writer, got>>

Next == Send \/ Close \/ Read \/ Eof

Spec == Init /\ [][Next]_vars
=============================================================================
