---------------------------- MODULE StreamChannel ----------------------------
(***************************************************************************)
(* What one direction of an rpc stream promises: the reader gets the       *)
(* messages of the writer in order, and the end of the stream only after   *)
(* the last of them, once the writer has closed.  Either side may be told  *)
(* of a failure instead.                                                   *)
(***************************************************************************)
EXTENDS Integers

CONSTANT Messages   \* how many messages the writer has

VARIABLES
  given,    \* how many messages the writer has given to the sink
  writer,   \* "open", "closing" once close() is called
  got,      \* how many messages the reader has been given
  reader    \* "open", "eof", or "failed"

vars == <<given, writer, got, reader>>

Init == given = 0 /\ writer = "open" /\ got = 0 /\ reader = "open"

Write ==
  /\ writer = "open"
  /\ given < Messages
  /\ given' = given + 1
  /\ UNCHANGED <<writer, got, reader>>

Close ==
  /\ writer = "open"
  /\ writer' = "closing"
  /\ UNCHANGED <<given, got, reader>>

Read ==
  /\ reader = "open"
  /\ got < given
  /\ got' = got + 1
  /\ UNCHANGED <<given, writer, reader>>

Eof ==
  /\ reader = "open"
  /\ writer = "closing"
  /\ got = given
  /\ reader' = "eof"
  /\ UNCHANGED <<given, writer, got>>

Fail ==
  /\ reader = "open"
  /\ reader' = "failed"
  /\ UNCHANGED <<given, writer, got>>

Next == Write \/ Close \/ Read \/ Eof \/ Fail

Spec == Init /\ [][Next]_vars
=============================================================================
