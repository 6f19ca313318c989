----------------------------- MODULE MCIoQueue -----------------------------
(***************************************************************************)
(* An instance of IoQueue for TLC: a class with two reads, one of them on  *)
(* a bad descriptor, and a class with one write on a file system without   *)
(* the nowait flag.  The write is so long that its size is 0 as unsigned.  *)
(* Two requests may run at once; with two reads the first limit is         *)
(* reached, with a read and a write it is passed.                          *)
(***************************************************************************)
EXTENDS IoQueue

CONSTANTS r1, r2, r3, a, b

MCClassOf == [r \in Requests |-> IF r = r3 THEN b ELSE a]
MCLengthOf == [r \in Requests |-> IF r = r3 THEN 4 ELSE 1]
=============================================================================
