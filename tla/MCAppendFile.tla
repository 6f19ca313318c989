----------------------------- MODULE MCAppendFile -----------------------------
(* Instances of AppendFile for TLC. *)
EXTENDS AppendFile

Xfs == [sloppy |-> FALSE, exclusive |-> TRUE, concurrency |-> 1]
OldXfs == [sloppy |-> FALSE, exclusive |-> TRUE, concurrency |-> 0]
Ext4 == [sloppy |-> FALSE, exclusive |-> FALSE, concurrency |-> 0]
SloppyXfs == [sloppy |-> TRUE, exclusive |-> TRUE, concurrency |-> 1]
SloppyExt4 == [sloppy |-> TRUE, exclusive |-> FALSE, concurrency |-> 0]

EveryMode == {Xfs, OldXfs, Ext4, SloppyXfs, SloppyExt4}

\* Within the file, at its end, and past a hole; two blocks may be written in part.
SomeExtents == {<<0, 2>>, <<2, 4>>, <<4, 2>>}
\* To an aligned and to an unaligned size.
SomeLengths == {0, 3}
\* A buffer that reaches past the end of the file until a write has moved it.
OneVector == {<<0, <<4>>>>}
=============================================================================
