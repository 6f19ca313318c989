------------------------------- MODULE MCTcp -------------------------------
(***************************************************************************)
(* Instances of Tcp for TLC: one direction carries data.  The sequence     *)
(* numbers wrap in the middle of it.                                       *)
(***************************************************************************)
EXTENDS Tcp

CONSTANTS client, server

MCToServer == [e \in Ends |-> IF e = client THEN 3 ELSE 0]
MCToClient == [e \in Ends |-> IF e = client THEN 0 ELSE 1]
MCIsn == [e \in Ends |-> IF e = client THEN 30 ELSE 7]
=============================================================================
