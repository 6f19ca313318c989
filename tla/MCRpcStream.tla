---------------------------- MODULE MCRpcStream ----------------------------
(***************************************************************************)
(* Instances of RpcStream for TLC: two messages one way and none back,     *)
(* memory for two frames, a queue of one.                                  *)
(***************************************************************************)
EXTENDS RpcStream

CONSTANTS c, s

MCMessages == [e \in Ends |-> IF e = c THEN 2 ELSE 0]
=============================================================================
