----------------------------- MODULE MCRpcServer -----------------------------
(***************************************************************************)
(* Instances of RpcServer for TLC.  A request of size 3 is larger than a   *)
(* limit of 2; two requests of size 2 cannot run together.                 *)
(***************************************************************************)
EXTENDS RpcServer
=============================================================================
