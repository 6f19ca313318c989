------------------------------ MODULE MCMemory ------------------------------
(***************************************************************************)
(* An instance of Memory for TLC.  An object of pool a is a page, one of   *)
(* pool b a page and a half, so that it crosses pages; b prefers spans of  *)
(* three pages, for which the allocator takes four.                        *)
(***************************************************************************)
EXTENDS Memory

CONSTANTS a, b

OneAndOneAndAHalf == a :> 2 @@ b :> 3
OneAndThree == a :> 1 @@ b :> 3
OneAndTwo == a :> 1 @@ b :> 2
ThreeAndTwo == a :> 3 @@ b :> 2
=============================================================================
