------------------------------ MODULE MCSmpSleep ------------------------------
(* Instances of SmpSleep for TLC. *)
EXTENDS SmpSleep

=============================================================================
