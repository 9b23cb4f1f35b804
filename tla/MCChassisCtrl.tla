----------------------------- MODULE MCChassisCtrl -----------------------------
(* For TLC. *)
EXTENDS ChassisCtrl
=============================================================================
