---------------------------- MODULE ControlPlaneMC ----------------------------
(* Small instances of ControlPlane for TLC. *)
EXTENDS ControlPlane, TLC

CONSTANTS d1, e1, e2, k1

MCCaseOf == [e \in Execs |-> k1]
===============================================================================
