-------------------------- MODULE MemberLifecycleMC --------------------------
(* Small instances of MemberLifecycle for TLC. *)
EXTENDS MemberLifecycle, TLC

CONSTANTS p1, p2, k1, k2
===============================================================================
