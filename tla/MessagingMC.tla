----------------------------- MODULE MessagingMC -----------------------------
(* Small instances of Messaging for TLC. *)
EXTENDS Messaging, TLC

CONSTANTS c1, c2, m1, m2, t1, t2

MCRoutes == {[from |-> Human, to |-> m1], [from |-> m1, to |-> m2]}
===============================================================================
