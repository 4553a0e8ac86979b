----------------------------- MODULE ActivationMC -----------------------------
(* Small instances of Activation for TLC. *)
EXTENDS Activation, TLC

CONSTANTS c1, c2, k1, k2, t1, t2

Symmetry == Permutations(Callers)
===============================================================================
