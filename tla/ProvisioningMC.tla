---------------------------- MODULE ProvisioningMC ----------------------------
(* A small instance of Provisioning for TLC. *)
EXTENDS Provisioning, TLC

CONSTANTS m1, d1, d2, k1, k2, s1, s2
===============================================================================
