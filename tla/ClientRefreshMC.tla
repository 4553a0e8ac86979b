--------------------------- MODULE ClientRefreshMC ---------------------------
(* Small instances of ClientRefresh for TLC. *)
EXTENDS ClientRefresh, TLC

CONSTANTS l1, l2, c1
===============================================================================
