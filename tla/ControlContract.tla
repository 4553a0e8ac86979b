--------------------------- MODULE ControlContract ---------------------------
(***************************************************************************)
(* What the control plane promises of an approval request, whoever asks,    *)
(* answers or gives up: the first answer stands, a request that was closed  *)
(* authorizes nothing any more, and an allow is used at most once.          *)
(***************************************************************************)
EXTENDS Naturals

CONSTANT Requests

VARIABLES
  answer,   \* per request: absent, pending, allowed or denied
  closed,   \* the requests abandoned for good
  used      \* how often the allow of a request was used

vars == <<answer, closed, used>>

Init ==
  /\ answer = [r \in Requests |-> "absent"]
  /\ closed = {}
  /\ used = [r \in Requests |-> 0]

Ask(r) ==
  /\ answer[r] = "absent"
  /\ answer' = [answer EXCEPT ![r] = "pending"]
  /\ UNCHANGED <<closed, used>>

Decide(r) ==
  /\ answer[r] = "pending" /\ r \notin closed
  /\ \E a \in {"allowed", "denied"} : answer' = [answer EXCEPT ![r] = a]
  /\ UNCHANGED <<closed, used>>

Close(r) ==
  /\ answer[r] # "absent" /\ r \notin closed
  /\ closed' = closed \cup {r}
  /\ UNCHANGED <<answer, used>>

Use(r) ==
  /\ answer[r] = "allowed" /\ r \notin closed /\ used[r] = 0
  /\ used' = [used EXCEPT ![r] = 1]
  /\ UNCHANGED <<answer, closed>>

Next == \E r \in Requests : Ask(r) \/ Decide(r) \/ Close(r) \/ Use(r)

Spec == Init /\ [][Next]_vars
===============================================================================
