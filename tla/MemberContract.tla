---------------------------- MODULE MemberContract ----------------------------
(***************************************************************************)
(* What a durable member and its work units promise, whatever runs over     *)
(* them: the lifecycle moves along the operations of the lifecycle domain,  *)
(* one activity version a move; a unit is admitted by a fact once, while    *)
(* its member runs; and it is settled by facts only after its admission     *)
(* and while its member is settled, never on one that left the work states. *)
(***************************************************************************)
EXTENDS Naturals

CONSTANT Tokens

VARIABLES
  lifecycle, version,  \* the member row
  admitted,            \* tokens of the units with an admission fact
  settled              \* the number of settlement facts of every unit

vars == <<lifecycle, version, admitted, settled>>

States == {"CREATED", "RUNNING", "SETTLED", "ARCHIVED", "DISPOSED"}

Rules == [
  ADMIT_WORK |-> [sources |-> {"CREATED", "SETTLED"}, target |-> "RUNNING"],
  SETTLE     |-> [sources |-> {"RUNNING"},            target |-> "SETTLED"],
  ARCHIVE    |-> [sources |-> {"SETTLED"},            target |-> "ARCHIVED"],
  RESTORE    |-> [sources |-> {"ARCHIVED"},           target |-> "SETTLED"],
  DISPOSE    |-> [sources |-> States \ {"DISPOSED"},  target |-> "DISPOSED"]]

Init ==
  /\ lifecycle = "CREATED"
  /\ version = 0
  /\ admitted = {}
  /\ settled = [t \in Tokens |-> 0]

Transition(op) ==
  /\ lifecycle \in Rules[op].sources
  /\ lifecycle' = Rules[op].target
  /\ version' = version + 1
  /\ UNCHANGED <<admitted, settled>>

Admit(t) ==
  /\ t \notin admitted
  /\ lifecycle = "RUNNING"
  /\ admitted' = admitted \cup {t}
  /\ UNCHANGED <<lifecycle, version, settled>>

Settle(t) ==
  /\ t \in admitted
  /\ lifecycle = "SETTLED"
  /\ settled' = [settled EXCEPT ![t] = @ + 1]
  /\ UNCHANGED <<lifecycle, version, admitted>>

Next ==
  \/ \E op \in DOMAIN Rules : Transition(op)
  \/ \E t \in Tokens : Admit(t) \/ Settle(t)

Spec == Init /\ [][Next]_vars
===============================================================================
