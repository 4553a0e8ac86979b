-------------------------- MODULE ProvisioningStages --------------------------
(***************************************************************************)
(* What member provisioning promises: the stage a reader derives from the   *)
(* durable rows only advances, one stage at a time, the child session of a  *)
(* member is chosen once and is nobody else's, and a member commits only    *)
(* from the bound stage.                                                    *)
(***************************************************************************)
EXTENDS Naturals

CONSTANTS Instances, Children, None

VARIABLES
  stage,   \* the derived stage of every member
  child    \* its durable child session, or None

vars == <<stage, child>>

Init ==
  /\ stage = [i \in Instances |-> "NONE"]
  /\ child = [i \in Instances |-> None]

Allocate(i) ==
  /\ stage[i] = "NONE"
  /\ stage' = [stage EXCEPT ![i] = "ALLOCATED"]
  /\ UNCHANGED child

CreateChild(i) ==
  /\ stage[i] = "ALLOCATED"
  /\ stage' = [stage EXCEPT ![i] = "CHILD_SESSION_CREATED"]
  /\ \E c \in Children :
       /\ \A other \in Instances : child[other] # c
       /\ child' = [child EXCEPT ![i] = c]

Bind(i) ==
  /\ stage[i] = "CHILD_SESSION_CREATED"
  /\ stage' = [stage EXCEPT ![i] = "CHILD_BOUND"]
  /\ UNCHANGED child

Commit(i) ==
  /\ stage[i] = "CHILD_BOUND"
  /\ stage' = [stage EXCEPT ![i] = "INSTANCE_COMMITTED"]
  /\ UNCHANGED child

Next == \E i \in Instances : Allocate(i) \/ CreateChild(i) \/ Bind(i) \/ Commit(i)

Spec == Init /\ [][Next]_vars
===============================================================================
