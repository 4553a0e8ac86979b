------------------------------ MODULE Activation ------------------------------
(***************************************************************************)
(* The activation of members of one team                                   *)
(* (packages/runtime/activation/provider.ts over checks.ts): concurrent     *)
(* activate calls that resolve a delegation and consult the compatibility   *)
(* authority without a lock, queue on the team lock, count the quota,       *)
(* reserve and provision; or re-drive an operation that is already durable. *)
(*                                                                         *)
(* A request token (with its source) determines the operation id and the   *)
(* instance id, so a token names the operation and the member too.  The     *)
(* stages are atomic here: Provisioning has their detail, and              *)
(* ImplementsStages shows that this module uses them as that one promises.  *)
(***************************************************************************)
EXTENDS Naturals, FiniteSets, SequencesExt

CONSTANTS
  Callers,            \* activate calls that may be in flight together
  Tokens,             \* request tokens
  Delegations,        \* those of source leader-delegate
  Templates,          \* member templates of the bound blueprint
  Persistent,         \* those whose contextPolicy is persistent
  TeamInstances, TeamConcurrent,     \* quotas.team
  MemberInstances, MemberConcurrent, \* quotas.members, per template
  None,
  MaxCrashes,         \* bound: crashes ever suffered
  MaxFaults           \* bound: failures of a stage, the binder or an abandon-close

ASSUME ActivationAssumption ==
  /\ IsFiniteSet(Tokens)
  /\ Delegations \subseteq Tokens /\ Persistent \subseteq Templates
  /\ None \notin Tokens \cup Templates
  /\ {TeamInstances, TeamConcurrent, MemberInstances, MemberConcurrent} \subseteq Nat
  /\ MaxCrashes \in Nat /\ MaxFaults \in Nat

VARIABLES
  \* durable
  row,        \* the provisioning operation of every token
  child,      \* tokens whose child session is made and recorded
  life,       \* the lifecycle of every member record
  bound,      \* tokens whose child session is bound to the member
  \* volatile
  lock,       \* the team lock: the calls in it, its holder first
  pc, call,   \* where a call is, and its request
  aborted,    \* calls whose signal has aborted
  reserved,   \* calls that wrote their reservation (history)
  \* bounds
  crashes, faults

durable == <<row, child, life, bound>>
local   == <<lock, pc, call, aborted, reserved>>
vars    == <<durable, local, crashes, faults>>

-------------------------------------------------------------------------------
NoRow  == [phase |-> "ABSENT", template |-> None]
Row    == [phase: {"PREPARED", "COMMITTED"}, template: Templates]
States == {"CREATED", "RUNNING", "SETTLED", "ARCHIVED", "DISPOSED"}

NoCall == [token |-> None, template |-> None, to |-> None]

\* Explicit creations address a template, delegations a template or an instance.
Requests == [token: Tokens, template: Templates, to: {None}]
              \cup [token: Delegations, template: {None}, to: Tokens]

Answers  == {"activated", "continued", "aborted", "quota", "conflict", "refused"}
InFlight == {"consulting", "closing", "queued", "allocate", "redriving", "driving"}

T(c) == call[c].token

\* countTeamQuota counts a member record and an in-flight reservation one each.
Records(ts)   == {t \in ts : life[t] # "NONE"}
Prepared(ts)  == {t \in ts : row[t].phase = "PREPARED"}
Active(ts)    == {t \in ts : life[t] \in {"CREATED", "RUNNING"}}
Of(template)  == {t \in Tokens : row[t].template = template}
Total(ts)     == Cardinality(Records(ts)) + Cardinality(Prepared(ts))
Busy(ts)      == Cardinality(Active(ts)) + Cardinality(Prepared(ts))

\* Mutant: in-flight reservations are not counted.
ExceededCommitted(template) ==
  \/ Cardinality(Records(Tokens)) + 1 > TeamInstances
  \/ Cardinality(Active(Tokens)) + 1 > TeamConcurrent
  \/ Cardinality(Records(Of(template))) + 1 > MemberInstances
  \/ Cardinality(Active(Of(template))) + 1 > MemberConcurrent

\* checkQuota: one more instance of template would exceed a bound.
Exceeded(template) ==
  \/ Total(Tokens) + 1 > TeamInstances
  \/ Busy(Tokens) + 1 > TeamConcurrent
  \/ Total(Of(template)) + 1 > MemberInstances
  \/ Busy(Of(template)) + 1 > MemberConcurrent

\* allocateCheckedInstanceId: a member or an in-flight reservation has the id.
Taken(t) == life[t] # "NONE" \/ row[t].phase = "PREPARED"

\* Members of a template that accept new work.
Accepting(template) ==
  {t \in Of(template) : life[t] \in {"CREATED", "RUNNING", "SETTLED"}}

\* Mutant: an explicit address that names nobody falls through to the creation.
ResolveMissing(r) ==
  IF r.to # None /\ life[r.to] \notin {"NONE", "DISPOSED"} THEN "continue" ELSE "create"

\* resolveDelegationTarget, over the records as they are when the call is made.
Resolve(r) ==
  IF r.to # None THEN IF life[r.to] \in {"NONE", "DISPOSED"} THEN "unresolved" ELSE "continue"
  ELSE IF r.template \notin Persistent \/ Accepting(r.template) = {} THEN "create"
  ELSE IF Cardinality(Accepting(r.template)) = 1 THEN "continue" ELSE "unresolved"

\* The member a delegation that continues has landed on.
Target(r) == IF r.to # None THEN r.to ELSE CHOOSE t \in Accepting(r.template) : TRUE

\* Mutant: only a committed operation counts as existing.
ExistingCommitted(t) == row[t].phase = "COMMITTED"

\* repositories.operations.get: the logical activation is already durable.
Existing(t) == row[t].phase # "ABSENT"

\* requestedTemplateAddress: a request with an instance address names no template.
Mismatch(r) == r.template \notin {None, row[r.token].template}

Fault == faults < MaxFaults /\ faults' = faults + 1

-------------------------------------------------------------------------------
(* Building blocks *)

Holds(c) == lock # << >> /\ Head(lock) = c

Goto(c, place) == pc' = [pc EXCEPT ![c] = place]

\* The call settles; withTeamLock lets the next one in.
Settle(c, answer) ==
  /\ Goto(c, answer)
  /\ lock' = IF Holds(c) THEN Tail(lock) ELSE lock

Join(c, place) ==
  /\ Goto(c, place)
  /\ lock' = Append(lock, c)

\* A reject of a call whose signal has aborted is settled as an abort first.
Reject(c, answer) ==
  IF c \in aborted THEN Goto(c, "closing") /\ UNCHANGED lock ELSE Settle(c, answer)

-------------------------------------------------------------------------------
(* Before the team lock *)

\* activate, up to its first await: an existing operation is re-driven, a delegation
\* resolved, and what is to be created goes on to the compatibility authority.
Activate(c, r) ==
  /\ pc[c] = "idle"
  /\ call' = [call EXCEPT ![c] = r]
  /\ IF Existing(r.token)
       THEN Join(c, "redriving")
       ELSE /\ CASE r.token \notin Delegations \/ Resolve(r) = "create" -> Goto(c, "consulting")
                 [] OTHER -> Goto(c, IF Resolve(r) = "continue" THEN "continued" ELSE "refused")
            /\ UNCHANGED lock
  /\ UNCHANGED <<durable, aborted, reserved, crashes, faults>>

\* The invoker aborts the signal of a call in flight.
Abort(c) ==
  /\ pc[c] \in InFlight /\ c \notin aborted
  /\ aborted' = aborted \cup {c}
  /\ UNCHANGED <<durable, lock, pc, call, reserved, crashes, faults>>

\* Step 6: the authority lets the creation go on, or blocks it.
Consult(c) ==
  /\ pc[c] = "consulting"
  /\ \/ c \notin aborted /\ Join(c, "queued")
     \/ Reject(c, "refused")
  /\ UNCHANGED <<durable, call, aborted, reserved, crashes, faults>>

\* settleAbortBeforeReservation: persist the close, then answer that it was aborted;
\* the fault of a close escapes as it is.
Close(c) ==
  /\ pc[c] = "closing"
  /\ \/ Settle(c, "aborted") /\ UNCHANGED faults
     \/ Settle(c, "refused") /\ Fault
  /\ UNCHANGED <<durable, call, aborted, reserved, crashes>>

-------------------------------------------------------------------------------
(* Under the team lock *)

\* Steps 7 to 11 with their check points: quota and instance id, on fresh views.
Enter(c) ==
  /\ pc[c] = "queued" /\ Holds(c)
  /\ IF c \in aborted \/ Exceeded(call[c].template)
       THEN Reject(c, "quota")
       ELSE IF Taken(T(c)) THEN Reject(c, "conflict")
                           ELSE Goto(c, "allocate") /\ UNCHANGED lock
  /\ UNCHANGED <<durable, call, aborted, reserved, crashes, faults>>

\* Step 12: the durable reservation, which ends the region where an abort undoes.
Allocate(c) ==
  /\ pc[c] = "allocate"
  /\ row' = [row EXCEPT ![T(c)] = [phase |-> "PREPARED", template |-> call[c].template]]
  /\ reserved' = reserved \cup {c}
  /\ Goto(c, "driving")
  /\ UNCHANGED <<child, life, bound, lock, call, aborted, crashes, faults>>

\* reDriveActivation: the admitted template is the only one; nothing is admitted again.
Redrive(c) ==
  /\ pc[c] = "redriving" /\ Holds(c)
  /\ IF Mismatch(call[c]) THEN Settle(c, "refused") ELSE Goto(c, "driving") /\ UNCHANGED lock
  /\ UNCHANGED <<durable, call, aborted, reserved, crashes, faults>>

\* Steps 13 to 15, each skipping what is done: the child session and its marker ...
CreateChild(c) ==
  /\ pc[c] = "driving" /\ T(c) \notin child
  /\ child' = child \cup {T(c)}
  /\ UNCHANGED <<row, life, bound, local, crashes, faults>>

\* ... the member record ...
PutMember(c) ==
  /\ pc[c] = "driving" /\ T(c) \in child /\ life[T(c)] = "NONE"
  /\ life' = [life EXCEPT ![T(c)] = "CREATED"]
  /\ UNCHANGED <<row, child, bound, local, crashes, faults>>

\* ... the binding ...
Bind(c) ==
  /\ pc[c] = "driving" /\ life[T(c)] # "NONE" /\ T(c) \notin bound
  /\ bound' = bound \cup {T(c)}
  /\ UNCHANGED <<row, child, life, local, crashes, faults>>

\* Mutant: the operation commits as soon as the record is there.
CommitUnbound(c) ==
  /\ pc[c] = "driving" /\ life[T(c)] # "NONE" /\ row[T(c)].phase = "PREPARED"
  /\ row' = [row EXCEPT ![T(c)].phase = "COMMITTED"]
  /\ UNCHANGED <<child, life, bound, local, crashes, faults>>

\* ... and the terminal commit.
Commit(c) ==
  /\ pc[c] = "driving" /\ T(c) \in bound /\ row[T(c)].phase = "PREPARED"
  /\ row' = [row EXCEPT ![T(c)].phase = "COMMITTED"]
  /\ UNCHANGED <<child, life, bound, local, crashes, faults>>

\* Mutant: a failed stage settles as an abort when the signal has aborted.
StageFailsClosing(c) ==
  /\ pc[c] \in {"allocate", "driving"}
  /\ Fault
  /\ Reject(c, "refused")
  /\ UNCHANGED <<durable, call, aborted, reserved, crashes>>

\* A stage, the reservation or the binder fails: what is durable stands.
StageFails(c) ==
  /\ pc[c] \in {"allocate", "driving"}
  /\ Fault
  /\ Settle(c, "refused")
  /\ UNCHANGED <<durable, call, aborted, reserved, crashes>>

\* bindPostCommit and the activated result.
Finish(c) ==
  /\ pc[c] = "driving" /\ row[T(c)].phase = "COMMITTED"
  /\ Settle(c, "activated")
  /\ UNCHANGED <<durable, call, aborted, reserved, crashes, faults>>

-------------------------------------------------------------------------------
(* The environment *)

\* The caller has its answer.
Rest(c) ==
  /\ pc[c] \in Answers
  /\ Goto(c, "idle")
  /\ call' = [call EXCEPT ![c] = NoCall]
  /\ aborted' = aborted \ {c} /\ reserved' = reserved \ {c}
  /\ UNCHANGED <<durable, lock, crashes, faults>>

\* LIFECYCLE_OPERATION_RULES.
LifecycleRules ==
  ({"CREATED", "SETTLED"} \X {"RUNNING"}) \cup ({"RUNNING"} \X {"SETTLED"})
    \cup ({"SETTLED"} \X {"ARCHIVED"}) \cup ({"ARCHIVED"} \X {"SETTLED"})
    \cup ((States \ {"DISPOSED"}) \X {"DISPOSED"})

\* The lifecycle moves a member record on, committed or not.
Move(t) ==
  /\ \E state \in States :
       /\ <<life[t], state>> \in LifecycleRules
       /\ life' = [life EXCEPT ![t] = state]
  /\ UNCHANGED <<row, child, bound, local, crashes, faults>>

Crash ==
  /\ crashes < MaxCrashes /\ crashes' = crashes + 1
  /\ lock' = << >>
  /\ pc'   = [c \in Callers |-> "idle"]
  /\ call' = [c \in Callers |-> NoCall]
  /\ aborted' = {} /\ reserved' = {}
  /\ UNCHANGED <<durable, faults>>

-------------------------------------------------------------------------------
Init ==
  /\ row   = [t \in Tokens |-> NoRow]
  /\ child = {}
  /\ life  = [t \in Tokens |-> "NONE"]
  /\ bound = {}
  /\ lock  = << >>
  /\ pc    = [c \in Callers |-> "idle"]
  /\ call  = [c \in Callers |-> NoCall]
  /\ aborted = {} /\ reserved = {}
  /\ crashes = 0 /\ faults = 0

Step(c) ==
  \/ Consult(c) \/ Close(c) \/ Enter(c) \/ Allocate(c) \/ Redrive(c)
  \/ CreateChild(c) \/ PutMember(c) \/ Bind(c) \/ Commit(c) \/ StageFails(c) \/ Finish(c)
  \/ Rest(c)

Next ==
  \/ \E c \in Callers : (\E r \in Requests : Activate(c, r)) \/ Abort(c) \/ Step(c)
  \/ \E t \in Tokens : Move(t)
  \/ Crash

Spec == Init /\ [][Next]_vars

\* A retry of the logical activation of t, as it was admitted.
Retry(c, t) == \E r \in Requests : r.token = t /\ ~Mismatch(r) /\ Activate(c, r)

\* Awaits settle and the lock is handed on; whoever asked for an operation that is
\* left in flight asks again.
FairSpec ==
  /\ Spec
  /\ \A c \in Callers : WF_vars(Step(c))
  /\ \A t \in Tokens : SF_vars(\E c \in Callers : Existing(t) /\ Retry(c, t))

-------------------------------------------------------------------------------
(* Properties *)

\* The variables keep their types: no row or record of an unknown template appears,
\* and the calls in or waiting for the team lock are exactly those that joined it.
TypeOK ==
  /\ row \in [Tokens -> Row \cup {NoRow}]
  /\ child \subseteq Tokens /\ bound \subseteq Tokens
  /\ life \in [Tokens -> States \cup {"NONE"}]
  /\ lock \in Seq(Callers)
  /\ pc \in [Callers -> Answers \cup InFlight \cup {"idle"}]
  /\ call \in [Callers -> Requests \cup {NoCall}]
  /\ aborted \subseteq Callers /\ reserved \subseteq Callers
  /\ crashes \in 0 .. MaxCrashes /\ faults \in 0 .. MaxFaults
  /\ \A c \in Callers :
       /\ pc[c] \in {"queued", "redriving"} => c \in ToSet(lock)
       /\ pc[c] \in {"allocate", "driving"} => Holds(c)

\* The instances that exist or are reserved never outnumber the quotas of the team
\* and of their template, however many activations race, fail or are re-driven
\* (countTeamQuota and checkQuota, counted under the team lock).
WithinQuota ==
  LET Instances(ts) == {t \in ts : row[t] # NoRow \/ life[t] # "NONE"} IN
  /\ Cardinality(Instances(Tokens)) <= TeamInstances
  /\ \A template \in Templates : Cardinality(Instances(Of(template))) <= MemberInstances

\* A call that answers REQUEST_ABORTED, which promises zero provisioning, has not
\* written a reservation (the region that ends at preReservationDone).
AbortedIsClean ==
  \A c \in Callers : pc[c] \in {"closing", "aborted"} => c \notin reserved

\* A call that answers activated names a member whose operation is COMMITTED, whose
\* record and binding are durable, and whose template is the one it asked for
\* (activatedResult, after coordinator.recover or commitInstance).
ActivatedIsAdmitted ==
  \A c \in Callers : pc[c] = "activated" =>
    /\ row[T(c)].phase = "COMMITTED"
    /\ life[T(c)] # "NONE" /\ T(c) \in child \cap bound
    /\ call[c].template \in {None, row[T(c)].template}

\* What an answer says of the disk is so, whichever of the two it is.
AnswersAreTrue == AbortedIsClean /\ ActivatedIsAdmitted

\* The stage of a member, as its durable rows tell it.
StageOf(t) ==
  IF row[t].phase = "ABSENT" THEN "NONE"
  ELSE IF row[t].phase = "COMMITTED" THEN "INSTANCE_COMMITTED"
  ELSE IF t \notin child THEN "ALLOCATED"
  ELSE IF t \notin bound THEN "CHILD_SESSION_CREATED" ELSE "CHILD_BOUND"

Provisioned == INSTANCE ProvisioningStages WITH
  Instances <- Tokens, Children <- Tokens,
  stage <- [t \in Tokens |-> StageOf(t)],
  child <- [t \in Tokens |-> IF t \in child THEN t ELSE None]

\* Activations, re-drives and crashes move a member through the stages that the
\* provisioning coordinator promises, none skipped and none undone.
ImplementsStages == Provisioned!Spec

\* A reserved operation is committed in the end, if whoever asked for it asks again:
\* the admit-once convergence of activate (an existing operation is re-driven, not
\* admitted again, and not shadowed by the quota, the id check or a delegation).
RetryConverges ==
  \A t \in Tokens : row[t].phase = "PREPARED" ~> row[t].phase = "COMMITTED"
===============================================================================
