----------------------------- MODULE Provisioning -----------------------------
(***************************************************************************)
(* The provisioning of the members of one team                             *)
(* (packages/storage/provisioning/coordinator.ts): coordinator calls in     *)
(* flight together over the operation journal, the member_instances and    *)
(* session_bindings repositories, the child-session factory behind its     *)
(* durability barrier, and the lifecycle's own updates of member records.  *)
(*                                                                         *)
(* A journal call is one step here, taken while nobody drives the          *)
(* operation: OperationJournal shows what its lock gives.  The repository  *)
(* puts are not locked: a put is checked when it is issued and takes effect *)
(* when it reaches the head of the write chain.                            *)
(***************************************************************************)
EXTENDS Naturals, Sequences, FiniteSets

CONSTANTS
  Instances,      \* member instance ids; a member's operation id is derived from its own
  Drivers,        \* coordinator calls that may be in flight together
  Lifecycle,      \* the lifecycle service, which moves records on
  Tokens,         \* allocation tokens: the identity of a request (idempotency key, intent)
  Children,       \* sessions the factory can create
  None,
  MaxCrashes,     \* bound: crashes ever suffered
  MaxFaults,      \* bound: failures of the factory, its barrier or the medium
  MaxVersion      \* bound: activityVersion of a record

ASSUME ProvisioningAssumption ==
  /\ Lifecycle \notin Drivers
  /\ None \notin Instances \cup Drivers \cup Tokens \cup Children \cup {Lifecycle}
  /\ MaxCrashes \in Nat /\ MaxFaults \in Nat /\ MaxVersion \in Nat \ {0}

VARIABLES
  \* durable
  op,        \* the operation row of every member
  fact,      \* members whose operation has its ledger fact
  member,    \* the MemberInstance record of every member
  binding,   \* the member every session is bound to
  created,   \* the session the factory made for every member
  \* volatile
  lock,      \* the driver inside the journal's drive of every member's operation
  chain,     \* the write chain: writers with a repository put or update issued
  pend,      \* what a writer has issued
  pc, call,  \* where a driver is, and its arguments
  child,     \* the child session a driver has in hand
  result,    \* the members a driver's last call reported committed
  \* bounds
  crashes, faults

durable == <<op, fact, member, binding, created>>
local   == <<pc, call, child, result>>
vars    == <<durable, lock, chain, pend, local, crashes, faults>>

-------------------------------------------------------------------------------
Writers == Drivers \cup {Lifecycle}

NoOp     == [phase |-> "ABSENT", key |-> None, child |-> None]
Op       == [phase: {"PREPARED", "COMMITTED", "FAILED"}, key: Tokens, child: Children \cup {None}]
NoMember == [child |-> None, version |-> 0]
Member   == [child: Children, version: 1 .. MaxVersion]

\* The stage methods in order; provision runs all four, recover is the last alone.
Stages == <<"allocate", "create", "bind", "commit">>
Depth  == 1 .. Len(Stages)

NoCall == [instance |-> None, token |-> None, pass |-> 1, last |-> 1]
Calls  == [instance: Instances, token: Tokens, pass: Depth, last: Depth]

\* allocate, createChildSession, bindChildSession, commitInstance (= recover); provision
Requests == {c \in Calls : c.pass = c.last \/ (c.pass = 1 /\ c.last = 4)}

Puts   == [type: {"member"}, instance: Instances, child: Children]
            \cup [type: {"bind"}, instance: Instances, child: Children]
            \cup [type: {"update"}, instance: Instances, expected: 1 .. MaxVersion]
NoPut  == [type |-> "none"]

I(d) == call[d].instance

\* deriveStatus: the stage is a function of the durable rows.
Bound(i) == op[i].child # None /\ binding[op[i].child] = i
Stage(i) ==
  IF op[i] = NoOp                                 THEN "NONE"
  ELSE IF op[i].phase = "COMMITTED" /\ i \in fact THEN "INSTANCE_COMMITTED"
  ELSE IF op[i].child = None                      THEN "ALLOCATED"
  ELSE IF Bound(i)                                THEN "CHILD_BOUND"
  ELSE "CHILD_SESSION_CREATED"

-------------------------------------------------------------------------------
(* Building blocks *)

\* The call settles; committed tells what it reported.
Leave(d, committed) ==
  /\ pc'     = [pc EXCEPT ![d] = "idle"]
  /\ call'   = [call EXCEPT ![d] = NoCall]
  /\ child'  = [child EXCEPT ![d] = None]
  /\ result' = [result EXCEPT ![d] = IF committed THEN {I(d)} ELSE {}]

Refuse(d) == Leave(d, FALSE) /\ UNCHANGED <<durable, lock, chain, pend>>

Goto(d, stage, c) ==
  /\ pc'    = [pc EXCEPT ![d] = stage]
  /\ child' = [child EXCEPT ![d] = c]
  /\ UNCHANGED <<call, result>>

\* The pass d is running has done its last stage: the next pass starts over at its
\* first one (every stage method ensures the stages before it), or the call returns.
Passed(d) ==
  IF call[d].pass < call[d].last
    THEN /\ pc'    = [pc EXCEPT ![d] = "prepare"]
         /\ call'  = [call EXCEPT ![d].pass = @ + 1]
         /\ child' = [child EXCEPT ![d] = None]
         /\ UNCHANGED result
    ELSE Leave(d, FALSE)

\* Mutants: commitInstance does not ensure the binding; it ensures no stage at all.
OnwardUnbound(d, pass, stage, c) ==
  IF call[d].pass = pass THEN Passed(d) ELSE Goto(d, IF stage = "bind" THEN "drive" ELSE stage, c)
OnwardStraight(d, pass, stage, c) ==
  IF call[d].pass = pass THEN Passed(d) ELSE Goto(d, "drive", c)

\* The stage after d's, when its pass goes further, with child c in hand.
Onward(d, pass, stage, c) == IF call[d].pass = pass THEN Passed(d) ELSE Goto(d, stage, c)

Issue(w, put) ==
  /\ chain' = Append(chain, w)
  /\ pend'  = [pend EXCEPT ![w] = put]

Fault == faults < MaxFaults /\ faults' = faults + 1

-------------------------------------------------------------------------------
(* A coordinator call *)

Submit(d) ==
  /\ pc[d] = "idle"
  /\ \E c \in Requests : call' = [call EXCEPT ![d] = c]
  /\ pc'     = [pc EXCEPT ![d] = "prepare"]
  /\ result' = [result EXCEPT ![d] = {}]
  /\ UNCHANGED <<durable, lock, chain, pend, child, crashes, faults>>

\* journal.prepare: the ALLOCATED reservation, or the row as it is, terminal or not.
Prepare(d) ==
  LET o == op[I(d)] IN
  /\ pc[d] = "prepare"
  /\ lock[I(d)] = None
  /\ \/ /\ o = NoOp
        /\ op' = [op EXCEPT ![I(d)] = [phase |-> "PREPARED", key |-> call[d].token, child |-> None]]
        /\ Onward(d, 1, "create", None)
        /\ UNCHANGED <<fact, member, binding, created, lock, chain, pend, faults>>
     \/ /\ o.key = call[d].token
        /\ Onward(d, 1, "create", None)
        /\ UNCHANGED <<durable, lock, chain, pend, faults>>
     \/ /\ o # NoOp /\ o.key # call[d].token
        /\ Refuse(d)
        /\ UNCHANGED faults
     \/ /\ o = NoOp /\ Fault
        /\ Refuse(d)
  /\ UNCHANGED <<crashes>>

\* Mutant: the test for a recorded child is inverted.
CreateChildSessionInverted(d) ==
  LET known == op[I(d)].child IN
  /\ pc[d] = "create"
  /\ IF known = None THEN Goto(d, "member", known) ELSE Goto(d, "calling", None)
  /\ UNCHANGED <<durable, lock, chain, pend, crashes, faults>>

\* createChildSession: a recorded child means the external effect is done.
CreateChildSession(d) ==
  LET known == op[I(d)].child IN
  /\ pc[d] = "create"
  /\ IF known # None THEN Goto(d, "member", known) ELSE Goto(d, "calling", None)
  /\ UNCHANGED <<durable, lock, chain, pend, crashes, faults>>

\* The factory makes the child of (root, instance), or finds the one it made, and
\* the barrier makes it durable; either may throw.
FactoryAnswers(d) ==
  LET made == created[I(d)] IN
  /\ pc[d] = "calling"
  /\ \/ /\ made # None
        /\ Goto(d, "record", made)
        /\ UNCHANGED <<durable, faults>>
     \/ /\ made = None
        /\ \E c \in Children :
             /\ \A i \in Instances : created[i] # c
             /\ created' = [created EXCEPT ![I(d)] = c]
             /\ \/ Goto(d, "record", c) /\ UNCHANGED faults
                \/ Fault /\ Leave(d, FALSE)
        /\ UNCHANGED <<op, fact, member, binding>>
     \/ /\ Fault /\ Leave(d, FALSE)
        /\ UNCHANGED durable
  /\ UNCHANGED <<lock, chain, pend, crashes>>

\* Mutant: the member record is put without the durable child marker before it.
RecordChildSessionSkipped(d) ==
  /\ pc[d] = "record"
  /\ Goto(d, "member", child[d])
  /\ UNCHANGED <<durable, lock, chain, pend, crashes, faults>>

\* journal.recordChildSession: never on a terminal row, never a second child.
RecordChildSession(d) ==
  LET o == op[I(d)] IN
  /\ pc[d] = "record"
  /\ lock[I(d)] = None
  /\ \/ /\ o.phase = "PREPARED" /\ o.child = None
        /\ op' = [op EXCEPT ![I(d)].child = child[d]]
        /\ Goto(d, "member", child[d])
        /\ UNCHANGED <<fact, member, binding, created, lock, chain, pend, faults>>
     \/ /\ o.phase = "PREPARED" /\ o.child = child[d]
        /\ Goto(d, "member", child[d])
        /\ UNCHANGED <<durable, lock, chain, pend, faults>>
     \/ /\ o.phase # "PREPARED" \/ o.child \notin {None, child[d]}
        /\ Refuse(d)
        /\ UNCHANGED faults
     \/ /\ o.phase = "PREPARED" /\ o.child = None /\ Fault
        /\ Refuse(d)
  /\ UNCHANGED <<crashes>>

\* Mutant: the record is put again on every pass.
EnsureMemberRecordAgain(d) ==
  /\ pc[d] = "member"
  /\ Issue(d, [type |-> "member", instance |-> I(d), child |-> child[d]])
  /\ Goto(d, "writing", child[d])
  /\ UNCHANGED <<durable, lock, crashes, faults>>

\* ensureMemberRecord: check, then put.
EnsureMemberRecord(d) ==
  LET m == member[I(d)] IN
  /\ pc[d] = "member"
  /\ \/ /\ m = NoMember
        /\ Issue(d, [type |-> "member", instance |-> I(d), child |-> child[d]])
        /\ Goto(d, "writing", child[d])
        /\ UNCHANGED <<durable, lock>>
     \/ /\ m.child = child[d]
        /\ Onward(d, 2, "bind", child[d])
        /\ UNCHANGED <<durable, lock, chain, pend>>
     \/ /\ m # NoMember /\ m.child # child[d]
        /\ Refuse(d)
  /\ UNCHANGED <<crashes, faults>>

\* Mutant: a binding that exists is a conflict, even the member's own.
BindChildSessionOnce(d) ==
  LET c == op[I(d)].child IN
  /\ pc[d] = "bind"
  /\ \/ /\ c # None /\ binding[c] = None /\ member[I(d)].child = c
        /\ Issue(d, [type |-> "bind", instance |-> I(d), child |-> c])
        /\ Goto(d, "writing", c)
        /\ UNCHANGED <<durable, lock>>
     \/ /\ c = None \/ binding[c] # None \/ member[I(d)].child # c
        /\ Refuse(d)
  /\ UNCHANGED <<crashes, faults>>

\* bindChildSession: the child of the row, bound to the record that carries it.
BindChildSession(d) ==
  LET c == op[I(d)].child IN
  /\ pc[d] = "bind"
  /\ \/ /\ c # None /\ binding[c] = None /\ member[I(d)].child = c
        /\ Issue(d, [type |-> "bind", instance |-> I(d), child |-> c])
        /\ Goto(d, "writing", c)
        /\ UNCHANGED <<durable, lock>>
     \/ /\ c # None /\ binding[c] = I(d)
        /\ Onward(d, 3, "drive", c)
        /\ UNCHANGED <<durable, lock, chain, pend>>
     \/ /\ c = None \/ binding[c] \notin {None, I(d)}
             \/ (binding[c] = None /\ member[I(d)].child # c)
        /\ Refuse(d)
  /\ UNCHANGED <<crashes, faults>>

\* journal.drive takes the operation's lock and appends the fact, unless it is there ...
Drive(d) ==
  LET i == I(d) IN
  /\ pc[d] = "drive"
  /\ lock[i] = None
  /\ \/ /\ op[i].phase = "PREPARED"
        /\ lock' = [lock EXCEPT ![i] = d]
        /\ fact' = fact \cup {i}
        /\ Goto(d, "commit", child[d])
        /\ UNCHANGED <<op, member, binding, created, chain, pend, faults>>
     \/ /\ op[i].phase # "PREPARED"
        /\ Leave(d, op[i].phase = "COMMITTED" /\ i \in fact)
        /\ UNCHANGED <<durable, lock, chain, pend, faults>>
     \/ /\ op[i].phase = "PREPARED" /\ i \notin fact /\ Fault
        /\ Refuse(d)
  /\ UNCHANGED <<crashes>>

\* ... then writes the COMMITTED row and releases it.
Commit(d) ==
  LET i == I(d) IN
  /\ pc[d] = "commit"
  /\ lock' = [lock EXCEPT ![i] = None]
  /\ \/ /\ op' = [op EXCEPT ![i].phase = "COMMITTED"]
        /\ Leave(d, TRUE)
        /\ UNCHANGED <<fact, member, binding, created, faults>>
     \/ /\ Fault /\ Leave(d, FALSE)
        /\ UNCHANGED durable
  /\ UNCHANGED <<chain, pend, crashes>>

-------------------------------------------------------------------------------
(* The environment *)

\* journal.fail: somebody abandons a PREPARED operation.
Abandon(i) ==
  /\ op[i].phase = "PREPARED"
  /\ lock[i] = None
  /\ op' = [op EXCEPT ![i].phase = "FAILED"]
  /\ UNCHANGED <<fact, member, binding, created, lock, chain, pend, local, crashes, faults>>

\* commitTransition: an update of the record, compared with the version read before.
Transition(i) ==
  /\ member[i] # NoMember /\ member[i].version < MaxVersion
  /\ pend[Lifecycle] = NoPut
  /\ Issue(Lifecycle, [type |-> "update", instance |-> i, expected |-> member[i].version])
  /\ UNCHANGED <<durable, lock, local, crashes, faults>>

\* A put replaces whatever row the key holds by then; an update compares first.
Take(w, put) ==
  LET i == put.instance IN
  \/ /\ put.type = "member"
     /\ member' = [member EXCEPT ![i] = [child |-> put.child, version |-> 1]]
     /\ Onward(w, 2, "bind", put.child)
     /\ UNCHANGED binding
  \/ /\ put.type = "bind"
     /\ binding' = [binding EXCEPT ![put.child] = i]
     /\ Onward(w, 3, "drive", put.child)
     /\ UNCHANGED member
  \/ /\ put.type = "update"
     /\ member' = [member EXCEPT ![i].version = IF @ = put.expected THEN @ + 1 ELSE @]
     /\ UNCHANGED <<local, binding>>

Dequeue(w) ==
  /\ chain # << >> /\ Head(chain) = w
  /\ chain' = Tail(chain)
  /\ pend'  = [pend EXCEPT ![w] = NoPut]

\* The oldest issued write becomes durable.
WriteDurable(w) ==
  /\ Dequeue(w)
  /\ Take(w, pend[w])
  /\ UNCHANGED <<op, fact, created, lock, crashes, faults>>

\* The medium rejects the oldest issued write.
WriteRejected(w) ==
  /\ Dequeue(w)
  /\ Fault
  /\ IF w = Lifecycle THEN UNCHANGED local ELSE Leave(w, FALSE)
  /\ UNCHANGED <<durable, lock, crashes>>

Crash ==
  /\ crashes < MaxCrashes
  /\ crashes' = crashes + 1
  /\ lock'   = [i \in Instances |-> None]
  /\ chain'  = << >>
  /\ pend'   = [w \in Writers |-> NoPut]
  /\ pc'     = [d \in Drivers |-> "idle"]
  /\ call'   = [d \in Drivers |-> NoCall]
  /\ child'  = [d \in Drivers |-> None]
  /\ result' = [d \in Drivers |-> {}]
  /\ UNCHANGED <<durable, faults>>

Rest == /\ \A d \in Drivers : pc[d] = "idle"
        /\ chain = << >>
        /\ UNCHANGED vars

-------------------------------------------------------------------------------
Init ==
  /\ op      = [i \in Instances |-> NoOp]
  /\ fact    = {}
  /\ member  = [i \in Instances |-> NoMember]
  /\ binding = [c \in Children |-> None]
  /\ created = [i \in Instances |-> None]
  /\ lock    = [i \in Instances |-> None]
  /\ chain   = << >>
  /\ pend    = [w \in Writers |-> NoPut]
  /\ pc      = [d \in Drivers |-> "idle"]
  /\ call    = [d \in Drivers |-> NoCall]
  /\ child   = [d \in Drivers |-> None]
  /\ result  = [d \in Drivers |-> {}]
  /\ crashes = 0 /\ faults = 0

Step(d) == \/ Prepare(d) \/ CreateChildSession(d) \/ FactoryAnswers(d) \/ RecordChildSession(d)
           \/ EnsureMemberRecord(d) \/ BindChildSession(d) \/ Drive(d) \/ Commit(d)

Settle(w) == WriteDurable(w) \/ WriteRejected(w)

Next == \/ \E d \in Drivers : Submit(d) \/ Step(d)
        \/ \E w \in Writers : Settle(w)
        \/ \E i \in Instances : Abandon(i) \/ Transition(i)
        \/ Crash
        \/ Rest

Spec == Init /\ [][Next]_vars

\* A caller retries the members whose provisioning is unfinished: the same request
\* again (the same token), as a recovery.
Recover(i) ==
  \E d \in Drivers :
    /\ op[i].phase = "PREPARED"
    /\ Submit(d)
    /\ call'[d].instance = i /\ call'[d].token = op[i].key /\ call'[d].last = 4

\* The event loop runs every ready continuation, the factory and the medium answer,
\* and an unfinished provisioning is retried as often as a driver is free.
Fairness ==
  /\ \A d \in Drivers : WF_vars(Step(d))
  /\ \A w \in Writers : WF_vars(Settle(w))
  /\ \A i \in Instances : SF_vars(Recover(i))

FairSpec == Spec /\ Fairness

-------------------------------------------------------------------------------
(* Properties *)

TypeOK ==
  /\ op      \in [Instances -> Op \cup {NoOp}]
  /\ fact    \subseteq Instances
  /\ member  \in [Instances -> Member \cup {NoMember}]
  /\ binding \in [Children -> Instances \cup {None}]
  /\ created \in [Instances -> Children \cup {None}]
  /\ lock    \in [Instances -> Drivers \cup {None}]
  /\ chain   \in Seq(Writers)
  /\ pend    \in [Writers -> Puts \cup {NoPut}]
  /\ pc      \in [Drivers -> {"idle", "prepare", "create", "calling", "record", "member",
                               "bind", "drive", "commit", "writing"}]
  /\ call    \in [Drivers -> Calls \cup {NoCall}]
  /\ child   \in [Drivers -> Children \cup {None}]
  /\ result  \in [Drivers -> SUBSET Instances]
  /\ crashes \in 0 .. MaxCrashes /\ faults \in 0 .. MaxFaults

\* A committed member is whole: fact, record and binding are durable and agree on its
\* child session, and so is every member a call reported committed.
CommittedIsWhole ==
  \A i \in Instances :
    op[i].phase = "COMMITTED" \/ (\E d \in Drivers : i \in result[d]) =>
      /\ Stage(i) = "INSTANCE_COMMITTED"
      /\ Bound(i)
      /\ member[i].child = op[i].child

\* Racing and crashed drivers agree on one child per member: the row, the record, the
\* binding and the factory never name two sessions, and no session serves two members.
OneChildPerMember ==
  /\ \A i \in Instances : op[i].child \in {None, created[i]}
  /\ \A i \in Instances : member[i].child \in {None, op[i].child}
  /\ \A c \in Children : binding[c] # None => member[binding[c]].child = c

\* A record, once written, is never put again over the lifecycle's updates: neither its
\* child nor its activity version ever goes back.
MemberNeverReset ==
  [][\A i \in Instances : member[i] # NoMember =>
        /\ member'[i].child = member[i].child
        /\ member'[i].version >= member[i].version]_vars

\* The derived stage moves as ProvisioningStages promises, whoever drives.
Derived == INSTANCE ProvisioningStages WITH
  stage <- [i \in Instances |-> Stage(i)],
  child <- [i \in Instances |-> op[i].child]
ImplementsStages == Derived!Spec

\* A provisioning that keeps being retried settles: faults, crashes and rival calls
\* delay it, but nothing it has made durable stands in its way.
RecoveryConverges ==
  \A i \in Instances : op[i].phase = "PREPARED" ~> op[i].phase # "PREPARED"
===============================================================================
