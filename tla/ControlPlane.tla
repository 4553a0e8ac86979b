---------------------------- MODULE ControlPlane ----------------------------
(***************************************************************************)
(* The durable control plane (packages/runtime/control/service.ts) with the *)
(* two invocations that wait for its answers: the recovery dispatch of the  *)
(* action router (inline: the waiter itself commits the effect) and the     *)
(* pre-execution guard of a tool call (guarded: the last-mile guard uses the *)
(* allow). Two promise chains order them: the team chain of the router, and *)
(* the lock of the control service, always taken in that order.             *)
(*                                                                         *)
(* A dispatch asks one request of its own. A tool call asks an approval     *)
(* case, whose first leg the leader or the human may decide or pass up to a *)
(* second leg; a leg above that would be for an administrator nobody is.    *)
(***************************************************************************)
EXTENDS Naturals, FiniteSets

CONSTANTS
  Dispatches,    \* recovery dispatches: each is also the id of its request
  Execs,         \* tool calls; a retry of a call asks the same case
  Cases,
  CaseOf,        \* CaseOf[e]: the approval case of a call
  Leader, Human,
  Others,        \* the other actions of the team, as holders of its chain
  None,
  MaxFaults,     \* bound: writes that ever fail
  MaxCrashes     \* bound: crashes

ASSUME ControlPlaneAssumption ==
  /\ CaseOf \in [Execs -> Cases]
  /\ Leader # Human
  /\ {None, Others} \cap (Dispatches \cup Execs \cup {Leader, Human}) = {}
  /\ Dispatches \cap Execs = {} /\ {Leader, Human} \cap (Dispatches \cup Execs) = {}
  /\ Dispatches \cap (Cases \X {1, 2}) = {}
  /\ {MaxFaults, MaxCrashes} \subseteq Nat

VARIABLES
  \* durable: the rows of the ledger
  requested, decision, decider, escalated, abandoned,
  used,      \* consumption rows of a leg, durable effects of a dispatch
  redriven,  \* dispatches whose activation had a durable operation before them
  target,    \* lifecycle of the member a case is about
  \* volatile
  chain,     \* holder of the team chain of the router
  lock,      \* holder of the lock of the control service across an await
  pc,        \* a dispatch ends at its outcome; a call comes back to idle
  aborted,   \* dispatches whose signal fired
  leg,       \* the leg a call waits for
  review,    \* what the reviewer in the lock is doing
  \* bounds
  faults, crashes

rows   == <<requested, decision, decider, escalated, abandoned, used, redriven>>
holds  == <<chain, lock>>
bounds == <<faults, crashes>>
vars   == <<rows, target, holds, pc, aborted, leg, review, bounds>>

-------------------------------------------------------------------------------
Principals  == {Leader, Human}
Legs        == Cases \X {1, 2}
Requests    == Dispatches \cup Legs
Invocations == Dispatches \cup Execs
Outcomes    == {"committed", "failed", "abandoned", "denied", "refused", "fault", "lost"}

NoReview == [of |-> None, step |-> "none"]

Goto(i, step) == pc' = [pc EXCEPT ![i] = step]

\* The leg of a case that counts: the one with the highest ordinal.
CurrentLeg(c) == IF <<c, 2>> \in requested THEN <<c, 2>> ELSE <<c, 1>>

Fault ==
  /\ faults < MaxFaults
  /\ faults' = faults + 1
  /\ UNCHANGED crashes

\* The wait of d ends with the abandon mark, or with the fault of its write.
Mark(d, step) ==
  \/ /\ abandoned' = abandoned \cup {d}
     /\ Goto(d, step)
     /\ UNCHANGED bounds
  \/ /\ Fault
     /\ Goto(d, "fault")
     /\ UNCHANGED abandoned

Init ==
  /\ requested = {} /\ escalated = {} /\ abandoned = {}
  /\ decision = [r \in Requests |-> "none"]
  /\ decider = [r \in Requests |-> None]
  /\ used = [r \in Requests |-> 0]
  /\ redriven = {}
  /\ target = [c \in Cases |-> "LIVE"]
  /\ chain = None /\ lock = None
  /\ pc = [i \in Invocations |-> "idle"]
  /\ aborted = {}
  /\ leg = [e \in Execs |-> None]
  /\ review = NoReview
  /\ faults = 0 /\ crashes = 0

-------------------------------------------------------------------------------
(* A recovery dispatch: ask and wait *)

Submit(d) ==
  /\ pc[d] = "idle" /\ lock = None
  /\ \/ /\ requested' = requested \cup {d}
        /\ Goto(d, "begin")
        /\ UNCHANGED bounds
     \/ /\ Fault
        /\ Goto(d, "refused")
        /\ UNCHANGED requested
  /\ UNCHANGED <<decision, decider, escalated, abandoned, used, redriven, target, holds,
                 aborted, leg, review>>

\* The signal fires: a waiter leaves the poll for the cascade, a dispatch queued
\* for the team chain is rejected; the others look at the signal when they get to it.
Abort(d) ==
  /\ d \notin aborted /\ pc[d] \notin Outcomes \cup {"idle"}
  /\ aborted' = aborted \cup {d}
  /\ \/ pc[d] = "wait" /\ Goto(d, "cascade")
     \/ pc[d] = "queued" /\ Goto(d, "caught")
     \/ pc[d] \notin {"wait", "queued"} /\ UNCHANGED pc
  /\ UNCHANGED <<rows, target, holds, leg, review, bounds>>

BeginWait(d) ==
  /\ pc[d] = "begin"
  /\ Goto(d, IF d \in aborted THEN "early" ELSE "wait")
  /\ UNCHANGED <<rows, target, holds, aborted, leg, review, bounds>>

\* What a decision makes of the dispatch that waited for it.
Answered(d) == IF decision[d] = "allow" THEN "decided" ELSE "denied"

\* A poll reads the rows outside the lock: the mark comes before the decision.
Poll(d) ==
  /\ pc[d] = "wait"
  /\ \/ d \in abandoned /\ Goto(d, "giveup")
     \/ d \notin abandoned /\ decision[d] # "none" /\ Goto(d, Answered(d))
  /\ UNCHANGED <<rows, target, holds, aborted, leg, review, bounds>>

\* The cascade of an abort: a decision that is already there wins over it, but not
\* for a wait that never began.
Cascade(d) ==
  /\ pc[d] \in {"early", "cascade"} /\ lock = None
  /\ \/ /\ d \in abandoned \/ (pc[d] = "early" /\ decision[d] # "none")
        /\ Goto(d, "giveup")
        /\ UNCHANGED <<abandoned, bounds>>
     \/ /\ d \notin abandoned /\ pc[d] = "cascade" /\ decision[d] # "none"
        /\ Goto(d, Answered(d))
        /\ UNCHANGED <<abandoned, bounds>>
     \/ /\ d \notin abandoned /\ decision[d] = "none"
        /\ Mark(d, "giveup")
  /\ UNCHANGED <<requested, decision, decider, escalated, used, redriven, target, holds,
                 aborted, leg, review>>

\* Mutant: the dispatch reports the close it did not get onto the disk.
GiveUpHopeful(d) ==
  /\ pc[d] = "giveup" /\ lock = None
  /\ Goto(d, "abandoned")
  /\ \/ abandoned' = abandoned \cup {d} /\ UNCHANGED bounds
     \/ Fault /\ UNCHANGED abandoned
  /\ UNCHANGED <<requested, decision, decider, escalated, used, redriven, target, holds,
                 aborted, leg, review>>

\* The dispatch abandons its request; that it is abandoned already is as good.
GiveUp(d) ==
  /\ pc[d] = "giveup" /\ lock = None
  /\ \/ d \in abandoned /\ Goto(d, "abandoned") /\ UNCHANGED <<abandoned, bounds>>
     \/ d \notin abandoned /\ Mark(d, "abandoned")
  /\ UNCHANGED <<requested, decision, decider, escalated, used, redriven, target, holds,
                 aborted, leg, review>>

-------------------------------------------------------------------------------
(* A recovery dispatch: from the allow to the effect *)

\* With the allow in hand it looks at the signal and at the mark once more, and
\* performs the action again.
Reenter(d) ==
  /\ pc[d] = "decided"
  /\ \/ d \in aborted /\ Goto(d, "giveup")
     \/ d \in abandoned \ aborted /\ Goto(d, "abandoned")
     \/ d \notin aborted \cup abandoned /\ Goto(d, "queued")
  /\ UNCHANGED <<rows, target, holds, aborted, leg, review, bounds>>

TakeChain(d) ==
  /\ pc[d] = "queued" /\ chain = None
  /\ chain' = d
  /\ Goto(d, "gate")
  /\ UNCHANGED <<rows, target, lock, aborted, leg, review, bounds>>

OthersTakeChain ==
  /\ chain = None
  /\ chain' = Others
  /\ UNCHANGED <<rows, target, lock, pc, aborted, leg, review, bounds>>

OthersLeaveChain ==
  /\ chain = Others
  /\ chain' = None
  /\ UNCHANGED <<rows, target, lock, pc, aborted, leg, review, bounds>>

\* The gate probes the requirements again, and may refuse.
Gate(d) ==
  /\ pc[d] = "gate"
  /\ \/ Goto(d, "boundary") /\ UNCHANGED chain
     \/ Goto(d, "caught") /\ chain' = None
  /\ UNCHANGED <<rows, target, lock, aborted, leg, review, bounds>>

\* Mutant: the effect does not ask whether the request was abandoned meanwhile.
BoundaryUnchecked(d) ==
  /\ pc[d] = "boundary" /\ lock = None
  /\ \/ /\ d \in aborted \ abandoned
        /\ Mark(d, "abandoned")
        /\ chain' = None
        /\ UNCHANGED lock
     \/ /\ d \notin aborted
        /\ lock' = d
        /\ Goto(d, "preflight")
        /\ UNCHANGED <<abandoned, chain, bounds>>
  /\ UNCHANGED <<requested, decision, decider, escalated, used, redriven, target,
                 aborted, leg, review>>

\* The effect-admission boundary: the mark, then the signal, then the effect, which
\* runs with the lock held. The fault of the mark is final: nothing settles again.
Boundary(d) ==
  /\ pc[d] = "boundary" /\ lock = None
  /\ \/ /\ d \in abandoned
        /\ Goto(d, "abandoned")
        /\ chain' = None
        /\ UNCHANGED <<abandoned, lock, bounds>>
     \/ /\ d \in aborted \ abandoned
        /\ Mark(d, "abandoned")
        /\ chain' = None
        /\ UNCHANGED lock
     \/ /\ d \notin aborted \cup abandoned
        /\ lock' = d
        /\ Goto(d, "preflight")
        /\ UNCHANGED <<abandoned, chain, bounds>>
  /\ UNCHANGED <<requested, decision, decider, escalated, used, redriven, target,
                 aborted, leg, review>>

\* A token with a durable operation of an earlier attempt is rolled forward: nobody looks
\* at the signal, and its first write does not tell the router that the effect has started.
StartRedrive(d) ==
  /\ used' = [used EXCEPT ![d] = @ + 1]
  /\ redriven' = redriven \cup {d}
  /\ Goto(d, "redrive")

\* Mutant: the close of the preflight takes the lock its own caller holds.
PreflightRelocking(d) ==
  /\ pc[d] = "preflight"
  /\ \/ /\ d \in aborted /\ lock = None
        /\ Mark(d, "abandoned")
        /\ UNCHANGED <<used, redriven, holds>>
     \/ /\ d \notin aborted
        /\ Goto(d, "reserve")
        /\ UNCHANGED <<abandoned, used, redriven, holds, bounds>>
  /\ UNCHANGED <<requested, decision, decider, escalated, target, aborted, leg, review>>

\* The preflight of the activation: an abort up to its last check is closed inside
\* the lock, without taking it again; the preflight may also reject.
Preflight(d) ==
  /\ pc[d] = "preflight"
  /\ \/ /\ d \in aborted
        /\ Mark(d, "abandoned")
        /\ chain' = None /\ lock' = None
        /\ UNCHANGED <<used, redriven>>
     \/ /\ Goto(d, "caught")
        /\ chain' = None /\ lock' = None
        /\ UNCHANGED <<abandoned, used, redriven, bounds>>
     \/ /\ d \notin aborted
        /\ Goto(d, "reserve")
        /\ UNCHANGED <<abandoned, used, redriven, holds, bounds>>
     \/ /\ StartRedrive(d)
        /\ UNCHANGED <<abandoned, holds, bounds>>
  /\ UNCHANGED <<requested, decision, decider, escalated, target, aborted, leg, review>>

\* The reservation is the first durable write of the effect, and no abort that comes
\* later undoes it.
Reserve(d) ==
  /\ pc[d] = "reserve"
  /\ \/ /\ used' = [used EXCEPT ![d] = @ + 1]
        /\ Goto(d, "effect")
        /\ UNCHANGED <<holds, bounds>>
     \/ /\ Fault
        /\ Goto(d, "fault")
        /\ chain' = None /\ lock' = None
        /\ UNCHANGED used
  /\ UNCHANGED <<requested, decision, decider, escalated, abandoned, redriven, target,
                 aborted, leg, review>>

\* What the effect ends with gives both chains back.
EndEffect(d, step) ==
  /\ Goto(d, step)
  /\ chain' = None /\ lock' = None
  /\ UNCHANGED <<rows, target, aborted, leg, review, bounds>>

\* The rest of the effect, inside both chains: the child, its binding, the commit and the
\* admission of work. Each may throw; the reservation stands, and nothing is settled.
Perform(d) ==
  /\ pc[d] = "effect"
  /\ \E step \in {"committed", "failed"} : EndEffect(d, step)

\* The rest of a roll-forward and the admission of work. What they throw is taken for a
\* rejection before the effect.
Redrive(d) ==
  /\ pc[d] = "redrive"
  /\ \E step \in {"committed", "caught"} : EndEffect(d, step)

\* A rejection before the effect started: if the signal fired, the close is settled.
Caught(d) ==
  /\ pc[d] = "caught"
  /\ Goto(d, IF d \in aborted THEN "settle" ELSE "refused")
  /\ UNCHANGED <<rows, target, holds, aborted, leg, review, bounds>>

Settle(d) ==
  /\ pc[d] = "settle" /\ lock = None
  /\ \/ d \in abandoned /\ Goto(d, "abandoned") /\ UNCHANGED <<abandoned, bounds>>
     \/ d \notin abandoned /\ Mark(d, "abandoned")
  /\ UNCHANGED <<requested, decision, decider, escalated, used, redriven, target, holds,
                 aborted, leg, review>>

-------------------------------------------------------------------------------
(* A guarded tool call *)

\* The first leg is written once, however often the call is retried; the member a case
\* is about is its caller too, and asks only while it is live.
AskLeg(e) ==
  /\ pc[e] = "idle" /\ lock = None
  /\ target[CaseOf[e]] = "LIVE"
  /\ \/ /\ requested' = requested \cup {<<CaseOf[e], 1>>}
        /\ Goto(e, "asked")
        /\ UNCHANGED bounds
     \/ /\ <<CaseOf[e], 1>> \notin requested
        /\ Fault
        /\ UNCHANGED <<requested, pc>>
  /\ UNCHANGED <<decision, decider, escalated, abandoned, used, redriven, target, holds,
                 aborted, leg, review>>

\* A retry of a case that has risen waits for the leg it rose to.
ReadLeg(e) ==
  /\ pc[e] = "asked"
  /\ leg' = [leg EXCEPT ![e] = CurrentLeg(CaseOf[e])]
  /\ Goto(e, "await")
  /\ UNCHANGED <<rows, target, holds, aborted, review, bounds>>

\* The call is denied, blocked or cancelled; the request stays as it is.
Return(e) ==
  /\ Goto(e, "idle")
  /\ leg' = [leg EXCEPT ![e] = None]

PollLeg(e) ==
  /\ pc[e] = "await"
  /\ \/ /\ leg[e] \in abandoned \/ decision[leg[e]] \in {"deny", "stale-denied"}
        /\ Return(e)
     \/ /\ leg[e] \notin abandoned /\ decision[leg[e]] = "allow"
        /\ Goto(e, "guard")
        /\ UNCHANGED leg
  /\ UNCHANGED <<rows, target, holds, aborted, review, bounds>>

\* The signal of a guarded call ends its wait and marks nothing.
AbortExec(e) ==
  /\ pc[e] = "await"
  /\ Return(e)
  /\ UNCHANGED <<rows, target, holds, aborted, review, bounds>>

\* The authority the call needs by now is above the one that allowed it.
Recheck(e) ==
  /\ pc[e] = "guard"
  /\ Return(e)
  /\ UNCHANGED <<rows, target, holds, aborted, review, bounds>>

\* The leg of the case authorizes one execution, and none of a member out of reach.
Usable(c) ==
  /\ target[c] = "LIVE"
  /\ CurrentLeg(c) \notin abandoned
  /\ decision[CurrentLeg(c)] = "allow"
  /\ used[CurrentLeg(c)] = 0

\* The guard keeps the lock across the external probe and the use of the allow.
Guard(e) ==
  /\ pc[e] = "guard" /\ lock = None
  /\ \/ ~Usable(CaseOf[e]) /\ Return(e) /\ UNCHANGED lock
     \/ /\ Usable(CaseOf[e])
        /\ lock' = e
        /\ Goto(e, "guarding")
        /\ leg' = [leg EXCEPT ![e] = CurrentLeg(CaseOf[e])]
  /\ UNCHANGED <<rows, target, chain, aborted, review, bounds>>

\* The probe refuses, or the allow is used up and the tool may run.
Consume(e) ==
  /\ pc[e] = "guarding"
  /\ \/ used' = [used EXCEPT ![leg[e]] = @ + 1] /\ UNCHANGED bounds
     \/ UNCHANGED <<used, bounds>>
     \/ Fault /\ UNCHANGED used
  /\ Return(e)
  /\ lock' = None
  /\ UNCHANGED <<requested, decision, decider, escalated, abandoned, redriven, target,
                 chain, aborted, review>>

-------------------------------------------------------------------------------
(* The reviewers *)

Roles(r) == IF r \in Dispatches THEN {Human} ELSE Principals

\* Mutant: a reviewer may act on a case again.
ActedNowhere(p, r) == FALSE

\* The reviewer decided or escalated the leg below.
ActedBelow(p, r) == r \in Legs /\ r[2] = 2 /\ decider[<<r[1], 1>>] = p

\* A reviewer may answer: the request is open, and no earlier leg was theirs.
MayAnswer(p, r) ==
  /\ lock = None
  /\ r \in requested \ abandoned
  /\ decision[r] = "none"
  /\ p \in Roles(r)
  /\ ~ActedBelow(p, r)

Decide(p, r, value) ==
  /\ decision' = [decision EXCEPT ![r] = value]
  /\ decider' = [decider EXCEPT ![r] = p]

Stale(r) == r \in Legs /\ target[r[1]] = "DISPOSED"

\* An answer no probe has to be awaited for: a denial, an allow of a dispatch, and the
\* stale denial of a leg whose member is disposed, whatever the reviewer said.
Resolve(p, r) ==
  /\ MayAnswer(p, r)
  /\ \/ Stale(r) /\ Decide(p, r, "stale-denied")
     \/ ~Stale(r) /\ Decide(p, r, "deny")
     \/ r \in Dispatches /\ Decide(p, r, "allow")
  /\ UNCHANGED <<requested, escalated, abandoned, used, redriven, target, holds, pc,
                 aborted, leg, review, bounds>>

\* The allow of a leg awaits the facts of the external policy, in the lock.
StartAllow(p, r) ==
  /\ MayAnswer(p, r)
  /\ r \in Legs /\ ~Stale(r)
  /\ lock' = p
  /\ review' = [of |-> r, step |-> "allow"]
  /\ UNCHANGED <<rows, target, chain, pc, aborted, leg, bounds>>

FinishAllow(p) ==
  /\ lock = p /\ review.step = "allow"
  /\ \/ Decide(p, review.of, "allow") /\ UNCHANGED bounds
     \/ Decide(p, review.of, "deny") /\ UNCHANGED bounds
     \/ Fault /\ UNCHANGED <<decision, decider>>
  /\ lock' = None
  /\ review' = NoReview
  /\ UNCHANGED <<requested, escalated, abandoned, used, redriven, target, chain, pc,
                 aborted, leg>>

\* An escalation is three writes: the denial of the leg, the escalation row, and the
\* leg above it if somebody can decide that one.
Escalate(p, r) ==
  /\ MayAnswer(p, r)
  /\ r \in Legs
  /\ Decide(p, r, "deny")
  /\ lock' = p
  /\ review' = [of |-> r, step |-> "record"]
  /\ UNCHANGED <<requested, escalated, abandoned, used, redriven, target, chain, pc,
                 aborted, leg, bounds>>

RecordEscalation(p) ==
  /\ lock = p /\ review.step = "record"
  /\ \/ /\ escalated' = escalated \cup {review.of}
        /\ IF review.of[2] = 1
             THEN /\ review' = [review EXCEPT !.step = "rise"]
                  /\ UNCHANGED lock
             ELSE review' = NoReview /\ lock' = None
        /\ UNCHANGED bounds
     \/ /\ Fault
        /\ review' = NoReview /\ lock' = None
        /\ UNCHANGED escalated
  /\ UNCHANGED <<requested, decision, decider, abandoned, used, redriven, target, chain,
                 pc, aborted, leg>>

Rise(p) ==
  /\ lock = p /\ review.step = "rise"
  /\ \/ requested' = requested \cup {<<review.of[1], 2>>} /\ UNCHANGED bounds
     \/ Fault /\ UNCHANGED requested
  /\ review' = NoReview /\ lock' = None
  /\ UNCHANGED <<decision, decider, escalated, abandoned, used, redriven, target, chain,
                 pc, aborted, leg>>

\* Mutant: a close that does not look for its request.
AbandonUnasked(r) ==
  /\ lock = None
  /\ r \notin abandoned
  /\ abandoned' = abandoned \cup {r}
  /\ UNCHANGED <<requested, decision, decider, escalated, used, redriven, target, holds,
                 pc, aborted, leg, review, bounds>>

\* The leader and the human may abandon any request, decided or not.
Abandon(r) ==
  /\ lock = None
  /\ r \in requested \ abandoned
  /\ abandoned' = abandoned \cup {r}
  /\ UNCHANGED <<requested, decision, decider, escalated, used, redriven, target, holds,
                 pc, aborted, leg, review, bounds>>

-------------------------------------------------------------------------------
(* The environment *)

\* The lifecycle procedures of the member take another lock.
MoveTarget(c) ==
  /\ \/ /\ target[c] = "LIVE"
        /\ target' = [target EXCEPT ![c] = "ARCHIVED"]
     \/ /\ target[c] = "ARCHIVED"
        /\ \E to \in {"LIVE", "DISPOSED"} : target' = [target EXCEPT ![c] = to]
  /\ UNCHANGED <<rows, holds, pc, aborted, leg, review, bounds>>

Crash ==
  /\ crashes < MaxCrashes
  /\ crashes' = crashes + 1
  /\ chain' = None /\ lock' = None /\ review' = NoReview
  /\ pc' = [i \in Invocations |->
              IF i \in Execs \/ pc[i] = "idle" THEN "idle"
              ELSE IF pc[i] \in Outcomes THEN pc[i] ELSE "lost"]
  /\ leg' = [e \in Execs |-> None]
  /\ UNCHANGED <<rows, target, aborted, faults>>

DispatchStep(d) ==
  \/ BeginWait(d) \/ Poll(d) \/ Cascade(d) \/ GiveUp(d)
  \/ Reenter(d) \/ TakeChain(d) \/ Gate(d) \/ Boundary(d) \/ Preflight(d) \/ Reserve(d)
  \/ Perform(d) \/ Redrive(d)
  \/ Caught(d) \/ Settle(d)

ReviewStep(p) == FinishAllow(p) \/ RecordEscalation(p) \/ Rise(p)

Next ==
  \/ \E d \in Dispatches : Submit(d) \/ Abort(d) \/ DispatchStep(d)
  \/ \E e \in Execs :
       \/ AskLeg(e) \/ ReadLeg(e) \/ PollLeg(e) \/ AbortExec(e)
       \/ Recheck(e) \/ Guard(e) \/ Consume(e)
  \/ \E p \in Principals :
       \/ \E r \in Requests : Resolve(p, r) \/ StartAllow(p, r) \/ Escalate(p, r)
       \/ ReviewStep(p)
  \/ \E r \in Requests : Abandon(r)
  \/ \E c \in Cases : MoveTarget(c)
  \/ OthersTakeChain \/ OthersLeaveChain \/ Crash

Spec == Init /\ [][Next]_vars

\* Both chains are queues in order of arrival: who waits in one gets its turn.
FairSpec ==
  /\ Spec
  /\ \A d \in Dispatches : SF_vars(DispatchStep(d))
  /\ \A e \in Execs : WF_vars(Consume(e))
  /\ \A p \in Principals : WF_vars(ReviewStep(p))
  /\ WF_vars(OthersLeaveChain)

-------------------------------------------------------------------------------
TypeOK ==
  /\ requested \subseteq Requests /\ abandoned \subseteq requested
  /\ escalated \subseteq Legs
  /\ decision \in [Requests -> {"none", "allow", "deny", "stale-denied"}]
  /\ decider \in [Requests -> Principals \cup {None}]
  /\ used \in [Requests -> Nat] /\ redriven \subseteq Dispatches
  /\ target \in [Cases -> {"LIVE", "ARCHIVED", "DISPOSED"}]
  /\ chain \in Dispatches \cup {Others, None}
  /\ lock \in Invocations \cup Principals \cup {None}
  /\ pc \in [Invocations ->
               Outcomes \cup {"idle", "begin", "early", "wait", "cascade", "giveup",
                              "decided", "queued", "gate", "boundary", "preflight",
                              "reserve", "effect", "redrive", "caught", "settle",
                              "asked", "await", "guard", "guarding"}]
  /\ aborted \subseteq Dispatches
  /\ leg \in [Execs -> Legs \cup {None}]
  /\ review \in [of: Legs \cup {None}, step: {"none", "allow", "record", "rise"}]
  /\ faults \in 0..MaxFaults /\ crashes \in 0..MaxCrashes

\* What a dispatch tells its caller is on the disk: "abandoned" only with the mark,
\* "denied" only with a denial, "committed" only with the reservation. A reservation ends
\* as a commit, an error or a crash, and never as a close or a mere refusal, unless it is
\* the re-drive of an older one; and an invocation that was aborted after its request was
\* recorded never leaves that request open as a refusal (router.ts, the closes).
OutcomeIsDurable ==
  \A d \in Dispatches :
    /\ pc[d] = "abandoned" => d \in abandoned
    /\ pc[d] = "denied" => decision[d] = "deny"
    /\ pc[d] \in {"committed", "failed"} => used[d] = 1
    /\ used[d] = 1 /\ d \notin redriven => pc[d] \in {"effect", "committed", "failed", "lost"}
    /\ pc[d] = "refused" => d \notin requested \/ d \notin aborted

\* The settle of an aborted dispatch tells its caller that the request is closed with
\* "zero durable effect" (router.ts, settleAbortedPreCommit).
ZeroEffect == \A d \in Dispatches : pc[d] = "abandoned" => used[d] = 0

\* A case rises only over a leg that was denied by an escalation on record, and nobody
\* answers on two of its legs (service.ts, "old reviewer can no longer act").
CaseClimbs ==
  \A c \in Cases :
    /\ <<c, 2>> \in requested =>
         <<c, 1>> \in escalated /\ decision[<<c, 1>>] = "deny"
    /\ decider[<<c, 2>>] # None => decider[<<c, 1>>] # decider[<<c, 2>>]

Contract == INSTANCE ControlContract WITH
  answer <- [r \in Requests |->
               IF r \notin requested THEN "absent"
               ELSE IF decision[r] = "none" THEN "pending"
               ELSE IF decision[r] = "allow" THEN "allowed" ELSE "denied"],
  closed <- abandoned

\* The control plane and its two waiters keep the contract: in particular no effect
\* runs on a request abandoned between the allow and the effect, and an allow is used
\* at most once whatever is retried, aborted, or lost in a crash.
ImplementsContract == Contract!Spec

\* A dispatch whose request has an answer or a mark, or whose signal fired, returns: no
\* close waits for a lock its own invocation holds.
AnsweredReturns ==
  \A d \in Dispatches :
    (pc[d] \notin Outcomes \cup {"idle"}
       /\ (d \in aborted \cup abandoned \/ decision[d] # "none"))
      ~> pc[d] \in Outcomes
===============================================================================
