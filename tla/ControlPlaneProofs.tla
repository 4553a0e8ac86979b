-------------------------- MODULE ControlPlaneProofs --------------------------
(***************************************************************************)
(* The theorems about ControlPlane: its safety properties and the           *)
(* refinement of ControlContract, for any number of dispatches, tool calls, *)
(* cases, faults and crashes.                                               *)
(***************************************************************************)
EXTENDS ControlPlane, TLAPS

Effect  == {"preflight", "reserve", "effect", "redrive"}
Granted == {"decided", "queued", "gate", "boundary"} \cup Effect
Waiting == Granted \cup {"begin", "early", "wait", "cascade", "giveup", "caught", "settle"}
Early   == Waiting \ {"effect", "redrive", "caught", "settle"}

\* A dispatch asks once, and every later step has the request on the disk.
Asking ==
  \A d \in Dispatches :
    /\ pc[d] \in {"idle"} \cup Waiting \cup Outcomes
    /\ pc[d] = "idle" => d \notin requested
    /\ pc[d] \in Waiting => d \in requested

\* Only requests are decided, and a decision has its decider.
Deciding ==
  /\ \A r \in Requests :
       /\ decision[r] # "none" => r \in requested
       /\ decision[r] = "none" <=> decider[r] = None
  /\ \A d \in Dispatches : decision[d] # "stale-denied"

\* Who is inside a locked section holds the lock.
Locking ==
  /\ \A d \in Dispatches : pc[d] \in Effect => lock = d
  /\ \A e \in Execs : pc[e] = "guarding" => lock = e

\* A dispatch on its way to the effect has the allow, and in the boundary no mark.
Allowed ==
  \A d \in Dispatches :
    /\ pc[d] \in Granted => decision[d] = "allow"
    /\ pc[d] \in Effect => d \notin abandoned

\* The effect is on the disk from its reservation, or the first write of a re-drive, on.
Spent ==
  \A d \in Dispatches :
    /\ used[d] \in {0, 1}
    /\ pc[d] \in {"effect", "redrive", "committed", "failed"} => used[d] = 1
    /\ used[d] = 1 /\ d \notin redriven => pc[d] \in {"effect", "committed", "failed", "lost"}
    /\ d \in redriven => pc[d] \in {"redrive", "caught", "settle"} \cup Outcomes

\* What the guard saw of the leg before the probe is still so after it.
Guarding ==
  \A e \in Execs :
    pc[e] = "guarding" =>
      /\ leg[e] \in Legs \ abandoned
      /\ decision[leg[e]] = "allow" /\ used[leg[e]] = 0

\* What a reviewer saw of the leg when it took the lock is still so.
Reviewing ==
  review.step # "none" =>
    /\ lock \in Principals
    /\ review.of \in Legs \cap requested
    /\ IF review.step = "allow"
         THEN /\ decision[review.of] = "none" /\ review.of \notin abandoned
              /\ ~ActedBelow(lock, review.of)
         ELSE decision[review.of] = "deny"
    /\ review.step = "rise" => review.of \in escalated /\ review.of[2] = 1

\* The inductive invariant: the properties, with what every actor knows between two
\* of its steps.
IInv ==
  /\ TypeOK /\ Asking /\ Deciding /\ Locking /\ Allowed /\ Spent /\ Guarding /\ Reviewing
  /\ OutcomeIsDurable /\ CaseClimbs

-------------------------------------------------------------------------------
USE ControlPlaneAssumption

\* A leg is a case with an ordinal, and no dispatch.
LEMMA LegFacts ==
  /\ \A r \in Legs : r[1] \in Cases /\ r[2] \in {1, 2} /\ r = <<r[1], r[2]>>
  /\ \A c \in Cases : <<c, 1>> \in Legs /\ <<c, 2>> \in Legs /\ <<c, 1>> # <<c, 2>>
  /\ \A c, k \in Cases : <<c, 2>> # <<k, 1>>
  /\ \A c \in Cases : <<c, 2>>[1] = c /\ <<c, 2>>[2] = 2
  /\ Dispatches \cap Legs = {}
  /\ Legs \subseteq Requests /\ Dispatches \subseteq Requests
BY DEF Legs, Requests

LEMMA InitHolds == Init => IInv
<1> SUFFICES ASSUME Init PROVE IInv
   OBVIOUS
<1>1. TypeOK
   BY DEF Init, TypeOK, NoReview, Invocations, Outcomes
<1>2. Asking /\ Locking /\ Allowed /\ Spent /\ Guarding
   BY DEF Init, Asking, Locking, Allowed, Spent, Guarding, Invocations, Requests, Granted, Effect, Waiting
<1>3. Deciding /\ Reviewing
   BY DEF Init, Deciding, Reviewing, NoReview, Requests
<1>4. OutcomeIsDurable
   BY DEF Init, OutcomeIsDurable, Invocations, Requests
<1>5. CaseClimbs
   BY LegFacts DEF Init, CaseClimbs
<1> QED BY <1>1, <1>2, <1>3, <1>4, <1>5 DEF IInv

\* One step of a dispatch that has asked: it goes on to s, which may close its request,
\* take the lock, or give it back. What it goes on to is what it may know, and fits what it
\* has written.
LEMMA DispatchMoves ==
  ASSUME IInv, NEW d \in Dispatches, NEW s \in Outcomes \cup Waiting,
         pc[d] \in Waiting, Goto(d, s),
         UNCHANGED <<requested, decision, decider, escalated, used, redriven, target, leg,
                     review, crashes>>,
         abandoned' \in {abandoned, abandoned \cup {d}},
         aborted' \in {aborted, aborted \cup {d}},
         chain' \in Dispatches \cup {Others, None}, faults' \in 0..MaxFaults,
         \/ lock' = lock
         \/ lock = None /\ lock' = d
         \/ lock = d /\ lock' = None,
         s \in Granted => decision[d] = "allow",
         s \in Effect => lock' = d /\ d \notin abandoned',
         s = "abandoned" => d \in abandoned',
         s = "denied" => decision[d] = "deny",
         s = "refused" => d \notin aborted',
         pc[d] = "effect" => s \in {"effect", "committed", "failed"},
         s \in {"effect", "redrive", "committed", "failed"} => pc[d] \in {"effect", "redrive"},
         pc[d] \in {"redrive", "caught", "settle"} =>
           s \in {"redrive", "caught", "settle"} \cup Outcomes
  PROVE  IInv'
<1> USE DEF IInv
<1>1. TypeOK'
   BY DEF TypeOK, Goto, Invocations, Asking, Waiting, Granted, Effect
<1>2. Asking' /\ Deciding'
   BY DEF Asking, Deciding, TypeOK, Goto, Invocations, Waiting, Granted, Effect, Outcomes
<1>3. Locking'
   BY DEF Locking, TypeOK, Goto, Invocations, Effect
<1>4. Allowed'
   BY DEF Allowed, TypeOK, Goto, Invocations, Effect, Granted, Waiting
<1>5. Spent'
   BY DEF Spent, TypeOK, Goto, Invocations, Waiting, Granted, Effect, Outcomes
<1>6. Guarding'
   BY LegFacts DEF Guarding, TypeOK, Goto, Invocations
<1>7. Reviewing'
   BY LegFacts, SMTT(30) DEF Reviewing, TypeOK, Principals, ActedBelow
<1>8. OutcomeIsDurable'
   BY <1>5 DEF OutcomeIsDurable, Spent, TypeOK, Goto, Invocations
<1>9. CaseClimbs'
   BY LegFacts DEF CaseClimbs
<1> QED BY <1>1, <1>2, <1>3, <1>4, <1>5, <1>6, <1>7, <1>8, <1>9

\* The same of a dispatch that has written no effect, and writes none.
LEMMA EarlyMoves ==
  ASSUME IInv, NEW d \in Dispatches, NEW s \in Outcomes \cup Waiting,
         pc[d] \in Early, s \notin {"effect", "redrive", "committed", "failed"}, Goto(d, s),
         UNCHANGED <<requested, decision, decider, escalated, used, redriven, target, leg,
                     review, crashes>>,
         abandoned' \in {abandoned, abandoned \cup {d}},
         aborted' \in {aborted, aborted \cup {d}},
         chain' \in Dispatches \cup {Others, None}, faults' \in 0..MaxFaults,
         \/ lock' = lock
         \/ lock = None /\ lock' = d
         \/ lock = d /\ lock' = None,
         s \in Granted => decision[d] = "allow",
         s \in Effect => lock' = d /\ d \notin abandoned',
         s = "abandoned" => d \in abandoned',
         s = "denied" => decision[d] = "deny",
         s = "refused" => d \notin aborted'
  PROVE  IInv'
<1>1. pc[d] \in Waiting /\ pc[d] \notin {"effect", "redrive", "caught", "settle"}
   BY DEF Early, Waiting, Granted, Effect
<1> QED BY <1>1, DispatchMoves

\* Before the allow: a wait begins, polls, cascades or gives up; the signal fires.
LEMMA WaitStep ==
  ASSUME IInv, NEW d \in Dispatches,
         BeginWait(d) \/ Poll(d) \/ Cascade(d) \/ GiveUp(d)
  PROVE  IInv'
<1> USE DEF IInv, TypeOK, Early, Waiting, Granted, Effect, Outcomes, Goto, rows, holds, bounds
<1>1. CASE BeginWait(d)
   BY <1>1, EarlyMoves DEF BeginWait
<1>2. CASE Poll(d)
   <2>1. Answered(d) \in {"decided", "denied"}
      BY DEF Answered
   <2> QED BY <1>2, <2>1, EarlyMoves, LegFacts DEF Poll, Answered, Deciding
<1>3. CASE Cascade(d)
   BY <1>3, EarlyMoves, LegFacts DEF Cascade, Answered, Deciding, Mark, Fault
<1>4. CASE GiveUp(d)
   BY <1>4, EarlyMoves DEF GiveUp, Mark, Fault
<1> QED BY <1>1, <1>2, <1>3, <1>4

LEMMA AbortStep ==
  ASSUME IInv, NEW d \in Dispatches, Abort(d)
  PROVE  IInv'
<1> USE DEF IInv, TypeOK, Early, Waiting, Granted, Effect, Outcomes, Goto, rows, holds, bounds
<1>1. pc[d] \in Waiting /\ aborted' = aborted \cup {d} /\ UNCHANGED <<rows, holds>>
   BY DEF Abort, Asking
<1>2. CASE pc[d] \notin {"wait", "queued"}
   <2> DEFINE s == pc[d]
   <2>1. Goto(d, s) /\ s \in Waiting
      BY <1>1, <1>2 DEF Abort
   <2>2. /\ s \in Granted => decision[d] = "allow"
         /\ s \in Effect => lock' = d /\ d \notin abandoned'
      BY <1>1 DEF Allowed, Locking
   <2>3. /\ UNCHANGED <<target, leg, review, bounds>>
         /\ chain' \in Dispatches \cup {Others, None} /\ faults' \in 0..MaxFaults
      BY DEF Abort
   <2>4. /\ pc[d] = "effect" => s \in {"effect", "committed", "failed"}
         /\ s \in {"effect", "redrive", "committed", "failed"} => pc[d] \in {"effect", "redrive"}
         /\ pc[d] \in {"redrive", "caught", "settle"} => s \in {"redrive", "caught", "settle"}
      BY <1>1
   <2> HIDE DEF s, IInv, TypeOK, Outcomes
   <2> QED BY <1>1, <2>1, <2>2, <2>3, <2>4, DispatchMoves
<1>3. CASE pc[d] \in {"wait", "queued"}
   BY <1>1, <1>3, EarlyMoves DEF Abort
<1> QED BY <1>2, <1>3

\* The reservation uses the allow of its own request, for the first time, and so does the
\* first write of a re-drive.
LEMMA EffectStarts ==
  ASSUME IInv, NEW d \in Dispatches, NEW s \in {"effect", "redrive"},
         pc[d] \in {"preflight", "reserve"}, Goto(d, s), used' = [used EXCEPT ![d] = @ + 1],
         redriven' = IF s = "redrive" THEN redriven \cup {d} ELSE redriven,
         UNCHANGED <<requested, decision, decider, escalated, abandoned, target, holds,
                     aborted, leg, review, bounds>>
  PROVE  IInv' /\ d \in Requests \ abandoned /\ decision[d] = "allow" /\ used[d] = 0
<1> USE DEF IInv, TypeOK, Goto, Invocations, holds, bounds
<1>1. lock = d /\ d \in Requests \ abandoned /\ decision[d] = "allow" /\ used[d] = 0
   BY LegFacts DEF Locking, Allowed, Spent, Granted, Effect, Outcomes
<1>2. TypeOK' /\ Asking'
   BY <1>1, LegFacts DEF Asking, Waiting, Granted, Effect, Outcomes
<1>3. Deciding' /\ Reviewing' /\ CaseClimbs'
   BY <1>1, LegFacts DEF Deciding, Reviewing, CaseClimbs, Principals, ActedBelow
<1>4. Locking' /\ Allowed' /\ Guarding'
   BY <1>1, LegFacts DEF Locking, Allowed, Guarding, Granted, Effect
<1>5. Spent'
   BY <1>1, LegFacts DEF Spent, Outcomes
<1>6. OutcomeIsDurable'
   BY <1>5, LegFacts DEF OutcomeIsDurable, Spent
<1> QED BY <1>1, <1>2, <1>3, <1>4, <1>5, <1>6

\* From the allow to the effect: every await of the admission may end it, and the boundary
\* takes the lock only over a request without a mark.
LEMMA AdmissionStep ==
  ASSUME IInv, NEW d \in Dispatches,
         \/ Reenter(d) \/ TakeChain(d) \/ Gate(d) \/ Boundary(d)
         \/ Perform(d) \/ Redrive(d) \/ Caught(d) \/ Settle(d)
  PROVE  IInv'
<1> USE DEF IInv, TypeOK, Early, Waiting, Granted, Effect, Outcomes, Goto, rows, holds, bounds
<1>1. CASE Reenter(d)
   BY <1>1, EarlyMoves DEF Reenter, Allowed
<1>2. CASE TakeChain(d)
   BY <1>2, EarlyMoves DEF TakeChain, Allowed
<1>3. CASE Gate(d)
   BY <1>3, EarlyMoves DEF Gate, Allowed
<1>4. CASE Boundary(d)
   BY <1>4, EarlyMoves DEF Boundary, Mark, Fault, Allowed
<1>5. CASE Caught(d)
   BY <1>5, DispatchMoves DEF Caught
<1>6. CASE Settle(d)
   BY <1>6, DispatchMoves DEF Settle, Mark, Fault
<1>7. CASE Perform(d) \/ Redrive(d)
   <2>1. PICK s \in {"committed", "failed", "caught"} :
            /\ EndEffect(d, s)
            /\ \/ pc[d] = "effect" /\ s # "caught"
               \/ pc[d] = "redrive" /\ s # "failed"
      BY <1>7 DEF Perform, Redrive
   <2>2. lock = d /\ s \in Outcomes \cup Waiting /\ pc[d] \in Waiting
      BY <2>1 DEF Locking
   <2> QED BY <2>1, <2>2, DispatchMoves DEF EndEffect
<1> QED BY <1>1, <1>2, <1>3, <1>4, <1>5, <1>6, <1>7

\* The preflight closes the request, rejects, lets the reservation follow, or re-drives.
LEMMA PreflightStep ==
  ASSUME IInv, NEW d \in Dispatches, Preflight(d)
  PROVE  IInv'
<1>1. /\ pc[d] = "preflight" /\ pc[d] \in Early /\ lock = d
      /\ d \notin abandoned /\ decision[d] = "allow"
   BY DEF IInv, Preflight, Early, Waiting, Granted, Effect, Locking, Allowed
<1>2. UNCHANGED <<requested, decision, decider, escalated, target, aborted, leg, review>>
   BY DEF Preflight
<1>3. CASE StartRedrive(d) /\ UNCHANGED <<abandoned, holds, bounds>>
   <2>1. redriven' = IF "redrive" = "redrive" THEN redriven \cup {d} ELSE redriven
      BY <1>3 DEF StartRedrive
   <2> QED BY <1>1, <1>2, <1>3, <2>1, EffectStarts DEF StartRedrive
<1>4. ASSUME NEW s \in {"abandoned", "fault", "caught", "reserve"}, Goto(d, s),
             UNCHANGED <<used, redriven>>, abandoned' \in {abandoned, abandoned \cup {d}},
             s = "abandoned" => d \in abandoned', s = "reserve" => UNCHANGED <<abandoned, lock>>,
             UNCHANGED holds \/ (chain' = None /\ lock' = None),
             UNCHANGED bounds \/ Fault
      PROVE  IInv'
   <2>1. faults' \in 0..MaxFaults /\ crashes' = crashes /\ chain' \in Dispatches \cup {Others, None}
      BY <1>4 DEF Fault, IInv, TypeOK, bounds, holds
   <2>2. s \in Outcomes \cup Waiting /\ lock' \in {d, None}
      BY <1>1, <1>4 DEF Outcomes, Waiting, Granted, Effect, holds
   <2> QED BY <1>1, <1>2, <1>4, <2>1, <2>2, EarlyMoves DEF holds, Granted, Effect
<1>5. CASE ~(StartRedrive(d) /\ UNCHANGED <<abandoned, holds, bounds>>)
   <2>1. CASE Mark(d, "abandoned") /\ chain' = None /\ lock' = None /\ UNCHANGED <<used, redriven>>
      BY <1>4, <2>1 DEF Mark
   <2>2. CASE Goto(d, "caught") /\ chain' = None /\ lock' = None
              /\ UNCHANGED <<abandoned, used, redriven, bounds>>
      BY <1>4, <2>2
   <2>3. CASE Goto(d, "reserve") /\ UNCHANGED <<abandoned, used, redriven, holds, bounds>>
      BY <1>4, <2>3 DEF holds
   <2> QED BY <1>5, <2>1, <2>2, <2>3 DEF Preflight
<1> QED BY <1>3, <1>5

LEMMA ReserveStep ==
  ASSUME IInv, NEW d \in Dispatches, Reserve(d)
  PROVE  IInv'
<1>1. /\ pc[d] = "reserve" /\ pc[d] \in Early /\ lock = d
      /\ UNCHANGED <<requested, decision, decider, escalated, abandoned, redriven, target,
                     aborted, leg, review>>
   BY DEF IInv, Reserve, Early, Waiting, Granted, Effect, Locking
<1>2. CASE Goto(d, "effect") /\ used' = [used EXCEPT ![d] = @ + 1] /\ UNCHANGED <<holds, bounds>>
   <2>1. redriven' = IF "effect" = "redrive" THEN redriven \cup {d} ELSE redriven
      BY <1>1
   <2> QED BY <1>1, <1>2, <2>1, EffectStarts
<1>3. CASE Fault /\ Goto(d, "fault") /\ chain' = None /\ lock' = None /\ UNCHANGED used
   <2>1. faults' \in 0..MaxFaults /\ crashes' = crashes
      BY <1>3 DEF Fault, IInv, TypeOK
   <2>2. "fault" \in Outcomes \cup Waiting /\ "fault" \notin Granted
      BY DEF Outcomes, Granted, Effect
   <2> QED BY <1>1, <1>3, <2>1, <2>2, EarlyMoves DEF Effect
<1> QED BY <1>2, <1>3 DEF Reserve

\* The request of a dispatch is written, or its write fails and nothing was asked.
LEMMA SubmitStep ==
  ASSUME IInv, NEW d \in Dispatches, Submit(d)
  PROVE  IInv'
<1> USE DEF IInv, Submit, TypeOK, Goto, Invocations, holds, bounds
<1>1. TypeOK' /\ Asking'
   BY LegFacts DEF Fault, Asking, Waiting, Granted, Effect, Outcomes
<1>2. Deciding' /\ Reviewing' /\ CaseClimbs'
   BY LegFacts DEF Deciding, Reviewing, CaseClimbs, ActedBelow
<1>3. Locking' /\ Allowed' /\ Spent' /\ Guarding'
   BY DEF Locking, Allowed, Spent, Guarding, Granted, Effect, Outcomes
<1>4. OutcomeIsDurable'
   BY <1>3 DEF OutcomeIsDurable, Asking, Spent
<1> QED BY <1>1, <1>2, <1>3, <1>4

\* One step of a tool call that writes nothing: it goes on to s with l as its leg.
LEMMA CallMoves ==
  ASSUME IInv, NEW e \in Execs, NEW s \in {"idle", "asked", "await", "guard", "guarding"},
         NEW l \in Legs \cup {None}, Goto(e, s), leg' = [leg EXCEPT ![e] = l],
         UNCHANGED <<rows, target, chain, aborted, review, bounds>>,
         lock' = lock \/ (lock = None /\ lock' = e),
         s = "guarding" =>
           /\ lock' = e /\ l \in Legs \ abandoned
           /\ decision[l] = "allow" /\ used[l] = 0
  PROVE  IInv'
<1> USE DEF IInv, TypeOK, Goto, Invocations, rows, bounds
<1>1. TypeOK' /\ Asking'
   BY DEF Asking
<1>2. Deciding' /\ Reviewing' /\ CaseClimbs'
   BY DEF Deciding, Reviewing, CaseClimbs, Principals, ActedBelow
<1>3. Locking' /\ Allowed' /\ Spent' /\ Guarding'
   BY DEF Locking, Allowed, Spent, Guarding, Effect
<1>4. OutcomeIsDurable'
   BY DEF OutcomeIsDurable
<1> QED BY <1>1, <1>2, <1>3, <1>4

\* What counts for a case is a leg of that case.
LEMMA CurrentIsLeg == \A c \in Cases : CurrentLeg(c) \in Legs
BY LegFacts DEF CurrentLeg

\* A tool call waits, is answered, cancelled or refused, and takes the lock over a usable leg.
LEMMA CallStep ==
  ASSUME IInv, NEW e \in Execs,
         ReadLeg(e) \/ PollLeg(e) \/ AbortExec(e) \/ Recheck(e) \/ Guard(e)
  PROVE  IInv'
<1> USE DEF Return, Goto, holds
<1>1. CaseOf[e] \in Cases /\ leg \in [Execs -> Legs \cup {None}]
   BY DEF IInv, TypeOK
<1>2. CASE ReadLeg(e)
   BY <1>1, <1>2, CallMoves, CurrentIsLeg DEF ReadLeg
<1>3. CASE PollLeg(e)
   <2>1. CASE Return(e)
      BY <1>3, <2>1, CallMoves DEF PollLeg
   <2>2. CASE Goto(e, "guard") /\ UNCHANGED leg
      <3>1. leg' = [leg EXCEPT ![e] = leg[e]] /\ leg[e] \in Legs \cup {None}
         BY <1>1, <2>2
      <3> QED BY <1>3, <2>2, <3>1, CallMoves DEF PollLeg
   <2> QED BY <1>3, <2>1, <2>2 DEF PollLeg
<1>4. CASE AbortExec(e)
   BY <1>4, CallMoves DEF AbortExec
<1>5. CASE Recheck(e)
   BY <1>5, CallMoves DEF Recheck
<1>6. CASE Guard(e)
   BY <1>1, <1>6, CallMoves, CurrentIsLeg DEF Guard, Usable
<1> QED BY <1>2, <1>3, <1>4, <1>5, <1>6

\* The first leg is asked, by this call or by an earlier one.
LEMMA AskLegStep ==
  ASSUME IInv, NEW e \in Execs, AskLeg(e)
  PROVE  IInv'
<1> USE DEF IInv, AskLeg, TypeOK, Goto, Invocations, holds, bounds, Fault
<1>1. <<CaseOf[e], 1>> \in Legs
   BY LegFacts
<1>2. TypeOK' /\ Asking'
   BY <1>1, LegFacts DEF Asking
<1>3. Deciding' /\ Reviewing' /\ CaseClimbs'
   BY LegFacts DEF Deciding, Reviewing, CaseClimbs, ActedBelow
<1>4. Locking' /\ Allowed' /\ Spent' /\ Guarding'
   BY DEF Locking, Allowed, Spent, Guarding, Effect
<1>5. OutcomeIsDurable'
   BY <1>1, LegFacts DEF OutcomeIsDurable
<1> QED BY <1>2, <1>3, <1>4, <1>5

\* The guard uses the allow it saw, once, or lets it be.
LEMMA ConsumeStep ==
  ASSUME IInv, NEW e \in Execs, Consume(e)
  PROVE  IInv'
<1> USE DEF IInv, Consume, Return, TypeOK, Goto, Invocations, Fault, bounds
<1>1. lock = e /\ leg[e] \in Legs
   BY DEF Locking, Guarding
<1>2. TypeOK' /\ Asking'
   BY <1>1, LegFacts DEF Asking
<1>3. Deciding' /\ Reviewing' /\ CaseClimbs'
   BY <1>1 DEF Deciding, Reviewing, CaseClimbs, Principals
<1>4. Locking' /\ Guarding'
   BY <1>1 DEF Locking, Guarding, Effect
<1>5. \A d \in Dispatches : used'[d] = used[d]
   BY <1>1, LegFacts
<1>6. Allowed' /\ Spent' /\ OutcomeIsDurable'
   BY <1>5 DEF Allowed, Spent, OutcomeIsDurable
<1> QED BY <1>2, <1>3, <1>4, <1>6

\* One answer is written, by a reviewer who may give it. It is final, so nothing that
\* anybody saw of another request, or of the legs below, changes.
LEMMA Decides ==
  ASSUME IInv, NEW p \in Principals, NEW r \in requested \ abandoned,
         NEW v \in {"allow", "deny", "stale-denied"},
         decision[r] = "none", ~ActedBelow(p, r), Decide(p, r, v),
         v = "stale-denied" => r \in Legs,
         lock = None \/ (lock = p /\ review.of = r),
         UNCHANGED <<requested, escalated, abandoned, used, redriven, target, chain, pc, aborted, leg>>,
         faults' \in 0..MaxFaults, crashes' \in 0..MaxCrashes,
         \/ lock' = lock /\ lock = None /\ review' = review
         \/ lock' = None /\ review' = NoReview
         \/ lock' = p /\ v = "deny" /\ r \in Legs /\ review' = [of |-> r, step |-> "record"]
  PROVE  IInv'
<1> USE DEF IInv, TypeOK, Decide
<1>1. /\ r \in Requests /\ decider[r] = None
      /\ decision' = [decision EXCEPT ![r] = v] /\ decider' = [decider EXCEPT ![r] = p]
      /\ lock \notin Invocations
   BY DEF Deciding, Principals, Invocations
<1>2. p # None
   BY DEF Principals
<1>3. TypeOK'
   BY <1>1 DEF NoReview
<1>4. Asking' /\ Allowed' /\ Spent' /\ Guarding'
   BY <1>1, LegFacts DEF Asking, Allowed, Spent, Guarding
<1>5. Deciding'
   BY <1>1, <1>2, LegFacts DEF Deciding
<1>6. Locking'
   BY <1>1 DEF Locking, Invocations
<1>7. Reviewing'
   BY <1>1, LegFacts, SMTT(30) DEF Reviewing, NoReview, Principals
<1>8. OutcomeIsDurable'
   BY <1>1, LegFacts DEF OutcomeIsDurable
<1>9. CaseClimbs'
   <2> SUFFICES ASSUME NEW c \in Cases
                PROVE /\ <<c, 2>> \in requested =>
                           <<c, 1>> \in escalated /\ decision'[<<c, 1>>] = "deny"
                      /\ decider'[<<c, 2>>] # None => decider'[<<c, 1>>] # decider'[<<c, 2>>]
      BY DEF CaseClimbs
   <2>1. <<c, 2>> \in requested => decision[<<c, 1>>] = "deny" /\ r # <<c, 1>>
      BY DEF CaseClimbs
   <2>2. decider[<<c, 2>>] # None => <<c, 2>> \in requested
      BY LegFacts DEF Deciding
   <2>3. r = <<c, 2>> => r \in Legs /\ r[2] = 2 /\ r[1] = c
      BY LegFacts, ZenonT(60)
   <2> QED BY <1>1, <1>2, <2>1, <2>2, <2>3, LegFacts DEF CaseClimbs, ActedBelow
<1> QED BY <1>3, <1>4, <1>5, <1>6, <1>7, <1>8, <1>9

LEMMA ResolveStep ==
  ASSUME IInv, NEW p \in Principals, NEW r \in Requests, Resolve(p, r)
  PROVE  IInv'
<1> USE DEF IInv, TypeOK, holds, bounds, MayAnswer
<1>1. CASE Stale(r) /\ Decide(p, r, "stale-denied")
   BY <1>1, Decides DEF Resolve, Stale
<1>2. CASE Decide(p, r, "deny") \/ Decide(p, r, "allow")
   BY <1>2, Decides DEF Resolve
<1> QED BY <1>1, <1>2 DEF Resolve

\* The reviewer takes the lock over an open leg.
LEMMA StartAllowStep ==
  ASSUME IInv, NEW p \in Principals, NEW r \in Requests, StartAllow(p, r)
  PROVE  IInv'
<1> USE DEF IInv, StartAllow, MayAnswer, TypeOK, rows, bounds
<1>1. TypeOK' /\ Asking' /\ Deciding' /\ Allowed' /\ Spent' /\ Guarding'
   BY DEF Asking, Deciding, Allowed, Spent, Guarding
<1>2. Locking'
   BY DEF Locking, Invocations, Effect
<1>3. Reviewing'
   BY DEF Reviewing, ActedBelow
<1>4. OutcomeIsDurable' /\ CaseClimbs'
   BY DEF OutcomeIsDurable, CaseClimbs
<1> QED BY <1>1, <1>2, <1>3, <1>4

LEMMA FinishAllowStep ==
  ASSUME IInv, NEW p \in Principals, FinishAllow(p)
  PROVE  IInv'
<1> USE DEF IInv, FinishAllow, TypeOK, bounds
<1>1. /\ review.of \in requested \ abandoned /\ decision[review.of] = "none"
      /\ ~ActedBelow(p, review.of)
   BY DEF Reviewing
<1>2. CASE Decide(p, review.of, "allow") \/ Decide(p, review.of, "deny")
   BY <1>1, <1>2, Decides DEF Fault
<1>3. CASE Fault /\ UNCHANGED <<decision, decider>>
   <2>1. TypeOK' /\ Asking' /\ Deciding' /\ Allowed' /\ Spent' /\ Guarding'
      BY <1>3 DEF Asking, Deciding, Allowed, Spent, Guarding, Fault, NoReview
   <2>2. Locking' /\ Reviewing'
      BY <1>3 DEF Locking, Reviewing, NoReview, Principals
   <2>3. OutcomeIsDurable' /\ CaseClimbs'
      BY <1>3 DEF OutcomeIsDurable, CaseClimbs
   <2> QED BY <2>1, <2>2, <2>3
<1> QED BY <1>2, <1>3

LEMMA EscalateStep ==
  ASSUME IInv, NEW p \in Principals, NEW r \in Requests, Escalate(p, r)
  PROVE  IInv'
BY Decides DEF IInv, TypeOK, Escalate, MayAnswer, bounds

\* The later writes of an escalation, each of which may fail and leave it there.
LEMMA EscalationStep ==
  ASSUME IInv, NEW p \in Principals, RecordEscalation(p) \/ Rise(p)
  PROVE  IInv'
<1> USE DEF IInv, TypeOK, bounds, Fault, NoReview, RecordEscalation, Rise
<1>1. /\ lock = p /\ review.of \in Legs \cap requested /\ decision[review.of] = "deny"
      /\ lock \notin Invocations
   BY DEF Reviewing, Invocations, Principals
<1>2. <<review.of[1], 2>> \in Legs
   BY <1>1, LegFacts
<1>3. TypeOK'
   BY <1>1, <1>2, LegFacts
<1>4. Asking' /\ OutcomeIsDurable'
   BY <1>2, LegFacts DEF Asking, OutcomeIsDurable
<1>5. Deciding' /\ Allowed' /\ Spent' /\ Guarding'
   BY DEF Deciding, Allowed, Spent, Guarding
<1>6. Locking'
   BY <1>1 DEF Locking, Invocations
<1>7. Reviewing'
   BY <1>1, LegFacts DEF Reviewing, ActedBelow
<1>8. CaseClimbs'
   <2>1. CASE UNCHANGED <<requested, decision, decider>> /\ escalated \subseteq escalated'
      BY <2>1 DEF CaseClimbs
   <2>2. CASE Rise(p) /\ requested' = requested \cup {<<review.of[1], 2>>}
      <3>1. review.of[1] \in Cases /\ review.of = <<review.of[1], 1>> /\ review.of \in escalated
         BY <1>1, <2>2, LegFacts DEF Reviewing
      <3>2. UNCHANGED <<decision, decider, escalated>>
         BY <2>2
      <3>3. \A c \in Cases : <<c, 2>> = <<review.of[1], 2>> => <<c, 1>> = review.of
         BY <3>1, LegFacts
      <3> QED BY <1>1, <2>2, <3>1, <3>2, <3>3 DEF CaseClimbs
   <2>3. CASE RecordEscalation(p)
      BY <2>1, <2>3
   <2> QED BY <2>1, <2>2, <2>3
<1> QED BY <1>3, <1>4, <1>5, <1>6, <1>7, <1>8

\* A request is abandoned while nobody is in a locked section.
LEMMA AbandonStep ==
  ASSUME IInv, NEW r \in Requests, Abandon(r)
  PROVE  IInv'
<1> USE DEF IInv, Abandon, TypeOK, holds, bounds
<1>1. TypeOK' /\ Asking' /\ Deciding' /\ Locking'
   BY DEF Asking, Deciding, Locking
<1>2. Allowed' /\ Spent' /\ Guarding' /\ Reviewing'
   BY DEF Allowed, Spent, Guarding, Reviewing, Locking, Principals, Effect
<1>3. OutcomeIsDurable' /\ CaseClimbs'
   BY DEF OutcomeIsDurable, CaseClimbs
<1> QED BY <1>1, <1>2, <1>3

\* The others pass through the chain of the team, and the member of a case moves.
LEMMA EnvironmentStep ==
  ASSUME IInv, OthersTakeChain \/ OthersLeaveChain \/ (\E c \in Cases : MoveTarget(c))
  PROVE  IInv'
<1> USE DEF IInv, OthersTakeChain, OthersLeaveChain, MoveTarget, TypeOK, rows, holds, bounds
<1>1. TypeOK' /\ UNCHANGED <<rows, lock, pc, aborted, leg, review>>
   OBVIOUS
<1>2. Asking' /\ Deciding' /\ Locking' /\ Allowed' /\ Spent' /\ Guarding'
   BY <1>1 DEF Asking, Deciding, Locking, Allowed, Spent, Guarding
<1>3. Reviewing' /\ OutcomeIsDurable' /\ CaseClimbs'
   BY <1>1 DEF Reviewing, OutcomeIsDurable, CaseClimbs, ActedBelow
<1> QED BY <1>1, <1>2, <1>3

\* A crash keeps the rows and the outcomes that were told, and nothing else.
LEMMA CrashStep ==
  ASSUME IInv, Crash
  PROVE  IInv'
<1> USE DEF IInv, Crash, TypeOK, rows, Invocations, Outcomes
<1>1. TypeOK'
   BY DEF NoReview
<1>2. Asking' /\ Deciding' /\ Locking'
   BY DEF Asking, Deciding, Locking, Waiting, Granted, Effect
<1>3. Allowed' /\ Spent' /\ Guarding' /\ Reviewing'
   BY DEF Allowed, Spent, Guarding, Reviewing, Granted, Effect, NoReview
<1>4. OutcomeIsDurable' /\ CaseClimbs'
   BY DEF OutcomeIsDurable, CaseClimbs
<1> QED BY <1>1, <1>2, <1>3, <1>4

LEMMA StutterStep ==
  ASSUME IInv, UNCHANGED vars
  PROVE  IInv'
BY DEF IInv, vars, rows, holds, bounds, TypeOK, Asking, Deciding, Locking, Allowed, Spent,
       Guarding, Reviewing, ActedBelow, OutcomeIsDurable, CaseClimbs

LEMMA Inductive == IInv /\ [Next]_vars => IInv'
<1> SUFFICES ASSUME IInv, [Next]_vars PROVE IInv'
   OBVIOUS
<1>1. ASSUME NEW d \in Dispatches, Submit(d) \/ Abort(d) \/ DispatchStep(d) PROVE IInv'
   BY <1>1, SubmitStep, AbortStep, WaitStep, AdmissionStep, PreflightStep, ReserveStep DEF DispatchStep
<1>2. ASSUME NEW e \in Execs,
             \/ AskLeg(e) \/ ReadLeg(e) \/ PollLeg(e) \/ AbortExec(e)
             \/ Recheck(e) \/ Guard(e) \/ Consume(e)
      PROVE IInv'
   BY <1>2, AskLegStep, CallStep, ConsumeStep
<1>3. ASSUME NEW p \in Principals, NEW r \in Requests,
             Resolve(p, r) \/ StartAllow(p, r) \/ Escalate(p, r)
      PROVE IInv'
   BY <1>3, ResolveStep, StartAllowStep, EscalateStep
<1>4. ASSUME NEW p \in Principals, ReviewStep(p) PROVE IInv'
   BY <1>4, FinishAllowStep, EscalationStep DEF ReviewStep
<1>5. ASSUME NEW r \in Requests, Abandon(r) PROVE IInv'
   BY <1>5, AbandonStep
<1>6. ASSUME (\E c \in Cases : MoveTarget(c)) \/ OthersTakeChain \/ OthersLeaveChain \/ Crash
      PROVE IInv'
   BY <1>6, EnvironmentStep, CrashStep
<1>7. ASSUME UNCHANGED vars PROVE IInv'
   BY <1>7, StutterStep
<1> QED BY <1>1, <1>2, <1>3, <1>4, <1>5, <1>6, <1>7 DEF Next

-------------------------------------------------------------------------------
\* What the actors of the control plane know stays true, for any number of dispatches,
\* calls and cases, whatever fails or crashes.
THEOREM ControlInvariant == Spec => []IInv
BY InitHolds, Inductive, PTL DEF Spec

\* Every variable keeps its type; in particular only requests that were asked are abandoned.
THEOREM ControlTypes == Spec => []TypeOK
<1>1. IInv => TypeOK
   BY DEF IInv
<1> QED BY <1>1, ControlInvariant, PTL

\* router.ts, the closes of a recovery dispatch: what the caller is told is on the disk.
THEOREM OutcomesDurable == Spec => []OutcomeIsDurable
<1>1. IInv => OutcomeIsDurable
   BY DEF IInv
<1> QED BY <1>1, ControlInvariant, PTL

\* service.ts escalateControl: a case rises over an escalated leg, to another reviewer.
THEOREM CasesClimb == Spec => []CaseClimbs
<1>1. IInv => CaseClimbs
   BY DEF IInv
<1> QED BY <1>1, ControlInvariant, PTL

-------------------------------------------------------------------------------
(* The refinement: what a step does to the rows is a step of the contract *)

Refines == [Contract!Next]_(Contract!vars)

LEMMA RowsUntouched ==
  ASSUME UNCHANGED <<requested, decision, abandoned, used>>
  PROVE  Refines
BY DEF Refines, Contract!vars

LEMMA RequestAsked ==
  ASSUME IInv, NEW r \in Requests, requested' = requested \cup {r},
         UNCHANGED <<decision, abandoned, used>>
  PROVE  Refines
<1>1. CASE r \in requested
   BY <1>1, RowsUntouched
<1>2. CASE r \notin requested
   <2>1. decision[r] = "none"
      BY <1>2 DEF IInv, Deciding
   <2>2. Contract!Ask(r)
      BY <1>2, <2>1 DEF Contract!Ask
   <2> QED BY <2>2 DEF Refines, Contract!Next
<1> QED BY <1>1, <1>2

LEMMA RequestDecided ==
  ASSUME IInv, NEW r \in requested \ abandoned, decision[r] = "none",
         NEW v \in {"allow", "deny", "stale-denied"},
         decision' = [decision EXCEPT ![r] = v], UNCHANGED <<requested, abandoned, used>>
  PROVE  Refines
<1>1. r \in Requests /\ decision \in [Requests -> {"none", "allow", "deny", "stale-denied"}]
   BY DEF IInv, TypeOK
<1>2. Contract!Decide(r)
   BY <1>1 DEF Contract!Decide
<1> QED BY <1>1, <1>2 DEF Refines, Contract!Next

LEMMA RequestClosed ==
  ASSUME IInv, NEW r \in requested, abandoned' \in {abandoned, abandoned \cup {r}},
         UNCHANGED <<requested, decision, used>>
  PROVE  Refines
<1>1. CASE abandoned' = abandoned
   BY <1>1, RowsUntouched
<1>2. CASE r \notin abandoned /\ abandoned' = abandoned \cup {r}
   <2>1. r \in Requests
      BY DEF IInv, TypeOK
   <2>2. Contract!Close(r)
      BY <1>2, <2>1 DEF Contract!Close
   <2> QED BY <2>1, <2>2 DEF Refines, Contract!Next
<1> QED BY <1>1, <1>2

LEMMA AllowUsed ==
  ASSUME IInv, NEW r \in Requests \ abandoned, decision[r] = "allow", used[r] = 0,
         used' = [used EXCEPT ![r] = @ + 1], UNCHANGED <<requested, decision, abandoned>>
  PROVE  Refines
<1>1. r \in requested /\ used \in [Requests -> Nat]
   BY DEF IInv, Deciding, TypeOK
<1>2. Contract!Use(r)
   BY <1>1 DEF Contract!Use
<1> QED BY <1>2 DEF Refines, Contract!Next

\* A dispatch writes its request, its mark and its reservation.
LEMMA DispatchRefines ==
  ASSUME IInv, NEW d \in Dispatches, Submit(d) \/ Abort(d) \/ DispatchStep(d)
  PROVE  Refines
<1> USE DEF rows, holds, bounds
<1>1. d \in Requests
   BY DEF Requests
<1>2. CASE Submit(d)
   BY <1>1, <1>2, RequestAsked, RowsUntouched DEF Submit
<1>3. CASE \/ Abort(d) \/ BeginWait(d) \/ Poll(d) \/ Reenter(d) \/ TakeChain(d) \/ Gate(d)
           \/ Caught(d) \/ Perform(d) \/ Redrive(d)
   BY <1>3, RowsUntouched
      DEF Abort, BeginWait, Poll, Reenter, TakeChain, Gate, Caught, Perform, Redrive, EndEffect
<1>4. CASE /\ Cascade(d) \/ GiveUp(d) \/ Boundary(d) \/ Preflight(d) \/ Settle(d)
           /\ UNCHANGED used
   <2>1. d \in requested
      BY <1>4 DEF IInv, Asking, Waiting, Granted, Effect,
                  Cascade, GiveUp, Boundary, Preflight, Settle
   <2>2. /\ abandoned' \in {abandoned, abandoned \cup {d}}
         /\ UNCHANGED <<requested, decision, used>>
      BY <1>4 DEF Mark, Cascade, GiveUp, Boundary, Preflight, Settle
   <2> QED BY <2>1, <2>2, RequestClosed
<1>5. CASE Reserve(d)
   BY <1>5, EffectStarts, AllowUsed, RowsUntouched DEF Reserve
<1>6. CASE Preflight(d) /\ StartRedrive(d) /\ UNCHANGED <<abandoned, holds, bounds>>
   BY <1>6, EffectStarts, AllowUsed DEF Preflight, StartRedrive
<1>7. Cascade(d) \/ GiveUp(d) \/ Boundary(d) \/ Settle(d) => UNCHANGED used
   BY DEF Cascade, GiveUp, Boundary, Settle
<1>8. Preflight(d) => UNCHANGED used \/ (StartRedrive(d) /\ UNCHANGED <<abandoned, holds, bounds>>)
   BY DEF Preflight
<1> QED BY <1>2, <1>3, <1>4, <1>5, <1>6, <1>7, <1>8 DEF DispatchStep

\* A tool call writes its first leg and the use of its allow.
LEMMA CallRefines ==
  ASSUME IInv, NEW e \in Execs,
         \/ AskLeg(e) \/ ReadLeg(e) \/ PollLeg(e) \/ AbortExec(e)
         \/ Recheck(e) \/ Guard(e) \/ Consume(e)
  PROVE  Refines
<1> USE DEF rows, holds, bounds
<1>1. CASE AskLeg(e)
   <2>1. <<CaseOf[e], 1>> \in Requests
      BY LegFacts
   <2> QED BY <1>1, <2>1, RequestAsked, RowsUntouched DEF AskLeg
<1>2. CASE ReadLeg(e) \/ PollLeg(e) \/ AbortExec(e) \/ Recheck(e) \/ Guard(e)
   BY <1>2, RowsUntouched DEF ReadLeg, PollLeg, AbortExec, Recheck, Guard
<1>3. CASE Consume(e)
   <2>1. leg[e] \in Requests \ abandoned /\ decision[leg[e]] = "allow" /\ used[leg[e]] = 0
      BY <1>3, LegFacts DEF IInv, Guarding, Consume
   <2> QED BY <1>3, <2>1, AllowUsed, RowsUntouched DEF Consume
<1> QED BY <1>1, <1>2, <1>3

\* A reviewer writes answers, escalations and the leg above, and abandons requests.
LEMMA ReviewRefines ==
  ASSUME IInv,
         \/ \E p \in Principals :
              \/ \E r \in Requests : Resolve(p, r) \/ StartAllow(p, r) \/ Escalate(p, r)
              \/ ReviewStep(p)
         \/ \E r \in Requests : Abandon(r)
  PROVE  Refines
<1> USE DEF rows, holds, bounds
<1>1. ASSUME NEW p \in Principals, NEW r \in Requests, Resolve(p, r) \/ Escalate(p, r)
      PROVE Refines
   BY <1>1, RequestDecided DEF Resolve, Escalate, MayAnswer, Decide
<1>2. ASSUME NEW p \in Principals, NEW r \in Requests, StartAllow(p, r) PROVE Refines
   BY <1>2, RowsUntouched DEF StartAllow
<1>3. ASSUME NEW p \in Principals, FinishAllow(p) PROVE Refines
   <2>1. review.of \in requested \ abandoned /\ decision[review.of] = "none"
      BY <1>3 DEF IInv, Reviewing, FinishAllow
   <2> QED BY <1>3, <2>1, RequestDecided, RowsUntouched DEF FinishAllow, Decide
<1>4. ASSUME NEW p \in Principals, RecordEscalation(p) PROVE Refines
   BY <1>4, RowsUntouched DEF RecordEscalation
<1>5. ASSUME NEW p \in Principals, Rise(p) PROVE Refines
   <2>1. review.of \in Legs
      BY <1>5 DEF IInv, Reviewing, Rise
   <2>2. <<review.of[1], 2>> \in Requests
      BY <2>1, LegFacts
   <2> QED BY <1>5, <2>2, RequestAsked, RowsUntouched DEF Rise
<1>6. ASSUME NEW r \in Requests, Abandon(r) PROVE Refines
   BY <1>6, RequestClosed DEF Abandon
<1> QED BY <1>1, <1>2, <1>3, <1>4, <1>5, <1>6 DEF ReviewStep

LEMMA StepRefines == IInv /\ [Next]_vars => Refines
<1> SUFFICES ASSUME IInv, [Next]_vars PROVE Refines
   OBVIOUS
<1>1. CASE OthersTakeChain \/ OthersLeaveChain \/ (\E c \in Cases : MoveTarget(c)) \/ Crash
           \/ UNCHANGED vars
   BY <1>1, RowsUntouched DEF OthersTakeChain, OthersLeaveChain, MoveTarget, Crash, vars, rows
<1> QED BY <1>1, DispatchRefines, CallRefines, ReviewRefines DEF Next

LEMMA InitRefines == Init => Contract!Init
BY DEF Init, Contract!Init

\* service.ts with router.ts and pre-execute-adapter.ts: the first answer stands, no effect
\* runs on a closed request, and an allow is used at most once, on every instance.
THEOREM ControlImplementsContract == Spec => ImplementsContract
<1>1. IInv /\ [Next]_vars => [Contract!Next]_(Contract!vars)
   BY StepRefines DEF Refines
<1> QED BY <1>1, InitRefines, ControlInvariant, PTL DEF Spec, ImplementsContract, Contract!Spec
===============================================================================
