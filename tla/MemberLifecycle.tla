--------------------------- MODULE MemberLifecycle ---------------------------
(***************************************************************************)
(* One durable member of one team: the work units delivered to it           *)
(* (packages/runtime/action-router/work-execution.ts), the procedures that  *)
(* archive, dispose and restore it (packages/runtime/lifecycle/), and the   *)
(* process-local agent handle all of them use                               *)
(* (packages/runtime/src/plugin/live/agent-bindings.mjs).                   *)
(*                                                                         *)
(* Admission and settlement of a unit, and a whole procedure, run in the    *)
(* chain of the team; the delivery between admission and settlement does    *)
(* not, and neither does the resume of the agent.  A turn of the member may *)
(* call a team tool, which queues on the same chain.                        *)
(***************************************************************************)
EXTENDS Naturals, FiniteSets, SequencesExt

CONSTANTS
  Callers,      \* calls that may be in flight together
  Tokens,       \* request tokens: one names one work unit
  None,
  MaxRequests,  \* bound: requests ever made
  MaxCrashes,   \* bound: crashes ever suffered
  MaxFaults     \* bound: durable writes and live steps that ever fail

ASSUME LifecycleAssumption ==
  /\ None \notin Tokens
  /\ {MaxRequests, MaxCrashes, MaxFaults} \subseteq Nat

VARIABLES
  \* durable
  lifecycle, version,   \* the member row
  admitted, settled,    \* the facts of the units: admissions, number of settlements
  open,                 \* units with an open activity interval
  \* volatile
  chain,                \* calls in the chain of the team, its holder first
  pc, job, seen,        \* a call: where it is, what it does, the row it read
  resident,             \* liveAgents has the handle of the member
  closed,               \* newWorkClosed has the member
  marker,               \* terminalAtReopen has the member
  ensure, boot,         \* the flights that resume the agent: of calls, of the boot
  \* bounds
  requests, crashes, faults

durable == <<lifecycle, version, admitted, settled, open>>
calls   == <<chain, pc, job, seen>>
glue    == <<resident, closed, marker, ensure, boot>>
bounds  == <<requests, crashes, faults>>
vars    == <<durable, calls, glue, bounds>>

Contract == INSTANCE MemberContract

-------------------------------------------------------------------------------
Rules == Contract!Rules

Jobs == [op: {"WORK"}, token: Tokens]
        \cup [op: {"ARCHIVE", "RESTORE", "DISPOSE"}, token: {None}]

NoJob  == [op |-> None, token |-> None]
NoRead == [lifecycle |-> None, version |-> 0]
Read   == [lifecycle |-> lifecycle, version |-> version]

Terminal == lifecycle \in {"ARCHIVED", "DISPOSED"}

\* The agent is not idle: a call has an input in a turn, or a turn that is being unwound.
InTurn(p) == pc[p] \in {"turn", "calling", "unwinding"}

Holds(p)    == chain # <<>> /\ Head(chain) = p
At(p, step) == Holds(p) /\ pc[p] = step
Goto(p, step) == pc' = [pc EXCEPT ![p] = step]

Finish(p) ==
  /\ Goto(p, "idle")
  /\ job'  = [job EXCEPT ![p] = NoJob]
  /\ seen' = [seen EXCEPT ![p] = NoRead]
  /\ chain' = Tail(chain)

\* The compare-and-swap of the repository: the row must be the one the call read.
Commit(p, op) ==
  /\ seen[p] = Read
  /\ lifecycle' = Rules[op].target
  /\ version' = version + 1

\* Turns are cancelled: a tool call that waits in the chain leaves it.
Cancelled ==
  [q \in Callers |-> IF pc[q] \in {"turn", "calling"} THEN "unwinding" ELSE pc[q]]

\* Mutant: a cancelled tool call stays in the chain.
RemainingAll == {chain}

\* The one sequence (in a set) of the calls that stay in the chain, in its order.
Remaining ==
  {r \in SeqOf(Callers, Len(chain)) :
     /\ IsInjective(r)
     /\ ToSet(r) = {q \in ToSet(chain) : pc[q] # "calling"}
     /\ \A i, j \in DOMAIN r, m, n \in DOMAIN chain :
          r[i] = chain[m] /\ r[j] = chain[n] /\ m < n => i < j}

Init ==
  /\ Contract!Init
  /\ open = {}
  /\ chain = <<>>
  /\ pc = [p \in Callers |-> "idle"]
  /\ job = [p \in Callers |-> NoJob]
  /\ seen = [p \in Callers |-> NoRead]
  /\ resident = TRUE
  /\ closed = FALSE
  /\ marker = FALSE
  /\ ensure = "idle"
  /\ boot = "off"
  /\ requests = 0 /\ crashes = 0 /\ faults = 0

\* A request queues on the chain.  It may retry a unit whose attempt is still under way:
\* the asynchronous receipt comes before the delivery.
Request(p) ==
  /\ pc[p] = "idle"
  /\ requests < MaxRequests
  /\ requests' = requests + 1
  /\ \E j \in Jobs : job' = [job EXCEPT ![p] = j]
  /\ chain' = Append(chain, p)
  /\ Goto(p, "queued")
  /\ UNCHANGED <<durable, seen, glue, crashes, faults>>

-------------------------------------------------------------------------------
(* A work unit, phase A: admission, in the chain *)

\* The member does not accept work, or the unit is settled: a rejection, a replay.
RefuseWork(p) ==
  /\ At(p, "queued") /\ job[p].op = "WORK"
  /\ Terminal \/ settled[job[p].token] > 0
  /\ Finish(p)
  /\ UNCHANGED <<durable, glue, bounds>>

\* An admission fact is found and no settlement: the unit is resumed, without a second
\* admission, although its first attempt may still be delivering it.
ResumeWork(p) ==
  /\ At(p, "queued") /\ job[p].op = "WORK"
  /\ ~Terminal /\ settled[job[p].token] = 0
  /\ job[p].token \in admitted
  /\ Goto(p, "open")
  /\ UNCHANGED <<durable, chain, job, seen, glue, bounds>>

StartWork(p) ==
  /\ At(p, "queued") /\ job[p].op = "WORK"
  /\ ~Terminal /\ settled[job[p].token] = 0
  /\ job[p].token \notin admitted
  /\ seen' = [seen EXCEPT ![p] = Read]
  /\ Goto(p, IF lifecycle = "RUNNING" THEN "fact" ELSE "admit")
  /\ UNCHANGED <<durable, chain, job, glue, bounds>>

CommitAdmit(p) ==
  /\ At(p, "admit")
  /\ Commit(p, "ADMIT_WORK")
  /\ Goto(p, "fact")
  /\ UNCHANGED <<admitted, settled, open, chain, job, seen, glue, bounds>>

AdmitFact(p) ==
  /\ At(p, "fact")
  /\ admitted' = admitted \cup {job[p].token}
  /\ Goto(p, "open")
  /\ UNCHANGED <<lifecycle, version, settled, open, chain, job, seen, glue, bounds>>

\* The interval is open, or was left open by an attempt that died; the chain is released.
OpenInterval(p) ==
  /\ At(p, "open")
  /\ open' = open \cup {job[p].token}
  /\ chain' = Tail(chain)
  /\ Goto(p, "ensure")
  /\ UNCHANGED <<lifecycle, version, admitted, settled, job, seen, glue, bounds>>

-------------------------------------------------------------------------------
(* Phase B: delivery, outside the chain *)

\* Mutant: a delivery that is refused owes no settlement.
EnsureRefusedUnsettled(p) ==
  /\ pc[p] = "ensure" /\ closed
  /\ Goto(p, "idle")
  /\ job' = [job EXCEPT ![p] = NoJob]
  /\ seen' = [seen EXCEPT ![p] = NoRead]
  /\ UNCHANGED <<durable, chain, glue, bounds>>

\* The admission of the member is closed by a procedure: the delivery fails.
EnsureRefused(p) ==
  /\ pc[p] = "ensure" /\ closed
  /\ Goto(p, "over")
  /\ UNCHANGED <<durable, chain, job, seen, glue, bounds>>

EnsureResident(p) ==
  /\ pc[p] = "ensure" /\ ~closed /\ resident
  /\ Goto(p, "prepare")
  /\ UNCHANGED <<durable, chain, job, seen, glue, bounds>>

\* No handle: start the flight that resumes the agent, or join it.
EnsureFlight(p) ==
  /\ pc[p] = "ensure" /\ ~closed /\ ~resident
  /\ ensure' = IF ensure = "idle" THEN "probing" ELSE ensure
  /\ Goto(p, "ensuring")
  /\ UNCHANGED <<durable, chain, job, seen, resident, closed, marker, boot, bounds>>

\* The input enters the inbox of the handle, unless the boundary refuses it or the
\* handle was dropped meanwhile.  The closed admission is not looked at again.
Prepare(p) ==
  /\ pc[p] = "prepare"
  /\ \/ resident /\ Goto(p, "turn")
     \/ Goto(p, "over")
  /\ UNCHANGED <<durable, chain, job, seen, glue, bounds>>

TurnCalls(p) ==
  /\ pc[p] = "turn"
  /\ chain' = Append(chain, p)
  /\ Goto(p, "calling")
  /\ UNCHANGED <<durable, job, seen, glue, bounds>>

\* The effect of the team tool, in the chain; the turn then runs to its end.
TeamCallRuns(p) ==
  /\ At(p, "calling")
  /\ chain' = Tail(chain)
  /\ Goto(p, "unwinding")
  /\ UNCHANGED <<durable, job, seen, glue, bounds>>

TurnEnds(p) ==
  /\ pc[p] \in {"turn", "unwinding"}
  /\ Goto(p, "over")
  /\ UNCHANGED <<durable, chain, job, seen, glue, bounds>>

-------------------------------------------------------------------------------
(* The flights that resume the agent: one of the calls, one of the boot *)

\* The probes before the resume: a handle appeared meanwhile, or the durable row is
\* terminal, or the session cannot be resumed.
Answer(step) == [q \in Callers |-> IF pc[q] = "ensuring" THEN step ELSE pc[q]]

ProbeEnds ==
  /\ ensure = "probing"
  /\ \/ /\ ~Terminal /\ ~resident
        /\ ensure' = "resuming"
        /\ UNCHANGED pc
     \/ /\ ensure' = "idle"
        /\ pc' = Answer("over")
  /\ UNCHANGED <<durable, chain, job, seen, resident, closed, marker, boot, bounds>>

\* The boot goes over the rows it read: a terminal member is skipped.  A handle that a
\* call resumed before it makes its own resume fail, and the boot with it.
BootResume ==
  /\ boot = "starting"
  /\ boot' = IF Terminal THEN "sweep" ELSE IF resident THEN "off" ELSE "resuming"
  /\ UNCHANGED <<durable, calls, resident, closed, marker, ensure, bounds>>

\* The resume of the session ends; both flights share it.  What each of them reads now
\* and its publication of the handle are one step: there is no await in between.
\* Mutant: the row is not read again after the resume.
PublishedByCallUnread == ensure = "resuming"

PublishedByCall == ensure = "resuming" /\ ~Terminal
PublishedByBoot == boot = "resuming" /\ ~closed /\ ~(marker /\ Terminal)

ResumeEnds(ok) ==
  /\ "resuming" \in {ensure, boot}
  /\ resident' = (resident \/ (ok /\ (PublishedByCall \/ PublishedByBoot)))
  /\ marker' = (marker /\ ~(ok /\ PublishedByBoot))
  /\ boot' = IF boot # "resuming" THEN boot ELSE IF ok THEN "sweep" ELSE "off"
  /\ \/ /\ ensure = "resuming"
        /\ ensure' = "idle"
        /\ pc' = Answer(IF ok /\ PublishedByCall THEN "prepare" ELSE "over")
     \/ /\ ensure # "resuming"
        /\ UNCHANGED <<ensure, pc>>
  /\ UNCHANGED <<durable, chain, job, seen, closed, bounds>>

\* Residency is dropped: the loop of the agent stops, whatever it was doing.
Drop ==
  /\ resident' = FALSE
  /\ pc' = Cancelled
  /\ chain' \in Remaining

BootSweep ==
  /\ boot = "sweep"
  /\ boot' = "off"
  /\ \/ Terminal /\ Drop
     \/ ~Terminal /\ UNCHANGED <<resident, pc, chain>>
  /\ UNCHANGED <<durable, job, seen, closed, marker, ensure, bounds>>

-------------------------------------------------------------------------------
(* A work unit, phase C: settlement, in the chain *)

QueueSettlement(p) ==
  /\ pc[p] = "over"
  /\ chain' = Append(chain, p)
  /\ Goto(p, "settling")
  /\ UNCHANGED <<durable, job, seen, glue, bounds>>

CloseInterval(p) ==
  /\ At(p, "settling")
  /\ open' = open \ {job[p].token}
  /\ Goto(p, "settle")
  /\ UNCHANGED <<lifecycle, version, admitted, settled, chain, job, seen, glue, bounds>>

\* The state goes first: the row is read and swapped in one step.
SettleState(p) ==
  /\ At(p, "settle") /\ lifecycle = "RUNNING"
  /\ Goto(p, "settled")
  /\ lifecycle' = Rules["SETTLE"].target
  /\ version' = version + 1
  /\ UNCHANGED <<admitted, settled, open, chain, job, seen, glue, bounds>>

\* Another unit settled the member, or a crash came between the state and the fact.
SettleRepair(p) ==
  /\ At(p, "settle") /\ lifecycle = "SETTLED"
  /\ Goto(p, "settled")
  /\ UNCHANGED <<durable, chain, job, seen, glue, bounds>>

\* Mutant: the settlement is recorded on a member that left the work states.
SettleVoidRecorded(p) ==
  /\ At(p, "settle") /\ Terminal
  /\ Goto(p, "settled")
  /\ UNCHANGED <<durable, chain, job, seen, glue, bounds>>

\* The member left the work states under the unit: nothing is recorded.
SettleVoid(p) ==
  /\ At(p, "settle") /\ Terminal
  /\ Finish(p)
  /\ UNCHANGED <<durable, glue, bounds>>

\* The fact is written without a look at the facts of the unit.
SettleFact(p) ==
  /\ At(p, "settled")
  /\ settled' = [settled EXCEPT ![job[p].token] = @ + 1]
  /\ Finish(p)
  /\ UNCHANGED <<lifecycle, version, admitted, open, glue, bounds>>

-------------------------------------------------------------------------------
(* Archive, dispose, restore: in the chain from the plan to the exit *)

Legal(op) ==
  \/ lifecycle \in Rules[op].sources
  \/ op = "ARCHIVE" /\ lifecycle \in Rules["SETTLE"].sources

RefusePlan(p) ==
  /\ At(p, "queued") /\ job[p].op # "WORK"
  /\ ~Legal(job[p].op)
  /\ Finish(p)
  /\ UNCHANGED <<durable, glue, bounds>>

Plan(p) ==
  /\ At(p, "queued") /\ job[p].op # "WORK"
  /\ Legal(job[p].op)
  /\ seen' = [seen EXCEPT ![p] = Read]
  /\ Goto(p, IF job[p].op = "RESTORE" THEN "commit" ELSE "close")
  /\ UNCHANGED <<durable, chain, job, glue, bounds>>

CloseAdmission(p) ==
  /\ At(p, "close")
  /\ closed' = TRUE
  /\ Goto(p, "interrupt")
  /\ UNCHANGED <<durable, chain, job, seen, resident, marker, ensure, boot, bounds>>

Interrupt(p) ==
  /\ At(p, "interrupt")
  /\ \/ /\ resident
        /\ pc' = [Cancelled EXCEPT ![p] = "drain"]
        /\ chain' \in Remaining
     \/ /\ ~resident
        /\ Goto(p, "drain")
        /\ UNCHANGED chain
  /\ UNCHANGED <<durable, job, seen, glue, bounds>>

\* Mutant: only a committed procedure reopens the admission.
ReopenCommitted ==
  /\ closed' = (closed /\ ~Terminal)
  /\ marker' = Terminal

\* Every exit of the procedure reopens the admission, and marks a terminal member.
Reopen ==
  /\ closed' = FALSE
  /\ marker' = Terminal

Abort(p) ==
  /\ Reopen
  /\ Finish(p)
  /\ UNCHANGED <<durable, resident, ensure, boot>>

\* Without a handle the quiescence of the member cannot be established.
DrainRefused(p) ==
  /\ At(p, "drain") /\ ~resident
  /\ Abort(p)
  /\ UNCHANGED bounds

\* Mutant: the drain waits until no call has anything in flight.
AgentIdleAll(p) ==
  /\ At(p, "drain") /\ resident
  /\ \A q \in Callers \ {p} : pc[q] = "idle"
  /\ Goto(p, "descendants")
  /\ UNCHANGED <<durable, chain, job, seen, glue, bounds>>

\* whenIdle of the handle: the turns of the member are over.
AgentIdle(p) ==
  /\ At(p, "drain") /\ resident
  /\ \A q \in Callers : ~InTurn(q)
  /\ Goto(p, "descendants")
  /\ UNCHANGED <<durable, chain, job, seen, glue, bounds>>

\* The drain of the descendants failed, or reports activity that remains.
NotQuiescent(p) ==
  /\ At(p, "descendants")
  /\ Abort(p)
  /\ UNCHANGED bounds

ReleaseResidency(p) ==
  /\ At(p, "descendants")
  /\ resident' = FALSE
  /\ chain' \in Remaining
  /\ pc' = [Cancelled EXCEPT ![p] =
              IF job[p].op = "ARCHIVE" /\ seen[p].lifecycle = "RUNNING" THEN "presettle" ELSE "commit"]
  /\ UNCHANGED <<durable, job, seen, closed, marker, ensure, boot, bounds>>

\* Mutant: the archive goes on with the row it planned on.
CommitSettleFirstStale(p) ==
  /\ At(p, "presettle")
  /\ Commit(p, "SETTLE")
  /\ Goto(p, "commit")
  /\ UNCHANGED <<admitted, settled, open, chain, job, seen, glue, bounds>>

\* Archive has no edge from RUNNING: the member is settled durably first.
CommitSettleFirst(p) ==
  /\ At(p, "presettle")
  /\ Commit(p, "SETTLE")
  /\ seen' = [seen EXCEPT ![p] = [lifecycle |-> lifecycle', version |-> version']]
  /\ Goto(p, "commit")
  /\ UNCHANGED <<admitted, settled, open, chain, job, glue, bounds>>

CommitTransition(p) ==
  /\ At(p, "commit")
  /\ Commit(p, job[p].op)
  /\ \/ job[p].op = "RESTORE" /\ Finish(p)
     \/ job[p].op # "RESTORE" /\ Goto(p, "committed") /\ UNCHANGED <<chain, job, seen>>
  /\ UNCHANGED <<admitted, settled, open, glue, bounds>>

\* After the commit the handle is dropped once more and the admission reopened; there is
\* no await between the two.
ExitCommitted(p) ==
  /\ At(p, "committed")
  /\ Reopen
  /\ resident' = FALSE
  /\ pc' = [Cancelled EXCEPT ![p] = "idle"]
  /\ \E r \in Remaining : chain' = Tail(r)
  /\ job'  = [job EXCEPT ![p] = NoJob]
  /\ seen' = [seen EXCEPT ![p] = NoRead]
  /\ UNCHANGED <<durable, ensure, boot, bounds>>

-------------------------------------------------------------------------------
(* Faults and crashes *)

\* A durable write of a unit is rejected, and its call with it.
UnitFault(p) ==
  /\ \/ \E step \in {"admit", "fact", "settling", "settled"} : At(p, step)
     \/ At(p, "settle") /\ lifecycle = "RUNNING"
  /\ faults < MaxFaults
  /\ faults' = faults + 1
  /\ Finish(p)
  /\ UNCHANGED <<durable, glue, requests, crashes>>

\* The interval cannot be opened: the unit is settled, fail closed, where it is.
OpenFault(p) ==
  /\ At(p, "open") /\ job[p].token \notin open
  /\ faults < MaxFaults
  /\ faults' = faults + 1
  /\ Goto(p, "settle")
  /\ UNCHANGED <<durable, chain, job, seen, glue, requests, crashes>>

\* A commit of a procedure is rejected.
CommitFault(p) ==
  /\ At(p, "presettle") \/ At(p, "commit")
  /\ faults < MaxFaults
  /\ faults' = faults + 1
  /\ \/ job[p].op # "RESTORE" /\ Abort(p)
     \/ job[p].op = "RESTORE" /\ Finish(p) /\ UNCHANGED <<durable, glue>>
  /\ UNCHANGED <<requests, crashes>>

\* The process dies and a new one boots: only the durable state remains.
Crash ==
  /\ crashes < MaxCrashes
  /\ crashes' = crashes + 1
  /\ chain' = <<>>
  /\ pc' = [p \in Callers |-> "idle"]
  /\ job' = [p \in Callers |-> NoJob]
  /\ seen' = [p \in Callers |-> NoRead]
  /\ resident' = FALSE
  /\ closed' = FALSE
  /\ marker' = FALSE
  /\ ensure' = "idle"
  /\ boot' = "starting"
  /\ UNCHANGED <<durable, requests, faults>>

-------------------------------------------------------------------------------
Unit(p) ==
  \/ RefuseWork(p) \/ ResumeWork(p) \/ StartWork(p)
  \/ CommitAdmit(p) \/ AdmitFact(p) \/ OpenInterval(p)
  \/ EnsureRefused(p) \/ EnsureResident(p) \/ EnsureFlight(p) \/ Prepare(p)
  \/ TeamCallRuns(p) \/ TurnEnds(p)
  \/ QueueSettlement(p) \/ CloseInterval(p)
  \/ SettleState(p) \/ SettleRepair(p) \/ SettleVoid(p) \/ SettleFact(p)

Procedure(p) ==
  \/ RefusePlan(p) \/ Plan(p) \/ CloseAdmission(p) \/ Interrupt(p)
  \/ DrainRefused(p) \/ AgentIdle(p) \/ NotQuiescent(p) \/ ReleaseResidency(p)
  \/ CommitSettleFirst(p) \/ CommitTransition(p) \/ ExitCommitted(p)

Flights == ProbeEnds \/ BootResume \/ (\E ok \in BOOLEAN : ResumeEnds(ok)) \/ BootSweep

Next ==
  \/ \E p \in Callers :
       \/ Request(p) \/ TurnCalls(p) \/ Unit(p) \/ Procedure(p)
       \/ UnitFault(p) \/ OpenFault(p) \/ CommitFault(p)
  \/ Flights
  \/ Crash

Spec == Init /\ [][Next]_vars

\* The event loop serves every call, the flights end, and a turn ends if its tool call
\* does.  Nobody has to make a request, and a turn need not call a tool.
Fairness ==
  /\ \A p \in Callers : WF_vars(Unit(p)) /\ WF_vars(Procedure(p))
  /\ WF_vars(Flights)

FairSpec == Spec /\ Fairness

-------------------------------------------------------------------------------
(* Properties *)

Queued   == {"queued", "calling", "settling"}     \* in the chain, perhaps not its holder
Holding  == {"admit", "fact", "open", "settle", "settled", "close", "interrupt", "drain",
             "descendants", "presettle", "commit", "committed"}
Unlocked == {"ensure", "ensuring", "prepare", "turn", "unwinding", "over"}

\* The types of the state, and the chain: it holds the calls that queue on it or run in
\* it, each once, and only its holder runs (withTeamLock of effects.ts).
TypeOK ==
  /\ lifecycle \in Contract!States
  /\ version \in Nat
  /\ admitted \subseteq Tokens /\ open \subseteq Tokens
  /\ settled \in [Tokens -> Nat]
  /\ chain \in Seq(Callers)
  /\ IsInjective(chain)
  /\ pc \in [Callers -> {"idle"} \cup Queued \cup Holding \cup Unlocked]
  /\ \A p \in Callers : pc[p] \in Queued \cup Holding <=> p \in ToSet(chain)
  /\ \A p \in Callers : pc[p] \in Holding => Holds(p)
  /\ job \in [Callers -> Jobs \cup {NoJob}]
  /\ seen \in [Callers -> [lifecycle: Contract!States, version: Nat] \cup {NoRead}]
  /\ {resident, closed, marker} \subseteq BOOLEAN
  /\ ensure \in {"idle", "probing", "resuming"}
  /\ boot \in {"off", "starting", "resuming", "sweep"}
  /\ requests \in 0..MaxRequests /\ crashes \in 0..MaxCrashes /\ faults \in 0..MaxFaults

\* Once the procedure that archived or disposed a member has returned, no handle of the
\* member is resident, whatever dispatch or boot was resuming it meanwhile (the drop of
\* archive.ts and the re-reads of agent-bindings.mjs before each publication).
ArchivedHasNoAgent == Terminal /\ ~closed => ~resident

\* No member is left RUNNING by calls that have all returned, unless a write failed or
\* the process died: every way out of a delivery settles the unit (work-execution.ts).
NoFakeRunning ==
  /\ \A p \in Callers : pc[p] = "idle"
  /\ crashes = 0 /\ faults = 0
  => lifecycle # "RUNNING"

\* A settled unit has no open activity interval (closeIntervalTolerated goes first, and
\* an attempt that resumes a unit closes the interval its predecessor left).
SettledIsClosed == \A t \in Tokens : settled[t] > 0 => t \notin open

\* Work that ended is ended everywhere: neither the state of the member nor the activity
\* interval of a unit goes on showing it.
WorkIsClosed == NoFakeRunning /\ SettledIsClosed

\* What archive, dispose, restore or admission commits is derived from the row that is
\* durable at the commit, however long the quiesce before it took: the compare-and-swap
\* of commitTransition never meets a conflict.
CommitsWhatItRead ==
  \A p \in Callers : pc[p] \in {"admit", "presettle", "commit"} => seen[p] = Read

\* The member and its units do what MemberContract says: legal moves, one version a
\* move, one admission a unit, and its settlements on a settled member, after it.
ImplementsContract == Contract!Spec

\* The admission is closed only while a procedure that closed it is under way: no
\* fault, abort or commit leaves a live member that refuses work (reopenAdmission).
AdmissionReopened ==
  closed => chain # <<>> /\ job[Head(chain)].op \in {"ARCHIVE", "DISPOSE"}

\* settleAdmittedWork says that it repairs a missing settlement "exactly once (the caller
\* scanned: it is absent)": a unit has one settlement fact.
SettledOnce == \A t \in Tokens : settled[t] <= 1

\* A procedure waits in its drain for a turn that waits for the chain it holds.
Hung == \E p, q \in Callers : pc[p] = "drain" /\ pc[q] = "calling"

\* Every call returns, unless a drain and a turn wait for each other.
CallsReturn == \A p \in Callers : pc[p] # "idle" ~> pc[p] = "idle" \/ Hung

\* work-execution.ts says that the shared chain is never held across the model-visible
\* turn, so that no wait cycle can form: a drain ends.
DrainEnds == \A p \in Callers : pc[p] = "drain" ~> pc[p] # "drain"
===============================================================================
