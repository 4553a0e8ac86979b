# Formal models of the DSH Agent Team

These TLA+ modules model the parts of the plugin that have to be right when calls
interleave, writes fail and the process dies: the durable state of a team, the
lifecycle and the messages of its members, the approvals their actions wait for, and the
client that shows it.
Paths below are relative to `src/packages/`.

## 1. The system

The plugin gives a host session (the *root*, or Lead) a team of member agents.
Everything it must remember lives in one *team domain*, a set of key/value
stores behind a narrow seam; everything else is rebuilt from them.

The process is one event loop. Code between two awaits runs to completion, so the
interleavings that exist are those at awaits, and most awaits are durable writes.

| Component | State it keeps | Operations | Talks to |
|---|---|---|---|
| Storage seam (`storage/schema/seam.ts`) | the stores; one FIFO chain of durable writes per domain | `get` (synchronous), `put`, `update` (atomic read-modify-write at its turn) | the host's KV domain |
| Repositories (`storage/repositories/`) | none: validation and conflict rules over the stores | `put`, `allocateSequence`, `advanceGeneration`, `commitTransition` | the seam |
| Operation journal (`storage/operations/`) | per-operation promise locks, in memory | `execute`, `drive`, `prepare`, `fail`, `recordChildSession` | operations and ledger repositories |
| Provisioning coordinator (`storage/provisioning/`) | none: the stage is derived from four stores | `allocate`, `createChildSession`, `bindChildSession`, `commitInstance`, `provision`, `recover` | journal, member and binding repositories, the child-session adapter |
| Bindings (`storage/bindings/`) | session to member | create, resolve, remove, reconcile forks | session bindings repository |
| Activation (`runtime/activation/`) | team locks, compatibility locks, a coordinator per root, in memory | `activate`, `recoverActivation` | coordinator, domain rules, agent binder |
| Work execution (`runtime/action-router/work-execution.ts`) | none: admission and settlement facts, activity intervals | admit, deliver, settle one unit of work in three lock scopes | member records (CAS), ledger, the member's session |
| Lifecycle (`runtime/lifecycle/`) | none | archive, dispose, restore over a quiesce of five live steps | member records (CAS), admission, residency |
| Member residency, root binding (`runtime/src/plugin/live/agent-bindings.mjs`) | live agent handles, closed admissions, flights that resume | warm, cold-resume, boot, drop | the host's sessions |
| Messaging (`runtime/messaging/`) | a promise chain per team, of its own | send, deliver, confirm, recover | ledger, member records, overlays, recipient sessions |
| Control plane (`runtime/control/service.ts`) | ledger rows: requests, decisions, abandonments, escalations, consumptions; a promise chain per team, of its own | request, resolve, escalate, abandon, wait, effect boundary, last-mile guard | ledger, member records, external policy facts |
| Recovery dispatch (`runtime/action-router/router.ts`) | per call | ask, wait, commit the action again after the allow | control plane, activation, the chain of the team |
| Operation permission (`pre-execute-adapter.ts`) | per call | ask, wait, recheck, guard one tool call | control plane |
| Governance mutations, proposals, permission overlays | proposals, overlay rows | propose, settle, amend | ledger, overlays |
| Requirements, readiness, activity | ledger facts | append, fold | ledger |
| Action router, tool admission and dispatch, tools | per call | authorize and route one call | the services above |
| Remote, client | per view: projection, ledger, refresh rounds | pull, coalesce, apply | stamped snapshots |
| Domain rules (`domain/`), contracts | none | pure functions | - |

What is hard here: reads that are stale by the time a write is issued; checks and
puts outside any lock; a protocol of several durable writes cut by a crash; an
external effect (a child session) that no transaction covers; retries of what has
half happened; a counter row bootstrapped by racers; locks that live only in memory.
`PROJECT.json` lists each such hazard at its line with the property that covers it.

What makes each component correct:

- *journal*: an operation is applied at most once, committed only when applied,
  under the intent recorded first; a terminal operation never changes; answers
  are the durable result; no failure wedges an operation;
- *ledger*: sequences are unique, entries are permanent, the generation stamp
  never runs ahead of the facts;
- *provisioning*: one child per member whatever crashes, a committed member is
  whole, records are never overwritten, retries converge;
- *activation*: one admission per request token, quotas hold whatever races, an abort
  before the reservation provisions nothing, a retry is never shadowed by the
  checks of a new activation;
- *work and lifecycle*: a member reported archived has no live handle, every admitted unit
  settles or is voided by a procedure, a procedure commits on the row it read, a live
  member is never left closed to work, and calls return;
- *messaging*: an intent is durable before its input, confirmed at most once and only for a
  session that accepted it, and delivered in the end if recovery keeps being called;
- *control plane*: the first answer to a request stands, an abandoned request authorizes nothing,
  an allow is used once, a case rises one reviewer at a time, and a dispatch reports what is on
  the disk and returns;
- *client refresh*: a view never goes back, a change announced during a round causes
  another, and an open view converges.

## 2. Modules

| Module | What it is |
|---|---|
| `OperationJournal` | the journal, its repositories and the write chain, one durable write at a time |
| `OperationProtocol` | what the journal promises of an operation id |
| `OperationJournalInvariant` | the inductive invariant and the proof that every step keeps it |
| `OperationJournalProofs` | the theorems: safety, action property, refinement |
| `OperationJournalMC` | a small instance for TLC |
| `Provisioning` | coordinator calls in flight together over an atomic journal |
| `ProvisioningStages` | what provisioning promises of a member's derived stage |
| `ProvisioningMC` | a small instance for TLC |
| `ProvisioningProofs` | the inductive invariant and the theorems |
| `Activation` | activate calls over the team lock, the quota and the stages |
| `ActivationMC` | small instances for TLC |
| `ActivationProofs` | the inductive invariant and the theorems |
| `MemberLifecycle` | work units, archive, dispose and restore of one member, and its live agent |
| `MemberContract` | what a durable member and its units promise |
| `MemberLifecycleMC` | small instances for TLC |
| `MemberLifecycleProofs` | the inductive invariant and the theorems |
| `Messaging` | sends and recoveries over one ledger, three phases each |
| `MessageDelivery` | what messaging promises of a message |
| `MessagingMC` | small instances for TLC |
| `MessagingProofs` | the inductive invariant and the theorems |
| `ControlPlane` | approval requests and cases, their reviewers, a dispatch and a guarded call that wait |
| `ControlContract` | what the control plane promises of a request |
| `ControlPlaneMC` | small instances for TLC |
| `ControlPlaneProofs` | the inductive invariant and the theorems |
| `ClientRefresh` | refresh rounds, pulls and the retry of one view |
| `ClientRefreshMC` | small instances for TLC |
| `ClientRefreshProofs` | the inductive invariant and the theorems |

### OperationJournal

A *caller* is one asynchronous call in flight. `Submit` chains it on the lock of its
operation (`gate`, `withOperationLock`); the head of a gate may `Prepare`, `Execute`,
`Drive`, `Fail` or `RecordChildSession`. `ApplyEffects`, `AllocateSequence`, `PutFact`,
`AdvanceStamp` and `Commit` are the stretches of `applyPhase` (and of the ledger
repository it calls) between two awaits. An await is a visit to `chain`: `Issue` puts the
caller's write at its end, `WriteDurable` and `WriteRejected` settle the write at its
head. `row` and `seq` are what a call captured before its await (the row it read, the
fact it found or the sequence it was handed): the code uses them afterwards without
reading again, and so does the model.

A put is validated when it is issued and replaces whatever the key holds when its turn
comes; only `update` (the counter, the stamp) reads at its turn. This is why two callers
that both see no counter row both write it.

`AppendFact` is any other component appending its own fact (`writeRequirementFact`,
activity rows): it takes part in the races for the counter and the stamp, holds no lock
and links no operation. `Crash` forgets everything but the stores.

Abstracted: an operation's list of effects is one effect, which is skipped when its record
exists (the contract of `JournalEffect`); ids, intents and keys are model values;
timestamps and wording are left out, and with them puts of identical bytes (a row's
`updatedAt` and generation always differ). Not modelled: `putPreTeam`, whose fact
has no team record to stamp, and the creation of a team record.

`OperationProtocol` sees of this only the phase, the recorded intent and the applying facts
of each operation, and allows three steps: `Begin`, `Apply` (once, under the recorded
intent) and `Settle`. `FAILED` may follow an `Apply`: `fail` looks at the row
alone.

### Provisioning

Each coordinator call is one driver with a *pass* per stage method: `provision` runs
`allocate`, `createChildSession`, `bindChildSession`, `commitInstance` in order, and each of
these starts over from the first stage and ensures the ones before it, as in the
code. The journal calls are atomic here, guarded by `lock` while another driver is inside
`drive`; `OperationJournal` justifies that, and `ProvisioningKeepsProtocol` (section 6) says in
what sense. The member record and the binding
are written by puts outside the lock, so they keep their check and their durable
write apart. `FactoryAnswers` is the child-session adapter: the factory finds the child
it has already made for a member (`provisioning/adapter.ts` makes this its contract), and
either the factory or the durability barrier may fail. `Transition` is the lifecycle's
`commitTransition` moving a record on, and `Abandon` is `journal.fail`.

`ProvisioningStages` promises that the derived stage advances one step at a time, that
the child is chosen once and is nobody else's, and that a member commits from the
bound stage only.

### Activation

One team; a request token, with its source, determines the operation id and the instance id
(`identity.ts`), so a token names all three. A call is one caller with a `pc`. `Activate` is
everything up to the first await: an existing operation goes to the re-drive, a
delegation that continues is answered at once, the rest goes on to the compatibility
consultation. `Consult` is that await, with a free verdict. `lock` is the promise chain of
`withTeamLock`: the head holds it until it settles. `Enter` is steps 7 to 11, one stretch of
code where the policy port is present, as in production; `Allocate` is the
reservation; `CreateChild`, `PutMember`, `Bind` and `Commit` are steps 13 to 15 with what is
already done skipped, `StageFails` the failure of any of them or of the binder, `Finish` the
answer. `Close` is `settleAbortBeforeReservation`, reached from every reject of the region
before the reservation when the signal has aborted. `Move` is the lifecycle moving records
on by the rules of `domain/lifecycle`, which changes what the quota and a delegation see.

The provisioning stages are atomic here, and only the holder of the team lock takes them.
`ImplementsStages` checks that activations move a member through `ProvisioningStages`,
the same abstract specification that `Provisioning` implements: it is where the two meet.

Abstracted: the request grammar, the blueprint catalog, caller authority, the policy and the
creation fields (pure, before the reservation), the projection, two teams (they
share no lock and no row). `FAILED` operations are left out: no production code calls
`journal.fail` on a provisioning operation.

### MemberLifecycle

One member, in one team. `chain` is the promise chain of the team: the router's effects, the
lifecycle service and the work chain share one map of chains (`coordination.chains`, `root.ts`),
so a procedure holds it from its plan to its exit. A work unit takes it twice: phase A
(`StartWork`, `CommitAdmit`, `AdmitFact`, `OpenInterval`) and phase C (`CloseInterval`,
`SettleState` or its alternatives, `SettleFact`), with the delivery outside it. `seen` is the row
a call read before its awaits, against which `Commit` compares.

The agent is the variables `resident` (`liveAgents`), `closed` (`newWorkClosed`), `marker`
(`terminalAtReopen`) and two flights that resume it: `ensure`, which deliveries start or
join, and `boot`, after a restart. Each flight reads again before it publishes the handle
(`PublishedByCall`, `PublishedByBoot`), and the boot sweeps once more. `Interrupt` and every drop
cancel the turns of the agent; a cancelled tool call leaves the chain. A delivery that
passed the admission check and is still preparing (`"prepare"`) submits its input whatever happened
meanwhile: `prepareAgentForRequest` awaits, and nobody looks at the admission again.

`TurnCalls` is a tool call of the turn, which waits in the chain of the team. What it does
there is another component's business; what matters here is that it waits.

Faults reject any durable write of a unit or a procedure; `NotQuiescent` is the drain that
reports remaining descendants. Abstracted: prompts and results, evidence facts of procedures,
descendants one by one (drained or not), tool mounting. Attempts of one unit overlap as they do in the
code: the admission receipt is given before the delivery (`router.ts` 1288-1291), and a retry of the token
resumes any unit that is admitted and not settled (`work-execution.ts` 465-500). The chain after a step (`Remaining`) is stated as the one sequence of the calls that stay, in
their order, and not computed by a filter: a filter is recursive over data, which the prover cannot follow.

`MemberContract` sees the row, the admissions and the number of settlements of each unit, and
allows the moves of the lifecycle table, one admission of a unit, and settlements of admitted units
while the member is settled. It does not promise one settlement: `lifecycle_overlap` shows two.

### Messaging

`Send` is the admission of the facade up to the first await of its ledger write,
`RecordIntent` that write. The three phases of `deliverOne` are `Prepare` (the target is decided from
the overlays of that moment and must accept work, unless it is the Leader), `Submit` (outside the
chain) and `Allocate`, `PutConfirmation` or `Converge` (in the chain). `Recover` scans for
intents whose *token* has no confirmation; it decides each one twice, at `Skip` or
`Redeliver` and again at `Prepare`. Member rows and overlays change under it (`Move`, `Overlay`): their
procedures hold another chain.

Messages are triples of sender, recipient and token; bodies and the relayed text are left
out. The ledger's own counter race is `OperationJournal`'s; here a number is allocated
in one step and used in another.

`MessageDelivery` records before it accepts, accepts perhaps often, and confirms once, for
a session that accepted.

### ControlPlane

Two kinds of invocation wait for an answer. A *dispatch* is a recovery dispatch of the router
(`dispatchRecoveryIfOffered`): it asks one request, `Submit`, waits for it in place, and after the
allow performs the action again and commits it itself. A *call* is a tool call of a member under
operation permission: it asks the first leg of an approval case, waits for the leg that counts, and
uses the allow in the last-mile guard. A retry of a call is the same call again, on the same case.

Two promise chains order them. `chain` is the chain of the team, the one of `MemberLifecycle`;
`Others` stands for everybody else on it, and a dispatch holds it from `TakeChain` to the end of its
effect. `lock` is `withLock` of the control service. A section of the lock with one durable write and
no other await is one step that needs the lock free; the sections that await more than that hold
`lock` between their steps: the boundary (`Boundary`, `Preflight`, `Reserve`: the effect runs inside),
the guard (`Guard`, `Consume`: the facts of the external policy are awaited inside), an allow
(`StartAllow`, `FinishAllow`) and an escalation (`Escalate`, `RecordEscalation`, `Rise`: three writes).
The waits poll the rows without the lock.

An effect does not end with its reservation. `Reserve` is its first durable write; `Perform` is what
follows inside both chains (the child, its binding, the commit and the admission of work, `effects.ts`
1037-1066), which may throw. The reservation then stands while the caller is told an error (`"failed"`), or
nothing if a crash cuts it off (`"lost"`). `Preflight` may also find a durable operation of the same
token, of an earlier attempt: `StartRedrive` and `Redrive` roll it forward.
That path never tells the router that the effect has started (`markReservationStarted` is called by the
fresh path alone), so what it throws is treated as a rejection before the effect. `redriven` remembers
which dispatches took it. That no effect is durable without its own reservation is hence said of the others.

The pc of a dispatch follows the code between awaits. `Abort` is its signal: a waiter goes to
the cascade, a dispatch queued for the chain is rejected, elsewhere the signal is seen at the
next look. `"giveup"`, `"settle"` and `Mark` are the three ways the close is written. The pc stops at the
outcome the caller is told; `"lost"` is a dispatch that a crash cut off.

A reviewer is the leader or the human; a dispatch is for the human, a leg for either of them, unless
they answered the leg below. A leg above the second would be for a human administrator, and
nothing resolves for that role, so an escalation of the second leg records itself and raises nothing.

Abstracted: the identity of a case beyond its id, the manifest of effects, the authority a call needs
(`Recheck`, a free refusal), the facts of the external policy (free), rows that do not parse, cases that
are closed when they are created, the wait of a domain that shuts down, lists and
notifications. The sequence of a row and the row are one write. `MoveTarget` is the lifecycle of
the member of a case, under a lock of its own. `appendTerminalOutcome` has no caller in production.

`ControlContract` sees of a request its answer, whether it is closed, and how often it was used.

### ClientRefresh

One team and one session. The host is `history`, the freshness pairs (durable generation,
live token) the team went through; a request is answered with one of those between its sending and
its settlement, so answers come in any order. `entry` and `lane` are the scopes of the
coordinator: a scope that was detached may still have a round in flight beside the new
one. A round probes, then pulls if the probe differs from the view. `earlier`, `superseded` and
`behind` stand for the request numbers of the store: what is compared is only
which of two requests came first, which were overtaken by an answer, and which were sent
before the loss that is open. `floor` is a history variable for `ViewNeverStale`.

The mount (`plugin/team-mount-core.ts`) reports losses to the store and restorations to
both, as in `ConnectionLost` and `ConnectionRestored`. A hidden tab is one whose ticks do not happen.
`markConnectionRestored` has no caller in production; `reset` is called at teardown only.

Not modelled: the ledger store, several teams in one store, answers without or with a
foreign team, delays of the backoff.

## 3. Runs

| Run | Instance | Shows |
|---|---|---|
| `journal` | two teams with a journal each, one operation under two request keys, two callers, three calls, one crash, any rejected write | all of `OperationJournal`, `ImplementsProtocol`; 381 106 states |
| `provisioning` | one member, two drivers, two tokens, two possible sessions, one crash, one fault, one lifecycle update | all of `Provisioning`, `ImplementsStages`; 487 660 states |
| `activation_admission` | two callers, two tokens (one a delegation), two templates (one persistent), one instance per template, one crash, one fault | `WithinQuota`, `AnswersAreTrue`, `ImplementsStages`; 2 280 305 states |
| `activation_retries` | the same with one template, one active member for the team, one crash | `RetryConverges`; 228 438 states |
| `lifecycle` | two callers, two tokens, three requests, one crash, one fault | all of `MemberLifecycle` but `DrainEnds` and `SettledOnce`; 286 081 states |
| `lifecycle_hang` | two callers, two requests | a violation: a drain and a turn wait for each other |
| `lifecycle_overlap` | two callers, one token, two requests | a violation: two overlapping attempts settle one unit twice |
| `messaging` | two calls, two members, a human and a member sending, two tokens, two sends, one change, one failure or crash | all of `Messaging` but `LeaderDelivered`; 434 346 states |
| `messaging_leader` | one call, one message, perhaps mediated, one failure | a violation: recovery skips the Leader |
| `control` | one dispatch, one call with a case, leader and human, one crash, one fault | all of `ControlPlane` but `ZeroEffect`; 765 220 states |
| `control_redrive` | the same without crash and fault | a violation: a close is reported with "zero durable effect" after a roll-forward |
| `client_refresh` | two scopes, one caller, two generations, two live tokens, one change, two failures | all of `ClientRefresh`; 638 560 states |

Bounds. `MaxCalls` and `MaxCrashes` bound the journal's environment, `MaxCrashes`,
`MaxFaults` and `MaxVersion` that of provisioning. Two callers are enough for every race
on one lock, one counter row and one stamp, and three calls let a retry follow a race
or a crash. Rejected writes of the journal are not bounded. Two teams make the domain-wide
stores (counter, chain) shared while locks and stamps are not; the second has only the facts that others
append. Two operations meet nowhere but in the counter and the chain, and so do an operation and
an appended fact. Two tokens for a member let a request meet a reservation with another identity. One
member in `provisioning` gives its drivers every race on a lock and a record; two members share
only the sessions that the factory makes. The theorems of section 6 hold for any number of operations and members,
and the invariant behind them was checked with two members too. In `lifecycle`, two calls are every pair
of a procedure with a unit, a boot or another procedure, and of two units or two attempts of one, and three
requests let a crash, an abort or an attempt in flight be followed by a retry; one member is enough because members of a team
share only the chain. In `messaging`, two sends with free tokens include the retry under the
same token, and two calls a send beside a recovery or two recoveries. In `control`, a call that
returns may ask its case again without bound, so one call is enough for an allow to be used twice or on a
leg that has risen; one dispatch meets the call only at the lock, where the call, the reviewers and
`Others` already contend with it. In `client_refresh`, two
scopes let a round outlive its scope beside a new round, and with the retry three pulls overlap; one
change after the initial pair makes every answer old or new, and two failures let a loss
meet another loss or a refusal. Symmetry is used over
interchangeable values in `activation_admission`, the one large run without a liveness property. Deadlock is
checked in all runs but those of `MemberLifecycle`, whose callers may have made all their requests,
and of `ControlPlane`, where every dispatch may have ended and every member be disposed (what must
return there are `CallsReturn` and `AnsweredReturns`): in `OperationJournal` and `Provisioning`, `Rest` is the only
step that may go on for ever, and it is enabled only when nothing is in flight.

The properties, and the lines they are about:

- `AppliedAtMostOnce`: at most one fact per operation id (`journal.ts` 131, 340);
- `CommittedIsApplied`: effects and fact, under the row's intent, are durable behind every
  COMMITTED row (328-371);
- `AnswersAreDurable`: what execute and drive report is the durable row and, for a
  COMMITTED one, the sequence of the operation's fact (307-317);
- `NeverRolledBack`: rows only move on, one generation at a time, from PREPARED, with
  their identity and recorded child; entries are permanent;
- `SequencesUnique`: the counter's bootstrap race (`ledger.ts` 89-123) hands no
  sequence out twice;
- `StampNeverAhead`: the stamp advances after its fact (`ledger.ts` 200-215);
- `EveryCallReturns`: a failed drive passes the lock on (`journal.ts` 112-128);
- `CommittedIsWhole`, `OneChildPerMember`: row, record, binding and factory agree
  (`coordinator.ts` 381-454, 522-546);
- `MemberNeverReset`: the check-then-put of a member record never overwrites one that
  the lifecycle has moved on (523-534). It holds because `ensureMemberRecord` and the
  issue of its put are one stretch of code, puts and updates share one FIFO, and a record
  must exist before the lifecycle can update it;
- `RecoveryConverges`: what a crash or a fault leaves is always a prefix that a retry completes;
- `WithinQuota`: instances that exist or are reserved stay within the bounds of team and
  template (`checks.ts` 421-527, `provider.ts` 1141-1175). Two tokens of one template
  meet a bound of one instance: enough for two activations that both pass a stale count;
- `AnswersAreTrue`: `AbortedIsClean`, an abort landing at any await that answers "nothing provisioned"
  reserved nothing (`provider.ts` 775-843, 1158, 1244), and `ActivatedIsAdmitted`, an activated answer
  names a committed, bound member of the template asked for, replays and re-drives
  included (548-600);
- `RetryConverges`: the half-made member counts against the quota, holds its own instance id and
  shadows delegations; the retry commits all the same, because the durable operation is looked
  up before any of these (647-655).

Work and lifecycle (`runtime/lifecycle/`, `work-execution.ts`, `agent-bindings.mjs`):

- `ArchivedHasNoAgent`: outside a procedure, a terminal member has no live handle, whatever
  delivery or boot was resuming it: the second drop (`archive.ts` 153) and the re-reads (4684-4711,
  5233-5274, 5277-5320) cover each other's windows;
- `CommitsWhatItRead`: no compare-and-swap of a procedure or an admission ever meets a row other
  than the one it read, though a quiesce lies between: everything that moves the row holds the chain;
- `WorkIsClosed`: `NoFakeRunning`, with no crash and no rejected write, when all calls have returned
  the member is not RUNNING, since each way out of a delivery settles (698-733); and `SettledIsClosed`, no
  settled unit keeps an open interval, resumed units included;
- `AdmissionReopened`: the admission is closed only under a procedure that closed it (172-184);
- `ImplementsContract`: legal moves only, one admission per unit though attempts of it overlap, and
  settlements of admitted units only, on a settled member, across crashes between state and fact;
- `SettledOnce`, refuted by `lifecycle_overlap`: one settlement per unit (861-862);
- `CallsReturn`: every call returns unless a drain and a turn wait for each other (`Hung`).

Messaging (`messaging/coordinator.ts`):

- `ImplementsDelivery`: an input follows its durable intent, one confirmation per intent, for a
  session that accepted, with sends and recoveries overlapping outside the chain (524-616);
- `AnsweredIsConfirmed`: a "delivered" answer has the confirmation of its own intent, also when
  two intents share a token (528-543 compares both);
- `PendingDelivered`: if recovery is called again and again, an intent whose target is and
  stays a live member, and whose token is its own, is confirmed (689-796).

Control plane (`runtime/control/service.ts`, `router.ts`, `pre-execute-adapter.ts`):

- `ImplementsContract`: no effect on a request that was abandoned between the allow and the effect
  (`service.ts` 3976-4053), and at most one use of an allow, whatever is retried, aborted, escalated or
  lost in a crash;
- `OutcomeIsDurable`: "abandoned" is reported with the mark on the disk, a commit with its reservation.
  A reservation ends as a commit, as an error or in a crash, and never as a close or a refusal, unless
  the dispatch re-drove an older operation. An invocation aborted after it asked does not end as a mere
  refusal that leaves its request open (`router.ts` 1150-1200). This takes the three closes together, of the
  wait, of the boundary and of the catch, and the two that must not close: a failure after the reservation;
- `ZeroEffect`, refuted by `control_redrive`: a dispatch reported as abandoned has no durable effect
  (`router.ts` 1044-1048);
- `CaseClimbs`: a second leg exists only over one that an escalation denied, and no reviewer answers
  on both (`service.ts` 4928);
- `AnsweredReturns`: a dispatch with an answer, a mark or a fired signal returns: no close waits for a
  lock that its own invocation holds.

Client refresh (`client/src/state/`):

- `ViewNeverStale`: the view is never older than the request of the last pull that was answered in
  order (`team-projection-store.ts` 501-561). A live token cannot be compared for age, so this
  needs the guard on top of the verdict on the pair;
- `ProbesAreFresh`: `TriggerIsFresh`, no trigger is answered by a probe sent before it, unless the view was
  closed meanwhile (`team-refresh-coordinator.ts` 425-503), and `AuthorityNeverBack`, the published
  read state never goes back, however late the probes of closed scopes settle (273-280);
- `ViewConverges`: a view that stays open comes to show the team, and does not go on loading or
  reconnecting. It may stay on "error", see section 5.

## 4. Fairness

`OperationJournal`: weak fairness of every caller's steps and of the settling of its
write. The first is the event loop, which runs every ready continuation; the second is the
seam, whose promises settle one way or the other. Nothing is assumed of callers: they
need not call again.

`Provisioning` adds strong fairness of `Recover(i)`: somebody keeps submitting the original
request while the member's operation is PREPARED. The code does not do this by itself:
`recover` is called only by `activate` when it meets the durable row of the same request
(`activation/provider.ts` 548-617). `RecoveryConverges` is therefore conditional: *if*
the caller keeps retrying, it converges. It is strong fairness because a driver is
free only now and then.

`Activation`: weak fairness of every call's steps (the event loop, awaits that settle, the
lock handed on by `withTeamLock` whether a call resolves or rejects) and strong fairness of
a retry of each token that has a durable operation, conditional in the same way. The signal,
the lifecycle, new activations and crashes are not fair.

`MemberLifecycle`: weak fairness of each call's steps, as a unit and as a procedure, and of the
flights: the event loop, and sessions that resume or fail to. A turn ends if its tool call does. No
request is fair, and a turn need not call a tool, so `CallsReturn` does not rely on either.

`Messaging`: weak fairness of every call's steps and of `Recover`. The second is conditional: in the
repository only a harness (`tools/harness/plugin.mjs` 438) calls `recoverPendingDeliveries`, so
`PendingDelivered` says what recovery achieves if it is called.

`ControlPlane`: strong fairness of each dispatch, weak fairness of the steps taken with the lock held
(`Consume`, the reviewers' later steps) and of `OthersLeaveChain`. It is strong fairness because a dispatch
waits in two promise chains that others pass through; both are first come, first served, so its turn comes.
No request, retry, review, signal, abandonment or lifecycle move is fair: `AnsweredReturns` is about dispatches
that somebody has answered, and a call of a tool, which may wait for ever, is not in it. Two limits.
`OthersLeaveChain` assumes that every other holder of the chain of the team gives it back, which
`lifecycle_hang` shows a drain may not do: `AnsweredReturns` says that a dispatch is not stuck in a lock of
its own. And what the effect does inside both chains after its reservation is one step that ends; the
delivery of the work comes after the release and is `MemberLifecycle`'s.

`ClientRefresh`: weak fairness of the rounds, the tick, the retry's timer and its answer: requests
settle, timers fire, the tab is visible. Opening a view, triggers, changes of the team and the
channel are not fair.

## 5. Findings

- `lifecycle_hang`. `runtime/action-router/work-execution.ts` 17-21 says that the chain of the team "is
  NEVER held across the model-visible turn". Archive and dispose hold it while `drainDescendants`
  awaits `agent.whenIdle` (`agent-bindings.mjs` 6150). The interrupt before the drain ends the turns
  that run, but a delivery still in `prepareAgentForRequest` submits its input after it, and if
  that turn calls a team tool, the tool waits for the chain, the drain for the turn: every later call
  of the team waits behind them.
- `messaging_leader`. R4 of `runtime/messaging/coordinator.ts` (94-97) skips a pending delivery whose
  target is "missing or not work-accepting". Recovery tests the lifecycle of any target (761);
  the live path exempts the Leader (415-416), whose v2 record has none. Every recovery therefore
  skips the messages to the Leader, and the mediated ones. `p6t3-restart.test.ts` (leg 2, line
  409) expects the opposite and passes on a seeded legacy row that has a lifecycle.
- `lifecycle_overlap`. `runtime/action-router/work-execution.ts` 861-862 repairs a missing settlement fact
  "exactly once (the caller scanned: it is absent)", and 83-84 takes a unit with only its admission fact for
  one that crashed. The scan is in phase A (462-466), the fact is written in phase C, and the admission
  receipt is given before the delivery (`router.ts` 1288-1291): a retry meanwhile resumes a unit that did
  not crash, both attempts reach `settleAdmittedWork`, which looks at the lifecycle of the member and not at the
  facts of the unit, and each writes a settlement fact.
- `control_redrive`. `runtime/action-router/router.ts` 1044-1048 tells the caller of an aborted dispatch that its
  request is closed with "zero durable effect", and 783-784 says that `effectCommitStarted` flips at the first
  durable write of the effect. It flips only on the fresh path of an activation (`provider.ts` 1271). A
  re-drive (653-655) does not call it and does not look at the signal: it rolls the operation forward (577), and
  if a later step throws and the signal has fired, 1189-1197 settle the request as abandoned.

Seen while modelling, with no run of their own:

- *stamp lag*: `storage/repositories/ledger.ts` 25-27 describes the window between a fact and its
  stamp as "a lag of exactly one change, caught up at the next mutation". Two writers of one team
  leave a lag of two, and a lag left by a crash stays: the next mutation pays only for itself.
- *two journals over one domain*: `storage/operations/journal.ts` 36-38 expects a second process
  to "fail loudly instead of double-applying". Both look for the fact before either has appended
  it, and both append; the loud failure is the second COMMITTED put. `OneJournalPerOperation`, which
  production satisfies with one coordinator per domain and root, is hence an assumption of
  every theorem and not a convenience.
- *continued and unbound*: a delegation resolves against all member records (`activation/provider.ts`
  680-713), and the record precedes the binding: it can answer `continued` with an unbound member.
- *counted twice*: `activation/checks.ts` 471-472 calls `maxInstances` the "team-wide total committed +
  in-flight instances". A member whose record is durable while its operation is still PREPARED is one
  instance, and `countTeamQuota` (427-456) counts it twice: after a crash or a failed stage an activation
  is refused below the bound, until the half-made member is re-driven.
- *restore and the quota*: `lifecycle/restore.ts` 54 brings a member back without looking at `maxActive`;
  `WithinQuota` is about what activation admits.
- *two persistent members*: a persistent delegation that finds no member awaits the consultation and
  the lock and creates one without looking again (686); two such delegations make two.
- *dispose of an archived member*: the lifecycle table allows it (`operations.ts` 98), and
  `p7t3-dispose-race.test.ts` expects it, but the drain refuses a member without a live agent.
  An archive that failed after the drop of residency leaves a
  member that cannot be archived either, until something resumes it.
- *fake RUNNING after a fault*: if the ADMIT_WORK commit succeeds and its fact is rejected, or the
  interval cannot be closed, the member stays RUNNING; `NoFakeRunning` excludes faults.
- *confirmed by token*: two intents under one token are one for recovery (725): the confirmation
  of either hides the other, hence the condition `Alone` in `PendingDelivered`.
- *an escalation in three writes*: `control/types.ts` 2440 calls them "THREE durable writes in ONE
  team-chain transaction". They share the lock, not a transaction: a fault or a crash between them leaves a
  leg denied as escalated with no leg above it, and a retry finds the leg decided. `CaseClimbs` holds in the
  one direction only.
- *who may answer a risen leg*: `resolveControl` checks the kind of the reviewer, not the authority the leg
  rose to: if the human escalates the first leg, the leader may decide the second, which is the human's.
- *an allow for a member archived meanwhile*: the guard reads the lifecycle of the target
  (`control/service.ts` 3341) before it awaits the policy facts and uses the allow (3630); the procedures
  hold another lock, so the member may be archived in between.
- *an error that stays*: if a typed error answers a retry or an overlapping pull while the view
  already equals the host, the probe says unchanged, nothing is pulled and the status
  stays "error", though `team-projection-store.ts` 578-581 says a successful recovery clears it.

## 6. Proofs

`OperationJournalProofs` proves, for every value of the constants that satisfies
`JournalAssumption` and `OneJournalPerOperation`:

| Theorem | Statement |
|---|---|
| `JournalInvariant` | `Spec => []IInv` |
| `TypeCorrect` | `Spec => []TypeOK` |
| `AppliedOnce` | `Spec => []AppliedAtMostOnce` |
| `CommittedApplied` | `Spec => []CommittedIsApplied` |
| `SequencesAllocated` | `Spec => []SequencesUnique` |
| `StampBehind` | `Spec => []StampNeverAhead` |
| `AnswersDurable` | `Spec => []AnswersAreDurable` |
| `RolledForward` | `Spec => NeverRolledBack` |
| `JournalImplementsProtocol` | `Spec => ImplementsProtocol` |

The argument. The properties speak of durable rows; none is inductive, since a step's effect
depends on what the caller captured before its await. `IInv` adds that knowledge:

- `Calling`: a journaled call past its lock is at the head of its gate. With
  `OneJournalPerOperation` no two calls are inside the protocol of one operation;
- `Chained`: a caller has at most one write on the chain, so the settling of a write
  belongs to the await it ends;
- `Fitting`: what a caller holds is still true. At `"effect"` its row is the durable PREPARED
  row and its `seq` is what `findFact` would return; at `"fact"` there is still no fact of the
  operation, the effects are durable and the sequence is free; an issued write is one that this
  knowledge allows. Stable because of the two above;
- `Distinct` and `Booting` replace the lock for the ledger, which has none: callers hold
  different sequences, and a queued bootstrap finds the counter at zero with no increment
  queued before it;
- `FactsRecorded`: a linked fact has the intent of its row and durable effects.

`OperationJournalInvariant` has a lemma per building block (`LeaveStep`, `IssueStep`, `MoveStep`,
`DurableStep`, ...), one per action, and `Inductive` combines them. The refinement
and the action property follow from `IInv` by `DurableMoves`, which lists what a step can do to
the durable state. `AnswersDurable` and `StampBehind` have invariants of their own on top:
that the answers held stay true, and that the facts of a team are matched one to one
by advances made or by callers that still owe one.

`ActivationProofs`, under `ActivationAssumption` (tokens are finite, bounds are numbers):

| Theorem | Statement |
|---|---|
| `ActivationInvariant` | `Spec => []IInv` |
| `ActivationTypes` | `Spec => []TypeOK` |
| `QuotaHolds` | `Spec => []WithinQuota` |
| `AnswersTrue` | `Spec => []AnswersAreTrue` |
| `ActivationImplementsStages` | `Spec => ImplementsStages` |

`WithinQuota` is not inductive: a reservation is one await after the count that allows it. `Admitted`
says what the call between the two knows, a fresh token and `Room` for one more; it stays true because
`Queue` has one holder, and what others do meanwhile (lifecycle moves, crashes) never adds to the count.
`InstancesCounted` connects the sets the code counts (records, in-flight reservations) with the
instances that exist, by the cardinality theorems. `Staged` puts each durable write behind the one
before it, which the refinement and the activated answers need.

`ControlPlaneProofs`, under `ControlPlaneAssumption` (names of dispatches, calls, legs and reviewers differ):

| Theorem | Statement |
|---|---|
| `ControlInvariant` | `Spec => []IInv` |
| `ControlTypes` | `Spec => []TypeOK` |
| `OutcomesDurable` | `Spec => []OutcomeIsDurable` |
| `CasesClimb` | `Spec => []CaseClimbs` |
| `ControlImplementsContract` | `Spec => ImplementsContract` |

What each actor knows between two of its steps: `Asking` the dispatch (it asks once, and every later step has
the request on the disk), `Allowed` the dispatch on its way to the effect (the answer is the allow, and inside the
boundary there is no mark), `Guarding` the call in the guard (its leg is allowed and not used),
`Reviewing` the reviewer between the writes of an allow or an escalation. `Spent` says where a reservation may be
met: behind a dispatch that re-drove an older operation, or behind one that is in its effect or ended with a
commit, an error or a crash. `Locking` says who holds which chain,
which is why this knowledge lasts, and `Deciding` that only requests have answers. The contract follows because
effect and use happen under the lock under which the last look was taken.

`MessagingProofs`, under `MessagingAssumption`:

| Theorem | Statement |
|---|---|
| `MessagingInvariant` | `Spec => []IInv` |
| `MessagingTypes` | `Spec => []TypeOK` |
| `AnswersConfirmed` | `Spec => []AnsweredIsConfirmed` |
| `MessagingImplementsDelivery` | `Spec => ImplementsDelivery` |

`Numbered`: numbers handed out are unique and not yet used, on the ledger and in the hands of calls, so a
row found under a number is the row meant. `Delivered`: what a call has done stands after its await, since
rows and inputs are permanent; a confirmation written outside any check names a session that accepted.

`ProvisioningProofs`, under `ProvisioningAssumption` (the names of the actors and `None` are apart, bounds are
numbers):

| Theorem | Statement |
|---|---|
| `ProvisioningInvariant` | `Spec => []IInv` |
| `ProvisioningTypes` | `Spec => []TypeOK` |
| `CommittedWhole` | `Spec => []CommittedIsWhole` |
| `OneChild` | `Spec => []OneChildPerMember` |
| `NeverReset` | `Spec => MemberNeverReset` |
| `ProvisioningImplementsStages` | `Spec => ImplementsStages` |
| `ProvisioningKeepsProtocol` | `Spec => Journal!Spec` |

`Rows` says how the four durable rows of a member agree, but a put lands long after the check that allowed it.
`Knows` says what a driver that reached a stage with a child in hand has seen done, and that is never taken back
(`Forward`): the child the factory made is the only one there will be. The member record is the exception,
since the lifecycle updates it while a stale put of the whole record may still be queued. `Updating`, `Chained` and
`Fresh` say that no such put comes after an update: until it has landed there is no record to update, or the record
is the untouched one the put repeats. `Locking` says that the driver that commits is alone and has its fact.

`ProvisioningKeepsProtocol` joins two models. `Journal` is `OperationProtocol` with an operation per member, the
same contract that `JournalImplementsProtocol` proves of the journal with its locks and single durable writes.
Provisioning takes a journal call in one step and makes only moves of that contract, so what it assumes of
the journal is something the journal delivers.

`MemberLifecycleProofs`, under `LifecycleAssumption`:

| Theorem | Statement |
|---|---|
| `MemberInvariant` | `Spec => []IInv` |
| `MemberTypes` | `Spec => []TypeOK` |
| `NoAgentArchived` | `Spec => []ArchivedHasNoAgent` |
| `EndedWorkIsClosed` | `Spec => []WorkIsClosed` |
| `CommitsFresh` | `Spec => []CommitsWhatItRead` |
| `AdmissionIsReopened` | `Spec => []AdmissionReopened` |
| `MemberImplementsContract` | `Spec => ImplementsContract` |

`TypeOK` fixes the shape of the chain: its first call is the one inside. `Sound` says what a call knows at each
step, of its job (`WorkAt`), of its unit (`FactsAt`: once admitted it stays admitted, and a fresh interval opens only
over a unit not yet settled, but another attempt may settle it at any time after) and, while it holds the chain, of the row (`RowAt`): the row it
read is the durable one, because only the holder changes it. `Closed` is stronger than `AdmissionReopened`: the
admission is closed *exactly* while a procedure that closed it runs, which the handles need too. `Handles` is the
argument for the marker: a boot that resumes a terminal member with the admission open finds the marker, so
it publishes nothing. `Running` says who owes the end of a `RUNNING` member, unless something failed.

`ClientRefreshProofs`, under `RefreshAssumption`:

| Theorem | Statement |
|---|---|
| `RefreshInvariant` | `Spec => []IInv` |
| `RefreshTypes` | `Spec => []TypeOK` |
| `ViewIsNeverStale` | `Spec => []ViewNeverStale` |
| `ProbesStayFresh` | `Spec => ProbesAreFresh` |

`Ordered`: an answer supersedes the pulls requested before it, so a pull still in flight and not superseded was
requested no earlier than `floor`. `Shown` is needed because `ViewNeverStale` itself is not inductive: a pull that is
refused also supersedes, but raises no `floor`, and what is shown then must still be a state the team was in.
`Grows` makes the durable generation monotone over `history`, which the comparison of freshness rests on. `Asked`: the
round a caller waits for was sent after it asked, and no read state is published that is newer than the
probe of the current scope.

TLC checked these inductive invariants before they were proved, as invariants of instances of the size of
the runs:

| Invariant | Instance | States |
|---|---|---|
| `ProvisioningProofs!IInv` | one member and one lifecycle update; two members and none | 99,846 and 839,109 |
| the same with `Journal!Spec` and `Applied` | two members, no lifecycle update | 1,144,371 |
| `MemberLifecycleProofs!IInv` | 2 callers, 2 tokens, 4 requests, 1 crash, 1 fault | 1,175,268 |
| `ClientRefreshProofs!IInv` | 2 changes and 1 failure; 1 change and 3 failures | 1,725,782 and 1,450,395 |

Nothing is assumed but the named assumptions of the modules. Where a decision ladder of the code is
stated in a module with theorems, it is an IF ladder: a CASE whose guards overlap has no defined
value for the prover.

Every safety invariant, action property and refinement that a passing run checks is stated by a theorem. Only
model-checked is liveness, which is beyond the prover: `EveryCallReturns`, `RecoveryConverges`,
`RetryConverges`, `CallsReturn`, `PendingDelivered`, `AnsweredReturns` and `ViewConverges`. No theorem states the
four properties that runs refute: `DrainEnds`, `LeaderDelivered`, `SettledOnce` and `ZeroEffect`.

## 7. Plan

1. `Proposals`: pending governance decisions, the single settle of each and the overlay it writes, with the
   await of policy facts before the put.
2. A module in which activation, work and messaging share one member, to check and prove that a delivery
   during an archive is refused or recovered; the abstract specifications above are what it would compose.

## 8. Not modelled

Governance proposals, mutations and overrides have state of their own and no module yet (plan, 1);
`Messaging` takes the overlays they write as they come. Handoffs are ledger facts over messaging and
activation. The jobs gateway leases external processes. Compatibility attestation enters `Activation` as
a free verdict. Root and ordinary bindings and their fork reconciler are left out: nothing modelled depends
on them. Of the control plane, the cases closed at creation and damaged rows are left out.

Authorization, tool admission and dispatch, coordination reads and the tools route one call at a time and
keep little state across awaits. The ledger of activity beyond the intervals of a unit, artifact reads, the
effective policy, the file sandbox and human intervention are derivations or file access. Notifications are
best-effort hints that nothing reads back. The client's ledger store pages by cursor beside the
projection store and is left out. Domain rules and contracts are pure functions that the repository
tests case by case. The remote layer maps and validates payloads. `runtime/dist` and the client's
`composition-shim` bundle are build output, `scripts` are release tooling, and the legacy reader is a
read-only importer.

The host (sessions, the KV medium, agents) is external and enters only as what the code relies on: a
FIFO of writes that settle, a factory that finds the child it made, a process that may die between any two
writes.
