------------------------------ MODULE Messaging ------------------------------
(***************************************************************************)
(* Team messaging (packages/runtime/messaging/): a send records an intent   *)
(* fact through the facade, then delivers it in three phases: it plans in   *)
(* the chain of the coordinator, submits the input to the session of the    *)
(* target outside the chain, and commits a confirmation fact in the chain.  *)
(* Recovery delivers the intents that have no confirmation.                 *)
(*                                                                         *)
(* The rows of members and overlays change under it: their own procedures   *)
(* take other locks than the chain of the coordinator.                      *)
(***************************************************************************)
EXTENDS Naturals, FiniteSets

CONSTANTS
  Calls,         \* sends and recoveries that may be in flight together
  Members, Leader, Human,
  Routes,        \* who sends to whom: records [from, to]
  Tokens,        \* request tokens
  None,
  MaxSends,      \* bound: messages ever sent
  MaxChanges,    \* bound: changes of a member row or an overlay
  MaxFailures    \* bound: writes and submissions that ever fail, and crashes

ASSUME MessagingAssumption ==
  /\ Leader \notin Members /\ Human \notin Members \cup {Leader}
  /\ Routes \subseteq [from: Members \cup {Leader, Human}, to: Members \cup {Leader}]
  /\ None \notin Calls
  /\ {MaxSends, MaxChanges, MaxFailures} \subseteq Nat

VARIABLES
  \* durable
  coordinations, deliveries,  \* ledger rows: intents, confirmations
  next,                       \* the next sequence number of the ledger
  inputs,                     \* [of, target]: inputs the sessions accepted
  life, grant,                \* member rows, and the latest autonomy overlay of each
  \* volatile
  chain,                      \* the call in the chain across an await, or None
  pc, call,                   \* a call: where it is, what it works on
  \* bounds
  sends, changes, failures

durable == <<coordinations, deliveries, next, inputs>>
rows    == <<life, grant>>
flight  == <<chain, pc, call>>
bounds  == <<sends, changes, failures>>
vars    == <<durable, rows, flight, bounds>>

-------------------------------------------------------------------------------
Recipients == Members \cup {Leader}
Messages   == [from: Recipients \cup {Human}, to: Recipients, token: Tokens]

\* recovery: the call recovers, and todo has what is left; seq: the number it allocated.
NoCall == [intent |-> None, target |-> None, seq |-> 0, recovery |-> FALSE, todo |-> {}]

Accepting(m) == life[m] = "LIVE"     \* CREATED, RUNNING or SETTLED

Goto(p, step) == pc' = [pc EXCEPT ![p] = step]

\* The call returns: with an answer, or rejected, which aborts a recovery too.
Return(p) ==
  /\ Goto(p, "idle")
  /\ call' = [call EXCEPT ![p] = NoCall]

Failure ==
  /\ failures < MaxFailures
  /\ failures' = failures + 1
  /\ UNCHANGED <<sends, changes>>

\* The target of a delivery, decided from the intent and the overlays of the moment:
\* only a message of a member to a peer is mediated, unless the sender has the grant.
Target(i) ==
  IF i.from \in Members /\ i.to # Leader /\ ~grant[i.from] THEN Leader ELSE i.to

Init ==
  /\ coordinations = {} /\ deliveries = {} /\ inputs = {}
  /\ next = 1
  /\ life = [m \in Members |-> "LIVE"]
  /\ grant = [m \in Members |-> FALSE]
  /\ chain = None
  /\ pc = [p \in Calls |-> "idle"]
  /\ call = [p \in Calls |-> NoCall]
  /\ sends = 0 /\ changes = 0 /\ failures = 0

-------------------------------------------------------------------------------
(* A send: admission and the intent fact, in the chain of the facade *)

\* Mutant: the delivery does not wait for the intent fact.
SendUnrecorded(p) ==
  /\ pc[p] = "idle"
  /\ sends < MaxSends
  /\ \E m \in Messages :
       call' = [call EXCEPT ![p].intent =
                  [seq |-> next, from |-> m.from, to |-> m.to, token |-> m.token]]
  /\ next' = next + 1
  /\ sends' = sends + 1
  /\ Goto(p, "plan")
  /\ UNCHANGED <<coordinations, deliveries, inputs, rows, chain, changes, failures>>

\* A token is not looked up: a caller that asks again records a second intent.
Send(p) ==
  /\ pc[p] = "idle"
  /\ sends < MaxSends
  /\ \A q \in Calls : pc[q] # "recording"
  /\ \E m \in Messages :
       /\ [from |-> m.from, to |-> m.to] \in Routes /\ m.from # m.to
       /\ \A party \in {m.from, m.to} \cap Members : Accepting(party)
       /\ call' = [call EXCEPT ![p].intent =
                     [seq |-> next, from |-> m.from, to |-> m.to, token |-> m.token]]
  /\ next' = next + 1
  /\ sends' = sends + 1
  /\ Goto(p, "recording")
  /\ UNCHANGED <<coordinations, deliveries, inputs, rows, chain, changes, failures>>

RecordIntent(p) ==
  /\ pc[p] = "recording"
  /\ coordinations' = coordinations \cup {call[p].intent}
  /\ Goto(p, "plan")
  /\ UNCHANGED <<deliveries, next, inputs, rows, chain, call, bounds>>

RecordFault(p) ==
  /\ pc[p] = "recording"
  /\ Failure
  /\ Return(p)
  /\ UNCHANGED <<durable, rows, chain>>

-------------------------------------------------------------------------------
(* The delivery of one intent *)

\* Phase A, in the chain: the Leader needs no lifecycle.
Prepare(p) ==
  LET target == Target(call[p].intent) IN
  /\ pc[p] = "plan" /\ chain = None
  /\ target \in Members => Accepting(target)
  /\ call' = [call EXCEPT ![p].target = target]
  /\ Goto(p, "submit")
  /\ UNCHANGED <<durable, rows, chain, bounds>>

PrepareRefused(p) ==
  LET target == Target(call[p].intent) IN
  /\ pc[p] = "plan" /\ chain = None
  /\ target \in Members /\ ~Accepting(target)
  /\ Return(p)
  /\ UNCHANGED <<durable, rows, chain, bounds>>

\* Phase B, outside the chain: the inbox of the session accepts the input.
Submit(p) ==
  /\ pc[p] = "submit"
  /\ inputs' = inputs \cup {[of |-> call[p].intent.seq, target |-> call[p].target]}
  /\ Goto(p, "confirm")
  /\ UNCHANGED <<coordinations, deliveries, next, rows, chain, call, bounds>>

\* The session refuses it: a fault, or the member was archived since the plan.
SubmitRejected(p) ==
  /\ pc[p] = "submit"
  /\ \/ Failure
     \/ call[p].target \in Members /\ ~Accepting(call[p].target) /\ UNCHANGED bounds
  /\ Return(p)
  /\ UNCHANGED <<durable, rows, chain>>

\* Mutant: any confirmation of the token stands for the one of the intent.
ConfirmedToken(i) == \E d \in deliveries : d.token = i.token

\* A confirmation of the intent, by token and sequence number.
Confirmed(i) == \E d \in deliveries : d.token = i.token /\ d.of = i.seq

\* The delivery is over: a send answers, a recovery goes on with the next intent.
Over(p) ==
  /\ call' = [call EXCEPT ![p].todo = @ \ {call[p].intent}, ![p].target = None, ![p].seq = 0]
  /\ Goto(p, IF call[p].recovery THEN "scanned" ELSE "answered")

\* Phase C, in the chain: the intent was confirmed meanwhile.
Converge(p) ==
  /\ pc[p] = "confirm" /\ chain = None
  /\ Confirmed(call[p].intent)
  /\ Over(p)
  /\ UNCHANGED <<durable, rows, chain, bounds>>

\* Mutant: the chain is released before the fact is written.
AllocateUnchained(p) ==
  /\ pc[p] = "confirm" /\ chain = None
  /\ ~Confirmed(call[p].intent)
  /\ call' = [call EXCEPT ![p].seq = next]
  /\ next' = next + 1
  /\ Goto(p, "confirming")
  /\ UNCHANGED <<coordinations, deliveries, inputs, rows, chain, bounds>>

Allocate(p) ==
  /\ pc[p] = "confirm" /\ chain = None
  /\ ~Confirmed(call[p].intent)
  /\ chain' = p
  /\ call' = [call EXCEPT ![p].seq = next]
  /\ next' = next + 1
  /\ Goto(p, "confirming")
  /\ UNCHANGED <<coordinations, deliveries, inputs, rows, bounds>>

PutConfirmation(p) ==
  /\ pc[p] = "confirming"
  /\ deliveries' = deliveries \cup
       {[seq |-> call[p].seq, of |-> call[p].intent.seq, token |-> call[p].intent.token,
         target |-> call[p].target]}
  /\ chain' = None
  /\ Over(p)
  /\ UNCHANGED <<coordinations, next, inputs, rows, bounds>>

\* Mutant: a write that fails leaves the chain taken.
ConfirmFaultWedged(p) ==
  /\ pc[p] = "confirming"
  /\ Failure
  /\ Return(p)
  /\ UNCHANGED <<durable, rows, chain>>

ConfirmFault(p) ==
  /\ pc[p] = "confirming"
  /\ Failure
  /\ chain' = None
  /\ Return(p)
  /\ UNCHANGED <<durable, rows>>

\* The sender takes its answer.
Rest(p) ==
  /\ pc[p] = "answered"
  /\ Return(p)
  /\ UNCHANGED <<durable, rows, chain, bounds>>

-------------------------------------------------------------------------------
(* Recovery *)

\* The scan: an intent is pending when no confirmation has its token.
Pending == {i \in coordinations : \A d \in deliveries : d.token # i.token}

Recover(p) ==
  /\ pc[p] = "idle" /\ chain = None
  /\ call' = [call EXCEPT ![p].recovery = TRUE, ![p].todo = Pending]
  /\ Goto(p, "scanned")
  /\ UNCHANGED <<durable, rows, chain, bounds>>

First(todo) == {i \in todo : \A j \in todo : i.seq <= j.seq}

\* A target that is no live member is skipped: the row of the Leader has no lifecycle.
Skippable(i) == Target(i) \notin {m \in Members : Accepting(m)}

Skip(p) ==
  /\ pc[p] = "scanned" /\ chain = None
  /\ \E i \in First(call[p].todo) :
       /\ Skippable(i)
       /\ call' = [call EXCEPT ![p].todo = @ \ {i}]
  /\ UNCHANGED <<durable, rows, chain, pc, bounds>>

Redeliver(p) ==
  /\ pc[p] = "scanned" /\ chain = None
  /\ \E i \in First(call[p].todo) :
       /\ ~Skippable(i)
       /\ call' = [call EXCEPT ![p].intent = i]
  /\ Goto(p, "plan")
  /\ UNCHANGED <<durable, rows, chain, bounds>>

RecoveryEnds(p) ==
  /\ pc[p] = "scanned"
  /\ call[p].todo = {}
  /\ Return(p)
  /\ UNCHANGED <<durable, rows, chain, bounds>>

-------------------------------------------------------------------------------
(* What happens around *)

Change ==
  /\ changes < MaxChanges
  /\ changes' = changes + 1
  /\ UNCHANGED <<durable, flight, sends, failures>>

\* The lifecycle of a member moves: archive, restore, dispose.
Move(m) ==
  /\ Change
  /\ \E to \in {"LIVE", "ARCHIVED", "DISPOSED"} \ {life[m]} :
       /\ life[m] # "DISPOSED"
       /\ life' = [life EXCEPT ![m] = to]
  /\ UNCHANGED grant

\* A later overlay grants the member direct messages to its peers, or revokes them.
Overlay(m) ==
  /\ Change
  /\ grant' = [grant EXCEPT ![m] = ~@]
  /\ UNCHANGED life

Crash ==
  /\ Failure
  /\ chain' = None
  /\ pc' = [p \in Calls |-> "idle"]
  /\ call' = [p \in Calls |-> NoCall]
  /\ UNCHANGED <<durable, rows>>

-------------------------------------------------------------------------------
Deliver(p) ==
  \/ Prepare(p) \/ PrepareRefused(p)
  \/ Submit(p) \/ SubmitRejected(p)
  \/ Converge(p) \/ Allocate(p) \/ PutConfirmation(p) \/ ConfirmFault(p)

Step(p) ==
  \/ RecordIntent(p) \/ RecordFault(p)
  \/ Deliver(p)
  \/ Rest(p)
  \/ Skip(p) \/ Redeliver(p) \/ RecoveryEnds(p)

Next ==
  \/ \E p \in Calls : Send(p) \/ Recover(p) \/ Step(p)
  \/ \E m \in Members : Move(m) \/ Overlay(m)
  \/ Crash

Spec == Init /\ [][Next]_vars

\* The event loop serves every call, and whoever recovers does so again and again.
FairSpec ==
  /\ Spec
  /\ \A p \in Calls : WF_vars(Step(p)) /\ WF_vars(Recover(p))

-------------------------------------------------------------------------------
(* Properties *)

Intents == [seq: 1..(next - 1), from: Recipients \cup {Human}, to: Recipients, token: Tokens]

\* The types of the state: a delivery works on an intent that is durable, sequence
\* numbers are below the counter, and the chain is taken exactly while a confirmation
\* is being written (deliverOne).
TypeOK ==
  /\ next \in Nat \ {0}
  /\ coordinations \subseteq Intents
  /\ deliveries \subseteq [seq: 1..(next - 1), of: 1..(next - 1), token: Tokens, target: Recipients]
  /\ inputs \subseteq [of: 1..(next - 1), target: Recipients]
  /\ life \in [Members -> {"LIVE", "ARCHIVED", "DISPOSED"}]
  /\ grant \in [Members -> BOOLEAN]
  /\ pc \in [Calls -> {"idle", "recording", "plan", "submit", "confirm", "confirming",
                       "answered", "scanned"}]
  /\ call \in [Calls -> [intent: Intents \cup {None}, target: Recipients \cup {None},
                          seq: 0..(next - 1), recovery: BOOLEAN, todo: SUBSET Intents]]
  /\ \A p \in Calls :
       /\ pc[p] = "idle" => call[p] = NoCall
       /\ pc[p] = "recording" => call[p].intent \in Intents \ coordinations
       /\ pc[p] \in {"plan", "submit", "confirm", "confirming", "answered"} =>
            call[p].intent \in coordinations
       /\ pc[p] \in {"submit", "confirm", "confirming"} => call[p].target \in Recipients
       /\ call[p].todo \subseteq coordinations
       /\ pc[p] = "confirming" <=> chain = p
  /\ chain \in Calls \cup {None}
  /\ sends \in 0..MaxSends /\ changes \in 0..MaxChanges /\ failures \in 0..MaxFailures

Delivery == INSTANCE MessageDelivery WITH
  Messages <- Messages, Targets <- Recipients,
  recorded <- {[seq |-> i.seq, message |-> [from |-> i.from, to |-> i.to, token |-> i.token]] :
               i \in coordinations},
  accepted <- inputs,
  confirmed <- {[seq |-> d.seq, of |-> d.of, target |-> d.target] : d \in deliveries}

\* Live sends and recoveries that overlap, fail and crash do what MessageDelivery says:
\* a recorded message before its input, and one confirmation, of a session that
\* accepted the input (rulings R1 to R3 of coordinator.ts).
ImplementsDelivery == Delivery!Spec

\* A send that answers "delivered" has the confirmation of its own intent in the ledger,
\* also when it converged on one it did not write, and when a retry shares its token.
AnsweredIsConfirmed ==
  \A p \in Calls : pc[p] = "answered" =>
    \E d \in deliveries : d.of = call[p].intent.seq

\* The intent is alone with its token.
Alone(i) == \A j \in coordinations : j.token = i.token => j = i

Stays(i, targets) == i \in coordinations /\ Alone(i) /\ Target(i) \in targets

\* R3 for members: if recovery is called again and again, an intent whose target is and
\* stays a live member is confirmed in the end, whatever failed before.
PendingDelivered ==
  \A n \in 1..(2 * MaxSends) :
    <>[](\E i \in coordinations :
           i.seq = n /\ Stays(i, {m \in Members : Accepting(m)}))
      => <>(\E d \in deliveries : d.of = n)

\* R3 and R4 for the Leader: the intents that coordinator.ts lets recovery skip are those
\* whose target is missing or does not accept work, and the Leader does.
LeaderDelivered ==
  \A n \in 1..(2 * MaxSends) :
    <>[](\E i \in coordinations : i.seq = n /\ Stays(i, {Leader}))
      => <>(\E d \in deliveries : d.of = n)
===============================================================================
