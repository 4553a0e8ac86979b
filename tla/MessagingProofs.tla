--------------------------- MODULE MessagingProofs ---------------------------
(***************************************************************************)
(* The theorems about Messaging: its safety properties and the refinement   *)
(* of MessageDelivery, for any number of calls, members, messages, changes  *)
(* and failures.                                                           *)
(***************************************************************************)
EXTENDS Messaging, TLAPS

\* An intent is known by its number, and a confirmation is of a recorded intent.
Recorded ==
  /\ \A i, j \in coordinations : i.seq = j.seq => i = j
  /\ \A d \in deliveries : \E i \in coordinations : i.seq = d.of /\ i.token = d.token

\* No row has the number.
Free(n) == (\A i \in coordinations : i.seq # n) /\ (\A d \in deliveries : d.seq # n)

\* The numbers that calls hold for a row they are writing are free, and not the same.
Numbered ==
  /\ \A p \in Calls :
       /\ pc[p] = "recording" => Free(call[p].intent.seq)
       /\ pc[p] = "confirming" => call[p].seq # 0 /\ Free(call[p].seq)
  /\ \A p, q \in Calls :
       /\ pc[p] = "recording" /\ pc[q] = "recording" => p = q
       /\ pc[p] = "recording" /\ pc[q] = "confirming" => call[p].intent.seq # call[q].seq

\* What a delivery did before its await stands after it.
Delivered ==
  \A p \in Calls :
    /\ pc[p] \in {"confirm", "confirming"} =>
         [of |-> call[p].intent.seq, target |-> call[p].target] \in inputs
    /\ pc[p] = "confirming" => \A d \in deliveries : d.of # call[p].intent.seq

\* The inductive invariant.
IInv == TypeOK /\ Recorded /\ Numbered /\ Delivered /\ AnsweredIsConfirmed

-------------------------------------------------------------------------------
USE MessagingAssumption

LEMMA InitHolds == Init => IInv
<1> SUFFICES ASSUME Init PROVE IInv
   OBVIOUS
<1>1. TypeOK
   BY DEF Init, TypeOK, NoCall, Intents
<1>2. Recorded /\ Numbered /\ Delivered /\ AnsweredIsConfirmed
   BY DEF Init, Recorded, Numbered, Delivered, AnsweredIsConfirmed
<1> QED BY <1>1, <1>2 DEF IInv

\* A step of p that writes no row keeps what the others know: it goes on to s with w.
LEMMA CallMoves ==
  ASSUME IInv, NEW p \in Calls,
         NEW s \in {"idle", "plan", "submit", "confirm", "answered", "scanned"},
         NEW w, Goto(p, s), call' = [call EXCEPT ![p] = w],
         w \in [intent: Intents \cup {None}, target: Recipients \cup {None},
                seq: 0..(next - 1), recovery: BOOLEAN, todo: SUBSET coordinations],
         s = "idle" => w = NoCall,
         s \in {"plan", "submit", "confirm", "answered"} => w.intent \in coordinations,
         s \in {"submit", "confirm"} => w.target \in Recipients,
         s = "confirm" => [of |-> w.intent.seq, target |-> w.target] \in inputs',
         s = "answered" => \E d \in deliveries : d.of = w.intent.seq,
         pc[p] = "confirming" <=> chain # chain',
         chain' \in {chain, None},
         inputs \subseteq inputs', inputs' \subseteq [of: 1..(next - 1), target: Recipients],
         UNCHANGED <<coordinations, deliveries, next, rows, sends, changes>>,
         failures' \in 0..MaxFailures
  PROVE  IInv'
<1> USE DEF IInv, TypeOK, Goto, rows
<1>1. Intents' = Intents
   BY DEF Intents
<1>2. TypeOK'
   BY <1>1
<1>3. Recorded' /\ Numbered'
   BY DEF Recorded, Numbered, Free
<1>4. Delivered' /\ AnsweredIsConfirmed'
   BY DEF Delivered, AnsweredIsConfirmed
<1> QED BY <1>2, <1>3, <1>4

\* What a call holds, and that a return forgets all of it.
LEMMA CallFacts ==
  ASSUME IInv, NEW p \in Calls
  PROVE  /\ call[p] \in [intent: Intents \cup {None}, target: Recipients \cup {None},
                        seq: 0..(next - 1), recovery: BOOLEAN, todo: SUBSET coordinations]
         /\ NoCall \in [intent: Intents \cup {None}, target: Recipients \cup {None},
                       seq: 0..(next - 1), recovery: BOOLEAN, todo: SUBSET coordinations]
         /\ coordinations \subseteq Intents
BY DEF IInv, TypeOK, NoCall

\* A delivery that is over keeps its intent and forgets the rest.
LEMMA OverFacts ==
  ASSUME IInv, NEW p \in Calls, Over(p)
  PROVE  /\ \E w \in [intent: Intents \cup {None}, target: Recipients \cup {None},
                     seq: 0..(next - 1), recovery: BOOLEAN, todo: SUBSET coordinations] :
              w.intent = call[p].intent /\ call' = [call EXCEPT ![p] = w]
         /\ call' \in [Calls -> [intent: Intents \cup {None}, target: Recipients \cup {None},
                               seq: 0..(next - 1), recovery: BOOLEAN, todo: SUBSET Intents]]
<1>1. /\ call \in [Calls -> [intent: Intents \cup {None}, target: Recipients \cup {None},
                            seq: 0..(next - 1), recovery: BOOLEAN, todo: SUBSET Intents]]
      /\ coordinations \subseteq Intents /\ call[p].todo \subseteq coordinations
      /\ 0 \in 0..(next - 1)
   BY DEF IInv, TypeOK
<1> DEFINE w == [call[p] EXCEPT !.todo = @ \ {call[p].intent}, !.target = None, !.seq = 0]
<1>2. /\ w \in [intent: Intents \cup {None}, target: Recipients \cup {None},
               seq: 0..(next - 1), recovery: BOOLEAN, todo: SUBSET coordinations]
      /\ w.intent = call[p].intent
   BY <1>1
<1>3. call' = [call EXCEPT ![p] = w]
   BY <1>1 DEF Over
<1> HIDE DEF w
<1> QED BY <1>1, <1>2, <1>3

LEMMA ReturnStep ==
  ASSUME IInv, NEW p \in Calls, Return(p), failures' \in 0..MaxFailures,
         UNCHANGED <<durable, rows, sends, changes>>,
         IF pc[p] = "confirming" THEN chain' = None ELSE UNCHANGED chain
  PROVE  IInv'
<1>1. pc[p] = "confirming" <=> chain # chain'
   BY DEF IInv, TypeOK
<1>2. inputs \subseteq [of: 1..(next - 1), target: Recipients]
   BY DEF IInv, TypeOK
<1> QED BY <1>1, <1>2, CallFacts, CallMoves DEF Return, durable

\* The rejections and the ends of a call.
LEMMA ReturnSteps ==
  ASSUME IInv, NEW p \in Calls,
         \/ RecordFault(p) \/ PrepareRefused(p) \/ SubmitRejected(p) \/ ConfirmFault(p)
         \/ Rest(p) \/ RecoveryEnds(p)
  PROVE  IInv'
<1>1. failures' \in 0..MaxFailures /\ UNCHANGED <<sends, changes>>
   BY DEF IInv, TypeOK, bounds, Failure, RecordFault, PrepareRefused, SubmitRejected,
          ConfirmFault, Rest, RecoveryEnds
<1> QED BY <1>1, ReturnStep DEF RecordFault, PrepareRefused, SubmitRejected, ConfirmFault,
                                Rest, RecoveryEnds

\* A delivery plans, submits, or converges on a confirmation.
LEMMA DeliveryStep ==
  ASSUME IInv, NEW p \in Calls, Prepare(p) \/ Submit(p) \/ Converge(p)
  PROVE  IInv'
<1> DEFINE Works(w) ==
      w \in [intent: Intents \cup {None}, target: Recipients \cup {None},
            seq: 0..(next - 1), recovery: BOOLEAN, todo: SUBSET coordinations]
<1>1. /\ call[p].intent \in coordinations /\ call[p].intent \in Intents
      /\ call \in [Calls -> [intent: Intents \cup {None}, target: Recipients \cup {None},
                            seq: 0..(next - 1), recovery: BOOLEAN, todo: SUBSET Intents]]
      /\ inputs \subseteq [of: 1..(next - 1), target: Recipients]
      /\ failures \in 0..MaxFailures /\ Works(call[p]) /\ next \in Nat \ {0}
   BY CallFacts DEF IInv, TypeOK, Prepare, Submit, Converge
<1>2. CASE Prepare(p)
   <2> DEFINE w == [call[p] EXCEPT !.target = Target(call[p].intent)]
   <2>1. Target(call[p].intent) \in Recipients
      BY <1>1 DEF Target, Recipients, Intents
   <2>2. Works(w) /\ w.intent = call[p].intent /\ w.target \in Recipients
      BY <1>1, <2>1
   <2>3. call' = [call EXCEPT ![p] = w]
      BY <1>1, <1>2 DEF Prepare
   <2> HIDE DEF w
   <2> QED BY <1>1, <1>2, <2>2, <2>3, CallMoves DEF Prepare, durable, bounds
<1>3. CASE Submit(p)
   <2>1. call' = [call EXCEPT ![p] = call[p]] /\ call[p].target \in Recipients
      BY <1>1, <1>3 DEF Submit, IInv, TypeOK
   <2>2. inputs' \subseteq [of: 1..(next - 1), target: Recipients]
      BY <1>1, <1>3, <2>1 DEF Submit, Intents
   <2> QED BY <1>1, <1>3, <2>1, <2>2, CallMoves DEF Submit, bounds
<1>4. CASE Converge(p)
   <2> DEFINE s == IF call[p].recovery THEN "scanned" ELSE "answered"
   <2>1. PICK w : Works(w) /\ w.intent = call[p].intent /\ call' = [call EXCEPT ![p] = w]
      BY <1>4, OverFacts DEF Converge
   <2>2. Goto(p, s)
      BY <1>4 DEF Converge, Over
   <2>3. \E d \in deliveries : d.of = w.intent.seq
      BY <1>4, <2>1 DEF Converge, Confirmed
   <2>4. s \in {"scanned", "answered"}
      OBVIOUS
   <2> HIDE DEF s
   <2> QED BY <1>1, <1>4, <2>1, <2>2, <2>3, <2>4, CallMoves DEF Converge, durable, bounds
<1> QED BY <1>2, <1>3, <1>4

\* A recovery scans, skips, and takes up an intent.
LEMMA RecoveryStep ==
  ASSUME IInv, NEW p \in Calls, Recover(p) \/ Skip(p) \/ Redeliver(p)
  PROVE  IInv'
<1> DEFINE Works(w) ==
      w \in [intent: Intents \cup {None}, target: Recipients \cup {None},
            seq: 0..(next - 1), recovery: BOOLEAN, todo: SUBSET coordinations]
<1>1. /\ call \in [Calls -> [intent: Intents \cup {None}, target: Recipients \cup {None},
                            seq: 0..(next - 1), recovery: BOOLEAN, todo: SUBSET Intents]]
      /\ inputs \subseteq [of: 1..(next - 1), target: Recipients]
      /\ failures \in 0..MaxFailures /\ Works(call[p]) /\ coordinations \subseteq Intents
   BY CallFacts DEF IInv, TypeOK
<1>2. CASE Recover(p)
   <2> DEFINE w == [call[p] EXCEPT !.recovery = TRUE, !.todo = Pending]
   <2>1. Works(w)
      BY <1>1 DEF Pending
   <2>2. call' = [call EXCEPT ![p] = w]
      BY <1>1, <1>2 DEF Recover
   <2> HIDE DEF w
   <2> QED BY <1>1, <1>2, <2>1, <2>2, CallMoves DEF Recover, durable, bounds
<1>3. CASE Skip(p)
   <2> PICK i \in First(call[p].todo) :
         call' = [call EXCEPT ![p].todo = @ \ {i}]
      BY <1>3 DEF Skip
   <2> DEFINE w == [call[p] EXCEPT !.todo = @ \ {i}]
   <2>1. Works(w)
      BY <1>1
   <2>2. call' = [call EXCEPT ![p] = w] /\ Goto(p, "scanned")
      BY <1>1, <1>3 DEF Skip, Goto, IInv, TypeOK
   <2> HIDE DEF w
   <2> QED BY <1>1, <1>3, <2>1, <2>2, CallMoves DEF Skip, durable, bounds
<1>4. CASE Redeliver(p)
   <2> PICK i \in First(call[p].todo) :
         call' = [call EXCEPT ![p].intent = i]
      BY <1>4 DEF Redeliver
   <2> DEFINE w == [call[p] EXCEPT !.intent = i]
   <2>1. Works(w) /\ w.intent \in coordinations
      BY <1>1 DEF First
   <2>2. call' = [call EXCEPT ![p] = w]
      BY <1>1
   <2> HIDE DEF w
   <2> QED BY <1>1, <1>4, <2>1, <2>2, CallMoves DEF Redeliver, durable, bounds
<1> QED BY <1>2, <1>3, <1>4

\* The numbers of rows, and of the intents that calls hold, are below the next one.
LEMMA NextIsFree ==
  ASSUME IInv
  PROVE  /\ Free(next)
         /\ \A p \in Calls : /\ call[p].seq # next
                            /\ pc[p] = "recording" => call[p].intent.seq # next
BY DEF Free, Intents, IInv, TypeOK

LEMMA SendStep ==
  ASSUME IInv, NEW p \in Calls, Send(p)
  PROVE  IInv'
<1> USE DEF IInv, TypeOK, Goto, rows
<1> PICK m \in Messages :
      call' = [call EXCEPT ![p].intent =
                 [seq |-> next, from |-> m.from, to |-> m.to, token |-> m.token]]
   BY DEF Send
<1> DEFINE i == [seq |-> next, from |-> m.from, to |-> m.to, token |-> m.token]
<1>1. next \in Nat /\ next' = next + 1 /\ 1..(next - 1) \subseteq 1..next /\ 0..(next - 1) \subseteq 0..next
   BY DEF Send
<1>2. Intents \subseteq Intents' /\ i \in Intents' /\ i \notin Intents
   BY <1>1 DEF Intents, Messages
<1>3. TypeOK'
   <2>1. call' \in [Calls -> [intent: Intents' \cup {None}, target: Recipients \cup {None},
                             seq: 0..next, recovery: BOOLEAN, todo: SUBSET Intents']]
      BY <1>1, <1>2
   <2>2. /\ next' \in Nat \ {0} /\ coordinations' \subseteq Intents' /\ sends' \in 0..MaxSends
         /\ deliveries' \subseteq [seq: 1..next, of: 1..next, token: Tokens, target: Recipients]
         /\ inputs' \subseteq [of: 1..next, target: Recipients]
      BY <1>1, <1>2 DEF Send
   <2>3. \A q \in Calls \ {p} : call'[q] = call[q] /\ pc'[q] = pc[q]
      BY DEF Send
   <2>4. call'[p].intent = i /\ call'[p].todo = call[p].todo /\ pc'[p] = "recording"
      BY DEF Send
   <2>5. i \notin coordinations
      BY <1>2
   <2>6. pc' \in [Calls -> {"idle", "recording", "plan", "submit", "confirm", "confirming",
                           "answered", "scanned"}]
      BY DEF Send
   <2> HIDE DEF i
   <2> QED BY <1>1, <1>2, <2>1, <2>2, <2>3, <2>4, <2>5, <2>6 DEF Send
<1>4. Recorded'
   BY DEF Recorded, Send
<1>5. Numbered'
   BY NextIsFree DEF Numbered, Free, Send
<1>6. Delivered' /\ AnsweredIsConfirmed'
   BY DEF Delivered, AnsweredIsConfirmed, Send
<1> QED BY <1>3, <1>4, <1>5, <1>6

LEMMA RecordStep ==
  ASSUME IInv, NEW p \in Calls, RecordIntent(p)
  PROVE  IInv'
<1> USE DEF IInv, TypeOK, Goto, rows, bounds, RecordIntent
<1>1. TypeOK'
   BY DEF Intents, Numbered
<1>2. Recorded' /\ Numbered'
   BY DEF Recorded, Numbered, Free
<1>3. Delivered' /\ AnsweredIsConfirmed'
   BY DEF Delivered, AnsweredIsConfirmed
<1> QED BY <1>1, <1>2, <1>3

LEMMA AllocateStep ==
  ASSUME IInv, NEW p \in Calls, Allocate(p)
  PROVE  IInv'
<1> USE DEF IInv, TypeOK, Goto, rows, bounds, Allocate
<1>1. next \in Nat /\ next' = next + 1 /\ 1..(next - 1) \subseteq 1..next /\ 0..(next - 1) \subseteq 0..next
   OBVIOUS
<1>2. Intents \subseteq Intents'
   BY <1>1 DEF Intents
<1>3. TypeOK'
   BY <1>1, <1>2
<1>4. Recorded'
   BY DEF Recorded
<1>5. Numbered'
   BY NextIsFree DEF Numbered, Free
<1>6. \A d \in deliveries : d.of # call[p].intent.seq
   BY DEF Confirmed, Recorded
<1>7. Delivered' /\ AnsweredIsConfirmed'
   BY <1>6 DEF Delivered, AnsweredIsConfirmed
<1> QED BY <1>3, <1>4, <1>5, <1>7

LEMMA ConfirmStep ==
  ASSUME IInv, NEW p \in Calls, PutConfirmation(p)
  PROVE  IInv'
<1> USE DEF IInv, TypeOK, Goto, rows, bounds, PutConfirmation, Over
<1> DEFINE d == [seq |-> call[p].seq, of |-> call[p].intent.seq,
                 token |-> call[p].intent.token, target |-> call[p].target]
<1>1. chain = p /\ call[p].intent \in coordinations /\ call[p].intent \in Intents
   OBVIOUS
<1>2. d \in [seq: 1..(next - 1), of: 1..(next - 1), token: Tokens, target: Recipients]
   BY <1>1 DEF Numbered, Intents
<1>3. call' \in [Calls -> [intent: Intents \cup {None}, target: Recipients \cup {None},
                          seq: 0..(next - 1), recovery: BOOLEAN, todo: SUBSET Intents]]
   BY OverFacts
<1>4. TypeOK'
   <2>1. \A q \in Calls \ {p} : call'[q] = call[q] /\ pc'[q] = pc[q]
      OBVIOUS
   <2>2. /\ pc'[p] \in {"scanned", "answered"} /\ call'[p].intent = call[p].intent
         /\ call'[p].todo \subseteq coordinations
      OBVIOUS
   <2>3. deliveries' = deliveries \cup {d}
      OBVIOUS
   <2>4. pc' = [pc EXCEPT ![p] = pc'[p]]
      OBVIOUS
   <2>5. TypeOK /\ UNCHANGED <<coordinations, next, inputs, life, grant, sends, changes, failures>>
      OBVIOUS
   <2>6. chain' = None
      OBVIOUS
   <2> HIDE DEF IInv, TypeOK, Goto, rows, bounds, PutConfirmation, Over, d
   <2>7. \A q \in Calls :
           /\ pc'[q] = "idle" => call'[q] = NoCall
           /\ pc'[q] = "recording" => call'[q].intent \in Intents \ coordinations
           /\ pc'[q] \in {"plan", "submit", "confirm", "confirming", "answered"} =>
                call'[q].intent \in coordinations
           /\ pc'[q] \in {"submit", "confirm", "confirming"} => call'[q].target \in Recipients
           /\ call'[q].todo \subseteq coordinations
           /\ pc'[q] # "confirming"
      <3>1. \A q \in Calls \ {p} :
              /\ pc[q] = "idle" => call[q] = NoCall
              /\ pc[q] = "recording" => call[q].intent \in Intents \ coordinations
              /\ pc[q] \in {"plan", "submit", "confirm", "confirming", "answered"} =>
                   call[q].intent \in coordinations
              /\ pc[q] \in {"submit", "confirm", "confirming"} => call[q].target \in Recipients
              /\ call[q].todo \subseteq coordinations
              /\ pc[q] # "confirming"
         BY <1>1, <2>5 DEF TypeOK
      <3> QED BY <1>1, <2>1, <2>2, <3>1
   <2>8. pc' \in [Calls -> {"idle", "recording", "plan", "submit", "confirm", "confirming",
                            "answered", "scanned"}]
      BY <2>2, <2>4, <2>5 DEF TypeOK
   <2>9. None \notin Calls
      BY MessagingAssumption
   <2>10. deliveries' \subseteq [seq: 1..(next - 1), of: 1..(next - 1), token: Tokens,
                                 target: Recipients]
      BY <1>2, <2>3, <2>5 DEF TypeOK
   <2>11. \A q \in Calls : pc'[q] = "confirming" <=> chain' = q
      BY <2>6, <2>7, <2>9
   <2> QED BY <1>3, <2>5, <2>6, <2>7, <2>8, <2>10, <2>11 DEF TypeOK, Intents
<1>5. Recorded'
   BY <1>1 DEF Recorded
<1>6. Numbered'
   BY <1>1 DEF Numbered, Free
<1>7. \A q \in Calls \ {p} : call'[q] = call[q] /\ pc'[q] = pc[q] /\ pc[q] # "confirming"
   BY <1>1
<1>8. d \in deliveries' /\ d.of = call'[p].intent.seq /\ pc'[p] \in {"scanned", "answered"}
   OBVIOUS
<1>9. Delivered'
   BY <1>7, <1>8 DEF Delivered
<1>10. AnsweredIsConfirmed'
   <2> HIDE DEF IInv, TypeOK, Goto, rows, bounds, PutConfirmation, Over, d
   <2>1. AnsweredIsConfirmed /\ deliveries \subseteq deliveries'
      BY DEF IInv, PutConfirmation
   <2>2. ASSUME NEW q \in Calls, pc'[q] = "answered"
         PROVE  \E e \in deliveries' : e.of = call'[q].intent.seq
      <3>1. CASE q = p
         BY <1>8, <3>1
      <3>2. CASE q # p
         BY <1>7, <2>1, <2>2, <3>2 DEF AnsweredIsConfirmed
      <3> QED BY <3>1, <3>2
   <2> QED BY <2>2 DEF AnsweredIsConfirmed
<1> QED BY <1>4, <1>5, <1>6, <1>9, <1>10

\* Members and overlays move, and a crash forgets the calls.
LEMMA EnvironmentStep ==
  ASSUME IInv, (\E m \in Members : Move(m) \/ Overlay(m)) \/ Crash
  PROVE  IInv'
<1> USE DEF IInv, TypeOK, durable, flight, rows
<1>1. CASE \E m \in Members : Move(m) \/ Overlay(m)
   <2>1. UNCHANGED <<durable, flight, sends, failures>> /\ changes' \in 0..MaxChanges
      BY <1>1 DEF Move, Overlay, Change
   <2>2. life' \in [Members -> {"LIVE", "ARCHIVED", "DISPOSED"}]
      BY <1>1 DEF Move, Overlay
   <2>3. grant' \in [Members -> BOOLEAN]
      <3>1. ASSUME NEW m \in Members, grant' = [grant EXCEPT ![m] = ~@]
            PROVE  grant' \in [Members -> BOOLEAN]
         BY <3>1, Zenon
      <3> QED BY <1>1, <3>1 DEF Move, Overlay
   <2>4. TypeOK'
      BY <2>1, <2>2, <2>3 DEF Intents
   <2>5. Recorded' /\ Numbered' /\ Delivered' /\ AnsweredIsConfirmed'
      BY <2>1 DEF Recorded, Numbered, Free, Delivered, AnsweredIsConfirmed
   <2> QED BY <2>4, <2>5
<1>2. CASE Crash
   <2>1. TypeOK'
      BY <1>2 DEF Crash, Failure, NoCall, Intents
   <2>2. Recorded' /\ Numbered' /\ Delivered' /\ AnsweredIsConfirmed'
      BY <1>2 DEF Crash, Recorded, Numbered, Delivered, AnsweredIsConfirmed
   <2> QED BY <2>1, <2>2
<1> QED BY <1>1, <1>2

LEMMA StutterStep ==
  ASSUME IInv, UNCHANGED vars
  PROVE  IInv'
BY DEF IInv, vars, durable, rows, flight, bounds, TypeOK, Intents, Recorded, Numbered, Free,
       Delivered, AnsweredIsConfirmed

LEMMA Inductive == IInv /\ [Next]_vars => IInv'
<1> SUFFICES ASSUME IInv, [Next]_vars PROVE IInv'
   OBVIOUS
<1>1. ASSUME NEW p \in Calls, Send(p) \/ Recover(p) \/ Step(p) PROVE IInv'
   BY <1>1, SendStep, RecordStep, DeliveryStep, AllocateStep, ConfirmStep, RecoveryStep,
      ReturnSteps DEF Step, Deliver
<1>2. CASE (\E m \in Members : Move(m) \/ Overlay(m)) \/ Crash
   BY <1>2, EnvironmentStep
<1>3. CASE UNCHANGED vars
   BY <1>3, StutterStep
<1> QED BY <1>1, <1>2, <1>3 DEF Next

-------------------------------------------------------------------------------
\* What the calls know of the ledger stays true, for any number of calls and messages.
THEOREM MessagingInvariant == Spec => []IInv
BY InitHolds, Inductive, PTL DEF Spec

\* Every variable keeps its type, and a delivery works on an intent that is durable.
THEOREM MessagingTypes == Spec => []TypeOK
<1>1. IInv => TypeOK
   BY DEF IInv
<1> QED BY <1>1, MessagingInvariant, PTL

\* coordinator.ts deliverOne: a "delivered" answer has the confirmation of its own intent.
THEOREM AnswersConfirmed == Spec => []AnsweredIsConfirmed
<1>1. IInv => AnsweredIsConfirmed
   BY DEF IInv
<1> QED BY <1>1, MessagingInvariant, PTL

-------------------------------------------------------------------------------
(* The refinement *)

Fact(i)    == [seq |-> i.seq, message |-> [from |-> i.from, to |-> i.to, token |-> i.token]]
Receipt(d) == [seq |-> d.seq, of |-> d.of, target |-> d.target]

Refines == [Delivery!Next]_(Delivery!vars)

LEMMA LedgerUntouched ==
  ASSUME UNCHANGED <<coordinations, deliveries, inputs>>
  PROVE  Refines
BY DEF Refines, Delivery!vars

\* A free number is one the contract has not used.
LEMMA FreeIsUnused == ASSUME NEW n, Free(n) PROVE Delivery!Unused(n)
BY DEF Free, Delivery!Unused

LEMMA IntentRecorded ==
  ASSUME IInv, NEW p \in Calls, RecordIntent(p)
  PROVE  Refines
<1> DEFINE i == call[p].intent
<1>1. i \in Intents /\ Free(i.seq)
   BY DEF IInv, TypeOK, Numbered, RecordIntent
<1>2. coordinations' = coordinations \cup {i} /\ UNCHANGED <<deliveries, inputs>>
   BY DEF RecordIntent
<1> HIDE DEF i
<1>3. {Fact(j) : j \in coordinations'} = {Fact(j) : j \in coordinations} \cup {Fact(i)}
   BY <1>2
<1>4. Fact(i).message \in Messages /\ Fact(i).seq = i.seq
   BY <1>1 DEF Fact, Intents, Messages
<1>5. Delivery!Record(Fact(i))
   BY <1>1, <1>2, <1>3, <1>4, FreeIsUnused DEF Delivery!Record, Fact
<1>6. Fact(i) \in {Fact(j) : j \in coordinations'}
   BY <1>3
<1> DEFINE r == Fact(i)
<1>7. Delivery!Record(r) /\ r \in {Fact(j) : j \in coordinations'}
   BY <1>5, <1>6
<1> HIDE DEF r
<1> QED BY <1>7 DEF Refines, Delivery!Next, Delivery!Record, Fact

LEMMA InputAccepted ==
  ASSUME IInv, NEW p \in Calls, Submit(p)
  PROVE  Refines
<1> DEFINE i == call[p].intent
           a == [of |-> i.seq, target |-> call[p].target]
<1>1. i \in coordinations /\ call[p].target \in Recipients
   BY DEF IInv, TypeOK, Submit
<1>2. inputs' = inputs \cup {a} /\ UNCHANGED <<coordinations, deliveries>>
   BY DEF Submit
<1>3. a.of = i.seq /\ a.target = call[p].target
   OBVIOUS
<1>4. Fact(i) \in {Fact(j) : j \in coordinations} /\ Fact(i).seq = i.seq
   BY <1>1 DEF Fact
<1> HIDE DEF a, i
<1>5. Delivery!Accept(a)
   BY <1>1, <1>2, <1>3, <1>4 DEF Delivery!Accept, Fact
<1> QED BY <1>2, <1>5 DEF Refines, Delivery!Next

LEMMA DeliveryConfirmed ==
  ASSUME IInv, NEW p \in Calls, PutConfirmation(p)
  PROVE  Refines
<1> DEFINE d == [seq |-> call[p].seq, of |-> call[p].intent.seq,
                 token |-> call[p].intent.token, target |-> call[p].target]
<1>1. /\ Free(d.seq) /\ [of |-> d.of, target |-> d.target] \in inputs
      /\ \A e \in deliveries : e.of # d.of
   BY DEF IInv, Numbered, Delivered, PutConfirmation
<1>2. deliveries' = deliveries \cup {d} /\ UNCHANGED <<coordinations, inputs>>
   BY DEF PutConfirmation
<1> HIDE DEF d
<1>3. {Receipt(e) : e \in deliveries'} = {Receipt(e) : e \in deliveries} \cup {Receipt(d)}
   BY <1>2
<1>4. Receipt(d).seq = d.seq /\ Receipt(d).of = d.of /\ Receipt(d).target = d.target
   BY DEF Receipt
<1>5. Delivery!Confirm(Receipt(d))
   BY <1>1, <1>2, <1>3, <1>4, FreeIsUnused DEF Delivery!Confirm, Receipt
<1>6. Receipt(d) \in {Receipt(e) : e \in deliveries'}
   BY <1>3
<1> DEFINE c == Receipt(d)
<1>7. Delivery!Confirm(c) /\ c \in {Receipt(e) : e \in deliveries'}
   BY <1>5, <1>6
<1> HIDE DEF c
<1> QED BY <1>7 DEF Refines, Delivery!Next, Delivery!Confirm, Receipt

\* No other step writes an intent, an input or a confirmation.
LEMMA StepRefines == IInv /\ [Next]_vars => Refines
<1> SUFFICES ASSUME IInv, [Next]_vars PROVE Refines
   OBVIOUS
<1> USE DEF durable
<1>1. ASSUME NEW p \in Calls, Send(p) \/ Recover(p) \/ Step(p) PROVE Refines
   <2>1. CASE RecordIntent(p) \/ Submit(p) \/ PutConfirmation(p)
      BY <2>1, IntentRecorded, InputAccepted, DeliveryConfirmed
   <2>2. CASE Send(p) \/ Recover(p) \/ RecordFault(p) \/ Rest(p) \/ Skip(p) \/ Redeliver(p)
                \/ RecoveryEnds(p)
      BY <2>2, LedgerUntouched DEF Send, Recover, RecordFault, Rest, Skip, Redeliver, RecoveryEnds
   <2>3. CASE Prepare(p) \/ PrepareRefused(p) \/ SubmitRejected(p) \/ Converge(p) \/ Allocate(p)
                \/ ConfirmFault(p)
      BY <2>3, LedgerUntouched DEF Prepare, PrepareRefused, SubmitRejected, Converge, Allocate,
                                   ConfirmFault
   <2> QED BY <1>1, <2>1, <2>2, <2>3 DEF Step, Deliver
<1>2. CASE (\E m \in Members : Move(m) \/ Overlay(m)) \/ Crash \/ UNCHANGED vars
   BY <1>2, LedgerUntouched DEF Move, Overlay, Change, Crash, vars
<1> QED BY <1>1, <1>2 DEF Next

LEMMA InitRefines == Init => Delivery!Init
BY DEF Init, Delivery!Init

\* coordinator.ts, rulings R1 to R3: a recorded message before its input, and one
\* confirmation of a session that accepted, whatever overlaps, fails or crashes.
THEOREM MessagingImplementsDelivery == Spec => ImplementsDelivery
<1>1. IInv /\ [Next]_vars => [Delivery!Next]_(Delivery!vars)
   BY StepRefines DEF Refines
<1> QED BY <1>1, InitRefines, MessagingInvariant, PTL DEF Spec, ImplementsDelivery, Delivery!Spec
===============================================================================
