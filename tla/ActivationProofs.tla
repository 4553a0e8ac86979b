-------------------------- MODULE ActivationProofs --------------------------
(***************************************************************************)
(* The theorems about Activation: its safety properties, the quota among    *)
(* them, and the refinement of ProvisioningStages, for any finite number of *)
(* tokens and any number of calls, templates, faults and crashes.           *)
(***************************************************************************)
EXTENDS Activation, TLAPS, FiniteSetTheorems

\* The lock is a queue of calls that wait in it; its head may be further on.
Queue ==
  /\ \A i, j \in 1..Len(lock) : lock[i] = lock[j] => i = j
  /\ \A i \in 1..Len(lock) :
       /\ pc[lock[i]] \in {"queued", "redriving", "allocate", "driving", "closing"}
       /\ i > 1 => pc[lock[i]] \in {"queued", "redriving"}

\* Every durable write has the one before it behind it.
Staged ==
  \A t \in Tokens :
    /\ row[t].phase = "COMMITTED" => t \in bound
    /\ t \in bound => life[t] # "NONE"
    /\ life[t] # "NONE" => t \in child
    /\ t \in child => row[t] # NoRow

\* What a call on its way to the reservation knows: a fresh token and room for it.
Room(template) ==
  /\ Total(Tokens) + 1 <= TeamInstances
  /\ Total(Of(template)) + 1 <= MemberInstances

Admitted ==
  \A c \in Callers :
    /\ pc[c] \notin {"idle"} \cup Answers => call[c] # NoCall
    /\ pc[c] \in {"consulting", "queued", "allocate"} => call[c].template \in Templates
    /\ pc[c] = "allocate" => row[T(c)] = NoRow /\ Room(call[c].template)
    /\ pc[c] = "redriving" => row[T(c)] # NoRow
    /\ pc[c] = "driving" => row[T(c)] # NoRow /\ ~Mismatch(call[c])
    /\ c \in reserved => pc[c] \in {"driving", "activated", "refused"}

\* The inductive invariant.
IInv == TypeOK /\ Queue /\ Staged /\ Admitted /\ WithinQuota /\ AnswersAreTrue

-------------------------------------------------------------------------------
USE ActivationAssumption

Instances(ts) == {t \in ts : row[t] # NoRow \/ life[t] # "NONE"}

\* Every instance is a record or an in-flight reservation, so the count of both covers it.
LEMMA InstancesCounted ==
  ASSUME IInv, NEW ts \in SUBSET Tokens
  PROVE  /\ IsFiniteSet(Instances(ts)) /\ Cardinality(Instances(ts)) \in Nat
         /\ Total(ts) \in Nat /\ Cardinality(Instances(ts)) <= Total(ts)
<1>1. IsFiniteSet(Records(ts)) /\ IsFiniteSet(Prepared(ts)) /\ IsFiniteSet(Instances(ts))
   BY FS_Subset DEF Records, Prepared, Instances
<1>2. Instances(ts) \subseteq Records(ts) \cup Prepared(ts)
   BY DEF Instances, Records, Prepared, IInv, TypeOK, Staged, Row, NoRow
<1>3. /\ IsFiniteSet(Records(ts) \cup Prepared(ts))
      /\ Cardinality(Records(ts) \cup Prepared(ts)) =
           Cardinality(Records(ts)) + Cardinality(Prepared(ts))
             - Cardinality(Records(ts) \cap Prepared(ts))
   BY <1>1, FS_Union
<1>4. IsFiniteSet(Records(ts) \cap Prepared(ts))
   BY <1>1, FS_Intersection
<1>5. /\ Cardinality(Records(ts)) \in Nat /\ Cardinality(Prepared(ts)) \in Nat
      /\ Cardinality(Records(ts) \cap Prepared(ts)) \in Nat
      /\ Cardinality(Instances(ts)) \in Nat
   BY <1>1, <1>4, FS_CardinalityType
<1>6. Cardinality(Instances(ts)) <= Cardinality(Records(ts) \cup Prepared(ts))
   BY <1>2, <1>3, FS_Subset
<1> QED BY <1>1, <1>3, <1>5, <1>6 DEF Total

\* The quota over the instances, named.
LEMMA QuotaMeans ==
  WithinQuota <=> /\ Cardinality(Instances(Tokens)) <= TeamInstances
                  /\ \A template \in Templates :
                       Cardinality(Instances(Of(template))) <= MemberInstances
BY DEF WithinQuota, Instances

LEMMA InitHolds == Init => IInv
<1> SUFFICES ASSUME Init PROVE IInv
   OBVIOUS
<1>1. TypeOK
   BY DEF Init, TypeOK
<1>2. Queue /\ Staged /\ Admitted
   BY DEF Init, Queue, Staged, Admitted, NoRow, Answers
<1>3. AnswersAreTrue
   BY DEF Init, AnswersAreTrue, AbortedIsClean, ActivatedIsAdmitted
<1>4. Instances(Tokens) = {} /\ \A template \in Templates : Instances(Of(template)) = {}
   BY DEF Init, Instances, Of
<1>5. WithinQuota
   BY <1>4, FS_EmptySet, QuotaMeans
<1> QED BY <1>1, <1>2, <1>3, <1>5 DEF IInv

\* Who is in the lock: the holder, and calls that wait.
LEMMA LockFacts ==
  ASSUME IInv, NEW c \in Callers
  PROVE  /\ lock \in Seq(Callers) /\ Len(lock) \in Nat
         /\ Holds(c) => lock # << >> /\ lock[1] = c /\ Len(lock) > 0
         /\ pc[c] \in {"queued", "redriving"} => \E i \in 1..Len(lock) : lock[i] = c
         /\ pc[c] \notin {"queued", "redriving", "allocate", "driving", "closing"} =>
              \A i \in 1..Len(lock) : lock[i] # c
         /\ pc[c] = "closing" /\ ~Holds(c) => \A i \in 1..Len(lock) : lock[i] # c
         /\ pc[c] \in {"allocate", "driving"} => Holds(c)
BY DEF IInv, TypeOK, Queue, Holds, ToSet

\* One step of a call that writes no row: it goes on to s with r in hand, in the lock as
\* s demands, knowing what s is to know.
Moves(c, s, r) ==
  /\ Goto(c, s) /\ call' = [call EXCEPT ![c] = r]
  /\ UNCHANGED <<row, child, life, bound, crashes>> /\ faults' \in 0..MaxFaults
  /\ aborted' \subseteq Callers /\ reserved' \in {reserved, reserved \ {c}}
  /\ s \notin {"idle"} \cup Answers => r # NoCall
  /\ s \in {"consulting", "queued", "allocate"} => r.template \in Templates
  /\ s = "allocate" => row[r.token] = NoRow /\ Room(r.template)
  /\ s = "redriving" => row[r.token] # NoRow
  /\ s = "driving" => row[r.token] # NoRow /\ ~Mismatch(r)
  /\ c \in reserved' => s \in {"driving", "activated", "refused"}
  /\ s = "activated" =>
       /\ row[r.token].phase = "COMMITTED" /\ life[r.token] # "NONE"
       /\ r.token \in child \cap bound /\ r.template \in {None, row[r.token].template}

\* What becomes of the lock: the call stays in it, stays out, joins or leaves.
Stays(c, s) == lock' = lock /\ Holds(c) /\ s \in {"allocate", "driving", "closing"}
Out(c, s) ==
  /\ lock' = lock /\ \A i \in 1..Len(lock) : lock[i] # c
  /\ s \notin {"queued", "redriving", "allocate", "driving"}
Joins(c, s) ==
  /\ lock' = Append(lock, c) /\ s \in {"queued", "redriving"}
  /\ \A i \in 1..Len(lock) : lock[i] # c
Leaves(c, s) ==
  /\ lock' = Tail(lock) /\ Holds(c)
  /\ s \notin {"queued", "redriving", "allocate", "driving"}

LEMMA CallMoves ==
  ASSUME IInv, NEW c \in Callers, NEW s \in Answers \cup InFlight \cup {"idle"},
         NEW r \in Requests \cup {NoCall}, Moves(c, s, r),
         Stays(c, s) \/ Out(c, s) \/ Joins(c, s) \/ Leaves(c, s)
  PROVE  IInv'
<1> USE DEF IInv, Goto, Moves
<1>1. /\ lock \in Seq(Callers) /\ pc' = [pc EXCEPT ![c] = s]
      /\ pc \in [Callers -> Answers \cup InFlight \cup {"idle"}]
      /\ call \in [Callers -> Requests \cup {NoCall}]
   BY DEF TypeOK
<1>2. /\ lock' \in Seq(Callers) /\ Queue'
      /\ \A b \in Callers :
           /\ pc'[b] \in {"queued", "redriving"} => \E i \in 1..Len(lock') : lock'[i] = b
           /\ pc'[b] \in {"allocate", "driving"} => Len(lock') > 0 /\ lock'[1] = b
  <2> DEFINE In(b) == \E i \in 1..Len(lock) : lock[i] = b
  <2>0. /\ Len(lock) \in Nat /\ Queue
        /\ \A b \in Callers :
             /\ pc[b] \in {"queued", "redriving"} => In(b)
             /\ pc[b] \in {"allocate", "driving"} => Len(lock) > 0 /\ lock[1] = b
        /\ Holds(c) <=> Len(lock) > 0 /\ lock[1] = c
        /\ \A i \in 1..Len(lock) : lock[i] \in Callers
        /\ \A b \in Callers : b # c => pc'[b] = pc[b]
        /\ pc'[c] = s
     BY <1>1, LockFacts DEF Holds
  <2> HIDE DEF IInv, Goto, Moves
  <2>1. CASE Stays(c, s) \/ Out(c, s)
    <3>1. CASE Stays(c, s)
      <4>1. lock' = lock /\ Len(lock) > 0 /\ lock[1] = c /\ s \notin {"queued", "redriving"}
         BY <2>0, <3>1 DEF Stays
      <4>2. Queue'
         BY <2>0, <4>1, <3>1, SMTT(30) DEF Queue, Stays
      <4>3. ASSUME NEW b \in Callers
            PROVE  /\ pc'[b] \in {"queued", "redriving"} => In(b)
                   /\ pc'[b] \in {"allocate", "driving"} => Len(lock) > 0 /\ lock[1] = b
        <5>1. CASE b = c
           BY <2>0, <4>1, <5>1
        <5>2. CASE b # c
           BY <2>0, <5>2
        <5> QED BY <5>1, <5>2
      <4> QED BY <1>1, <4>1, <4>2, <4>3
    <3>2. CASE Out(c, s)
      <4>1. /\ lock' = lock /\ \A i \in 1..Len(lock) : lock[i] # c
            /\ s \notin {"queued", "redriving", "allocate", "driving"}
         BY <3>2 DEF Out
      <4>2. Queue'
        <5>1. \A i \in 1..Len(lock) : pc'[lock[i]] = pc[lock[i]]
           BY <2>0, <4>1
        <5>2. /\ \A i, j \in 1..Len(lock) : lock[i] = lock[j] => i = j
              /\ \A i \in 1..Len(lock) :
                   /\ pc'[lock[i]] \in {"queued", "redriving", "allocate", "driving", "closing"}
                   /\ i > 1 => pc'[lock[i]] \in {"queued", "redriving"}
           BY <2>0, <5>1 DEF Queue
        <5> QED BY <4>1, <5>2 DEF Queue
      <4>3. ASSUME NEW b \in Callers
            PROVE  /\ pc'[b] \in {"queued", "redriving"} => In(b)
                   /\ pc'[b] \in {"allocate", "driving"} => Len(lock) > 0 /\ lock[1] = b
        <5>1. CASE b = c
           BY <2>0, <4>1, <5>1
        <5>2. CASE b # c
           BY <2>0, <5>2
        <5> QED BY <5>1, <5>2
      <4> QED BY <1>1, <4>1, <4>2, <4>3
    <3> QED BY <2>1, <3>1, <3>2
  <2>2. CASE Joins(c, s)
    <3>1. /\ lock' \in Seq(Callers) /\ Len(lock') = Len(lock) + 1
          /\ \A i \in 1..Len(lock) : lock'[i] = lock[i]
          /\ lock'[Len(lock) + 1] = c
       BY <1>1, <2>2 DEF Joins
    <3>2. Queue'
      <4>1. s \in {"queued", "redriving"} /\ \A i \in 1..Len(lock) : lock[i] # c
         BY <2>2 DEF Joins
      <4>2. ASSUME NEW i \in 1..Len(lock'), NEW j \in 1..Len(lock'), lock'[i] = lock'[j]
            PROVE  i = j
        <5>1. CASE i \in 1..Len(lock) /\ j \in 1..Len(lock)
           BY <2>0, <3>1, <4>2, <5>1 DEF Queue
        <5>2. CASE i \notin 1..Len(lock) \/ j \notin 1..Len(lock)
           BY <2>0, <3>1, <4>1, <4>2, <5>2
        <5> QED BY <5>1, <5>2
      <4>3. ASSUME NEW i \in 1..Len(lock')
            PROVE  /\ pc'[lock'[i]] \in {"queued", "redriving", "allocate", "driving", "closing"}
                   /\ i > 1 => pc'[lock'[i]] \in {"queued", "redriving"}
        <5>1. CASE i \in 1..Len(lock)
          <6>1. lock'[i] = lock[i] /\ lock[i] # c /\ lock[i] \in Callers
             BY <2>0, <3>1, <4>1, <5>1
          <6>2. /\ pc[lock[i]] \in {"queued", "redriving", "allocate", "driving", "closing"}
                /\ i > 1 => pc[lock[i]] \in {"queued", "redriving"}
             BY <2>0, <5>1 DEF Queue
          <6> QED BY <2>0, <6>1, <6>2
        <5>2. CASE i \notin 1..Len(lock)
          <6>1. i = Len(lock) + 1
             BY <2>0, <3>1, <5>2
          <6> QED BY <2>0, <3>1, <4>1, <6>1
        <5> QED BY <5>1, <5>2
      <4> QED BY <4>2, <4>3 DEF Queue
    <3>3. ASSUME NEW b \in Callers
          PROVE  /\ pc'[b] \in {"queued", "redriving"} => \E i \in 1..Len(lock') : lock'[i] = b
                 /\ pc'[b] \in {"allocate", "driving"} => Len(lock') > 0 /\ lock'[1] = b
       BY <2>0, <2>2, <3>1 DEF Joins
    <3> QED BY <3>1, <3>2, <3>3
  <2>3. CASE Leaves(c, s)
    <3>1. /\ lock' \in Seq(Callers) /\ Len(lock') = Len(lock) - 1 /\ Len(lock) > 0
          /\ \A i \in 1..Len(lock') : lock'[i] = lock[i + 1]
          /\ \A i \in 2..Len(lock) : lock[i] = lock'[i - 1]
       BY <1>1, <2>0, <2>3 DEF Leaves
    <3>2. \A i \in 2..Len(lock) : lock[i] # c
       BY <2>0, <2>3 DEF Queue, Leaves
    <3>3. Queue'
      <4>1. ASSUME NEW i \in 1..Len(lock'), NEW j \in 1..Len(lock'), lock'[i] = lock'[j]
            PROVE  i = j
        <5>1. i + 1 \in 1..Len(lock) /\ j + 1 \in 1..Len(lock)
           BY <2>0, <3>1
        <5>2. lock[i + 1] = lock[j + 1]
           BY <3>1, <4>1
        <5>3. i + 1 = j + 1
           BY <2>0, <5>1, <5>2 DEF Queue
        <5> QED BY <2>0, <3>1, <5>3
      <4>2. ASSUME NEW i \in 1..Len(lock')
            PROVE  pc'[lock'[i]] \in {"queued", "redriving"}
        <5>1. i + 1 \in 2..Len(lock) /\ lock[i + 1] # c /\ lock'[i] = lock[i + 1]
           BY <2>0, <3>1, <3>2
        <5>2. i + 1 \in 1..Len(lock) /\ i + 1 > 1
           BY <2>0, <5>1
        <5>3. pc[lock[i + 1]] \in {"queued", "redriving"}
           BY <2>0, <5>2 DEF Queue
        <5> QED BY <2>0, <5>1, <5>2, <5>3
      <4> QED BY <4>1, <4>2 DEF Queue
    <3>4. ASSUME NEW b \in Callers
          PROVE  /\ pc'[b] \in {"queued", "redriving"} => \E i \in 1..Len(lock') : lock'[i] = b
                 /\ pc'[b] \in {"allocate", "driving"} => Len(lock') > 0 /\ lock'[1] = b
      <4>1. CASE b = c
         BY <2>0, <2>3, <4>1 DEF Leaves
      <4>2. CASE b # c /\ pc[b] \in {"queued", "redriving"}
        <5>1. PICK i \in 1..Len(lock) : lock[i] = b
           BY <2>0, <4>2
        <5>2. i # 1
           BY <2>0, <2>3, <4>2, <5>1 DEF Leaves
        <5>3. i \in 2..Len(lock) /\ i - 1 \in 1..Len(lock')
           BY <2>0, <3>1, <5>2
        <5>4. lock'[i - 1] = b
           BY <3>1, <5>1, <5>3
        <5> QED BY <2>0, <4>2, <5>3, <5>4
      <4>3. CASE b # c /\ pc[b] \notin {"queued", "redriving"}
         BY <2>0, <2>3, <4>3 DEF Leaves
      <4> QED BY <4>1, <4>2, <4>3
    <3> QED BY <3>1, <3>3, <3>4
  <2> QED BY <2>1, <2>2, <2>3
<1>3. \A b \in Callers :
        /\ pc'[b] \in {"queued", "redriving"} => b \in ToSet(lock)'
        /\ pc'[b] \in {"allocate", "driving"} => Holds(b)'
   BY <1>2 DEF Holds, ToSet
<1>4. TypeOK'
   BY <1>1, <1>2, <1>3 DEF TypeOK
<1>5. Staged' /\ WithinQuota'
   BY DEF Staged, WithinQuota, Of
<1>6. Admitted'
  <2>1. \A template : Room(template)' = Room(template)
     BY DEF Room, Total, Records, Prepared, Of
  <2>2. \A b \in Callers \ {c} :
          pc'[b] = pc[b] /\ call'[b] = call[b] /\ (b \in reserved' <=> b \in reserved)
     BY <1>1
  <2>3. /\ pc'[c] = s /\ call'[c] = r /\ row' = row
     BY <1>1
  <2> QED BY <2>1, <2>2, <2>3 DEF Admitted, T, Mismatch
<1>7. AnswersAreTrue'
   BY <1>1 DEF AnswersAreTrue, AbortedIsClean, ActivatedIsAdmitted, T
<1> QED BY <1>2, <1>4, <1>5, <1>6, <1>7

\* What a call that is past its first await has in hand.
LEMMA CallFacts ==
  ASSUME IInv, NEW c \in Callers
  PROVE  /\ call[c] \in Requests \cup {NoCall} /\ call = [call EXCEPT ![c] = call[c]]
         /\ pc[c] \notin {"idle"} \cup Answers =>
              /\ call[c] \in Requests /\ call[c] # NoCall /\ T(c) \in Tokens
              /\ call[c].template \in Templates \cup {None} /\ call[c].token = T(c)
         /\ pc[c] \notin {"driving", "activated", "refused"} => c \notin reserved
         /\ NoCall \notin Requests
BY DEF IInv, TypeOK, Admitted, Requests, NoCall, T

LEMMA ActivateStep ==
  ASSUME IInv, NEW c \in Callers, NEW r \in Requests, Activate(c, r)
  PROVE  IInv'
<1> DEFINE Landing == IF Resolve(r) = "continue" THEN "continued" ELSE "refused"
<1>1. /\ pc[c] = "idle" /\ call' = [call EXCEPT ![c] = r] /\ reserved' = reserved
      /\ UNCHANGED <<row, child, life, bound, crashes>>
      /\ faults' \in 0..MaxFaults /\ aborted' \subseteq Callers
      /\ c \notin reserved' /\ r # NoCall
      /\ \A i \in 1..Len(lock) : lock[i] # c
   BY CallFacts, LockFacts DEF Activate, IInv, TypeOK, durable
<1>2. CASE Existing(r.token) /\ Join(c, "redriving")
  <2>1. row[r.token] # NoRow
     BY <1>2 DEF Existing, NoRow
  <2>2. Moves(c, "redriving", r) /\ Joins(c, "redriving")
     BY <1>1, <1>2, <2>1 DEF Moves, Joins, Join, Answers
  <2> QED BY <2>2, CallMoves DEF InFlight
<1>3. CASE (r.token \notin Delegations \/ Resolve(r) = "create") /\ Goto(c, "consulting")
           /\ UNCHANGED lock
  <2>1. r.template \in Templates
    <3>1. CASE r.to = None
       BY <3>1 DEF Requests
    <3>2. CASE r.to # None
       BY <1>3, <3>2 DEF Requests, Resolve
    <3> QED BY <3>1, <3>2
  <2>2. Moves(c, "consulting", r) /\ Out(c, "consulting")
     BY <1>1, <1>3, <2>1 DEF Moves, Out, Answers
  <2> QED BY <2>2, CallMoves DEF InFlight
<1>4. CASE Goto(c, Landing) /\ UNCHANGED lock
  <2>1. Moves(c, Landing, r) /\ Out(c, Landing)
     BY <1>1, <1>4 DEF Moves, Out, Answers
  <2> QED BY <2>1, CallMoves DEF Answers
<1> QED BY <1>2, <1>3, <1>4 DEF Activate

LEMMA ConsultStep ==
  ASSUME IInv, NEW c \in Callers, Consult(c)
  PROVE  IInv'
<1>1. /\ pc[c] = "consulting" /\ call' = [call EXCEPT ![c] = call[c]]
      /\ UNCHANGED <<row, child, life, bound, crashes>>
      /\ faults' \in 0..MaxFaults /\ aborted' \subseteq Callers /\ reserved' = reserved
      /\ c \notin reserved /\ call[c] # NoCall /\ call[c] \in Requests
      /\ call[c].template \in Templates
      /\ \A i \in 1..Len(lock) : lock[i] # c
   BY CallFacts, LockFacts DEF Consult, IInv, TypeOK, Admitted, Answers, durable
<1>2. ~Holds(c)
   BY <1>1, LockFacts
<1>3. CASE Join(c, "queued")
  <2>1. Moves(c, "queued", call[c]) /\ Joins(c, "queued")
     BY <1>1, <1>3 DEF Moves, Joins, Join, Answers
  <2> QED BY <1>1, <2>1, CallMoves DEF InFlight
<1>4. CASE Goto(c, "closing") /\ UNCHANGED lock
  <2>1. Moves(c, "closing", call[c]) /\ Out(c, "closing")
     BY <1>1, <1>4 DEF Moves, Out, Answers
  <2> QED BY <1>1, <2>1, CallMoves DEF InFlight
<1>5. CASE Settle(c, "refused")
  <2>1. Moves(c, "refused", call[c]) /\ Out(c, "refused")
     BY <1>1, <1>2, <1>5 DEF Moves, Out, Settle, Answers
  <2> QED BY <1>1, <2>1, CallMoves DEF Answers
<1> QED BY <1>3, <1>4, <1>5 DEF Consult, Reject

\* A call settles with an answer that promises nothing.
LEMMA SettleStep ==
  ASSUME IInv, NEW c \in Callers, NEW s \in Answers \ {"activated"}, Settle(c, s),
         pc[c] \in {"closing", "queued", "redriving", "allocate", "driving"},
         pc[c] # "closing" => Holds(c),
         UNCHANGED <<durable, call, aborted, reserved, crashes>>,
         faults' \in 0..MaxFaults,
         pc[c] = "driving" => s = "refused"
  PROVE  IInv'
<1>1. /\ call' = [call EXCEPT ![c] = call[c]] /\ call[c] \in Requests
      /\ UNCHANGED <<row, child, life, bound, crashes, reserved>>
      /\ aborted' \subseteq Callers /\ (c \in reserved' => s = "refused")
   BY CallFacts DEF IInv, TypeOK, Answers, durable
<1>2. Moves(c, s, call[c])
   BY <1>1 DEF Moves, Settle, Answers
<1>3. CASE Holds(c)
  <2>1. Leaves(c, s)
     BY <1>3 DEF Leaves, Settle, Answers
  <2> QED BY <1>1, <1>2, <2>1, CallMoves
<1>4. CASE ~Holds(c)
  <2>1. Out(c, s)
     BY <1>4, LockFacts DEF Out, Settle, Answers
  <2> QED BY <1>1, <1>2, <2>1, CallMoves
<1> QED BY <1>3, <1>4

LEMMA CloseStep ==
  ASSUME IInv, NEW c \in Callers, Close(c)
  PROVE  IInv'
BY SettleStep DEF Close, Fault, Answers, IInv, TypeOK

LEMMA EnterStep ==
  ASSUME IInv, NEW c \in Callers, Enter(c)
  PROVE  IInv'
<1>1. /\ pc[c] = "queued" /\ Holds(c) /\ UNCHANGED <<durable, call, aborted, reserved, crashes>>
      /\ UNCHANGED <<row, child, life, bound>> /\ call' = [call EXCEPT ![c] = call[c]]
      /\ faults' \in 0..MaxFaults /\ aborted' \subseteq Callers
      /\ c \notin reserved' /\ call[c] \in Requests /\ call[c] # NoCall
      /\ call[c].template \in Templates /\ T(c) \in Tokens /\ call[c].token = T(c)
   BY CallFacts DEF Enter, IInv, TypeOK, Admitted, Answers, durable
<1>2. CASE Goto(c, "closing") /\ UNCHANGED lock
  <2>1. Moves(c, "closing", call[c]) /\ Stays(c, "closing")
     BY <1>1, <1>2 DEF Moves, Stays, Answers
  <2> QED BY <1>1, <2>1, CallMoves DEF InFlight
<1>3. ASSUME NEW s \in {"aborted", "quota", "conflict"}, Settle(c, s)
      PROVE  IInv'
   BY <1>1, <1>3, SettleStep DEF Answers
<1>4. CASE /\ ~Exceeded(call[c].template) /\ ~Taken(T(c))
           /\ Goto(c, "allocate") /\ UNCHANGED lock
  <2>1. row[T(c)] = NoRow
     BY <1>1, <1>4 DEF Taken, IInv, TypeOK, Staged, Row
  <2>2. Room(call[c].template)
    <3>1. /\ Total(Tokens) \in Nat /\ Total(Of(call[c].template)) \in Nat
          /\ Of(call[c].template) \subseteq Tokens
       BY InstancesCounted DEF Of
    <3> QED BY <1>1, <1>4, <3>1 DEF Exceeded, Room
  <2>3. Moves(c, "allocate", call[c]) /\ Stays(c, "allocate")
     BY <1>1, <1>4, <2>1, <2>2 DEF Moves, Stays, Answers
  <2> QED BY <1>1, <2>3, CallMoves DEF InFlight
<1> QED BY <1>2, <1>3, <1>4 DEF Enter, Reject

LEMMA RedriveStep ==
  ASSUME IInv, NEW c \in Callers, Redrive(c)
  PROVE  IInv'
<1>1. /\ pc[c] = "redriving" /\ Holds(c) /\ UNCHANGED <<durable, call, aborted, reserved, crashes>>
      /\ UNCHANGED <<row, child, life, bound>> /\ call' = [call EXCEPT ![c] = call[c]]
      /\ faults' \in 0..MaxFaults /\ aborted' \subseteq Callers
      /\ c \notin reserved' /\ call[c] \in Requests /\ call[c] # NoCall
      /\ row[call[c].token] # NoRow
   BY CallFacts DEF Redrive, IInv, TypeOK, Admitted, T, Answers, durable
<1>2. CASE Settle(c, "refused")
   BY <1>1, <1>2, SettleStep DEF Answers
<1>3. CASE ~Mismatch(call[c]) /\ Goto(c, "driving") /\ UNCHANGED lock
  <2>1. Moves(c, "driving", call[c]) /\ Stays(c, "driving")
     BY <1>1, <1>3 DEF Moves, Stays, Answers
  <2> QED BY <1>1, <2>1, CallMoves DEF InFlight
<1> QED BY <1>2, <1>3 DEF Redrive

LEMMA StageFailsStep ==
  ASSUME IInv, NEW c \in Callers, StageFails(c)
  PROVE  IInv'
BY SettleStep, LockFacts DEF StageFails, Fault, Answers, IInv, TypeOK

LEMMA FinishStep ==
  ASSUME IInv, NEW c \in Callers, Finish(c)
  PROVE  IInv'
<1>1. /\ pc[c] = "driving" /\ Holds(c) /\ UNCHANGED <<row, child, life, bound, reserved, crashes>>
      /\ call' = [call EXCEPT ![c] = call[c]] /\ lock' = Tail(lock) /\ Goto(c, "activated")
      /\ faults' \in 0..MaxFaults /\ aborted' \subseteq Callers
      /\ call[c] \in Requests /\ call[c] # NoCall /\ T(c) \in Tokens /\ call[c].token = T(c)
      /\ row[T(c)].phase = "COMMITTED" /\ call[c].template \in {None, row[T(c)].template}
   BY CallFacts, LockFacts
      DEF Finish, Settle, IInv, TypeOK, Admitted, T, Mismatch, Answers, durable
<1>2. life[T(c)] # "NONE" /\ T(c) \in child \cap bound
   BY <1>1 DEF IInv, Staged
<1>3. Moves(c, "activated", call[c]) /\ Leaves(c, "activated")
   BY <1>1, <1>2 DEF Moves, Leaves, Answers
<1> QED BY <1>1, <1>3, CallMoves DEF Answers

LEMMA RestStep ==
  ASSUME IInv, NEW c \in Callers, Rest(c)
  PROVE  IInv'
<1>1. /\ pc[c] \in Answers /\ call' = [call EXCEPT ![c] = NoCall] /\ Goto(c, "idle")
      /\ UNCHANGED <<row, child, life, bound, lock, crashes>> /\ reserved' = reserved \ {c}
      /\ faults' \in 0..MaxFaults /\ aborted' \subseteq Callers
   BY DEF Rest, IInv, TypeOK, durable
<1>2. \A i \in 1..Len(lock) : lock[i] # c
   BY <1>1, LockFacts DEF Answers
<1>3. Moves(c, "idle", NoCall) /\ Out(c, "idle")
   BY <1>1, <1>2 DEF Moves, Out
<1> QED BY <1>3, CallMoves

LEMMA AbortStep ==
  ASSUME IInv, NEW c \in Callers, Abort(c)
  PROVE  IInv'
<1> USE DEF IInv, Abort, durable
<1>1. TypeOK' /\ Queue' /\ Staged'
   BY DEF TypeOK, Queue, Staged, Holds
<1>2. Admitted'
   BY DEF Admitted, T, Room, Total, Records, Prepared, Of, Mismatch
<1>3. WithinQuota' /\ AnswersAreTrue'
   BY DEF WithinQuota, Of, AnswersAreTrue, AbortedIsClean, ActivatedIsAdmitted, T
<1> QED BY <1>1, <1>2, <1>3

\* The call that holds the lock drives a member, and no other call is past the lock.
LEMMA DriverFacts ==
  ASSUME IInv, NEW c \in Callers, pc[c] \in {"allocate", "driving"}
  PROVE  /\ \A b \in Callers \ {c} : pc[b] \notin {"allocate", "driving"}
         /\ T(c) \in Tokens /\ row \in [Tokens -> Row \cup {NoRow}]
         /\ NoRow \notin Row /\ NoRow.phase = "ABSENT" /\ NoRow.template \notin Templates
         /\ pc[c] = "allocate" => row[T(c)] = NoRow /\ call[c].template \in Templates
         /\ pc[c] = "driving" => row[T(c)] \in Row
<1>1. \A b \in Callers \ {c} : pc[b] \notin {"allocate", "driving"}
   BY DEF IInv, TypeOK, Holds
<1>2. T(c) \in Tokens
   BY CallFacts DEF Answers
<1> QED BY <1>1, <1>2 DEF IInv, TypeOK, Admitted, Row, NoRow

LEMMA AllocateStep ==
  ASSUME IInv, NEW c \in Callers, Allocate(c)
  PROVE  IInv'
<1> USE DEF IInv
<1> DEFINE t == T(c)
           new == [phase |-> "PREPARED", template |-> call[c].template]
<1>1. /\ pc[c] = "allocate" /\ row' = [row EXCEPT ![t] = new] /\ reserved' = reserved \cup {c}
      /\ pc' = [pc EXCEPT ![c] = "driving"]
      /\ UNCHANGED <<child, life, bound, lock, call, aborted, crashes, faults>>
   BY DEF Allocate, Goto
<1>2. /\ \A b \in Callers \ {c} : pc[b] \notin {"allocate", "driving"}
      /\ t \in Tokens /\ row \in [Tokens -> Row \cup {NoRow}] /\ NoRow \notin Row
      /\ row[t] = NoRow /\ call[c].template \in Templates /\ NoRow.phase = "ABSENT"
      /\ NoRow.template \notin Templates
   BY <1>1, DriverFacts
<1>3. new \in Row /\ new # NoRow /\ new.phase = "PREPARED" /\ new.template = call[c].template
   BY <1>2 DEF Row, NoRow
<1>4. TypeOK'
   BY <1>1, <1>2, <1>3 DEF TypeOK, Holds, InFlight
<1>5. Queue'
   BY <1>1 DEF Queue, TypeOK
<1>6. Staged'
   BY <1>1, <1>2, <1>3 DEF Staged
<1>7. Admitted'
  <2>1. ~Mismatch(call[c])'
     BY <1>1, <1>2, <1>3 DEF Mismatch, T
  <2>2. \A b \in Callers \ {c} :
          pc'[b] = pc[b] /\ call'[b] = call[b] /\ (b \in reserved' <=> b \in reserved)
     BY <1>1
  <2>3. pc'[c] = "driving"
     BY <1>1 DEF TypeOK
  <2>4. \A b \in Callers : T(b)' = T(b)
     BY <1>1 DEF T
  <2> QED BY <1>1, <1>2, <1>3, <2>1, <2>2, <2>3, <2>4 DEF Admitted, Answers
<1>8. WithinQuota'
  <2>1. /\ Instances(Tokens)' = Instances(Tokens) \cup {t}
        /\ Of(call[c].template)' = Of(call[c].template) \cup {t}
        /\ Instances(Of(call[c].template))' = Instances(Of(call[c].template)) \cup {t}
        /\ \A m \in Templates \ {call[c].template} :
             Instances(Of(m))' = Instances(Of(m))
     BY <1>1, <1>2, <1>3 DEF Instances, Of
  <2>2. Room(call[c].template)
     BY <1>1 DEF Admitted
  <2>3. \A ts \in SUBSET Tokens : IsFiniteSet(Instances(ts)) /\ Cardinality(Instances(ts)) \in Nat
          /\ Total(ts) \in Nat /\ Cardinality(Instances(ts)) <= Total(ts)
     BY InstancesCounted
  <2>4. \A ts \in SUBSET Tokens : Cardinality(Instances(ts) \cup {t}) <= Total(ts) + 1
    <3> TAKE ts \in SUBSET Tokens
    <3>1. \/ Cardinality(Instances(ts) \cup {t}) = Cardinality(Instances(ts))
          \/ Cardinality(Instances(ts) \cup {t}) = Cardinality(Instances(ts)) + 1
      <4>1. IsFiniteSet(Instances(ts))
         BY <2>3
      <4> QED BY <4>1, FS_AddElement, Zenon
    <3> QED BY <2>3, <3>1
  <2>5. Cardinality(Instances(Tokens) \cup {t}) <= TeamInstances
    <3>1. Cardinality(Instances(Tokens) \cup {t}) \in Nat
       BY <2>3, FS_AddElement, FS_CardinalityType
    <3> QED BY <2>2, <2>3, <2>4, <3>1 DEF Room
  <2>6. Cardinality(Instances(Of(call[c].template)) \cup {t}) <= MemberInstances
    <3>1. Of(call[c].template) \in SUBSET Tokens
       BY DEF Of
    <3>2. Cardinality(Instances(Of(call[c].template)) \cup {t}) \in Nat
       BY <2>3, <3>1, FS_AddElement, FS_CardinalityType
    <3> QED BY <2>2, <2>3, <2>4, <3>1, <3>2 DEF Room
  <2>7. Cardinality(Instances(Tokens))' <= TeamInstances
     BY <2>1, <2>5
  <2>8. \A m \in Templates : Cardinality(Instances(Of(m)))' <= MemberInstances
    <3> TAKE m \in Templates
    <3>1. CASE m = call[c].template
      <4>1. Instances(Of(m))' = Instances(Of(m)) \cup {t}
         BY <1>1, <1>2, <1>3, <3>1 DEF Instances, Of
      <4>2. Cardinality(Instances(Of(m)) \cup {t}) <= MemberInstances
         BY <2>6, <3>1
      <4> QED BY <4>1, <4>2, Zenon
    <3>2. CASE m # call[c].template
      <4>1. Instances(Of(m))' = Instances(Of(m))
         BY <2>1, <3>2
      <4>2. Cardinality(Instances(Of(m))) <= MemberInstances
         BY QuotaMeans
      <4> QED BY <4>1, <4>2, Zenon
    <3> QED BY <3>1, <3>2
  <2> QED BY <2>7, <2>8 DEF WithinQuota, Instances
<1>9. AnswersAreTrue'
   BY <1>1, <1>2, <1>3
      DEF AnswersAreTrue, AbortedIsClean, ActivatedIsAdmitted, TypeOK, T, Row
<1> QED BY <1>4, <1>5, <1>6, <1>7, <1>8, <1>9

LEMMA CreateChildStep ==
  ASSUME IInv, NEW c \in Callers, CreateChild(c)
  PROVE  IInv'
<1> USE DEF IInv, CreateChild, local
<1>1. T(c) \in Tokens /\ row[T(c)] # NoRow
   BY DriverFacts
<1>2. TypeOK' /\ Queue' /\ Staged'
   BY <1>1 DEF TypeOK, Queue, Staged, Holds
<1>3. Admitted'
   BY DEF Admitted, T, Room, Total, Records, Prepared, Of, Mismatch
<1>4. WithinQuota' /\ AnswersAreTrue'
   BY DEF WithinQuota, Of, AnswersAreTrue, AbortedIsClean, ActivatedIsAdmitted, T
<1> QED BY <1>2, <1>3, <1>4

\* A record changes while nobody is in the region between the quota and the reservation,
\* or no record comes or goes: the instances are the same, and so is the room.
LEMMA LifeMoves ==
  ASSUME IInv, NEW t \in Tokens, NEW state \in States, life' = [life EXCEPT ![t] = state],
         UNCHANGED <<row, child, bound, local, crashes, faults>>,
         t \in child,
         life[t] # "NONE" \/ \A c \in Callers : pc[c] # "allocate"
  PROVE  IInv'
<1> USE DEF IInv, local
<1>1. TypeOK' /\ Queue'
   BY DEF TypeOK, Queue, Holds
<1>2. Staged'
   BY DEF Staged, TypeOK, States
<1>3. Admitted'
  <2>1. life[t] # "NONE" => \A template : Room(template)' = Room(template)
     BY DEF Room, Total, Records, Prepared, Of, TypeOK, States
  <2> QED BY <2>1 DEF Admitted, T, Mismatch
<1>4. WithinQuota'
  <2>1. row[t] # NoRow
     BY DEF Staged
  <2>2. \A ts \in SUBSET Tokens : Instances(ts)' = Instances(ts)
     BY <2>1 DEF Instances, TypeOK
  <2>3. \A template : Of(template)' = Of(template) /\ Of(template) \in SUBSET Tokens
     BY DEF Of
  <2>4. Instances(Tokens)' = Instances(Tokens)
     BY <2>2
  <2>5. \A template : Instances(Of(template))' = Instances(Of(template))
     BY <2>1 DEF Instances, TypeOK, Of
  <2> QED BY <2>4, <2>5, QuotaMeans, Zenon DEF WithinQuota, Instances
<1>5. AnswersAreTrue'
   BY DEF AnswersAreTrue, AbortedIsClean, ActivatedIsAdmitted, T, TypeOK, States
<1> QED BY <1>1, <1>2, <1>3, <1>4, <1>5

LEMMA PutMemberStep ==
  ASSUME IInv, NEW c \in Callers, PutMember(c)
  PROVE  IInv'
<1>1. T(c) \in Tokens /\ \A b \in Callers : pc[b] # "allocate"
   BY DriverFacts DEF PutMember
<1> QED BY <1>1, LifeMoves DEF PutMember, States

LEMMA MoveStep ==
  ASSUME IInv, NEW t \in Tokens, Move(t)
  PROVE  IInv'
<1>1. PICK state \in States : /\ <<life[t], state>> \in LifecycleRules
                              /\ life' = [life EXCEPT ![t] = state]
   BY DEF Move
<1>2. life[t] # "NONE"
   BY <1>1 DEF LifecycleRules, States
<1>3. t \in child
   BY <1>2 DEF IInv, Staged
<1> QED BY <1>1, <1>2, <1>3, LifeMoves DEF Move

LEMMA BindStep ==
  ASSUME IInv, NEW c \in Callers, Bind(c)
  PROVE  IInv'
<1> USE DEF IInv, Bind, local
<1>1. T(c) \in Tokens
   BY DriverFacts
<1>2. TypeOK' /\ Queue' /\ Staged'
   BY <1>1 DEF TypeOK, Queue, Staged, Holds
<1>3. Admitted'
   BY DEF Admitted, T, Room, Total, Records, Prepared, Of, Mismatch
<1>4. WithinQuota' /\ AnswersAreTrue'
   BY DEF WithinQuota, Of, AnswersAreTrue, AbortedIsClean, ActivatedIsAdmitted, T
<1> QED BY <1>2, <1>3, <1>4

LEMMA CommitStep ==
  ASSUME IInv, NEW c \in Callers, Commit(c)
  PROVE  IInv'
<1> USE DEF IInv, Commit, local
<1>1. T(c) \in Tokens /\ row[T(c)] \in Row /\ NoRow \notin Row
      /\ row \in [Tokens -> Row \cup {NoRow}]
      /\ \A b \in Callers : pc[b] # "allocate"
   BY DriverFacts
<1>2. /\ row'[T(c)] \in Row /\ row'[T(c)].phase = "COMMITTED"
      /\ row'[T(c)].template = row[T(c)].template
      /\ \A t \in Tokens \ {T(c)} : row'[t] = row[t]
      /\ row' \in [Tokens -> Row \cup {NoRow}]
   BY <1>1 DEF Row
<1>3. /\ UNCHANGED <<child, life, bound, lock, pc, call, aborted, reserved, crashes, faults>>
      /\ TypeOK /\ Queue
   OBVIOUS
<1>4. TypeOK' /\ Queue'
  <2> HIDE DEF IInv, Commit, local
  <2>1. TypeOK'
     BY <1>2, <1>3 DEF TypeOK, Holds
  <2>2. Queue'
     BY <1>3 DEF Queue
  <2> QED BY <2>1, <2>2
<1>5. Staged'
   BY <1>1, <1>2 DEF Staged
<1>6. Admitted'
  <2>1. \A d \in Callers : call[d] # NoCall => T(d) \in Tokens
     BY DEF T, TypeOK, Requests, NoCall
  <2>2. \A t \in Tokens : row'[t] = NoRow <=> row[t] = NoRow
     BY <1>1, <1>2
  <2> QED BY <1>1, <1>2, <2>1, <2>2 DEF Admitted, T, Mismatch, TypeOK, Requests, NoCall
<1>7. WithinQuota'
  <2>1. /\ Instances(Tokens)' = Instances(Tokens)
        /\ \A template : Instances(Of(template))' = Instances(Of(template))
     BY <1>1, <1>2 DEF Instances, Of
  <2> QED BY <2>1, QuotaMeans, Zenon DEF WithinQuota, Instances
<1>8. AnswersAreTrue'
   BY <1>1, <1>2 DEF AnswersAreTrue, AbortedIsClean, ActivatedIsAdmitted, T
<1> QED BY <1>4, <1>5, <1>6, <1>7, <1>8

LEMMA CrashStep == IInv /\ Crash => IInv'
<1> SUFFICES ASSUME IInv, Crash PROVE IInv'
   OBVIOUS
<1> USE DEF IInv, Crash, durable
<1>1. TypeOK' /\ Queue' /\ Staged'
   BY DEF TypeOK, Queue, Staged
<1>2. Admitted' /\ AnswersAreTrue'
   BY DEF Admitted, AnswersAreTrue, AbortedIsClean, ActivatedIsAdmitted, Answers
<1>3. WithinQuota'
   BY DEF WithinQuota, Of
<1> QED BY <1>1, <1>2, <1>3

LEMMA StutterStep == IInv /\ UNCHANGED vars => IInv'
<1> SUFFICES ASSUME IInv, UNCHANGED vars PROVE IInv'
   OBVIOUS
<1> USE DEF IInv, vars, durable, local
<1>1. TypeOK' /\ Queue' /\ Staged'
   BY DEF TypeOK, Queue, Staged, Holds
<1>2. Admitted'
   BY DEF Admitted, T, Room, Total, Records, Prepared, Of, Mismatch
<1>3. WithinQuota' /\ AnswersAreTrue'
   BY DEF WithinQuota, Of, AnswersAreTrue, AbortedIsClean, ActivatedIsAdmitted, T
<1> QED BY <1>1, <1>2, <1>3

LEMMA Inductive == IInv /\ [Next]_vars => IInv'
<1> SUFFICES ASSUME IInv, [Next]_vars PROVE IInv'
   OBVIOUS
<1>1. ASSUME NEW c \in Callers, NEW r \in Requests, Activate(c, r) PROVE IInv'
   BY <1>1, ActivateStep
<1>2. ASSUME NEW c \in Callers, Abort(c) PROVE IInv'
   BY <1>2, AbortStep
<1>3. ASSUME NEW c \in Callers, Step(c) PROVE IInv'
   BY <1>3, ConsultStep, CloseStep, EnterStep, AllocateStep, RedriveStep, CreateChildStep,
      PutMemberStep, BindStep, CommitStep, StageFailsStep, FinishStep, RestStep DEF Step
<1>4. ASSUME NEW t \in Tokens, Move(t) PROVE IInv'
   BY <1>4, MoveStep
<1>5. CASE Crash
   BY <1>5, CrashStep
<1>6. CASE UNCHANGED vars
   BY <1>6, StutterStep
<1> QED BY <1>1, <1>2, <1>3, <1>4, <1>5, <1>6 DEF Next

-------------------------------------------------------------------------------
\* What the calls know of the disk, the lock and the quota stays true, for any number of
\* calls and tokens.
THEOREM ActivationInvariant == Spec => []IInv
BY InitHolds, Inductive, PTL DEF Spec

\* Every variable keeps its type, and who is past the team lock holds it.
THEOREM ActivationTypes == Spec => []TypeOK
<1>1. IInv => TypeOK
   BY DEF IInv
<1> QED BY <1>1, ActivationInvariant, PTL

\* checks.ts checkQuota under the team lock: no race, failure or re-drive takes the
\* instances past the quota of the team or of their template.
THEOREM QuotaHolds == Spec => []WithinQuota
<1>1. IInv => WithinQuota
   BY DEF IInv
<1> QED BY <1>1, ActivationInvariant, PTL

\* provider.ts: an aborted call has reserved nothing, an activated one names a member
\* that is committed and bound, of the template it asked for.
THEOREM AnswersTrue == Spec => []AnswersAreTrue
<1>1. IInv => AnswersAreTrue
   BY DEF IInv
<1> QED BY <1>1, ActivationInvariant, PTL

-------------------------------------------------------------------------------
\* The refinement: what a stage derives from, and what each durable write does to it.
StageMap == [t \in Tokens |-> StageOf(t)]
ChildMap == [t \in Tokens |-> IF t \in child THEN t ELSE None]

LEMMA InitRefines == Init => Provisioned!Init
BY DEF Init, Provisioned!Init, StageOf, NoRow

\* A write for t moves the stage of t alone.
LEMMA OneStage ==
  ASSUME NEW t \in Tokens, \A o \in Tokens \ {t} : StageOf(o)' = StageOf(o)
  PROVE  StageMap' = [StageMap EXCEPT ![t] = StageOf(t)']
BY DEF StageMap

LEMMA StepRefines == IInv /\ [Next]_vars => [Provisioned!Next]_(Provisioned!vars)
<1> SUFFICES ASSUME IInv, [Next]_vars PROVE [Provisioned!Next]_(Provisioned!vars)
   OBVIOUS
<1> DEFINE Mapped == [Provisioned!Next]_(Provisioned!vars)
<1>1. ASSUME NEW c \in Callers, Allocate(c) PROVE Mapped
  <2> PICK t \in Tokens : t = T(c)
     BY <1>1, DriverFacts DEF Allocate
  <2>1. /\ row[t] = NoRow /\ row \in [Tokens -> Row \cup {NoRow}]
        /\ t \notin child /\ t \notin bound
     BY <1>1, DriverFacts DEF Allocate, IInv, TypeOK, Staged
  <2>2. /\ row'[t].phase = "PREPARED" /\ \A o \in Tokens \ {t} : row'[o] = row[o]
        /\ row[t].phase = "ABSENT" /\ UNCHANGED <<child, bound>>
     BY <1>1, <2>1 DEF Allocate, NoRow
  <2>3. /\ StageOf(t) = "NONE" /\ StageOf(t)' = "ALLOCATED" /\ UNCHANGED ChildMap
        /\ \A o \in Tokens \ {t} : StageOf(o)' = StageOf(o)
     BY <2>1, <2>2 DEF StageOf, ChildMap
  <2>4. StageMap' = [StageMap EXCEPT ![t] = "ALLOCATED"] /\ StageMap[t] = "NONE"
     BY <2>1, <2>3, OneStage DEF StageMap
  <2> QED BY <2>1, <2>3, <2>4 DEF Provisioned!Next, Provisioned!Allocate, StageMap, ChildMap
<1>2. ASSUME NEW c \in Callers, CreateChild(c) PROVE Mapped
  <2> PICK t \in Tokens : t = T(c)
     BY <1>2, DriverFacts DEF CreateChild
  <2>1. /\ row[t] \in Row /\ t \notin child /\ t \notin bound
        /\ row[t].phase = "PREPARED" /\ child' = child \cup {t} /\ UNCHANGED <<row, bound, call>>
     BY <1>2, DriverFacts DEF CreateChild, IInv, TypeOK, Staged, Row, local
  <2>2. /\ StageOf(t) = "ALLOCATED" /\ StageOf(t)' = "CHILD_SESSION_CREATED"
        /\ \A o \in Tokens \ {t} : StageOf(o)' = StageOf(o)
     BY <2>1 DEF StageOf, T
  <2>3. StageMap' = [StageMap EXCEPT ![t] = "CHILD_SESSION_CREATED"] /\ StageMap[t] = "ALLOCATED"
     BY <2>1, <2>2, OneStage DEF StageMap
  <2>4. ChildMap' = [ChildMap EXCEPT ![t] = t] /\ \A o \in Tokens : ChildMap[o] # t
     BY <2>1 DEF ChildMap
  <2> QED BY <2>1, <2>3, <2>4
          DEF Provisioned!Next, Provisioned!CreateChild, StageMap, ChildMap
<1>3. ASSUME NEW c \in Callers, Bind(c) PROVE Mapped
  <2> PICK t \in Tokens : t = T(c)
     BY <1>3, DriverFacts DEF Bind
  <2>1. /\ row[t] \in Row /\ t \in child /\ t \notin bound
        /\ row[t].phase = "PREPARED" /\ bound' = bound \cup {t} /\ UNCHANGED <<row, child, call>>
     BY <1>3, DriverFacts DEF Bind, IInv, TypeOK, Staged, Row, local
  <2>2. /\ StageOf(t) = "CHILD_SESSION_CREATED" /\ StageOf(t)' = "CHILD_BOUND"
        /\ \A o \in Tokens \ {t} : StageOf(o)' = StageOf(o) /\ UNCHANGED ChildMap
     BY <2>1 DEF StageOf, ChildMap, T
  <2>3. StageMap' = [StageMap EXCEPT ![t] = "CHILD_BOUND"]
        /\ StageMap[t] = "CHILD_SESSION_CREATED" /\ UNCHANGED ChildMap
     BY <2>1, <2>2, OneStage DEF StageMap, ChildMap
  <2> QED BY <2>1, <2>3 DEF Provisioned!Next, Provisioned!Bind, StageMap, ChildMap
<1>4. ASSUME NEW c \in Callers, Commit(c) PROVE Mapped
  <2> PICK t \in Tokens : t = T(c)
     BY <1>4, DriverFacts DEF Commit
  <2>1. /\ row \in [Tokens -> Row \cup {NoRow}] /\ row[t] \in Row
        /\ t \in child /\ t \in bound /\ row[t].phase = "PREPARED"
        /\ row' = [row EXCEPT ![t].phase = "COMMITTED"] /\ UNCHANGED <<bound, child, call>>
     BY <1>4, DriverFacts DEF Commit, IInv, TypeOK, Staged, local
  <2>2. /\ row'[t].phase = "COMMITTED" /\ \A o \in Tokens \ {t} : row'[o] = row[o]
     BY <2>1 DEF Row
  <2>3. /\ StageOf(t) = "CHILD_BOUND" /\ StageOf(t)' = "INSTANCE_COMMITTED"
        /\ \A o \in Tokens \ {t} : StageOf(o)' = StageOf(o)
     BY <2>1, <2>2 DEF StageOf, T
  <2>4. StageMap' = [StageMap EXCEPT ![t] = "INSTANCE_COMMITTED"]
        /\ StageMap[t] = "CHILD_BOUND" /\ UNCHANGED ChildMap
     BY <2>1, <2>3, OneStage DEF StageMap, ChildMap
  <2> QED BY <2>1, <2>4 DEF Provisioned!Next, Provisioned!Commit, StageMap, ChildMap
<1>5. ASSUME UNCHANGED <<row, child, bound>> PROVE Mapped
   BY <1>5 DEF Provisioned!vars, StageOf
<1>6. ASSUME NEW c \in Callers, (\E r \in Requests : Activate(c, r)) \/ Abort(c) \/ Step(c)
      PROVE  Mapped
   BY <1>1, <1>2, <1>3, <1>4, <1>5, <1>6
      DEF Activate, Abort, Step, Consult, Close, Enter, Redrive, PutMember, StageFails,
          Finish, Rest, durable
<1>7. ASSUME NEW t \in Tokens, Move(t) PROVE Mapped
   BY <1>5, <1>7 DEF Move
<1>8. CASE Crash
   BY <1>5, <1>8 DEF Crash, durable
<1>9. CASE UNCHANGED vars
   BY <1>5, <1>9 DEF vars, durable
<1> QED BY <1>6, <1>7, <1>8, <1>9 DEF Next

\* provider.ts: activations, re-drives and crashes take a member through the stages of
\* provisioning in order, none skipped and none undone.
THEOREM ActivationImplementsStages == Spec => ImplementsStages
<1>1. Spec => Provisioned!Spec
   BY ActivationInvariant, InitRefines, StepRefines, PTL DEF Spec, Provisioned!Spec
<1> QED BY <1>1 DEF ImplementsStages
=============================================================================
