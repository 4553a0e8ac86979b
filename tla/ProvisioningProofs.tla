--------------------------- MODULE ProvisioningProofs ---------------------------
(***************************************************************************)
(* Proofs about Provisioning: its inductive invariant, the safety           *)
(* invariants and the action property that its runs check, and that every   *)
(* step moves the derived stages as ProvisioningStages promises.            *)
(***************************************************************************)
EXTENDS Provisioning, TLAPS

\* The durable rows agree: a row carries the child the factory made for its member and
\* for no other, a record carries the row's child, a binding the record's, and a
\* committed row has them all.
Rows ==
  /\ \A i \in Instances : op[i].child \in {None, created[i]}
  /\ \A i, j \in Instances : created[i] # None /\ created[i] = created[j] => i = j
  /\ \A i \in Instances : member[i] # NoMember => member[i].child = op[i].child
  /\ \A c \in Children : binding[c] # None => member[binding[c]].child = c
  /\ \A i \in Instances : op[i].phase = "COMMITTED" => i \in fact /\ Bound(i)

\* What a driver that reached stage s with child c in hand has seen done for member i.
Knows(i, s, c) ==
  /\ s \notin {"idle", "prepare"} => op[i] # NoOp
  /\ s = "record" => c # None /\ c = created[i]
  /\ s \in {"member", "writing", "bind", "drive", "commit"} => c # None /\ c = op[i].child
  /\ s \in {"bind", "drive", "commit"} => member[i].child = c
  /\ s \in {"drive", "commit"} => binding[c] = i

Working ==
  \A d \in Drivers : pc[d] # "idle" => call[d] \in Calls /\ Knows(I(d), pc[d], child[d])

\* The put a driver waits for is the one of the stage it is in.
Waiting ==
  \A d \in Drivers :
    /\ pc[d] = "writing" <=> pend[d] # NoPut
    /\ pend[d] # NoPut => /\ pend[d].type \in {"member", "bind"}
                          /\ pend[d].instance = I(d) /\ pend[d].child = child[d]
    /\ pend[d].type = "bind" => member[I(d)].child = child[d]

\* The lifecycle updates a record that exists and has a version left.
Updating ==
  pend[Lifecycle] # NoPut =>
    /\ pend[Lifecycle].type = "update" /\ pend[Lifecycle].expected < MaxVersion
    /\ member[pend[Lifecycle].instance] # NoMember

\* Who is in the chain has issued something, once.
Chained ==
  /\ \A k \in 1 .. Len(chain) : pend[chain[k]] # NoPut
  /\ \A k, l \in 1 .. Len(chain) : chain[k] = chain[l] => k = l

\* A record that a queued put would write is untouched, and nothing in the chain before
\* the put updates it.
Fresh ==
  \A k \in 1 .. Len(chain) : pend[chain[k]].type = "member" =>
    /\ member[pend[chain[k]].instance].version <= 1
    /\ \A l \in 1 .. k : pend[chain[l]].type = "update" =>
         pend[chain[l]].instance # pend[chain[k]].instance

\* An operation is locked by the driver that commits it, whose fact is in the ledger.
Locking ==
  /\ \A i \in Instances : lock[i] # None =>
       pc[lock[i]] = "commit" /\ I(lock[i]) = i /\ op[i].phase = "PREPARED" /\ i \in fact
  /\ \A d \in Drivers : pc[d] = "commit" => lock[I(d)] = d

Reported == \A d \in Drivers : \A i \in result[d] : op[i].phase = "COMMITTED"

\* The inductive invariant.
IInv == /\ TypeOK /\ Rows /\ Working /\ Waiting /\ Updating /\ Chained /\ Fresh
        /\ Locking /\ Reported

\* Nothing a durable row says is taken back.
Forward ==
  /\ \A i \in Instances :
       /\ op[i] # NoOp => op'[i] # NoOp
       /\ op[i].child # None => op'[i].child = op[i].child
       /\ op[i].phase = "COMMITTED" => op'[i].phase = "COMMITTED"
       /\ created[i] # None => created'[i] = created[i]
       /\ member[i] # NoMember => member'[i].child = member[i].child
  /\ \A c \in Children : binding[c] # None => binding'[c] = binding[c]

\* Driver d goes on to stage s with child c in hand, or its call settles.
Moves(d, s, c) ==
  /\ pc' = [pc EXCEPT ![d] = s] /\ child' = [child EXCEPT ![d] = c]
  /\ call' \in [Drivers -> Calls \cup {NoCall}]
  /\ \A e \in Drivers \ {d} : call'[e] = call[e]
  /\ s # "idle" => call'[d] \in Calls
  /\ s \notin {"idle", "prepare"} => call'[d].instance = call[d].instance
  /\ result' \in [Drivers -> SUBSET Instances]
  /\ \A e \in Drivers : \A i \in result'[e] : i \in result[e] \/ op'[i].phase = "COMMITTED"

\* What is durable after the step lets d work on member i in stage s with child c.
Learns(i, s, c) ==
  /\ s \notin {"idle", "prepare"} => op'[i] # NoOp
  /\ s = "record" => c # None /\ c = created'[i]
  /\ s \in {"member", "writing", "bind", "drive", "commit"} => c # None /\ c = op'[i].child
  /\ s \in {"bind", "drive", "commit"} => member'[i].child = c
  /\ s \in {"drive", "commit"} => binding'[c] = i

PCs == {"idle", "prepare", "create", "calling", "record", "member", "bind", "drive", "commit",
        "writing"}

-------------------------------------------------------------------------------
USE ProvisioningAssumption

LEMMA InitHolds == Init => IInv
<1> SUFFICES ASSUME Init PROVE IInv
   OBVIOUS
<1>1. TypeOK
   BY DEF Init, TypeOK, Writers
<1>2. Rows /\ Working /\ Waiting /\ Updating
   BY DEF Init, Rows, Working, Waiting, Updating, NoOp, NoPut, Writers
<1>3. Chained /\ Fresh /\ Locking /\ Reported
   BY DEF Init, Chained, Fresh, Locking, Reported
<1> QED BY <1>1, <1>2, <1>3 DEF IInv

\* The absent rows are no rows, and no call and no put is the absent one.
LEMMA NoneFacts ==
  /\ NoOp \notin Op /\ NoOp.child = None /\ NoOp.phase = "ABSENT" /\ NoOp.key = None
  /\ NoMember \notin Member /\ NoMember.child = None /\ NoMember.version = 0
  /\ NoCall \notin Calls /\ NoPut \notin Puts /\ NoPut.type = "none"
  /\ None \notin Children /\ None \notin Tokens /\ None \notin Instances /\ None \notin Drivers
  /\ Lifecycle \notin Drivers
BY DEF NoOp, Op, NoMember, Member, NoCall, Calls, NoPut, Puts

\* What a call that is not idle is about.
LEMMA CallFacts ==
  ASSUME IInv, NEW d \in Drivers, pc[d] # "idle"
  PROVE  /\ call[d] \in Calls /\ I(d) \in Instances /\ call[d].token \in Tokens
         /\ call[d].pass \in 1 .. 4 /\ call[d].last \in 1 .. 4
         /\ child[d] \in Children \cup {None} /\ Knows(I(d), pc[d], child[d])
         /\ op[I(d)] \in Op \cup {NoOp} /\ member[I(d)] \in Member \cup {NoMember}
<1>1. call[d] \in Calls /\ Knows(I(d), pc[d], child[d])
   BY DEF IInv, Working
<1>2. Len(Stages) = 4
   BY DEF Stages
<1> QED BY <1>1, <1>2 DEF IInv, TypeOK, Calls, Depth, I

\* The ways a call goes on.
LEMMA Ways ==
  ASSUME IInv, NEW d \in Drivers, pc[d] # "idle", Forward
  PROVE  /\ \A s, c : Goto(d, s, c) => Moves(d, s, c)
         /\ \A b \in BOOLEAN : Leave(d, b) /\ (b => op'[I(d)].phase = "COMMITTED") =>
              Moves(d, "idle", None)
         /\ \A pass, s, c : Onward(d, pass, s, c) =>
              Moves(d, s, c) \/ Moves(d, "prepare", None) \/ Moves(d, "idle", None)
<1>1. /\ call[d] \in Calls /\ I(d) \in Instances /\ call[d].pass \in 1 .. 4 /\ call[d].last \in 1 .. 4
      /\ call \in [Drivers -> Calls \cup {NoCall}] /\ result \in [Drivers -> SUBSET Instances]
   BY CallFacts DEF IInv, TypeOK
<1>2. ASSUME NEW s, NEW c, Goto(d, s, c)
      PROVE  Moves(d, s, c)
   BY <1>1, <1>2 DEF Goto, Moves
<1>3. ASSUME NEW b \in BOOLEAN, b => op'[I(d)].phase = "COMMITTED", Leave(d, b)
      PROVE  Moves(d, "idle", None)
   BY <1>1, <1>3 DEF Leave, Moves
<1>4. ASSUME NEW pass, NEW s, NEW c, Onward(d, pass, s, c)
      PROVE  Moves(d, s, c) \/ Moves(d, "prepare", None) \/ Moves(d, "idle", None)
  <2>1. CASE call[d].pass # pass
     BY <1>2, <1>4, <2>1 DEF Onward
  <2>2. CASE call[d].pass = pass /\ call[d].pass < call[d].last
    <3>1. Len(Stages) = 4
       BY DEF Stages
    <3>2. [call[d] EXCEPT !.pass = @ + 1] \in Calls
       BY <1>1, <2>2, <3>1 DEF Calls, Depth
    <3>3. /\ pc' = [pc EXCEPT ![d] = "prepare"] /\ child' = [child EXCEPT ![d] = None]
          /\ call' = [call EXCEPT ![d] = [call[d] EXCEPT !.pass = @ + 1]] /\ result' = result
       BY <1>4, <2>2 DEF Onward, Passed
    <3> QED BY <1>1, <3>2, <3>3 DEF Moves
  <2>3. CASE call[d].pass = pass /\ ~(call[d].pass < call[d].last)
     BY <1>3, <1>4, <2>3 DEF Onward, Passed
  <2> QED BY <2>1, <2>2, <2>3
<1> QED BY <1>2, <1>3, <1>4

LEMMA TailFacts ==
  ASSUME NEW S, NEW q \in Seq(S), q # << >>
  PROVE  /\ Tail(q) \in Seq(S) /\ Len(q) \in Nat \ {0} /\ Len(Tail(q)) = Len(q) - 1
         /\ Head(q) = q[1] /\ Head(q) \in S
         /\ \A k \in 1 .. Len(Tail(q)) : Tail(q)[k] = q[k + 1] /\ k + 1 \in 2 .. Len(q)
OBVIOUS

LEMMA AppendFacts ==
  ASSUME NEW S, NEW q \in Seq(S), NEW e \in S
  PROVE  /\ Append(q, e) \in Seq(S) /\ Len(q) \in Nat /\ Len(Append(q, e)) = Len(q) + 1
         /\ Append(q, e)[Len(q) + 1] = e
         /\ \A k \in 1 .. Len(q) : Append(q, e)[k] = q[k]
OBVIOUS

\* A step of a call keeps what every call knows, as long as it learns what it needs.
LEMMA MovesLearn ==
  ASSUME IInv, NEW d \in Drivers, NEW s \in PCs, NEW c \in Children \cup {None},
         Moves(d, s, c), Forward, s \notin {"idle", "prepare"} => Learns(I(d), s, c)
  PROVE  /\ pc' \in [Drivers -> PCs] /\ child' \in [Drivers -> Children \cup {None}]
         /\ pc'[d] = s /\ child'[d] = c
         /\ \A e \in Drivers \ {d} : pc'[e] = pc[e] /\ child'[e] = child[e] /\ call'[e] = call[e]
         /\ Working' /\ Reported'
<1>1. /\ pc \in [Drivers -> PCs] /\ child \in [Drivers -> Children \cup {None}]
      /\ pc'[d] = s /\ child'[d] = c
      /\ \A e \in Drivers \ {d} : pc'[e] = pc[e] /\ child'[e] = child[e] /\ call'[e] = call[e]
   BY DEF IInv, TypeOK, Moves, PCs
<1>2. pc' \in [Drivers -> PCs] /\ child' \in [Drivers -> Children \cup {None}]
   BY <1>1 DEF Moves
<1>3. Working'
  <2> SUFFICES ASSUME NEW e \in Drivers, pc'[e] # "idle"
               PROVE  call'[e] \in Calls /\ Knows(I(e), pc[e], child[e])'
     BY DEF Working
  <2>1. CASE e = d
    <3>1. call'[d] \in Calls /\ pc'[e] = s /\ child'[e] = c /\ s # "idle"
       BY <1>1, <2>1 DEF Moves
    <3>2. s # "prepare" => call'[d].instance = I(d) /\ Learns(I(d), s, c)
       BY <3>1 DEF Moves, I
    <3> QED BY <2>1, <3>1, <3>2 DEF I, Knows, Learns
  <2>2. CASE e # d
    <3>1. /\ pc'[e] = pc[e] /\ child'[e] = child[e] /\ call'[e] = call[e] /\ pc[e] # "idle"
       BY <1>1, <2>2
    <3>2. /\ call[e] \in Calls /\ I(e) \in Instances /\ Knows(I(e), pc[e], child[e])
          /\ child[e] \in Children \cup {None} /\ member[I(e)] \in Member \cup {NoMember}
       BY <3>1, CallFacts
    <3> QED BY <3>1, <3>2, NoneFacts DEF Forward, Knows, I
  <2> QED BY <2>1, <2>2
<1>4. Reported'
   BY DEF IInv, TypeOK, Reported, Moves, Forward
<1> QED BY <1>1, <1>2, <1>3, <1>4

\* ... and one that issues and takes no write keeps the writes as they are.
LEMMA MovesKeep ==
  ASSUME IInv, NEW d \in Drivers, NEW s \in PCs \ {"writing"}, NEW c \in Children \cup {None},
         Moves(d, s, c), Forward, pc[d] # "writing", UNCHANGED <<member, chain, pend>>,
         s \notin {"idle", "prepare"} => Learns(I(d), s, c)
  PROVE  /\ pc' \in [Drivers -> PCs] /\ child' \in [Drivers -> Children \cup {None}]
         /\ Working' /\ Waiting' /\ Updating' /\ Chained' /\ Fresh' /\ Reported'
<1>1. /\ pc' \in [Drivers -> PCs] /\ child' \in [Drivers -> Children \cup {None}] /\ pc'[d] = s
      /\ \A e \in Drivers \ {d} : pc'[e] = pc[e] /\ child'[e] = child[e] /\ call'[e] = call[e]
      /\ Working' /\ Reported'
   BY MovesLearn
<1>2. Waiting'
  <2>1. pend[d] = NoPut
     BY DEF IInv, Waiting
  <2> QED BY <1>1, <2>1, NoneFacts DEF IInv, Waiting, I
<1>3. Updating' /\ Chained' /\ Fresh'
   BY DEF IInv, Updating, Chained, Fresh
<1> QED BY <1>1, <1>2, <1>3

LEMMA NothingChanges ==
  ASSUME UNCHANGED durable
  PROVE  Forward
BY DEF Forward, durable

\* The locks stand as long as the rows that are locked do, and a step of a call that
\* is not at its commit, nor goes there, leaves them.
LEMMA LockKept ==
  ASSUME IInv, NEW d \in Drivers, NEW s \in PCs \ {"commit"}, NEW c, Moves(d, s, c),
         pc[d] # "commit", UNCHANGED <<fact, lock>>,
         \A i \in Instances : lock[i] # None => op'[i] = op[i]
  PROVE  Locking'
<1>1. \A i \in Instances : lock[i] # d
   BY DEF IInv, Locking
<1>2. \A e \in Drivers \ {d} : pc'[e] = pc[e] /\ call'[e] = call[e]
   BY DEF IInv, TypeOK, Moves
<1>3. pc'[d] = s
   BY DEF IInv, TypeOK, Moves
<1> QED BY <1>1, <1>2, <1>3, NoneFacts DEF IInv, TypeOK, Locking, I

\* A step of a call that changes no row, lock or write.
LEMMA CallMoves ==
  ASSUME IInv, NEW d \in Drivers, NEW s \in PCs \ {"writing", "commit"},
         NEW c \in Children \cup {None}, Moves(d, s, c), pc[d] \notin {"writing", "commit"},
         UNCHANGED <<durable, lock, chain, pend, crashes>>, faults' \in 0 .. MaxFaults,
         s \notin {"idle", "prepare"} => Knows(I(d), s, c)
  PROVE  IInv'
<1>1. Forward /\ UNCHANGED member
   BY NothingChanges DEF durable
<1>2. s \notin {"idle", "prepare"} => Learns(I(d), s, c)
   BY DEF durable, Knows, Learns
<1>3. /\ pc' \in [Drivers -> PCs] /\ child' \in [Drivers -> Children \cup {None}]
      /\ Working' /\ Waiting' /\ Updating' /\ Chained' /\ Fresh' /\ Reported'
   BY <1>1, <1>2, MovesKeep
<1>4. TypeOK'
   BY <1>3 DEF IInv, TypeOK, durable, Moves, PCs, Puts, Op, Member, Writers
<1>5. Rows'
   BY DEF IInv, Rows, durable, Bound
<1>6. Locking'
   BY LockKept DEF durable
<1> QED BY <1>3, <1>4, <1>5, <1>6 DEF IInv

LEMMA FaultFacts ==
  ASSUME IInv, UNCHANGED faults \/ Fault
  PROVE  faults' \in 0 .. MaxFaults
BY DEF IInv, TypeOK, Fault

\* A call that fails or is refused, with all that is durable standing.
LEMMA Refused ==
  ASSUME IInv, NEW d \in Drivers, pc[d] \notin {"idle", "writing", "commit"}, Leave(d, FALSE),
         UNCHANGED <<durable, lock, chain, pend, crashes>>, faults' \in 0 .. MaxFaults
  PROVE  IInv'
<1>1. Moves(d, "idle", None)
   BY NothingChanges, Ways
<1> QED BY <1>1, CallMoves DEF PCs

-------------------------------------------------------------------------------
(* One lemma per action *)

LEMMA SubmitStep ==
  ASSUME IInv, NEW d \in Drivers, Submit(d)
  PROVE  IInv'
<1>1. Moves(d, "prepare", child[d]) /\ child[d] \in Children \cup {None}
  <2>1. /\ call \in [Drivers -> Calls \cup {NoCall}] /\ child \in [Drivers -> Children \cup {None}]
        /\ result \in [Drivers -> SUBSET Instances]
     BY DEF IInv, TypeOK
  <2>2. PICK c \in Calls : call' = [call EXCEPT ![d] = c]
     BY DEF Submit, Requests
  <2> QED BY <2>1, <2>2 DEF Submit, Moves
<1>2. faults' \in 0 .. MaxFaults
   BY DEF Submit, IInv, TypeOK
<1> QED BY <1>1, <1>2, CallMoves DEF Submit, PCs

LEMMA PrepareStep ==
  ASSUME IInv, NEW d \in Drivers, Prepare(d)
  PROVE  IInv'
<1> DEFINE i == I(d)
<1>1. /\ i \in Instances /\ call[d].token \in Tokens /\ pc[d] = "prepare" /\ lock[i] = None
      /\ faults \in 0 .. MaxFaults /\ op[i] \in Op \cup {NoOp} /\ UNCHANGED crashes
   BY CallFacts DEF Prepare, IInv, TypeOK
<1>2. CASE Refuse(d) /\ (UNCHANGED faults \/ Fault)
   BY <1>1, <1>2, FaultFacts, Refused DEF Refuse
<1>3. ASSUME op[i] # NoOp, Onward(d, 1, "create", None),
             UNCHANGED <<durable, lock, chain, pend, faults>>
      PROVE  IInv'
  <2>1. \/ Moves(d, "create", None) \/ Moves(d, "prepare", None) \/ Moves(d, "idle", None)
     BY <1>1, <1>3, NothingChanges, Ways
  <2> QED BY <1>1, <1>3, <2>1, CallMoves DEF PCs, Knows
<1>4. ASSUME op[i] = NoOp, Onward(d, 1, "create", None),
             op' = [op EXCEPT ![i] = [phase |-> "PREPARED", key |-> call[d].token, child |-> None]],
             UNCHANGED <<fact, member, binding, created, lock, chain, pend, faults>>
      PROVE  IInv'
  <2> DEFINE o == [phase |-> "PREPARED", key |-> call[d].token, child |-> None]
  <2>1. /\ o \in Op /\ op' = [op EXCEPT ![i] = o] /\ op \in [Instances -> Op \cup {NoOp}]
        /\ o.phase = "PREPARED" /\ o.child = None
     BY <1>1, <1>4 DEF Op, IInv, TypeOK
  <2> HIDE DEF i, o
  <2>2. op' \in [Instances -> Op \cup {NoOp}] /\ op'[i] = o /\ \A j \in Instances \ {i} : op'[j] = op[j]
     BY <1>1, <2>1
  <2>3. Forward
     BY <1>4, <2>1, <2>2, NoneFacts DEF Forward
  <2>4. \/ Moves(d, "create", None) \/ Moves(d, "prepare", None) \/ Moves(d, "idle", None)
     BY <1>1, <1>4, <2>3, Ways
  <2>5. Learns(I(d), "create", None) /\ Learns(I(d), "prepare", None)
     BY <2>1, <2>2, NoneFacts DEF Learns, i
  <2>6. /\ pc' \in [Drivers -> PCs] /\ child' \in [Drivers -> Children \cup {None}]
        /\ Working' /\ Waiting' /\ Updating' /\ Chained' /\ Fresh' /\ Reported'
     BY <1>1, <1>4, <2>3, <2>4, <2>5, MovesKeep DEF PCs
  <2>7. TypeOK'
     BY <1>1, <1>4, <2>2, <2>4, <2>6 DEF IInv, TypeOK, Moves, PCs, Puts, Member, Writers
  <2>8. Rows'
     BY <1>1, <1>4, <2>1, <2>2, NoneFacts DEF IInv, Rows, Bound
  <2>9. Locking'
     BY <1>1, <1>4, <2>2, <2>4, LockKept DEF PCs
  <2> QED BY <2>6, <2>7, <2>8, <2>9 DEF IInv
<1> QED BY <1>1, <1>2, <1>3, <1>4, NoneFacts DEF Prepare

LEMMA CreateChildSessionStep ==
  ASSUME IInv, NEW d \in Drivers, CreateChildSession(d)
  PROVE  IInv'
<1>1. /\ I(d) \in Instances /\ op[I(d)] \in Op \cup {NoOp} /\ pc[d] = "create" /\ op[I(d)] # NoOp
      /\ op[I(d)].child \in Children \cup {None}
   BY CallFacts, NoneFacts DEF CreateChildSession, Knows, Op
<1>2. \/ Moves(d, "member", op[I(d)].child) /\ op[I(d)].child # None
      \/ Moves(d, "calling", None)
   BY <1>1, NothingChanges, Ways DEF CreateChildSession
<1>3. faults' \in 0 .. MaxFaults
   BY FaultFacts DEF CreateChildSession
<1> QED BY <1>1, <1>2, <1>3, CallMoves DEF CreateChildSession, PCs, Knows

LEMMA FactoryAnswersStep ==
  ASSUME IInv, NEW d \in Drivers, FactoryAnswers(d)
  PROVE  IInv'
<1> DEFINE i == I(d)
<1>1. /\ i \in Instances /\ op[i] # NoOp /\ pc[d] = "calling" /\ UNCHANGED <<lock, chain, pend, crashes>>
      /\ created[i] \in Children \cup {None} /\ faults' \in 0 .. MaxFaults
   BY CallFacts, FaultFacts DEF FactoryAnswers, Knows, IInv, TypeOK
<1>2. CASE created[i] # None /\ Goto(d, "record", created[i]) /\ UNCHANGED durable
  <2>1. Moves(d, "record", created[i])
     BY <1>1, <1>2, NothingChanges, Ways
  <2> QED BY <1>1, <1>2, <2>1, CallMoves DEF PCs, Knows
<1>3. CASE Leave(d, FALSE) /\ UNCHANGED durable
   BY <1>1, <1>3, Refused
<1>4. ASSUME created[i] = None, NEW c \in Children, \A j \in Instances : created[j] # c,
             created' = [created EXCEPT ![i] = c], Goto(d, "record", c) \/ Leave(d, FALSE),
             UNCHANGED <<op, fact, member, binding>>
      PROVE  IInv'
  <2>1. /\ created \in [Instances -> Children \cup {None}] /\ created'[i] = c
        /\ \A j \in Instances \ {i} : created'[j] = created[j]
     BY <1>1, <1>4 DEF IInv, TypeOK
  <2> HIDE DEF i
  <2>2. Forward
     BY <1>4, <2>1 DEF Forward
  <2>3. Moves(d, "record", c) \/ Moves(d, "idle", None)
     BY <1>1, <1>4, <2>2, Ways
  <2>4. Learns(I(d), "record", c)
     BY <1>1, <1>4, <2>1, NoneFacts DEF Learns, i
  <2>5. /\ pc' \in [Drivers -> PCs] /\ child' \in [Drivers -> Children \cup {None}]
        /\ Working' /\ Waiting' /\ Updating' /\ Chained' /\ Fresh' /\ Reported'
     BY <1>1, <1>4, <2>2, <2>3, <2>4, MovesKeep DEF PCs
  <2>6. TypeOK'
     BY <1>1, <1>4, <2>1, <2>3, <2>5 DEF IInv, TypeOK, Moves, PCs, Puts, Member, Writers, Op
  <2>7. Rows'
     BY <1>1, <1>4, <2>1, NoneFacts DEF IInv, Rows, Bound
  <2>8. Locking'
     BY <1>1, <1>4, <2>3, LockKept DEF PCs
  <2> QED BY <2>5, <2>6, <2>7, <2>8 DEF IInv
<1> QED BY <1>1, <1>2, <1>3, <1>4 DEF FactoryAnswers

LEMMA RecordChildSessionStep ==
  ASSUME IInv, NEW d \in Drivers, RecordChildSession(d)
  PROVE  IInv'
<1> DEFINE i == I(d)
<1>1. /\ i \in Instances /\ op[i] \in Op /\ pc[d] = "record" /\ lock[i] = None
      /\ child[d] \in Children /\ child[d] = created[i] /\ UNCHANGED crashes
   BY CallFacts, NoneFacts DEF RecordChildSession, Knows
<1>2. CASE Refuse(d) /\ (UNCHANGED faults \/ Fault)
   BY <1>1, <1>2, FaultFacts, Refused DEF Refuse
<1>3. ASSUME op[i].child = child[d], Goto(d, "member", child[d]),
             UNCHANGED <<durable, lock, chain, pend, faults>>
      PROVE  IInv'
  <2>1. Moves(d, "member", child[d]) /\ faults' \in 0 .. MaxFaults
     BY <1>1, <1>3, NothingChanges, FaultFacts, Ways
  <2> QED BY <1>1, <1>3, <2>1, NoneFacts, CallMoves DEF PCs, Knows
<1>4. ASSUME op[i].phase = "PREPARED", op[i].child = None, Goto(d, "member", child[d]),
             op' = [op EXCEPT ![i].child = child[d]],
             UNCHANGED <<fact, member, binding, created, lock, chain, pend, faults>>
      PROVE  IInv'
  <2> DEFINE o == [op[i] EXCEPT !.child = child[d]]
  <2>1. /\ o \in Op /\ op' = [op EXCEPT ![i] = o] /\ op \in [Instances -> Op \cup {NoOp}]
        /\ o.phase = "PREPARED" /\ o.child = child[d]
     BY <1>1, <1>4 DEF Op, IInv, TypeOK
  <2> HIDE DEF i, o
  <2>2. op' \in [Instances -> Op \cup {NoOp}] /\ op'[i] = o /\ \A j \in Instances \ {i} : op'[j] = op[j]
     BY <1>1, <2>1
  <2>3. Forward
     BY <1>4, <2>1, <2>2, NoneFacts DEF Forward
  <2>4. Moves(d, "member", child[d])
     BY <1>1, <1>4, <2>3, Ways
  <2>5. Learns(I(d), "member", child[d])
     BY <1>1, <2>1, <2>2, NoneFacts DEF Learns, i
  <2>6. /\ pc' \in [Drivers -> PCs] /\ child' \in [Drivers -> Children \cup {None}]
        /\ Working' /\ Waiting' /\ Updating' /\ Chained' /\ Fresh' /\ Reported'
     BY <1>1, <1>4, <2>3, <2>4, <2>5, MovesKeep DEF PCs
  <2>7. TypeOK'
     BY <1>1, <1>4, <2>2, <2>4, <2>6 DEF IInv, TypeOK, Moves, PCs, Puts, Member, Writers
  <2>8. Rows'
    <3>1. member[i] = NoMember
       BY <1>1, <1>4, NoneFacts DEF IInv, Rows, TypeOK, Member
    <3> QED BY <1>1, <1>4, <2>1, <2>2, <3>1, NoneFacts DEF IInv, Rows, Bound
  <2>9. Locking'
     BY <1>1, <1>4, <2>2, <2>4, LockKept DEF PCs
  <2> QED BY <2>6, <2>7, <2>8, <2>9 DEF IInv
<1> QED BY <1>1, <1>2, <1>3, <1>4 DEF RecordChildSession

-------------------------------------------------------------------------------
(* The write chain *)

\* What a writer has issued, when it has.
LEMMA PendFacts ==
  ASSUME IInv, NEW w \in Writers
  PROVE  /\ pend[w] \in Puts \cup {NoPut} /\ NoPut.type = "none"
         /\ pend[w].type = "update" => w = Lifecycle
         /\ pend[w].type \in {"member", "bind"} => w \in Drivers
         /\ w \in Drivers \cup {Lifecycle}
<1>1. /\ w \in Drivers => pend[w] = NoPut \/ pend[w].type \in {"member", "bind"}
      /\ pend[Lifecycle] = NoPut \/ pend[Lifecycle].type = "update"
   BY DEF IInv, Waiting, Updating
<1> QED BY <1>1, NoneFacts DEF IInv, TypeOK, Writers

\* A write that is issued goes behind all the others: no update of a record that does not
\* exist is before the put of one.
LEMMA Issued ==
  ASSUME IInv, NEW w \in Writers, NEW put \in Puts, Issue(w, put), pend[w] = NoPut,
         UNCHANGED member, put.type = "member" => member[put.instance] = NoMember
  PROVE  /\ chain' \in Seq(Writers) /\ pend' \in [Writers -> Puts \cup {NoPut}]
         /\ pend'[w] = put /\ \A v \in Writers \ {w} : pend'[v] = pend[v]
         /\ Chained' /\ Fresh'
<1>1. /\ chain \in Seq(Writers) /\ pend \in [Writers -> Puts \cup {NoPut}]
      /\ chain' = Append(chain, w) /\ put # NoPut
   BY NoneFacts DEF IInv, TypeOK, Issue
<1>2. /\ pend' \in [Writers -> Puts \cup {NoPut}]
      /\ pend'[w] = put /\ \A v \in Writers \ {w} : pend'[v] = pend[v]
   BY <1>1 DEF Issue
<1>3. /\ chain' \in Seq(Writers) /\ Len(chain) \in Nat /\ Len(chain') = Len(chain) + 1
      /\ chain'[Len(chain) + 1] = w /\ \A k \in 1 .. Len(chain) : chain'[k] = chain[k]
   BY <1>1, AppendFacts
<1>4. \A k \in 1 .. Len(chain) :
        /\ chain[k] \in Writers /\ pend[chain[k]] # NoPut /\ chain[k] # w
        /\ pend'[chain[k]] = pend[chain[k]]
   BY <1>1, <1>2 DEF IInv, Chained
<1>5. \A k \in 1 .. Len(chain') : k \in 1 .. Len(chain) \/ k = Len(chain) + 1
   BY <1>3
<1>6. Chained'
  <2>1. ASSUME NEW k \in 1 .. Len(chain')
        PROVE  pend'[chain'[k]] # NoPut
     BY <1>1, <1>2, <1>3, <1>4, <1>5
  <2>2. ASSUME NEW k \in 1 .. Len(chain'), NEW l \in 1 .. Len(chain'), chain'[k] = chain'[l]
        PROVE  k = l
    <3>1. CASE k \in 1 .. Len(chain) /\ l \in 1 .. Len(chain)
       BY <1>3, <2>2, <3>1 DEF IInv, Chained
    <3>2. CASE k = Len(chain) + 1 \/ l = Len(chain) + 1
       BY <1>3, <1>4, <1>5, <2>2, <3>2
    <3> QED BY <1>5, <3>1, <3>2
  <2> QED BY <2>1, <2>2 DEF Chained
<1>7. Fresh'
  <2> SUFFICES ASSUME NEW k \in 1 .. Len(chain'), pend'[chain'[k]].type = "member"
               PROVE  /\ member[pend'[chain'[k]].instance].version <= 1
                      /\ \A l \in 1 .. k : pend'[chain'[l]].type = "update" =>
                           pend'[chain'[l]].instance # pend'[chain'[k]].instance
     BY DEF Fresh
  <2>1. CASE k \in 1 .. Len(chain)
    <3>1. \A l \in 1 .. k : l \in 1 .. Len(chain)
       BY <1>3, <2>1
    <3>2. \A l \in 1 .. k : pend'[chain'[l]] = pend[chain[l]]
       BY <1>3, <1>4, <3>1
    <3>3. pend'[chain'[k]] = pend[chain[k]]
       BY <1>3, <1>4, <2>1
    <3> QED BY <2>1, <3>2, <3>3 DEF IInv, Fresh
  <2>2. CASE k = Len(chain) + 1
    <3>1. pend'[chain'[k]] = put /\ member[put.instance] = NoMember
       BY <1>2, <1>3, <2>2
    <3>2. ASSUME NEW l \in 1 .. k, pend'[chain'[l]].type = "update"
          PROVE  pend'[chain'[l]].instance # put.instance
      <4>1. l \in 1 .. Len(chain)
         BY <1>3, <2>2, <3>1, <3>2
      <4>2. pend'[chain'[l]] = pend[chain[l]] /\ chain[l] \in Writers
         BY <1>3, <1>4, <4>1
      <4>3. pend[chain[l]].type = "update" /\ chain[l] = Lifecycle /\ pend[Lifecycle] # NoPut
         BY <3>2, <4>1, <4>2, <1>4, PendFacts
      <4>4. member[pend[Lifecycle].instance] # NoMember
         BY <4>3 DEF IInv, Updating
      <4> QED BY <3>1, <4>2, <4>3, <4>4
    <3> QED BY <3>1, <3>2, NoneFacts
  <2> QED BY <1>5, <2>1, <2>2
<1> QED BY <1>2, <1>3, <1>6, <1>7

\* A driver issues a put of its member's record, which is not there, or of its binding.
LEMMA IssueStep ==
  ASSUME IInv, NEW d \in Drivers, pc[d] \in {"member", "bind"}, NEW put \in Puts,
         put.type \in {"member", "bind"}, put.instance = I(d), put.child = op[I(d)].child,
         put.type = "member" => member[I(d)] = NoMember,
         put.type = "bind" => member[I(d)].child = put.child,
         Issue(d, put), Goto(d, "writing", put.child), UNCHANGED <<durable, lock, crashes, faults>>
  PROVE  IInv'
<1>1. /\ op[I(d)] # NoOp /\ I(d) \in Instances /\ put.child \in Children
   BY CallFacts, NoneFacts DEF Knows, Puts
<1>2. /\ pend[d] = NoPut /\ d \in Writers /\ \A v \in Drivers \ {d} : v \in Writers
   BY NoneFacts DEF IInv, Waiting, Writers
<1>3. /\ chain' \in Seq(Writers) /\ pend' \in [Writers -> Puts \cup {NoPut}]
      /\ pend'[d] = put /\ \A v \in Writers \ {d} : pend'[v] = pend[v]
      /\ Chained' /\ Fresh'
   BY <1>2, Issued DEF durable
<1>4. /\ pc' \in [Drivers -> PCs] /\ child' \in [Drivers -> Children \cup {None}]
      /\ pc'[d] = "writing" /\ child'[d] = put.child /\ call' = call /\ result' = result
      /\ \A e \in Drivers \ {d} : pc'[e] = pc[e] /\ child'[e] = child[e]
   BY <1>1 DEF IInv, TypeOK, PCs, Goto
<1>5. TypeOK'
   BY <1>3, <1>4 DEF IInv, TypeOK, durable, PCs, Puts, Member, Op, Writers
<1>6. Rows'
   BY DEF IInv, Rows, durable, Bound
<1>7. Working'
   BY <1>1, <1>4, NoneFacts DEF IInv, Working, Knows, I, durable
<1>8. Waiting'
  <2>1. put # NoPut
     BY NoneFacts
  <2> QED BY <1>2, <1>3, <1>4, <2>1, NoneFacts DEF IInv, Waiting, I, durable
<1>9. Updating'
   BY <1>3, NoneFacts DEF IInv, Updating, Writers, durable
<1>10. Locking'
  <2>1. \A i \in Instances : lock[i] # d
     BY DEF IInv, Locking
  <2> QED BY <1>4, <2>1, NoneFacts DEF IInv, TypeOK, Locking, I, durable
<1>11. Reported'
   BY <1>4 DEF IInv, Reported, durable
<1> QED BY <1>3, <1>5, <1>6, <1>7, <1>8, <1>9, <1>10, <1>11 DEF IInv

LEMMA EnsureMemberRecordStep ==
  ASSUME IInv, NEW d \in Drivers, EnsureMemberRecord(d)
  PROVE  IInv'
<1>1. /\ I(d) \in Instances /\ child[d] \in Children /\ child[d] = op[I(d)].child
      /\ pc[d] = "member" /\ UNCHANGED <<crashes, faults>> /\ op[I(d)] # NoOp
      /\ faults' \in 0 .. MaxFaults
   BY CallFacts, FaultFacts DEF EnsureMemberRecord, Knows
<1>2. ASSUME member[I(d)] = NoMember, Goto(d, "writing", child[d]), UNCHANGED <<durable, lock>>,
             Issue(d, [type |-> "member", instance |-> I(d), child |-> child[d]])
      PROVE  IInv'
  <2> DEFINE put == [type |-> "member", instance |-> I(d), child |-> child[d]]
  <2>1. /\ put \in Puts /\ put.type = "member" /\ put.instance = I(d) /\ put.child = child[d]
        /\ Issue(d, put)
     BY <1>1, <1>2 DEF Puts
  <2> HIDE DEF put
  <2> QED BY <1>1, <1>2, <2>1, IssueStep
<1>3. ASSUME member[I(d)].child = child[d], Onward(d, 2, "bind", child[d]),
             UNCHANGED <<durable, lock, chain, pend>>
      PROVE  IInv'
  <2>1. Moves(d, "bind", child[d]) \/ Moves(d, "prepare", None) \/ Moves(d, "idle", None)
     BY <1>1, <1>3, NothingChanges, Ways
  <2> QED BY <1>1, <1>3, <2>1, NoneFacts, CallMoves DEF PCs, Knows
<1>4. CASE Refuse(d)
   BY <1>1, <1>4, Refused DEF Refuse
<1> QED BY <1>2, <1>3, <1>4 DEF EnsureMemberRecord

LEMMA BindChildSessionStep ==
  ASSUME IInv, NEW d \in Drivers, BindChildSession(d)
  PROVE  IInv'
<1> DEFINE c == op[I(d)].child
<1>1. /\ I(d) \in Instances /\ c \in Children /\ child[d] = c /\ member[I(d)].child = c
      /\ pc[d] = "bind" /\ UNCHANGED <<crashes, faults>> /\ op[I(d)] # NoOp
      /\ faults' \in 0 .. MaxFaults
   BY CallFacts, FaultFacts DEF BindChildSession, Knows
<1>2. ASSUME Goto(d, "writing", c), UNCHANGED <<durable, lock>>,
             Issue(d, [type |-> "bind", instance |-> I(d), child |-> c])
      PROVE  IInv'
  <2> DEFINE put == [type |-> "bind", instance |-> I(d), child |-> c]
  <2>1. /\ put \in Puts /\ put.type = "bind" /\ put.instance = I(d) /\ put.child = c
        /\ Issue(d, put)
     BY <1>1, <1>2 DEF Puts
  <2> HIDE DEF put
  <2> QED BY <1>1, <1>2, <2>1, IssueStep
<1>3. ASSUME binding[c] = I(d), Onward(d, 3, "drive", c), UNCHANGED <<durable, lock, chain, pend>>
      PROVE  IInv'
  <2>1. Moves(d, "drive", c) \/ Moves(d, "prepare", None) \/ Moves(d, "idle", None)
     BY <1>1, <1>3, NothingChanges, Ways
  <2> QED BY <1>1, <1>3, <2>1, NoneFacts, CallMoves DEF PCs, Knows
<1>4. CASE Refuse(d)
   BY <1>1, <1>4, Refused DEF Refuse
<1> QED BY <1>2, <1>3, <1>4 DEF BindChildSession

LEMMA TransitionStep ==
  ASSUME IInv, NEW i \in Instances, Transition(i)
  PROVE  IInv'
<1> DEFINE put == [type |-> "update", instance |-> i, expected |-> member[i].version]
<1>1. /\ put \in Puts /\ put.type = "update" /\ put.instance = i /\ put.expected < MaxVersion
      /\ Issue(Lifecycle, put) /\ pend[Lifecycle] = NoPut /\ Lifecycle \in Writers
      /\ member[i] # NoMember
   BY DEF Transition, IInv, TypeOK, Member, Puts, Writers
<1> HIDE DEF put
<1>2. /\ chain' \in Seq(Writers) /\ pend' \in [Writers -> Puts \cup {NoPut}]
      /\ pend'[Lifecycle] = put /\ \A v \in Writers \ {Lifecycle} : pend'[v] = pend[v]
      /\ Chained' /\ Fresh'
   BY <1>1, Issued DEF Transition, durable
<1>3. UNCHANGED <<op, fact, member, binding, created, lock, pc, call, child, result, crashes, faults>>
   BY DEF Transition, durable, local
<1>4. TypeOK'
   BY <1>2, <1>3 DEF IInv, TypeOK, Puts, Member, Op, Writers
<1>5. Rows' /\ Working' /\ Locking' /\ Reported'
   BY <1>3 DEF IInv, Rows, Bound, Working, Knows, I, Locking, Reported
<1>6. Waiting' /\ Updating'
   BY <1>1, <1>2, <1>3, NoneFacts DEF IInv, Waiting, Updating, Writers, I
<1> QED BY <1>2, <1>4, <1>5, <1>6 DEF IInv

LEMMA AbandonStep ==
  ASSUME IInv, NEW i \in Instances, Abandon(i)
  PROVE  IInv'
<1>1. UNCHANGED <<fact, member, binding, created, lock, chain, pend, pc, call, child, result,
                  crashes, faults>>
   BY DEF Abandon, local
<1> DEFINE o == [op[i] EXCEPT !.phase = "FAILED"]
<1>2. /\ op[i] \in Op /\ op[i].phase = "PREPARED" /\ lock[i] = None
      /\ op' = [op EXCEPT ![i] = o] /\ op \in [Instances -> Op \cup {NoOp}]
   BY NoneFacts DEF Abandon, IInv, TypeOK
<1>3. o \in Op /\ o.phase = "FAILED" /\ o.child = op[i].child
   BY <1>2 DEF Op
<1> HIDE DEF o
<1>4. /\ op' \in [Instances -> Op \cup {NoOp}] /\ op'[i] = o
      /\ \A j \in Instances \ {i} : op'[j] = op[j]
   BY <1>2, <1>3
<1>5. TypeOK'
   BY <1>1, <1>4 DEF IInv, TypeOK, Puts, Member, Writers
<1>6. Rows' /\ Locking' /\ Reported'
   BY <1>1, <1>2, <1>3, <1>4 DEF IInv, TypeOK, Rows, Bound, Locking, Reported, I
<1>7. Working'
   BY <1>1, <1>2, <1>3, <1>4, CallFacts, NoneFacts DEF IInv, Working, Knows, I
<1>8. Waiting' /\ Updating' /\ Chained' /\ Fresh'
   BY <1>1 DEF IInv, Waiting, Updating, Chained, Fresh, I
<1> QED BY <1>5, <1>6, <1>7, <1>8 DEF IInv

LEMMA DriveStep ==
  ASSUME IInv, NEW d \in Drivers, Drive(d)
  PROVE  IInv'
<1> DEFINE i == I(d)
<1>1. /\ i \in Instances /\ pc[d] = "drive" /\ lock[i] = None /\ op[i] # NoOp
      /\ child[d] \in Children /\ Knows(i, "drive", child[d]) /\ UNCHANGED crashes
   BY CallFacts DEF Drive, Knows
<1>2. CASE Refuse(d) /\ Fault
   BY <1>1, <1>2, FaultFacts, Refused DEF Refuse
<1>3. ASSUME Leave(d, op[i].phase = "COMMITTED" /\ i \in fact),
             UNCHANGED <<durable, lock, chain, pend, faults>>
      PROVE  IInv'
  <2>1. Moves(d, "idle", None) /\ faults' \in 0 .. MaxFaults
     BY <1>1, <1>3, NothingChanges, FaultFacts, Ways DEF durable
  <2> QED BY <1>1, <1>3, <2>1, CallMoves DEF PCs
<1>4. ASSUME op[i].phase = "PREPARED", lock' = [lock EXCEPT ![i] = d], fact' = fact \cup {i},
             Goto(d, "commit", child[d]),
             UNCHANGED <<op, member, binding, created, chain, pend, faults>>
      PROVE  IInv'
  <2>1. Forward
     BY <1>4 DEF Forward
  <2>2. Moves(d, "commit", child[d])
     BY <1>1, <1>4, <2>1, Ways
  <2>3. Learns(I(d), "commit", child[d])
     BY <1>1, <1>4 DEF Learns, Knows
  <2>4. /\ pc' \in [Drivers -> PCs] /\ child' \in [Drivers -> Children \cup {None}]
        /\ Working' /\ Waiting' /\ Updating' /\ Chained' /\ Fresh' /\ Reported'
     BY <1>1, <1>4, <2>1, <2>2, <2>3, MovesKeep DEF PCs
  <2>5. TypeOK'
     BY <1>1, <1>4, <2>2, <2>4 DEF IInv, TypeOK, Moves, PCs, Puts, Member, Op, Writers
  <2>6. Rows'
     BY <1>4 DEF IInv, Rows, Bound
  <2>7. Locking'
    <3>1. /\ lock'[i] = d /\ \A j \in Instances \ {i} : lock'[j] = lock[j] /\ lock[j] # d
          /\ pc'[d] = "commit" /\ call'[d].instance = i
          /\ \A e \in Drivers \ {d} : pc'[e] = pc[e] /\ call'[e] = call[e]
       BY <1>1, <1>4 DEF IInv, TypeOK, Locking, Goto, I
    <3>2. \A e \in Drivers : pc[e] = "commit" => I(e) # i /\ I(e) \in Instances
       BY <1>1, CallFacts, NoneFacts DEF IInv, Locking
    <3> QED BY <1>1, <1>4, <3>1, <3>2, NoneFacts DEF IInv, TypeOK, Locking, I
  <2> QED BY <2>4, <2>5, <2>6, <2>7 DEF IInv
<1> QED BY <1>2, <1>3, <1>4 DEF Drive

LEMMA CommitStep ==
  ASSUME IInv, NEW d \in Drivers, Commit(d)
  PROVE  IInv'
<1> DEFINE i == I(d)
<1>1. /\ i \in Instances /\ pc[d] = "commit" /\ lock[i] = d /\ op[i] \in Op /\ i \in fact
      /\ op[i].phase = "PREPARED" /\ Knows(i, "commit", child[d]) /\ faults' \in 0 .. MaxFaults
      /\ lock' = [lock EXCEPT ![i] = None] /\ UNCHANGED <<fact, chain, pend, crashes>>
      /\ UNCHANGED <<member, binding, created>>
  <2>1. /\ i \in Instances /\ pc[d] = "commit" /\ Knows(i, "commit", child[d])
        /\ op[i] \in Op \cup {NoOp}
     BY CallFacts DEF Commit
  <2>2. lock[i] = d /\ lock[i] # None
     BY <2>1, NoneFacts DEF IInv, Locking
  <2>3. op[i].phase = "PREPARED" /\ i \in fact
     BY <2>1, <2>2 DEF IInv, Locking
  <2>4. faults' \in 0 .. MaxFaults
     BY FaultFacts DEF Commit
  <2> QED BY <2>1, <2>2, <2>3, <2>4, NoneFacts DEF Commit, durable
<1> DEFINE o == [op[i] EXCEPT !.phase = "COMMITTED"]
<1>2. o \in Op /\ o.phase = "COMMITTED" /\ o.child = op[i].child
   BY <1>1 DEF Op
<1>3. \/ Leave(d, FALSE) /\ op' = op
      \/ Leave(d, TRUE) /\ op' = [op EXCEPT ![i] = o]
   BY DEF Commit, durable
<1> HIDE DEF o
<1>4. /\ op' \in [Instances -> Op \cup {NoOp}] /\ op'[i] \in {op[i], o}
      /\ Leave(d, TRUE) => op'[i] = o
      /\ \A j \in Instances \ {i} : op'[j] = op[j]
  <2>1. op \in [Instances -> Op \cup {NoOp}]
     BY DEF IInv, TypeOK
  <2>2. Leave(d, FALSE) /\ Leave(d, TRUE) => FALSE
     BY <1>1 DEF Leave, IInv, TypeOK
  <2> QED BY <1>1, <1>2, <1>3, <2>1, <2>2
<1>5. Forward
   BY <1>1, <1>2, <1>4, NoneFacts DEF Forward
<1>6. Moves(d, "idle", None)
   BY <1>1, <1>2, <1>3, <1>4, <1>5, Ways
<1>7. /\ pc' \in [Drivers -> PCs] /\ child' \in [Drivers -> Children \cup {None}]
      /\ Working' /\ Waiting' /\ Updating' /\ Chained' /\ Fresh' /\ Reported'
   BY <1>1, <1>5, <1>6, MovesKeep DEF PCs
<1>8. TypeOK'
   BY <1>1, <1>4, <1>6, <1>7 DEF IInv, TypeOK, Moves, PCs, Puts, Member, Writers
<1>9. Rows'
   BY <1>1, <1>2, <1>4 DEF IInv, Rows, Bound, Knows
<1>10. Locking'
  <2>1. /\ lock'[i] = None /\ \A j \in Instances \ {i} : lock'[j] = lock[j] /\ lock[j] # d
     BY <1>1 DEF IInv, TypeOK, Locking
  <2>2. pc'[d] = "idle" /\ \A e \in Drivers \ {d} : pc'[e] = pc[e] /\ call'[e] = call[e]
     BY <1>6 DEF IInv, TypeOK, Moves
  <2>3. \A e \in Drivers \ {d} : pc[e] = "commit" => I(e) # i /\ I(e) \in Instances
     BY <1>1, CallFacts DEF IInv, Locking
  <2> QED BY <1>1, <1>4, <2>1, <2>2, <2>3, NoneFacts DEF IInv, TypeOK, Locking, I
<1> QED BY <1>7, <1>8, <1>9, <1>10 DEF IInv

\* The write that is next is there, and if it puts a record, nothing has updated it.
LEMMA NextWrite ==
  ASSUME IInv, NEW w \in Writers, Dequeue(w)
  PROVE  /\ pend[w] # NoPut /\ pend[w] \in Puts
         /\ pend[w].type = "member" => member[pend[w].instance].version <= 1
<1>1. chain # << >> /\ chain \in Seq(Writers) /\ w = Head(chain) /\ pend[w] \in Puts \cup {NoPut}
   BY DEF IInv, TypeOK, Dequeue
<1>2. 1 \in 1 .. Len(chain) /\ chain[1] = w
   BY <1>1, TailFacts
<1> QED BY <1>1, <1>2 DEF IInv, Chained, Fresh

\* The oldest write leaves the chain: what it was does not disturb the puts behind it.
LEMMA Dequeued ==
  ASSUME IInv, NEW w \in Writers, Dequeue(w),
         \A i \in Instances : \/ member'[i] = member[i] \/ member'[i].version <= 1
                              \/ pend[w].type = "update" /\ pend[w].instance = i
  PROVE  /\ chain' \in Seq(Writers) /\ pend' \in [Writers -> Puts \cup {NoPut}]
         /\ pend'[w] = NoPut /\ \A v \in Writers \ {w} : pend'[v] = pend[v]
         /\ Chained' /\ Fresh'
<1>1. /\ chain \in Seq(Writers) /\ chain # << >> /\ pend \in [Writers -> Puts \cup {NoPut}]
      /\ chain' = Tail(chain) /\ w = Head(chain) /\ pend' = [pend EXCEPT ![w] = NoPut]
   BY DEF IInv, TypeOK, Dequeue
<1>2. /\ chain' \in Seq(Writers) /\ Len(chain) \in Nat \ {0} /\ Len(chain') = Len(chain) - 1
      /\ w = chain[1]
      /\ \A k \in 1 .. Len(chain') : chain'[k] = chain[k + 1] /\ k + 1 \in 2 .. Len(chain)
   BY <1>1, TailFacts
<1>3. /\ pend' \in [Writers -> Puts \cup {NoPut}] /\ pend'[w] = NoPut
      /\ \A v \in Writers \ {w} : pend'[v] = pend[v]
   BY <1>1
<1>4. \A k \in 2 .. Len(chain) :
        /\ k \in 1 .. Len(chain) /\ chain[k] \in Writers /\ chain[k] # w
        /\ pend[chain[k]] # NoPut /\ pend'[chain[k]] = pend[chain[k]]
  <2>1. ASSUME NEW k \in 2 .. Len(chain)
        PROVE  k \in 1 .. Len(chain) /\ chain[k] \in Writers /\ chain[k] # w
     BY <1>1, <1>2 DEF IInv, Chained
  <2> QED BY <1>3, <2>1 DEF IInv, Chained
<1>5. Chained'
  <2>1. \A k \in 1 .. Len(chain') : pend'[chain'[k]] # NoPut
     BY <1>2, <1>4
  <2>2. ASSUME NEW k \in 1 .. Len(chain'), NEW l \in 1 .. Len(chain'), chain'[k] = chain'[l]
        PROVE  k = l
    <3>1. k + 1 \in 1 .. Len(chain) /\ l + 1 \in 1 .. Len(chain) /\ chain[k + 1] = chain[l + 1]
       BY <1>2, <1>4, <2>2
    <3>2. k + 1 = l + 1
       BY <3>1 DEF IInv, Chained
    <3> QED BY <1>2, <3>2
  <2> QED BY <2>1, <2>2 DEF Chained
<1>6. Fresh'
  <2> SUFFICES ASSUME NEW k \in 1 .. Len(chain'), pend'[chain'[k]].type = "member"
               PROVE  /\ member'[pend'[chain'[k]].instance].version <= 1
                      /\ \A l \in 1 .. k : pend'[chain'[l]].type = "update" =>
                           pend'[chain'[l]].instance # pend'[chain'[k]].instance
     BY DEF Fresh
  <2> DEFINE put == pend[chain[k + 1]]
  <2>1. /\ k + 1 \in 2 .. Len(chain) /\ k + 1 \in 1 .. Len(chain) /\ pend'[chain'[k]] = put
        /\ put.type = "member" /\ put \in Puts
     BY <1>1, <1>2, <1>4
  <2>2. /\ member[put.instance].version <= 1
        /\ \A l \in 1 .. (k + 1) : pend[chain[l]].type = "update" => pend[chain[l]].instance # put.instance
     BY <2>1 DEF IInv, Fresh
  <2>3. put.instance \in Instances
     BY <2>1 DEF Puts
  <2>4. 1 \in 1 .. (k + 1)
     BY <2>1
  <2>5. ~(pend[w].type = "update" /\ pend[w].instance = put.instance)
     BY <1>2, <2>2, <2>4
  <2>6. ASSUME NEW l \in 1 .. k
        PROVE  l \in 1 .. Len(chain') /\ l + 1 \in 1 .. (k + 1) /\ pend'[chain'[l]] = pend[chain[l + 1]]
     BY <1>2, <1>4
  <2> HIDE DEF put
  <2>7. member'[put.instance].version <= 1
    <3>1. member'[put.instance] = member[put.instance] \/ member'[put.instance].version <= 1
       BY <2>3, <2>5
    <3> QED BY <2>2, <3>1
  <2>8. ASSUME NEW l \in 1 .. k, pend'[chain'[l]].type = "update"
        PROVE  pend'[chain'[l]].instance # put.instance
     BY <2>2, <2>6, <2>8
  <2> QED BY <2>1, <2>7, <2>8
<1> QED BY <1>2, <1>3, <1>5, <1>6

\* A driver's put is taken, or rejected by the medium: it goes on to s with c in hand.
LEMMA TakenKeeps ==
  ASSUME IInv, NEW d \in Drivers, Dequeue(d), NEW s \in PCs \ {"writing", "commit"},
         NEW c \in Children \cup {None}, Moves(d, s, c), Forward,
         UNCHANGED <<op, fact, created, lock, crashes>>, faults' \in 0 .. MaxFaults,
         member' \in [Instances -> Member \cup {NoMember}],
         binding' \in [Children -> Instances \cup {None}], Rows',
         \A i \in Instances : \/ member'[i] = member[i]
                              \/ member'[i].version <= 1 /\ member'[i] # NoMember,
         s \notin {"idle", "prepare"} => Learns(I(d), s, c)
  PROVE  IInv'
<1>1. d \in Writers /\ pc[d] = "writing" /\ Lifecycle \in Writers \ {d}
      /\ \A e \in Drivers \ {d} : e \in Writers \ {d}
  <2>1. d \in Writers /\ Lifecycle \in Writers \ {d} /\ \A e \in Drivers \ {d} : e \in Writers \ {d}
     BY NoneFacts DEF Writers
  <2>2. pend[d] # NoPut
     BY <2>1, NextWrite
  <2> QED BY <2>1, <2>2 DEF IInv, Waiting
<1>2. /\ chain' \in Seq(Writers) /\ pend' \in [Writers -> Puts \cup {NoPut}]
      /\ pend'[d] = NoPut /\ \A v \in Writers \ {d} : pend'[v] = pend[v]
      /\ Chained' /\ Fresh'
   BY <1>1, Dequeued
<1>3. /\ pc' \in [Drivers -> PCs] /\ child' \in [Drivers -> Children \cup {None}]
      /\ pc'[d] = s
      /\ \A e \in Drivers \ {d} : pc'[e] = pc[e] /\ child'[e] = child[e] /\ call'[e] = call[e]
      /\ Working' /\ Reported'
   BY MovesLearn
<1>4. TypeOK'
   BY <1>2, <1>3 DEF IInv, TypeOK, Moves, PCs, Op
<1>5. Waiting'
  <2>1. \A e \in Drivers \ {d} : pend[e] # NoPut => I(e) \in Instances /\ child[e] \in Children
    <3> SUFFICES ASSUME NEW e \in Drivers \ {d}, pend[e] # NoPut
                 PROVE  I(e) \in Instances /\ child[e] \in Children
       OBVIOUS
    <3>1. pc[e] = "writing"
       BY DEF IInv, Waiting
    <3> QED BY <3>1, CallFacts DEF Knows
  <2>2. \A e \in Drivers \ {d} : pend[e].type = "bind" => member'[I(e)].child = child[e]
    <3> SUFFICES ASSUME NEW e \in Drivers \ {d}, pend[e].type = "bind"
                 PROVE  member'[I(e)].child = child[e]
       OBVIOUS
    <3>1. pend[e] # NoPut /\ member[I(e)].child = child[e]
       BY NoneFacts DEF IInv, Waiting
    <3> QED BY <2>1, <3>1, NoneFacts DEF Forward
  <2> QED BY <1>1, <1>2, <1>3, <2>2, NoneFacts DEF IInv, Waiting, I
<1>6. Updating'
  <2>1. pend'[Lifecycle] = pend[Lifecycle]
     BY <1>1, <1>2
  <2>2. pend[Lifecycle].type = "update" /\ pend[Lifecycle] # NoPut => pend[Lifecycle].instance \in Instances
     BY <1>1 DEF IInv, TypeOK, Puts
  <2>3. \A i \in Instances : member[i] # NoMember => member'[i] # NoMember
     OBVIOUS
  <2> QED BY <2>1, <2>2, <2>3 DEF IInv, Updating
<1>7. Locking'
   BY <1>1, LockKept
<1> QED BY <1>2, <1>3, <1>4, <1>5, <1>6, <1>7 DEF IInv

LEMMA DriverWriteStep ==
  ASSUME IInv, NEW d \in Drivers, WriteDurable(d)
  PROVE  IInv'
<1> DEFINE put == pend[d] i == put.instance c == put.child
<1>1. d \in Writers /\ Dequeue(d) /\ put \in Puts /\ put # NoPut
   BY NextWrite DEF WriteDurable, Writers
<1>2. /\ put.type \in {"member", "bind"} /\ i = I(d) /\ c = child[d] /\ pc[d] = "writing"
      /\ put.type = "bind" => member[i].child = c
   BY <1>1, NoneFacts DEF IInv, Waiting
<1>3. /\ i \in Instances /\ c \in Children /\ c = op[i].child /\ op[i] # NoOp
      /\ member \in [Instances -> Member \cup {NoMember}]
      /\ binding \in [Children -> Instances \cup {None}]
      /\ UNCHANGED <<op, fact, created, lock, crashes, faults>> /\ faults' \in 0 .. MaxFaults
   BY <1>2, CallFacts, FaultFacts, NoneFacts DEF Knows, WriteDurable, IInv, TypeOK
<1>4. CASE put.type = "member"
  <2> DEFINE m == [child |-> c, version |-> 1]
  <2>1. /\ m \in Member /\ m.child = c /\ m.version = 1 /\ m # NoMember
        /\ member' = [member EXCEPT ![i] = m] /\ Onward(d, 2, "bind", c) /\ binding' = binding
     BY <1>1, <1>3, <1>4, NoneFacts DEF WriteDurable, Take, Member
  <2> HIDE DEF put, i, c, m
  <2>2. /\ member' \in [Instances -> Member \cup {NoMember}] /\ member'[i] = m
        /\ \A j \in Instances \ {i} : member'[j] = member[j]
     BY <1>3, <2>1
  <2>3. member[i] # NoMember => member[i].child = c
     BY <1>3 DEF IInv, Rows
  <2>4. Forward
     BY <1>3, <2>1, <2>2, <2>3 DEF Forward
  <2>5. Moves(d, "bind", c) \/ Moves(d, "prepare", None) \/ Moves(d, "idle", None)
     BY <1>2, <2>1, <2>4, Ways
  <2>6. Learns(I(d), "bind", c)
     BY <1>2, <1>3, <2>1, <2>2, NoneFacts DEF Learns
  <2>7. Rows'
    <3>1. \A e \in Children : binding[e] = i => e = c
       BY <1>3, <2>3, NoneFacts DEF IInv, Rows
    <3> QED BY <1>3, <2>1, <2>2, <3>1 DEF IInv, Rows, Bound
  <2>8. \A j \in Instances : \/ member'[j] = member[j]
                             \/ member'[j].version <= 1 /\ member'[j] # NoMember
     BY <2>1, <2>2
  <2> QED BY <1>1, <1>3, <2>1, <2>2, <2>4, <2>5, <2>6, <2>7, <2>8, TakenKeeps DEF PCs
<1>5. CASE put.type = "bind"
  <2>1. /\ binding' = [binding EXCEPT ![c] = i] /\ Onward(d, 3, "drive", c) /\ member' = member
     BY <1>1, <1>5 DEF WriteDurable, Take
  <2> HIDE DEF put, i, c
  <2>2. /\ binding' \in [Children -> Instances \cup {None}] /\ binding'[c] = i
        /\ \A e \in Children \ {c} : binding'[e] = binding[e]
     BY <1>3, <2>1
  <2>3. binding[c] # None => binding[c] = i
    <3> SUFFICES ASSUME binding[c] # None PROVE binding[c] = i
       OBVIOUS
    <3>1. binding[c] \in Instances /\ member[binding[c]].child = c
       BY <1>3 DEF IInv, Rows
    <3>2. op[binding[c]].child = c
       BY <1>3, <3>1, NoneFacts DEF IInv, Rows
    <3>3. created[binding[c]] = c /\ created[i] = c
       BY <1>3, <3>1, <3>2, NoneFacts DEF IInv, Rows
    <3> QED BY <1>3, <3>1, <3>3, NoneFacts DEF IInv, Rows
  <2>4. Forward
     BY <1>3, <2>1, <2>2, <2>3 DEF Forward
  <2>5. Moves(d, "drive", c) \/ Moves(d, "prepare", None) \/ Moves(d, "idle", None)
     BY <1>2, <2>1, <2>4, Ways
  <2>6. Learns(I(d), "drive", c)
     BY <1>2, <1>3, <1>5, <2>1, <2>2, NoneFacts DEF Learns
  <2>7. Rows'
    <3>1. \A j \in Instances : Bound(j) /\ op[j].child \in Children => Bound(j)'
       BY <1>3, <2>2, <2>3, NoneFacts DEF Bound
    <3>2. member[i].child = c
       BY <1>2, <1>5
    <3>3. \A j \in Instances : Bound(j) => op[j].child \in Children
       BY NoneFacts DEF Bound, IInv, TypeOK, Op
    <3> QED BY <1>3, <2>1, <2>2, <3>1, <3>2, <3>3 DEF IInv, Rows
  <2> QED BY <1>1, <1>3, <2>1, <2>2, <2>4, <2>5, <2>6, <2>7, TakenKeeps DEF PCs
<1> QED BY <1>2, <1>4, <1>5

\* The lifecycle's update is taken, where its record still is as it was read, or rejected.
LEMMA LifecycleWriteStep ==
  ASSUME IInv, WriteDurable(Lifecycle) \/ WriteRejected(Lifecycle)
  PROVE  IInv'
<1> DEFINE put == pend[Lifecycle] i == put.instance
<1>1. /\ Lifecycle \in Writers /\ Dequeue(Lifecycle) /\ put \in Puts /\ put # NoPut
      /\ \A d \in Drivers : d \in Writers \ {Lifecycle}
   BY NextWrite, NoneFacts DEF WriteDurable, WriteRejected, Writers
<1>2. /\ put.type = "update" /\ put.expected < MaxVersion /\ i \in Instances /\ member[i] # NoMember
      /\ put.expected \in 1 .. MaxVersion
   BY <1>1 DEF IInv, Updating, Puts
<1>3. /\ member \in [Instances -> Member \cup {NoMember}] /\ member[i] \in Member
      /\ UNCHANGED <<op, fact, binding, created, lock, pc, call, child, result, crashes>>
      /\ faults' \in 0 .. MaxFaults
      /\ member' = member \/ member' = [member EXCEPT ![i].version = IF @ = put.expected THEN @ + 1 ELSE @]
   BY <1>1, <1>2, FaultFacts DEF IInv, TypeOK, WriteDurable, WriteRejected, Take, local, durable
<1> HIDE DEF put, i
<1>4. /\ member' \in [Instances -> Member \cup {NoMember}]
      /\ \A j \in Instances \ {i} : member'[j] = member[j]
      /\ member'[i] \in Member /\ member'[i].child = member[i].child
  <2> DEFINE m == [member[i] EXCEPT !.version = IF @ = put.expected THEN @ + 1 ELSE @]
  <2>1. m \in Member /\ m.child = member[i].child
     BY <1>2, <1>3 DEF Member
  <2>2. member' = member \/ member' = [member EXCEPT ![i] = m]
     BY <1>3
  <2> HIDE DEF m
  <2> QED BY <1>2, <1>3, <2>1, <2>2
<1>5. /\ chain' \in Seq(Writers) /\ pend' \in [Writers -> Puts \cup {NoPut}]
      /\ pend'[Lifecycle] = NoPut /\ \A v \in Writers \ {Lifecycle} : pend'[v] = pend[v]
      /\ Chained' /\ Fresh'
   BY <1>1, <1>2, <1>4, Dequeued DEF put, i
<1>6. TypeOK'
   BY <1>3, <1>4, <1>5 DEF IInv, TypeOK, Op
<1>7. Rows'
  <2>1. \A j \in Instances : member'[j].child = member[j].child /\ (member'[j] = NoMember <=> member[j] = NoMember)
     BY <1>2, <1>4, NoneFacts
  <2> QED BY <1>3, <2>1 DEF IInv, TypeOK, Rows, Bound
<1>8. \A d \in Drivers : pc[d] # "idle" => I(d) \in Instances
   BY CallFacts
<1>9. \A j \in Instances : member'[j].child = member[j].child
   BY <1>4
<1>10. Working'
   BY <1>3, <1>8, <1>9 DEF IInv, Working, Knows, I
<1>11. Waiting'
  <2>1. \A d \in Drivers : pend[d].type = "bind" => pc[d] # "idle"
     BY NoneFacts DEF IInv, Waiting
  <2> QED BY <1>1, <1>3, <1>5, <1>8, <1>9, <2>1 DEF IInv, Waiting, I
<1>12. Updating'
   BY <1>5 DEF Updating
<1>13. Locking' /\ Reported'
   BY <1>3 DEF IInv, Locking, Reported, I
<1> QED BY <1>5, <1>6, <1>7, <1>10, <1>11, <1>12, <1>13 DEF IInv

LEMMA DriverRejectedStep ==
  ASSUME IInv, NEW d \in Drivers, WriteRejected(d)
  PROVE  IInv'
<1>1. d \in Writers /\ d # Lifecycle
   BY NoneFacts DEF Writers
<1>2. /\ Dequeue(d) /\ Leave(d, FALSE) /\ UNCHANGED <<durable, lock, crashes>>
      /\ faults' \in 0 .. MaxFaults
   BY <1>1, FaultFacts DEF WriteRejected
<1>3. pend[d] # NoPut
   BY <1>1, <1>2, NextWrite
<1>4. Moves(d, "idle", None) /\ Forward
   BY <1>2, <1>3, NothingChanges, Ways DEF IInv, Waiting
<1>5. Rows'
   BY <1>2 DEF IInv, Rows, durable, Bound
<1>6. /\ member' \in [Instances -> Member \cup {NoMember}]
      /\ binding' \in [Children -> Instances \cup {None}]
      /\ UNCHANGED <<op, fact, created, member>>
   BY <1>2 DEF IInv, TypeOK, durable
<1> QED BY <1>2, <1>4, <1>5, <1>6, TakenKeeps DEF PCs

LEMMA CrashStep ==
  ASSUME IInv, Crash
  PROVE  IInv'
<1>1. UNCHANGED <<op, fact, member, binding, created>>
   BY DEF Crash, durable
<1>2. TypeOK'
   BY <1>1 DEF Crash, IInv, TypeOK, Writers, Puts, Op, Member
<1>3. Rows'
   BY <1>1 DEF IInv, Rows, Bound
<1>4. Working' /\ Waiting' /\ Updating' /\ Chained' /\ Fresh' /\ Locking' /\ Reported'
   BY NoneFacts DEF Crash, Working, Waiting, Updating, Chained, Fresh, Locking, Reported, Writers
<1> QED BY <1>2, <1>3, <1>4 DEF IInv

LEMMA StutterStep ==
  ASSUME IInv, UNCHANGED vars
  PROVE  IInv'
<1>1. UNCHANGED <<op, fact, member, binding, created, lock, chain, pend, pc, call, child, result,
                  crashes, faults>>
   BY DEF vars, durable, local
<1>2. TypeOK' /\ Rows' /\ Working' /\ Waiting'
   BY <1>1 DEF IInv, TypeOK, Puts, Op, Member, Writers, Rows, Bound, Working, Knows, I, Waiting
<1>3. Updating' /\ Chained' /\ Fresh' /\ Locking' /\ Reported'
   BY <1>1 DEF IInv, Updating, Chained, Fresh, Locking, Reported, I
<1> QED BY <1>2, <1>3 DEF IInv

LEMMA Inductive == IInv /\ [Next]_vars => IInv'
<1> SUFFICES ASSUME IInv, [Next]_vars PROVE IInv'
   OBVIOUS
<1>1. ASSUME NEW d \in Drivers, Submit(d) PROVE IInv'
   BY <1>1, SubmitStep
<1>2. ASSUME NEW d \in Drivers, Step(d) PROVE IInv'
   BY <1>2, PrepareStep, CreateChildSessionStep, FactoryAnswersStep, RecordChildSessionStep,
      EnsureMemberRecordStep, BindChildSessionStep, DriveStep, CommitStep DEF Step
<1>3. ASSUME NEW w \in Writers, Settle(w) PROVE IInv'
   BY <1>3, LifecycleWriteStep, DriverWriteStep, DriverRejectedStep DEF Settle, Writers
<1>4. ASSUME NEW i \in Instances, Abandon(i) \/ Transition(i) PROVE IInv'
   BY <1>4, AbandonStep, TransitionStep
<1>5. CASE Crash
   BY <1>5, CrashStep
<1>6. CASE UNCHANGED vars
   BY <1>6, StutterStep
<1> QED BY <1>1, <1>2, <1>3, <1>4, <1>5, <1>6 DEF Next, Rest

-------------------------------------------------------------------------------
\* What the drivers, the write chain and the lifecycle know of the durable rows stays
\* true, for any number of members, drivers, crashes and faults.
THEOREM ProvisioningInvariant == Spec => []IInv
BY InitHolds, Inductive, PTL DEF Spec

\* Every variable keeps its type: no update takes a record past its last version.
THEOREM ProvisioningTypes == Spec => []TypeOK
<1>1. IInv => TypeOK
   BY DEF IInv
<1> QED BY <1>1, ProvisioningInvariant, PTL

\* coordinator.ts deriveStatus and commitInstance: a member whose row is committed, or
\* that a call reported committed, has its fact, its record and its binding.
THEOREM CommittedWhole == Spec => []CommittedIsWhole
<1>1. IInv => CommittedIsWhole
  <2> SUFFICES ASSUME IInv, NEW i \in Instances,
                      op[i].phase = "COMMITTED" \/ \E d \in Drivers : i \in result[d]
               PROVE  /\ Stage(i) = "INSTANCE_COMMITTED" /\ Bound(i)
                      /\ member[i].child = op[i].child
     BY DEF CommittedIsWhole
  <2>1. op[i].phase = "COMMITTED"
     BY DEF IInv, Reported
  <2>2. op[i] \in Op /\ i \in fact /\ Bound(i)
     BY <2>1, NoneFacts DEF IInv, TypeOK, Rows
  <2>3. op[i].child \in Children /\ binding[op[i].child] = i
     BY <2>2 DEF Bound, Op
  <2>4. member[i].child = op[i].child
     BY <2>3, NoneFacts DEF IInv, Rows
  <2> QED BY <2>1, <2>2, <2>4, NoneFacts DEF Stage
<1> QED BY <1>1, ProvisioningInvariant, PTL

\* coordinator.ts createChildSession, ensureMemberRecord and bindChildSession: racing
\* drivers, retries and crashes never give a member two sessions, or two members one.
THEOREM OneChild == Spec => []OneChildPerMember
<1>1. IInv => OneChildPerMember
   BY NoneFacts DEF IInv, Rows, OneChildPerMember
<1> QED BY <1>1, ProvisioningInvariant, PTL

\* member-instances.ts put and commitTransition: the put that two drivers queue for one
\* record never lands on top of a lifecycle update.
Kept(i) == member[i] # NoMember =>
             member'[i].child = member[i].child /\ member'[i].version >= member[i].version

LEMMA RecordsKept == IInv /\ [Next]_vars => [\A i \in Instances : Kept(i)]_vars
<1> SUFFICES ASSUME IInv, [Next]_vars, NEW i \in Instances PROVE Kept(i)
   OBVIOUS
<1>1. member \in [Instances -> Member \cup {NoMember}] /\ (member[i] # NoMember => member[i].version \in Nat)
   BY DEF IInv, TypeOK, Member
<1>2. ASSUME UNCHANGED member PROVE Kept(i)
   BY <1>1, <1>2 DEF Kept
<1>3. ASSUME NEW w \in Writers, WriteDurable(w) PROVE Kept(i)
  <2> DEFINE put == pend[w]
  <2>1. /\ put \in Puts /\ put # NoPut /\ Take(w, put)
        /\ put.type = "member" => member[put.instance].version <= 1
     BY <1>3, NextWrite DEF WriteDurable
  <2>2. CASE put.type = "member"
    <3>1. /\ w \in Drivers /\ put.instance = I(w) /\ put.child = child[w] /\ pc[w] = "writing"
       BY <2>1, <2>2, PendFacts DEF IInv, Waiting
    <3>2. put.instance \in Instances /\ put.child = op[put.instance].child
       BY <3>1, CallFacts DEF Knows
    <3>3. member[put.instance] # NoMember => member[put.instance].child = put.child
       BY <3>2 DEF IInv, Rows
    <3>4. member' = [member EXCEPT ![put.instance] = [child |-> put.child, version |-> 1]]
       BY <2>1, <2>2 DEF Take
    <3> HIDE DEF put
    <3>5. CASE i = put.instance
       BY <1>1, <2>1, <2>2, <3>3, <3>4, <3>5 DEF Kept
    <3>6. CASE i # put.instance
       BY <1>1, <3>4, <3>6 DEF Kept
    <3> QED BY <3>5, <3>6
  <2>3. CASE put.type = "bind"
     BY <1>2, <2>1, <2>3 DEF Take
  <2>4. CASE put.type = "update"
    <3>1. member' = [member EXCEPT ![put.instance].version = IF @ = put.expected THEN @ + 1 ELSE @]
       BY <2>1, <2>4 DEF Take
    <3>2. CASE i = put.instance
       BY <1>1, <3>1, <3>2 DEF Kept, Member
    <3>3. CASE i # put.instance
       BY <1>1, <3>1, <3>3 DEF Kept
    <3> QED BY <3>2, <3>3
  <2> QED BY <2>1, <2>2, <2>3, <2>4 DEF Take
<1>4. ASSUME NEW d \in Drivers, Submit(d) \/ Step(d) PROVE Kept(i)
   BY <1>2, <1>4
      DEF Submit, Step, Prepare, CreateChildSession, FactoryAnswers, RecordChildSession,
          EnsureMemberRecord, BindChildSession, Drive, Commit, Refuse, durable
<1>5. ASSUME NEW w \in Writers, WriteRejected(w) PROVE Kept(i)
   BY <1>2, <1>5 DEF WriteRejected, durable
<1>6. ASSUME NEW j \in Instances, Abandon(j) \/ Transition(j) PROVE Kept(i)
   BY <1>2, <1>6 DEF Abandon, Transition, durable
<1>7. CASE Crash
   BY <1>2, <1>7 DEF Crash, durable
<1>8. CASE UNCHANGED vars
   BY <1>2, <1>8 DEF vars, durable
<1> QED BY <1>3, <1>4, <1>5, <1>6, <1>7, <1>8 DEF Next, Settle, Rest

\* A record that was written is never given another child or an older version, by a retry, a
\* racing driver or a crash (ensureMemberRecord of coordinator.ts, and commitTransition, which
\* compares the version it read).
THEOREM NeverReset == Spec => MemberNeverReset
<1>1. [\A i \in Instances : Kept(i)]_vars <=>
      [\A i \in Instances : member[i] # NoMember =>
         /\ member'[i].child = member[i].child
         /\ member'[i].version >= member[i].version]_vars
   BY DEF Kept
<1> QED BY <1>1, ProvisioningInvariant, RecordsKept, PTL DEF Spec, MemberNeverReset

-------------------------------------------------------------------------------
\* The refinement: what a durable write does to the stage a reader derives.
StageMap == [i \in Instances |-> Stage(i)]
ChildMap == [i \in Instances |-> op[i].child]

LEMMA InitRefines == Init => Derived!Init
BY NoneFacts DEF Init, Derived!Init, Stage

\* A write for i moves the stage of i alone.
LEMMA OneStage ==
  ASSUME NEW i \in Instances, \A j \in Instances \ {i} : Stage(j)' = Stage(j)
  PROVE  StageMap' = [StageMap EXCEPT ![i] = Stage(i)']
BY DEF StageMap

LEMMA SameStages ==
  ASSUME \A i \in Instances : Stage(i)' = Stage(i) /\ op'[i].child = op[i].child
  PROVE  UNCHANGED <<StageMap, ChildMap>>
BY DEF StageMap, ChildMap

LEMMA PrepareRefines ==
  ASSUME IInv, NEW d \in Drivers, Prepare(d)
  PROVE  [Derived!Next]_(Derived!vars)
<1> PICK i \in Instances : i = I(d)
   BY CallFacts DEF Prepare
<1>1. CASE UNCHANGED durable
   BY <1>1, SameStages DEF durable, Derived!vars, StageMap, ChildMap, Stage, Bound
<1>2. ASSUME op[i] = NoOp, UNCHANGED <<fact, binding>>,
             op' = [op EXCEPT ![i] = [phase |-> "PREPARED", key |-> call[d].token, child |-> None]]
      PROVE  [Derived!Next]_(Derived!vars)
  <2>1. /\ op'[i] = [phase |-> "PREPARED", key |-> call[d].token, child |-> None]
        /\ \A j \in Instances \ {i} : op'[j] = op[j]
     BY <1>2 DEF IInv, TypeOK
  <2>2. op'[i].phase = "PREPARED" /\ op'[i].child = None /\ op'[i] # NoOp
     BY <2>1, NoneFacts
  <2>3. /\ Stage(i) = "NONE" /\ Stage(i)' = "ALLOCATED"
        /\ \A j \in Instances \ {i} : Stage(j)' = Stage(j)
     BY <1>2, <2>1, <2>2 DEF Stage, Bound
  <2>4. UNCHANGED ChildMap
     BY <1>2, <2>1, <2>2, NoneFacts DEF ChildMap
  <2>5. StageMap' = [StageMap EXCEPT ![i] = "ALLOCATED"] /\ StageMap[i] = "NONE"
     BY <2>3, OneStage DEF StageMap
  <2> QED BY <2>4, <2>5 DEF Derived!Next, Derived!Allocate, StageMap, ChildMap
<1> QED BY <1>1, <1>2 DEF Prepare, Refuse, durable

LEMMA RecordRefines ==
  ASSUME IInv, NEW d \in Drivers, RecordChildSession(d)
  PROVE  [Derived!Next]_(Derived!vars)
<1> PICK i \in Instances : i = I(d)
   BY CallFacts DEF RecordChildSession
<1>1. CASE UNCHANGED durable
   BY <1>1, SameStages DEF durable, Derived!vars, StageMap, ChildMap, Stage, Bound
<1>2. ASSUME op[i].phase = "PREPARED", op[i].child = None, op' = [op EXCEPT ![i].child = child[d]],
             UNCHANGED <<fact, binding>>
      PROVE  [Derived!Next]_(Derived!vars)
  <2> DEFINE c == child[d]
  <2>1. c \in Children /\ c = created[i] /\ op[i] \in Op
     BY <1>2, CallFacts, NoneFacts DEF RecordChildSession, Knows
  <2>2. /\ op'[i].phase = "PREPARED" /\ op'[i].child = c /\ op'[i] # NoOp
        /\ \A j \in Instances \ {i} : op'[j] = op[j]
     BY <1>2, <2>1, NoneFacts DEF IInv, TypeOK, Op
  <2>3. binding[c] # i
    <3>1. member[i].child # c
       BY <1>2, <2>1, NoneFacts DEF IInv, Rows
    <3> QED BY <2>1, <3>1, NoneFacts DEF IInv, Rows
  <2>4. \A j \in Instances : op[j].child # c
     BY <1>2, <2>1, NoneFacts DEF IInv, Rows
  <2> HIDE DEF c
  <2>5. /\ Stage(i) = "ALLOCATED" /\ Stage(i)' = "CHILD_SESSION_CREATED"
        /\ \A j \in Instances \ {i} : Stage(j)' = Stage(j)
     BY <1>2, <2>1, <2>2, <2>3, NoneFacts DEF Stage, Bound
  <2>6. StageMap' = [StageMap EXCEPT ![i] = "CHILD_SESSION_CREATED"] /\ StageMap[i] = "ALLOCATED"
     BY <2>5, OneStage DEF StageMap
  <2>7. ChildMap' = [ChildMap EXCEPT ![i] = c] /\ \A j \in Instances : ChildMap[j] # c
     BY <2>2, <2>4 DEF ChildMap
  <2> QED BY <2>1, <2>6, <2>7 DEF Derived!Next, Derived!CreateChild, StageMap, ChildMap
<1> QED BY <1>1, <1>2 DEF RecordChildSession, Refuse, durable

LEMMA CommitRefines ==
  ASSUME IInv, NEW d \in Drivers, Commit(d)
  PROVE  [Derived!Next]_(Derived!vars)
<1> PICK i \in Instances : i = I(d)
   BY CallFacts DEF Commit
<1>1. CASE UNCHANGED durable
   BY <1>1, SameStages DEF durable, Derived!vars, StageMap, ChildMap, Stage, Bound
<1>2. ASSUME op' = [op EXCEPT ![i].phase = "COMMITTED"], UNCHANGED <<fact, binding>>
      PROVE  [Derived!Next]_(Derived!vars)
  <2>1. lock[i] = d /\ lock[i] # None
     BY NoneFacts DEF Commit, IInv, Locking
  <2>2. op[i].phase = "PREPARED" /\ i \in fact /\ op[i] \in Op
     BY <2>1, NoneFacts DEF IInv, Locking, TypeOK
  <2>3. op[i].child # None /\ Bound(i)
     BY CallFacts DEF Commit, Knows, Bound
  <2>4. /\ op'[i].phase = "COMMITTED" /\ op'[i].child = op[i].child /\ op'[i] # NoOp
        /\ \A j \in Instances \ {i} : op'[j] = op[j]
     BY <1>2, <2>2, NoneFacts DEF IInv, TypeOK, Op
  <2>5. /\ Stage(i) = "CHILD_BOUND" /\ Stage(i)' = "INSTANCE_COMMITTED"
        /\ \A j \in Instances \ {i} : Stage(j)' = Stage(j)
     BY <1>2, <2>2, <2>3, <2>4, NoneFacts DEF Stage, Bound
  <2>6. StageMap' = [StageMap EXCEPT ![i] = "INSTANCE_COMMITTED"] /\ StageMap[i] = "CHILD_BOUND"
     BY <2>5, OneStage DEF StageMap
  <2>7. UNCHANGED ChildMap
     BY <2>4 DEF ChildMap
  <2> QED BY <2>6, <2>7 DEF Derived!Next, Derived!Commit, StageMap, ChildMap
<1> QED BY <1>1, <1>2 DEF Commit, durable

LEMMA WriteRefines ==
  ASSUME IInv, NEW w \in Writers, WriteDurable(w)
  PROVE  [Derived!Next]_(Derived!vars)
<1> DEFINE put == pend[w]
<1>1. put \in Puts /\ put # NoPut /\ Take(w, put) /\ UNCHANGED <<op, fact, created>>
   BY NextWrite DEF WriteDurable
<1>2. CASE UNCHANGED binding
   BY <1>1, <1>2, SameStages DEF Derived!vars, StageMap, ChildMap, Stage, Bound
<1>3. ASSUME NEW i \in Instances, NEW c \in Children, i = put.instance, c = put.child,
             put.type = "bind", binding' = [binding EXCEPT ![c] = i]
      PROVE  [Derived!Next]_(Derived!vars)
  <2>1. op[i].child = c /\ op[i] # NoOp
     BY <1>1, <1>3, PendFacts, CallFacts, NoneFacts DEF IInv, Waiting, Knows
  <2>2. /\ binding'[c] = i /\ \A e \in Children \ {c} : binding'[e] = binding[e]
        /\ \A j \in Instances : op[j].child \in Children \cup {None}
     BY <1>3, <2>1, NoneFacts DEF IInv, TypeOK, Op
  <2> HIDE DEF put
  <2>3. \A j \in Instances \ {i} : op[j].child # c
    <3> SUFFICES ASSUME NEW j \in Instances, op[j].child = c PROVE j = i
       OBVIOUS
    <3>1. created[i] = c /\ created[j] = c
       BY <2>1, NoneFacts DEF IInv, Rows
    <3> QED BY <2>1, <3>1, NoneFacts DEF IInv, Rows
  <2>4. \A j \in Instances \ {i} : Stage(j)' = Stage(j)
     BY <1>1, <2>2, <2>3 DEF Stage, Bound
  <2>5. op[i].phase = "COMMITTED" => Bound(i)
     BY <2>1 DEF IInv, Rows
  <2>6. UNCHANGED ChildMap
     BY <1>1 DEF ChildMap
  <2>7. CASE Bound(i)
    <3>1. Stage(i)' = Stage(i)
       BY <1>1, <2>1, <2>2, <2>7 DEF Stage, Bound
    <3> QED BY <1>1, <2>4, <3>1, SameStages DEF Derived!vars, StageMap, ChildMap
  <2>8. CASE ~Bound(i)
    <3>1. Stage(i) = "CHILD_SESSION_CREATED" /\ Stage(i)' = "CHILD_BOUND"
       BY <1>1, <2>1, <2>2, <2>5, <2>8, NoneFacts DEF Stage, Bound
    <3>2. StageMap' = [StageMap EXCEPT ![i] = "CHILD_BOUND"] /\ StageMap[i] = "CHILD_SESSION_CREATED"
       BY <2>1, <2>4, <3>1, OneStage DEF StageMap
    <3> QED BY <2>1, <2>6, <3>2 DEF Derived!Next, Derived!Bind, StageMap, ChildMap
  <2> QED BY <2>7, <2>8
<1>4. put.type = "bind" => put.instance \in Instances /\ put.child \in Children
   BY <1>1 DEF Puts
<1> QED BY <1>1, <1>2, <1>3, <1>4 DEF Take

LEMMA StepRefines == IInv /\ [Next]_vars => [Derived!Next]_(Derived!vars)
<1> SUFFICES ASSUME IInv, [Next]_vars PROVE [Derived!Next]_(Derived!vars)
   OBVIOUS
<1>1. ASSUME UNCHANGED <<op, fact, binding>> PROVE [Derived!Next]_(Derived!vars)
   BY <1>1, SameStages DEF Derived!vars, StageMap, ChildMap, Stage, Bound
<1>2. ASSUME NEW d \in Drivers, Drive(d) PROVE [Derived!Next]_(Derived!vars)
  <2>1. CASE UNCHANGED durable
     BY <1>1, <2>1 DEF durable
  <2>2. ASSUME NEW i \in Instances, op[i].phase = "PREPARED", fact' = fact \cup {i},
               UNCHANGED <<op, binding>>
        PROVE  [Derived!Next]_(Derived!vars)
     BY <2>2, SameStages DEF Derived!vars, StageMap, ChildMap, Stage, Bound
  <2> QED BY <1>2, <2>1, <2>2, CallFacts DEF Drive, Refuse
<1>3. ASSUME NEW i \in Instances, Abandon(i) PROVE [Derived!Next]_(Derived!vars)
  <2>1. op[i] \in Op /\ op[i].phase = "PREPARED" /\ UNCHANGED <<fact, binding>>
     BY <1>3, NoneFacts DEF Abandon, IInv, TypeOK
  <2>2. /\ op'[i].phase = "FAILED" /\ op'[i].child = op[i].child /\ op'[i] # NoOp
        /\ \A j \in Instances \ {i} : op'[j] = op[j]
     BY <1>3, <2>1, NoneFacts DEF Abandon, IInv, TypeOK, Op
  <2>3. op[i] # NoOp
     BY <2>1, NoneFacts
  <2> QED BY <2>1, <2>2, <2>3, SameStages DEF Derived!vars, StageMap, ChildMap, Stage, Bound
<1>4. ASSUME NEW d \in Drivers, Submit(d) \/ Step(d) PROVE [Derived!Next]_(Derived!vars)
  <2>1. CASE Prepare(d) \/ RecordChildSession(d) \/ Commit(d) \/ Drive(d)
     BY <1>2, <2>1, PrepareRefines, RecordRefines, CommitRefines
  <2>2. CASE Submit(d) \/ CreateChildSession(d) \/ FactoryAnswers(d) \/ EnsureMemberRecord(d)
             \/ BindChildSession(d)
     BY <1>1, <2>2 DEF Submit, CreateChildSession, FactoryAnswers, EnsureMemberRecord,
                       BindChildSession, Refuse, durable
  <2> QED BY <1>4, <2>1, <2>2 DEF Step
<1>5. ASSUME NEW w \in Writers, Settle(w) PROVE [Derived!Next]_(Derived!vars)
  <2>1. CASE WriteRejected(w)
     BY <1>1, <2>1 DEF WriteRejected, durable
  <2> QED BY <1>5, <2>1, WriteRefines DEF Settle
<1>6. ASSUME NEW i \in Instances, Transition(i) PROVE [Derived!Next]_(Derived!vars)
   BY <1>1, <1>6 DEF Transition, durable
<1>7. CASE Crash
   BY <1>1, <1>7 DEF Crash, durable
<1>8. CASE UNCHANGED vars
   BY <1>1, <1>8 DEF vars, durable
<1> QED BY <1>3, <1>4, <1>5, <1>6, <1>7, <1>8 DEF Next, Rest

\* coordinator.ts: the stage that deriveStatus reads off the rows goes through the stages
\* in order, none skipped and none undone, and a member's child is chosen once.
THEOREM ProvisioningImplementsStages == Spec => ImplementsStages
<1>1. Spec => Derived!Spec
   BY ProvisioningInvariant, InitRefines, StepRefines, PTL DEF Spec, Derived!Spec
<1> QED BY <1>1 DEF ImplementsStages

-------------------------------------------------------------------------------
\* Provisioning takes a journal call in one step; that step is one the journal promises.
\* The fact of an operation names the request that allocated it.
Journal == INSTANCE OperationProtocol WITH
  Ops <- Instances, Intents <- Tokens,
  phase   <- [i \in Instances |-> op[i].phase],
  intent  <- [i \in Instances |-> op[i].key],
  applied <- [i \in Instances |-> IF i \in fact THEN {[intent |-> op[i].key]} ELSE {}]

\* Only what was prepared is applied.
Applied == \A i \in fact : op[i] # NoOp

PhaseMap   == [i \in Instances |-> op[i].phase]
IntentMap  == [i \in Instances |-> op[i].key]
AppliedMap == [i \in Instances |-> IF i \in fact THEN {[intent |-> op[i].key]} ELSE {}]

LEMMA InitIsJournaled == Init => Journal!Init /\ Applied
BY DEF Init, Journal!Init, Applied, NoOp

\* A step that moves no phase, no request and no fact is none of the journal's.
LEMMA NotJournaled ==
  ASSUME \A i \in Instances : op'[i].phase = op[i].phase /\ op'[i].key = op[i].key, fact' = fact
  PROVE  UNCHANGED Journal!vars
BY DEF Journal!vars

\* A step of one operation that leaves its request and the facts alone.
LEMMA PhaseMoves ==
  ASSUME NEW i \in Instances, \A j \in Instances \ {i} : op'[j] = op[j],
         op'[i].key = op[i].key, fact' = fact
  PROVE  /\ PhaseMap' = [PhaseMap EXCEPT ![i] = op'[i].phase] /\ PhaseMap[i] = op[i].phase
         /\ IntentMap' = IntentMap /\ AppliedMap' = AppliedMap
         /\ AppliedMap[i] = IF i \in fact THEN {[intent |-> op[i].key]} ELSE {}
BY DEF PhaseMap, IntentMap, AppliedMap

\* A step of one operation that has no fact.
LEMMA RowMoves ==
  ASSUME NEW i \in Instances, \A j \in Instances \ {i} : op'[j] = op[j],
         i \notin fact, fact' = fact
  PROVE  /\ PhaseMap' = [PhaseMap EXCEPT ![i] = op'[i].phase] /\ PhaseMap[i] = op[i].phase
         /\ IntentMap' = [IntentMap EXCEPT ![i] = op'[i].key] /\ AppliedMap' = AppliedMap
<1>1. \A j \in Instances : j \in fact => op'[j].key = op[j].key
   OBVIOUS
<1>2. AppliedMap' = AppliedMap
   BY <1>1 DEF AppliedMap
<1> QED BY <1>2 DEF PhaseMap, IntentMap

\* The moves of the journal: a row is prepared, a row is settled, the fact is appended.
LEMMA RowPrepared ==
  ASSUME IInv, Applied, NEW i \in Instances, NEW k \in Tokens, op[i] = NoOp, fact' = fact,
         op' = [op EXCEPT ![i] = [phase |-> "PREPARED", key |-> k, child |-> None]]
  PROVE  Journal!Next /\ Applied'
<1>1. /\ op'[i].phase = "PREPARED" /\ op'[i].key = k /\ \A j \in Instances \ {i} : op'[j] = op[j]
      /\ op[i].phase = "ABSENT" /\ i \notin fact /\ fact \subseteq Instances
   BY DEF IInv, TypeOK, NoOp, Applied
<1>2. /\ PhaseMap' = [PhaseMap EXCEPT ![i] = "PREPARED"] /\ PhaseMap[i] = "ABSENT"
      /\ IntentMap' = [IntentMap EXCEPT ![i] = k] /\ AppliedMap' = AppliedMap
   BY <1>1, RowMoves
<1>3. Applied'
   BY <1>1 DEF Applied
<1> QED BY <1>2, <1>3 DEF Journal!Next, Journal!Begin, PhaseMap, IntentMap, AppliedMap

LEMMA RowSettled ==
  ASSUME IInv, Applied, NEW i \in Instances, NEW p \in {"COMMITTED", "FAILED"},
         op[i].phase = "PREPARED", p = "COMMITTED" => i \in fact, fact' = fact,
         op' = [op EXCEPT ![i].phase = p]
  PROVE  Journal!Next /\ Applied'
<1>1. op[i] \in Op
   BY NoneFacts DEF IInv, TypeOK
<1>2. /\ op'[i].phase = p /\ op'[i].key = op[i].key /\ op'[i] # NoOp
      /\ \A j \in Instances \ {i} : op'[j] = op[j]
   BY <1>1, NoneFacts DEF IInv, TypeOK, Op, NoOp
<1>3. /\ PhaseMap' = [PhaseMap EXCEPT ![i] = p] /\ PhaseMap[i] = "PREPARED"
      /\ IntentMap' = IntentMap /\ AppliedMap' = AppliedMap
      /\ i \in fact => AppliedMap[i] # {}
   BY <1>2, PhaseMoves
<1>4. Applied'
   BY <1>2 DEF Applied, IInv, TypeOK
<1> QED BY <1>3, <1>4 DEF Journal!Next, Journal!Settle, PhaseMap, IntentMap, AppliedMap

LEMMA FactAppended ==
  ASSUME IInv, Applied, NEW i \in Instances, op[i].phase = "PREPARED", i \notin fact,
         fact' = fact \cup {i}, op' = op
  PROVE  Journal!Next /\ Applied'
<1> DEFINE f == [intent |-> op[i].key]
<1>1. /\ PhaseMap' = PhaseMap /\ PhaseMap[i] = "PREPARED"
      /\ IntentMap' = IntentMap /\ f.intent = IntentMap[i]
      /\ AppliedMap' = [AppliedMap EXCEPT ![i] = {f}] /\ AppliedMap[i] = {} /\ AppliedMap'[i] = {f}
   BY DEF PhaseMap, IntentMap, AppliedMap
<1>2. Applied'
  <2>1. op[i] # NoOp
     BY DEF NoOp
  <2> QED BY <2>1 DEF Applied
<1>3. \E g \in AppliedMap'[i] : g.intent = IntentMap[i] /\ AppliedMap' = [AppliedMap EXCEPT ![i] = {g}]
   BY <1>1
<1> QED BY <1>1, <1>2, <1>3 DEF Journal!Next, Journal!Apply, PhaseMap, IntentMap, AppliedMap

LEMMA JournalStep == IInv /\ Applied /\ [Next]_vars => [Journal!Next]_(Journal!vars) /\ Applied'
<1> SUFFICES ASSUME IInv, Applied, [Next]_vars PROVE [Journal!Next]_(Journal!vars) /\ Applied'
   OBVIOUS
<1>1. ASSUME UNCHANGED <<op, fact>> PROVE [Journal!Next]_(Journal!vars) /\ Applied'
   BY <1>1, NotJournaled DEF Applied
<1>2. ASSUME NEW d \in Drivers, Prepare(d) PROVE [Journal!Next]_(Journal!vars) /\ Applied'
  <2>1. I(d) \in Instances /\ call[d].token \in Tokens
     BY <1>2, CallFacts DEF Prepare, Calls, IInv, Working, I
  <2>2. CASE UNCHANGED durable
     BY <1>1, <2>2 DEF durable
  <2>3. CASE op[I(d)] = NoOp /\ fact' = fact
             /\ op' = [op EXCEPT ![I(d)] = [phase |-> "PREPARED", key |-> call[d].token, child |-> None]]
     BY <2>1, <2>3, RowPrepared
  <2> QED BY <1>2, <2>2, <2>3 DEF Prepare, Refuse, durable
<1>3. ASSUME NEW d \in Drivers, RecordChildSession(d)
      PROVE  [Journal!Next]_(Journal!vars) /\ Applied'
  <2>1. CASE UNCHANGED durable
     BY <1>1, <2>1 DEF durable
  <2>2. ASSUME NEW i \in Instances, op[i].phase = "PREPARED", op' = [op EXCEPT ![i].child = child[d]],
               fact' = fact
        PROVE  [Journal!Next]_(Journal!vars) /\ Applied'
    <3>1. op[i] \in Op
       BY <2>2, NoneFacts DEF IInv, TypeOK
    <3>2. /\ op'[i].phase = op[i].phase /\ op'[i].key = op[i].key
          /\ \A j \in Instances \ {i} : op'[j] = op[j]
       BY <2>2, <3>1 DEF IInv, TypeOK, Op
    <3>3. \A j \in Instances : op'[j].phase = op[j].phase /\ op'[j].key = op[j].key
       BY <3>2
    <3>4. Applied'
       BY <2>2, <3>2 DEF Applied, NoOp
    <3> QED BY <2>2, <3>3, <3>4, NotJournaled
  <2> QED BY <1>3, <2>1, <2>2, CallFacts DEF RecordChildSession, Refuse, durable
<1>4. ASSUME NEW d \in Drivers, Drive(d) PROVE [Journal!Next]_(Journal!vars) /\ Applied'
  <2>1. CASE UNCHANGED durable
     BY <1>1, <2>1 DEF durable
  <2>2. ASSUME NEW i \in Instances, op[i].phase = "PREPARED", fact' = fact \cup {i}, op' = op
        PROVE  [Journal!Next]_(Journal!vars) /\ Applied'
    <3>1. CASE i \in fact
      <4>1. fact' = fact
         BY <2>2, <3>1
      <4> QED BY <1>1, <2>2, <4>1
    <3> QED BY <2>2, <3>1, FactAppended
  <2> QED BY <1>4, <2>1, <2>2, CallFacts DEF Drive, Refuse, durable
<1>5. ASSUME NEW d \in Drivers, Commit(d) PROVE [Journal!Next]_(Journal!vars) /\ Applied'
  <2>1. CASE UNCHANGED durable
     BY <1>1, <2>1 DEF durable
  <2>2. CASE op' = [op EXCEPT ![I(d)].phase = "COMMITTED"] /\ fact' = fact
    <3>1. I(d) \in Instances /\ lock[I(d)] = d /\ d # None
       BY <1>5, CallFacts, NoneFacts DEF Commit, IInv, Locking
    <3>2. op[I(d)].phase = "PREPARED" /\ I(d) \in fact
       BY <3>1 DEF IInv, Locking
    <3> QED BY <2>2, <3>1, <3>2, RowSettled
  <2> QED BY <1>5, <2>1, <2>2 DEF Commit, durable
<1>6. ASSUME NEW i \in Instances, Abandon(i) PROVE [Journal!Next]_(Journal!vars) /\ Applied'
   BY <1>6, RowSettled DEF Abandon
<1>7. ASSUME NEW d \in Drivers, Submit(d) \/ Step(d) PROVE [Journal!Next]_(Journal!vars) /\ Applied'
  <2>1. CASE Prepare(d) \/ RecordChildSession(d) \/ Commit(d) \/ Drive(d)
     BY <1>2, <1>3, <1>4, <1>5, <2>1
  <2>2. CASE Submit(d) \/ CreateChildSession(d) \/ FactoryAnswers(d) \/ EnsureMemberRecord(d)
             \/ BindChildSession(d)
     BY <1>1, <2>2 DEF Submit, CreateChildSession, FactoryAnswers, EnsureMemberRecord,
                       BindChildSession, Refuse, durable
  <2> QED BY <1>7, <2>1, <2>2 DEF Step
<1>8. ASSUME NEW w \in Writers, Settle(w) PROVE [Journal!Next]_(Journal!vars) /\ Applied'
   BY <1>1, <1>8 DEF Settle, WriteDurable, WriteRejected, durable
<1>9. ASSUME NEW i \in Instances, Transition(i) PROVE [Journal!Next]_(Journal!vars) /\ Applied'
   BY <1>1, <1>9 DEF Transition, durable
<1>10. CASE Crash
   BY <1>1, <1>10 DEF Crash, durable
<1>11. CASE UNCHANGED vars
   BY <1>1, <1>11 DEF vars, durable
<1> QED BY <1>6, <1>7, <1>8, <1>9, <1>10, <1>11 DEF Next, Rest

\* The journal calls of coordinator.ts, in one step each, make only moves of OperationProtocol,
\* which the journal itself is proved to implement: a member is prepared once, under one
\* request, applied at most once, committed only when applied, and terminal for good.
THEOREM ProvisioningKeepsProtocol == Spec => Journal!Spec
BY ProvisioningInvariant, InitIsJournaled, JournalStep, PTL DEF Spec, Journal!Spec

===============================================================================
