----------------------- MODULE MemberLifecycleProofs -----------------------
(***************************************************************************)
(* The theorems about MemberLifecycle: its safety properties, and the       *)
(* refinement of MemberContract, for any sets of calls and tokens and any   *)
(* number of requests, crashes and faults.                                  *)
(***************************************************************************)
EXTENDS MemberLifecycle, TLAPS

\* The steps of a unit that is admitted, and those of a procedure that closed the admission.
Owing    == {"open", "calling", "settling", "settle", "settled"} \cup Unlocked
Quiesce  == {"interrupt", "drain", "descendants", "presettle"}
Closers  == Quiesce \cup {"close"}
Planned  == Closers \cup {"commit"}

Steps == {"idle"} \cup Queued \cup Holding \cup Unlocked
Reads == [lifecycle: Contract!States, version: Nat] \cup {NoRead}

\* What a call does at a step is what its job lets it do there.
WorkAt(s, j) ==
  /\ IF s = "idle" THEN j = NoJob ELSE j \in Jobs
  /\ s \in {"admit", "fact"} \cup Owing => j.op = "WORK"
  /\ s \in Closers \cup {"committed"} => j.op \in {"ARCHIVE", "DISPOSE"}
  /\ s = "presettle" => j.op = "ARCHIVE"
  /\ s = "commit" => j.op \in {"ARCHIVE", "DISPOSE", "RESTORE"}

\* The facts of the unit a call serves, as far as the call has come.
FactsAt(s, t) ==
  /\ s \in {"admit", "fact"} => t \notin admitted /\ settled[t] = 0
  /\ s \in Owing => t \in admitted
  /\ s = "open" => settled[t] = 0
  /\ s \in {"settle", "settled"} => t \notin open

\* The row a call goes by, which nobody changes while the call holds the chain.
RowAt(s, op, read) ==
  /\ s \in {"admit"} \cup Planned => read = Read
  /\ s = "admit" => lifecycle \in Rules["ADMIT_WORK"].sources
  /\ s \in {"fact", "presettle"} => lifecycle = "RUNNING"
  /\ s = "settled" => lifecycle = "SETTLED"
  /\ s \in Closers => Legal(op)
  /\ s = "commit" => lifecycle \in Rules[op].sources
  /\ s = "committed" => Terminal

Sound(p) ==
  /\ WorkAt(pc[p], job[p])
  /\ FactsAt(pc[p], job[p].token)
  /\ RowAt(pc[p], job[p].op, seen[p])

Calling == \A p \in Callers : Sound(p)

\* The admission is closed exactly while a procedure that closed it is under way.
Closing(s, op) == s \in Quiesce \cup {"committed"} \/ (s = "commit" /\ op # "RESTORE")
Closed == closed <=> \E p \in Callers : Closing(pc[p], job[p].op)

\* A terminal member has a handle only until its procedure returns; a boot that resumes
\* it meanwhile finds the marker.
Handles ==
  /\ Terminal /\ resident => \E p \in Callers : pc[p] = "committed"
  /\ Terminal /\ boot = "resuming" /\ ~closed => marker

\* A member that runs owes it to a unit that is still to settle it, or to a failure.
Owes == ({"fact"} \cup Owing) \ {"settled"}
Running ==
  lifecycle = "RUNNING" /\ crashes = 0 /\ faults = 0 => \E p \in Callers : pc[p] \in Owes

\* The inductive invariant.
IInv ==
  /\ TypeOK /\ Calling /\ Closed /\ Handles /\ Running
  /\ SettledIsClosed

-------------------------------------------------------------------------------
USE LifecycleAssumption

\* The chain holds the calls that queue on it or run in it, its holder first.
InChain == Queued \cup Holding

Lined(c, f) ==
  /\ c \in Seq(Callers) /\ IsInjective(c)
  /\ f \in [Callers -> Steps]
  /\ \A p \in Callers : f[p] \in InChain <=> p \in ToSet(c)
  /\ \A p \in Callers : f[p] \in Holding => c # << >> /\ c[1] = p

GlueTyped ==
  /\ resident \in BOOLEAN /\ closed \in BOOLEAN /\ marker \in BOOLEAN
  /\ ensure \in {"idle", "probing", "resuming"}
  /\ boot \in {"off", "starting", "resuming", "sweep"}
  /\ requests \in 0..MaxRequests /\ crashes \in 0..MaxCrashes /\ faults \in 0..MaxFaults

Typed ==
  /\ lifecycle \in Contract!States /\ version \in Nat
  /\ admitted \subseteq Tokens /\ open \subseteq Tokens /\ settled \in [Tokens -> Nat]
  /\ Lined(chain, pc)
  /\ job \in [Callers -> Jobs \cup {NoJob}] /\ seen \in [Callers -> Reads]
  /\ GlueTyped

LEMMA TypeMeans == TypeOK <=> Typed
<1>1. \A p \in Callers : chain \in Seq(Callers) => (Holds(p) <=> chain # << >> /\ chain[1] = p)
   BY DEF Holds
<1> QED BY <1>1 DEF TypeOK, Typed, GlueTyped, Lined, Steps, Reads, InChain

LEMMA TypeMeansNext == TypeOK' <=> Typed'
BY TypeMeans, PTL

\* What the front and the back of a sequence are.
LEMMA TailFacts ==
  ASSUME NEW S, NEW q \in Seq(S), q # << >>
  PROVE  /\ Tail(q) \in Seq(S) /\ Len(q) \in Nat \ {0} /\ Len(Tail(q)) = Len(q) - 1
         /\ DOMAIN Tail(q) = 1 .. (Len(q) - 1)
         /\ \A k \in 1 .. (Len(q) - 1) : Tail(q)[k] = q[k + 1]
OBVIOUS

LEMMA AppendFacts ==
  ASSUME NEW S, NEW q \in Seq(S), NEW e \in S
  PROVE  /\ Append(q, e) \in Seq(S) /\ Len(q) \in Nat /\ Len(Append(q, e)) = Len(q) + 1
         /\ DOMAIN Append(q, e) = 1 .. (Len(q) + 1)
         /\ Append(q, e)[Len(q) + 1] = e
         /\ \A k \in 1 .. Len(q) : Append(q, e)[k] = q[k]
OBVIOUS

\* A call goes on, in the chain or outside of it.
LEMMA LineStays ==
  ASSUME NEW c, NEW f, NEW p \in Callers, NEW s \in Steps, Lined(c, f),
         f[p] \in InChain <=> s \in InChain, s \in Holding => c # << >> /\ c[1] = p
  PROVE  Lined(c, [f EXCEPT ![p] = s])
BY DEF Lined, InChain

\* A call joins the chain.
LEMMA LineJoins ==
  ASSUME NEW c, NEW f, NEW p \in Callers, NEW s \in Queued, Lined(c, f), f[p] \notin InChain
  PROVE  Lined(Append(c, p), [f EXCEPT ![p] = s])
<1> DEFINE f2 == [f EXCEPT ![p] = s]
           c2 == Append(c, p)
<1>1. /\ f2 \in [Callers -> Steps] /\ f2[p] = s /\ s \in InChain \ Holding
      /\ \A q \in Callers : q # p => f2[q] = f[q]
   BY DEF Lined, InChain, Steps, Queued, Holding
<1>2. c \in Seq(Callers) /\ Len(c) \in Nat /\ DOMAIN c = 1..Len(c)
   BY DEF Lined
<1>3. /\ c2 \in Seq(Callers) /\ Len(c2) = Len(c) + 1 /\ DOMAIN c2 = 1..(Len(c) + 1)
      /\ c2[Len(c) + 1] = p /\ \A i \in 1..Len(c) : c2[i] = c[i]
   BY <1>2, AppendFacts
<1> HIDE DEF f2, c2
<1>4. \A i \in 1..Len(c) : c[i] # p
   BY <1>2 DEF Lined, ToSet
<1>5. IsInjective(c2)
  <2>1. \A i \in 1..Len(c), j \in 1..Len(c) : c[i] = c[j] => i = j
     BY <1>2 DEF Lined, IsInjective
  <2> SUFFICES ASSUME NEW i \in 1..(Len(c) + 1), NEW j \in 1..(Len(c) + 1), c2[i] = c2[j]
               PROVE  i = j
     BY <1>3 DEF IsInjective
  <2> QED BY <1>2, <1>3, <1>4, <2>1
<1>6. \A q : q \in ToSet(c2) <=> q \in ToSet(c) \/ q = p
   BY <1>2, <1>3 DEF ToSet
<1>7. c # << >> => c2 # << >> /\ c2[1] = c[1]
   BY <1>2, <1>3
<1> QED BY <1>1, <1>3, <1>5, <1>6, <1>7 DEF Lined, c2, f2

\* The holder leaves the chain.
LEMMA LineLeaves ==
  ASSUME NEW c, NEW f, NEW p \in Callers, NEW s \in Steps, Lined(c, f),
         c # << >>, c[1] = p, s \notin InChain
  PROVE  Lined(Tail(c), [f EXCEPT ![p] = s])
<1> DEFINE f2 == [f EXCEPT ![p] = s]
           c2 == Tail(c)
<1>1. /\ f2 \in [Callers -> Steps] /\ f2[p] = s
      /\ \A q \in Callers : q # p => f2[q] = f[q]
   BY DEF Lined
<1>2. c \in Seq(Callers) /\ DOMAIN c = 1..Len(c)
   BY DEF Lined
<1>3. /\ c2 \in Seq(Callers) /\ Len(c2) = Len(c) - 1 /\ DOMAIN c2 = 1..(Len(c) - 1)
      /\ Len(c) \in Nat \ {0} /\ \A i \in 1..(Len(c) - 1) : c2[i] = c[i + 1]
   BY <1>2, TailFacts
<1> HIDE DEF f2, c2
<1>4. \A i \in 1..Len(c), j \in 1..Len(c) : c[i] = c[j] => i = j
   BY <1>2 DEF Lined, IsInjective
<1>5. IsInjective(c2)
   BY <1>2, <1>3, <1>4 DEF IsInjective
<1>6. \A q : q \in ToSet(c2) <=> q \in ToSet(c) /\ q # p
  <2>1. ASSUME NEW q, q \in ToSet(c), q # p PROVE q \in ToSet(c2)
    <3>1. PICK i \in 1..Len(c) : c[i] = q
       BY <1>2, <2>1 DEF ToSet
    <3>2. i - 1 \in 1..(Len(c) - 1) /\ c2[i - 1] = c[i]
       BY <1>3, <2>1, <3>1
    <3> QED BY <1>3, <3>1, <3>2 DEF ToSet
  <2>2. ASSUME NEW q, q \in ToSet(c2) PROVE q \in ToSet(c) /\ q # p
    <3>1. PICK i \in 1..(Len(c) - 1) : c2[i] = q
       BY <1>3, <2>2 DEF ToSet
    <3>2. i + 1 \in 1..Len(c) /\ c[i + 1] = q /\ i + 1 # 1 /\ 1 \in 1..Len(c)
       BY <1>3, <3>1
    <3> QED BY <1>2, <1>4, <3>2 DEF ToSet
  <2> QED BY <2>1, <2>2
<1>7. \A q \in Callers : f[q] \in Holding => q = p
   BY DEF Lined
<1>8. \A q \in Callers : f2[q] \notin Holding
   BY <1>1, <1>7 DEF InChain
<1> QED BY <1>1, <1>3, <1>5, <1>6, <1>8 DEF Lined, c2, f2

\* Turns are cancelled: their calls leave the chain, and its holder, if it runs, stays.
LEMMA LineDrops ==
  ASSUME Lined(chain, pc), NEW r \in Remaining
  PROVE  Lined(r, Cancelled)
<1>1. /\ chain \in Seq(Callers) /\ Len(chain) \in Nat /\ DOMAIN chain = 1..Len(chain)
      /\ pc \in [Callers -> Steps] /\ r \in Seq(Callers) /\ IsInjective(r)
      /\ Len(r) \in Nat /\ DOMAIN r = 1..Len(r)
  <2>1. PICK n \in Nat : r \in [1..n -> Callers]
     BY DEF Lined, Remaining, SeqOf
  <2>2. r \in Seq(Callers)
     BY <2>1
  <2> QED BY <2>2 DEF Lined, Remaining
<1>2. /\ Cancelled \in [Callers -> Steps]
      /\ \A q \in Callers : Cancelled[q] = IF pc[q] \in {"turn", "calling"} THEN "unwinding" ELSE pc[q]
   BY <1>1 DEF Cancelled, Steps, Unlocked
<1>3. \A q \in Callers : Cancelled[q] \in InChain <=> pc[q] \in InChain /\ pc[q] # "calling"
   BY <1>2 DEF InChain, Queued, Holding
<1>4. \A q : q \in ToSet(r) <=> q \in ToSet(chain) /\ pc[q] # "calling"
   BY DEF Remaining
<1>5. \A q \in Callers : Cancelled[q] \in Holding <=> pc[q] \in Holding
   BY <1>2 DEF Holding
<1>6. ASSUME NEW q \in Callers, pc[q] \in Holding PROVE r # << >> /\ r[1] = q
   <2>1. chain # << >> /\ chain[1] = q /\ 1 \in DOMAIN chain /\ pc[q] # "calling"
      BY <1>1, <1>6 DEF Lined, Holding
   <2>2. PICK i \in DOMAIN r : r[i] = q
      BY <1>4, <2>1 DEF ToSet
   <2>3. r[1] \in ToSet(chain) /\ 1 \in DOMAIN r
      BY <1>1, <1>4, <2>2 DEF ToSet
   <2>4. PICK n \in DOMAIN chain : chain[n] = r[1]
      BY <2>3 DEF ToSet
   <2>5. n = 1
      <3>1. \A a, b \in DOMAIN r, m, k \in DOMAIN chain :
               r[a] = chain[m] /\ r[b] = chain[k] /\ m < k => a < b
         BY DEF Remaining
      <3>2. ~(1 < n)
         BY <1>1, <2>1, <2>2, <2>3, <2>4, <3>1
      <3> QED BY <1>1, <2>4, <3>2
   <2> QED BY <1>1, <2>1, <2>3, <2>4, <2>5
<1> QED BY <1>1, <1>2, <1>3, <1>4, <1>5, <1>6 DEF Lined

-------------------------------------------------------------------------------
(* What a step leaves of the invariant *)

\* The token of a job names a unit exactly when the job is a work unit.
LEMMA JobFacts ==
  ASSUME NEW j \in Jobs
  PROVE  /\ j.op \in {"WORK", "ARCHIVE", "RESTORE", "DISPOSE"}
         /\ j.op = "WORK" => j.token \in Tokens /\ j.token # None
         /\ j.op # "WORK" => j.token = None
BY DEF Jobs

LEMMA RulesFacts ==
  /\ Rules["ADMIT_WORK"].sources = {"CREATED", "SETTLED"}
  /\ Rules["SETTLE"].sources = {"RUNNING"} /\ Rules["ARCHIVE"].sources = {"SETTLED"}
  /\ Rules["RESTORE"].sources = {"ARCHIVED"}
  /\ Rules["DISPOSE"].sources = {"CREATED", "RUNNING", "SETTLED", "ARCHIVED"}
  /\ Rules["ADMIT_WORK"].target = "RUNNING" /\ Rules["SETTLE"].target = "SETTLED"
  /\ Rules["ARCHIVE"].target = "ARCHIVED" /\ Rules["RESTORE"].target = "SETTLED"
  /\ Rules["DISPOSE"].target = "DISPOSED"
BY DEF Rules, Contract!Rules, Contract!States

\* A call that others move is cancelled in its turn, or answered by the flight it waits for.
Turned(a, b) == b = a \/ (a \in {"turn", "calling", "ensuring"} /\ b \in Unlocked)

\* The durable state is written by the holder of the chain, and admissions stay.
Writes(p) ==
  /\ lifecycle' \in Contract!States /\ version' \in Nat
  /\ admitted' \subseteq Tokens /\ open' \subseteq Tokens /\ settled' \in [Tokens -> Nat]
  /\ Holds(p) \/ UNCHANGED durable
  /\ admitted \subseteq admitted'

LEMMA RowKept ==
  ASSUME NEW s, NEW op, NEW d, RowAt(s, op, d), UNCHANGED <<lifecycle, version>>
  PROVE  RowAt(s, op, d)'
BY DEF RowAt, Read, Terminal, Legal, Rules, Contract!Rules, Contract!States

LEMMA RowFree ==
  ASSUME NEW s, NEW op, NEW d, s \notin Holding
  PROVE  RowAt(s, op, d) /\ RowAt(s, op, d)'
BY DEF RowAt, Holding, Planned, Closers, Quiesce

\* What a call knows survives the steps of the others.
LEMMA CallKept ==
  ASSUME IInv, NEW q \in Callers, Turned(pc[q], pc'[q]), job'[q] = job[q], seen'[q] = seen[q],
         UNCHANGED durable \/ \E p \in Callers \ {q} : Writes(p)
  PROVE  Sound(q)'
<1>0. PICK b, j, d : b = pc'[q] /\ j = job[q] /\ d = seen[q]
   OBVIOUS
<1>1. WorkAt(pc[q], j) /\ FactsAt(pc[q], j.token) /\ RowAt(pc[q], j.op, d) /\ Turned(pc[q], b)
   BY <1>0 DEF IInv, Calling, Sound
<1>2. WorkAt(b, j)
   BY <1>1 DEF WorkAt, Turned, Unlocked, Owing, Closers, Quiesce
<1>3. FactsAt(b, j.token)
   BY <1>1 DEF FactsAt, Turned, Unlocked, Owing
<1>4. RowAt(b, j.op, d)
   BY <1>1, RowFree DEF Turned, Unlocked, Holding
<1>5. FactsAt(b, j.token)' /\ RowAt(b, j.op, d)'
  <2>1. CASE UNCHANGED durable
    <3>1. UNCHANGED <<lifecycle, version, admitted, settled, open>>
       BY <2>1 DEF durable
    <3>2. FactsAt(b, j.token)'
       BY <1>3, <3>1 DEF FactsAt
    <3> QED BY <1>4, <3>1, <3>2, RowKept
  <2>2. CASE ~(UNCHANGED durable)
    <3>1. PICK p \in Callers \ {q} : Writes(p)
       BY <2>2
    <3>2. Holds(p) /\ pc[q] \notin Holding
       BY <2>2, <3>1, TypeMeans DEF Writes, Holds, IInv, Typed, Lined
    <3>3. b \notin Holding
       BY <1>1, <3>2 DEF Turned, Unlocked, Holding
    <3>4. FactsAt(b, j.token)'
       BY <1>3, <3>1, <3>3 DEF FactsAt, Writes, Owing, Holding
    <3> QED BY <3>3, <3>4, RowFree
  <2> QED BY <2>1, <2>2
<1> QED BY <1>0, <1>2, <1>5 DEF Sound, WorkAt, FactsAt, RowAt, Read, Terminal, Legal

\* A step of one call: what the call does next, and what all the others keep.
Step(p, s, j, d) ==
  /\ pc'[p] = s /\ \A q \in Callers \ {p} : Turned(pc[q], pc'[q])
  /\ job' = [job EXCEPT ![p] = j] /\ seen' = [seen EXCEPT ![p] = d]
  /\ Writes(p)

LEMMA StepKeeps ==
  ASSUME IInv, NEW p \in Callers, NEW s \in Steps, NEW j \in Jobs \cup {NoJob}, NEW d \in Reads,
         Step(p, s, j, d), Lined(chain', pc'), GlueTyped',
         WorkAt(s, j), FactsAt(s, j.token)', RowAt(s, j.op, d)'
  PROVE  TypeOK' /\ Calling'
<1>1. /\ job \in [Callers -> Jobs \cup {NoJob}] /\ seen \in [Callers -> Reads]
   BY TypeMeans DEF IInv, Typed
<1>2. /\ job' \in [Callers -> Jobs \cup {NoJob}] /\ seen' \in [Callers -> Reads]
      /\ job'[p] = j /\ seen'[p] = d /\ pc'[p] = s
      /\ \A q \in Callers \ {p} : job'[q] = job[q] /\ seen'[q] = seen[q] /\ Turned(pc[q], pc'[q])
   BY <1>1 DEF Step
<1>3. TypeOK'
   BY <1>2, TypeMeansNext DEF Step, Writes, Typed
<1>4. Calling'
  <2>1. Sound(p)'
     BY <1>2 DEF Sound, WorkAt, FactsAt, RowAt, Read, Terminal, Legal
  <2>2. \A q \in Callers \ {p} : Sound(q)'
     BY <1>2, CallKept DEF Step
  <2> QED BY <2>1, <2>2 DEF Calling
<1> QED BY <1>3, <1>4

\* A step of one call that moves no other and leaves the handle and the admission alone.
Line(p, s) ==
  \/ chain' = chain /\ (pc[p] \in InChain <=> s \in InChain) /\ (s \in Holding => Holds(p))
  \/ chain' = Append(chain, p) /\ pc[p] \notin InChain /\ s \in Queued
  \/ chain' = Tail(chain) /\ Holds(p) /\ s \notin InChain

Calm(p, s, j, d) ==
  /\ pc' = [pc EXCEPT ![p] = s] /\ Line(p, s)
  /\ job' = [job EXCEPT ![p] = j] /\ seen' = [seen EXCEPT ![p] = d]
  /\ Writes(p)
  /\ UNCHANGED <<resident, closed, marker, boot, crashes>>
  /\ ensure' \in {"idle", "probing", "resuming"}
  /\ requests' \in 0..MaxRequests /\ faults' \in faults..MaxFaults

LEMMA Lines ==
  ASSUME TypeOK, NEW p \in Callers, NEW s \in Steps, pc' = [pc EXCEPT ![p] = s], Line(p, s)
  PROVE  Lined(chain', pc')
<1>1. Lined(chain, pc) /\ (Holds(p) => chain # << >> /\ chain[1] = p)
   BY TypeMeans DEF Typed, Lined, Holds
<1>2. CASE chain' = chain /\ (pc[p] \in InChain <=> s \in InChain) /\ (s \in Holding => Holds(p))
   BY <1>1, <1>2, LineStays
<1>3. CASE chain' = Append(chain, p) /\ pc[p] \notin InChain /\ s \in Queued
   BY <1>1, <1>3, LineJoins
<1>4. CASE chain' = Tail(chain) /\ Holds(p) /\ s \notin InChain
   BY <1>1, <1>4, LineLeaves
<1> QED BY <1>2, <1>3, <1>4 DEF Line

LEMMA CallStep ==
  ASSUME IInv, NEW p \in Callers, NEW s \in Steps, NEW j \in Jobs \cup {NoJob}, NEW d \in Reads,
         Calm(p, s, j, d), WorkAt(s, j), FactsAt(s, j.token)', RowAt(s, j.op, d)',
         SettledIsClosed',
         pc[p] # "committed", Closing(s, j.op) <=> Closing(pc[p], job[p].op),
         lifecycle' = lifecycle \/ ~Terminal' \/ s = "committed",
         lifecycle' = "RUNNING" =>
           s \in Owes \/ faults' # 0 \/ (lifecycle = "RUNNING" /\ pc[p] \notin Owes)
  PROVE  IInv'
<1>1. /\ pc \in [Callers -> Steps] /\ job \in [Callers -> Jobs \cup {NoJob}] /\ GlueTyped
      /\ MaxFaults \in Nat
   BY TypeMeans DEF IInv, Typed, Lined
<1>2. /\ pc'[p] = s /\ \A q \in Callers \ {p} : pc'[q] = pc[q]
      /\ job'[p] = j /\ \A q \in Callers \ {p} : job'[q] = job[q]
   BY <1>1 DEF Calm
<1>3. TypeOK' /\ Calling'
  <2>1. Lined(chain', pc')
     BY Lines DEF IInv, Calm
  <2>2. GlueTyped'
     BY <1>1 DEF GlueTyped, Calm
  <2>3. Step(p, s, j, d)
     BY <1>2 DEF Step, Calm, Turned
  <2> QED BY <2>1, <2>2, <2>3, StepKeeps
<1>4. Closed'
  <2>1. \A q \in Callers : Closing(pc'[q], job'[q].op) <=> Closing(pc[q], job[q].op)
     BY <1>2
  <2>2. closed' = closed
     BY DEF Calm
  <2> QED BY <2>1, <2>2 DEF IInv, Closed, Closing
<1>5. Handles'
  <2>1. resident' = resident /\ boot' = boot /\ closed' = closed /\ marker' = marker
     BY DEF Calm
  <2>2. \A q \in Callers : pc[q] = "committed" => pc'[q] = "committed"
     BY <1>2
  <2>3. CASE s = "committed"
    <3>1. closed
       BY <2>3 DEF IInv, Closed, Closing
    <3> QED BY <1>2, <2>1, <2>3, <3>1 DEF Handles
  <2>4. CASE ~Terminal'
     BY <2>4 DEF Handles
  <2>5. CASE lifecycle' = lifecycle
     BY <2>1, <2>2, <2>5 DEF IInv, Handles, Terminal
  <2> QED BY <2>3, <2>4, <2>5
<1>6. Running'
  <2>1. crashes' = crashes /\ (faults' = 0 => faults = 0)
     BY <1>1 DEF Calm, GlueTyped
  <2>2. CASE s \in Owes
     BY <1>2, <2>2 DEF Running
  <2>3. CASE faults' # 0
     BY <2>3 DEF Running
  <2>4. CASE lifecycle = "RUNNING" /\ pc[p] \notin Owes
     BY <1>2, <2>1, <2>4 DEF IInv, Running
  <2> QED BY <2>2, <2>3, <2>4 DEF Running
<1> QED BY <1>3, <1>4, <1>5, <1>6 DEF IInv

\* A step of a flight: no call changes but those it cancels or answers.
LEMMA FlightStep ==
  ASSUME IInv, \A q \in Callers : Turned(pc[q], pc'[q]), Lined(chain', pc'),
         UNCHANGED <<durable, job, seen, closed, bounds>>, GlueTyped', Handles'
  PROVE  IInv'
<1>1. pc \in [Callers -> Steps]
   BY TypeMeans DEF IInv, Typed, Lined
<1>2. UNCHANGED <<lifecycle, version, admitted, settled, open, requests, crashes, faults>>
   BY DEF durable, bounds
<1>3. TypeOK'
   BY <1>2, TypeMeans, TypeMeansNext DEF IInv, Typed
<1>4. Calling'
   BY CallKept DEF Calling
<1>5. Closed'
  <2>1. \A q \in Callers : Closing(pc'[q], job[q].op) <=> Closing(pc[q], job[q].op)
     BY DEF Turned, Closing, Unlocked, Quiesce
  <2> QED BY <2>1 DEF IInv, Closed, Closing
<1>6. Running'
  <2>1. \A q \in Callers : pc[q] \in Owes => pc'[q] \in Owes
     BY DEF Turned, Owes, Owing, Unlocked
  <2> QED BY <1>2, <2>1 DEF IInv, Running
<1>7. SettledIsClosed'
   BY <1>2 DEF IInv, SettledIsClosed
<1> QED BY <1>3, <1>4, <1>5, <1>6, <1>7 DEF IInv

\* What the invariant says of one call.
LEMMA CallFacts ==
  ASSUME IInv, NEW p \in Callers
  PROVE  /\ pc[p] \in Steps /\ job[p] \in Jobs \cup {NoJob} /\ seen[p] \in Reads
         /\ job = [job EXCEPT ![p] = job[p]] /\ seen = [seen EXCEPT ![p] = seen[p]]
         /\ WorkAt(pc[p], job[p]) /\ FactsAt(pc[p], job[p].token)
         /\ RowAt(pc[p], job[p].op, seen[p])
         /\ pc[p] # "idle" => job[p] \in Jobs
         /\ faults \in Nat /\ faults <= MaxFaults /\ crashes \in Nat /\ requests \in 0..MaxRequests
         /\ MaxFaults \in Nat /\ ensure \in {"idle", "probing", "resuming"}
         /\ lifecycle \in Contract!States /\ version \in Nat
         /\ admitted \subseteq Tokens /\ open \subseteq Tokens /\ settled \in [Tokens -> Nat]
<1>1. Typed
   BY TypeMeans DEF IInv
<1>2. job = [job EXCEPT ![p] = job[p]] /\ seen = [seen EXCEPT ![p] = seen[p]]
   BY <1>1 DEF Typed
<1>3. WorkAt(pc[p], job[p]) /\ FactsAt(pc[p], job[p].token) /\ RowAt(pc[p], job[p].op, seen[p])
   BY DEF IInv, Calling, Sound
<1>4. pc[p] # "idle" => job[p] \in Jobs
   BY <1>3 DEF WorkAt
<1> QED BY <1>1, <1>2, <1>3, <1>4 DEF Typed, GlueTyped, Lined

\* A call goes on to s with the row it read in hand, and nothing durable changes.
LEMMA Going ==
  ASSUME IInv, NEW p \in Callers, NEW s \in Steps, NEW d \in Reads,
         Goto(p, s), Line(p, s), seen' = [seen EXCEPT ![p] = d],
         UNCHANGED <<durable, job, resident, closed, marker, boot, requests, crashes>>,
         ensure' \in {"idle", "probing", "resuming"}, faults' \in faults..MaxFaults,
         WorkAt(s, job[p]), FactsAt(s, job[p].token), RowAt(s, job[p].op, d),
         pc[p] # "committed", Closing(s, job[p].op) <=> Closing(pc[p], job[p].op),
         lifecycle = "RUNNING" => s \in Owes \/ faults' # 0 \/ pc[p] \notin Owes
  PROVE  IInv'
<1>1. PICK j \in Jobs \cup {NoJob} : j = job[p]
   BY CallFacts
<1>2. UNCHANGED <<lifecycle, version, admitted, settled, open>>
   BY DEF durable
<1>3. Writes(p)
   BY <1>2, CallFacts DEF Writes, durable
<1>4. Calm(p, s, j, d)
   BY <1>1, <1>3, CallFacts DEF Calm, Goto
<1>5. WorkAt(s, j) /\ FactsAt(s, j.token)' /\ RowAt(s, j.op, d)'
   BY <1>1, <1>2, RowKept DEF FactsAt
<1>6. SettledIsClosed'
   BY <1>2 DEF IInv, SettledIsClosed
<1>7. /\ Closing(s, j.op) <=> Closing(pc[p], job[p].op)
      /\ lifecycle' = lifecycle
      /\ lifecycle' = "RUNNING" =>
           s \in Owes \/ faults' # 0 \/ (lifecycle = "RUNNING" /\ pc[p] \notin Owes)
   BY <1>1, <1>2
<1> QED BY <1>4, <1>5, <1>6, <1>7, CallStep

LEMMA AbsentFacts ==
  /\ NoJob \in Jobs \cup {NoJob} /\ NoRead \in Reads /\ NoJob.token = None /\ "idle" \in Steps
  /\ WorkAt("idle", NoJob) /\ ~Closing("idle", NoJob.op) /\ "idle" \notin InChain
  /\ \A t : FactsAt("idle", t) /\ FactsAt("idle", t)'
  /\ RowAt("idle", NoJob.op, NoRead) /\ RowAt("idle", NoJob.op, NoRead)'
<1>1. "idle" \notin Holding
   BY DEF Holding
<1> QED BY <1>1, RowFree DEF Reads, Steps, NoJob, WorkAt, Closing, Quiesce, Owing, Unlocked, Closers,
               InChain, Queued, FactsAt

\* A call returns from the chain, and nothing durable changes.
LEMMA Finishing ==
  ASSUME IInv, NEW p \in Callers, Holds(p), Finish(p), UNCHANGED <<durable, glue, requests, crashes>>,
         faults' \in faults..MaxFaults, pc[p] # "committed", ~Closing(pc[p], job[p].op),
         lifecycle = "RUNNING" => faults' # 0 \/ pc[p] \notin Owes
  PROVE  IInv'
<1>1. UNCHANGED <<lifecycle, version, admitted, settled, open, resident, closed, marker, ensure, boot>>
   BY DEF durable, glue
<1>2. Writes(p)
   BY <1>1, CallFacts DEF Writes, durable
<1>3. Line(p, "idle")
   BY AbsentFacts DEF Line, Finish
<1>4. Calm(p, "idle", NoJob, NoRead)
   BY <1>1, <1>2, <1>3, CallFacts, AbsentFacts DEF Calm, Finish, Goto
<1>5. SettledIsClosed'
   BY <1>1 DEF IInv, SettledIsClosed
<1>6. lifecycle' = "RUNNING" =>
        "idle" \in Owes \/ faults' # 0 \/ (lifecycle = "RUNNING" /\ pc[p] \notin Owes)
   BY <1>1
<1> QED BY <1>1, <1>4, <1>5, <1>6, AbsentFacts, CallStep

-------------------------------------------------------------------------------
(* The steps of a work unit *)

LEMMA RequestStep ==
  ASSUME IInv, NEW p \in Callers, Request(p)
  PROVE  IInv'
<1>1. PICK j \in Jobs : job' = [job EXCEPT ![p] = j]
   BY DEF Request
<1>2. /\ pc[p] = "idle" /\ requests < MaxRequests /\ requests' = requests + 1
      /\ chain' = Append(chain, p) /\ Goto(p, "queued")
      /\ UNCHANGED <<durable, seen, glue, crashes, faults>>
   BY DEF Request
<1>3. UNCHANGED <<lifecycle, version, admitted, settled, open, resident, closed, marker, ensure, boot>>
   BY <1>2 DEF durable, glue
<1>4. Writes(p)
   BY <1>3, CallFacts DEF Writes, durable
<1>5. Line(p, "queued")
   BY <1>2 DEF Line, InChain, Queued, Holding
<1>6. MaxRequests \in Nat /\ requests' \in 0..MaxRequests
   BY <1>2, CallFacts
<1>7. Calm(p, "queued", j, seen[p])
   BY <1>1, <1>2, <1>3, <1>4, <1>5, <1>6, CallFacts DEF Calm, Goto
<1>8. /\ "queued" \in Steps /\ WorkAt("queued", j) /\ ~Closing("queued", j.op)
      /\ ~Closing(pc[p], job[p].op) /\ pc[p] \notin Owes /\ FactsAt("queued", j.token)'
   BY <1>2 DEF Steps, Queued, WorkAt, FactsAt, Owing, Owes, Unlocked, Closers, Quiesce, Closing
<1>9. PICK d \in Reads : d = seen[p]
   BY CallFacts
<1>10. RowAt("queued", j.op, d)'
   BY RowFree DEF Holding
<1>11. SettledIsClosed'
   BY <1>3 DEF IInv, SettledIsClosed
<1> QED BY <1>2, <1>3, <1>7, <1>8, <1>9, <1>10, <1>11, CallStep

\* The sets of steps, spelled out.
LEMMA StepFacts ==
  /\ Owing = {"open", "calling", "settling", "settle", "settled", "ensure", "ensuring", "prepare",
              "turn", "unwinding", "over"}
  /\ Owes = {"fact", "open", "calling", "settling", "settle", "ensure", "ensuring", "prepare",
             "turn", "unwinding", "over"}
  /\ Closers = {"interrupt", "drain", "descendants", "presettle", "close"}
  /\ Planned = {"interrupt", "drain", "descendants", "presettle", "close", "commit"}
  /\ \A s, op : Closing(s, op) <=>
       \/ s \in {"interrupt", "drain", "descendants", "presettle", "committed"}
       \/ s = "commit" /\ op # "RESTORE"
  /\ InChain = {"queued", "calling", "settling"} \cup Holding
  /\ Steps = {"idle", "queued", "calling", "settling", "ensure", "ensuring", "prepare", "turn",
              "unwinding", "over"} \cup Holding
BY DEF Owing, Owes, Closers, Planned, Closing, InChain, Steps, Queued, Unlocked, Quiesce

LEMMA UnitReturns ==
  ASSUME IInv, NEW p \in Callers, RefuseWork(p) \/ SettleVoid(p) \/ UnitFault(p)
  PROVE  IInv'
<1>1. Holds(p) /\ Finish(p) /\ UNCHANGED <<durable, glue, requests, crashes>>
   BY DEF RefuseWork, SettleVoid, UnitFault, At, bounds
<1>2. /\ pc[p] \in {"queued", "settle", "admit", "fact", "settling", "settled"}
      /\ faults' \in faults..MaxFaults
      /\ lifecycle = "RUNNING" => faults' # 0 \/ pc[p] = "queued"
   BY CallFacts DEF RefuseWork, SettleVoid, UnitFault, At, bounds, Terminal
<1> QED BY <1>1, <1>2, Finishing, StepFacts

LEMMA StartSteps ==
  ASSUME IInv, NEW p \in Callers, ResumeWork(p) \/ StartWork(p) \/ OpenFault(p)
  PROVE  IInv'
<1>1. Read \in Reads /\ seen[p] \in Reads /\ job[p] \in Jobs \cup {NoJob}
   BY CallFacts DEF Read, Reads
<1>2. CASE ResumeWork(p)
  <2>1. /\ Holds(p) /\ pc[p] = "queued" /\ job[p].op = "WORK" /\ Goto(p, "open")
        /\ job[p].token \in admitted /\ settled[job[p].token] = 0
        /\ UNCHANGED <<durable, chain, job, seen, resident, closed, marker, boot, ensure,
                       requests, crashes, faults>>
     BY <1>2 DEF ResumeWork, At, glue, bounds
  <2>2. /\ WorkAt("open", job[p]) /\ FactsAt("open", job[p].token)
        /\ RowAt("open", job[p].op, seen[p]) /\ job[p] \in Jobs
     BY <2>1, CallFacts, StepFacts DEF WorkAt, FactsAt, RowAt
  <2>3. "open" \in Steps /\ Line(p, "open")
     BY <2>1, StepFacts DEF Line, Holding
  <2> QED BY <1>1, <2>1, <2>2, <2>3, CallFacts, StepFacts, Going
<1>3. CASE StartWork(p)
  <2>0. PICK s : s = IF lifecycle = "RUNNING" THEN "fact" ELSE "admit"
     OBVIOUS
  <2>1. /\ Holds(p) /\ pc[p] = "queued" /\ job[p].op = "WORK" /\ ~Terminal
        /\ seen' = [seen EXCEPT ![p] = Read] /\ Goto(p, s)
        /\ job[p].token \notin admitted /\ settled[job[p].token] = 0
        /\ UNCHANGED <<durable, chain, job, resident, closed, marker, boot, ensure,
                       requests, crashes, faults>>
     BY <1>3, <2>0 DEF StartWork, At, glue, bounds
  <2>2. /\ WorkAt(s, job[p]) /\ FactsAt(s, job[p].token) /\ RowAt(s, job[p].op, Read)
     BY <2>0, <2>1, CallFacts, StepFacts, RulesFacts DEF WorkAt, FactsAt, RowAt, Terminal, Contract!States
  <2>3. /\ s \in Steps /\ Line(p, s) /\ faults' \in faults..MaxFaults
        /\ ~Closing(s, job[p].op) /\ ~Closing(pc[p], job[p].op) /\ pc[p] \notin Owes
     BY <2>0, <2>1, CallFacts, StepFacts DEF Line, Holding
  <2> QED BY <1>1, <2>1, <2>2, <2>3, CallFacts, StepFacts, Going
<1>4. CASE OpenFault(p)
  <2>1. /\ Holds(p) /\ pc[p] = "open" /\ Goto(p, "settle") /\ job[p].token \notin open
        /\ faults < MaxFaults /\ faults' = faults + 1
        /\ UNCHANGED <<durable, chain, job, seen, resident, closed, marker, boot, ensure,
                       requests, crashes>>
     BY <1>4 DEF OpenFault, At, glue
  <2>2. /\ WorkAt("settle", job[p]) /\ FactsAt("settle", job[p].token)
        /\ RowAt("settle", job[p].op, seen[p])
     BY <2>1, CallFacts, StepFacts DEF WorkAt, FactsAt, RowAt
  <2>3. "settle" \in Steps /\ Line(p, "settle") /\ faults' \in faults..MaxFaults
     BY <2>1, CallFacts, StepFacts DEF Line, Holding
  <2> QED BY <1>1, <2>1, <2>2, <2>3, CallFacts, StepFacts, Going
<1> QED BY <1>2, <1>3, <1>4

\* The delivery, outside the chain, and the queueing of its settlement.
LEMMA DeliverySteps ==
  ASSUME IInv, NEW p \in Callers,
         \/ EnsureRefused(p) \/ EnsureResident(p) \/ EnsureFlight(p) \/ Prepare(p)
         \/ TurnCalls(p) \/ TeamCallRuns(p) \/ TurnEnds(p) \/ QueueSettlement(p)
  PROVE  IInv'
<1>1. PICK s \in {"ensuring", "prepare", "turn", "calling", "unwinding", "over", "settling"} :
        /\ pc[p] \in {"ensure", "prepare", "turn", "calling", "unwinding", "over"}
        /\ Goto(p, s)
        /\ \/ chain' = chain /\ pc[p] # "calling" /\ s \notin {"calling", "settling"}
           \/ chain' = Append(chain, p) /\ pc[p] # "calling" /\ s \in {"calling", "settling"}
           \/ chain' = Tail(chain) /\ Holds(p) /\ s = "unwinding"
        /\ ensure' \in {"idle", "probing", "resuming"}
        /\ UNCHANGED <<durable, job, seen, resident, closed, marker, boot, requests, crashes, faults>>
  <2>1. CASE EnsureRefused(p) \/ EnsureResident(p)
     BY <2>1, CallFacts DEF EnsureRefused, EnsureResident, glue, bounds
  <2>2. CASE EnsureFlight(p)
     BY <2>2, CallFacts DEF EnsureFlight, glue, bounds
  <2>3. CASE Prepare(p) \/ TurnCalls(p) \/ TurnEnds(p) \/ QueueSettlement(p)
     BY <2>3, CallFacts DEF Prepare, TurnCalls, TurnEnds, QueueSettlement, glue, bounds
  <2>4. CASE TeamCallRuns(p)
     BY <2>4, CallFacts DEF TeamCallRuns, At, glue, bounds
  <2> QED BY <2>1, <2>2, <2>3, <2>4
<1>2. s \in Owing /\ s \in Owes /\ s \in Steps /\ pc[p] \in Owing /\ pc[p] # "committed"
   BY <1>1, StepFacts
<1>3. Line(p, s)
   BY <1>1, StepFacts DEF Line, Queued, Holding
<1>4. /\ WorkAt(s, job[p]) /\ FactsAt(s, job[p].token) /\ RowAt(s, job[p].op, seen[p])
   BY <1>1, <1>2, CallFacts, StepFacts DEF WorkAt, FactsAt, RowAt
<1>5. seen' = [seen EXCEPT ![p] = seen[p]] /\ faults' \in faults..MaxFaults /\ seen[p] \in Reads
   BY <1>1, CallFacts
<1>6. ~Closing(s, job[p].op) /\ ~Closing(pc[p], job[p].op)
   BY <1>1, StepFacts
<1> QED BY <1>1, <1>2, <1>3, <1>4, <1>5, <1>6, Going

\* A call that holds the chain goes on to s, having written a part of the durable state.
LEMMA Writing ==
  ASSUME IInv, NEW p \in Callers, NEW s \in Steps, Holds(p), Goto(p, s), Line(p, s),
         UNCHANGED <<job, seen, glue, bounds>>, Writes(p),
         \A d : RowAt(s, job[p].op, d)', WorkAt(s, job[p]), FactsAt(s, job[p].token)',
         SettledIsClosed', ~Closing(s, job[p].op), ~Closing(pc[p], job[p].op),
         lifecycle' = lifecycle \/ ~Terminal',
         lifecycle' = "RUNNING" => s \in Owes \/ (lifecycle = "RUNNING" /\ pc[p] \notin Owes)
  PROVE  IInv'
<1>1. PICK j \in Jobs \cup {NoJob}, d \in Reads : j = job[p] /\ d = seen[p]
   BY CallFacts
<1>2. Calm(p, s, j, d)
   BY <1>1, CallFacts DEF Calm, Goto, glue, bounds
<1>3. job'[p] = job[p]
   OBVIOUS
<1>4. WorkAt(s, j) /\ FactsAt(s, j.token)' /\ RowAt(s, j.op, d)'
   BY <1>1, <1>3 DEF FactsAt, RowAt, Read, Terminal, Legal
<1>5. /\ pc[p] # "committed" /\ (Closing(s, j.op) <=> Closing(pc[p], job[p].op))
   BY <1>1, StepFacts
<1> QED BY <1>1, <1>2, <1>4, <1>5, CallStep

LEMMA AdmissionSteps ==
  ASSUME IInv, NEW p \in Callers, CommitAdmit(p) \/ AdmitFact(p)
  PROVE  IInv'
<1>1. PICK t : t = job[p].token
   OBVIOUS
<1>2. Holds(p) /\ UNCHANGED <<job, seen, chain, settled, open, glue, bounds>>
   BY DEF CommitAdmit, AdmitFact, At
<1>3. SettledIsClosed'
   BY <1>2 DEF IInv, SettledIsClosed
<1>4. CASE CommitAdmit(p)
  <2>1. /\ pc[p] = "admit" /\ Goto(p, "fact") /\ admitted' = admitted
        /\ lifecycle' = "RUNNING" /\ version' = version + 1
     BY <1>4, RulesFacts DEF CommitAdmit, At, Commit
  <2>2. Writes(p)
     BY <1>2, <2>1, CallFacts DEF Writes, Contract!States
  <2>3. /\ "fact" \in Steps /\ Line(p, "fact") /\ "fact" \in Owes /\ pc[p] # "committed"
        /\ ~Closing("fact", job[p].op) /\ ~Closing(pc[p], job[p].op)
     BY <1>2, <2>1, StepFacts DEF Line, Holding
  <2>4. /\ WorkAt("fact", job[p]) /\ t \notin admitted /\ settled[t] = 0
     BY <1>1, <2>1, CallFacts, StepFacts DEF WorkAt, FactsAt
  <2>5. FactsAt("fact", job[p].token)' /\ (\A d : RowAt("fact", job[p].op, d)') /\ ~Terminal'
     BY <1>1, <1>2, <2>1, <2>4, StepFacts DEF FactsAt, RowAt, Terminal
  <2> QED BY <1>2, <1>3, <2>1, <2>2, <2>3, <2>4, <2>5, Writing
<1>5. CASE AdmitFact(p)
  <2>1. /\ pc[p] = "fact" /\ Goto(p, "open") /\ admitted' = admitted \cup {t}
        /\ lifecycle' = lifecycle /\ version' = version
     BY <1>1, <1>5 DEF AdmitFact, At
  <2>2. job[p].op = "WORK" /\ job[p] \in Jobs /\ settled[t] = 0 /\ t \in Tokens
     BY <1>1, <2>1, CallFacts, JobFacts, StepFacts DEF WorkAt, FactsAt
  <2>3. Writes(p)
     BY <1>1, <1>2, <2>1, <2>2, CallFacts DEF Writes
  <2>4. /\ "open" \in Steps /\ Line(p, "open") /\ "open" \in Owes /\ pc[p] # "committed"
        /\ ~Closing("open", job[p].op) /\ ~Closing(pc[p], job[p].op)
     BY <1>2, <2>1, StepFacts DEF Line, Holding
  <2>5. /\ WorkAt("open", job[p]) /\ FactsAt("open", job[p].token)'
        /\ \A d : RowAt("open", job[p].op, d)'
     BY <1>1, <1>2, <2>1, <2>2, CallFacts, StepFacts DEF WorkAt, FactsAt, RowAt
  <2> QED BY <1>2, <1>3, <2>1, <2>3, <2>4, <2>5, Writing
<1> QED BY <1>4, <1>5

LEMMA IntervalSteps ==
  ASSUME IInv, NEW p \in Callers, OpenInterval(p) \/ CloseInterval(p)
  PROVE  IInv'
<1>1. PICK t : t = job[p].token
   OBVIOUS
<1>2. Holds(p) /\ UNCHANGED <<lifecycle, version, admitted, settled, job, seen, glue, bounds>>
   BY DEF OpenInterval, CloseInterval, At
<1>3. pc[p] \in {"open", "settling"}
   BY DEF OpenInterval, CloseInterval, At
<1>4. /\ job[p].op = "WORK" /\ job[p] \in Jobs /\ t \in admitted /\ t \in Tokens
      /\ pc[p] = "open" => settled[t] = 0
   BY <1>1, <1>3, CallFacts, JobFacts, StepFacts DEF WorkAt, FactsAt
<1>5. CASE OpenInterval(p)
  <2>1. pc[p] = "open" /\ Goto(p, "ensure") /\ open' = open \cup {t} /\ chain' = Tail(chain)
     BY <1>1, <1>5 DEF OpenInterval, At
  <2>2. Writes(p) /\ SettledIsClosed'
     BY <1>1, <1>2, <1>4, <2>1, CallFacts DEF Writes, IInv, SettledIsClosed
  <2>3. /\ "ensure" \in Steps /\ Line(p, "ensure") /\ "ensure" \in Owes
        /\ ~Closing("ensure", job[p].op) /\ ~Closing(pc[p], job[p].op)
     BY <1>2, <2>1, StepFacts DEF Line, Holding
  <2>4. /\ WorkAt("ensure", job[p]) /\ FactsAt("ensure", job[p].token)'
        /\ \A d : RowAt("ensure", job[p].op, d)'
     BY <1>1, <1>2, <1>4, <2>1, StepFacts DEF WorkAt, FactsAt, RowAt
  <2> QED BY <1>2, <2>1, <2>2, <2>3, <2>4, Writing
<1>6. CASE CloseInterval(p)
  <2>1. pc[p] = "settling" /\ Goto(p, "settle") /\ open' = open \ {t} /\ chain' = chain
     BY <1>1, <1>6 DEF CloseInterval, At
  <2>2. Writes(p) /\ SettledIsClosed'
     BY <1>1, <1>2, <1>4, <2>1, CallFacts DEF Writes, IInv, SettledIsClosed
  <2>3. /\ "settle" \in Steps /\ Line(p, "settle") /\ "settle" \in Owes
        /\ ~Closing("settle", job[p].op) /\ ~Closing(pc[p], job[p].op)
     BY <1>2, <2>1, StepFacts DEF Line, Holding
  <2>4. /\ WorkAt("settle", job[p]) /\ FactsAt("settle", job[p].token)'
        /\ \A d : RowAt("settle", job[p].op, d)'
     BY <1>1, <1>2, <1>4, <2>1, StepFacts DEF WorkAt, FactsAt, RowAt
  <2> QED BY <1>2, <2>1, <2>2, <2>3, <2>4, Writing
<1> QED BY <1>5, <1>6

LEMMA SettlementSteps ==
  ASSUME IInv, NEW p \in Callers, SettleState(p) \/ SettleRepair(p) \/ SettleFact(p)
  PROVE  IInv'
<1>1. PICK t : t = job[p].token
   OBVIOUS
<1>2. Holds(p) /\ UNCHANGED <<admitted, open, glue, bounds>> /\ pc[p] \in {"settle", "settled"}
   BY DEF SettleState, SettleRepair, SettleFact, At, durable
<1>3. /\ job[p].op = "WORK" /\ job[p] \in Jobs /\ t \in Tokens \ open /\ t \in admitted
      /\ pc[p] = "settled" => lifecycle = "SETTLED"
   BY <1>1, <1>2, CallFacts, JobFacts, StepFacts DEF WorkAt, FactsAt, RowAt
<1>4. CASE SettleState(p) \/ SettleRepair(p)
  <2>1. /\ pc[p] = "settle" /\ Goto(p, "settled") /\ UNCHANGED <<settled, job, seen, chain>>
        /\ lifecycle' = "SETTLED" /\ version' \in Nat
     BY <1>4, CallFacts, RulesFacts DEF SettleState, SettleRepair, At, durable
  <2>2. Writes(p) /\ SettledIsClosed'
     BY <1>1, <1>2, <1>3, <2>1, CallFacts DEF Writes, IInv, SettledIsClosed, Contract!States
  <2>3. /\ "settled" \in Steps /\ Line(p, "settled") /\ ~Terminal' /\ lifecycle' # "RUNNING"
        /\ ~Closing("settled", job[p].op) /\ ~Closing(pc[p], job[p].op)
     BY <1>2, <2>1, StepFacts DEF Line, Holding, Terminal
  <2>4. /\ WorkAt("settled", job[p]) /\ FactsAt("settled", job[p].token)'
        /\ \A d : RowAt("settled", job[p].op, d)'
     BY <1>1, <1>2, <1>3, <2>1, StepFacts DEF WorkAt, FactsAt, RowAt
  <2> QED BY <1>2, <2>1, <2>2, <2>3, <2>4, Writing
<1>5. CASE SettleFact(p)
  <2>1. /\ pc[p] = "settled" /\ Finish(p) /\ settled' = [settled EXCEPT ![t] = settled[t] + 1]
        /\ lifecycle' = lifecycle /\ version' = version
     BY <1>1, <1>5 DEF SettleFact, At
  <2>2. settled' \in [Tokens -> Nat] /\ \A u \in Tokens \ {t} : settled'[u] = settled[u]
     BY <1>3, <2>1, CallFacts
  <2>3. Writes(p) /\ SettledIsClosed'
     BY <1>1, <1>2, <1>3, <2>1, <2>2, CallFacts DEF Writes, IInv, SettledIsClosed
  <2>4. Line(p, "idle") /\ lifecycle' # "RUNNING" /\ ~Closing(pc[p], job[p].op)
     BY <1>2, <1>3, <2>1, AbsentFacts, StepFacts DEF Line, Finish
  <2>5. Calm(p, "idle", NoJob, NoRead)
     BY <1>2, <2>1, <2>3, <2>4, CallFacts, AbsentFacts DEF Calm, Finish, Goto, glue, bounds
  <2> QED BY <2>1, <2>3, <2>4, <2>5, AbsentFacts, CallStep
<1> QED BY <1>4, <1>5

-------------------------------------------------------------------------------
(* The steps of a procedure *)

LEMMA TerminalTyped == Terminal \in BOOLEAN
BY DEF Terminal

\* Nobody but the holder of the chain is at a step inside of it.
LEMMA HolderOnly ==
  ASSUME IInv, NEW p \in Callers, Holds(p)
  PROVE  \A q \in Callers \ {p} : pc[q] \notin Holding /\ ~Closing(pc[q], job[q].op)
BY TypeMeans, StepFacts DEF IInv, Typed, Lined, Holds, Holding

LEMMA PlanSteps ==
  ASSUME IInv, NEW p \in Callers, RefusePlan(p) \/ Plan(p) \/ AgentIdle(p)
  PROVE  IInv'
<1>1. CASE RefusePlan(p)
  <2>1. /\ Holds(p) /\ Finish(p) /\ UNCHANGED <<durable, glue, requests, crashes>>
        /\ pc[p] = "queued" /\ faults' \in faults..MaxFaults
     BY <1>1, CallFacts DEF RefusePlan, At, bounds
  <2> QED BY <2>1, Finishing, StepFacts
<1>2. CASE Plan(p)
  <2>0. PICK s : s = IF job[p].op = "RESTORE" THEN "commit" ELSE "close"
     OBVIOUS
  <2>1. /\ Holds(p) /\ pc[p] = "queued" /\ job[p].op # "WORK" /\ Legal(job[p].op)
        /\ seen' = [seen EXCEPT ![p] = Read] /\ Goto(p, s) /\ chain' = chain
        /\ UNCHANGED <<durable, job, resident, closed, marker, boot, requests, crashes>>
        /\ faults' \in faults..MaxFaults /\ ensure' \in {"idle", "probing", "resuming"}
     BY <1>2, <2>0, CallFacts DEF Plan, At, glue, bounds
  <2>2. job[p] \in Jobs /\ job[p].op \in {"ARCHIVE", "RESTORE", "DISPOSE"}
     BY <2>1, CallFacts, JobFacts
  <2>3. WorkAt(s, job[p]) /\ FactsAt(s, job[p].token)
     BY <2>0, <2>2, StepFacts DEF WorkAt, FactsAt
  <2>4. RowAt(s, job[p].op, Read)
     BY <2>0, <2>1, <2>2, StepFacts DEF RowAt, Legal
  <2>5. /\ s \in Steps /\ Line(p, s) /\ Read \in Reads
        /\ ~Closing(s, job[p].op) /\ ~Closing(pc[p], job[p].op) /\ pc[p] \notin Owes
     BY <2>0, <2>1, CallFacts, StepFacts DEF Line, Holding, Read, Reads
  <2> QED BY <2>1, <2>3, <2>4, <2>5, Going
<1>3. CASE AgentIdle(p)
  <2>1. /\ Holds(p) /\ pc[p] = "drain" /\ Goto(p, "descendants")
        /\ chain' = chain /\ seen' = [seen EXCEPT ![p] = seen[p]]
        /\ UNCHANGED <<durable, job, resident, closed, marker, boot, requests, crashes>>
        /\ faults' \in faults..MaxFaults /\ ensure' \in {"idle", "probing", "resuming"}
     BY <1>3, CallFacts DEF AgentIdle, At, glue, bounds
  <2>2. /\ WorkAt("descendants", job[p]) /\ FactsAt("descendants", job[p].token)
        /\ RowAt("descendants", job[p].op, seen[p])
     BY <2>1, CallFacts, StepFacts DEF WorkAt, FactsAt, RowAt
  <2>3. "descendants" \in Steps /\ Line(p, "descendants") /\ seen[p] \in Reads
     BY <2>1, CallFacts, StepFacts DEF Line, Holding
  <2>4. Closing("descendants", job[p].op) /\ Closing(pc[p], job[p].op) /\ pc[p] \notin Owes
     BY <2>1, StepFacts
  <2> QED BY <2>1, <2>2, <2>3, <2>4, Going
<1> QED BY <1>1, <1>2, <1>3

\* A procedure goes on to s, and nothing durable changes.
LEMMA ProcedureStep ==
  ASSUME IInv, NEW p \in Callers, Holds(p), pc[p] \notin Owes,
         NEW s \in Steps, NEW j \in Jobs \cup {NoJob}, NEW d \in Reads,
         pc'[p] = s, \A q \in Callers \ {p} : Turned(pc[q], pc'[q]),
         job' = [job EXCEPT ![p] = j], seen' = [seen EXCEPT ![p] = d], j \in {job[p], NoJob},
         Lined(chain', pc'), GlueTyped', UNCHANGED <<durable, crashes>>, faults' \in faults..MaxFaults,
         WorkAt(s, j), FactsAt(s, j.token), RowAt(s, j.op, d),
         closed' <=> Closing(s, j.op), Handles'
  PROVE  IInv'
<1>1. UNCHANGED <<lifecycle, version, admitted, settled, open>>
   BY DEF durable
<1>2. Typed
   BY TypeMeans DEF IInv
<1>3. Step(p, s, j, d)
   BY <1>1, <1>2 DEF Typed, Step, Writes, durable
<1>4. FactsAt(s, j.token)' /\ RowAt(s, j.op, d)'
   BY <1>1, RowKept DEF FactsAt
<1>5. TypeOK' /\ Calling'
   BY <1>3, <1>4, StepKeeps
<1>6. job'[p] = j /\ \A q \in Callers \ {p} : job'[q] = job[q]
   BY <1>2 DEF Typed
<1>7. Closed'
  <2>1. \A q \in Callers \ {p} : ~Closing(pc'[q], job'[q].op)
     BY <1>6, HolderOnly, StepFacts DEF Turned, Unlocked
  <2> QED BY <1>6, <2>1 DEF Closed, Closing
<1>8. Running'
  <2>1. \A q \in Callers : pc[q] \in Owes => pc'[q] \in Owes
     BY StepFacts DEF Turned, Unlocked
  <2>2. faults \in Nat /\ MaxFaults \in Nat /\ (faults' = 0 => faults = 0)
     BY CallFacts
  <2> QED BY <1>1, <2>1, <2>2 DEF IInv, Running
<1>9. SettledIsClosed'
   BY <1>1 DEF IInv, SettledIsClosed
<1> QED BY <1>5, <1>7, <1>8, <1>9 DEF IInv

\* The cancelled turns leave the chain, and the procedure goes on as its holder.
LEMMA Dropping ==
  ASSUME IInv, NEW p \in Callers, Holds(p), pc[p] \in Holding, NEW r \in Remaining
  PROVE  /\ Lined(r, Cancelled) /\ Cancelled[p] = pc[p] /\ r # << >> /\ r[1] = p
         /\ Cancelled \in [Callers -> Steps]
         /\ \A q \in Callers : Turned(pc[q], Cancelled[q])
<1>1. Lined(chain, pc)
   BY TypeMeans DEF IInv, Typed
<1>2. Lined(r, Cancelled)
   BY <1>1, LineDrops
<1>3. /\ \A q \in Callers : Cancelled[q] = IF pc[q] \in {"turn", "calling"} THEN "unwinding" ELSE pc[q]
      /\ pc[p] \notin {"turn", "calling"}
   BY DEF Cancelled, Holding
<1> QED BY <1>2, <1>3 DEF Lined, Turned, Unlocked

LEMMA CloseSteps ==
  ASSUME IInv, NEW p \in Callers, CloseAdmission(p) \/ Interrupt(p)
  PROVE  IInv'
<1>1. PICK s \in {"interrupt", "drain"} :
        /\ Holds(p) /\ pc[p] \in {"close", "interrupt"} /\ pc[p] # s
        /\ \/ pc' = [pc EXCEPT ![p] = s] /\ chain' = chain
           \/ pc' = [Cancelled EXCEPT ![p] = s] /\ chain' \in Remaining
        /\ UNCHANGED <<durable, job, seen, resident, marker, ensure, boot, bounds>>
        /\ closed' = TRUE
  <2>1. CASE CloseAdmission(p)
     BY <2>1 DEF CloseAdmission, At, Goto
  <2>2. CASE Interrupt(p)
    <3>1. closed
       BY <2>2, StepFacts DEF Interrupt, At, IInv, Closed
    <3> QED BY <2>2, <3>1, TypeMeans DEF Interrupt, At, Goto, glue, IInv, Typed, GlueTyped
  <2> QED BY <2>1, <2>2
<1>2. pc[p] \in Holding /\ s \in Holding /\ s \in Steps /\ s \in InChain /\ pc[p] \in InChain
   BY <1>1, StepFacts DEF Holding
<1>3. /\ Lined(chain', pc') /\ pc'[p] = s
      /\ \A q \in Callers \ {p} : Turned(pc[q], pc'[q])
  <2>1. Lined(chain, pc) /\ chain # << >> /\ chain[1] = p /\ pc \in [Callers -> Steps]
     BY <1>1, TypeMeans DEF IInv, Typed, Lined, Holds
  <2>2. CASE pc' = [pc EXCEPT ![p] = s] /\ chain' = chain
     BY <1>2, <2>1, <2>2, LineStays DEF Turned
  <2>3. CASE pc' = [Cancelled EXCEPT ![p] = s] /\ chain' \in Remaining
    <3>1. PICK r \in Remaining : r = chain'
       BY <2>3
    <3>2. Lined(r, [Cancelled EXCEPT ![p] = s])
       BY <1>1, <1>2, Dropping, LineStays
    <3> QED BY <1>1, <1>2, <2>3, <3>1, <3>2, Dropping
  <2> QED BY <1>1, <2>2, <2>3
<1>4. UNCHANGED <<crashes, requests, faults>>
   BY <1>1 DEF bounds
<1>5. GlueTyped' /\ faults' \in faults..MaxFaults
   BY <1>1, <1>4, TypeMeans, CallFacts DEF IInv, Typed, GlueTyped
<1>6. WorkAt(s, job[p]) /\ FactsAt(s, job[p].token) /\ RowAt(s, job[p].op, seen[p])
   BY <1>1, CallFacts, StepFacts DEF WorkAt, FactsAt, RowAt
<1>7. Handles'
  <2>1. ~(Terminal /\ resident)
     BY <1>1, HolderOnly DEF IInv, Handles, Holding
  <2>2. Terminal' = Terminal
     BY <1>1 DEF Terminal, durable
  <2> QED BY <1>1, <2>1, <2>2 DEF Handles
<1>8. /\ job' = [job EXCEPT ![p] = job[p]] /\ seen' = [seen EXCEPT ![p] = seen[p]]
      /\ job[p] \in Jobs \cup {NoJob} /\ seen[p] \in Reads /\ pc[p] \notin Owes
      /\ Closing(s, job[p].op)
   BY <1>1, CallFacts, StepFacts
<1>9. PICK j \in Jobs \cup {NoJob}, d \in Reads : j = job[p] /\ d = seen[p]
   BY <1>8
<1> QED BY <1>1, <1>2, <1>3, <1>4, <1>5, <1>6, <1>7, <1>8, <1>9, ProcedureStep

\* Every way out without a commit: the admission is open again, the chain is free.
LEMMA AbortSteps ==
  ASSUME IInv, NEW p \in Callers,
         DrainRefused(p) \/ NotQuiescent(p) \/ (CommitFault(p) /\ job[p].op # "RESTORE")
  PROVE  IInv'
<1>1. /\ Holds(p) /\ pc[p] \in {"drain", "descendants", "presettle", "commit"} /\ Abort(p)
      /\ UNCHANGED <<requests, crashes>> /\ faults' \in faults..MaxFaults
   BY CallFacts DEF DrainRefused, NotQuiescent, CommitFault, At, bounds
<1>2. /\ pc' = [pc EXCEPT ![p] = "idle"] /\ chain' = Tail(chain)
      /\ job' = [job EXCEPT ![p] = NoJob] /\ seen' = [seen EXCEPT ![p] = NoRead]
      /\ closed' = FALSE /\ marker' = Terminal /\ UNCHANGED <<durable, resident, ensure, boot>>
   BY <1>1 DEF Abort, Reopen, Finish, Goto
<1>3. pc \in [Callers -> Steps]
   BY TypeMeans DEF IInv, Typed, Lined
<1>4. Lined(chain', pc')
   BY <1>1, <1>2, Lines, AbsentFacts DEF IInv, Line
<1>5. GlueTyped'
  <2>1. GlueTyped /\ MaxFaults \in Nat /\ faults \in Nat
     BY TypeMeans, CallFacts DEF IInv, Typed
  <2>2. resident' \in BOOLEAN /\ closed' \in BOOLEAN /\ marker' \in BOOLEAN
     BY <1>2, <2>1, TerminalTyped DEF GlueTyped
  <2>3. faults' \in 0..MaxFaults
     BY <1>1, <2>1
  <2> QED BY <1>1, <1>2, <2>1, <2>2, <2>3 DEF GlueTyped
<1>6. Handles'
  <2>1. ~(Terminal /\ resident)
     BY <1>1, HolderOnly DEF IInv, Handles, Holding
  <2>2. Terminal' = Terminal
     BY <1>2 DEF Terminal, durable
  <2> QED BY <1>2, <2>1, <2>2 DEF Handles
<1>7. pc[p] \notin Owes
   BY <1>1, StepFacts
<1>8. pc'[p] = "idle" /\ \A q \in Callers \ {p} : Turned(pc[q], pc'[q])
   BY <1>2, <1>3 DEF Turned
<1> QED BY <1>1, <1>2, <1>4, <1>5, <1>6, <1>7, <1>8, AbsentFacts, ProcedureStep

LEMMA ReleaseStep ==
  ASSUME IInv, NEW p \in Callers, ReleaseResidency(p)
  PROVE  IInv'
<1>1. PICK s : s = IF job[p].op = "ARCHIVE" /\ seen[p].lifecycle = "RUNNING"
                   THEN "presettle" ELSE "commit"
   OBVIOUS
<1>2. PICK r \in Remaining : r = chain'
   BY DEF ReleaseResidency
<1>3. /\ Holds(p) /\ pc[p] = "descendants" /\ resident' = FALSE
      /\ pc' = [Cancelled EXCEPT ![p] = s]
      /\ UNCHANGED <<durable, job, seen, closed, marker, ensure, boot, requests, crashes, faults>>
   BY <1>1 DEF ReleaseResidency, At, bounds
<1>4. pc[p] \in Holding /\ s \in Holding /\ s \in Steps /\ s \in InChain /\ pc[p] \in InChain
   BY <1>1, <1>3, StepFacts DEF Holding
<1>5. Lined(chain', pc') /\ pc'[p] = s /\ \A q \in Callers \ {p} : Turned(pc[q], pc'[q])
  <2>1. Lined(r, [Cancelled EXCEPT ![p] = s])
     BY <1>3, <1>4, Dropping, LineStays
  <2> QED BY <1>2, <1>3, <1>4, <2>1, Dropping
<1>6. GlueTyped' /\ faults' \in faults..MaxFaults
  <2>1. GlueTyped
     BY TypeMeans DEF IInv, Typed
  <2>2. resident' \in BOOLEAN
     BY <1>3
  <2>3. GlueTyped'
     BY <1>3, <2>1, <2>2 DEF GlueTyped
  <2> QED BY <1>3, <2>3, CallFacts
<1>7. /\ job[p].op \in {"ARCHIVE", "DISPOSE"} /\ job[p] \in Jobs /\ seen[p] = Read /\ Legal(job[p].op)
   BY <1>3, CallFacts, StepFacts DEF WorkAt, RowAt
<1>8. WorkAt(s, job[p]) /\ FactsAt(s, job[p].token)
   BY <1>1, <1>7, StepFacts DEF WorkAt, FactsAt
<1>9. RowAt(s, job[p].op, seen[p])
   BY <1>1, <1>7, StepFacts, RulesFacts DEF RowAt, Legal, Read
<1>10. Handles'
  <2>1. Terminal' = Terminal /\ ~resident' /\ closed
     BY <1>3, StepFacts DEF Terminal, durable, IInv, Closed
  <2> QED BY <1>3, <2>1 DEF Handles
<1>11. /\ job' = [job EXCEPT ![p] = job[p]] /\ seen' = [seen EXCEPT ![p] = seen[p]]
       /\ pc[p] \notin Owes
   BY <1>3, CallFacts, StepFacts
<1>12. closed' /\ Closing(s, job[p].op)
   BY <1>1, <1>3, <1>7, StepFacts DEF IInv, Closed
<1>13. PICK j \in Jobs \cup {NoJob}, d \in Reads : j = job[p] /\ d = seen[p]
   BY CallFacts
<1> QED BY <1>3, <1>4, <1>5, <1>6, <1>8, <1>9, <1>10, <1>11, <1>12, <1>13, ProcedureStep

\* The commits of a procedure: the row is the one the procedure read.
LEMMA CommitSteps ==
  ASSUME IInv, NEW p \in Callers,
         CommitSettleFirst(p) \/ CommitTransition(p) \/ (CommitFault(p) /\ job[p].op = "RESTORE")
  PROVE  IInv'
<1>1. /\ Holds(p) /\ pc[p] \in {"presettle", "commit"} /\ pc[p] \notin Owes /\ pc[p] # "committed"
      /\ job[p].op \in {"ARCHIVE", "DISPOSE", "RESTORE"} /\ job[p] \in Jobs
      /\ pc[p] = "presettle" => job[p].op = "ARCHIVE"
      /\ pc[p] = "commit" => lifecycle \in Rules[job[p].op].sources
   BY CallFacts, StepFacts DEF CommitSettleFirst, CommitTransition, CommitFault, At, WorkAt, RowAt
<1>2. CASE CommitFault(p) /\ job[p].op = "RESTORE"
  <2>1. /\ pc[p] = "commit" /\ Finish(p) /\ UNCHANGED <<durable, glue, requests, crashes>>
        /\ faults' \in faults..MaxFaults
     BY <1>1, <1>2, CallFacts DEF CommitFault, At
  <2> QED BY <1>1, <1>2, <2>1, StepFacts, Finishing
<1>3. CASE CommitSettleFirst(p) \/ CommitTransition(p)
  <2>1. UNCHANGED <<admitted, settled, open, glue, bounds>>
     BY <1>3 DEF CommitSettleFirst, CommitTransition
  <2>2. SettledIsClosed'
     BY <2>1 DEF IInv, SettledIsClosed
  <2>3. CASE CommitSettleFirst(p)
    <3>1. PICK d : d = [lifecycle |-> lifecycle', version |-> version']
       OBVIOUS
    <3>2. /\ pc[p] = "presettle" /\ Goto(p, "commit") /\ UNCHANGED <<chain, job>>
          /\ lifecycle' = "SETTLED" /\ version' = version + 1
          /\ seen' = [seen EXCEPT ![p] = d]
       BY <2>3, <3>1, RulesFacts DEF CommitSettleFirst, At, Commit
    <3>3. d \in Reads /\ Writes(p) /\ Line(p, "commit") /\ "commit" \in Steps
       BY <1>1, <2>1, <3>1, <3>2, CallFacts, StepFacts
          DEF Reads, Writes, Line, Contract!States, Holding
    <3>4. PICK j \in Jobs \cup {NoJob} : j = job[p]
       BY CallFacts
    <3>5. Calm(p, "commit", j, d)
       BY <2>1, <3>2, <3>3, <3>4, CallFacts DEF Calm, Goto, glue, bounds
    <3>6. WorkAt("commit", j) /\ FactsAt("commit", j.token)'
       BY <1>1, <3>2, <3>4, StepFacts DEF WorkAt, FactsAt
    <3>7. RowAt("commit", j.op, d)'
       BY <1>1, <3>1, <3>2, <3>4, StepFacts, RulesFacts DEF RowAt, Read, Rules, Contract!Rules, Contract!States
    <3>8. /\ Closing("commit", j.op) <=> Closing(pc[p], job[p].op)
          /\ ~Terminal' /\ lifecycle' # "RUNNING"
       BY <1>1, <3>2, <3>4, StepFacts DEF Terminal
    <3> QED BY <1>1, <2>2, <3>3, <3>5, <3>6, <3>7, <3>8, CallStep
  <2>4. CASE CommitTransition(p) /\ job[p].op = "RESTORE"
    <3>1. /\ pc[p] = "commit" /\ Finish(p) /\ lifecycle' = "SETTLED" /\ version' = version + 1
       BY <2>4, RulesFacts DEF CommitTransition, At, Commit
    <3>2. Writes(p) /\ Line(p, "idle")
       BY <1>1, <2>1, <3>1, CallFacts, AbsentFacts DEF Writes, Line, Finish, Contract!States
    <3>3. Calm(p, "idle", NoJob, NoRead)
       BY <2>1, <3>1, <3>2, CallFacts, AbsentFacts DEF Calm, Finish, Goto, glue, bounds
    <3>4. ~Closing(pc[p], job[p].op) /\ ~Terminal' /\ lifecycle' # "RUNNING"
       BY <2>4, <3>1, StepFacts DEF Terminal
    <3> QED BY <1>1, <2>2, <3>3, <3>4, AbsentFacts, CallStep
  <2>5. CASE CommitTransition(p) /\ job[p].op # "RESTORE"
    <3>1. /\ pc[p] = "commit" /\ Goto(p, "committed") /\ UNCHANGED <<chain, job, seen>>
          /\ lifecycle' \in {"ARCHIVED", "DISPOSED"} /\ version' = version + 1
       BY <1>1, <2>5, RulesFacts DEF CommitTransition, At, Commit
    <3>2. Writes(p) /\ Line(p, "committed") /\ "committed" \in Steps
       BY <1>1, <2>1, <3>1, CallFacts, StepFacts DEF Writes, Line, Contract!States, Holding
    <3>3. PICK j \in Jobs \cup {NoJob}, d \in Reads : j = job[p] /\ d = seen[p]
       BY CallFacts
    <3>4. Calm(p, "committed", j, d)
       BY <2>1, <3>1, <3>2, <3>3, CallFacts DEF Calm, Goto, glue, bounds
    <3>5. WorkAt("committed", j) /\ FactsAt("committed", j.token)' /\ RowAt("committed", j.op, d)'
       BY <1>1, <2>5, <3>1, <3>3, StepFacts DEF WorkAt, FactsAt, RowAt, Terminal
    <3>6. /\ Closing("committed", j.op) /\ Closing(pc[p], job[p].op) /\ lifecycle' # "RUNNING"
       BY <2>5, <3>1, StepFacts
    <3> QED BY <1>1, <2>2, <3>2, <3>4, <3>5, <3>6, CallStep
  <2> QED BY <1>3, <2>3, <2>4, <2>5
<1> QED BY <1>2, <1>3

LEMMA ExitStep ==
  ASSUME IInv, NEW p \in Callers, ExitCommitted(p)
  PROVE  IInv'
<1>1. PICK r \in Remaining : chain' = Tail(r)
   BY DEF ExitCommitted
<1>2. /\ Holds(p) /\ pc[p] = "committed" /\ resident' = FALSE /\ closed' = FALSE
      /\ marker' = Terminal /\ pc' = [Cancelled EXCEPT ![p] = "idle"]
      /\ job' = [job EXCEPT ![p] = NoJob] /\ seen' = [seen EXCEPT ![p] = NoRead]
      /\ UNCHANGED <<durable, ensure, boot, requests, crashes, faults>>
   BY DEF ExitCommitted, Reopen, At, bounds
<1>3. pc[p] \in Holding /\ pc[p] \notin Owes
   BY <1>2, StepFacts DEF Holding
<1>4. Lined(chain', pc') /\ pc'[p] = "idle" /\ \A q \in Callers \ {p} : Turned(pc[q], pc'[q])
  <2>1. Lined(Tail(r), [Cancelled EXCEPT ![p] = "idle"])
     BY <1>2, <1>3, Dropping, LineLeaves, AbsentFacts
  <2> QED BY <1>1, <1>2, <1>3, <2>1, Dropping
<1>5. GlueTyped' /\ faults' \in faults..MaxFaults
  <2>1. GlueTyped
     BY TypeMeans DEF IInv, Typed
  <2>2. resident' \in BOOLEAN /\ closed' \in BOOLEAN /\ marker' \in BOOLEAN
     BY <1>2, TerminalTyped
  <2>3. GlueTyped'
     BY <1>2, <2>1, <2>2 DEF GlueTyped
  <2> QED BY <1>2, <2>3, CallFacts
<1>6. Handles'
  <2>1. Terminal' = Terminal
     BY <1>2 DEF Terminal, durable
  <2> QED BY <1>2, <2>1 DEF Handles
<1> QED BY <1>2, <1>3, <1>4, <1>5, <1>6, AbsentFacts, ProcedureStep

-------------------------------------------------------------------------------
(* The flights, the crash *)

LEMMA ProbeStep ==
  ASSUME IInv, ProbeEnds
  PROVE  IInv'
<1>1. Typed
   BY TypeMeans DEF IInv
<1>2. /\ UNCHANGED <<durable, chain, job, seen, resident, closed, marker, boot, bounds>>
      /\ ensure' \in {"idle", "resuming"} /\ pc' \in {pc, Answer("over")}
   BY DEF ProbeEnds
<1>3. /\ \A q \in Callers : pc'[q] = IF pc[q] = "ensuring" /\ pc' # pc THEN "over" ELSE pc[q]
      /\ pc' \in [Callers -> Steps]
   BY <1>1, <1>2, StepFacts DEF Answer, Typed, Lined
<1>4. \A q \in Callers : Turned(pc[q], pc'[q])
   BY <1>3 DEF Turned, Unlocked
<1>5. Lined(chain', pc')
  <2>1. /\ chain' = chain
        /\ \A q \in Callers : (pc'[q] \in InChain <=> pc[q] \in InChain)
                              /\ (pc'[q] \in Holding <=> pc[q] \in Holding)
     BY <1>2, <1>3 DEF InChain, Queued, Holding
  <2> QED BY <1>1, <1>3, <2>1 DEF Typed, Lined
<1>6. GlueTyped'
   BY <1>1, <1>2 DEF Typed, GlueTyped, bounds
<1>7. Handles'
  <2>1. Terminal' = Terminal /\ \A q \in Callers : pc[q] = "committed" => pc'[q] = "committed"
     BY <1>2, <1>3 DEF Terminal, durable
  <2> QED BY <1>2, <2>1 DEF IInv, Handles
<1> QED BY <1>2, <1>4, <1>5, <1>6, <1>7, FlightStep

LEMMA BootSteps ==
  ASSUME IInv, BootResume \/ BootSweep
  PROVE  IInv'
<1>1. Typed
   BY TypeMeans DEF IInv
<1>2. CASE BootResume
  <2>1. /\ UNCHANGED <<durable, chain, pc, job, seen, resident, closed, marker, ensure, bounds>>
        /\ boot' \in {"off", "sweep", "resuming"} /\ (boot' = "resuming" => ~Terminal)
     BY <1>2 DEF BootResume, calls
  <2>2. Lined(chain', pc') /\ GlueTyped' /\ \A q \in Callers : Turned(pc[q], pc'[q])
     BY <1>1, <2>1 DEF Typed, GlueTyped, bounds, Turned
  <2>3. Handles'
     BY <2>1 DEF IInv, Handles, Terminal, durable
  <2> QED BY <2>1, <2>2, <2>3, FlightStep
<1>3. CASE BootSweep
  <2>1. /\ UNCHANGED <<durable, job, seen, closed, marker, ensure, bounds>> /\ boot' = "off"
        /\ \/ resident' = FALSE /\ pc' = Cancelled /\ chain' \in Remaining
           \/ UNCHANGED <<resident, pc, chain>>
     BY <1>3 DEF BootSweep, Drop
  <2>2. Lined(chain', pc') /\ \A q \in Callers : Turned(pc[q], pc'[q])
     BY <1>1, <2>1, LineDrops DEF Typed, Turned, Cancelled, Unlocked
  <2>3. resident' \in BOOLEAN
     BY <1>1, <2>1 DEF Typed, GlueTyped
  <2>4. GlueTyped'
     BY <1>1, <2>1, <2>3 DEF Typed, GlueTyped, bounds
  <2>5. Handles'
     BY <2>1 DEF IInv, Handles, Terminal, durable
  <2> QED BY <2>1, <2>2, <2>4, <2>5, FlightStep
<1> QED BY <1>2, <1>3

\* A handle is published only of a member that is not terminal at the publication.
LEMMA ResumeStep ==
  ASSUME IInv, NEW ok \in BOOLEAN, ResumeEnds(ok)
  PROVE  IInv'
<1>1. Typed
   BY TypeMeans DEF IInv
<1>2. PICK s \in {"prepare", "over"} : s = IF ok /\ PublishedByCall THEN "prepare" ELSE "over"
   OBVIOUS
<1>3. /\ UNCHANGED <<durable, chain, job, seen, closed, bounds>>
      /\ ensure' \in {ensure, "idle"} /\ pc' \in {pc, Answer(s)}
      /\ boot' \in {boot, "sweep", "off"} /\ boot' # "resuming"
   BY <1>2 DEF ResumeEnds
<1>4. /\ \A q \in Callers : pc'[q] = IF pc[q] = "ensuring" /\ pc' # pc THEN s ELSE pc[q]
      /\ pc' \in [Callers -> Steps]
   BY <1>1, <1>3, StepFacts DEF Answer, Typed, Lined
<1>5. \A q \in Callers : Turned(pc[q], pc'[q])
   BY <1>4 DEF Turned, Unlocked
<1>6. Lined(chain', pc')
  <2>1. /\ chain' = chain
        /\ \A q \in Callers : (pc'[q] \in InChain <=> pc[q] \in InChain)
                              /\ (pc'[q] \in Holding <=> pc[q] \in Holding)
     BY <1>3, <1>4 DEF InChain, Queued, Holding
  <2> QED BY <1>1, <1>4, <2>1 DEF Typed, Lined
<1>7. GlueTyped'
  <2>1. resident' \in BOOLEAN /\ marker' \in BOOLEAN
    <3>1. PublishedByCall \in BOOLEAN /\ PublishedByBoot \in BOOLEAN
       BY DEF PublishedByCall, PublishedByBoot
    <3>2. /\ resident' = (resident \/ (ok /\ (PublishedByCall \/ PublishedByBoot)))
          /\ marker' = (marker /\ ~(ok /\ PublishedByBoot))
       BY DEF ResumeEnds
    <3> QED BY <3>2
  <2> QED BY <1>1, <1>3, <2>1 DEF Typed, GlueTyped, bounds
<1>8. Handles'
  <2>1. Terminal' = Terminal /\ \A q \in Callers : pc[q] = "committed" => pc'[q] = "committed"
     BY <1>3, <1>4 DEF Terminal, durable
  <2>2. Terminal => ~PublishedByCall /\ ~PublishedByBoot
     BY DEF PublishedByCall, PublishedByBoot, IInv, Handles
  <2>3. Terminal /\ resident' => resident
     BY <2>2 DEF ResumeEnds
  <2> QED BY <1>3, <2>1, <2>3 DEF IInv, Handles
<1> QED BY <1>3, <1>5, <1>6, <1>7, <1>8, FlightStep

\* No call: nothing is in the chain, and no call owes anything.
LEMMA AllIdle ==
  ASSUME chain = << >>, pc = [p \in Callers |-> "idle"], job = [p \in Callers |-> NoJob],
         seen = [p \in Callers |-> NoRead], ~closed
  PROVE  Lined(chain, pc) /\ Calling /\ Closed
<1>1. \A p \in Callers : pc[p] = "idle" /\ job[p] = NoJob /\ seen[p] = NoRead
   OBVIOUS
<1>2. Lined(chain, pc)
  <2>1. "idle" \in Steps /\ "idle" \notin InChain /\ "idle" \notin Holding
     BY AbsentFacts DEF InChain
  <2>2. chain \in Seq(Callers) /\ IsInjective(chain) /\ ToSet(chain) = {}
     BY DEF IsInjective, ToSet
  <2> QED BY <1>1, <2>1, <2>2 DEF Lined
<1>3. Calling
   BY <1>1, AbsentFacts DEF Calling, Sound
<1>4. Closed
   BY <1>1, AbsentFacts DEF Closed
<1> QED BY <1>2, <1>3, <1>4

LEMMA InitHolds ==
  ASSUME Init
  PROVE  IInv
<1> USE DEF Init, Contract!Init
<1>1. TypeOK
  <2>1. resident \in BOOLEAN /\ closed \in BOOLEAN /\ marker \in BOOLEAN
     OBVIOUS
  <2>2. GlueTyped
     BY <2>1 DEF GlueTyped
  <2>3. Lined(chain, pc)
     BY AllIdle
  <2>4. job \in [Callers -> Jobs \cup {NoJob}] /\ seen \in [Callers -> Reads]
     BY DEF Reads
  <2>5. /\ lifecycle \in Contract!States /\ version \in Nat
        /\ admitted \subseteq Tokens /\ open \subseteq Tokens /\ settled \in [Tokens -> Nat]
     BY DEF Contract!States
  <2> QED BY <2>2, <2>3, <2>4, <2>5, TypeMeans DEF Typed
<1>2. Handles /\ Running /\ SettledIsClosed
   BY DEF Handles, Running, SettledIsClosed, Terminal
<1> QED BY <1>1, <1>2, AllIdle DEF IInv

LEMMA CrashStep ==
  ASSUME IInv, Crash
  PROVE  IInv'
<1>1. Typed
   BY TypeMeans DEF IInv
<1>2. UNCHANGED <<lifecycle, version, admitted, settled, open, requests, faults>>
   BY DEF Crash, durable
<1>3. (Lined(chain, pc) /\ Calling /\ Closed)'
  <2>1. (/\ chain = << >> /\ pc = [p \in Callers |-> "idle"] /\ job = [p \in Callers |-> NoJob]
         /\ seen = [p \in Callers |-> NoRead] /\ ~closed)'
     BY DEF Crash
  <2> QED BY <2>1, AllIdle, PTL
<1>4. crashes' \in 1..MaxCrashes
   BY <1>1 DEF Crash, Typed, GlueTyped
<1>5. TypeOK'
  <2>1. /\ resident' \in BOOLEAN /\ closed' \in BOOLEAN /\ marker' \in BOOLEAN
        /\ ensure' = "idle" /\ boot' = "starting"
     BY DEF Crash
  <2>2. GlueTyped'
     BY <1>1, <1>2, <1>4, <2>1 DEF Typed, GlueTyped
  <2>3. job' \in [Callers -> Jobs \cup {NoJob}] /\ seen' \in [Callers -> Reads]
     BY DEF Crash, Reads
  <2> QED BY <1>1, <1>2, <1>3, <2>2, <2>3, TypeMeansNext DEF Typed
<1>6. Handles' /\ Running' /\ SettledIsClosed'
   BY <1>2, <1>4 DEF Crash, IInv, Handles, Running, SettledIsClosed
<1> QED BY <1>3, <1>5, <1>6 DEF IInv

LEMMA NextHolds ==
  ASSUME IInv, [Next]_vars
  PROVE  IInv'
<1>1. CASE UNCHANGED vars
  <2>1. UNCHANGED <<durable, chain, pc, job, seen, resident, closed, marker, ensure, boot, bounds>>
     BY <1>1 DEF vars, calls, glue
  <2>2. Handles' /\ (\A q \in Callers : Turned(pc[q], pc'[q]))
     BY <2>1 DEF IInv, Handles, Terminal, durable, Turned
  <2>3. Lined(chain', pc') /\ GlueTyped'
     BY <2>1, TypeMeans DEF IInv, Typed, GlueTyped, bounds
  <2> QED BY <2>1, <2>2, <2>3, FlightStep
<1>2. ASSUME NEW p \in Callers, Unit(p) \/ TurnCalls(p) \/ Request(p) \/ UnitFault(p) \/ OpenFault(p)
      PROVE  IInv'
   BY <1>2, RequestStep, UnitReturns, StartSteps, DeliverySteps, AdmissionSteps, IntervalSteps,
      SettlementSteps DEF Unit
<1>3. ASSUME NEW p \in Callers, Procedure(p) \/ CommitFault(p)
      PROVE  IInv'
   BY <1>3, PlanSteps, CloseSteps, AbortSteps, ReleaseStep, CommitSteps, ExitStep DEF Procedure
<1>4. CASE Flights
   BY <1>4, ProbeStep, BootSteps, ResumeStep DEF Flights
<1>5. CASE Crash
   BY <1>5, CrashStep
<1> QED BY <1>1, <1>2, <1>3, <1>4, <1>5 DEF Next

-------------------------------------------------------------------------------
(* Theorems *)

\* Every reachable state satisfies the inductive invariant: a call goes by a row that
\* nobody changes under it (withTeamLock), and for a unit that is admitted.
THEOREM MemberInvariant == Spec => []IInv
<1>1. Init => IInv
   BY InitHolds
<1>2. IInv /\ [Next]_vars => IInv'
   BY NextHolds
<1> QED BY <1>1, <1>2, PTL DEF Spec

\* The state keeps its types, the chain has each call once, and only its holder runs.
THEOREM MemberTypes == Spec => []TypeOK
<1>1. IInv => TypeOK
   BY DEF IInv
<1> QED BY <1>1, MemberInvariant, PTL

\* Once the procedure that archived or disposed a member has returned, no handle of the
\* member is resident, whatever dispatch or boot was resuming it (agent-bindings.mjs).
THEOREM NoAgentArchived == Spec => []ArchivedHasNoAgent
<1>1. IInv => ArchivedHasNoAgent
  <2> SUFFICES ASSUME IInv, Terminal, ~closed, resident PROVE FALSE
     BY DEF ArchivedHasNoAgent
  <2>1. PICK p \in Callers : pc[p] = "committed"
     BY DEF IInv, Handles
  <2> QED BY <2>1, StepFacts DEF IInv, Closed
<1> QED BY <1>1, MemberInvariant, PTL

\* Work that ended is ended in the member and in the activity interval, unless a write
\* failed or the process died (work-execution.ts).
THEOREM EndedWorkIsClosed == Spec => []WorkIsClosed
<1>1. IInv => WorkIsClosed
   BY StepFacts DEF IInv, Running, WorkIsClosed, NoFakeRunning
<1> QED BY <1>1, MemberInvariant, PTL

\* What admission, archive, dispose or restore commits is derived from the row that is
\* durable at the commit: the compare-and-swap of commitTransition never conflicts.
THEOREM CommitsFresh == Spec => []CommitsWhatItRead
<1>1. IInv => CommitsWhatItRead
   BY CallFacts, StepFacts DEF CommitsWhatItRead, RowAt
<1> QED BY <1>1, MemberInvariant, PTL

\* The admission is closed only while the procedure that closed it is under way
\* (reopenAdmission on every exit of quiesce.ts).
THEOREM AdmissionIsReopened == Spec => []AdmissionReopened
<1>1. IInv => AdmissionReopened
  <2> SUFFICES ASSUME IInv, closed
               PROVE  chain # << >> /\ job[Head(chain)].op \in {"ARCHIVE", "DISPOSE"}
     BY DEF AdmissionReopened
  <2>1. PICK p \in Callers : Closing(pc[p], job[p].op)
     BY DEF IInv, Closed
  <2>2. pc[p] \in Holding /\ job[p].op \in {"ARCHIVE", "DISPOSE"}
     BY <2>1, CallFacts, StepFacts DEF WorkAt, Holding
  <2>3. Holds(p)
     BY <2>2 DEF IInv, TypeOK
  <2> QED BY <2>2, <2>3 DEF Holds
<1> QED BY <1>1, MemberInvariant, PTL

\* The member and its units do what MemberContract says: legal moves of the row, one
\* version a move, one admission of a unit, and its settlements on a settled member.
THEOREM MemberImplementsContract == Spec => ImplementsContract
<1>1. Init => Contract!Init
   BY DEF Init
<1>2. IInv /\ [Next]_vars => [Contract!Next]_(Contract!vars)
  <2> SUFFICES ASSUME IInv, [Next]_vars, ~(UNCHANGED Contract!vars) PROVE Contract!Next
     OBVIOUS
  <2>1. ~(UNCHANGED <<lifecycle, version, admitted, settled>>)
     BY DEF Contract!vars
  <2>2. PICK p \in Callers :
           \/ CommitAdmit(p) \/ AdmitFact(p) \/ SettleState(p) \/ SettleFact(p)
           \/ CommitSettleFirst(p) \/ CommitTransition(p)
    <3>1. ~(UNCHANGED durable) /\ ~(UNCHANGED vars)
       BY <2>1 DEF durable, vars
    <3>2. ~Flights /\ ~Crash
       BY <3>1 DEF Flights, ProbeEnds, BootResume, ResumeEnds, BootSweep, Crash
    <3>3. PICK p \in Callers : Request(p) \/ TurnCalls(p) \/ Unit(p) \/ Procedure(p)
                               \/ UnitFault(p) \/ OpenFault(p) \/ CommitFault(p)
       BY <3>1, <3>2 DEF Next
    <3>4. ~(Request(p) \/ TurnCalls(p) \/ UnitFault(p) \/ OpenFault(p) \/ CommitFault(p))
       BY <3>1 DEF Request, TurnCalls, UnitFault, OpenFault, CommitFault, Abort
    <3>5. CASE Unit(p)
       BY <2>1, <3>1, <3>5 DEF Unit, RefuseWork, ResumeWork, StartWork, OpenInterval, EnsureRefused,
          EnsureResident, EnsureFlight, Prepare, TeamCallRuns, TurnEnds, QueueSettlement,
          CloseInterval, SettleRepair, SettleVoid
    <3>6. CASE Procedure(p)
       BY <3>1, <3>6 DEF Procedure, RefusePlan, Plan, CloseAdmission, Interrupt, DrainRefused,
          AgentIdle, NotQuiescent, ReleaseResidency, ExitCommitted, Abort
    <3> QED BY <3>3, <3>4, <3>5, <3>6
  <2>3. WorkAt(pc[p], job[p]) /\ FactsAt(pc[p], job[p].token) /\ RowAt(pc[p], job[p].op, seen[p])
     BY CallFacts
  <2>4. /\ Rules = Contract!Rules
        /\ {"ADMIT_WORK", "SETTLE", "ARCHIVE", "RESTORE", "DISPOSE"} \subseteq DOMAIN Contract!Rules
     BY DEF Rules, Contract!Rules
  <2>5. CASE CommitAdmit(p)
    <3>1. Contract!Transition("ADMIT_WORK")
       BY <2>3, <2>4, <2>5 DEF CommitAdmit, Commit, At, RowAt, Contract!Transition
    <3> QED BY <2>4, <3>1 DEF Contract!Next
  <2>6. CASE SettleState(p) \/ CommitSettleFirst(p)
    <3>1. lifecycle = "RUNNING"
       BY <2>3, <2>6 DEF SettleState, CommitSettleFirst, At, RowAt
    <3>2. Contract!Transition("SETTLE")
       BY <2>4, <2>6, <3>1, RulesFacts DEF SettleState, CommitSettleFirst, Commit, Contract!Transition
    <3> QED BY <2>4, <3>2 DEF Contract!Next
  <2>7. CASE CommitTransition(p)
    <3>1. pc[p] = "commit" /\ job[p].op \in {"ARCHIVE", "DISPOSE", "RESTORE"}
       BY <2>3, <2>7 DEF CommitTransition, At, WorkAt
    <3>2. Contract!Transition(job[p].op)
       BY <2>3, <2>4, <2>7, <3>1 DEF CommitTransition, Commit, RowAt, Contract!Transition
    <3> QED BY <2>4, <3>1, <3>2 DEF Contract!Next
  <2>8. CASE AdmitFact(p)
    <3>1. pc[p] = "fact" /\ job[p] \in Jobs /\ job[p].op = "WORK"
       BY <2>3, <2>8, StepFacts DEF AdmitFact, At, WorkAt
    <3>2. job[p].token \in Tokens
       BY <3>1, JobFacts
    <3>3. Contract!Admit(job[p].token)
       BY <2>3, <2>8, <3>1 DEF AdmitFact, FactsAt, RowAt, Contract!Admit
    <3> QED BY <3>2, <3>3 DEF Contract!Next
  <2>9. CASE SettleFact(p)
    <3>1. pc[p] = "settled" /\ job[p] \in Jobs /\ job[p].op = "WORK"
       BY <2>3, <2>9, StepFacts DEF SettleFact, At, WorkAt
    <3>2. job[p].token \in Tokens /\ settled \in [Tokens -> Nat]
       BY <3>1, JobFacts, CallFacts
    <3>3. job[p].token \in admitted /\ lifecycle = "SETTLED"
       BY <2>3, <3>1, StepFacts DEF FactsAt, RowAt
    <3>4. Contract!Settle(job[p].token)
       BY <2>9, <3>2, <3>3 DEF SettleFact, Contract!Settle
    <3> QED BY <3>2, <3>4 DEF Contract!Next
  <2> QED BY <2>2, <2>5, <2>6, <2>7, <2>8, <2>9
<1> QED BY <1>1, <1>2, MemberInvariant, PTL DEF Spec, ImplementsContract, Contract!Spec

===============================================================================
