---------------------- MODULE OperationJournalInvariant ----------------------
(***************************************************************************)
(* The inductive invariant of OperationJournal and the proof that every    *)
(* step preserves it.                                                      *)
(*                                                                         *)
(* The safety properties are not inductive: they say nothing of what a     *)
(* caller holds across an await.  The invariant adds it.  Fitting says     *)
(* that what every caller captured before its await (its row, the fact it  *)
(* found, the sequence it was handed, the write it issued) is still true   *)
(* when it resumes.  That needs nobody else to have moved the operation,   *)
(* hence Calling (the lock), Chained (one write at a time per caller) and  *)
(* OneJournalPerOperation (one lock per operation).  Distinct and Booting  *)
(* do the same for the sequences, which are guarded by no lock but by the  *)
(* order of the write chain.                                               *)
(***************************************************************************)
EXTENDS OperationJournal, TLAPS

USE JournalAssumption DEF AnyGeneration

-------------------------------------------------------------------------------
\* A call past its lock; a caller awaiting a write of type t; a call whose turn it is.
Inside(p)     == pc[p] \notin {"idle", "queued"}
Writing(p, t) == pc[p] = "writing" /\ pend[p].type = t
HasTurn(p)    == gate[Gate(p)] # << >> /\ Head(gate[Gate(p)]) = p

\* Calls are well formed, and a journaled one past its lock holds it.
Calling ==
  \A p \in Callers :
    /\ pc[p] # "idle" => call[p] \in Requests \cup Appends
    /\ pc[p] = "queued" => Journaled(p)
    /\ Inside(p) /\ Journaled(p) => HasTurn(p)

\* A caller awaits at most one write, and only writers are on the chain.
Chained ==
  /\ \A i \in DOMAIN chain : pc[chain[i]] = "writing"
  /\ \A i, j \in DOMAIN chain : chain[i] = chain[j] => i = j

\* r is the PREPARED row of p's operation; a fact links o with sequence s; s is what
\* findFact says of o; s is allocated and no fact has it.
Own(p, r)     == r \in Row /\ r = rows[call[p].op] /\ r.phase = "PREPARED"
Applied(o, s) == \E f \in ledger : f.op = o /\ f.seq = s
Pre(o, s)     == IF s = 0 THEN FactsOf(o) = {} ELSE Applied(o, s)
Free(s)       == s \in 1 .. counter /\ \A f \in ledger : f.seq # s

\* Row r may be written for p: a first row, or the next one of a PREPARED row, committed
\* only when effects and fact are durable.
Writable(p, r, s) ==
  LET o == call[p].op IN
  /\ Journaled(p) /\ r \in Row
  /\ \/ /\ rows[o] = Absent
        /\ r.phase = "PREPARED" /\ r.generation = 1
     \/ /\ rows[o].phase = "PREPARED" 
        /\ r.generation = rows[o].generation + 1
        /\ r.key = rows[o].key /\ r.intent = rows[o].intent /\ rows[o].child \in {None, r.child}
        /\ r.phase = "COMMITTED" => targets[o] /\ Applied(o, s)
        /\ r.phase = "PREPARED" /\ call[p].kind = "execute" => Pre(o, s)

\* What a call knows when it applies effects, when it appends its fact, when it stamps.
ReadyToApply(p, r, s)  == Journaled(p) /\ Own(p, r) /\ Pre(call[p].op, s)
ReadyToAppend(p, r) == Journaled(p) => Own(p, r) /\ FactsOf(call[p].op) = {} /\ targets[call[p].op]
ReadyToStamp(p, r, s)  == Journaled(p) => Own(p, r) /\ Applied(call[p].op, s) /\ targets[call[p].op]

\* The write a caller awaits is one its knowledge allows ...
FitWrite(p, w, r, s) ==
  \/ w = [type |-> "row", row |-> r] /\ Writable(p, r, s)
  \/ w = [type |-> "target"] /\ ReadyToApply(p, r, s)
  \/ w \in {[type |-> "boot"], [type |-> "increment"]} /\ ReadyToAppend(p, r)
  \/ /\ w = [type |-> "fact", fact |-> [seq |-> s, op |-> call[p].op, team |-> Team(p), intent |-> r.intent]]
     /\ ReadyToAppend(p, r) /\ Free(s)
  \/ w = [type |-> "stamp"] /\ ReadyToStamp(p, r, s)

\* ... and so is the stage it is at.
Fit(p, at, w, r, s) ==
  /\ at = "effect"   => ReadyToApply(p, r, s)
  /\ at = "allocate" => ReadyToAppend(p, r)
  /\ at = "fact"     => ReadyToAppend(p, r) /\ Free(s)
  /\ at = "stamp"    => ReadyToStamp(p, r, s)
  /\ at = "commit"   => Journaled(p) /\ ReadyToStamp(p, r, s)
  /\ at = "writing"  => FitWrite(p, w, r, s)

Fitting == \A p \in Callers : Fit(p, pc[p], pend[p], row[p], seq[p])

\* Callers with an allocated sequence in hand hold different ones.
HoldsSeq(p) == pc[p] = "fact" \/ Writing(p, "fact")
Distinct == \A p, q \in Callers : HoldsSeq(p) /\ HoldsSeq(q) /\ seq[p] = seq[q] => p = q

\* The counter row exists before it is incremented, and a queued bootstrap finds it zero
\* with no increment queued before it.
Booting ==
  /\ counter > 0 => booted
  /\ \A i \in DOMAIN chain : pend[chain[i]].type = "increment" => booted
  /\ \A i \in DOMAIN chain : pend[chain[i]].type = "boot" =>
       /\ counter = 0
       /\ \A k \in DOMAIN chain : k < i => pend[chain[k]].type # "increment"

\* A fact that links an operation records what its row says, and its effects are durable.
FactsRecorded ==
  \A f \in ledger : f.op # None =>
     rows[f.op] # Absent /\ rows[f.op].intent = f.intent /\ targets[f.op]

\* The inductive invariant.
IInv == /\ TypeOK /\ Calling /\ Chained /\ Fitting /\ Distinct /\ Booting
        /\ FactsRecorded /\ AppliedAtMostOnce /\ SequencesUnique /\ CommittedIsApplied

-------------------------------------------------------------------------------
\* The shape of a submitted request.
LEMMA RequestFacts ==
  ASSUME NEW c \in Requests
  PROVE  /\ c.kind \in {"prepare", "execute", "drive", "fail", "record"}
         /\ c.journal \in Journals
         /\ c.op \in Serves[c.journal]
         /\ c.key \in Keys \cup {None}
         /\ c.intent \in Intents \cup {None}
         /\ c.child \in Children \cup {None}
         /\ c.kind \in {"prepare", "execute"} => c.key \in Keys /\ c.intent \in Intents
         /\ c.kind = "record" => c.child \in Children
  BY DEF Requests

\* The shape of any call in flight: a journaled one serves an operation of its journal.
LEMMA CallFacts ==
  ASSUME NEW c \in Requests \cup Appends
  PROVE  /\ c.journal \in Journals
         /\ TeamOf[c.journal] \in Teams
         /\ c.kind = "append" => c.op = None
         /\ c.kind # "append" => c \in Requests /\ c.op \in Ops /\ c.op \in Serves[c.journal]
  BY RequestFacts DEF Appends

\* A settling call passes its lock on, and nobody else loses a turn.
LEMMA LeaveCalling ==
  ASSUME TypeOK, Calling,
         NEW p \in Callers, NEW a, Leave(p, a), Journaled(p) => HasTurn(p)
  PROVE  Calling'
<1> SUFFICES ASSUME NEW q \in Callers
             PROVE  /\ pc'[q] # "idle" => call'[q] \in Requests \cup Appends
                    /\ pc'[q] = "queued" => Journaled(q)'
                    /\ Inside(q)' /\ Journaled(q)' => HasTurn(q)'
   BY DEF Calling
<1>1. CASE q = p
   BY <1>1 DEF TypeOK, Leave, Inside
<1>2. CASE q # p
  <2>1. pc'[q] = pc[q] /\ call'[q] = call[q]
     BY <1>2 DEF Leave, TypeOK
  <2>2. Inside(q) /\ Journaled(q) /\ Journaled(p) => Gate(q) # Gate(p)
     BY <1>2 DEF Calling, HasTurn
  <2>3. Inside(q) /\ Journaled(q) => Gate(q) \in Journals \X Ops /\ gate'[Gate(q)] = gate[Gate(q)]
     BY <2>2, CallFacts DEF Calling, Leave, TypeOK, Inside, Journaled, Gate
  <2> QED BY <2>1, <2>3 DEF Calling, Inside, HasTurn, Journaled, Gate
<1> QED BY <1>1, <1>2

\* A call inside its critical section keeps its turn while it moves on.
LEMMA MoveCalling ==
  ASSUME TypeOK, Calling,
         NEW p \in Callers, pc[p] # "idle", Journaled(p) => HasTurn(p),
         NEW x, x \notin {"idle", "queued"},
         pc' = [pc EXCEPT ![p] = x], UNCHANGED <<call, gate>>
  PROVE  Calling'
  BY DEF TypeOK, Calling, Inside, HasTurn, Journaled, Gate

\* A caller that issues nothing leaves the write chain as it is.
LEMMA StayChained ==
  ASSUME TypeOK, Chained, NEW p \in Callers, pc[p] # "writing",
         NEW x, pc' = [pc EXCEPT ![p] = x], UNCHANGED chain
  PROVE  Chained'
  BY DEF TypeOK, Chained

\* A caller that issues a write is on the chain once.
LEMMA AppendChained ==
  ASSUME TypeOK, Chained, NEW p \in Callers, pc[p] # "writing",
         pc' = [pc EXCEPT ![p] = "writing"], chain' = Append(chain, p)
  PROVE  Chained'
<1>1. /\ Len(chain) \in Nat
      /\ DOMAIN chain = 1 .. Len(chain) /\ DOMAIN chain' = 1 .. Len(chain) + 1
      /\ \A i \in DOMAIN chain : chain'[i] = chain[i]
      /\ chain'[Len(chain) + 1] = p
   BY DEF TypeOK
<1>2. \A i \in DOMAIN chain : chain[i] \in Callers
   BY DEF TypeOK
<1> QED BY <1>1, <1>2 DEF TypeOK, Chained

\* What remains of the chain once its head is taken.
LEMMA TailFacts ==
  ASSUME chain \in Seq(Callers), chain # << >>, chain' = Tail(chain)
  PROVE  /\ Len(chain) \in Nat \ {0}
         /\ DOMAIN chain = 1 .. Len(chain) /\ DOMAIN chain' = 1 .. Len(chain) - 1
         /\ chain' \in Seq(Callers)
         /\ \A i \in DOMAIN chain : chain[i] \in Callers
         /\ \A i \in DOMAIN chain' : i + 1 \in DOMAIN chain /\ chain'[i] = chain[i + 1]
         /\ Head(chain) = chain[1] /\ 1 \in DOMAIN chain
  OBVIOUS

\* The head of the chain leaves it entirely.
LEMMA TailChained ==
  ASSUME TypeOK, Chained, NEW p \in Callers, chain # << >>, Head(chain) = p,
         NEW x, pc' = [pc EXCEPT ![p] = x], chain' = Tail(chain)
  PROVE  /\ Chained' /\ pc[p] = "writing"
         /\ \A i \in DOMAIN chain' : chain'[i] # p
<1> chain \in Seq(Callers)
   BY DEF TypeOK
<1>1. pc[p] = "writing"
   BY TailFacts DEF Chained
<1>2. ASSUME NEW i \in DOMAIN chain'
      PROVE  i + 1 \in DOMAIN chain /\ i \in Nat \ {0} /\ chain'[i] = chain[i + 1] /\ chain[i + 1] # chain[1]
   BY TailFacts DEF Chained
<1>3. \A i \in DOMAIN chain' : chain'[i] # p /\ pc'[chain'[i]] = "writing"
   BY <1>2, TailFacts DEF Chained, TypeOK
<1>4. ASSUME NEW i \in DOMAIN chain', NEW j \in DOMAIN chain', chain'[i] = chain'[j]
      PROVE  i = j
  <2>1. i + 1 \in DOMAIN chain /\ j + 1 \in DOMAIN chain /\ chain[i + 1] = chain[j + 1]
     BY <1>2, <1>4
  <2>2. i + 1 = j + 1
     BY <2>1 DEF Chained
  <2> QED BY <1>2, <2>2
<1> QED BY <1>1, <1>3, <1>4 DEF Chained

-------------------------------------------------------------------------------
\* The step is p's: every other caller keeps its locals.
OthersKeep(p) ==
  \A q \in Callers \ {p} : /\ pc'[q] = pc[q] /\ pend'[q] = pend[q]
                           /\ row'[q] = row[q] /\ seq'[q] = seq[q]
                           /\ call'[q] = call[q]

Fits(p) == Fit(p, pc[p], pend[p], row[p], seq[p])

\* The fact p appends.
FactFrom(p, r, s) == [seq |-> s, op |-> call[p].op, team |-> Team(p), intent |-> r.intent]

\* What the type of an issued write says of the caller that awaits it.
LEMMA WriteCases ==
  ASSUME NEW p, NEW w, NEW r, NEW s, FitWrite(p, w, r, s)
  PROVE  /\ w.type \in {"row", "target", "boot", "increment", "fact", "stamp"}
         /\ w.type = "row" => w.row = r /\ Writable(p, r, s)
         /\ w.type = "target" => ReadyToApply(p, r, s)
         /\ w.type \in {"boot", "increment"} => ReadyToAppend(p, r)
         /\ w.type = "fact" => w.fact = FactFrom(p, r, s) /\ ReadyToAppend(p, r) /\ Free(s)
         /\ w.type = "stamp" => ReadyToStamp(p, r, s)
<1>1. CASE w = [type |-> "row", row |-> r] /\ Writable(p, r, s)
   BY <1>1
<1>2. CASE w = [type |-> "target"] /\ ReadyToApply(p, r, s)
   BY <1>2
<1>3. CASE w \in {[type |-> "boot"], [type |-> "increment"]} /\ ReadyToAppend(p, r)
   BY <1>3
<1>4. CASE /\ w = [type |-> "fact", fact |-> FactFrom(p, r, s)]
           /\ ReadyToAppend(p, r) /\ Free(s)
   BY <1>4
<1>5. CASE w = [type |-> "stamp"] /\ ReadyToStamp(p, r, s)
   BY <1>5
<1> QED BY <1>1, <1>2, <1>3, <1>4, <1>5 DEF FitWrite, FactFrom

\* Two calls inside the journal for one operation are the same call.
LEMMA Exclusive ==
  ASSUME OneJournalPerOperation, TypeOK, Calling, NEW p \in Callers, NEW q \in Callers,
         Inside(p), Inside(q), Journaled(p), Journaled(q), call[p].op = call[q].op
  PROVE  p = q
<1>1. call[p] \in Requests \cup Appends /\ call[q] \in Requests \cup Appends
   BY DEF Calling, Inside
<1>2. /\ call[p].journal \in Journals /\ call[p].op \in Serves[call[p].journal]
      /\ call[q].journal \in Journals /\ call[q].op \in Serves[call[q].journal]
   BY <1>1, CallFacts DEF Journaled
<1>3. call[p].journal = call[q].journal
   BY <1>2 DEF OneJournalPerOperation
<1> QED BY <1>3 DEF Calling, HasTurn, Gate

\* Callers that keep their locals stay fit as long as what they rely on is left alone.
LEMMA FittingKept ==
  ASSUME Fitting, NEW p \in Callers, OthersKeep(p), Fits(p)',
         \A q \in Callers \ {p} : Inside(q) /\ Journaled(q) =>
            LET o == call[q].op IN
            /\ rows'[o] = rows[o]
            /\ targets[o] => targets'[o]
            /\ FactsOf(o)' = FactsOf(o),
         \A q \in Callers \ {p} : HoldsSeq(q) /\ Free(seq[q]) => Free(seq[q])'
  PROVE  Fitting'
<1> SUFFICES ASSUME NEW q \in Callers \ {p} PROVE Fits(q)'
   BY DEF Fitting, Fits
<1>1. Fits(q)
   BY DEF Fitting, Fits
<1>2. /\ pc'[q] = pc[q] /\ pend'[q] = pend[q] /\ row'[q] = row[q] /\ seq'[q] = seq[q]
      /\ call'[q] = call[q]
   BY DEF OthersKeep
<1>3. Team(q)' = Team(q) /\ Journaled(q)' = Journaled(q)
   BY <1>2 DEF Team, Journaled
<1>4. CASE ~Inside(q)
   BY <1>2, <1>4 DEF Fits, Fit, Inside
<1>5. CASE Inside(q) /\ ~Journaled(q)
   BY <1>1, <1>2, <1>3, <1>5
      DEF Fits, Fit, FitWrite, Inside, HoldsSeq, Writing, ReadyToApply, ReadyToAppend, ReadyToStamp, Writable
<1>6. CASE Inside(q) /\ Journaled(q)
  <2> DEFINE o == call[q].op
  <2>1. rows'[o] = rows[o] /\ (targets[o] => targets'[o]) /\ FactsOf(o)' = FactsOf(o)
     BY <1>6, <1>2
  <2>2. \A s : (Applied(o, s) => Applied(o, s)') /\ (Pre(o, s) => Pre(o, s)')
     BY <2>1, <1>2 DEF Applied, Pre, FactsOf
  <2>3. \A r, s : /\ ReadyToApply(q, r, s) => ReadyToApply(q, r, s)'
                  /\ ReadyToAppend(q, r) => ReadyToAppend(q, r)'
                  /\ ReadyToStamp(q, r, s) => ReadyToStamp(q, r, s)'
                  /\ Writable(q, r, s) => Writable(q, r, s)'
     BY <2>1, <2>2, <1>2, <1>3 DEF ReadyToApply, ReadyToAppend, ReadyToStamp, Writable, Own
  <2>4. HoldsSeq(q) => Free(seq[q])'
     BY <1>1, <1>2, WriteCases DEF Fits, Fit, HoldsSeq, Writing
  <2>5. FactFrom(q, row[q], seq[q])' = FactFrom(q, row[q], seq[q])
     BY <1>2, <1>3 DEF FactFrom
  <2>6. pc[q] = "writing" => FitWrite(q, pend[q], row[q], seq[q])'
    <3> SUFFICES ASSUME pc[q] = "writing" PROVE FitWrite(q, pend[q], row[q], seq[q])'
       OBVIOUS
    <3>1. FitWrite(q, pend[q], row[q], seq[q])
       BY <1>1 DEF Fits, Fit
    <3>2. pend[q].type = "fact" => Free(seq[q])'
       BY <2>4 DEF HoldsSeq, Writing
    <3> QED BY <3>1, <3>2, <1>2, <2>3, <2>5 DEF FitWrite, FactFrom
  <2> HIDE DEF o
  <2> QED BY <1>1, <1>2, <1>3, <2>3, <2>4, <2>6 DEF Fits, Fit, HoldsSeq
<1> QED BY <1>4, <1>5, <1>6

\* Allocated sequences in hand stay distinct when the step hands out only a new one.
LEMMA DistinctKept ==
  ASSUME TypeOK, Distinct, Fitting, NEW p \in Callers, OthersKeep(p),
         seq'[p] > counter \/ (HoldsSeq(p)' => HoldsSeq(p) /\ seq'[p] = seq[p])
  PROVE  Distinct'
<1>1. \A q \in Callers : HoldsSeq(q) => Free(seq[q])
   BY WriteCases DEF Fitting, Fit, HoldsSeq, Writing
<1>2. \A q \in Callers : HoldsSeq(q) => seq[q] \in Nat /\ seq[q] <= counter
   BY <1>1 DEF Free, TypeOK
<1>3. \A q \in Callers \ {p} : (HoldsSeq(q)' <=> HoldsSeq(q)) /\ seq'[q] = seq[q]
   BY DEF OthersKeep, HoldsSeq, Writing
<1>4. \A q \in Callers \ {p} : HoldsSeq(p)' /\ HoldsSeq(q)' => seq'[p] # seq'[q]
   BY <1>2, <1>3 DEF Distinct, TypeOK
<1>5. \A q, s \in Callers \ {p} : HoldsSeq(q)' /\ HoldsSeq(s)' /\ seq'[q] = seq'[s] => q = s
   BY <1>3 DEF Distinct
<1> QED BY <1>4, <1>5 DEF Distinct

-------------------------------------------------------------------------------
\* The counter discipline is kept when the chain and the counter are left alone.
LEMMA BootingStay ==
  ASSUME TypeOK, Booting, NEW p \in Callers, pc[p] # "writing", Chained,
         UNCHANGED <<chain, booted, counter>>,
         \A q \in Callers \ {p} : pend'[q] = pend[q]
  PROVE  Booting'
<1>1. \A i \in DOMAIN chain : chain[i] \in Callers \ {p}
   BY DEF TypeOK, Chained
<1> QED BY <1>1 DEF Booting

\* A bootstrap is issued only before the counter row exists, an increment only after.
LEMMA BootingAppend ==
  ASSUME TypeOK, Booting, Chained, NEW p \in Callers, pc[p] # "writing",
         chain' = Append(chain, p), UNCHANGED <<booted, counter>>,
         NEW w, pend' = [pend EXCEPT ![p] = w],
         w.type = "increment" => booted, w.type = "boot" => ~booted
  PROVE  Booting'
<1>1. /\ Len(chain) \in Nat
      /\ DOMAIN chain = 1 .. Len(chain) /\ DOMAIN chain' = 1 .. Len(chain) + 1
      /\ \A i \in DOMAIN chain : chain'[i] = chain[i] /\ chain[i] \in Callers
      /\ chain'[Len(chain) + 1] = p
   BY DEF TypeOK
<1>2. \A i \in DOMAIN chain : chain[i] # p
   BY DEF Chained
<1>3. /\ \A i \in DOMAIN chain : pend'[chain'[i]] = pend[chain[i]]
      /\ pend'[chain'[Len(chain) + 1]] = w
   BY <1>1, <1>2 DEF TypeOK
<1>4. w.type = "boot" => counter = 0
   BY DEF Booting, TypeOK
<1>5. \A i \in DOMAIN chain' : pend'[chain'[i]].type = "increment" => booted
   BY <1>1, <1>3 DEF Booting
<1>6. ASSUME NEW i \in DOMAIN chain', pend'[chain'[i]].type = "boot"
      PROVE  counter = 0 /\ \A k \in DOMAIN chain' : k < i => pend'[chain'[k]].type # "increment"
  <2>1. CASE i \in DOMAIN chain
     BY <2>1, <1>1, <1>3, <1>6 DEF Booting
  <2>2. CASE i = Len(chain) + 1
    <3>1. \A k \in DOMAIN chain' : k < i => k \in DOMAIN chain
       BY <2>2, <1>1
    <3> QED BY <3>1, <2>2, <1>3, <1>4, <1>6 DEF Booting
  <2> QED BY <2>1, <2>2, <1>1
<1> QED BY <1>5, <1>6 DEF Booting

\* No bootstrap that is still queued can reset a counter that has been incremented.
LEMMA BootingTail ==
  ASSUME TypeOK, Booting, Chained, NEW p \in Callers, chain # << >>, Head(chain) = p,
         chain' = Tail(chain), pend' = [pend EXCEPT ![p] = NoWrite],
         booted => booted', counter' > 0 => booted',
         counter' = counter \/ counter' = 0 \/ pend[p].type = "increment"
  PROVE  Booting'
<1> chain \in Seq(Callers)
   BY DEF TypeOK
<1>1. ASSUME NEW i \in DOMAIN chain'
      PROVE  /\ i + 1 \in DOMAIN chain /\ i \in Nat \ {0}
             /\ pend'[chain'[i]] = pend[chain[i + 1]]
  <2>1. i + 1 \in DOMAIN chain /\ i \in Nat \ {0} /\ chain'[i] = chain[i + 1] /\ chain[i + 1] # chain[1]
     BY TailFacts DEF Chained
  <2>2. chain[i + 1] \in Callers /\ chain[i + 1] # p
     BY <2>1, TailFacts
  <2> QED BY <2>1, <2>2 DEF TypeOK
<1>2. \A i \in DOMAIN chain' : pend'[chain'[i]].type = "increment" => booted'
   BY <1>1 DEF Booting
<1>3. ASSUME NEW i \in DOMAIN chain', pend'[chain'[i]].type = "boot"
      PROVE  counter' = 0 /\ \A k \in DOMAIN chain' : k < i => pend'[chain'[k]].type # "increment"
  <2>1. counter = 0 /\ \A k \in DOMAIN chain : k < i + 1 => pend[chain[k]].type # "increment"
     BY <1>1, <1>3 DEF Booting
  <2>2. pend[p].type # "increment"
     BY <2>1, <1>1, TailFacts
  <2>3. \A k \in DOMAIN chain' : k < i => pend'[chain'[k]].type # "increment"
     BY <2>1, <1>1
  <2> QED BY <2>1, <2>2, <2>3
<1> QED BY <1>2, <1>3 DEF Booting

-------------------------------------------------------------------------------
\* p may take a step of its own.
Awake(p) == pc[p] \notin {"idle", "writing"} /\ (Journaled(p) => HasTurn(p))

\* A step that writes nothing durable preserves the invariant once its caller is fit.
LEMMA QuietStep ==
  ASSUME IInv, NEW p \in Callers, OthersKeep(p), UNCHANGED durable,
         TypeOK', Calling', Chained', Booting', Fits(p)',
         HoldsSeq(p)' => HoldsSeq(p) /\ seq'[p] = seq[p]
  PROVE  IInv'
<1>1. Fitting'
  <2>1. \A q \in Callers : FactsOf(call[q].op)' = {f \in ledger : f.op = call'[q].op}
     BY DEF FactsOf, durable
  <2>2. \A q \in Callers \ {p} : FactsOf(call[q].op)' = FactsOf(call[q].op)
     BY <2>1 DEF OthersKeep, FactsOf
  <2>3. \A q \in Callers \ {p} : HoldsSeq(q) /\ Free(seq[q]) => Free(seq[q])'
     BY DEF OthersKeep, Free, durable
  <2> QED BY <2>2, <2>3, FittingKept DEF IInv, durable
<1>2. Distinct'
   BY DistinctKept DEF IInv
<1>3. FactsRecorded' /\ AppliedAtMostOnce' /\ SequencesUnique' /\ CommittedIsApplied'
   BY DEF IInv, durable, FactsRecorded, AppliedAtMostOnce, SequencesUnique, CommittedIsApplied
<1> QED BY <1>1, <1>2, <1>3 DEF IInv

\* The types of the locals of a call that settles.
LEMMA LeaveLocal ==
  ASSUME TypeOK, NEW p \in Callers, NEW a \in Answer \cup {None}, Leave(p, a),
         call[p] \in Requests \cup Appends, Journaled(p) => HasTurn(p)
  PROVE  /\ gate' \in [Journals \X Ops -> Seq(Callers)]
         /\ pc' \in [Callers -> {"idle", "queued", "effect", "allocate", "fact",
                                 "stamp", "commit", "writing"}]
         /\ call' \in [Callers -> Requests \cup Appends \cup {NoCall}]
         /\ row' \in [Callers -> Row \cup {Absent}]
         /\ seq' \in [Callers -> Nat]
         /\ answer' \in [Callers -> Answer \cup {None}]
<1>1. CASE Journaled(p)
  <2>1. Gate(p) \in Journals \X Ops
     BY <1>1, CallFacts DEF Gate, Journaled
  <2>2. Tail(gate[Gate(p)]) \in Seq(Callers)
     BY <1>1, <2>1 DEF HasTurn, TypeOK
  <2>3. gate' = [gate EXCEPT ![Gate(p)] = Tail(@)]
     BY <1>1 DEF Leave
  <2>4. gate' \in [Journals \X Ops -> Seq(Callers)]
     BY <2>2, <2>3 DEF TypeOK
  <2> QED BY <2>4 DEF Leave, TypeOK
<1>2. CASE ~Journaled(p)
   BY <1>2 DEF Leave, TypeOK
<1> QED BY <1>1, <1>2

\* Settling a call preserves the invariant.
LEMMA LeaveStep ==
  ASSUME IInv, NEW p \in Callers, Awake(p), NEW a \in Answer \cup {None}, Leave(p, a),
         UNCHANGED <<durable, chain, pend, calls, crashes>>
  PROVE  IInv'
<1> TypeOK /\ Calling /\ Chained /\ Booting
   BY DEF IInv
<1>0. call[p] \in Requests \cup Appends
   BY DEF Calling, Awake
<1>1. TypeOK'
   BY <1>0, LeaveLocal DEF TypeOK, Awake, durable
<1>2. Calling'
   BY LeaveCalling DEF Awake
<1>3. Chained'
   BY StayChained DEF Awake, Leave
<1>4. Booting'
   BY BootingStay DEF Awake, durable
<1>5. OthersKeep(p)
   BY DEF OthersKeep, Leave, TypeOK
<1>6. pc'[p] = "idle"
   BY DEF Leave, TypeOK
<1>7. Fits(p)' /\ ~HoldsSeq(p)'
   BY <1>6 DEF Fits, Fit, HoldsSeq, Writing
<1> QED BY <1>1, <1>2, <1>3, <1>4, <1>5, <1>7, QuietStep

\* Moving on to another stage preserves the invariant.
LEMMA MoveStep ==
  ASSUME IInv, NEW p \in Callers, Awake(p),
         NEW x \in {"effect", "allocate", "commit"}, NEW r \in Row \cup {Absent}, NEW s \in Nat,
         pc' = [pc EXCEPT ![p] = x], row' = [row EXCEPT ![p] = r], seq' = [seq EXCEPT ![p] = s],
         Fit(p, x, NoWrite, r, s),
         UNCHANGED <<durable, gate, chain, pend, call, answer, calls, crashes>>
  PROVE  IInv'
<1> TypeOK /\ Calling /\ Chained /\ Booting
   BY DEF IInv
<1>1. TypeOK'
   BY DEF TypeOK, durable
<1>2. Calling'
   BY MoveCalling DEF Awake
<1>3. Chained'
   BY StayChained DEF Awake
<1>4. Booting'
   BY BootingStay DEF Awake, durable
<1>5. OthersKeep(p)
   BY DEF OthersKeep, TypeOK
<1>6. pc'[p] = x /\ row'[p] = r /\ seq'[p] = s
   BY DEF TypeOK
<1>7. Fits(p)' /\ ~HoldsSeq(p)'
   BY <1>6 DEF Fits, Fit, HoldsSeq, Writing, ReadyToApply, ReadyToAppend, ReadyToStamp,
               Own, Pre, Applied, FactsOf, Journaled, durable
<1> QED BY <1>1, <1>2, <1>3, <1>4, <1>5, <1>7, QuietStep

\* Issuing a write that fits preserves the invariant.
LEMMA IssueStep ==
  ASSUME IInv, NEW p \in Callers, Awake(p),
         NEW w \in Write, NEW r \in Row \cup {Absent}, NEW s \in Nat,
         Issue(p, w, r, s), FitWrite(p, w, r, s),
         w.type = "increment" => booted, w.type = "boot" => ~booted,
         w.type = "fact" => pc[p] = "fact" /\ seq[p] = s,
         UNCHANGED <<calls, crashes>>
  PROVE  IInv'
<1> TypeOK /\ Calling /\ Chained /\ Booting
   BY DEF IInv
<1>1. TypeOK'
   BY DEF TypeOK, Issue, durable
<1>2. Calling'
   BY MoveCalling DEF Awake, Issue
<1>3. Chained'
   BY AppendChained DEF Awake, Issue
<1>4. Booting'
   BY BootingAppend DEF Awake, Issue, durable
<1>5. OthersKeep(p)
   BY DEF OthersKeep, TypeOK, Issue
<1>6. pc'[p] = "writing" /\ pend'[p] = w /\ row'[p] = r /\ seq'[p] = s
   BY DEF TypeOK, Issue
<1>7. FitWrite(p, w, r, s)'
   BY DEF FitWrite, ReadyToApply, ReadyToAppend, ReadyToStamp, Writable, Free,
          Own, Pre, Applied, FactsOf, Journaled, Team, durable, Issue
<1>8. Fits(p)'
   BY <1>6, <1>7 DEF Fits, Fit
<1>9. HoldsSeq(p)' => HoldsSeq(p) /\ seq'[p] = seq[p]
   BY <1>6 DEF HoldsSeq, Writing
<1> QED BY <1>1, <1>2, <1>3, <1>4, <1>5, <1>8, <1>9, QuietStep DEF Issue

\* OperationsRepository.put preserves the invariant, whether it accepts or refuses.
LEMMA PutRowStep ==
  ASSUME IInv, NEW p \in Callers, Awake(p), Journaled(p), NEW r \in Row, NEW s \in Nat,
         PutRow(p, r, s), Putable(rows[call[p].op], r) => Writable(p, r, s),
         UNCHANGED <<calls, crashes>>
  PROVE  IInv'
<1>1. CASE Putable(rows[call[p].op], r) /\ Issue(p, [type |-> "row", row |-> r], r, s)
  <2> DEFINE w == [type |-> "row", row |-> r]
  <2>1. w \in Write /\ w.type = "row"
     BY DEF Write
  <2>2. FitWrite(p, w, r, s)
     BY <1>1 DEF FitWrite
  <2>3. Issue(p, w, r, s)
     BY <1>1
  <2> HIDE DEF w
  <2> QED BY <2>1, <2>2, <2>3, IssueStep
<1>2. CASE Return(p)
   BY <1>2, LeaveStep DEF Return
<1> QED BY <1>1, <1>2 DEF PutRow

-------------------------------------------------------------------------------
\* The write of p is taken from the chain.
Due(p) == /\ chain # << >> /\ Head(chain) = p
          /\ chain' = Tail(chain)
          /\ pend'  = [pend EXCEPT ![p] = NoWrite]

\* The caller whose write is next was inside, and its write still fits.
LEMMA DueFacts ==
  ASSUME IInv, NEW p \in Callers, Due(p)
  PROVE  /\ pc[p] = "writing" /\ Inside(p)
         /\ call[p] \in Requests \cup Appends
         /\ Journaled(p) => HasTurn(p) /\ call[p].op \in Ops
         /\ ~Journaled(p) => call[p].op = None
         /\ Team(p) \in Teams
         /\ FitWrite(p, pend[p], row[p], seq[p])
         /\ pend' \in [Callers -> Write \cup {NoWrite}]
         /\ chain' \in Seq(Callers)
<1> TypeOK /\ Chained /\ Calling /\ Fitting
   BY DEF IInv
<1>1. pc[p] = "writing"
   BY TailFacts, ZenonT(60) DEF Due, Chained, TypeOK
<1>2. call[p] \in Requests \cup Appends
   BY <1>1 DEF Calling
<1>3. Journaled(p) => HasTurn(p)
   BY <1>1 DEF Calling, Inside
<1>4. FitWrite(p, pend[p], row[p], seq[p])
   BY <1>1 DEF Fitting, Fit
<1>5. chain' \in Seq(Callers) /\ pend' \in [Callers -> Write \cup {NoWrite}]
   BY TailFacts DEF Due, TypeOK
<1> QED BY <1>1, <1>2, <1>3, <1>4, <1>5, CallFacts DEF Inside, Journaled, Team

\* A write that becomes durable preserves the invariant if it leaves the others alone.
LEMMA DurableStep ==
  ASSUME IInv, NEW p \in Callers, Due(p), OthersKeep(p),
         NEW x, pc' = [pc EXCEPT ![p] = x],
         TypeOK', Calling', Fits(p)',
         FactsRecorded', AppliedAtMostOnce', SequencesUnique', CommittedIsApplied',
         booted => booted', counter' > 0 => booted',
         counter' = counter \/ counter' = 0 \/ pend[p].type = "increment",
         seq'[p] > counter \/ (HoldsSeq(p)' => HoldsSeq(p) /\ seq'[p] = seq[p]),
         \A q \in Callers \ {p} : Inside(q) /\ Journaled(q) =>
            LET o == call[q].op IN
            /\ rows'[o] = rows[o]
            /\ targets[o] => targets'[o]
            /\ FactsOf(o)' = FactsOf(o),
         \A q \in Callers \ {p} : HoldsSeq(q) /\ Free(seq[q]) => Free(seq[q])'
  PROVE  IInv'
<1> TypeOK /\ Chained /\ Booting /\ Fitting /\ Distinct
   BY DEF IInv
<1>1. Chained'
   BY TailChained DEF Due
<1>2. Booting'
   BY BootingTail DEF Due
<1>3. Fitting'
   BY FittingKept
<1>4. Distinct'
   BY DistinctKept
<1> QED BY <1>1, <1>2, <1>3, <1>4 DEF IInv

\* While a journaled write is due, every other call inside serves another operation.
LEMMA OthersElsewhere ==
  ASSUME OneJournalPerOperation, IInv, NEW p \in Callers, Due(p), Journaled(p)
  PROVE  \A q \in Callers \ {p} : Inside(q) /\ Journaled(q) => call[q].op # call[p].op
  BY DueFacts, Exclusive DEF IInv

\* A journaled call inside serves an operation.
LEMMA OthersInOps ==
  ASSUME IInv
  PROVE  \A q \in Callers : Inside(q) /\ Journaled(q) => call[q].op \in Ops
  BY CallFacts DEF IInv, Calling, Inside, Journaled

\* A rejected write preserves the invariant.
LEMMA RejectedStep ==
  ASSUME IInv, NEW p \in Callers, WriteRejected(p)
  PROVE  IInv'
<1> TypeOK /\ Chained /\ Booting /\ Calling
   BY DEF IInv
<1>1. Due(p) /\ Leave(p, None) /\ UNCHANGED durable
   BY DEF Due, WriteRejected
<1>2. TypeOK'
   BY <1>1, DueFacts, LeaveLocal DEF TypeOK, WriteRejected, durable
<1>3. Calling'
   BY <1>1, DueFacts, LeaveCalling
<1>4. Chained'
   BY <1>1, TailChained DEF Due, Leave
<1>5. Booting'
   BY <1>1, BootingTail DEF Due, durable, Booting
<1>6. OthersKeep(p)
   BY <1>1 DEF OthersKeep, Leave, Due, TypeOK
<1>7. Fits(p)' /\ ~HoldsSeq(p)'
   BY <1>1 DEF Leave, TypeOK, Fits, Fit, HoldsSeq, Writing
<1> QED BY <1>1, <1>2, <1>3, <1>4, <1>5, <1>6, <1>7, QuietStep

-------------------------------------------------------------------------------
\* A bootstrap finds the counter at zero and leaves it there.
LEMMA CounterBootedStep ==
  ASSUME IInv, NEW p \in Callers, Due(p), pend[p].type = "boot", CounterBooted(p),
         UNCHANGED <<calls, crashes>>
  PROVE  IInv'
<1> TypeOK /\ Calling /\ Booting
   BY DEF IInv
<1>1. counter = 0 /\ UNCHANGED counter
   BY TailFacts DEF Due, Booting, CounterBooted, TypeOK
<1>2. pc' = [pc EXCEPT ![p] = "allocate"] /\ seq' = [seq EXCEPT ![p] = seq[p]]
   BY DEF CounterBooted, Resume
<1>3. TypeOK'
   BY <1>1, <1>2, DueFacts DEF TypeOK, CounterBooted, Resume
<1>4. Calling'
   BY <1>2, DueFacts, MoveCalling DEF CounterBooted, Resume
<1>5. OthersKeep(p)
   BY <1>2 DEF OthersKeep, Due, CounterBooted, Resume, TypeOK
<1>6. pc'[p] = "allocate"
   BY <1>2 DEF TypeOK
<1>7. ReadyToAppend(p, row[p])
   BY DueFacts, WriteCases
<1>8. Fits(p)' /\ ~HoldsSeq(p)'
   BY <1>6, <1>7 DEF Fits, Fit, HoldsSeq, Writing, ReadyToAppend, Own, FactsOf, Journaled,
                     CounterBooted, Resume
<1>9. FactsRecorded' /\ AppliedAtMostOnce' /\ SequencesUnique' /\ CommittedIsApplied'
   BY <1>1 DEF IInv, CounterBooted, FactsRecorded, AppliedAtMostOnce, SequencesUnique,
               CommittedIsApplied
<1>10. \A q \in Callers \ {p} : Inside(q) /\ Journaled(q) =>
          LET o == call[q].op IN
          rows'[o] = rows[o] /\ (targets[o] => targets'[o]) /\ FactsOf(o)' = FactsOf(o)
   BY DEF CounterBooted, Resume, FactsOf
<1>11. \A q \in Callers \ {p} : HoldsSeq(q) /\ Free(seq[q]) => Free(seq[q])'
   BY <1>1, <1>5 DEF CounterBooted, OthersKeep, Free
<1>12. booted' = TRUE
   BY DEF CounterBooted
<1> QED BY <1>1, <1>2, <1>3, <1>4, <1>5, <1>8, <1>9, <1>10, <1>11, <1>12, DurableStep

\* An increment hands out a sequence no fact and no other caller has.
LEMMA CounterIncrementedStep ==
  ASSUME IInv, NEW p \in Callers, Due(p), pend[p].type = "increment", CounterIncremented(p),
         UNCHANGED <<calls, crashes>>
  PROVE  IInv'
<1> TypeOK /\ Calling /\ Booting
   BY DEF IInv
<1>1. booted /\ counter \in Nat /\ counter' = counter + 1
   BY TailFacts DEF Due, Booting, CounterIncremented, TypeOK
<1>2. pc' = [pc EXCEPT ![p] = "fact"] /\ seq' = [seq EXCEPT ![p] = counter + 1]
   BY DEF CounterIncremented, Resume
<1>3. TypeOK'
   BY <1>1, <1>2, DueFacts DEF TypeOK, CounterIncremented, Resume
<1>4. Calling'
   BY <1>2, DueFacts, MoveCalling DEF CounterIncremented, Resume
<1>5. OthersKeep(p)
   BY <1>2 DEF OthersKeep, Due, CounterIncremented, Resume, TypeOK
<1>6. pc'[p] = "fact" /\ seq'[p] = counter + 1 /\ row'[p] = row[p] /\ call'[p] = call[p]
   BY <1>2 DEF TypeOK, CounterIncremented, Resume
<1>7. ReadyToAppend(p, row[p])
   BY DueFacts, WriteCases
<1>8. ReadyToAppend(p, row[p])'
   BY <1>6, <1>7 DEF ReadyToAppend, Own, FactsOf, Journaled, CounterIncremented
<1>9. Free(seq[p])'
   BY <1>1, <1>6 DEF Free, IInv, SequencesUnique, CounterIncremented, TypeOK, Fact
<1>10. Fits(p)'
   BY <1>6, <1>8, <1>9 DEF Fits, Fit, Free
<1>11. FactsRecorded' /\ AppliedAtMostOnce' /\ CommittedIsApplied'
   BY <1>1 DEF IInv, CounterIncremented, FactsRecorded, AppliedAtMostOnce,
               CommittedIsApplied
<1>12. SequencesUnique'
   BY <1>1 DEF IInv, CounterIncremented, SequencesUnique, TypeOK, Fact
<1>13. \A q \in Callers \ {p} : Inside(q) /\ Journaled(q) =>
          LET o == call[q].op IN
          rows'[o] = rows[o] /\ (targets[o] => targets'[o]) /\ FactsOf(o)' = FactsOf(o)
   BY DEF CounterIncremented, Resume, FactsOf
<1>14. \A q \in Callers \ {p} : HoldsSeq(q) /\ Free(seq[q]) => Free(seq[q])'
   BY <1>1, <1>5 DEF CounterIncremented, OthersKeep, Free
<1>15. booted' = booted
   BY DEF CounterIncremented
<1>16. seq'[p] > counter
   BY <1>1, <1>6
<1>17. counter' > 0 => booted'
   BY <1>1, <1>15
<1> QED BY <1>1, <1>2, <1>3, <1>4, <1>5, <1>10, <1>11, <1>12, <1>13, <1>14, <1>15, <1>16, <1>17, DurableStep

\* A durable effect preserves the invariant.
LEMMA TargetWrittenStep ==
  ASSUME OneJournalPerOperation, IInv, NEW p \in Callers, Due(p), pend[p].type = "target",
         TargetWritten(p), UNCHANGED <<calls, crashes>>
  PROVE  IInv'
<1> TypeOK /\ Calling /\ Booting
   BY DEF IInv
<1> DEFINE o == call[p].op
           x == AfterEffects(p)
<1>1. ReadyToApply(p, row[p], seq[p])
   BY DueFacts, WriteCases
<1>2. Journaled(p) /\ o \in Ops
   BY <1>1, DueFacts DEF ReadyToApply
<1>3. pc' = [pc EXCEPT ![p] = x] /\ seq' = [seq EXCEPT ![p] = seq[p]] /\ x \in {"allocate", "commit"}
   BY DEF TargetWritten, Resume, AfterEffects
<1>4. targets' = [targets EXCEPT ![o] = TRUE]
   BY DEF TargetWritten
<1>5. TypeOK'
   BY <1>2, <1>3, DueFacts DEF TypeOK, TargetWritten, Resume
<1>6. Calling'
   BY <1>3, DueFacts, MoveCalling DEF TargetWritten, Resume
<1>7. OthersKeep(p)
   BY <1>3 DEF OthersKeep, Due, TargetWritten, Resume, TypeOK
<1>8. /\ pc'[p] = x /\ seq'[p] = seq[p] /\ row'[p] = row[p] /\ call'[p] = call[p]
      /\ targets'[o] /\ FactsOf(o)' = FactsOf(o)
   BY <1>2, <1>3 DEF TypeOK, TargetWritten, Resume, FactsOf
<1>9. seq[p] = 0 => ReadyToAppend(p, row[p])'
   BY <1>1, <1>8 DEF ReadyToApply, ReadyToAppend, Own, Pre, TargetWritten, FactsOf
<1>10. seq[p] # 0 => ReadyToStamp(p, row[p], seq[p])'
   BY <1>1, <1>8 DEF ReadyToApply, ReadyToStamp, Own, Pre, TargetWritten, Applied
<1>11. Journaled(p)'
   BY <1>2, <1>8 DEF Journaled
<1>12. Fits(p)' /\ ~HoldsSeq(p)'
   BY <1>3, <1>8, <1>9, <1>10, <1>11 DEF Fits, Fit, AfterEffects, HoldsSeq, Writing
<1>13. FactsRecorded' /\ AppliedAtMostOnce' /\ SequencesUnique'
   BY <1>2, <1>4 DEF IInv, TargetWritten, FactsRecorded, AppliedAtMostOnce, SequencesUnique, TypeOK, Fact
<1>14. CommittedIsApplied'
   BY <1>2, <1>4 DEF IInv, TargetWritten, CommittedIsApplied, TypeOK
<1>15. \A q \in Callers \ {p} : Inside(q) /\ Journaled(q) =>
          LET op == call[q].op IN
          rows'[op] = rows[op] /\ (targets[op] => targets'[op]) /\ FactsOf(op)' = FactsOf(op)
   BY <1>2, <1>4, <1>7, OthersInOps DEF TargetWritten, Resume, FactsOf, OthersKeep, TypeOK
<1>16. \A q \in Callers \ {p} : HoldsSeq(q) /\ Free(seq[q]) => Free(seq[q])'
   BY <1>7 DEF TargetWritten, OthersKeep, Free
<1>17. UNCHANGED <<booted, counter>>
   BY DEF TargetWritten
<1> HIDE DEF x, o
<1> QED BY <1>3, <1>5, <1>6, <1>7, <1>12, <1>13, <1>14, <1>15, <1>16, <1>17, DurableStep DEF Booting

\* A durable fact is the only one of its operation and the only one with its sequence.
LEMMA FactWrittenStep ==
  ASSUME OneJournalPerOperation, IInv, NEW p \in Callers, Due(p), pend[p].type = "fact",
         FactWritten(p, pend[p].fact), UNCHANGED <<calls, crashes>>
  PROVE  IInv'
<1> TypeOK /\ Calling /\ Booting
   BY DEF IInv
<1> DEFINE o == call[p].op
           f == FactFrom(p, row[p], seq[p])
<1>1. ReadyToAppend(p, row[p]) /\ Free(seq[p]) /\ pend[p].fact = f
   BY DueFacts, WriteCases
<1>2. /\ f.seq = seq[p] /\ f.op = o /\ f.team = Team(p) /\ f.intent = row[p].intent
      /\ seq[p] \in Nat \ {0} /\ seq[p] <= counter
   BY <1>1 DEF FactFrom, Free, TypeOK
<1>3. ledger' = ledger \cup {f}
   BY <1>1 DEF FactWritten
<1>4. f \in Fact
  <2>1. row[p].intent \in Intents \cup {None}
     BY DEF TypeOK, Row, Absent
  <2>2. o \in Ops \cup {None} /\ Team(p) \in Teams
     BY DueFacts
  <2> QED BY <1>2, <2>1, <2>2 DEF FactFrom, Fact
<1>5. pc' = [pc EXCEPT ![p] = "stamp"] /\ seq' = [seq EXCEPT ![p] = seq[p]]
   BY DEF FactWritten, Resume
<1> HIDE DEF f, o
<1>6. TypeOK'
   BY <1>3, <1>4, <1>5, DueFacts DEF TypeOK, FactWritten, Resume
<1>7. Calling'
   BY <1>5, DueFacts, MoveCalling DEF FactWritten, Resume
<1>8. OthersKeep(p)
   BY <1>5 DEF OthersKeep, Due, FactWritten, Resume, TypeOK
<1>9. pc'[p] = "stamp" /\ seq'[p] = seq[p] /\ row'[p] = row[p] /\ call'[p] = call[p]
   BY <1>5 DEF TypeOK, FactWritten, Resume
<1>10. Journaled(p) => o \in Ops /\ Own(p, row[p]) /\ FactsOf(o) = {} /\ targets[o]
   BY <1>1, DueFacts DEF ReadyToAppend, o
<1>11. ~Journaled(p) => o = None
   BY DueFacts DEF o
<1>12. ReadyToStamp(p, row[p], seq[p])'
   BY <1>2, <1>3, <1>9, <1>10 DEF ReadyToStamp, Own, Applied, Journaled, FactWritten, o
<1>13. Fits(p)' /\ ~HoldsSeq(p)'
   BY <1>9, <1>12 DEF Fits, Fit, HoldsSeq, Writing
<1>14. FactsRecorded'
  <2>1. o # None => /\ rows[o] # Absent /\ rows[o].intent = f.intent /\ targets[o]
     BY <1>2, <1>10, <1>11 DEF Own, Row, Absent, o
  <2> QED BY <1>2, <1>3, <2>1 DEF IInv, FactsRecorded, FactWritten
<1>15. AppliedAtMostOnce'
   BY <1>2, <1>3, <1>10, <1>11 DEF IInv, AppliedAtMostOnce, FactsOf
<1>16. SequencesUnique'
   BY <1>1, <1>2, <1>3 DEF IInv, SequencesUnique, Free, FactWritten
<1>17. CommittedIsApplied'
   BY <1>3 DEF IInv, CommittedIsApplied, FactWritten
<1>18. \A q \in Callers \ {p} : Inside(q) /\ Journaled(q) =>
          LET op == call[q].op IN
          rows'[op] = rows[op] /\ (targets[op] => targets'[op]) /\ FactsOf(op)' = FactsOf(op)
  <2> SUFFICES ASSUME NEW q \in Callers \ {p}, Inside(q), Journaled(q)
               PROVE  FactsOf(call[q].op)' = FactsOf(call[q].op)
     BY DEF FactWritten
  <2>1. call[q].op # o
    <3>1. CASE Journaled(p)
       BY <3>1, OthersElsewhere DEF o
    <3>2. CASE ~Journaled(p)
       BY <3>2, <1>11, OthersInOps
    <3> QED BY <3>1, <3>2
  <2> QED BY <2>1, <1>2, <1>3, <1>8 DEF FactsOf, OthersKeep
<1>19. \A q \in Callers \ {p} : HoldsSeq(q) /\ Free(seq[q]) => Free(seq[q])'
  <2> SUFFICES ASSUME NEW q \in Callers \ {p}, HoldsSeq(q), Free(seq[q]) PROVE Free(seq[q])'
     OBVIOUS
  <2>1. HoldsSeq(p)
     BY DueFacts DEF HoldsSeq, Writing
  <2>2. seq[q] # seq[p]
     BY <2>1 DEF IInv, Distinct
  <2> QED BY <2>2, <1>2, <1>3, <1>8 DEF Free, OthersKeep, FactWritten
<1>20. UNCHANGED <<booted, counter>>
   BY DEF FactWritten
<1> QED BY <1>5, <1>6, <1>7, <1>8, <1>13, <1>14, <1>15, <1>16, <1>17, <1>18, <1>19, <1>20,
           DurableStep DEF Booting

\* A durable stamp preserves the invariant.
LEMMA StampAdvancedStep ==
  ASSUME IInv, NEW p \in Callers, Due(p), pend[p].type = "stamp", StampAdvanced(p),
         UNCHANGED <<calls, crashes>>
  PROVE  IInv'
<1> TypeOK /\ Calling /\ Booting
   BY DEF IInv
<1>1. ReadyToStamp(p, row[p], seq[p])
   BY DueFacts, WriteCases
<1>2. stamp' \in [Teams -> Nat] /\ UNCHANGED <<rows, targets, booted, counter, ledger>>
   BY DueFacts DEF TypeOK, StampAdvanced
<1>3. FactsRecorded' /\ AppliedAtMostOnce' /\ SequencesUnique' /\ CommittedIsApplied'
   BY <1>2 DEF IInv, FactsRecorded, AppliedAtMostOnce, SequencesUnique, CommittedIsApplied
<1>4. OthersKeep(p)
   BY DEF OthersKeep, Due, StampAdvanced, Resume, Leave, TypeOK
<1>5. \A q \in Callers \ {p} : Inside(q) /\ Journaled(q) =>
          LET op == call[q].op IN
          rows'[op] = rows[op] /\ (targets[op] => targets'[op]) /\ FactsOf(op)' = FactsOf(op)
   BY <1>2, <1>4 DEF FactsOf, OthersKeep
<1>6. \A q \in Callers \ {p} : HoldsSeq(q) /\ Free(seq[q]) => Free(seq[q])'
   BY <1>2, <1>4 DEF Free, OthersKeep
<1>7. CASE Journaled(p)
  <2>1. /\ pc' = [pc EXCEPT ![p] = "commit"] /\ seq' = [seq EXCEPT ![p] = seq[p]]
        /\ UNCHANGED <<gate, call, row, answer>>
     BY <1>7 DEF StampAdvanced, Resume
  <2>2. TypeOK'
     BY <1>2, <2>1, DueFacts DEF TypeOK
  <2>3. Calling'
     BY <2>1, DueFacts, MoveCalling
  <2>4. pc'[p] = "commit" /\ seq'[p] = seq[p]
     BY <2>1 DEF TypeOK
  <2>5. (Journaled(p) /\ ReadyToStamp(p, row[p], seq[p]))'
     BY <1>1, <1>2, <1>7, <2>1, <2>4 DEF ReadyToStamp, Own, Applied, Journaled
  <2>6. Fits(p)' /\ ~HoldsSeq(p)'
     BY <2>4, <2>5 DEF Fits, Fit, HoldsSeq, Writing
  <2> QED BY <1>2, <1>3, <1>4, <1>5, <1>6, <2>1, <2>2, <2>3, <2>6, DurableStep DEF Booting
<1>8. CASE ~Journaled(p)
  <2>1. Leave(p, None)
     BY <1>8 DEF StampAdvanced
  <2>2. pc' = [pc EXCEPT ![p] = "idle"] /\ pc'[p] = "idle"
     BY <2>1 DEF Leave, TypeOK
  <2>3. TypeOK'
     BY <1>2, <2>1, LeaveLocal, DueFacts DEF TypeOK
  <2>4. Calling'
     BY <2>1, DueFacts, LeaveCalling
  <2>5. Fits(p)' /\ ~HoldsSeq(p)'
     BY <2>2 DEF Fits, Fit, HoldsSeq, Writing
  <2> QED BY <1>2, <1>3, <1>4, <1>5, <1>6, <2>2, <2>3, <2>4, <2>5, DurableStep DEF Booting
<1> QED BY <1>7, <1>8

\* Without a fact there is no sequence to replay.
LEMMA FirstOfFacts ==
  ASSUME NEW o \in Ops, FactsOf(o) = {}
  PROVE  FactSeq(o) = 0
  BY DEF FactSeq

\* A durable row preserves the invariant: its caller read nothing that has changed since.
LEMMA RowWrittenStep ==
  ASSUME OneJournalPerOperation, IInv, NEW p \in Callers, Due(p), pend[p].type = "row",
         RowWritten(p, pend[p].row), UNCHANGED <<calls, crashes>>
  PROVE  IInv'
<1> TypeOK /\ Calling /\ Booting
   BY DEF IInv
<1> DEFINE o == call[p].op
           r == row[p]
           s == seq[p]
           x == IF r.generation = 1 THEN FactSeq(o) ELSE s
           goesOn == call[p].kind = "execute" /\ r.phase = "PREPARED"
           a == IF r.phase = "COMMITTED" THEN [op |-> o, phase |-> r.phase, seq |-> s] ELSE None
<1>1. Writable(p, r, s) /\ pend[p].row = r
   BY DueFacts, WriteCases
<1>2. Journaled(p) /\ o \in Ops /\ r \in Row
   BY <1>1, DueFacts DEF Writable
<1>3. /\ rows' = [rows EXCEPT ![o] = r]
      /\ UNCHANGED <<targets, booted, counter, ledger, stamp>>
      /\ goesOn => Resume(p, "effect", x)
      /\ ~goesOn => Leave(p, a)
   BY <1>1 DEF RowWritten
<1>4. rows'[o] = r /\ rows' \in [Ops -> Row \cup {Absent}]
   BY <1>2, <1>3 DEF TypeOK
<1>5. rows[o] = Absent => FactsOf(o) = {} /\ r.generation = 1
   BY <1>1, <1>2 DEF IInv, FactsRecorded, FactsOf, Writable, Absent
<1>6. rows[o] # Absent => /\ rows[o].phase = "PREPARED"
                          /\ r.intent = rows[o].intent
                          /\ r.generation # 1
  <2>1. rows[o] # Absent => rows[o].phase = "PREPARED" /\ r.generation = rows[o].generation + 1
                            /\ r.intent = rows[o].intent
     BY <1>1 DEF Writable
  <2>2. rows[o] # Absent => rows[o].generation \in Nat \ {0}
     BY <1>2 DEF TypeOK, Row
  <2> QED BY <2>1, <2>2
<1>7. r # Absent
   BY <1>2 DEF Row, Absent
<1>8. goesOn => Pre(o, x) /\ x \in Nat
  <2>1. CASE rows[o] = Absent
     BY <2>1, <1>2, <1>5, FirstOfFacts DEF Pre
  <2>2. CASE rows[o] # Absent
     BY <2>2, <1>1, <1>6 DEF Writable, TypeOK
  <2> QED BY <2>1, <2>2
<1>9. a \in Answer \cup {None}
   BY <1>2 DEF Answer, TypeOK, Phases
<1>10. FactsRecorded'
  <2>1. \A f \in ledger : f.op = o => r.intent = f.intent /\ targets[o]
     BY <1>2, <1>5, <1>6 DEF IInv, FactsRecorded, FactsOf
  <2> QED BY <2>1, <1>2, <1>3, <1>7 DEF IInv, FactsRecorded, TypeOK, Fact
<1>11. AppliedAtMostOnce' /\ SequencesUnique'
   BY <1>3 DEF IInv, AppliedAtMostOnce, SequencesUnique
<1>12. CommittedIsApplied'
  <2>1. r.phase = "COMMITTED" => targets[o] /\ Applied(o, s)
     BY <1>1 DEF Writable
  <2>2. r.phase = "COMMITTED" => \E f \in ledger : f.op = o /\ f.intent = r.intent
     BY <2>1, <1>2, <1>5, <1>6 DEF IInv, FactsRecorded, Applied, FactsOf
  <2> QED BY <2>1, <2>2, <1>2, <1>3 DEF IInv, CommittedIsApplied, TypeOK
<1>13. OthersKeep(p)
   BY <1>3 DEF OthersKeep, Due, Resume, Leave, TypeOK
<1>14. \A q \in Callers \ {p} : Inside(q) /\ Journaled(q) =>
          LET op == call[q].op IN
          rows'[op] = rows[op] /\ (targets[op] => targets'[op]) /\ FactsOf(op)' = FactsOf(op)
  <2> SUFFICES ASSUME NEW q \in Callers \ {p}, Inside(q), Journaled(q)
               PROVE  rows'[call[q].op] = rows[call[q].op] /\ FactsOf(call[q].op)' = FactsOf(call[q].op)
     BY <1>3
  <2>1. call[q].op # o /\ call[q].op \in Ops
     BY <1>2, OthersElsewhere, OthersInOps
  <2> QED BY <2>1, <1>2, <1>3, <1>13 DEF FactsOf, OthersKeep, TypeOK
<1>15. \A q \in Callers \ {p} : HoldsSeq(q) /\ Free(seq[q]) => Free(seq[q])'
   BY <1>3, <1>13 DEF Free, OthersKeep
<1>16. CASE goesOn
  <2>1. /\ pc' = [pc EXCEPT ![p] = "effect"] /\ seq' = [seq EXCEPT ![p] = x]
        /\ UNCHANGED <<gate, call, row, answer>>
     BY <1>3, <1>16 DEF Resume
  <2>2. pc'[p] = "effect" /\ seq'[p] = x
     BY <2>1 DEF TypeOK
  <2>3. TypeOK'
     BY <1>3, <1>4, <1>8, <1>16, <2>1, DueFacts DEF TypeOK
  <2>4. Calling'
     BY <2>1, DueFacts, MoveCalling
  <2>5. ReadyToApply(p, row[p], seq[p])'
    <3>1. Own(p, row[p])'
       BY <1>2, <1>4, <1>16, <2>1 DEF Own
    <3>2. Journaled(p)'
       BY <1>2, <2>1 DEF Journaled
    <3>3. Pre(call[p].op, seq[p])'
       BY <1>2, <1>3, <1>8, <1>16, <2>1, <2>2 DEF Pre, FactsOf, Applied
    <3> QED BY <3>1, <3>2, <3>3 DEF ReadyToApply
  <2>6. Fits(p)' /\ ~HoldsSeq(p)'
     BY <2>1, <2>2, <2>5 DEF Fits, Fit, HoldsSeq, Writing
  <2> HIDE DEF o, r, s, x, goesOn, a
  <2> QED BY <1>3, <1>10, <1>11, <1>12, <1>13, <1>14, <1>15, <2>1, <2>3, <2>4, <2>6,
             DurableStep DEF Booting
<1>17. CASE ~goesOn
  <2>1. Leave(p, a)
     BY <1>3, <1>17
  <2> HIDE DEF o, r, s, x, goesOn, a
  <2>2. pc' = [pc EXCEPT ![p] = "idle"] /\ pc'[p] = "idle"
     BY <2>1 DEF Leave, TypeOK
  <2>3. TypeOK'
     BY <1>3, <1>4, <1>9, <2>1, LeaveLocal, DueFacts DEF TypeOK
  <2>4. Calling'
     BY <2>1, DueFacts, LeaveCalling
  <2>5. Fits(p)' /\ ~HoldsSeq(p)'
     BY <2>2 DEF Fits, Fit, HoldsSeq, Writing
  <2> QED BY <1>3, <1>10, <1>11, <1>12, <1>13, <1>14, <1>15, <2>2, <2>3, <2>4, <2>5,
             DurableStep DEF Booting
<1> QED BY <1>16, <1>17

-------------------------------------------------------------------------------
\* Chaining a call on its lock takes nobody's turn.
LEMMA SubmitStep ==
  ASSUME IInv, NEW p \in Callers, Submit(p)
  PROVE  IInv'
<1> TypeOK /\ Calling /\ Chained /\ Booting
   BY DEF IInv
<1> PICK c \in Requests : /\ call' = [call EXCEPT ![p] = c]
                          /\ gate' = [gate EXCEPT ![<<c.journal, c.op>>] = Append(@, p)]
   BY DEF Submit
<1> DEFINE g == <<c.journal, c.op>>
<1>1. /\ pc[p] = "idle" /\ pc' = [pc EXCEPT ![p] = "queued"]
      /\ answer' = [answer EXCEPT ![p] = None] /\ calls' = calls + 1
      /\ UNCHANGED <<durable, chain, pend, row, seq, crashes>>
   BY DEF Submit
<1>2. g \in Journals \X Ops /\ c.kind # "append"
   BY RequestFacts
<1>3. TypeOK'
  <2>1. Append(gate[g], p) \in Seq(Callers)
     BY <1>2 DEF TypeOK
  <2>2. gate' \in [Journals \X Ops -> Seq(Callers)]
     BY <1>2, <2>1 DEF TypeOK
  <2> QED BY <1>1, <2>2 DEF TypeOK, durable
<1>4. Calling'
  <2> SUFFICES ASSUME NEW q \in Callers
               PROVE  /\ pc'[q] # "idle" => call'[q] \in Requests \cup Appends
                      /\ pc'[q] = "queued" => Journaled(q)'
                      /\ Inside(q)' /\ Journaled(q)' => HasTurn(q)'
     BY DEF Calling
  <2>1. CASE q = p
     BY <2>1, <1>1, <1>2 DEF TypeOK, Journaled, Inside
  <2>2. CASE q # p
    <3>1. pc'[q] = pc[q] /\ call'[q] = call[q]
       BY <2>2, <1>1 DEF TypeOK
    <3>2. Inside(q) /\ Journaled(q) => HasTurn(q)'
      <4> SUFFICES ASSUME Inside(q), Journaled(q) PROVE HasTurn(q)'
         OBVIOUS
      <4>1. HasTurn(q) /\ Gate(q) \in Journals \X Ops /\ Gate(q)' = Gate(q)
         BY <3>1, CallFacts DEF Calling, Inside, Journaled, Gate
      <4>2. CASE Gate(q) # g
         BY <4>1, <4>2, <1>2 DEF HasTurn, TypeOK
      <4>3. CASE Gate(q) = g
        <5>1. gate[g] \in Seq(Callers) /\ gate'[g] = Append(gate[g], p)
           BY <1>2 DEF TypeOK
        <5>2. gate[g] # << >> /\ Head(gate[g]) = q
           BY <4>1, <4>3 DEF HasTurn
        <5>3. Append(gate[g], p) # << >> /\ Head(Append(gate[g], p)) = q
           BY <5>1, <5>2
        <5> QED BY <5>1, <5>3, <4>1, <4>3 DEF HasTurn
      <4> QED BY <4>2, <4>3
    <3> QED BY <3>1, <3>2 DEF Calling, Inside, Journaled
  <2> QED BY <2>1, <2>2
<1>5. Chained'
   BY <1>1, StayChained
<1>6. Booting'
   BY <1>1, BootingStay DEF durable
<1>7. OthersKeep(p)
   BY <1>1 DEF OthersKeep, TypeOK
<1>8. Fits(p)' /\ ~HoldsSeq(p)'
   BY <1>1 DEF TypeOK, Fits, Fit, HoldsSeq, Writing
<1> QED BY <1>1, <1>3, <1>4, <1>5, <1>6, <1>7, <1>8, QuietStep

\* A foreign append relies on nothing the journal guards.
LEMMA AppendFactStep ==
  ASSUME IInv, NEW p \in Callers, AppendFact(p)
  PROVE  IInv'
<1> TypeOK /\ Calling /\ Chained /\ Booting
   BY DEF IInv
<1> PICK c \in Appends : call' = [call EXCEPT ![p] = c]
   BY DEF AppendFact
<1>1. /\ pc[p] = "idle" /\ pc' = [pc EXCEPT ![p] = "allocate"]
      /\ answer' = [answer EXCEPT ![p] = None] /\ calls' = calls + 1
      /\ UNCHANGED <<durable, gate, chain, pend, row, seq, crashes>>
   BY DEF AppendFact
<1>2. pc'[p] = "allocate" /\ call'[p] = c /\ ~Journaled(p)'
   BY <1>1 DEF TypeOK, Journaled, Appends
<1>3. TypeOK'
   BY <1>1 DEF TypeOK, durable
<1>4. Calling'
   BY <1>1, <1>2 DEF Calling, TypeOK, Inside, Journaled, HasTurn, Gate
<1>5. Chained'
   BY <1>1, StayChained
<1>6. Booting'
   BY <1>1, BootingStay DEF durable
<1>7. OthersKeep(p)
   BY <1>1 DEF OthersKeep, TypeOK
<1>8. Fits(p)' /\ ~HoldsSeq(p)'
   BY <1>2 DEF Fits, Fit, HoldsSeq, Writing, ReadyToAppend
<1> QED BY <1>1, <1>3, <1>4, <1>5, <1>6, <1>7, <1>8, QuietStep

\* A crash leaves only durable state, of which the invariant holds.
LEMMA CrashStep ==
  ASSUME IInv, Crash
  PROVE  IInv'
<1> TypeOK
   BY DEF IInv
<1>1. TypeOK'
   BY DEF TypeOK, Crash, durable
<1>2. Calling' /\ Fitting' /\ Distinct'
   BY DEF Crash, Calling, Inside, Fitting, Fit, Distinct, HoldsSeq, Writing
<1>3. Chained' /\ Booting'
   BY DEF Crash, Chained, Booting, IInv, durable
<1>4. FactsRecorded' /\ AppliedAtMostOnce' /\ SequencesUnique' /\ CommittedIsApplied'
   BY DEF IInv, Crash, durable, FactsRecorded, AppliedAtMostOnce, SequencesUnique, CommittedIsApplied
<1> QED BY <1>1, <1>2, <1>3, <1>4 DEF IInv

\* The invariant holds initially.
LEMMA InitStep ==
  ASSUME Init
  PROVE  IInv
<1>1. TypeOK
  <2>1. /\ rows \in [Ops -> Row \cup {Absent}] /\ row \in [Callers -> Row \cup {Absent}]
        /\ answer \in [Callers -> Answer \cup {None}]
     BY DEF Init
  <2>2. /\ gate \in [Journals \X Ops -> Seq(Callers)] /\ chain \in Seq(Callers)
        /\ ledger \subseteq Fact /\ stamp \in [Teams -> Nat]
     BY DEF Init
  <2>3. /\ pend \in [Callers -> Write \cup {NoWrite}]
        /\ call \in [Callers -> Requests \cup Appends \cup {NoCall}]
        /\ seq \in [Callers -> Nat]
     BY DEF Init
  <2> QED BY <2>1, <2>2, <2>3 DEF Init, TypeOK
<1>2. Calling /\ Fitting /\ Distinct /\ Chained /\ Booting
   BY DEF Init, Calling, Inside, Fitting, Fit, Distinct, HoldsSeq, Writing, Chained, Booting
<1>3. FactsRecorded /\ AppliedAtMostOnce /\ SequencesUnique /\ CommittedIsApplied
   BY DEF Init, FactsRecorded, AppliedAtMostOnce, SequencesUnique, CommittedIsApplied, Absent
<1> QED BY <1>1, <1>2, <1>3 DEF IInv

-------------------------------------------------------------------------------
\* The next row differs in phase, child and generation only.
LEMMA NextRowFacts ==
  ASSUME NEW r \in Row, NEW ph \in Phases, NEW ch \in Children \cup {None}
  PROVE  /\ NextRow(r, ph, ch) \in Row
         /\ NextRow(r, ph, ch).phase = ph /\ NextRow(r, ph, ch).child = ch
         /\ NextRow(r, ph, ch).key = r.key /\ NextRow(r, ph, ch).intent = r.intent
         /\ NextRow(r, ph, ch).generation = r.generation + 1
<1> DEFINE r1 == [r EXCEPT !.phase = ph]
           r2 == [r1 EXCEPT !.child = ch]
           n  == r.generation + 1
           r3 == [r2 EXCEPT !.generation = n]
<1>1. r1 \in Row
   BY DEF Row
<1>2. r2 \in Row
   BY <1>1 DEF Row
<1>3. n \in Nat \ {0}
   BY DEF Row
<1> HIDE DEF r2, n
<1>4. r3 \in Row
   BY <1>2, <1>3 DEF Row
<1> USE DEF r2, n
<1>5. NextRow(r, ph, ch) = r3
   BY DEF NextRow, Row
<1>6. /\ r3.phase = ph /\ r3.child = ch /\ r3.key = r.key /\ r3.intent = r.intent
      /\ r3.generation = r.generation + 1
   BY DEF Row
<1> QED BY <1>4, <1>5, <1>6

\* findFact returns the sequence of a fact of the operation, or none exists.
LEMMA FactSeqFacts ==
  ASSUME IInv, NEW o \in Ops
  PROVE  Pre(o, FactSeq(o)) /\ FactSeq(o) \in Nat
<1>1. CASE FactsOf(o) = {}
   BY <1>1, FirstOfFacts DEF Pre
<1>2. CASE FactsOf(o) # {}
  <2>1. PICK f \in FactsOf(o) : TRUE
     BY <1>2
  <2>2. \A g \in FactsOf(o) : g = f /\ f.seq <= g.seq /\ f.seq \in Nat \ {0}
     BY <2>1 DEF FactsOf, IInv, AppliedAtMostOnce, TypeOK, Fact
  <2>3. FirstFact(o) \in FactsOf(o)
     BY <2>1, <2>2 DEF FirstFact
  <2>4. FactSeq(o) = f.seq
     BY <1>2, <2>2, <2>3 DEF FactSeq
  <2> QED BY <2>1, <2>2, <2>4 DEF Pre, Applied, FactsOf
<1> QED BY <1>1, <1>2

\* A call that enters has its turn and a row or none.
LEMMA EnterFacts ==
  ASSUME IInv, NEW p \in Callers, NEW kind, Enter(p, kind)
  PROVE  /\ Awake(p) /\ Journaled(p) /\ call[p] \in Requests /\ call[p].kind = kind
         /\ call[p].op \in Ops
         /\ rows[call[p].op] \in Row \cup {Absent}
         /\ UNCHANGED <<calls, crashes>>
<1>1. pc[p] = "queued" /\ Journaled(p) /\ call[p] \in Requests \cup Appends
   BY DEF Enter, IInv, Calling
<1>2. call[p] \in Requests /\ call[p].op \in Ops
   BY <1>1, CallFacts DEF Journaled
<1>3. Awake(p)
   BY <1>1 DEF Awake, HasTurn, Enter
<1> QED BY <1>1, <1>2, <1>3 DEF IInv, TypeOK, Enter

\* The first row of an operation may be written.
LEMMA FreshRowFacts ==
  ASSUME IInv, NEW p \in Callers, Journaled(p), call[p] \in Requests,
         call[p].kind \in {"prepare", "execute"}, rows[call[p].op] = Absent, NEW s
  PROVE  FreshRow(p) \in Row /\ Writable(p, FreshRow(p), s)
<1>1. FreshRow(p) \in Row /\ FreshRow(p).phase = "PREPARED" /\ FreshRow(p).generation = 1
   BY RequestFacts DEF FreshRow, Row, Phases
<1> QED BY <1>1 DEF Writable

\* Noting the child session on a PREPARED row may be written.
LEMMA NotedRowFacts ==
  ASSUME IInv, NEW p \in Callers, Journaled(p), call[p] \in Requests,
         NEW r \in Row, r = rows[call[p].op], r.phase = "PREPARED", r.child = None,
         NEW s, call[p].kind = "execute" => Pre(call[p].op, s)
  PROVE  /\ NextRow(r, "PREPARED", call[p].child) \in Row
         /\ Writable(p, NextRow(r, "PREPARED", call[p].child), s)
<1>1. call[p].child \in Children \cup {None} /\ "PREPARED" \in Phases
   BY RequestFacts DEF Phases
<1> QED BY <1>1, NextRowFacts DEF Writable

\* prepare preserves the invariant.
LEMMA PrepareStep ==
  ASSUME IInv, NEW p \in Callers, Prepare(p)
  PROVE  IInv'
<1> DEFINE r == rows[call[p].op]
<1> /\ Awake(p) /\ Journaled(p) /\ call[p] \in Requests /\ call[p].kind = "prepare"
    /\ r \in Row \cup {Absent} /\ UNCHANGED <<calls, crashes>>
   BY EnterFacts DEF Prepare
<1>1. CASE r = Absent /\ PutRow(p, FreshRow(p), 0)
   BY <1>1, FreshRowFacts, PutRowStep
<1>2. CASE /\ r.phase = "PREPARED" /\ ChildToRecord(p, r)
           /\ PutRow(p, NextRow(r, "PREPARED", call[p].child), 0)
  <2>1. r \in Row /\ r.child = None
     BY <1>2 DEF Absent, ChildToRecord
  <2> QED BY <1>2, <2>1, NotedRowFacts, PutRowStep
<1>3. CASE Return(p)
   BY <1>3, LeaveStep DEF Return
<1> QED BY <1>1, <1>2, <1>3 DEF Prepare

\* Replaying a terminal row preserves the invariant.
LEMMA ReplayStep ==
  ASSUME IInv, NEW p \in Callers, Awake(p), call[p].op \in Ops,
         rows[call[p].op].phase \in Terminal, Replay(p), UNCHANGED <<calls, crashes>>
  PROVE  IInv'
<1>1. [op |-> call[p].op, phase |-> rows[call[p].op].phase, seq |-> FactSeq(call[p].op)] \in Answer
   BY FactSeqFacts DEF Answer, Terminal, Phases
<1> QED BY <1>1, LeaveStep DEF Replay

\* Entering the apply phase preserves the invariant.
LEMMA BeginApplyStep ==
  ASSUME IInv, NEW p \in Callers, Awake(p), Journaled(p), call[p].op \in Ops,
         NEW r \in Row, r = rows[call[p].op], r.phase = "PREPARED",
         BeginApply(p, r, FactSeq(call[p].op)), UNCHANGED <<calls, crashes>>
  PROVE  IInv'
<1>1. Fit(p, "effect", NoWrite, r, FactSeq(call[p].op)) /\ FactSeq(call[p].op) \in Nat
   BY FactSeqFacts DEF Fit, ReadyToApply, Own
<1> QED BY <1>1, MoveStep DEF BeginApply

\* execute preserves the invariant.
LEMMA ExecuteStep ==
  ASSUME IInv, NEW p \in Callers, Execute(p)
  PROVE  IInv'
<1> DEFINE o == call[p].op
           r == rows[o]
<1> /\ Awake(p) /\ Journaled(p) /\ call[p] \in Requests /\ call[p].kind = "execute"
    /\ o \in Ops /\ r \in Row \cup {Absent} /\ UNCHANGED <<calls, crashes>>
   BY EnterFacts DEF Execute
<1>1. CASE r = Absent /\ PutRow(p, FreshRow(p), 0)
   BY <1>1, FreshRowFacts, PutRowStep
<1>2. CASE Return(p)
   BY <1>2, LeaveStep DEF Return
<1>3. CASE r.phase \in Terminal /\ Replay(p)
   BY <1>3, ReplayStep
<1>4. CASE /\ r # Absent /\ r.phase = "PREPARED" /\ ChildToRecord(p, r)
           /\ PutRow(p, NextRow(r, "PREPARED", call[p].child), FactSeq(o))
  <2>1. r \in Row /\ r.child = None
     BY <1>4 DEF ChildToRecord
  <2>2. Pre(o, FactSeq(o)) /\ FactSeq(o) \in Nat
     BY FactSeqFacts
  <2> QED BY <1>4, <2>1, <2>2, NotedRowFacts, PutRowStep
<1>5. CASE r # Absent /\ r.phase = "PREPARED" /\ BeginApply(p, r, FactSeq(o))
   BY <1>5, BeginApplyStep
<1> QED BY <1>1, <1>2, <1>3, <1>4, <1>5 DEF Execute

\* drive preserves the invariant.
LEMMA DriveStep ==
  ASSUME IInv, NEW p \in Callers, Drive(p)
  PROVE  IInv'
<1> DEFINE o == call[p].op
           r == rows[o]
<1> /\ Awake(p) /\ Journaled(p) /\ o \in Ops /\ r \in Row \cup {Absent}
    /\ UNCHANGED <<calls, crashes>>
   BY EnterFacts DEF Drive
<1>1. CASE Return(p)
   BY <1>1, LeaveStep DEF Return
<1>2. CASE r.phase \in Terminal /\ Replay(p)
   BY <1>2, ReplayStep
<1>3. CASE r # Absent /\ r.phase \notin Terminal /\ BeginApply(p, r, FactSeq(o))
  <2>1. r \in Row /\ r.phase = "PREPARED"
     BY <1>3 DEF Row, Phases, Terminal
  <2> QED BY <1>3, <2>1, BeginApplyStep
<1> QED BY <1>1, <1>2, <1>3 DEF Drive

\* fail preserves the invariant.
LEMMA FailStep ==
  ASSUME IInv, NEW p \in Callers, Fail(p)
  PROVE  IInv'
<1> DEFINE r == rows[call[p].op]
           new == NextRow(r, "FAILED", r.child)
<1> /\ Awake(p) /\ Journaled(p) /\ r \in Row \cup {Absent} /\ UNCHANGED <<calls, crashes>>
   BY EnterFacts DEF Fail
<1>1. CASE r.phase = "PREPARED" /\ PutRow(p, new, 0)
  <2>1. r \in Row /\ r.child \in Children \cup {None} /\ "FAILED" \in Phases
     BY <1>1 DEF Absent, Row, Phases
  <2>2. new \in Row /\ Writable(p, new, 0)
     BY <1>1, <2>1, NextRowFacts DEF Writable
  <2> HIDE DEF new
  <2> QED BY <1>1, <2>2, PutRowStep
<1>2. CASE Return(p)
   BY <1>2, LeaveStep DEF Return
<1> QED BY <1>1, <1>2 DEF Fail

\* recordChildSession preserves the invariant.
LEMMA RecordChildSessionStep ==
  ASSUME IInv, NEW p \in Callers, RecordChildSession(p)
  PROVE  IInv'
<1> DEFINE r == rows[call[p].op]
<1> /\ Awake(p) /\ Journaled(p) /\ call[p] \in Requests /\ call[p].kind = "record"
    /\ r \in Row \cup {Absent} /\ UNCHANGED <<calls, crashes>>
   BY EnterFacts DEF RecordChildSession
<1>1. CASE /\ r.phase = "PREPARED" /\ r.child = None
           /\ PutRow(p, NextRow(r, "PREPARED", call[p].child), 0)
  <2>1. r \in Row
     BY <1>1 DEF Absent
  <2> QED BY <1>1, <2>1, NotedRowFacts, PutRowStep
<1>2. CASE Return(p)
   BY <1>2, LeaveStep DEF Return
<1> QED BY <1>1, <1>2 DEF RecordChildSession

-------------------------------------------------------------------------------
\* A call at a stage of the apply phase is awake and fit for that stage.
LEMMA AtStage ==
  ASSUME IInv, NEW p \in Callers, pc[p] \in {"effect", "allocate", "fact", "stamp", "commit"}
  PROVE  /\ Awake(p) /\ Fits(p)
         /\ row[p] \in Row \cup {Absent} /\ seq[p] \in Nat
         /\ Journaled(p) => call[p].op \in Ops
         /\ call[p].op \in Ops \cup {None} /\ Team(p) \in Teams
<1>1. Inside(p) /\ pc[p] \notin {"idle", "writing"}
   BY DEF Inside
<1>2. call[p] \in Requests \cup Appends
   BY DEF IInv, Calling
<1> QED BY <1>1, <1>2, CallFacts DEF IInv, Calling, Fitting, Fits, Awake, TypeOK, Journaled, Team

\* Applying the effects, or skipping them, preserves the invariant.
LEMMA ApplyEffectsStep ==
  ASSUME IInv, NEW p \in Callers, ApplyEffects(p)
  PROVE  IInv'
<1>1. pc[p] = "effect" /\ UNCHANGED <<calls, crashes>>
   BY DEF ApplyEffects
<1>2. Awake(p) /\ row[p] \in Row \cup {Absent} /\ seq[p] \in Nat /\ ReadyToApply(p, row[p], seq[p])
   BY <1>1, AtStage DEF Fits, Fit
<1>3. CASE Issue(p, [type |-> "target"], row[p], seq[p])
  <2> DEFINE w == [type |-> "target"]
  <2>1. w \in Write /\ w.type = "target" /\ FitWrite(p, w, row[p], seq[p])
     BY <1>2 DEF Write, FitWrite
  <2>2. Issue(p, w, row[p], seq[p])
     BY <1>3
  <2> HIDE DEF w
  <2> QED BY <1>1, <1>2, <2>1, <2>2, IssueStep
<1>4. CASE /\ targets[call[p].op] /\ pc' = [pc EXCEPT ![p] = AfterEffects(p)]
           /\ UNCHANGED <<durable, gate, chain, pend, call, row, seq, answer>>
  <2>1. row' = [row EXCEPT ![p] = row[p]] /\ seq' = [seq EXCEPT ![p] = seq[p]]
     BY <1>4 DEF IInv, TypeOK
  <2>2. AfterEffects(p) \in {"effect", "allocate", "commit"}
     BY DEF AfterEffects
  <2>3. Fit(p, AfterEffects(p), NoWrite, row[p], seq[p])
     BY <1>2, <1>4 DEF Fit, AfterEffects, ReadyToApply, ReadyToAppend, ReadyToStamp, Pre
  <2>4. UNCHANGED <<durable, gate, chain, pend, call, answer, calls, crashes>>
     BY <1>1, <1>4
  <2>5. pc' = [pc EXCEPT ![p] = AfterEffects(p)]
     BY <1>4
  <2> QED BY <1>2, <2>1, <2>2, <2>3, <2>4, <2>5, MoveStep
<1> QED BY <1>3, <1>4 DEF ApplyEffects

\* allocateSequence preserves the invariant.
LEMMA AllocateSequenceStep ==
  ASSUME IInv, NEW p \in Callers, AllocateSequence(p)
  PROVE  IInv'
<1> DEFINE w == [type |-> IF booted THEN "increment" ELSE "boot"]
<1>1. pc[p] = "allocate" /\ Issue(p, w, row[p], seq[p]) /\ UNCHANGED <<calls, crashes>>
   BY DEF AllocateSequence
<1>2. Awake(p) /\ row[p] \in Row \cup {Absent} /\ seq[p] \in Nat /\ ReadyToAppend(p, row[p])
   BY <1>1, AtStage DEF Fits, Fit
<1>3. /\ w \in Write /\ FitWrite(p, w, row[p], seq[p]) /\ w.type # "fact"
      /\ w.type = "increment" => booted
      /\ w.type = "boot" => ~booted
   BY <1>2 DEF Write, FitWrite
<1> HIDE DEF w
<1> QED BY <1>1, <1>2, <1>3, IssueStep

\* LedgerRepository.put preserves the invariant.
LEMMA PutFactStep ==
  ASSUME IInv, NEW p \in Callers, PutFact(p)
  PROVE  IInv'
<1>1. pc[p] = "fact" /\ UNCHANGED <<calls, crashes>>
   BY DEF PutFact
<1>2. /\ Awake(p) /\ row[p] \in Row \cup {Absent} /\ seq[p] \in Nat
      /\ ReadyToAppend(p, row[p]) /\ Free(seq[p])
   BY <1>1, AtStage DEF Fits, Fit
<1>3. CASE Issue(p, [type |-> "fact", fact |-> NewFact(p)], row[p], seq[p])
  <2> DEFINE w == [type |-> "fact", fact |-> NewFact(p)]
  <2>1. NewFact(p) \in Fact
    <3>1. row[p].intent \in Intents \cup {None}
       BY <1>2 DEF Row, Absent
    <3>2. seq[p] \in Nat \ {0}
       BY <1>2 DEF Free
    <3>3. call[p].op \in Ops \cup {None} /\ Team(p) \in Teams
       BY <1>1, AtStage
    <3> QED BY <3>1, <3>2, <3>3 DEF NewFact, Fact
  <2>2. w \in Write /\ w.type = "fact" /\ FitWrite(p, w, row[p], seq[p])
     BY <1>2, <2>1 DEF Write, FitWrite, NewFact
  <2>3. Issue(p, w, row[p], seq[p])
     BY <1>3
  <2> HIDE DEF w
  <2> QED BY <1>1, <1>2, <2>2, <2>3, IssueStep
<1>4. CASE Return(p)
   BY <1>1, <1>2, <1>4, LeaveStep DEF Return
<1> QED BY <1>3, <1>4 DEF PutFact

\* Issuing the stamp preserves the invariant.
LEMMA AdvanceStampStep ==
  ASSUME IInv, NEW p \in Callers, AdvanceStamp(p)
  PROVE  IInv'
<1> DEFINE w == [type |-> "stamp"]
<1>1. pc[p] = "stamp" /\ Issue(p, w, row[p], seq[p]) /\ UNCHANGED <<calls, crashes>>
   BY DEF AdvanceStamp
<1>2. Awake(p) /\ row[p] \in Row \cup {Absent} /\ seq[p] \in Nat /\ ReadyToStamp(p, row[p], seq[p])
   BY <1>1, AtStage DEF Fits, Fit
<1>3. w \in Write /\ FitWrite(p, w, row[p], seq[p]) /\ w.type = "stamp"
   BY <1>2 DEF Write, FitWrite
<1> HIDE DEF w
<1> QED BY <1>1, <1>2, <1>3, IssueStep

\* Issuing the COMMITTED row preserves the invariant.
LEMMA CommitStep ==
  ASSUME IInv, NEW p \in Callers, Commit(p)
  PROVE  IInv'
<1> DEFINE r   == row[p]
           new == NextRow(r, "COMMITTED", r.child)
<1>1. pc[p] = "commit" /\ PutRow(p, new, seq[p]) /\ UNCHANGED <<calls, crashes>>
   BY DEF Commit
<1>2. /\ Awake(p) /\ seq[p] \in Nat /\ Journaled(p)
      /\ r \in Row /\ r = rows[call[p].op] /\ r.phase = "PREPARED"
      /\ Applied(call[p].op, seq[p]) /\ targets[call[p].op]
   BY <1>1, AtStage DEF Fits, Fit, ReadyToStamp, Own
<1>3. "COMMITTED" \in Phases /\ r.child \in Children \cup {None}
   BY <1>2 DEF Phases, Row
<1>4. new \in Row /\ Writable(p, new, seq[p])
   BY <1>2, <1>3, NextRowFacts DEF Writable
<1> HIDE DEF new
<1> QED BY <1>1, <1>2, <1>4, PutRowStep

\* Every write that becomes durable preserves the invariant.
LEMMA WriteDurableStep ==
  ASSUME OneJournalPerOperation, IInv, NEW p \in Callers, WriteDurable(p)
  PROVE  IInv'
<1>1. Due(p) /\ UNCHANGED <<calls, crashes>>
   BY DEF Due, WriteDurable
<1>2. CASE pend[p].type = "row" /\ RowWritten(p, pend[p].row)
   BY <1>1, <1>2, RowWrittenStep
<1>3. CASE pend[p].type = "target" /\ TargetWritten(p)
   BY <1>1, <1>3, TargetWrittenStep
<1>4. CASE pend[p].type = "boot" /\ CounterBooted(p)
   BY <1>1, <1>4, CounterBootedStep
<1>5. CASE pend[p].type = "increment" /\ CounterIncremented(p)
   BY <1>1, <1>5, CounterIncrementedStep
<1>6. CASE pend[p].type = "fact" /\ FactWritten(p, pend[p].fact)
   BY <1>1, <1>6, FactWrittenStep
<1>7. CASE pend[p].type = "stamp" /\ StampAdvanced(p)
   BY <1>1, <1>7, StampAdvancedStep
<1> QED BY <1>2, <1>3, <1>4, <1>5, <1>6, <1>7 DEF WriteDurable

\* Stuttering preserves the invariant.
LEMMA StutterStep ==
  ASSUME IInv, UNCHANGED vars
  PROVE  IInv'
<1>1. TypeOK' /\ Calling' /\ Chained' /\ Booting'
   BY DEF IInv, vars, durable, local, TypeOK, Calling, Inside, Journaled, HasTurn, Gate, Chained, Booting
<1>2. Distinct'
   BY DEF IInv, vars, local, Distinct, HoldsSeq, Writing
<1>3. FactsRecorded' /\ AppliedAtMostOnce' /\ SequencesUnique' /\ CommittedIsApplied'
   BY DEF IInv, vars, durable, FactsRecorded, AppliedAtMostOnce, SequencesUnique, CommittedIsApplied
<1>4. Fitting'
  <2> SUFFICES ASSUME NEW p \in Callers PROVE Fits(p)'
     BY DEF Fitting, Fits
  <2>1. Fits(p)
     BY DEF IInv, Fitting, Fits
  <2> QED BY <2>1 DEF vars, durable, local, Fits, Fit, FitWrite, Writable, ReadyToApply,
             ReadyToAppend, ReadyToStamp, Own, Pre, Applied, Free, FactsOf, Journaled, Team
<1> QED BY <1>1, <1>2, <1>3, <1>4 DEF IInv

\* Every step of the journal preserves the invariant.
LEMMA Inductive ==
  ASSUME OneJournalPerOperation, IInv, [Next]_vars
  PROVE  IInv'
<1>1. ASSUME NEW p \in Callers, Submit(p) \/ AppendFact(p)
      PROVE  IInv'
   BY <1>1, SubmitStep, AppendFactStep
<1>2. ASSUME NEW p \in Callers, Step(p)
      PROVE  IInv'
   BY <1>2, PrepareStep, ExecuteStep, DriveStep, FailStep, RecordChildSessionStep,
      ApplyEffectsStep, AllocateSequenceStep, PutFactStep, AdvanceStampStep, CommitStep DEF Step
<1>3. ASSUME NEW p \in Callers, Settle(p)
      PROVE  IInv'
   BY <1>3, WriteDurableStep, RejectedStep DEF Settle
<1>4. CASE Crash
   BY <1>4, CrashStep
<1>5. CASE Rest \/ UNCHANGED vars
   BY <1>5, StutterStep DEF Rest
<1> QED BY <1>1, <1>2, <1>3, <1>4, <1>5 DEF Next

===============================================================================
