----------------------- MODULE OperationJournalProofs -----------------------
(***************************************************************************)
(* The theorems about OperationJournal: every safety property its runs     *)
(* check, and the refinement of OperationProtocol, for all values of the   *)
(* constants.  All rest on the inductive invariant and on one assumption,  *)
(* OneJournalPerOperation.                                                 *)
(***************************************************************************)
EXTENDS OperationJournalInvariant, FiniteSetTheorems

USE JournalAssumption DEF AnyGeneration

\* The inductive invariant holds in every reachable state: of any number of teams,
\* journals, operations and callers, after any number of crashes and failed writes.
THEOREM JournalInvariant == ASSUME OneJournalPerOperation PROVE Spec => []IInv
<1>1. Init => IInv
   BY InitStep
<1>2. IInv /\ [Next]_vars => IInv'
   BY Inductive
<1> QED BY <1>1, <1>2, PTL DEF Spec

\* Every variable keeps its type; in particular no row is ever written half-formed.
THEOREM TypeCorrect == ASSUME OneJournalPerOperation PROVE Spec => []TypeOK
<1>1. IInv => TypeOK
   BY DEF IInv
<1> QED BY <1>1, JournalInvariant, PTL

\* journal.ts applyPhase: no retry, race, failed write or crash appends a second fact
\* for an operation, when every operation id belongs to one journal.
THEOREM AppliedOnce == ASSUME OneJournalPerOperation PROVE Spec => []AppliedAtMostOnce
<1>1. IInv => AppliedAtMostOnce
   BY DEF IInv
<1> QED BY <1>1, JournalInvariant, PTL

\* journal.ts applyPhase: a COMMITTED row always has its effects and its fact behind it.
THEOREM CommittedApplied == ASSUME OneJournalPerOperation PROVE Spec => []CommittedIsApplied
<1>1. IInv => CommittedIsApplied
   BY DEF IInv
<1> QED BY <1>1, JournalInvariant, PTL

\* ledger.ts allocateSequence: concurrent bootstraps and increments never hand out a
\* sequence twice, and no entry exceeds the counter.
THEOREM SequencesAllocated == ASSUME OneJournalPerOperation PROVE Spec => []SequencesUnique
<1>1. IInv => SequencesUnique
   BY DEF IInv
<1> QED BY <1>1, JournalInvariant, PTL

-------------------------------------------------------------------------------
\* One row is written: a first PREPARED one, or the next of a PREPARED one.
RowMoves(o) ==
  /\ UNCHANGED ledger
  /\ \E r \in Row :
       /\ rows' = [rows EXCEPT ![o] = r]
       /\ \/ rows[o] = Absent /\ r.phase = "PREPARED"
          \/ /\ rows[o] \in Row /\ rows[o].phase = "PREPARED"
             /\ r.key = rows[o].key /\ r.intent = rows[o].intent
             /\ rows[o].child \in {None, r.child}
             /\ r.phase = "COMMITTED" => FactsOf(o) # {}
       /\ r.generation = rows[o].generation + 1

\* One fact is appended: a foreign one, or the first of a PREPARED operation.
FactAdded ==
  /\ UNCHANGED rows
  /\ \E f \in Fact :
       /\ ledger' = ledger \cup {f}
       /\ f.op # None => /\ rows[f.op].phase = "PREPARED"
                         /\ rows[f.op].intent = f.intent
                         /\ FactsOf(f.op) = {}

\* Between two awaits nothing becomes durable.
LEMMA StepsAreVolatile ==
  ASSUME NEW p \in Callers, Step(p)
  PROVE  UNCHANGED durable
<1>1. PutRow(p, FreshRow(p), 0) => UNCHANGED durable
   BY DEF PutRow, Issue, Return
<1>2. \A r, s : PutRow(p, r, s) => UNCHANGED durable
   BY DEF PutRow, Issue, Return
<1>3. CASE Prepare(p) \/ Fail(p) \/ RecordChildSession(p)
   BY <1>2, <1>3 DEF Prepare, Fail, RecordChildSession, Return
<1>4. CASE Execute(p) \/ Drive(p)
   BY <1>2, <1>4 DEF Execute, Drive, Return, Replay, BeginApply
<1>5. CASE ApplyEffects(p) \/ AllocateSequence(p) \/ PutFact(p) \/ AdvanceStamp(p) \/ Commit(p)
   BY <1>2, <1>5 DEF ApplyEffects, AllocateSequence, PutFact, AdvanceStamp, Commit, Issue, Return
<1> QED BY <1>3, <1>4, <1>5 DEF Step

\* Every step moves one row on, adds one first fact, or leaves both stores alone.
LEMMA DurableMoves ==
  ASSUME IInv, [Next]_vars
  PROVE  UNCHANGED <<rows, ledger>> \/ (\E o \in Ops : RowMoves(o)) \/ FactAdded
<1>1. ASSUME NEW p \in Callers, WriteDurable(p)
      PROVE  UNCHANGED <<rows, ledger>> \/ (\E o \in Ops : RowMoves(o)) \/ FactAdded
  <2> DEFINE o == call[p].op
             r == row[p]
             s == seq[p]
  <2>1. Due(p)
     BY <1>1 DEF Due, WriteDurable
  <2>2. /\ FitWrite(p, pend[p], r, s)
        /\ Journaled(p) => o \in Ops /\ rows[o] \in Row \cup {Absent}
        /\ ~Journaled(p) => o = None
        /\ o \in Ops \cup {None} /\ Team(p) \in Teams
     BY <2>1, DueFacts DEF IInv, TypeOK
  <2>3. CASE pend[p].type = "row" /\ RowWritten(p, pend[p].row)
    <3>1. Writable(p, r, s) /\ pend[p].row = r
       BY <2>2, <2>3, WriteCases
    <3>2. rows' = [rows EXCEPT ![o] = r] /\ UNCHANGED ledger
       BY <2>3, <3>1 DEF RowWritten
    <3>3. o \in Ops /\ rows[o] \in Row \cup {Absent} /\ r \in Row
       BY <2>2, <3>1 DEF Writable
    <3>4. CASE rows[o] = Absent
      <4>1. rows[o].phase = "ABSENT" /\ rows[o].generation = 0
         BY <3>4 DEF Absent
      <4>2. r.phase = "PREPARED" /\ r.generation = rows[o].generation + 1
         BY <3>1, <4>1 DEF Writable
      <4> QED BY <3>2, <3>3, <3>4, <4>2 DEF RowMoves
    <3>5. CASE rows[o] # Absent
      <4>1. rows[o] \in Row
         BY <3>3, <3>5
      <4>2. /\ rows[o].phase = "PREPARED" /\ r.generation = rows[o].generation + 1
            /\ r.key = rows[o].key /\ r.intent = rows[o].intent /\ rows[o].child \in {None, r.child}
            /\ r.phase = "COMMITTED" => FactsOf(o) # {}
         BY <3>1, <3>5 DEF Writable, Applied, FactsOf
      <4> QED BY <3>2, <3>3, <4>1, <4>2 DEF RowMoves
    <3> QED BY <3>4, <3>5
  <2>4. CASE pend[p].type = "fact" /\ FactWritten(p, pend[p].fact)
    <3> DEFINE f == FactFrom(p, r, s)
    <3>1. ReadyToAppend(p, r) /\ Free(s) /\ pend[p].fact = f
       BY <2>2, <2>4, WriteCases
    <3>2. f.op = o /\ f.intent = r.intent
       BY DEF FactFrom
    <3>3. f \in Fact
      <4>1. r.intent \in Intents \cup {None} /\ s \in Nat \ {0}
         BY <3>1 DEF IInv, TypeOK, Row, Absent, Free
      <4> QED BY <2>2, <4>1 DEF FactFrom, Fact
    <3>4. ledger' = ledger \cup {f} /\ UNCHANGED rows
       BY <2>4, <3>1 DEF FactWritten
    <3>5. o # None => rows[o].phase = "PREPARED" /\ rows[o].intent = r.intent /\ FactsOf(o) = {}
       BY <2>2, <3>1 DEF ReadyToAppend, Own
    <3> HIDE DEF f
    <3> QED BY <3>2, <3>3, <3>4, <3>5 DEF FactAdded
  <2>5. CASE TargetWritten(p) \/ CounterBooted(p) \/ CounterIncremented(p) \/ StampAdvanced(p)
     BY <2>5 DEF TargetWritten, CounterBooted, CounterIncremented, StampAdvanced
  <2> QED BY <1>1, <2>3, <2>4, <2>5 DEF WriteDurable
<1>2. ASSUME NEW p \in Callers, Submit(p) \/ AppendFact(p) \/ Step(p) \/ WriteRejected(p)
      PROVE  UNCHANGED <<rows, ledger>>
   BY <1>2, StepsAreVolatile DEF Submit, AppendFact, WriteRejected, durable
<1>3. CASE Crash \/ Rest \/ UNCHANGED vars
   BY <1>3 DEF Crash, Rest, vars, durable
<1> QED BY <1>1, <1>2, <1>3 DEF Next, Settle

\* Every such step rolls forward.
LEMMA MovesRollForward ==
  ASSUME IInv, [Next]_vars
  PROVE  RollForward
<1>1. CASE UNCHANGED <<rows, ledger>>
   BY <1>1 DEF RollForward
<1>2. ASSUME NEW o \in Ops, RowMoves(o) PROVE RollForward
  <2>1. \A q \in Ops \ {o} : rows'[q] = rows[q]
     BY <1>2 DEF RowMoves, IInv, TypeOK
  <2>2. PICK r \in Row : /\ rows'[o] = r
                         /\ \/ rows[o] = Absent /\ r.phase = "PREPARED"
                            \/ /\ rows[o] \in Row /\ rows[o].phase = "PREPARED"
                               /\ r.key = rows[o].key /\ r.intent = rows[o].intent
                               /\ rows[o].child \in {None, r.child}
                         /\ r.generation = rows[o].generation + 1
     BY <1>2 DEF RowMoves, IInv, TypeOK
  <2>3. rows[o].phase \notin Terminal
     BY <2>2 DEF Terminal, Absent
  <2> QED BY <1>2, <2>1, <2>2, <2>3 DEF RollForward, RowMoves
<1>3. CASE FactAdded
   BY <1>3 DEF RollForward, FactAdded
<1> QED BY <1>1, <1>2, <1>3, DurableMoves

\* journal.ts and operations.ts: rows only move on from PREPARED, keep their identity and
\* their recorded child, and entries are never removed.
THEOREM RolledForward == ASSUME OneJournalPerOperation PROVE Spec => NeverRolledBack
<1>1. IInv /\ [Next]_vars => [RollForward]_vars
   BY MovesRollForward
<1> QED BY <1>1, JournalInvariant, PTL DEF Spec, NeverRolledBack

-------------------------------------------------------------------------------
\* The initial states map to initial states of the protocol.
LEMMA ProtocolInit ==
  ASSUME Init
  PROVE  Protocol!Init
  BY DEF Init, Protocol!Init, FactsOf, Absent

\* Every step maps to a step of the protocol or to a stutter.
LEMMA ProtocolStep ==
  ASSUME IInv, [Next]_vars
  PROVE  [Protocol!Next]_Protocol!vars
<1> DEFINE phase   == [o \in Ops |-> rows[o].phase]
           intent  == [o \in Ops |-> rows[o].intent]
           applied == [o \in Ops |-> {[seq |-> f.seq, intent |-> f.intent] : f \in FactsOf(o)}]
<1>1. CASE UNCHANGED <<rows, ledger>>
   BY <1>1 DEF Protocol!vars, FactsOf
<1>2. ASSUME NEW o \in Ops, RowMoves(o)
      PROVE  [Protocol!Next]_Protocol!vars
  <2>1. applied' = applied
     BY <1>2 DEF RowMoves, FactsOf
  <2>2. PICK r \in Row : /\ rows' = [rows EXCEPT ![o] = r]
                         /\ \/ rows[o] = Absent /\ r.phase = "PREPARED"
                            \/ /\ rows[o] \in Row /\ rows[o].phase = "PREPARED"
                               /\ r.intent = rows[o].intent
                               /\ r.phase = "COMMITTED" => FactsOf(o) # {}
     BY <1>2 DEF RowMoves
  <2>3. phase' = [phase EXCEPT ![o] = r.phase] /\ intent' = [intent EXCEPT ![o] = r.intent]
     BY <2>2 DEF IInv, TypeOK
  <2>4. CASE rows[o] = Absent
    <3>0. rows[o].phase = "ABSENT" /\ r.intent \in Intents
       BY <2>4 DEF Absent, Row
    <3>1. phase[o] = "ABSENT" /\ r.intent \in Intents /\ phase' = [phase EXCEPT ![o] = "PREPARED"]
       BY <2>2, <2>3, <3>0
    <3>2. Protocol!Begin(o)
       BY <2>1, <2>3, <3>1 DEF Protocol!Begin
    <3> QED BY <3>2 DEF Protocol!Next
  <2>5. CASE rows[o] # Absent
    <3>1. phase[o] = "PREPARED" /\ intent[o] = r.intent
       BY <2>2, <2>5
    <3>2. intent' = intent
       BY <2>3, <3>1
    <3>3. CASE r.phase = "PREPARED"
      <4>1. phase' = phase
         BY <2>3, <3>1, <3>3
      <4> QED BY <2>1, <3>2, <4>1 DEF Protocol!vars
    <3>4. CASE r.phase = "COMMITTED"
      <4>1. PICK f \in FactsOf(o) : TRUE
         BY <2>2, <2>5, <3>4
      <4>2. [seq |-> f.seq, intent |-> f.intent] \in applied[o]
         BY <4>1
      <4>3. applied[o] # {}
         BY <4>2
      <4>4. Protocol!Settle(o)
         BY <2>1, <2>3, <3>1, <3>2, <3>4, <4>3 DEF Protocol!Settle
      <4> QED BY <4>4 DEF Protocol!Next
    <3>5. CASE r.phase = "FAILED"
      <4>1. Protocol!Settle(o)
         BY <2>1, <2>3, <3>1, <3>2, <3>5 DEF Protocol!Settle
      <4> QED BY <4>1 DEF Protocol!Next
    <3> QED BY <3>3, <3>4, <3>5 DEF Row, Phases
  <2> QED BY <2>4, <2>5
<1>3. CASE FactAdded
  <2>1. PICK f \in Fact : /\ ledger' = ledger \cup {f}
                          /\ f.op # None => /\ rows[f.op].phase = "PREPARED"
                                            /\ rows[f.op].intent = f.intent
                                            /\ FactsOf(f.op) = {}
     BY <1>3 DEF FactAdded
  <2>2. phase' = phase /\ intent' = intent
     BY <1>3 DEF FactAdded
  <2>3. \A o \in Ops : FactsOf(o)' = IF o = f.op THEN FactsOf(o) \cup {f} ELSE FactsOf(o)
     BY <2>1 DEF FactsOf
  <2>4. CASE f.op = None
    <3>1. \A o \in Ops : FactsOf(o)' = FactsOf(o)
       BY <2>3, <2>4
    <3>2. applied' = applied
       BY <3>1
    <3> QED BY <2>2, <3>2 DEF Protocol!vars
  <2>5. CASE f.op # None
    <3> DEFINE o == f.op
               g == [seq |-> f.seq, intent |-> f.intent]
    <3>1. o \in Ops
       BY <2>5 DEF Fact
    <3>2. phase[o] = "PREPARED" /\ intent[o] = f.intent /\ applied[o] = {}
       BY <2>1, <2>5, <3>1
    <3>3. FactsOf(o)' = {f} /\ \A q \in Ops \ {o} : FactsOf(q)' = FactsOf(q)
       BY <2>1, <2>3, <2>5, <3>1
    <3>4. applied' = [applied EXCEPT ![o] = {g}]
      <4>1. applied'[o] = {g}
         BY <3>1, <3>3
      <4>2. \A q \in Ops \ {o} : applied'[q] = applied[q]
         BY <3>3
      <4>3. applied' = [q \in Ops |-> applied'[q]] /\ applied = [q \in Ops |-> applied[q]]
         OBVIOUS
      <4> HIDE DEF applied
      <4> QED BY <3>1, <4>1, <4>2, <4>3
    <3>5. g \in applied'[o] /\ g.intent = intent[o]
       BY <3>1, <3>2, <3>4
    <3>6. Protocol!Apply(o)
       BY <2>2, <3>2, <3>4, <3>5 DEF Protocol!Apply
    <3> QED BY <3>1, <3>6 DEF Protocol!Next
  <2> QED BY <2>4, <2>5
<1> QED BY <1>1, <1>2, <1>3, DurableMoves

\* The journal implements OperationProtocol: its rows and linked facts, seen together,
\* take no step but begin, apply once and settle.
THEOREM JournalImplementsProtocol == ASSUME OneJournalPerOperation PROVE Spec => ImplementsProtocol
<1>1. Init => Protocol!Init
   BY ProtocolInit
<1>2. IInv /\ [Next]_vars => [Protocol!Next]_Protocol!vars
   BY ProtocolStep
<1> QED BY <1>1, <1>2, JournalInvariant, PTL DEF Spec, ImplementsProtocol, Protocol!Spec

-------------------------------------------------------------------------------
\* Report a is true of the durable rows; so is every report; p reports a.
Lasting(a) == /\ a.op \in Ops /\ a.phase \in Terminal
              /\ rows[a.op].phase = a.phase
              /\ a.phase = "COMMITTED" => Applied(a.op, a.seq)

AnswersLast == \A p \in Callers : answer[p] # None => Lasting(answer[p])

NewAnswer(p, a) == answer' = [answer EXCEPT ![p] = a] /\ (a = None \/ Lasting(a)')

\* A report that is true stays true.
LEMMA LastingKept ==
  ASSUME IInv, [Next]_vars, NEW a, Lasting(a)
  PROVE  Lasting(a)'
  BY MovesRollForward DEF Lasting, RollForward, Applied

\* Reports stay true if the new one, when there is one, is true.
LEMMA AnswersKept ==
  ASSUME IInv, [Next]_vars, AnswersLast, NEW p \in Callers,
         UNCHANGED answer \/ \E a : NewAnswer(p, a)
  PROVE  AnswersLast'
<1> SUFFICES ASSUME NEW q \in Callers, answer'[q] # None PROVE Lasting(answer[q])'
   BY DEF AnswersLast
<1>1. CASE answer'[q] = answer[q]
  <2>1. Lasting(answer[q])
     BY <1>1 DEF AnswersLast
  <2>2. \A a : Lasting(a) => Lasting(a)'
     BY LastingKept
  <2> QED BY <1>1, <2>1, <2>2 DEF Lasting, Applied
<1>2. CASE answer'[q] # answer[q]
  <2>1. PICK a : NewAnswer(p, a)
     BY <1>2
  <2>2. answer'[q] = a /\ Lasting(a)'
     BY <1>2, <2>1 DEF NewAnswer, IInv, TypeOK
  <2> QED BY <2>2 DEF Lasting, Applied
<1> QED BY <1>1, <1>2

\* A replayed result is true.
LEMMA ReplayLasts ==
  ASSUME IInv, NEW p \in Callers, Replay(p), call[p].op \in Ops,
         rows[call[p].op].phase \in Terminal
  PROVE  \E a : NewAnswer(p, a)
<1> DEFINE o == call[p].op
<1> PICK a : a = [op |-> o, phase |-> rows[o].phase, seq |-> FactSeq(o)]
   OBVIOUS
<1>1. answer' = [answer EXCEPT ![p] = a] /\ UNCHANGED durable
   BY DEF Replay, Leave
<1>2. rows[o].phase = "COMMITTED" => Applied(o, FactSeq(o))
  <2>1. Pre(o, FactSeq(o))
     BY FactSeqFacts
  <2>2. rows[o].phase = "COMMITTED" => FactsOf(o) # {}
     BY DEF IInv, CommittedIsApplied, FactsOf
  <2> QED BY <2>1, <2>2 DEF Pre
<1>3. a.op = o /\ a.phase = rows[o].phase /\ a.seq = FactSeq(o)
   OBVIOUS
<1>4. Lasting(a)
   BY <1>2, <1>3 DEF Lasting
<1>5. Lasting(a)'
   BY <1>1, <1>4 DEF Lasting, Applied, durable
<1> QED BY <1>1, <1>5 DEF NewAnswer

\* Between two awaits only a replay reports.
LEMMA StepAnswers ==
  ASSUME IInv, NEW p \in Callers, Step(p)
  PROVE  UNCHANGED answer \/ \E a : NewAnswer(p, a)
<1>1. Return(p) => NewAnswer(p, None)
   BY DEF Return, Leave, NewAnswer
<1>2. \A r, s : PutRow(p, r, s) => UNCHANGED answer \/ \E a : NewAnswer(p, a)
   BY <1>1 DEF PutRow, Issue
<1>3. CASE Prepare(p) \/ Fail(p) \/ RecordChildSession(p)
   BY <1>1, <1>2, <1>3 DEF Prepare, Fail, RecordChildSession
<1>4. CASE Execute(p)
   BY <1>1, <1>2, <1>4, EnterFacts, ReplayLasts DEF Execute, BeginApply
<1>5. CASE Drive(p)
   BY <1>1, <1>5, EnterFacts, ReplayLasts DEF Drive, BeginApply
<1>6. CASE ApplyEffects(p) \/ AllocateSequence(p) \/ PutFact(p) \/ AdvanceStamp(p) \/ Commit(p)
   BY <1>1, <1>2, <1>6 DEF ApplyEffects, AllocateSequence, PutFact, AdvanceStamp, Commit, Issue
<1> QED BY <1>3, <1>4, <1>5, <1>6 DEF Step

\* A write reports only when it commits the row.
LEMMA WriteAnswers ==
  ASSUME IInv, NEW p \in Callers, WriteDurable(p)
  PROVE  UNCHANGED answer \/ \E a : NewAnswer(p, a)
<1>1. Due(p)
   BY DEF Due, WriteDurable
<1>2. CASE pend[p].type = "row" /\ RowWritten(p, pend[p].row)
  <2> DEFINE o == call[p].op
             r == row[p]
             s == seq[p]
  <2> PICK a : a = IF r.phase = "COMMITTED" THEN [op |-> o, phase |-> r.phase, seq |-> s] ELSE None
     OBVIOUS
  <2>1. Writable(p, r, s) /\ pend[p].row = r
     BY <1>1, <1>2, DueFacts, WriteCases
  <2>2. o \in Ops
     BY <1>1, <2>1, DueFacts DEF Writable
  <2>3. /\ rows' = [rows EXCEPT ![o] = r] /\ UNCHANGED ledger
        /\ UNCHANGED answer \/ answer' = [answer EXCEPT ![p] = a]
     BY <1>2, <2>1 DEF RowWritten, Resume, Leave
  <2>4. CASE r.phase = "COMMITTED"
    <3>1. Applied(o, s)
       BY <2>1, <2>4 DEF Writable
    <3>2. rows'[o] = r
       BY <2>2, <2>3 DEF IInv, TypeOK
    <3>3. a.op = o /\ a.phase = r.phase /\ a.seq = s
       BY <2>4
    <3>4. Lasting(a)'
       BY <2>2, <2>3, <2>4, <3>1, <3>2, <3>3 DEF Lasting, Applied, Terminal
    <3> QED BY <2>3, <3>4 DEF NewAnswer
  <2>5. CASE r.phase # "COMMITTED"
     BY <2>3, <2>5 DEF NewAnswer
  <2> QED BY <2>4, <2>5
<1>3. CASE ~(pend[p].type = "row" /\ RowWritten(p, pend[p].row))
  <2>1. UNCHANGED answer \/ answer' = [answer EXCEPT ![p] = None]
     BY <1>3 DEF WriteDurable, TargetWritten, CounterBooted, CounterIncremented, FactWritten,
                 StampAdvanced, Resume, Leave
  <2> QED BY <2>1 DEF NewAnswer
<1> QED BY <1>2, <1>3

\* Every step preserves the truth of the reports.
LEMMA AnswersInductive ==
  ASSUME IInv, AnswersLast, [Next]_vars
  PROVE  AnswersLast'
<1>1. ASSUME NEW p \in Callers, Submit(p) \/ AppendFact(p) \/ WriteRejected(p)
      PROVE  AnswersLast'
  <2>1. answer' = [answer EXCEPT ![p] = None]
     BY <1>1 DEF Submit, AppendFact, WriteRejected, Leave
  <2>2. NewAnswer(p, None)
     BY <2>1 DEF NewAnswer
  <2> QED BY <2>2, AnswersKept
<1>2. ASSUME NEW p \in Callers, Step(p)
      PROVE  AnswersLast'
   BY <1>2, StepAnswers, AnswersKept
<1>3. ASSUME NEW p \in Callers, WriteDurable(p)
      PROVE  AnswersLast'
   BY <1>3, WriteAnswers, AnswersKept
<1>4. CASE Crash
   BY <1>4 DEF Crash, AnswersLast
<1>5. CASE Rest \/ UNCHANGED vars
   BY <1>5 DEF Rest, vars, durable, local, AnswersLast, Lasting, Applied
<1> QED BY <1>1, <1>2, <1>3, <1>4, <1>5 DEF Next, Settle

\* journal.ts durableResult: what execute or drive reported stays true of the durable rows,
\* whatever happens after the report.
THEOREM AnswersDurable == ASSUME OneJournalPerOperation PROVE Spec => []AnswersAreDurable
<1>1. Init => AnswersLast
   BY DEF Init, AnswersLast
<1>2. IInv /\ AnswersLast /\ [Next]_vars => AnswersLast'
   BY AnswersInductive
<1>3. AnswersLast => AnswersAreDurable
   BY DEF AnswersLast, AnswersAreDurable, Lasting, Applied
<1> QED BY <1>1, <1>2, <1>3, JournalInvariant, PTL DEF Spec

-------------------------------------------------------------------------------
\* p has made a fact durable and still owes its team an advance of the stamp.
OwesStamp(p) == pc[p] = "stamp" \/ Writing(p, "stamp")
Debtors(t) == {p \in Callers : OwesStamp(p) /\ Team(p) = t}

\* Advances made and advances owed never exceed the facts.
StampOwed ==
  /\ IsFiniteSet(ledger)
  /\ \A t \in Teams :
       /\ IsFiniteSet(Debtors(t))
       /\ stamp[t] + Cardinality(Debtors(t)) <= 1 + Cardinality(TeamFacts(t))

\* The facts of a team are finite in number.
LEMMA TeamFactsFinite ==
  ASSUME IsFiniteSet(ledger), NEW t
  PROVE  IsFiniteSet(TeamFacts(t)) /\ Cardinality(TeamFacts(t)) \in Nat
<1>1. TeamFacts(t) \in SUBSET ledger
   BY DEF TeamFacts
<1> QED BY <1>1, FS_Subset, FS_CardinalityType

\* The account balances if nobody incurs a debt and nothing is written.
LEMMA NoNewDebtor ==
  ASSUME IInv, StampOwed, UNCHANGED <<stamp, ledger>>,
         \A p \in Callers : OwesStamp(p)' => OwesStamp(p) /\ call'[p] = call[p]
  PROVE  StampOwed'
<1> SUFFICES ASSUME NEW t \in Teams
             PROVE  /\ IsFiniteSet(Debtors(t))'
                    /\ (stamp[t] + Cardinality(Debtors(t)) <= 1 + Cardinality(TeamFacts(t)))'
   BY DEF StampOwed
<1>1. Debtors(t)' \in SUBSET Debtors(t)
   BY DEF Debtors, Team
<1>2. IsFiniteSet(Debtors(t)) /\ stamp[t] + Cardinality(Debtors(t)) <= 1 + Cardinality(TeamFacts(t))
   BY DEF StampOwed
<1>3. /\ IsFiniteSet(Debtors(t)') /\ Cardinality(Debtors(t)') <= Cardinality(Debtors(t))
      /\ Cardinality(Debtors(t)) \in Nat /\ Cardinality(Debtors(t)') \in Nat
   BY <1>1, <1>2, FS_Subset, FS_CardinalityType
<1>4. TeamFacts(t)' = TeamFacts(t) /\ stamp'[t] = stamp[t] /\ stamp[t] \in Nat
   BY DEF TeamFacts, IInv, TypeOK
<1>5. Cardinality(TeamFacts(t)) \in Nat
   BY TeamFactsFinite DEF StampOwed
<1> QED BY <1>2, <1>3, <1>4, <1>5

\* A durable fact makes its caller owe one advance.
LEMMA DebtorAdded ==
  ASSUME IInv, StampOwed, NEW p \in Callers, Due(p), pend[p].type = "fact",
         FactWritten(p, pend[p].fact)
  PROVE  StampOwed'
<1> DEFINE f == FactFrom(p, row[p], seq[p])
<1>1. Free(seq[p]) /\ pend[p].fact = f /\ pc[p] = "writing" /\ Team(p) \in Teams
   BY DueFacts, WriteCases
<1>2. f.seq = seq[p] /\ f.team = Team(p)
   BY DEF FactFrom
<1>3. f \notin ledger /\ ledger' = ledger \cup {f} /\ UNCHANGED stamp
   BY <1>1, <1>2 DEF Free, FactWritten
<1> HIDE DEF f
<1>4. /\ ~OwesStamp(p) /\ OwesStamp(p)'
      /\ \A q \in Callers \ {p} : OwesStamp(q)' <=> OwesStamp(q)
      /\ UNCHANGED call
   BY <1>1 DEF OwesStamp, Writing, FactWritten, Resume, Due, IInv, TypeOK
<1>5. IsFiniteSet(ledger')
   BY <1>3, FS_AddElement DEF StampOwed
<1>6. ASSUME NEW t \in Teams
      PROVE  /\ IsFiniteSet(Debtors(t))'
             /\ (stamp[t] + Cardinality(Debtors(t)) <= 1 + Cardinality(TeamFacts(t)))'
  <2>1. IsFiniteSet(Debtors(t)) /\ stamp[t] + Cardinality(Debtors(t)) <= 1 + Cardinality(TeamFacts(t))
     BY DEF StampOwed
  <2>2. /\ IsFiniteSet(TeamFacts(t)) /\ Cardinality(TeamFacts(t)) \in Nat
        /\ Cardinality(Debtors(t)) \in Nat /\ stamp[t] \in Nat /\ stamp'[t] = stamp[t]
     BY <1>3, <2>1, TeamFactsFinite, FS_CardinalityType DEF StampOwed, IInv, TypeOK
  <2>3. CASE t = Team(p)
    <3>1. Debtors(t)' = Debtors(t) \cup {p} /\ p \notin Debtors(t)
       BY <1>4, <2>3 DEF Debtors, Team
    <3>2. TeamFacts(t)' = TeamFacts(t) \cup {f} /\ f \notin TeamFacts(t)
       BY <1>2, <1>3, <2>3 DEF TeamFacts
    <3>3. IsFiniteSet(Debtors(t)') /\ Cardinality(Debtors(t)') = Cardinality(Debtors(t)) + 1
       BY <2>1, <3>1, FS_AddElement
    <3>4. Cardinality(TeamFacts(t)') = Cardinality(TeamFacts(t)) + 1
       BY <2>2, <3>2, FS_AddElement
    <3> QED BY <2>1, <2>2, <3>3, <3>4
  <2>4. CASE t # Team(p)
    <3>1. Debtors(t)' = Debtors(t) /\ TeamFacts(t)' = TeamFacts(t)
       BY <1>2, <1>3, <1>4, <2>4 DEF Debtors, Team, TeamFacts
    <3> QED BY <2>1, <2>2, <3>1
  <2> QED BY <2>3, <2>4
<1> QED BY <1>5, <1>6 DEF StampOwed

\* A durable advance settles one debt.
LEMMA DebtorPays ==
  ASSUME IInv, StampOwed, NEW p \in Callers, Due(p), pend[p].type = "stamp", StampAdvanced(p)
  PROVE  StampOwed'
<1>1. pc[p] = "writing" /\ Team(p) \in Teams
   BY DueFacts
<1>2. UNCHANGED ledger /\ stamp' = [stamp EXCEPT ![Team(p)] = @ + 1]
   BY DEF StampAdvanced
<1>3. /\ OwesStamp(p) /\ ~OwesStamp(p)'
      /\ \A q \in Callers \ {p} : (OwesStamp(q)' <=> OwesStamp(q)) /\ call'[q] = call[q]
   BY <1>1 DEF OwesStamp, Writing, StampAdvanced, Resume, Leave, Due, IInv, TypeOK
<1>4. ASSUME NEW t \in Teams
      PROVE  /\ IsFiniteSet(Debtors(t))'
             /\ (stamp[t] + Cardinality(Debtors(t)) <= 1 + Cardinality(TeamFacts(t)))'
  <2>1. IsFiniteSet(Debtors(t)) /\ stamp[t] + Cardinality(Debtors(t)) <= 1 + Cardinality(TeamFacts(t))
     BY DEF StampOwed
  <2>2. /\ Cardinality(TeamFacts(t)) \in Nat /\ TeamFacts(t)' = TeamFacts(t)
        /\ Cardinality(Debtors(t)) \in Nat /\ stamp[t] \in Nat
     BY <1>2, <2>1, TeamFactsFinite, FS_CardinalityType, ZenonT(60) DEF StampOwed, IInv, TypeOK, TeamFacts
  <2>3. CASE t = Team(p)
    <3>1. Debtors(t)' = Debtors(t) \ {p} /\ p \in Debtors(t)
       BY <1>3, <2>3 DEF Debtors, Team
    <3>2. IsFiniteSet(Debtors(t)') /\ Cardinality(Debtors(t)') = Cardinality(Debtors(t)) - 1
       BY <2>1, <3>1, FS_RemoveElement
    <3>3. stamp'[t] = stamp[t] + 1
       BY <1>2, <2>3 DEF IInv, TypeOK
    <3> QED BY <2>1, <2>2, <3>2, <3>3
  <2>4. CASE t # Team(p)
    <3>1. Debtors(t)' = Debtors(t) /\ stamp'[t] = stamp[t]
       BY <1>1, <1>2, <1>3, <2>4 DEF Debtors, Team, IInv, TypeOK
    <3> QED BY <2>1, <2>2, <3>1
  <2> QED BY <2>3, <2>4
<1> QED BY <1>2, <1>4 DEF StampOwed

\* Between two awaits nobody incurs a debt.
LEMMA StepsOweNothing ==
  ASSUME IInv, NEW p \in Callers, Step(p)
  PROVE  \A q \in Callers : OwesStamp(q)' => OwesStamp(q) /\ call'[q] = call[q]
<1> USE DEF OwesStamp, Writing
<1>1. Return(p) => \A q \in Callers : OwesStamp(q)' => OwesStamp(q) /\ call'[q] = call[q]
   BY DEF Return, Leave, IInv, TypeOK
<1>2. \A w, r, s : Issue(p, w, r, s) /\ w.type # "stamp" =>
         \A q \in Callers : OwesStamp(q)' => OwesStamp(q) /\ call'[q] = call[q]
   BY DEF Issue, IInv, TypeOK
<1>3. \A r, s : PutRow(p, r, s) => \A q \in Callers : OwesStamp(q)' => OwesStamp(q) /\ call'[q] = call[q]
   BY <1>1, <1>2 DEF PutRow
<1>4. CASE Prepare(p) \/ Fail(p) \/ RecordChildSession(p)
   BY <1>1, <1>3, <1>4 DEF Prepare, Fail, RecordChildSession
<1>5. Replay(p) => \A q \in Callers : OwesStamp(q)' => OwesStamp(q) /\ call'[q] = call[q]
   BY DEF Replay, Leave, IInv, TypeOK
<1>6. \A r, s : BeginApply(p, r, s) => \A q \in Callers : OwesStamp(q)' => OwesStamp(q) /\ call'[q] = call[q]
   BY DEF BeginApply, IInv, TypeOK
<1>7. CASE Execute(p)
   BY <1>1, <1>3, <1>5, <1>6, <1>7 DEF Execute
<1>8. CASE Drive(p)
   BY <1>1, <1>5, <1>6, <1>8 DEF Drive
<1>9. CASE ApplyEffects(p)
  <2>1. Issue(p, [type |-> "target"], row[p], seq[p]) =>
           \A q \in Callers : OwesStamp(q)' => OwesStamp(q) /\ call'[q] = call[q]
     BY <1>2
  <2>2. AfterEffects(p) # "stamp" /\ AfterEffects(p) # "writing"
     BY DEF AfterEffects
  <2>3. CASE pc' = [pc EXCEPT ![p] = AfterEffects(p)] /\ UNCHANGED <<pend, call>>
     BY <2>2, <2>3 DEF IInv, TypeOK
  <2> QED BY <1>9, <2>1, <2>3 DEF ApplyEffects
<1>10. CASE AllocateSequence(p)
   BY <1>2, <1>10 DEF AllocateSequence
<1>11. CASE PutFact(p)
   BY <1>1, <1>2, <1>11 DEF PutFact
<1>12. CASE AdvanceStamp(p)
   BY <1>12 DEF AdvanceStamp, Issue, IInv, TypeOK
<1>13. CASE Commit(p)
   BY <1>3, <1>13 DEF Commit
<1> QED BY <1>4, <1>7, <1>8, <1>9, <1>10, <1>11, <1>12, <1>13 DEF Step

\* Every step keeps the account of stamps and facts balanced.
LEMMA StampInductive ==
  ASSUME IInv, StampOwed, [Next]_vars
  PROVE  StampOwed'
<1>1. ASSUME NEW p \in Callers, Submit(p) \/ AppendFact(p) \/ WriteRejected(p)
      PROVE  StampOwed'
  <2>1. \A q \in Callers : OwesStamp(q)' => OwesStamp(q) /\ call'[q] = call[q]
     BY <1>1, ZenonT(60) DEF Submit, AppendFact, WriteRejected, Leave, OwesStamp, Writing, IInv, TypeOK
  <2> QED BY <1>1, <2>1, NoNewDebtor DEF Submit, AppendFact, WriteRejected, durable
<1>2. ASSUME NEW p \in Callers, Step(p)
      PROVE  StampOwed'
   BY <1>2, StepsOweNothing, StepsAreVolatile, NoNewDebtor DEF durable
<1>3. ASSUME NEW p \in Callers, WriteDurable(p)
      PROVE  StampOwed'
  <2>1. Due(p) /\ pc[p] = "writing"
     BY <1>3, DueFacts DEF Due, WriteDurable
  <2>2. CASE pend[p].type = "fact" /\ FactWritten(p, pend[p].fact)
     BY <2>1, <2>2, DebtorAdded
  <2>3. CASE pend[p].type = "stamp" /\ StampAdvanced(p)
     BY <2>1, <2>3, DebtorPays
  <2>4. CASE RowWritten(p, pend[p].row) \/ TargetWritten(p) \/ CounterBooted(p) \/ CounterIncremented(p)
    <3>1. \A q \in Callers : OwesStamp(q)' => OwesStamp(q) /\ call'[q] = call[q]
       BY <2>1, <2>4 DEF RowWritten, TargetWritten, CounterBooted, CounterIncremented, Resume, Leave,
          AfterEffects, Due, OwesStamp, Writing, IInv, TypeOK
    <3>2. UNCHANGED <<stamp, ledger>>
       BY <2>4 DEF RowWritten, TargetWritten, CounterBooted, CounterIncremented
    <3> QED BY <3>1, <3>2, NoNewDebtor
  <2> QED BY <1>3, <2>2, <2>3, <2>4 DEF WriteDurable
<1>4. CASE Crash
  <2>1. \A q \in Callers : ~OwesStamp(q)'
     BY <1>4 DEF Crash, OwesStamp, Writing
  <2> QED BY <1>4, <2>1, NoNewDebtor DEF Crash, durable
<1>5. CASE Rest \/ UNCHANGED vars
  <2>1. UNCHANGED vars
     BY <1>5 DEF Rest
  <2> QED BY <2>1, NoNewDebtor DEF vars, durable, local, OwesStamp, Writing
<1> QED BY <1>1, <1>2, <1>3, <1>4, <1>5 DEF Next, Settle

\* ledger.ts put: the team's generation stamp never runs ahead of its facts.
THEOREM StampBehind == ASSUME OneJournalPerOperation PROVE Spec => []StampNeverAhead
<1>1. Init => StampOwed
  <2> SUFFICES ASSUME Init PROVE StampOwed
     OBVIOUS
  <2>1. \A t \in Teams : Debtors(t) = {} /\ TeamFacts(t) = {} /\ stamp[t] = 1
     BY DEF Init, Debtors, OwesStamp, Writing, TeamFacts
  <2>2. IsFiniteSet(ledger)
     BY FS_EmptySet DEF Init
  <2>3. \A t \in Teams : /\ IsFiniteSet(Debtors(t))
                         /\ stamp[t] + Cardinality(Debtors(t)) <= 1 + Cardinality(TeamFacts(t))
    <3> SUFFICES ASSUME NEW t \in Teams
                 PROVE  /\ IsFiniteSet(Debtors(t))
                        /\ stamp[t] + Cardinality(Debtors(t)) <= 1 + Cardinality(TeamFacts(t))
       OBVIOUS
    <3>1. Cardinality(Debtors(t)) = 0 /\ Cardinality(TeamFacts(t)) = 0 /\ IsFiniteSet(Debtors(t))
       BY <2>1, FS_EmptySet
    <3> QED BY <2>1, <3>1
  <2> QED BY <2>2, <2>3 DEF StampOwed
<1>2. IInv /\ StampOwed /\ [Next]_vars => StampOwed'
   BY StampInductive
<1>3. IInv /\ StampOwed => StampNeverAhead
  <2> SUFFICES ASSUME IInv, StampOwed, NEW t \in Teams
               PROVE  stamp[t] <= 1 + Cardinality(TeamFacts(t))
     BY DEF StampNeverAhead
  <2>1. /\ Cardinality(Debtors(t)) \in Nat /\ Cardinality(TeamFacts(t)) \in Nat /\ stamp[t] \in Nat
        /\ stamp[t] + Cardinality(Debtors(t)) <= 1 + Cardinality(TeamFacts(t))
     BY TeamFactsFinite, FS_CardinalityType DEF StampOwed, IInv, TypeOK
  <2> QED BY <2>1
<1> QED BY <1>1, <1>2, <1>3, JournalInvariant, PTL DEF Spec
===============================================================================
