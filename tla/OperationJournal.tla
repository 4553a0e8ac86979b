--------------------------- MODULE OperationJournal ---------------------------
(***************************************************************************)
(* The durable operation journal of one team domain                        *)
(* (packages/storage/operations/journal.ts) over the operations, ledger    *)
(* and team_sessions repositories and the storage seam's write chain.      *)
(*                                                                         *)
(*   PREPARED row -> idempotent effects -> ledger fact -> COMMITTED row    *)
(*                                                                         *)
(* A caller is one asynchronous journal call in flight.  The code between  *)
(* two awaits is one step; every await on a durable write is a visit to    *)
(* the write chain, where writes become durable one at a time, in the      *)
(* order in which they were issued.  A crash loses everything but the      *)
(* durable rows.                                                           *)
(***************************************************************************)
EXTENDS Integers, Sequences, FiniteSets

CONSTANTS
  Teams,          \* root session ids
  Ops,            \* operation ids; the operations store is global to the domain
  Callers,        \* asynchronous calls that may be in flight together
  Journals,       \* journal instances built over the domain
  TeamOf,         \* the team a journal is bound to
  Serves,         \* the operation ids submitted through a journal
  Keys, Intents, Children,
  Expectations,   \* the generation CAS values callers pass
  None,
  MaxCalls,       \* bound: calls ever made
  MaxCrashes      \* bound: crashes ever suffered

AnyGeneration == -1   \* the call carries no expectedGeneration

ASSUME JournalAssumption ==
  /\ TeamOf \in [Journals -> Teams]
  /\ Serves \in [Journals -> SUBSET Ops]
  /\ Expectations \subseteq Nat \cup {AnyGeneration}
  /\ None \notin Ops \cup Keys \cup Intents \cup Children
  /\ MaxCalls \in Nat /\ MaxCrashes \in Nat

VARIABLES
  \* durable
  rows,           \* operations store: operation id -> row
  targets,        \* the records the operation's effects create
  booted,         \* the ledger counter row exists
  counter,        \* its value
  ledger,         \* the ledger entries
  stamp,          \* team_sessions.generation of every team
  \* volatile
  gate,           \* per journal and operation id, the calls chained on its lock
  chain,          \* the domain write chain: callers with a write issued
  pend,           \* the write a caller has issued
  pc, call,       \* where a call is, and its arguments
  row, seq,       \* a call's captured row, and its fact's sequence (0: none)
  answer,         \* what the caller's last execute or drive returned
  \* bounds
  calls, crashes

durable  == <<rows, targets, booted, counter, ledger, stamp>>
local    == <<pc, call, row, seq, answer>>
vars     == <<durable, gate, chain, pend, local, calls, crashes>>

-------------------------------------------------------------------------------
(* Records *)

Phases   == {"PREPARED", "COMMITTED", "FAILED"}
Terminal == {"COMMITTED", "FAILED"}

\* The absent row; generation 0 is what an expectation of absence compares to.
Absent == [phase |-> "ABSENT", key |-> None, intent |-> None,
           child |-> None, generation |-> 0]

Row  == [phase: Phases, key: Keys, intent: Intents,
         child: Children \cup {None}, generation: Nat \ {0}]

\* op and intent are None in facts other writers append (activity rows, requirements, ...)
Fact == [seq: Nat \ {0}, op: Ops \cup {None}, team: Teams, intent: Intents \cup {None}]

NoCall == [kind |-> "none", journal |-> None, op |-> None, key |-> None,
           intent |-> None, child |-> None, expected |-> AnyGeneration]

Requests ==
  UNION {  [kind: {"prepare"}, journal: {j}, op: Serves[j], key: Keys, intent: Intents,
            child: Children \cup {None}, expected: {AnyGeneration}]
      \cup [kind: {"execute"}, journal: {j}, op: Serves[j], key: Keys, intent: Intents,
            child: Children \cup {None}, expected: Expectations]
      \cup [kind: {"drive"}, journal: {j}, op: Serves[j], key: {None}, intent: {None},
            child: {None}, expected: Expectations]
      \cup [kind: {"fail"}, journal: {j}, op: Serves[j], key: {None}, intent: {None},
            child: {None}, expected: {AnyGeneration}]
      \cup [kind: {"record"}, journal: {j}, op: Serves[j], key: {None}, intent: {None},
            child: Children, expected: {AnyGeneration}]
         : j \in Journals }

\* A fact some other component appends for the journal's team, outside the journal.
Appends == [kind: {"append"}, journal: Journals, op: {None}, key: {None}, intent: {None},
            child: {None}, expected: {AnyGeneration}]

Write == [type: {"row"}, row: Row] \cup [type: {"fact"}, fact: Fact]
           \cup [type: {"boot", "increment", "stamp", "target"}]
NoWrite == [type |-> "none"]

Answer == [op: Ops, phase: Phases, seq: Nat]

-------------------------------------------------------------------------------
(* Reads *)

Journaled(p) == call[p].kind # "append"
Team(p)      == TeamOf[call[p].journal]
Gate(p)      == <<call[p].journal, call[p].op>>

FactsOf(o) == {f \in ledger : f.op = o}

\* findFact: the first ledger entry, in sequence order, that links the operation.
FirstFact(o) == CHOOSE f \in FactsOf(o) : \A g \in FactsOf(o) : f.seq <= g.seq
FactSeq(o)   == IF FactsOf(o) = {} THEN 0 ELSE FirstFact(o).seq

ForeignFact(p) == /\ FactsOf(call[p].op) # {}
                  /\ FirstFact(call[p].op).team # Team(p)

Stale(p)    == call[p].expected \notin {AnyGeneration, rows[call[p].op].generation}
Mismatch(p) == LET r == rows[call[p].op] IN r.key # call[p].key \/ r.intent # call[p].intent

-------------------------------------------------------------------------------
(* Building blocks of the steps *)

\* Mutant: only a call that succeeds releases the lock.
LeaveWedged(p, a) ==
  /\ pc'     = [pc EXCEPT ![p] = "idle"]
  /\ call'   = [call EXCEPT ![p] = NoCall]
  /\ row'    = [row EXCEPT ![p] = Absent]
  /\ seq'    = [seq EXCEPT ![p] = 0]
  /\ answer' = [answer EXCEPT ![p] = a]
  /\ gate'   = IF Journaled(p) /\ a # None THEN [gate EXCEPT ![Gate(p)] = Tail(@)] ELSE gate

\* The call settles, with an answer or with an error: its lock passes on.
Leave(p, a) ==
  /\ pc'     = [pc EXCEPT ![p] = "idle"]
  /\ call'   = [call EXCEPT ![p] = NoCall]
  /\ row'    = [row EXCEPT ![p] = Absent]
  /\ seq'    = [seq EXCEPT ![p] = 0]
  /\ answer' = [answer EXCEPT ![p] = a]
  /\ gate'   = IF Journaled(p) THEN [gate EXCEPT ![Gate(p)] = Tail(@)] ELSE gate

\* Nothing (more) is written: a typed refusal, or the stored row as it is.
Return(p) == /\ Leave(p, None)
             /\ UNCHANGED <<durable, chain, pend>>

\* A write is issued: it joins the chain, and the caller awaits it holding r and s.
Issue(p, w, r, s) ==
  /\ chain' = Append(chain, p)
  /\ pend'  = [pend EXCEPT ![p] = w]
  /\ pc'    = [pc EXCEPT ![p] = "writing"]
  /\ row'   = [row EXCEPT ![p] = r]
  /\ seq'   = [seq EXCEPT ![p] = s]
  /\ UNCHANGED <<durable, gate, call, answer>>

\* OperationsRepository.put: terminal rows are immutable, the key is fixed, the
\* generation strictly grows.  The comparison is made when the write is issued.
Putable(old, new) ==
  \/ old = Absent
  \/ /\ old.phase \notin Terminal
     /\ old.key = new.key
     /\ old.generation < new.generation

PutRow(p, new, s) ==
  \/ /\ Putable(rows[call[p].op], new)
     /\ Issue(p, [type |-> "row", row |-> new], new, s)
  \/ /\ ~Putable(rows[call[p].op], new)
     /\ Return(p)

NextRow(old, phase, child) ==
  [old EXCEPT !.phase = phase, !.child = child, !.generation = @ + 1]

\* The apply phase begins with the row and the fact the call has read.
BeginApply(p, r, s) ==
  /\ pc'  = [pc EXCEPT ![p] = "effect"]
  /\ row' = [row EXCEPT ![p] = r]
  /\ seq' = [seq EXCEPT ![p] = s]
  /\ UNCHANGED <<durable, gate, chain, pend, call, answer>>

\* Mutant: every terminal row is replayed as a success.
ReplayCommitted(p) ==
  LET o == call[p].op IN
  /\ Leave(p, [op |-> o, phase |-> "COMMITTED", seq |-> FactSeq(o)])
  /\ UNCHANGED <<durable, chain, pend>>

\* The durable result of an operation whose row is terminal.
Replay(p) ==
  LET o == call[p].op IN
  /\ Leave(p, [op |-> o, phase |-> rows[o].phase, seq |-> FactSeq(o)])
  /\ UNCHANGED <<durable, chain, pend>>

\* Mutant: calls of one operation are not serialized.
EnterUnlocked(p, kind) ==
  /\ pc[p] = "queued"
  /\ call[p].kind = kind
  /\ UNCHANGED <<calls, crashes>>

\* The call's turn on the lock of its operation.
Enter(p, kind) ==
  /\ pc[p] = "queued"
  /\ call[p].kind = kind
  /\ gate[Gate(p)] # << >> /\ Head(gate[Gate(p)]) = p
  /\ UNCHANGED <<calls, crashes>>

-------------------------------------------------------------------------------
(* Calls *)

\* A caller submits a journal call: it chains onto the operation's lock.
Submit(p) ==
  /\ pc[p] = "idle"
  /\ calls < MaxCalls
  /\ \E c \in Requests :
       /\ call' = [call EXCEPT ![p] = c]
       /\ gate' = [gate EXCEPT ![<<c.journal, c.op>>] = Append(@, p)]
  /\ pc'     = [pc EXCEPT ![p] = "queued"]
  /\ answer' = [answer EXCEPT ![p] = None]
  /\ calls'  = calls + 1
  /\ UNCHANGED <<durable, chain, pend, row, seq, crashes>>

\* Another component appends its own fact to the shared ledger.
AppendFact(p) ==
  /\ pc[p] = "idle"
  /\ calls < MaxCalls
  /\ \E c \in Appends : call' = [call EXCEPT ![p] = c]
  /\ pc'     = [pc EXCEPT ![p] = "allocate"]
  /\ answer' = [answer EXCEPT ![p] = None]
  /\ calls'  = calls + 1
  /\ UNCHANGED <<durable, gate, chain, pend, row, seq, crashes>>

\* Mutant: the first row carries the generation an expectation of absence has.
FreshRowZero(p) == [phase |-> "PREPARED", key |-> call[p].key, intent |-> call[p].intent,
                    child |-> call[p].child, generation |-> 0]

\* prepareInternal on an absent row: the first durable write of the protocol.
FreshRow(p) == [phase |-> "PREPARED", key |-> call[p].key, intent |-> call[p].intent,
                child |-> call[p].child, generation |-> 1]

\* ensureChildSession has something to record, or finds another child recorded.
ChildToRecord(p, r) == call[p].child # None /\ r.child = None
ChildConflict(p, r) == call[p].child # None /\ r.child \notin {None, call[p].child}

\* prepare: record the PREPARED row, or re-verify it and note the child session.
Prepare(p) ==
  LET r == rows[call[p].op] IN
  /\ Enter(p, "prepare")
  /\ \/ /\ r = Absent
        /\ PutRow(p, FreshRow(p), 0)
     \/ /\ r.phase = "PREPARED" /\ ~Mismatch(p) /\ ChildToRecord(p, r)
        /\ PutRow(p, NextRow(r, "PREPARED", call[p].child), 0)
     \/ /\ r # Absent
        /\ r.phase = "PREPARED" => Mismatch(p) \/ ~ChildToRecord(p, r)
        /\ Return(p)

\* execute: the full protocol in one call.
Execute(p) ==
  LET o == call[p].op
      r == rows[o]
  IN
  /\ Enter(p, "execute")
  /\ \/ /\ r = Absent /\ ~Stale(p)
        /\ PutRow(p, FreshRow(p), 0)
     \/ /\ Stale(p) \/ (r # Absent /\ (Mismatch(p) \/ ForeignFact(p)))
        /\ Return(p)
     \/ /\ r # Absent /\ ~Stale(p) /\ ~Mismatch(p) /\ ~ForeignFact(p)
        /\ \/ /\ r.phase \in Terminal
              /\ IF call[p].child \in {None, r.child} THEN Replay(p) ELSE Return(p)
           \/ /\ r.phase = "PREPARED"
              /\ \/ ChildConflict(p, r) /\ Return(p)
                 \/ /\ ChildToRecord(p, r)
                    /\ PutRow(p, NextRow(r, "PREPARED", call[p].child), FactSeq(o))
                 \/ /\ ~ChildConflict(p, r) /\ ~ChildToRecord(p, r)
                    /\ BeginApply(p, r, FactSeq(o))

\* drive: re-drive a durable row (the recovery entry).
Drive(p) ==
  LET o == call[p].op
      r == rows[o]
  IN
  /\ Enter(p, "drive")
  /\ \/ /\ r = Absent \/ Stale(p) \/ ForeignFact(p)
        /\ Return(p)
     \/ /\ r # Absent /\ ~Stale(p) /\ ~ForeignFact(p)
        /\ IF r.phase \in Terminal THEN Replay(p) ELSE BeginApply(p, r, FactSeq(o))

\* fail: a PREPARED operation is abandoned.
Fail(p) ==
  LET r == rows[call[p].op] IN
  /\ Enter(p, "fail")
  /\ IF r.phase = "PREPARED"
       THEN PutRow(p, NextRow(r, "FAILED", r.child), 0)
       ELSE Return(p)

\* recordChildSession: the externally allocated child is noted, never re-pointed.
RecordChildSession(p) ==
  LET r == rows[call[p].op] IN
  /\ Enter(p, "record")
  /\ IF r.phase = "PREPARED" /\ r.child = None
       THEN PutRow(p, NextRow(r, "PREPARED", call[p].child), 0)
       ELSE Return(p)

-------------------------------------------------------------------------------
(* The apply phase *)

\* Mutants: the search for a fact is dropped; the row is committed before its fact;
\* a replayed fact advances the stamp again.
AfterEffectsAppend(p) == "allocate"
AfterEffectsCommit(p) == "commit"
AfterEffectsStamp(p)  == IF seq[p] = 0 THEN "allocate" ELSE "stamp"

\* Where a call goes once its effects are applied: a known fact is not repeated.
AfterEffects(p) == IF seq[p] = 0 THEN "allocate" ELSE "commit"

\* The effects: an effect whose record already exists is skipped.
ApplyEffects(p) ==
  /\ pc[p] = "effect"
  /\ \/ /\ ~targets[call[p].op]
        /\ Issue(p, [type |-> "target"], row[p], seq[p])
     \/ /\ targets[call[p].op]
        /\ pc' = [pc EXCEPT ![p] = AfterEffects(p)]
        /\ UNCHANGED <<durable, gate, chain, pend, call, row, seq, answer>>
  /\ UNCHANGED <<calls, crashes>>

\* allocateSequence: bootstrap the counter row when absent, then increment it.
AllocateSequence(p) ==
  /\ pc[p] = "allocate"
  /\ Issue(p, [type |-> IF booted THEN "increment" ELSE "boot"], row[p], seq[p])
  /\ UNCHANGED <<calls, crashes>>

\* Mutant: the fact takes the intent of the call, not of the durable row.
NewFactOfCall(p) == [seq |-> seq[p], op |-> call[p].op, team |-> Team(p), intent |-> call[p].intent]

NewFact(p) == [seq |-> seq[p], op |-> call[p].op, team |-> Team(p), intent |-> row[p].intent]

\* LedgerRepository.put: the sequence is allocated and not occupied.
PutFact(p) ==
  /\ pc[p] = "fact"
  /\ \/ /\ booted /\ seq[p] <= counter /\ \A f \in ledger : f.seq # seq[p]
        /\ Issue(p, [type |-> "fact", fact |-> NewFact(p)], row[p], seq[p])
     \/ /\ ~booted \/ seq[p] > counter \/ \E f \in ledger : f.seq = seq[p]
        /\ Return(p)
  /\ UNCHANGED <<calls, crashes>>

\* The new entry is durable: the team's generation stamp advances.
AdvanceStamp(p) ==
  /\ pc[p] = "stamp"
  /\ Issue(p, [type |-> "stamp"], row[p], seq[p])
  /\ UNCHANGED <<calls, crashes>>

Commit(p) ==
  /\ pc[p] = "commit"
  /\ PutRow(p, NextRow(row[p], "COMMITTED", row[p].child), seq[p])
  /\ UNCHANGED <<calls, crashes>>

-------------------------------------------------------------------------------
(* The write chain *)

\* The caller p resumes at stage, or with s as its fact's sequence.
Resume(p, stage, s) ==
  /\ pc'  = [pc EXCEPT ![p] = stage]
  /\ seq' = [seq EXCEPT ![p] = s]
  /\ UNCHANGED <<gate, call, row, answer>>

\* A row write resolves: execute goes on to the apply phase, other calls return.
RowWritten(p, r) ==
  LET o == call[p].op IN
  /\ rows' = [rows EXCEPT ![o] = r]
  /\ UNCHANGED <<targets, booted, counter, ledger, stamp>>
  /\ IF call[p].kind = "execute" /\ r.phase = "PREPARED"
       THEN Resume(p, "effect", IF r.generation = 1 THEN FactSeq(o) ELSE seq[p])
       ELSE Leave(p, IF r.phase = "COMMITTED"
                       THEN [op |-> o, phase |-> r.phase, seq |-> seq[p]] ELSE None)

TargetWritten(p) ==
  /\ targets' = [targets EXCEPT ![call[p].op] = TRUE]
  /\ UNCHANGED <<rows, booted, counter, ledger, stamp>>
  /\ Resume(p, AfterEffects(p), seq[p])

\* Mutant: the bootstrap is the first allocation.
CounterBootedAtOne(p) ==
  /\ booted' = TRUE
  /\ counter' = 1
  /\ UNCHANGED <<rows, targets, ledger, stamp>>
  /\ Resume(p, "fact", 1)

\* Both racers of a bootstrap write the identical zero row.
CounterBooted(p) ==
  /\ booted' = TRUE
  /\ counter' = 0
  /\ UNCHANGED <<rows, targets, ledger, stamp>>
  /\ Resume(p, "allocate", seq[p])

CounterIncremented(p) ==
  /\ counter' = counter + 1
  /\ UNCHANGED <<rows, targets, booted, ledger, stamp>>
  /\ Resume(p, "fact", counter + 1)

FactWritten(p, f) ==
  /\ ledger' = ledger \cup {f}
  /\ UNCHANGED <<rows, targets, booted, counter, stamp>>
  /\ Resume(p, "stamp", seq[p])

StampAdvanced(p) ==
  /\ stamp' = [stamp EXCEPT ![Team(p)] = @ + 1]
  /\ UNCHANGED <<rows, targets, booted, counter, ledger>>
  /\ IF Journaled(p) THEN Resume(p, "commit", seq[p]) ELSE Leave(p, None)

\* The oldest issued write becomes durable and its caller resumes.
WriteDurable(p) ==
  /\ chain # << >> /\ Head(chain) = p
  /\ chain' = Tail(chain)
  /\ pend'  = [pend EXCEPT ![p] = NoWrite]
  /\ \/ pend[p].type = "row"       /\ RowWritten(p, pend[p].row)
     \/ pend[p].type = "target"    /\ TargetWritten(p)
     \/ pend[p].type = "boot"      /\ CounterBooted(p)
     \/ pend[p].type = "increment" /\ CounterIncremented(p)
     \/ pend[p].type = "fact"      /\ FactWritten(p, pend[p].fact)
     \/ pend[p].type = "stamp"     /\ StampAdvanced(p)
  /\ UNCHANGED <<calls, crashes>>

\* The medium rejects the oldest issued write: the call fails, nothing is undone.
WriteRejected(p) ==
  /\ chain # << >> /\ Head(chain) = p
  /\ chain' = Tail(chain)
  /\ pend'  = [pend EXCEPT ![p] = NoWrite]
  /\ Leave(p, None)
  /\ UNCHANGED <<durable, calls, crashes>>

\* The process dies: issued writes and everything volatile are lost.
Crash ==
  /\ crashes < MaxCrashes
  /\ crashes' = crashes + 1
  /\ gate'   = [g \in Journals \X Ops |-> << >>]
  /\ chain'  = << >>
  /\ pend'   = [p \in Callers |-> NoWrite]
  /\ pc'     = [p \in Callers |-> "idle"]
  /\ call'   = [p \in Callers |-> NoCall]
  /\ row'    = [p \in Callers |-> Absent]
  /\ seq'    = [p \in Callers |-> 0]
  /\ answer' = [p \in Callers |-> None]
  /\ UNCHANGED <<durable, calls>>

\* Nothing is in flight: the journal may rest.
Rest == /\ \A p \in Callers : pc[p] = "idle"
        /\ UNCHANGED vars

-------------------------------------------------------------------------------
Init ==
  /\ rows    = [o \in Ops |-> Absent]
  /\ targets = [o \in Ops |-> FALSE]
  /\ booted  = FALSE
  /\ counter = 0
  /\ ledger  = {}
  /\ stamp   = [t \in Teams |-> 1]
  /\ gate    = [g \in Journals \X Ops |-> << >>]
  /\ chain   = << >>
  /\ pend    = [p \in Callers |-> NoWrite]
  /\ pc      = [p \in Callers |-> "idle"]
  /\ call    = [p \in Callers |-> NoCall]
  /\ row     = [p \in Callers |-> Absent]
  /\ seq     = [p \in Callers |-> 0]
  /\ answer  = [p \in Callers |-> None]
  /\ calls = 0 /\ crashes = 0

\* The steps of a call between two awaits.
Step(p) == \/ Prepare(p) \/ Execute(p) \/ Drive(p) \/ Fail(p) \/ RecordChildSession(p)
           \/ ApplyEffects(p) \/ AllocateSequence(p) \/ PutFact(p)
           \/ AdvanceStamp(p) \/ Commit(p)

Settle(p) == WriteDurable(p) \/ WriteRejected(p)

Next == \/ \E p \in Callers : Submit(p) \/ AppendFact(p) \/ Step(p) \/ Settle(p)
        \/ Crash
        \/ Rest

Spec == Init /\ [][Next]_vars

\* The event loop runs every ready continuation, and the medium answers every write.
Fairness == \A p \in Callers : WF_vars(Step(p)) /\ WF_vars(Settle(p))

FairSpec == Spec /\ Fairness

-------------------------------------------------------------------------------
(* Properties *)

TypeOK ==
  /\ rows    \in [Ops -> Row \cup {Absent}]
  /\ targets \in [Ops -> BOOLEAN]
  /\ booted  \in BOOLEAN
  /\ counter \in Nat
  /\ ledger  \subseteq Fact
  /\ stamp   \in [Teams -> Nat]
  /\ gate    \in [Journals \X Ops -> Seq(Callers)]
  /\ chain   \in Seq(Callers)
  /\ pend    \in [Callers -> Write \cup {NoWrite}]
  /\ pc      \in [Callers -> {"idle", "queued", "effect", "allocate", "fact",
                              "stamp", "commit", "writing"}]
  /\ call    \in [Callers -> Requests \cup Appends \cup {NoCall}]
  /\ row     \in [Callers -> Row \cup {Absent}]
  /\ seq     \in [Callers -> Nat]
  /\ answer  \in [Callers -> Answer \cup {None}]
  /\ calls \in Nat /\ crashes \in Nat

\* Production gives every operation id to the one journal of its team: the id is
\* derived from the root session (provisioningOperationId).
OneJournalPerOperation ==
  \A j, k \in Journals : j # k => Serves[j] \cap Serves[k] = {}

\* An operation is applied at most once: no retry, concurrent drive or crash
\* appends a second fact for its id (findFact, journal.ts applyPhase).
AppliedAtMostOnce ==
  \A f, g \in ledger : f.op # None /\ f.op = g.op => f = g

\* A COMMITTED row is backed by the whole protocol: its effects are durable, and
\* a fact records the intent of that very row.
CommittedIsApplied ==
  \A o \in Ops : rows[o].phase = "COMMITTED" =>
     /\ targets[o]
     /\ \E f \in ledger : f.op = o /\ f.intent = rows[o].intent

\* No two entries share a sequence and none exceeds the counter, although two
\* writers may bootstrap the counter row at the same time.
SequencesUnique ==
  /\ \A f, g \in ledger : f.seq = g.seq => f = g
  /\ \A f \in ledger : f.seq <= counter

\* The stamp never runs ahead of the facts it announces (advance after the put).
TeamFacts(t) == {f \in ledger : f.team = t}
StampNeverAhead ==
  \A t \in Teams : stamp[t] <= 1 + Cardinality(TeamFacts(t))

\* Every execute or drive that reports COMMITTED reports the sequence of the
\* operation's one fact: a replay returns the original durable result.
AnswersAreDurable ==
  \A p \in Callers : answer[p] # None =>
     LET a == answer[p] IN
     /\ rows[a.op].phase = a.phase
     /\ a.phase = "COMMITTED" => \E f \in ledger : f.op = a.op /\ f.seq = a.seq

\* Roll-forward, never rollback: a row only moves on from PREPARED, one generation
\* at a time, keeping its identity and its recorded child; entries are never removed.
RollForward ==
  /\ ledger \subseteq ledger'
  /\ \A o \in Ops : rows'[o] # rows[o] =>
       /\ rows[o].phase \notin Terminal
       /\ rows'[o].generation = rows[o].generation + 1
       /\ rows[o] # Absent => /\ rows'[o].key = rows[o].key
                              /\ rows'[o].intent = rows[o].intent
                              /\ rows[o].child \in {None, rows'[o].child}
NeverRolledBack == [][RollForward]_vars

\* The journal implements the protocol its module header promises: the rows and the
\* facts that link an operation, seen together, move as OperationProtocol allows.
Protocol == INSTANCE OperationProtocol WITH
  phase   <- [o \in Ops |-> rows[o].phase],
  intent  <- [o \in Ops |-> rows[o].intent],
  applied <- [o \in Ops |-> {[seq |-> f.seq, intent |-> f.intent] : f \in FactsOf(o)}]
ImplementsProtocol == Protocol!Spec

\* A failed or crashed drive never wedges the operation's lock: every call returns.
EveryCallReturns ==
  \A p \in Callers : pc[p] # "idle" ~> pc[p] = "idle"
===============================================================================
