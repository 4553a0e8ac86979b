--------------------------- MODULE OperationProtocol ---------------------------
(***************************************************************************)
(* What the operation journal promises of every operation id, whatever     *)
(* drives, retries, races, failed writes and crashes it goes through: an    *)
(* intent is recorded once, applied at most once and under that intent,     *)
(* committed only when applied, and a terminal operation never changes.     *)
(*                                                                         *)
(* An operation may be abandoned after it was applied: fail() looks at the  *)
(* row alone, and a crash can come between the fact and the COMMITTED row.  *)
(***************************************************************************)
EXTENDS Naturals, FiniteSets

CONSTANTS Ops, Intents, None

VARIABLES
  phase,     \* the phase of every operation
  intent,    \* the intent recorded for it, or None
  applied    \* the facts that apply it: records with the intent applied

vars == <<phase, intent, applied>>

Init ==
  /\ phase   = [o \in Ops |-> "ABSENT"]
  /\ intent  = [o \in Ops |-> None]
  /\ applied = [o \in Ops |-> {}]

\* The operation is recorded PREPARED with its intent.
Begin(o) ==
  /\ phase[o] = "ABSENT"
  /\ phase' = [phase EXCEPT ![o] = "PREPARED"]
  /\ \E i \in Intents : intent' = [intent EXCEPT ![o] = i]
  /\ UNCHANGED applied

\* The one fact of the operation is appended, under the recorded intent.
Apply(o) ==
  /\ phase[o] = "PREPARED"
  /\ applied[o] = {}
  /\ \E f \in applied'[o] :
       /\ f.intent = intent[o]
       /\ applied' = [applied EXCEPT ![o] = {f}]
  /\ UNCHANGED <<phase, intent>>

\* The operation is settled: committed once applied, or abandoned.
Settle(o) ==
  /\ phase[o] = "PREPARED"
  /\ \/ applied[o] # {} /\ phase' = [phase EXCEPT ![o] = "COMMITTED"]
     \/ phase' = [phase EXCEPT ![o] = "FAILED"]
  /\ UNCHANGED <<intent, applied>>

Next == \E o \in Ops : Begin(o) \/ Apply(o) \/ Settle(o)

Spec == Init /\ [][Next]_vars
================================================================================
