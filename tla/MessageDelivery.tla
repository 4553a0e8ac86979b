--------------------------- MODULE MessageDelivery ---------------------------
(***************************************************************************)
(* What team messaging promises of a message, whatever is retried or        *)
(* recovered: it is recorded once, a session accepts it only after that,    *)
(* perhaps several times, and one confirmation names a session that did.    *)
(***************************************************************************)
CONSTANTS Messages, Targets

VARIABLES
  recorded,   \* sequence numbers and messages with an intent fact
  accepted,   \* [of, target]: the session of target accepted the message of an intent
  confirmed   \* [seq, of, target]: the confirmation facts

vars == <<recorded, accepted, confirmed>>

Init == recorded = {} /\ accepted = {} /\ confirmed = {}

\* Sequence numbers are those of the ledger, which a confirmation draws from too.
Unused(n) ==
  /\ \A r \in recorded : r.seq # n
  /\ \A c \in confirmed : c.seq # n

Record(r) ==
  /\ r.message \in Messages
  /\ Unused(r.seq)
  /\ recorded' = recorded \cup {r}
  /\ UNCHANGED <<accepted, confirmed>>

Accept(a) ==
  /\ a.target \in Targets
  /\ \E r \in recorded : r.seq = a.of
  /\ accepted' = accepted \cup {a}
  /\ UNCHANGED <<recorded, confirmed>>

Confirm(c) ==
  /\ Unused(c.seq)
  /\ [of |-> c.of, target |-> c.target] \in accepted
  /\ \A d \in confirmed : d.of # c.of
  /\ confirmed' = confirmed \cup {c}
  /\ UNCHANGED <<recorded, accepted>>

Next ==
  \/ \E r \in recorded' : Record(r)
  \/ \E a \in accepted' : Accept(a)
  \/ \E c \in confirmed' : Confirm(c)

Spec == Init /\ [][Next]_vars
===============================================================================
