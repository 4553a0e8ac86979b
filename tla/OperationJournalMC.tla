-------------------------- MODULE OperationJournalMC --------------------------
(* A small instance of OperationJournal for TLC. *)
EXTENDS OperationJournalInvariant, TLC

CONSTANTS j1, j2, o1, t1, t2, c1, c2, k1, k2, i1, s1

\* Two teams in one domain, each with its journal.  The operation is submitted to the
\* first; the second team has facts that others append, from the same counter.
TwoTeams    == j1 :> t1 @@ j2 :> t2
ServesFirst == j1 :> {o1} @@ j2 :> {}

AnyOrFresh == {AnyGeneration, 1}
===============================================================================
