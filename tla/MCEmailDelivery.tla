-------------------------- MODULE MCEmailDelivery --------------------------
(***************************************************************************)
(* Instances of EmailDelivery for TLC.                                     *)
(***************************************************************************)
EXTENDS EmailDelivery, FiniteSets, TLC

CONSTANTS n1, n2, t1, t2, r1, r2

\* Emails share nothing but the bound on faults: the kinds of email are looked at
\* one at a time.
Untouched(n) ==
  /\ row[n].status = "created" /\ age[n] = 0 /\ n \notin replaying
  /\ \A t \in Tasks : task[n][t] \in {FreeTask, NewTask}
OneEmail == Cardinality({n \in Emails : ~Untouched(n)}) <= 1

EmailSymmetry == Permutations({t1, t2}) \cup Permutations({r1, r2})
=============================================================================
