--------------------------- MODULE MCSmsDelivery ---------------------------
(***************************************************************************)
(* Instances of SmsDelivery for TLC.                                       *)
(***************************************************************************)
EXTENDS SmsDelivery, FiniteSets, TLC

CONSTANTS n1, n2, n3, t1, t2, r1, r2, firetext, spryng

\* Messages share nothing but the bound on faults: the kinds of message are
\* looked at one at a time.
OneMessage == Cardinality({n \in Notifications : api[n] # "idle"}) <= 1

TaskSymmetry == Permutations({t1, t2})
=============================================================================
