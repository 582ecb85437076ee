----------------------------- MODULE MCArchive -----------------------------
(***************************************************************************)
(* Instances of Archive for TLC: texts and letters of one service.          *)
(***************************************************************************)
EXTENDS Archive

CONSTANTS x1, x2, l1, l2

\* Billing counts the letters under one postage.
MCGroup == [n \in Notifications |-> IF n \in Texts THEN "firetext" ELSE "netherlands"]

\* Texts and letters share no rows, only the phases of the night: one type at a time.
OneType == \E t \in Types : \A n \in OfType(t) : AllTime[n] = Absent /\ fact[n] = Absent
=============================================================================
