------------------------- MODULE NotificationStore -------------------------
(***************************************************************************)
(* What the tables `notifications' and `notification_history' promise      *)
(* together, without saying which of them holds a notification: a          *)
(* notification that was accepted has one record, which writers change and *)
(* which is not deleted, unless it was made with a test key.  The one      *)
(* exception: a write that races with the nightly archiving of its         *)
(* notification may be undone.                                             *)
(***************************************************************************)
CONSTANTS
  Notifications,  \* ids
  TestKey,        \* the ones made with a test API key
  Statuses,       \* values of the status column
  NoRecord        \* there is no such notification

VARIABLES
  record,  \* the status of the notification, wherever it is
  raced    \* notifications written to while they were being archived

vars == <<record, raced>>

Init ==
  /\ record = [n \in Notifications |-> NoRecord]
  /\ raced = {}

Accept(n, s) ==
  /\ record[n] = NoRecord /\ s # NoRecord
  /\ record' = [record EXCEPT ![n] = s]
  /\ UNCHANGED raced

\* Writers: receipts, callbacks, returned letters, the timeout.
Change(n, s) ==
  /\ record[n] # NoRecord /\ s # NoRecord
  /\ record' = [record EXCEPT ![n] = s]
  /\ raced' \in {raced, raced \cup {n}}

\* The timeout changes many at once, never one that has arrived.
TimeOut(N) ==
  /\ \A n \in N : record[n] \in {"sending", "pending"}
  /\ record' = [n \in Notifications |->
                  IF n \in N THEN "temporary-failure" ELSE record[n]]
  /\ UNCHANGED raced

\* Archiving changes nothing, but for writes it raced with.
Archive ==
  /\ record' \in [Notifications -> Statuses \cup {NoRecord}]
  /\ \A n \in Notifications :
       /\ record'[n] # record[n] => n \in raced
       /\ record'[n] = NoRecord <=> record[n] = NoRecord
  /\ UNCHANGED raced

Purge(N) ==
  /\ N \subseteq TestKey
  /\ record' = [n \in Notifications |-> IF n \in N THEN NoRecord ELSE record[n]]
  /\ UNCHANGED raced

Next ==
  \/ \E n \in Notifications, s \in Statuses : Accept(n, s) \/ Change(n, s)
  \/ \E N \in SUBSET Notifications : TimeOut(N) \/ Purge(N)
  \/ Archive

Spec == Init /\ [][Next]_vars
=============================================================================
