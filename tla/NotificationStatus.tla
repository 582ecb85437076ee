------------------------- MODULE NotificationStatus -------------------------
(***************************************************************************)
(* The status column of the notifications table (app/constants.py) and the *)
(* groups of statuses that the DAO layer and the tasks test for.  `Absent' *)
(* stands for "there is no such row".                                      *)
(***************************************************************************)

Absent == "absent"

\* NOTIFICATION_STATUS_TYPES: every value the column may hold.
NotificationStatuses ==
  {"cancelled", "created", "sending", "sent", "delivered", "pending", "failed",
   "technical-failure", "temporary-failure", "permanent-failure",
   "pending-virus-check", "validation-failed", "virus-scan-failed",
   "returned-letter"}

\* NOTIFICATION_STATUS_TYPES_COMPLETED.
CompletedStatuses ==
  {"sent", "delivered", "failed", "technical-failure", "temporary-failure",
   "permanent-failure", "returned-letter", "cancelled", "validation-failed"}

\* The statuses from which update_notification_status_by_id agrees to move.
UpdatableStatuses ==
  {"created", "sending", "pending", "sent", "pending-virus-check"}

\* What dao_timeout_notifications considers to be still on its way.
InFlightStatuses == {"sending", "pending"}

\* A text or an email that reached one of these is not expected to move again.
FinalStatuses ==
  {"delivered", "technical-failure", "temporary-failure", "permanent-failure"}
=============================================================================
