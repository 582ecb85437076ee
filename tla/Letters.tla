------------------------------ MODULE Letters ------------------------------
(***************************************************************************)
(* The life of one letter: the request that makes it, the PDF that         *)
(* template preview renders or that the customer sends, the virus scan and *)
(* the sanitising of precompiled letters, the collation, deliver_letter    *)
(* and the print provider's (DVLA) callback, with the scheduled tasks that *)
(* look for letters left behind and the requests that cancel a letter.     *)
(*                                                                         *)
(* A handler is a task or a request.  It reads the row first and keeps     *)
(* what it read (SQLAlchemy's session does not refresh a loaded row, not   *)
(* even for SELECT ... FOR UPDATE), and each file it moves and each commit *)
(* is a step.  Handlers that overlap are a fault, "overlap", so that what  *)
(* holds without it is stated in the same model.                           *)
(***************************************************************************)
EXTENDS NotificationStatus, Naturals, FiniteSets

CONSTANTS
  Kinds,       \* templated, precompiled (API), uploaded (admin app)
  Slots,       \* handlers at work on the letter
  MaxRetries,  \* max_retries of the tasks (15 for PDFs, 55 for deliver_letter)
  MaxCopies,   \* copies of a message a queue holds
  MaxRescans,  \* runs of check_if_letters_still_pending_virus_check in the 20
               \* minutes in which it looks at a letter (2)
  MaxFaults,   \* bound on faults
  FaultKinds   \* which faults happen: see the actions that name one

ASSUME LettersAssumption ==
  /\ Kinds \subseteq {"templated", "precompiled", "uploaded"}
  /\ {MaxRetries, MaxRescans, MaxFaults} \subseteq Nat
  /\ MaxCopies \in Nat \ {0}

VARIABLES
  letter,     \* what was asked for: kind, test key, fit to print
  status,     \* notifications.status
  units,      \* notifications.billable_units is not 0
  touched,    \* notifications.updated_at is set
  pdf,        \* where the PDF is: buckets, and folders of the scan bucket
  queue,      \* messages queued, by task and number of retries
  handler,    \* what the handlers at work have done and read
  dvla,       \* what the print provider did: none, accepted, despatched, rejected
  despatch,   \* notifications_letter_despatch has the letter
  rescans,    \* runs that found the letter in pending-virus-check
  ticket,     \* a support ticket names the letter
  faults      \* faults that have happened

vars == <<letter, status, units, touched, pdf, queue, handler, dvla, despatch,
          rescans, ticket, faults>>

\* scan, sanitise ...: S3 buckets.  failure, error: folders of the scan bucket.
Places == {"transient", "scan", "sanitise", "live", "test", "invalid", "failure",
           "error"}

\* Tasks of the API, and (antivirus, create_pdf, sanitise_pdf) those of the
\* antivirus and template preview apps.
ApiTasks == {"get_pdf", "billable_units", "too_long", "sanitise_letter",
             "process_sanitised", "virus_found", "scan_error", "deliver_letter",
             "letter_callback"}
ExternalTasks == {"antivirus", "create_pdf", "sanitise_pdf"}
Messages == (ApiTasks \cup ExternalTasks) \X (0..MaxRetries)

\* seen: the status the handler's session holds.
IdleHandler == [task |-> "none", pc |-> "idle", tries |-> 0, seen |-> Absent]

NoLetter == [kind |-> "none", test |-> FALSE, fit |-> FALSE]

Init ==
  /\ letter = NoLetter /\ status = Absent /\ units = FALSE /\ touched = FALSE
  /\ pdf = {}
  /\ queue = [m \in Messages |-> 0]
  /\ handler = [s \in Slots |-> IdleHandler]
  /\ dvla = "none" /\ despatch = FALSE
  /\ rescans = 0 /\ ticket = FALSE
  /\ faults = {}

Fault(kind) ==
  /\ kind \in FaultKinds \ faults /\ Cardinality(faults) < MaxFaults
  /\ faults' = faults \cup {kind}

Row == <<status, units, touched>>
Outside == <<dvla, despatch, rescans, ticket>>

Queued(tasks) == \E m \in Messages : m[1] \in tasks /\ queue[m] > 0
Working == \E s \in Slots : handler[s].pc # "idle"

\* The queue q with one more message for `task'.
Put(q, task, tries) ==
  [q EXCEPT ![<<task, tries>>] = IF @ < MaxCopies THEN @ + 1 ELSE @]
Take(q, m) == [q EXCEPT ![m] = @ - 1]
Send(task) == queue' = Put(queue, task, 0)

\* The step of a handler after which it is at pc, or done.
Goto(s, pc) == handler' = [handler EXCEPT ![s].pc = pc]
Done(s) == handler' = [handler EXCEPT ![s] = IdleHandler]
At(s, task, pc) == handler[s].task = task /\ handler[s].pc = pc

\* The same, for a handler that reads the row again after its commit.
GotoSeeing(s, pc, st) ==
  handler' = [handler EXCEPT ![s] = [@ EXCEPT !.pc = pc, !.seen = st]]

\* A handler that starts while another one is at work is a fault.
Alone == IF Working THEN Fault("overlap") ELSE UNCHANGED faults

\* Slots are alike: a handler takes the next free one.
Free == {s \in Slots : handler[s].pc = "idle"}
MayStart(s) == Free # {} /\ s = (CHOOSE f \in Free : TRUE) /\ Alone

\* dao_update_notification: the row's other columns are not in the UPDATE.
Write(new) == status' = new /\ touched' = TRUE /\ UNCHANGED units

\* update_notification_status_by_id, with the row already in the session.
UpdateStatusById(s, new) ==
  IF handler[s].seen \in UpdatableStatuses THEN Write(new) ELSE UNCHANGED Row

\* update_letter_pdf_status, by reference: whatever the status was.
UpdateLetterPdfStatus(new, billed) ==
  status' = new /\ units' = billed /\ touched' = TRUE

\* self.retry(): queued again, or the row is given up.
RetryOrGiveUp(s, task) ==
  IF handler[s].tries < MaxRetries
  THEN queue' = Put(queue, task, handler[s].tries + 1) /\ UNCHANGED Row
  ELSE UpdateStatusById(s, "technical-failure") /\ UNCHANGED queue

\* _move_s3_object: copied, then deleted.
Move(from, to) == from \in pdf /\ pdf' = (pdf \ {from}) \cup {to}

-----------------------------------------------------------------------------
(* Requests.                                                               *)

Order(kind, test) ==
  /\ status = Absent /\ kind \in Kinds
  /\ \E fit \in BOOLEAN :
       /\ letter' = [kind |-> kind, test |-> test, fit |-> fit]
       /\ kind = "uploaded" => fit

\* process_letter_notification.  A test letter is `sending', with a callback made
\* up for it, or `delivered' at once (TEST_LETTERS_FAKE_DELIVERY).  The row is
\* committed before anything is queued.
PostLetter ==
  /\ \E test \in BOOLEAN :
       /\ Order("templated", test)
       /\ status' \in (IF test THEN {"sending", "delivered"} ELSE {"created"})
       /\ touched' = (status' = "delivered")
       /\ \/ queue' = (IF status' = "sending"
                       THEN Put(Put(queue, "get_pdf", 0), "letter_callback", 0)
                       ELSE Put(queue, "get_pdf", 0)) /\ UNCHANGED faults
          \/ UNCHANGED queue /\ Fault("broker")
  /\ UNCHANGED <<units, pdf, handler, Outside>>

\* process_precompiled_letter_notifications: row and file in one transaction,
\* then the scan is queued.
PostPrecompiledLetter ==
  /\ \E test \in BOOLEAN : Order("precompiled", test)
  /\ status' = "pending-virus-check" /\ pdf' = {"scan"}
  /\ \/ Send("antivirus") /\ UNCHANGED faults
     \/ UNCHANGED queue /\ Fault("broker")
  /\ UNCHANGED <<units, touched, handler, Outside>>

\* send_pdf_letter_notification: the row is committed, with its units ...
SendUploadedLetter(s) ==
  /\ Order("uploaded", FALSE)
  /\ MayStart(s)
  /\ status' = "created" /\ units' = TRUE /\ pdf' = {"transient"}
  /\ handler' = [handler EXCEPT ![s] = [IdleHandler EXCEPT !.task = "upload",
                                                           !.pc = "persisted"]]
  /\ UNCHANGED <<touched, queue, Outside>>

\* ... before the file is in the bucket it is sent from.
MoveUploadedPdf(s) ==
  /\ At(s, "upload", "persisted")
  /\ Move("transient", "live")
  /\ Done(s)
  /\ UNCHANGED <<letter, Row, queue, Outside, faults>>

\* Mutant: any letter on its way.
CanBeCancelledLate == status \in UpdatableStatuses

\* letter_can_be_cancelled (the time of day apart).
CanBeCancelled == status \in {"created", "pending-virus-check"}

\* cancel_notification_for_service reads the row ...
CancelLetter(s) ==
  /\ CanBeCancelled
  /\ MayStart(s)
  /\ handler' = [handler EXCEPT ![s] = [task |-> "cancel", pc |-> "read",
                                        tries |-> 0, seen |-> status]]
  /\ UNCHANGED <<letter, Row, pdf, queue, Outside>>

\* ... and updates it.
WriteCancelled(s) ==
  /\ At(s, "cancel", "read")
  /\ UpdateStatusById(s, "cancelled")
  /\ Done(s)
  /\ UNCHANGED <<letter, pdf, queue, Outside, faults>>

\* dao_cancel_letter_job: all letters of the job, if none of them is past
\* `created' when can_letter_job_be_cancelled looks.
CancelLetterJob ==
  /\ letter.kind = "templated" /\ ~letter.test
  /\ status \in {"created", "technical-failure", "validation-failed"}
  /\ Alone
  /\ status' = "cancelled" /\ units' = FALSE /\ touched' = TRUE
  /\ UNCHANGED <<letter, pdf, queue, handler, Outside>>

-----------------------------------------------------------------------------
(* Tasks: how one starts, dies or is played again.                         *)

\* A worker takes the message and reads the row.
Begin(s, m) ==
  /\ m[1] \in ApiTasks /\ queue[m] > 0
  /\ MayStart(s)
  /\ queue' = Take(queue, m)
  /\ handler' = [handler EXCEPT ![s] = [task |-> m[1], pc |-> "read",
                                        tries |-> m[2], seen |-> status]]
  /\ UNCHANGED <<letter, Row, pdf, Outside>>

Crash(s) ==
  /\ handler[s].pc # "idle" /\ Fault("worker")
  /\ Done(s)
  /\ UNCHANGED <<letter, Row, pdf, queue, Outside>>

Redeliver(m) ==
  /\ queue[m] = 1 /\ Fault("redelivery")
  /\ queue' = Put(queue, m[1], m[2])
  /\ UNCHANGED <<letter, Row, pdf, handler, Outside>>

Lose(m) ==
  /\ queue[m] > 0 /\ Fault("loss")
  /\ queue' = Take(queue, m)
  /\ UNCHANGED <<letter, Row, pdf, handler, Outside>>

-----------------------------------------------------------------------------
(* Templated letters.                                                      *)

\* get_pdf_for_templated_letter.
GetPdf(s) ==
  /\ At(s, "get_pdf", "read")
  /\ \/ Send("create_pdf") /\ UNCHANGED Row
     \/ RetryOrGiveUp(s, "get_pdf")
  /\ Done(s)
  /\ UNCHANGED <<letter, pdf, Outside, faults>>

\* Template preview stores the PDF and tells its length, or that it is too long.
CreatePdf ==
  \E m \in Messages :
    /\ m[1] = "create_pdf" /\ queue[m] > 0
    /\ IF letter.fit
       THEN /\ pdf' = pdf \cup {IF letter.test THEN "test" ELSE "live"}
            /\ queue' = Put(Take(queue, m), "billable_units", 0)
       ELSE /\ queue' = Put(Take(queue, m), "too_long", 0)
            /\ UNCHANGED pdf
    /\ UNCHANGED <<letter, Row, handler, Outside, faults>>

\* update_billable_units_for_letter.
UpdateBillableUnits(s) ==
  /\ At(s, "billable_units", "read")
  /\ IF letter.test THEN UNCHANGED <<units, touched>>
     ELSE units' = TRUE /\ touched' = TRUE
  /\ Done(s)
  /\ UNCHANGED <<letter, status, pdf, queue, Outside, faults>>

\* update_validation_failed_for_templated_letter.
UpdateValidationFailed(s) ==
  /\ At(s, "too_long", "read")
  /\ Write("validation-failed")
  /\ Done(s)
  /\ UNCHANGED <<letter, pdf, queue, Outside, faults>>

-----------------------------------------------------------------------------
(* Precompiled letters.                                                    *)

\* The antivirus app: the file is clean, has a virus, or cannot be scanned.  A
\* second scan may find what the first did not know.
ScanFile ==
  \E m \in Messages :
    /\ m[1] = "antivirus" /\ queue[m] > 0
    /\ LET rest == Take(queue, m)
       IN \/ "scan" \notin pdf /\ queue' = rest /\ UNCHANGED faults
          \/ /\ "scan" \in pdf /\ UNCHANGED faults
             /\ \E found \in {"virus_found", "sanitise_letter"} :
                  queue' = Put(rest, found, 0)
          \/ "scan" \in pdf /\ queue' = Put(rest, "scan_error", 0)
             /\ Fault("antivirus")
    /\ UNCHANGED <<letter, Row, pdf, handler, Outside>>

\* sanitise_letter.
SanitiseLetter(s) ==
  /\ At(s, "sanitise_letter", "read")
  /\ IF handler[s].seen # "pending-virus-check" THEN UNCHANGED <<Row, queue>>
     ELSE \/ Send("sanitise_pdf") /\ UNCHANGED Row
          \/ RetryOrGiveUp(s, "sanitise_letter")
  /\ Done(s)
  /\ UNCHANGED <<letter, pdf, Outside, faults>>

\* Template preview: a valid letter has a sanitised copy.
SanitisePdf ==
  \E m \in Messages :
    /\ m[1] = "sanitise_pdf" /\ queue[m] > 0
    /\ IF "scan" \in pdf
       THEN /\ queue' = Put(Take(queue, m), "process_sanitised", 0)
            /\ pdf' = pdf \cup (IF letter.fit THEN {"sanitise"} ELSE {})
       ELSE queue' = Take(queue, m) /\ UNCHANGED pdf
    /\ UNCHANGED <<letter, Row, handler, Outside, faults>>

\* letter_details["validation_status"] == "failed"
Invalid == ~letter.fit

\* Mutant: the status is not looked at.
AnyStatus(s) == TRUE

\* process_sanitised_letter goes on only with a letter still to be scanned.
StillPending(s) == handler[s].seen = "pending-virus-check"

\* process_sanitised_letter, of a letter that was dealt with.
ProcessSanitisedAgain(s) ==
  /\ At(s, "process_sanitised", "read") /\ ~StillPending(s)
  /\ Done(s)
  /\ UNCHANGED <<letter, Row, pdf, queue, Outside, faults>>

\* An exception (the database, say) before the first commit.
ProcessSanitisedFails(s) ==
  /\ At(s, "process_sanitised", "read") /\ StillPending(s)
  /\ RetryOrGiveUp(s, "process_sanitised")
  /\ Done(s)
  /\ UNCHANGED <<letter, pdf, Outside, faults>>

\* Mutant: the file stays where it is.
LeaveInvalidLetter(s) ==
  /\ At(s, "process_sanitised", "read") /\ StillPending(s) /\ Invalid
  /\ Goto(s, "invalid_moved")
  /\ UNCHANGED <<letter, Row, pdf, queue, Outside, faults>>

\* _move_invalid_letter_and_update_status: the file goes first; if it is not
\* there the letter is given up.
MoveInvalidLetter(s) ==
  /\ At(s, "process_sanitised", "read") /\ StillPending(s) /\ Invalid
  /\ \/ Move("scan", "invalid") /\ Goto(s, "invalid_moved") /\ UNCHANGED Row
     \/ /\ "scan" \notin pdf /\ Done(s) /\ UNCHANGED pdf
        /\ UpdateStatusById(s, "technical-failure")
  /\ UNCHANGED <<letter, queue, Outside, faults>>

MarkInvalid(s) ==
  /\ At(s, "process_sanitised", "invalid_moved")
  /\ UpdateLetterPdfStatus("validation-failed", FALSE)
  /\ Done(s)
  /\ UNCHANGED <<letter, pdf, queue, Outside, faults>>

\* A valid letter: the row goes first, so that the task can be tried again, and is
\* read again for the name of the file.
MarkSanitised(s) ==
  LET new == IF letter.test THEN "delivered" ELSE "created"
  IN  /\ At(s, "process_sanitised", "read") /\ StillPending(s) /\ ~Invalid
      /\ UpdateLetterPdfStatus(new, TRUE)
      /\ GotoSeeing(s, "updated", new)
      /\ UNCHANGED <<letter, pdf, queue, Outside, faults>>

\* move_sanitised_letter_to_test_or_live_pdf_bucket; a file that is not there
\* gives the letter up, from the status that was just committed.
MoveSanitised(s) ==
  /\ At(s, "process_sanitised", "updated")
  /\ \/ /\ Move("sanitise", IF letter.test THEN "test" ELSE "live")
        /\ Goto(s, "moved") /\ UNCHANGED Row
     \/ /\ "sanitise" \notin pdf /\ Done(s) /\ UNCHANGED pdf
        /\ UpdateStatusById(s, "technical-failure")
  /\ UNCHANGED <<letter, queue, Outside, faults>>

\* original_pdf_object.delete()
DeleteOriginal(s) ==
  /\ At(s, "process_sanitised", "moved")
  /\ pdf' = pdf \ {"scan"}
  /\ Done(s)
  /\ UNCHANGED <<letter, Row, queue, Outside, faults>>

\* move_failed_pdf: raises if the file is gone.
MoveFailedPdf(s, task, folder) ==
  /\ At(s, task, "read")
  /\ \/ Move("scan", folder) /\ Goto(s, "failed_moved")
     \/ "scan" \notin pdf /\ Done(s) /\ UNCHANGED pdf
  /\ UNCHANGED <<letter, Row, queue, Outside, faults>>

\* process_virus_scan_failed, process_virus_scan_error: the status is overwritten.
MarkFailed(s, task, new) ==
  /\ At(s, task, "failed_moved")
  /\ UpdateLetterPdfStatus(new, FALSE)
  /\ Done(s)
  /\ UNCHANGED <<letter, pdf, queue, Outside, faults>>

\* replay_letters_in_error, run by hand.
ReplayLetterInError ==
  /\ Move("error", "scan")
  /\ Send("antivirus")
  /\ UNCHANGED <<letter, Row, handler, Outside, faults>>

-----------------------------------------------------------------------------
(* Printing.                                                               *)

\* dao_get_letters_to_be_printed_all.
ToBePrinted == status = "created" /\ ~letter.test /\ units

\* collate_letter_pdfs_to_be_sent, send_dvla_letters_via_api and
\* shatter_deliver_letter_tasks: every run queues every letter still `created',
\* whether or not a task has it.
Collate ==
  /\ ToBePrinted
  /\ Send("deliver_letter")
  /\ UNCHANGED <<letter, Row, pdf, handler, Outside, faults>>

\* Mutant: the status is not looked at.
SendableAnyway(s) == ~letter.test

\* deliver_letter goes on only with a letter still `created', of a live key.
Sendable(s) == handler[s].seen = "created" /\ ~letter.test

\* deliver_letter returns.
NotDeliverable(s) ==
  /\ At(s, "deliver_letter", "read") /\ ~Sendable(s)
  /\ Done(s)
  /\ UNCHANGED <<letter, Row, pdf, queue, Outside, faults>>

Deliverable(s) == At(s, "deliver_letter", "read") /\ Sendable(s)

\* find_letter_pdf_in_s3.
PdfNotFound(s) ==
  /\ Deliverable(s) /\ "live" \notin pdf
  /\ UpdateStatusById(s, "technical-failure")
  /\ Done(s)
  /\ UNCHANGED <<letter, pdf, queue, Outside, faults>>

\* send_letter: printed, or taken for a duplicate (409).
SendLetter(s) ==
  /\ Deliverable(s) /\ "live" \in pdf
  /\ \/ dvla = "none" /\ dvla' = "accepted" /\ Goto(s, "accepted")
     \/ dvla # "none" /\ UNCHANGED dvla /\ Goto(s, "duplicate")
  /\ UNCHANGED <<letter, Row, pdf, queue, despatch, rescans, ticket, faults>>

\* DvlaRetryableException; the letter may have been taken all the same.
SendLetterRetry(s) ==
  /\ Deliverable(s) /\ "live" \in pdf
  /\ \/ UNCHANGED <<dvla, faults>>
     \/ dvla = "none" /\ dvla' = "accepted" /\ Fault("answer lost")
  /\ RetryOrGiveUp(s, "deliver_letter")
  /\ Done(s)
  /\ UNCHANGED <<letter, pdf, despatch, rescans, ticket>>

\* Any other answer.
SendLetterFails(s) ==
  /\ Deliverable(s) /\ "live" \in pdf /\ dvla = "none"
  /\ UpdateStatusById(s, "technical-failure")
  /\ Done(s)
  /\ UNCHANGED <<letter, pdf, queue, Outside, faults>>

\* Mutant: a duplicate is left as it is.
UpdateLetterUnlessPrinted(s) ==
  IF At(s, "deliver_letter", "duplicate") THEN UNCHANGED Row ELSE Write("sending")

\* update_letter_to_sending: whatever the status is by now.
UpdateLetterToSending(s) == Write("sending")

\* The printer has answered that it has the letter.
Taken(s) == At(s, "deliver_letter", "accepted") \/ At(s, "deliver_letter", "duplicate")

MarkSending(s) ==
  /\ Taken(s)
  /\ UpdateLetterToSending(s)
  /\ Done(s)
  /\ UNCHANGED <<letter, pdf, queue, Outside, faults>>

\* update_letter_to_sending raises.  Inside the try the letter that is printed is
\* given up as one that was not, if the database takes that; after a duplicate
\* nothing catches it.
MarkSendingFails(s) ==
  /\ Taken(s) /\ Fault("database")
  /\ \/ At(s, "deliver_letter", "accepted") /\ UpdateStatusById(s, "technical-failure")
     \/ UNCHANGED Row
  /\ Done(s)
  /\ UNCHANGED <<letter, pdf, queue, Outside>>

\* The print provider despatches or rejects the letter and says so.
DvlaPrints ==
  /\ dvla = "accepted"
  /\ dvla' \in {"despatched", "rejected"}
  /\ Send("letter_callback")
  /\ UNCHANGED <<letter, Row, pdf, handler, despatch, rescans, ticket, faults>>

\* already_updated_status: the values of DVLA_TO_NOTIFICATION_STATUS_MAP.
AlreadyUpdated(s) == handler[s].seen \in {"delivered", "technical-failure"}

\* Mutant: the despatch is not recorded.
LetterCallbackOnly(s) ==
  /\ At(s, "letter_callback", "read")
  /\ IF AlreadyUpdated(s) THEN UNCHANGED Row
     ELSE Write(IF dvla = "rejected" THEN "technical-failure" ELSE "delivered")
  /\ Done(s)
  /\ UNCHANGED <<letter, pdf, queue, Outside, faults>>

\* process_letter_callback_data.
LetterCallback(s) ==
  /\ At(s, "letter_callback", "read")
  /\ IF AlreadyUpdated(s) THEN UNCHANGED Row /\ Done(s)
     ELSE IF dvla = "rejected" THEN Write("technical-failure") /\ Done(s)
     ELSE Write("delivered") /\ Goto(s, "updated")
  /\ UNCHANGED <<letter, pdf, queue, Outside, faults>>

\* dao_record_letter_despatched_on_by_id.
RecordDespatch(s) ==
  /\ At(s, "letter_callback", "updated")
  /\ despatch' = TRUE
  /\ Done(s)
  /\ UNCHANGED <<letter, Row, pdf, queue, dvla, rescans, ticket, faults>>

\* process_returned_letters_list, days later.
ReturnLetter ==
  /\ dvla = "despatched" /\ status # "returned-letter"
  /\ ~Working /\ ~Queued({"letter_callback"})
  /\ status' = "returned-letter"
  /\ UNCHANGED <<letter, units, touched, pdf, queue, handler, Outside, faults>>

-----------------------------------------------------------------------------
(* Scheduled checks.  A letter that is still being worked on after ten     *)
(* minutes or an hour is a fault, "slow".                                  *)

InTime(tasks) ==
  IF Working \/ Queued(tasks) THEN Fault("slow") ELSE UNCHANGED faults

\* Mutant: only letters that were touched.
MissingIfTouched == status = "created" /\ ~units /\ touched /\ ~letter.test

\* letters_missing_from_sending_bucket.
MissingFromBucket == status = "created" /\ ~units /\ ~touched /\ ~letter.test

\* The letters' part of replay_created_notifications.
ReplayCreatedLetter ==
  /\ MissingFromBucket
  /\ InTime({"get_pdf", "create_pdf", "billable_units", "too_long"})
  /\ Send("get_pdf")
  /\ UNCHANGED <<letter, Row, pdf, handler, Outside>>

\* dao_precompiled_letters_still_pending_virus_check: ten to thirty minutes old.
PendingVirusCheck == status = "pending-virus-check" /\ rescans < MaxRescans

\* check_if_letters_still_pending_virus_check: scanned again, or reported.
CheckPendingVirusCheck ==
  /\ PendingVirusCheck
  /\ InTime({"antivirus", "sanitise_letter", "sanitise_pdf", "process_sanitised",
             "virus_found", "scan_error"})
  /\ rescans' = rescans + 1
  /\ IF "scan" \in pdf THEN Send("antivirus") /\ UNCHANGED ticket
     ELSE ticket' = TRUE /\ UNCHANGED queue
  /\ UNCHANGED <<letter, Row, pdf, handler, dvla, despatch>>

-----------------------------------------------------------------------------
\* Template preview and antivirus.
OtherApps == CreatePdf \/ ScanFile \/ SanitisePdf

\* The beat schedule.
Scheduled == Collate \/ ReplayCreatedLetter \/ CheckPendingVirusCheck

Requests ==
  \/ PostLetter \/ PostPrecompiledLetter \/ CancelLetterJob
  \/ \E s \in Slots : SendUploadedLetter(s) \/ CancelLetter(s)

\* The handler's next step.
Step(s) ==
  \/ MoveUploadedPdf(s) \/ WriteCancelled(s)
  \/ GetPdf(s) \/ UpdateBillableUnits(s) \/ UpdateValidationFailed(s)
  \/ SanitiseLetter(s) \/ ProcessSanitisedAgain(s) \/ ProcessSanitisedFails(s)
  \/ MoveInvalidLetter(s) \/ MarkInvalid(s)
  \/ MarkSanitised(s) \/ MoveSanitised(s) \/ DeleteOriginal(s)
  \/ MoveFailedPdf(s, "virus_found", "failure")
  \/ MarkFailed(s, "virus_found", "virus-scan-failed")
  \/ MoveFailedPdf(s, "scan_error", "error")
  \/ MarkFailed(s, "scan_error", "technical-failure")
  \/ NotDeliverable(s) \/ PdfNotFound(s) \/ SendLetter(s) \/ SendLetterRetry(s)
  \/ SendLetterFails(s) \/ MarkSending(s) \/ MarkSendingFails(s)
  \/ LetterCallback(s) \/ RecordDespatch(s)

Faults ==
  \/ ReplayLetterInError
  \/ \E s \in Slots : Crash(s)
  \/ \E m \in Messages : Redeliver(m) \/ Lose(m)

Next ==
  \/ Requests \/ Faults
  \/ \E s \in Slots : Step(s) \/ \E m \in Messages : Begin(s, m)
  \/ OtherApps \/ Scheduled
  \/ DvlaPrints \/ ReturnLetter

Spec == Init /\ [][Next]_vars

\* Queues are drained, the beat schedule keeps running and the other apps answer.
\* Collations keep adding deliver_letter messages; none of them waits for ever.
Fairness ==
  /\ \A s \in Slots : WF_vars(Step(s))
  /\ WF_vars(\E s \in Slots, m \in Messages : Begin(s, m))
  /\ \A k \in 0..MaxRetries : SF_vars(\E s \in Slots : Begin(s, <<"deliver_letter", k>>))
  /\ WF_vars(OtherApps) /\ WF_vars(Scheduled)

FairSpec == Spec /\ Fairness

-----------------------------------------------------------------------------
(* Properties.                                                             *)

\* Every variable keeps its type.
TypeOK ==
  /\ letter.kind \in Kinds \cup {"none"}
  /\ {letter.test, letter.fit} \subseteq BOOLEAN
  /\ status \in NotificationStatuses \cup {Absent}
  /\ {units, touched, despatch, ticket} \subseteq BOOLEAN
  /\ pdf \subseteq Places
  /\ queue \in [Messages -> 0..MaxCopies]
  /\ DOMAIN handler = Slots
  /\ dvla \in {"none", "accepted", "despatched", "rejected"}
  /\ rescans \in 0..MaxRescans /\ faults \subseteq FaultKinds

Calm(kinds) == ~Working /\ faults \cap kinds = {}

\* Unless handlers overlap or a worker dies, the file is where the status says
\* whenever no handler is at work: process_sanitised_letter commits the row
\* before it moves the file, the failures move the file before they commit.
FileMatchesStatus ==
  Calm({"overlap", "worker"}) =>
    /\ ToBePrinted => "live" \in pdf
    /\ status = "pending-virus-check" => "scan" \in pdf
    /\ status = "virus-scan-failed" => pdf \ {"sanitise"} = {"failure"}
    /\ status = "validation-failed" /\ letter.kind = "precompiled"
         => pdf = {"invalid"}

\* Types hold, and the row and its file in S3 agree.
LetterInv == TypeOK /\ FileMatchesStatus

\* Unless handlers overlap, a worker dies or messages are lost: a letter that the
\* printer took and whose row still says `created' has a deliver_letter queued, which
\* will be answered as a duplicate, or its update failed in the database; and what
\* the printer reports is in the row or in a queue, or the letter was given up.
NothingForgotten ==
  Calm({"overlap", "worker", "loss"}) =>
    /\ status = "created" /\ dvla # "none" =>
         Queued({"deliver_letter"}) \/ "database" \in faults
    /\ dvla \in {"despatched", "rejected"} =>
         \/ Queued({"letter_callback"})
         \/ status \in {"delivered", "returned-letter", "technical-failure", "cancelled"}

\* Nothing lost, nothing played twice: the row says what the printer did.  A letter
\* it took is `sending' until the callback is played, is not failed by the API,
\* and a rejected letter is a technical failure (which cancel_letter_job may
\* still turn into `cancelled').
RowIsExact ==
  Calm({"overlap", "worker", "answer lost", "loss", "redelivery", "slow", "database"}) =>
    /\ dvla = "accepted" => status = "sending"
    /\ dvla = "despatched" =>
         \/ status \in {"delivered", "returned-letter"}
         \/ status = "sending" /\ Queued({"letter_callback"})
    /\ dvla = "rejected" =>
         \/ status \in {"technical-failure", "cancelled"}
         \/ status = "sending" /\ Queued({"letter_callback"})

\* What the printer did is recorded, or something is left that will record it: exactly
\* when nothing failed, and after a lost answer (a retry that the printer takes for a
\* duplicate) as well.  A letter that was printed can be a technical failure for good
\* if the update after the printer's answer fails, if the retries run out after a lost
\* answer, or if a second get_pdf_for_templated_letter (replay_created_notifications)
\* gives it up: the callback leaves that status alone.
PrintedIsRecorded == NothingForgotten /\ RowIsExact

\* Unless handlers overlap, a worker dies, a task is played twice or the answer of
\* the print provider is lost or not recorded, cancelled letters stay unprinted, and the only thing
\* that changes their status is a verdict of the virus scan (which overwrites
\* whatever it finds) or a PDF that turns out to be too long.
CancelledForGood ==
  [][faults' \cap {"overlap", "worker", "answer lost", "redelivery", "slow",
                        "database"} = {}
       /\ status = "cancelled" =>
       /\ dvla' \in {"none", "rejected"}
       /\ status' \in {"cancelled", "virus-scan-failed", "technical-failure",
                       "validation-failed"}]_vars

\* Unless handlers overlap or a worker dies, whatever else is lost or doubled, a
\* letter that was refused (a virus, not valid) is neither printed nor taken up again,
\* although scans and collations made before the verdict are still queued.  (A worker
\* that dies before it deletes the original leaves it to a second scan, whose verdict
\* may then come when the letter is printed.)
RefusedForGood ==
  [][/\ faults' \cap {"overlap", "worker"} = {}
     /\ status \in {"virus-scan-failed", "validation-failed"}
     => /\ dvla' = dvla
        /\ status' \notin {"created", "pending-virus-check", "sending"}]_vars

\* Unless a worker dies or handlers overlap, a despatched letter is recorded for
\* the billing of letters once its callback was played.
DespatchRecorded ==
  Calm({"overlap", "worker"}) /\ dvla = "despatched" /\ status = "delivered" => despatch

\* A letter does not stay in `created' or `pending-virus-check': the tasks, or
\* the checks that look for letters left behind, bring it on, end it or report
\* it to the support team.  One fault at most: a second one may hit the recovery.
LeavesStart ==
  status \in {"created", "pending-virus-check"}
    ~> status \notin {"created", "pending-virus-check"} \/ ticket
       \/ Cardinality(faults) > 1
=============================================================================
