--------------------------- MODULE EmailDelivery ---------------------------
(***************************************************************************)
(* The life of an email after the request that created it: deliver_email,  *)
(* the reference SES hands out when it takes the email, the notifications  *)
(* SES posts under that reference (process_ses_results), the replay and    *)
(* the timeout.                                                            *)
(*                                                                         *)
(* Unlike a text, an email can only be matched with a report once          *)
(* deliver_email has committed the reference, and the task does not close  *)
(* its session around the call: after an error, what it tests is the row   *)
(* as it was read at the start.                                            *)
(***************************************************************************)
EXTENDS NotificationStatus, Naturals, Sequences

CONSTANTS
  Emails,             \* ids of the emails
  Tasks,              \* slots for the copies of deliver_email of one email
  Reports,            \* slots for what SES posts about one email
  TestKey,            \* emails made with a test API key
  MaxRetries,         \* max_retries of deliver_email (48)
  MaxReportRetries,   \* max_retries of process_ses_results (5)
  MaxRefs,            \* bound on the references given out for one email
  MaxPosts,           \* bound on what SES posts about one email
  MaxFaults,          \* bound on crashes, broker and database failures
  Overlap             \* may two handlers of one email run at the same time?

ASSUME EmailAssumption ==
  /\ TestKey \subseteq Emails
  /\ {MaxRetries, MaxReportRetries, MaxRefs, MaxPosts, MaxFaults} \subseteq Nat
  /\ Overlap \in BOOLEAN

VARIABLES
  row,        \* notifications table: status and reference (0: none)
  age,        \* 0: recent, 1: over an hour old, 2: over three days old
  active,     \* is the service active?
  task,       \* copies of deliver_email
  refs,       \* number of references given out: the k-th one is k
  lost,       \* ... that deliver_email did not get to record
  posts,      \* how often SES has posted, per email
  report,     \* what SES posted, on the queue or in hand
  handled,    \* <<n, ref>>: a delivery or bounce report dealt with
  complaints, \* rows of the complaints table, per email
  told,       \* statuses reported to the service, per email
  toldOf,     \* complaints reported to the service, per email
  replaying,  \* emails replay_created_notifications has selected
  sweep,      \* progress of timeout_notifications, per email
  faults      \* faults used up

vars == <<row, age, active, task, refs, lost, posts, report, handled,
          complaints, told, toldOf, replaying, sweep, faults>>

\* calling: the request to SES is out.  accepted: SES gave a reference, nothing
\* committed.  responding: a test email marked sending, simulated report still
\* to queue.  failing: SES refused the address for good.  raised: an exception
\* reached deliver_email.
TaskPCs == {"free", "queued", "calling", "accepted", "responding", "failing",
            "raised"}

\* seen: the status of the row in the task's session, Absent if the session
\* will read it afresh.
TaskState == [pc : TaskPCs, retries : 0..MaxRetries, ref : 0..MaxRefs,
              seen : {Absent, "created", "sending"}]

\* read: the row was found in flight.  updated: the status is committed.
\* saved: the complaint is committed.
ReportPCs == {"none", "transit", "read", "updated", "saved"}
ReportKinds == {"delivered", "permanent-failure", "temporary-failure",
                "complaint"}
\* recent: SES sent the email less than five minutes ago.
ReportState == [pc : ReportPCs, ref : 0..MaxRefs, kind : ReportKinds,
                tries : 0..MaxReportRetries, recent : BOOLEAN]

FreeTask == [pc |-> "free", retries |-> 0, ref |-> 0, seen |-> Absent]
NewTask == [FreeTask EXCEPT !.pc = "queued"]
NoReport == [pc |-> "none", ref |-> 0, kind |-> "delivered", tries |-> 0,
             recent |-> TRUE]

\* The request committed the row; it may have died before the broker call.
Init ==
  /\ row = [n \in Emails |-> [status |-> "created", ref |-> 0]]
  /\ age = [n \in Emails |-> 0]
  /\ active = TRUE
  /\ task \in [Emails -> {f \in [Tasks -> {FreeTask, NewTask}] :
                 \A t, u \in Tasks : f[t] = NewTask /\ f[u] = NewTask => t = u}]
  /\ refs = [n \in Emails |-> 0] /\ lost = [n \in Emails |-> 0]
  /\ posts = [n \in Emails |-> 0]
  /\ report = [n \in Emails |-> [r \in Reports |-> NoReport]]
  /\ handled = {}
  /\ complaints = [n \in Emails |-> 0] /\ toldOf = [n \in Emails |-> 0]
  /\ told = [n \in Emails |-> << >>]
  /\ replaying = {}
  /\ sweep = [n \in Emails |-> "idle"]
  /\ faults = 0

Fault == faults < MaxFaults /\ faults' = faults + 1

Idle(n) ==
  /\ \A t \in Tasks : task[n][t].pc \in {"free", "queued"}
  /\ \A r \in Reports : report[n][r].pc \in {"none", "transit"}
  /\ sweep[n] = "idle"
MayStart(n) == Overlap \/ Idle(n)

SetTask(n, t, new) == task' = [task EXCEPT ![n][t] = new]
Raise(n, t, seen) ==
  SetTask(n, t, [task[n][t] EXCEPT !.pc = "raised", !.seen = seen])
SetStatus(n, s) == row' = [row EXCEPT ![n].status = s]
SetReport(n, r, new) == report' = [report EXCEPT ![n][r] = new]
LoseRef(n) == lost' = [lost EXCEPT ![n] = @ + 1]

Reporting == <<posts, report, handled, complaints, told, toldOf>>
Schedule == <<age, active, replaying, sweep>>

-----------------------------------------------------------------------------
(* deliver_email and send_email_to_provider.                               *)

Starting(n, t) == task[n][t].pc = "queued" /\ MayStart(n)

\* get_notification_by_id finds nothing.
StartMissing(n, t) ==
  /\ Starting(n, t) /\ row[n].status = Absent
  /\ Raise(n, t, Absent)
  /\ UNCHANGED <<row, refs, lost, Reporting, Schedule, faults>>

\* technical_failure overwrites any status and raises.
StartInactive(n, t) ==
  /\ Starting(n, t) /\ row[n].status # Absent /\ ~active
  /\ SetStatus(n, "technical-failure")
  /\ Raise(n, t, Absent)
  /\ UNCHANGED <<refs, lost, Reporting, Schedule, faults>>

\* Not `created' any more: nothing to do.
StartSkip(n, t) ==
  /\ Starting(n, t) /\ active /\ row[n].status \notin {"created", Absent}
  /\ SetTask(n, t, FreeTask)
  /\ UNCHANGED <<row, refs, lost, Reporting, Schedule, faults>>

\* Choosing the provider or rendering the template raises.
StartFails(n, t) ==
  /\ Starting(n, t) /\ active /\ row[n].status = "created" /\ Fault
  /\ Raise(n, t, "created")
  /\ UNCHANGED <<row, refs, lost, Reporting, Schedule>>

\* Mutant: the status of the row is not looked at.
StartSendUnchecked(n, t) ==
  /\ Starting(n, t) /\ active /\ row[n].status # Absent
  /\ SetTask(n, t, [task[n][t] EXCEPT !.pc = "calling", !.seen = "created"])
  /\ UNCHANGED <<row, refs, lost, Reporting, Schedule, faults>>

\* A live email goes to SES.
StartSend(n, t) ==
  /\ Starting(n, t) /\ active /\ row[n].status = "created"
  /\ n \notin TestKey
  /\ SetTask(n, t, [task[n][t] EXCEPT !.pc = "calling", !.seen = "created"])
  /\ UNCHANGED <<row, refs, lost, Reporting, Schedule, faults>>

\* A test email gets a reference of its own instead.
StartTest(n, t) ==
  /\ Starting(n, t) /\ active /\ row[n].status = "created"
  /\ n \in TestKey /\ refs[n] < MaxRefs
  /\ refs' = [refs EXCEPT ![n] = @ + 1]
  /\ SetTask(n, t, [task[n][t] EXCEPT !.pc = "accepted", !.ref = refs'[n],
                                      !.seen = "created"])
  /\ UNCHANGED <<row, lost, Reporting, Schedule, faults>>

\* SES takes the email and answers with its reference.
SesAccepts(n, t) ==
  /\ task[n][t].pc = "calling" /\ refs[n] < MaxRefs
  /\ refs' = [refs EXCEPT ![n] = @ + 1]
  /\ SetTask(n, t, [task[n][t] EXCEPT !.pc = "accepted", !.ref = refs'[n]])
  /\ UNCHANGED <<row, lost, Reporting, Schedule, faults>>

\* Mutant: the failure goes unseen.
SesFailsUnseen(n, t) ==
  /\ task[n][t].pc = "calling"
  /\ SetTask(n, t, [task[n][t] EXCEPT !.pc = "accepted"])
  /\ UNCHANGED <<row, refs, lost, Reporting, Schedule, faults>>

\* AwsSesClientException: throttled or failed, to be retried.
SesFails(n, t) ==
  /\ task[n][t].pc = "calling"
  /\ Raise(n, t, "created")
  /\ UNCHANGED <<row, refs, lost, Reporting, Schedule, faults>>

\* The same, but SES took the email before the connection broke.
SesTimesOut(n, t) ==
  /\ task[n][t].pc = "calling" /\ refs[n] < MaxRefs /\ Fault
  /\ refs' = [refs EXCEPT ![n] = @ + 1]
  /\ LoseRef(n)
  /\ Raise(n, t, "created")
  /\ UNCHANGED <<row, Reporting, Schedule>>

\* EmailClientNonRetryableException: InvalidParameterValue.
SesRefuses(n, t) ==
  /\ task[n][t].pc = "calling"
  /\ SetTask(n, t, [task[n][t] EXCEPT !.pc = "failing"])
  /\ UNCHANGED <<row, refs, lost, Reporting, Schedule, faults>>

\* update_notification_to_sending: reference and status in one commit.  The
\* status it tests is the one read at the start.
CommitSending(n, t) ==
  /\ task[n][t].pc = "accepted" /\ row[n].status # Absent
  /\ row' = [row EXCEPT ![n] = [status |-> "sending", ref |-> task[n][t].ref]]
  /\ SetTask(n, t, IF n \in TestKey
                   THEN [task[n][t] EXCEPT !.pc = "responding"]
                   ELSE FreeTask)
  /\ UNCHANGED <<refs, lost, Reporting, Schedule, faults>>

\* The UPDATE matches no row, or the database refuses it: rolled back.
CommitFails(n, t) ==
  /\ task[n][t].pc = "accepted"
  /\ IF row[n].status = Absent THEN UNCHANGED faults ELSE Fault
  /\ LoseRef(n)
  /\ Raise(n, t, Absent)
  /\ UNCHANGED <<row, refs, Reporting, Schedule>>

\* send_email_response queues a simulated report; reading the reference made
\* the session load the row again.
SendEmailResponse(n, t, r, k) ==
  /\ task[n][t].pc = "responding" /\ report[n][r].pc = "none"
  /\ k # "complaint" /\ row[n].status # Absent
  /\ SetReport(n, r, [NoReport EXCEPT !.pc = "transit", !.kind = k,
                                      !.ref = row[n].ref])
  /\ SetTask(n, t, FreeTask)
  /\ UNCHANGED <<row, refs, lost, posts, handled, complaints, told, toldOf,
                 Schedule, faults>>

\* ... or the broker refuses it, or the row is gone.
SendEmailResponseFails(n, t) ==
  /\ task[n][t].pc = "responding"
  /\ \/ row[n].status = Absent /\ Raise(n, t, Absent) /\ UNCHANGED faults
     \/ /\ row[n].status \in {"sending", "created"} /\ Fault
        /\ Raise(n, t, row[n].status)
     \/ /\ row[n].status \notin {"sending", "created", Absent} /\ Fault
        /\ Raise(n, t, Absent)
  /\ UNCHANGED <<row, refs, lost, Reporting, Schedule>>

RetryTask(n, t) ==
  /\ task[n][t].pc = "raised" /\ task[n][t].retries < MaxRetries
  /\ SetTask(n, t, [NewTask EXCEPT !.retries = task[n][t].retries + 1])
  /\ UNCHANGED <<row, refs, lost, Reporting, Schedule, faults>>

\* update_notification_status_by_id agrees: the status in the session, not the
\* one in the row it has just locked.
Updates(n, seen) ==
  /\ row[n].status # Absent
  /\ (IF seen = Absent THEN row[n].status ELSE seen) \in UpdatableStatuses

\* Out of retries, or refused for good.
GiveUp(n, t) ==
  /\ \/ task[n][t].pc = "failing"
     \/ task[n][t].pc = "raised" /\ task[n][t].retries = MaxRetries
  /\ IF Updates(n, task[n][t].seen) THEN SetStatus(n, "technical-failure")
     ELSE UNCHANGED row
  /\ SetTask(n, t, FreeTask)
  /\ UNCHANGED <<refs, lost, Reporting, Schedule, faults>>

\* The worker dies: SES may or may not have taken the email.
CrashTask(n, t) ==
  /\ task[n][t].pc \notin {"free", "queued"} /\ Fault
  /\ SetTask(n, t, FreeTask)
  /\ \/ task[n][t].pc = "accepted" /\ LoseRef(n) /\ UNCHANGED refs
     \/ /\ task[n][t].pc = "calling" /\ refs[n] < MaxRefs /\ LoseRef(n)
        /\ refs' = [refs EXCEPT ![n] = @ + 1]
     \/ task[n][t].pc # "accepted" /\ UNCHANGED <<refs, lost>>
  /\ UNCHANGED <<row, Reporting, Schedule>>

\* SQS delivers the message a second time.
Redeliver(n, t, u) ==
  /\ task[n][t].pc = "queued" /\ task[n][u].pc = "free" /\ Fault
  /\ SetTask(n, u, task[n][t])
  /\ UNCHANGED <<row, refs, lost, Reporting, Schedule>>

Start(n, t) == StartMissing(n, t) \/ StartInactive(n, t) \/ StartSkip(n, t)
               \/ StartFails(n, t) \/ StartSend(n, t) \/ StartTest(n, t)
Continue(n, t) ==
  \/ SesAccepts(n, t) \/ SesFails(n, t) \/ SesTimesOut(n, t)
  \/ SesRefuses(n, t) \/ CommitSending(n, t) \/ CommitFails(n, t)
  \/ SendEmailResponseFails(n, t) \/ RetryTask(n, t) \/ GiveUp(n, t)
  \/ \E r \in Reports, k \in ReportKinds : SendEmailResponse(n, t, r, k)
Deliver(n, t) == Start(n, t) \/ Continue(n, t)

-----------------------------------------------------------------------------
(* process_ses_results.                                                    *)

\* A reference some task has still to commit.
Uncommitted(n, ref) ==
  \E t \in Tasks : task[n][t].pc = "accepted" /\ task[n][t].ref = ref

\* SES posts about an email it took, possibly before the commit, possibly
\* several times.
SesPosts(n, r, ref, k) ==
  /\ n \notin TestKey /\ ref \in 1..refs[n]
  /\ report[n][r].pc = "none" /\ posts[n] < MaxPosts
  /\ posts' = [posts EXCEPT ![n] = @ + 1]
  /\ SetReport(n, r, [NoReport EXCEPT !.pc = "transit", !.ref = ref,
                                      !.kind = k])
  /\ UNCHANGED <<row, task, refs, lost, handled, complaints, told, toldOf,
                 Schedule, faults>>

Found(n, r) == row[n].status # Absent /\ row[n].ref = report[n][r].ref
Received(n, r) == report[n][r].pc = "transit" /\ MayStart(n)
IsComplaint(n, r) == report[n][r].kind = "complaint"
Handled(n, r) == handled' = handled \cup {<<n, report[n][r].ref>>}

\* self.retry: back on the queue, five minutes later (a commit that was under
\* way is done by then), or given up.
Again(n, r) ==
  LET rp == report[n][r] IN
  IF rp.tries < MaxReportRetries
  THEN SetReport(n, r, [rp EXCEPT !.pc = "transit", !.recent = FALSE,
                                  !.tries = rp.tries + 1])
  ELSE SetReport(n, r, NoReport)

FiveMinutesOver(n, r) ==
  report[n][r].recent \/ ~Uncommitted(n, report[n][r].ref)

\* Mutant: a report that finds no row is dropped at once.
ReportDropped(n, r) ==
  /\ Received(n, r) /\ ~IsComplaint(n, r) /\ ~Found(n, r)
  /\ FiveMinutesOver(n, r)
  /\ SetReport(n, r, NoReport) /\ Handled(n, r)
  /\ UNCHANGED <<row, task, refs, lost, posts, complaints, told, toldOf,
                 Schedule, faults>>

\* No row has the reference: retry if the email is new, else forget it.
ReportUnknown(n, r) ==
  /\ Received(n, r) /\ ~IsComplaint(n, r) /\ ~Found(n, r)
  /\ FiveMinutesOver(n, r)
  /\ IF report[n][r].recent THEN Again(n, r) /\ UNCHANGED handled
     ELSE SetReport(n, r, NoReport) /\ Handled(n, r)
  /\ UNCHANGED <<row, task, refs, lost, posts, complaints, told, toldOf,
                 Schedule, faults>>

\* The row is no longer in flight: a duplicate.
ReportDuplicate(n, r) ==
  /\ Received(n, r) /\ ~IsComplaint(n, r) /\ Found(n, r)
  /\ FiveMinutesOver(n, r)
  /\ row[n].status \notin InFlightStatuses
  /\ SetReport(n, r, NoReport) /\ Handled(n, r)
  /\ UNCHANGED <<row, task, refs, lost, posts, complaints, told, toldOf,
                 Schedule, faults>>

\* Mutant: the status of the row is not looked at.
ReportReadsAny(n, r) ==
  /\ Received(n, r) /\ ~IsComplaint(n, r) /\ Found(n, r)
  /\ FiveMinutesOver(n, r)
  /\ SetReport(n, r, [report[n][r] EXCEPT !.pc = "read"])
  /\ UNCHANGED <<row, task, refs, lost, posts, handled, complaints, told,
                 toldOf, Schedule, faults>>

ReportReads(n, r) ==
  /\ Received(n, r) /\ ~IsComplaint(n, r) /\ Found(n, r)
  /\ FiveMinutesOver(n, r)
  /\ row[n].status \in InFlightStatuses
  /\ SetReport(n, r, [report[n][r] EXCEPT !.pc = "read"])
  /\ UNCHANGED <<row, task, refs, lost, posts, handled, complaints, told,
                 toldOf, Schedule, faults>>

\* dao_update_notifications_by_reference: every row with the reference, in
\* whatever status it is by now.
ReportUpdates(n, r) ==
  /\ report[n][r].pc = "read"
  /\ IF Found(n, r) THEN SetStatus(n, report[n][r].kind) ELSE UNCHANGED row
  /\ SetReport(n, r, [report[n][r] EXCEPT !.pc = "updated"])
  /\ Handled(n, r)
  /\ UNCHANGED <<task, refs, lost, posts, complaints, told, toldOf, Schedule,
                 faults>>

Tell(n) == told' = [told EXCEPT ![n] = Append(@, row[n].status)]

\* check_and_queue_callback_task on the row read again after the commit.
ReportTells(n, r) ==
  /\ report[n][r].pc = "updated" /\ row[n].status # Absent
  /\ Tell(n)
  /\ SetReport(n, r, NoReport)
  /\ UNCHANGED <<row, task, refs, lost, posts, handled, complaints, toldOf,
                 Schedule, faults>>

\* The row is gone or the broker refuses: retried, though the status has been
\* written.
ReportTellFails(n, r) ==
  /\ report[n][r].pc = "updated"
  /\ IF row[n].status = Absent THEN UNCHANGED faults ELSE Fault
  /\ Again(n, r)
  /\ UNCHANGED <<row, task, refs, lost, posts, handled, complaints, told,
                 toldOf, Schedule>>

\* Mutant: a complaint that finds no row is dropped.
ComplaintDropped(n, r) ==
  /\ Received(n, r) /\ IsComplaint(n, r) /\ ~Found(n, r)
  /\ FiveMinutesOver(n, r)
  /\ SetReport(n, r, NoReport)
  /\ UNCHANGED <<row, task, refs, lost, posts, handled, complaints, told,
                 toldOf, Schedule, faults>>

\* handle_complaint: no such row raises, and every exception is retried.
ComplaintUnknown(n, r) ==
  /\ Received(n, r) /\ IsComplaint(n, r) /\ ~Found(n, r)
  /\ FiveMinutesOver(n, r)
  /\ Again(n, r)
  /\ UNCHANGED <<row, task, refs, lost, posts, handled, complaints, told,
                 toldOf, Schedule, faults>>

SaveComplaint(n, r) ==
  /\ Received(n, r) /\ IsComplaint(n, r) /\ Found(n, r)
  /\ FiveMinutesOver(n, r)
  /\ complaints' = [complaints EXCEPT ![n] = @ + 1]
  /\ SetReport(n, r, [report[n][r] EXCEPT !.pc = "saved"])
  /\ UNCHANGED <<row, task, refs, lost, posts, handled, told, toldOf, Schedule,
                 faults>>

\* _check_and_queue_complaint_callback_task.
TellComplaint(n, r) ==
  /\ report[n][r].pc = "saved"
  /\ toldOf' = [toldOf EXCEPT ![n] = @ + 1]
  /\ SetReport(n, r, NoReport)
  /\ UNCHANGED <<row, task, refs, lost, posts, handled, complaints, told,
                 Schedule, faults>>

\* The broker refuses: the whole task runs again.
TellComplaintFails(n, r) ==
  /\ report[n][r].pc = "saved" /\ Fault
  /\ Again(n, r)
  /\ UNCHANGED <<row, task, refs, lost, posts, handled, complaints, told,
                 toldOf, Schedule>>

CrashReport(n, r) ==
  /\ report[n][r].pc # "none" /\ Fault
  /\ SetReport(n, r, NoReport)
  /\ UNCHANGED <<row, task, refs, lost, posts, handled, complaints, told,
                 toldOf, Schedule>>

ProcessReport(n, r) ==
  \/ ReportUnknown(n, r) \/ ReportDuplicate(n, r) \/ ReportReads(n, r)
  \/ ReportUpdates(n, r) \/ ReportTells(n, r) \/ ReportTellFails(n, r)
  \/ ComplaintUnknown(n, r) \/ SaveComplaint(n, r) \/ TellComplaint(n, r)
  \/ TellComplaintFails(n, r)

-----------------------------------------------------------------------------
(* Scheduled tasks, email by email (SmsDelivery has them as batches).      *)

Age(n) ==
  /\ age[n] < 2
  /\ age' = [age EXCEPT ![n] = @ + 1]
  /\ UNCHANGED <<row, active, task, refs, lost, Reporting, replaying, sweep,
                 faults>>

ReplaySelect(n) ==
  /\ n \notin replaying /\ age[n] >= 1 /\ row[n].status = "created"
  /\ MayStart(n)
  /\ replaying' = replaying \cup {n}
  /\ UNCHANGED <<row, age, active, task, refs, lost, Reporting, sweep, faults>>

ReplayEnqueue(n, t) ==
  /\ n \in replaying /\ task[n][t].pc = "free"
  /\ replaying' = replaying \ {n}
  /\ SetTask(n, t, NewTask)
  /\ UNCHANGED <<row, age, active, refs, lost, Reporting, sweep, faults>>

\* The broker refuses: the row is deleted.
ReplayFails(n) ==
  /\ n \in replaying /\ MayStart(n) /\ Fault
  /\ row' = [row EXCEPT ![n] = [status |-> Absent, ref |-> 0]]
  /\ replaying' = replaying \ {n}
  /\ UNCHANGED <<age, active, task, refs, lost, Reporting, sweep>>

SetSweep(n, pc) == sweep' = [sweep EXCEPT ![n] = pc]

\* Mutant: `sending' is forgotten.
TimeoutSelectPending(n) ==
  /\ sweep[n] = "idle" /\ age[n] = 2 /\ MayStart(n)
  /\ row[n].status = "pending"
  /\ SetSweep(n, "selected")
  /\ UNCHANGED <<row, age, active, task, refs, lost, Reporting, replaying,
                 faults>>

\* Mutant: any status that an update may replace, `created' included.
TimeoutSelectCreated(n) ==
  /\ sweep[n] = "idle" /\ age[n] = 2 /\ MayStart(n)
  /\ row[n].status \in UpdatableStatuses
  /\ SetSweep(n, "selected")
  /\ UNCHANGED <<row, age, active, task, refs, lost, Reporting, replaying,
                 faults>>

TimeoutSelect(n) ==
  /\ sweep[n] = "idle" /\ age[n] = 2 /\ MayStart(n)
  /\ row[n].status \in InFlightStatuses
  /\ SetSweep(n, "selected")
  /\ UNCHANGED <<row, age, active, task, refs, lost, Reporting, replaying,
                 faults>>

\* By id, without looking at the status again.
TimeoutUpdate(n) ==
  /\ sweep[n] = "selected"
  /\ IF row[n].status = Absent THEN UNCHANGED row
     ELSE SetStatus(n, "temporary-failure")
  /\ SetSweep(n, "telling")
  /\ UNCHANGED <<age, active, task, refs, lost, Reporting, replaying, faults>>

\* Mutant: the service is not told.
TimeoutTellNothing(n) ==
  /\ sweep[n] = "telling"
  /\ SetSweep(n, "idle")
  /\ UNCHANGED <<row, age, active, task, refs, lost, Reporting, replaying,
                 faults>>

TimeoutTell(n) ==
  /\ sweep[n] = "telling"
  /\ IF row[n].status = Absent THEN UNCHANGED told ELSE Tell(n)
  /\ SetSweep(n, "idle")
  /\ UNCHANGED <<row, age, active, task, refs, lost, posts, report, handled,
                 complaints, toldOf, replaying, faults>>

\* dao_archive_service.
ArchiveService ==
  /\ active
  /\ active' = FALSE
  /\ UNCHANGED <<row, age, task, refs, lost, Reporting, replaying, sweep,
                 faults>>

-----------------------------------------------------------------------------
Next ==
  \/ \E n \in Emails, t \in Tasks :
       Deliver(n, t) \/ CrashTask(n, t) \/ ReplayEnqueue(n, t)
  \/ \E n \in Emails, t, u \in Tasks : Redeliver(n, t, u)
  \/ \E n \in Emails, r \in Reports :
       \/ ProcessReport(n, r) \/ CrashReport(n, r)
       \/ \E ref \in 1..MaxRefs, k \in ReportKinds : SesPosts(n, r, ref, k)
  \/ \E n \in Emails :
       \/ Age(n) \/ ReplaySelect(n) \/ ReplayFails(n) \/ TimeoutSelect(n)
       \/ TimeoutUpdate(n) \/ TimeoutTell(n)
  \/ ArchiveService

Spec == Init /\ [][Next]_vars

\* Queues are drained, calls end, the beat schedule keeps running.
Fairness ==
  \A n \in Emails :
    /\ WF_vars(Age(n)) /\ WF_vars(ReplaySelect(n))
    /\ WF_vars(\E t \in Tasks : ReplayEnqueue(n, t))
    /\ SF_vars(TimeoutSelect(n))
    /\ WF_vars(TimeoutUpdate(n) \/ TimeoutTell(n))
    /\ \A t \in Tasks : SF_vars(Start(n, t)) /\ WF_vars(Continue(n, t))
    /\ \A r \in Reports : SF_vars(ProcessReport(n, r))

FairSpec == Spec /\ Fairness

-----------------------------------------------------------------------------
(* Properties.                                                             *)

\* Every variable keeps its type.
TypeOK ==
  /\ row \in [Emails -> [status : NotificationStatuses \cup {Absent},
                         ref : 0..MaxRefs]]
  /\ age \in [Emails -> 0..2]
  /\ active \in BOOLEAN
  /\ task \in [Emails -> [Tasks -> TaskState]]
  /\ refs \in [Emails -> 0..MaxRefs]
  /\ lost \in [Emails -> Nat]
  /\ posts \in [Emails -> 0..MaxPosts]
  /\ report \in [Emails -> [Reports -> ReportState]]
  /\ handled \subseteq Emails \X (0..MaxRefs)
  /\ complaints \in [Emails -> Nat] /\ toldOf \in [Emails -> Nat]
  /\ told \in [Emails -> Seq(NotificationStatuses)]
  /\ replaying \subseteq Emails
  /\ sweep \in [Emails -> {"idle", "selected", "telling"}]
  /\ faults \in 0..MaxFaults

\* When handlers of an email do not overlap, deliver_email hands it to SES once,
\* plus once for each acceptance that was lost.
NoDuplicateEmail ==
  ~Overlap => \A n \in Emails \ TestKey : refs[n] <= 1 + lost[n]

\* Once process_ses_results has dealt with a delivery or bounce report for the
\* reference an email carries, the email is in a final status, however the
\* report, the commit of the reference, retries and timeouts interleave.
HandledIsFinal ==
  \A n \in Emails :
    <<n, row[n].ref>> \in handled
      => row[n].status \in FinalStatuses \cup {Absent}

\* Every email is eventually settled.
EventuallySettled ==
  \A n \in Emails :
    row[n].status = "created" ~> row[n].status \in FinalStatuses \cup {Absent}

\* The service is eventually told of an email that SES delivered or bounced, or
\* that timed out, unless SES was given it twice (the commit of the second task
\* may come between the status and the report).  Without faults: a broker failure
\* after the commit loses the report.
EventuallyTold ==
  \A n \in Emails :
    row[n].status \in FinalStatuses \ {"technical-failure"}
      ~> \/ \E i \in 1..Len(told[n]) : told[n][i] \in FinalStatuses
         \/ refs[n] > 1

\* A complaint reaches the service, even if SES posts it before the reference is
\* committed, unless the reference it names is not recorded at all.
ComplaintHeard ==
  \A n \in Emails, r \in Reports, ref \in 1..MaxRefs :
    (/\ report[n][r].pc = "transit" /\ report[n][r].kind = "complaint"
     /\ report[n][r].ref = ref)
      ~> toldOf[n] > 0 \/ (row[n].ref # ref /\ ~Uncommitted(n, ref))

\* What SES has of email n: nothing, copies whose references are lost, besides these
\* one copy whose reference is not, or several.
Copies(n) == IF n \in TestKey \/ refs[n] = 0 THEN "none"
             ELSE IF refs[n] <= lost[n] THEN "lost"
             ELSE IF refs[n] = lost[n] + 1 THEN "out" ELSE "twice"

\* The service is about to be told what a report or the timeout just wrote.
Due(n) == sweep[n] = "telling" \/ \E r \in Reports : report[n][r].pc = "updated"

Delivery == INSTANCE MessageDelivery
  WITH Messages <- Emails, Abroad <- {}, NoReports <- {},
       status <- [n \in Emails |-> row[n].status],
       copies <- [n \in Emails |-> Copies(n)],
       due <- {n \in Emails : Due(n)}

\* When handlers of an email do not overlap, emails are delivered as promised: the
\* steps of the tasks, reports and scheduled jobs are those of MessageDelivery.
ImplementsDelivery == Delivery!Spec

\* Then the row says of an email what SES and the service know of it, and the service
\* hears of it once: process_ses_results and timeout_notifications never both report.
RowIsHonest == ~Overlap => Delivery!Honest

\* Types hold, and rows are honest.
EmailInv == TypeOK /\ RowIsHonest
=============================================================================
