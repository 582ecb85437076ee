---------------------------- MODULE SmsDelivery ----------------------------
(***************************************************************************)
(* The life of text messages: the row the API persists, the deliver_sms    *)
(* task with its retries, the call to the SMS provider, the delivery       *)
(* receipts, the replay of rows over an hour in `created', and the         *)
(* nightly timeout of rows that stayed in `sending'.                       *)
(*                                                                         *)
(* Every commit and every call out of the process is a step of its own, so *)
(* that handlers of the same notification interleave the way celery        *)
(* workers do.  What a task holds in its SQLAlchemy session between two    *)
(* steps is part of its state.                                             *)
(***************************************************************************)
EXTENDS NotificationStatus, Naturals, Sequences

CONSTANTS
  Notifications,  \* ids of the text messages
  Tasks,          \* slots for the copies of deliver_sms alive for one message
  Receipts,       \* slots for the delivery receipts of one message
  Providers,      \* SMS providers that provider_to_use may return
  Firetext,       \* the providers that report `pending' and detailed codes
  Spryng,         \* the providers whose receipt endpoint only answers GET
  International,  \* messages to foreign numbers
  NoDlr,          \* the ones to countries that do not record delivery
  TestKey,        \* messages made with a test API key
  MaxRetries,     \* max_retries of deliver_sms (48 in the code)
  MaxFaults,      \* bound on crashes, lost commits, refused and doubled tasks
  Overlap         \* may two handlers of one message run at the same time?

NoProvider == "none"
NoCode == "none"

ASSUME SetsAssumption ==
  /\ Firetext \subseteq Providers /\ Spryng \subseteq Providers
  /\ NoProvider \notin Providers
  /\ International \subseteq Notifications
  /\ NoDlr \subseteq International
  /\ TestKey \subseteq Notifications
ASSUME BoundsAssumption ==
  /\ MaxRetries \in Nat
  /\ MaxFaults \in Nat
  /\ Overlap \in BOOLEAN

VARIABLES
  row,        \* notifications table: status, sent_by, billable_units # 0
  api,        \* progress of the request that creates the message
  age,        \* 0: recent, 1: over an hour old, 2: over three days old
  active,     \* is the service active?
  task,       \* copies of deliver_sms, queued or running
  accepted,   \* <<n, p>>: provider p took message n
  sends,      \* number of times a provider took the message
  lostAcks,   \* ... and the worker did not get to record it
  receipt,    \* delivery receipts, on the sms-callbacks queue or in hand
  replaying,  \* messages replay_created_notifications has selected
  sweep,      \* progress of timeout_notifications
  callbacks,  \* statuses reported to the service, per message
  faults      \* faults used up

vars == <<row, api, age, active, task, accepted, sends, lostAcks, receipt,
          replaying, sweep, callbacks, faults>>

Row == [status : NotificationStatuses \cup {Absent},
        sent_by : Providers \cup {NoProvider},
        billed : BOOLEAN]

\* free: no such task.  queued: on the send-sms or retry queue.  calling: the
\* row was read as `created' and the request to the provider is out.  accepted:
\* the provider said yes, nothing committed.  rejected: the request raised.
\* responding: a test message marked sending, simulated receipt still to send.
\* raised: the exception reached deliver_sms.
TaskPCs == {"free", "queued", "calling", "accepted", "rejected", "responding",
            "raised"}

\* held: the session still has the row as it was read, in `created'.
TaskState == [pc : TaskPCs, retries : 0..MaxRetries,
              provider : Providers \cup {NoProvider}, held : BOOLEAN]

\* none: no receipt.  transit: queued.  updated: status committed.  billed:
\* billable units committed too.
ReceiptPCs == {"none", "transit", "updated", "billed"}
ReportedStatuses == {"delivered", "pending", "permanent-failure",
                     "temporary-failure", "technical-failure"}
ReceiptState == [pc : ReceiptPCs, provider : Providers \cup {NoProvider},
                 status : ReportedStatuses,
                 code : {NoCode, "permanent-failure", "temporary-failure"}]

NewTask(k) == [pc |-> "queued", retries |-> k, provider |-> NoProvider,
               held |-> FALSE]
FreeTask == [NewTask(0) EXCEPT !.pc = "free"]
NoReceipt == [pc |-> "none", provider |-> NoProvider, status |-> "delivered",
              code |-> NoCode]
NoSweep == [pc |-> "idle", left |-> {}]
NoRow == [status |-> Absent, sent_by |-> NoProvider, billed |-> FALSE]

Init ==
  /\ row = [n \in Notifications |-> NoRow]
  /\ api = [n \in Notifications |-> "idle"]
  /\ age = [n \in Notifications |-> 0]
  /\ active = TRUE
  /\ task = [n \in Notifications |-> [t \in Tasks |-> FreeTask]]
  /\ accepted = {}
  /\ sends = [n \in Notifications |-> 0]
  /\ lostAcks = [n \in Notifications |-> 0]
  /\ receipt = [n \in Notifications |-> [r \in Receipts |-> NoReceipt]]
  /\ replaying = {}
  /\ sweep = NoSweep
  /\ callbacks = [n \in Notifications |-> << >>]
  /\ faults = 0

Fault == faults < MaxFaults /\ faults' = faults + 1

\* No handler is in the middle of message n.
Idle(n) ==
  /\ \A t \in Tasks : task[n][t].pc \in {"free", "queued"}
  /\ \A r \in Receipts : receipt[n][r].pc \in {"none", "transit"}
  /\ n \notin sweep.left
MayStart(n) == Overlap \/ Idle(n)

SetTask(n, t, new) == task' = [task EXCEPT ![n][t] = new]
Raise(n, t, held) ==
  SetTask(n, t, [task[n][t] EXCEPT !.pc = "raised", !.held = held])
SetRow(n, new) == row' = [row EXCEPT ![n] = new]
SetStatus(n, s) == SetRow(n, [row[n] EXCEPT !.status = s])
SetReceipt(n, r, new) == receipt' = [receipt EXCEPT ![n][r] = new]

-----------------------------------------------------------------------------
(* The request that creates the message.                                   *)

\* persist_notification: the row is committed in `created'.
Persist(n) ==
  /\ api[n] = "idle"
  /\ api' = [api EXCEPT ![n] = "persisted"]
  /\ SetStatus(n, "created")
  /\ UNCHANGED <<age, active, task, accepted, sends, lostAcks, receipt,
                 replaying, sweep, callbacks, faults>>

\* send_notification_to_queue_detached: the broker takes the task.
Enqueue(n, t) ==
  /\ api[n] = "persisted" /\ task[n][t].pc = "free"
  /\ api' = [api EXCEPT ![n] = "done"]
  /\ SetTask(n, t, NewTask(0))
  /\ UNCHANGED <<row, age, active, accepted, sends, lostAcks, receipt,
                 replaying, sweep, callbacks, faults>>

\* ... or refuses it: the row is deleted and the request fails.
EnqueueFails(n) ==
  /\ api[n] = "persisted" /\ Fault
  /\ api' = [api EXCEPT ![n] = "done"]
  /\ SetRow(n, NoRow)
  /\ UNCHANGED <<age, active, task, accepted, sends, lostAcks, receipt,
                 replaying, sweep, callbacks>>

\* The web process dies between the commit and the broker.
ApiCrash(n) ==
  /\ api[n] = "persisted" /\ Fault
  /\ api' = [api EXCEPT ![n] = "done"]
  /\ UNCHANGED <<row, age, active, task, accepted, sends, lostAcks, receipt,
                 replaying, sweep, callbacks>>

Create(n) == Persist(n) \/ (\E t \in Tasks : Enqueue(n, t))
             \/ EnqueueFails(n) \/ ApiCrash(n)

-----------------------------------------------------------------------------
(* deliver_sms and send_sms_to_provider.                                   *)

Running(n, t) == task[n][t].pc \notin {"free", "queued"}

\* No such row: NoResultFound, caught like any other exception.
StartMissing(n, t) ==
  /\ task[n][t].pc = "queued" /\ MayStart(n)
  /\ row[n].status = Absent
  /\ Raise(n, t, FALSE)
  /\ UNCHANGED <<row, api, age, active, accepted, sends, lostAcks, receipt,
                 replaying, sweep, callbacks, faults>>

\* technical_failure: whatever the status was, it is overwritten, and the
\* exception makes deliver_sms retry.
StartInactive(n, t) ==
  /\ task[n][t].pc = "queued" /\ MayStart(n)
  /\ row[n].status # Absent /\ ~active
  /\ SetStatus(n, "technical-failure")
  /\ Raise(n, t, FALSE)
  /\ UNCHANGED <<api, age, active, accepted, sends, lostAcks, receipt,
                 replaying, sweep, callbacks, faults>>

\* The message is no longer `created': nothing to do.
StartSkip(n, t) ==
  /\ task[n][t].pc = "queued" /\ MayStart(n)
  /\ active /\ row[n].status \notin {"created", Absent}
  /\ SetTask(n, t, FreeTask)
  /\ UNCHANGED <<row, api, age, active, accepted, sends, lostAcks, receipt,
                 replaying, sweep, callbacks, faults>>

\* Choosing a provider or rendering the template raises; the session still
\* holds the row it read.
StartFails(n, t) ==
  /\ task[n][t].pc = "queued" /\ MayStart(n)
  /\ active /\ row[n].status = "created" /\ Fault
  /\ Raise(n, t, TRUE)
  /\ UNCHANGED <<row, api, age, active, accepted, sends, lostAcks, receipt,
                 replaying, sweep, callbacks>>

\* Mutant: the status of the row is not looked at.
StartSendUnchecked(n, t, p) ==
  /\ task[n][t].pc = "queued" /\ MayStart(n)
  /\ active /\ row[n].status # Absent
  /\ SetTask(n, t, [task[n][t] EXCEPT !.pc = "calling", !.provider = p])
  /\ UNCHANGED <<row, api, age, active, accepted, sends, lostAcks, receipt,
                 replaying, sweep, callbacks, faults>>

\* A provider is chosen.  A live message closes the session and calls the
\* provider; a test message goes straight to update_notification_to_sending.
StartSend(n, t, p) ==
  /\ task[n][t].pc = "queued" /\ MayStart(n)
  /\ active /\ row[n].status = "created"
  /\ SetTask(n, t, [task[n][t] EXCEPT
       !.pc = IF n \in TestKey THEN "accepted" ELSE "calling",
       !.provider = p])
  /\ UNCHANGED <<row, api, age, active, accepted, sends, lostAcks, receipt,
                 replaying, sweep, callbacks, faults>>

\* The provider takes the message for delivery.
Took(n, p) ==
  /\ accepted' = accepted \cup {<<n, p>>}
  /\ sends' = [sends EXCEPT ![n] = @ + 1]
LoseAck(n) == lostAcks' = [lostAcks EXCEPT ![n] = @ + 1]

ProviderAccepts(n, t) ==
  /\ task[n][t].pc = "calling"
  /\ Took(n, task[n][t].provider)
  /\ SetTask(n, t, [task[n][t] EXCEPT !.pc = "accepted"])
  /\ UNCHANGED <<row, api, age, active, lostAcks, receipt, replaying, sweep,
                 callbacks, faults>>

\* Mutant: a refused message is taken for one that the provider has.
ProviderRejectsUnseen(n, t) ==
  /\ task[n][t].pc = "calling"
  /\ SetTask(n, t, [task[n][t] EXCEPT !.pc = "accepted"])
  /\ UNCHANGED <<row, api, age, active, accepted, sends, lostAcks, receipt,
                 replaying, sweep, callbacks, faults>>

ProviderRejects(n, t) ==
  /\ task[n][t].pc = "calling"
  /\ SetTask(n, t, [task[n][t] EXCEPT !.pc = "rejected"])
  /\ UNCHANGED <<row, api, age, active, accepted, sends, lostAcks, receipt,
                 replaying, sweep, callbacks, faults>>

\* The request times out after the provider took the message.
ProviderTimesOut(n, t) ==
  /\ task[n][t].pc = "calling" /\ Fault
  /\ Took(n, task[n][t].provider) /\ LoseAck(n)
  /\ SetTask(n, t, [task[n][t] EXCEPT !.pc = "rejected"])
  /\ UNCHANGED <<row, api, age, active, receipt, replaying, sweep, callbacks>>

\* The except branch: the units are committed, then the exception re-raised.
\* If the row is gone the commit raises instead.
SaveBillableUnits(n, t) ==
  /\ task[n][t].pc = "rejected"
  /\ SetRow(n, [row[n] EXCEPT !.billed = row[n].status # Absent])
  /\ Raise(n, t, FALSE)
  /\ UNCHANGED <<api, age, active, accepted, sends, lostAcks, receipt,
                 replaying, sweep, callbacks, faults>>

\* Mutant: the units are not written with the status.
SendingRowUnbilled(n, p) ==
  [row[n] EXCEPT !.sent_by = p,
     !.status = IF n \in International THEN "sent" ELSE "sending"]

\* update_notification_to_sending.  The status it tests is the one the task
\* read, `created', so the test always passes and the status is written.
SendingRow(n, p) ==
  [status |-> IF n \in International THEN "sent" ELSE "sending",
   sent_by |-> p,
   billed |-> row[n].billed \/ n \notin TestKey]

CommitSending(n, t) ==
  /\ task[n][t].pc = "accepted" /\ row[n].status # Absent
  /\ SetRow(n, SendingRow(n, task[n][t].provider))
  /\ SetTask(n, t, IF n \in TestKey
                   THEN [task[n][t] EXCEPT !.pc = "responding"]
                   ELSE FreeTask)
  /\ UNCHANGED <<api, age, active, accepted, sends, lostAcks, receipt,
                 replaying, sweep, callbacks, faults>>

\* The UPDATE finds no row, or the database refuses it: rolled back.
CommitFails(n, t) ==
  /\ task[n][t].pc = "accepted"
  /\ IF row[n].status = Absent THEN UNCHANGED faults ELSE Fault
  /\ LoseAck(n)
  /\ Raise(n, t, FALSE)
  /\ UNCHANGED <<row, api, age, active, accepted, sends, receipt, replaying,
                 sweep, callbacks>>

\* send_sms_response: a simulated receipt for a test message, posted to the
\* API's own endpoint.  A temporary failure from Firetext takes two.
SendSmsResponse(n, t, r, s) ==
  LET p == task[n][t].provider IN
  /\ task[n][t].pc = "responding" /\ p \notin Spryng
  /\ receipt[n][r].pc = "none"
  /\ s \in {"delivered", "permanent-failure",
            IF p \in Firetext THEN "pending" ELSE "temporary-failure"}
  /\ SetReceipt(n, r, [pc |-> "transit", provider |-> p, status |-> s,
                       code |-> NoCode])
  /\ SetTask(n, t, IF s = "pending" THEN task[n][t] ELSE FreeTask)
  /\ UNCHANGED <<row, api, age, active, accepted, sends, lostAcks, replaying,
                 sweep, callbacks, faults>>

\* The POST raises; for Spryng it always does (405, method not allowed).
SendSmsResponseFails(n, t) ==
  /\ task[n][t].pc = "responding"
  /\ IF task[n][t].provider \in Spryng THEN UNCHANGED faults ELSE Fault
  /\ Raise(n, t, FALSE)
  /\ UNCHANGED <<row, api, age, active, accepted, sends, lostAcks, receipt,
                 replaying, sweep, callbacks>>

RetryTask(n, t) ==
  /\ task[n][t].pc = "raised" /\ task[n][t].retries < MaxRetries
  /\ SetTask(n, t, NewTask(task[n][t].retries + 1))
  /\ UNCHANGED <<row, api, age, active, accepted, sends, lostAcks, receipt,
                 replaying, sweep, callbacks, faults>>

\* Mutant: any row is updated.
MayUpdateAnyStatus(n, seen) == row[n].status # Absent /\ n \notin NoDlr

\* update_notification_status_by_id agrees to change the row.  `seen' is the
\* status the session shows it.
\* Mutant: a receipt for a country without delivery records counts too.
MayUpdateIgnoringNoDlr(n, seen) ==
  row[n].status # Absent /\ seen \in UpdatableStatuses

MayUpdateStatus(n, seen) ==
  /\ row[n].status # Absent
  /\ seen \in UpdatableStatuses
  /\ n \notin NoDlr

\* MaxRetriesExceededError.
GiveUp(n, t) ==
  LET seen == IF task[n][t].held THEN "created" ELSE row[n].status IN
  /\ task[n][t].pc = "raised" /\ task[n][t].retries = MaxRetries
  /\ IF MayUpdateStatus(n, seen) THEN SetStatus(n, "technical-failure")
     ELSE UNCHANGED row
  /\ SetTask(n, t, FreeTask)
  /\ UNCHANGED <<api, age, active, accepted, sends, lostAcks, receipt,
                 replaying, sweep, callbacks, faults>>

\* The worker dies; celery acknowledged the message before running it.
CrashTask(n, t) ==
  /\ Running(n, t) /\ Fault
  /\ SetTask(n, t, FreeTask)
  /\ \/ /\ task[n][t].pc = "accepted" /\ LoseAck(n)
        /\ UNCHANGED <<accepted, sends>>
     \/ /\ task[n][t].pc = "calling" /\ LoseAck(n)
        /\ Took(n, task[n][t].provider)
     \/ /\ task[n][t].pc # "accepted"
        /\ UNCHANGED <<accepted, sends, lostAcks>>
  /\ UNCHANGED <<row, api, age, active, receipt, replaying, sweep, callbacks>>

\* SQS delivers a message at least once.
Redeliver(n, t, u) ==
  /\ task[n][t].pc = "queued" /\ task[n][u].pc = "free" /\ Fault
  /\ SetTask(n, u, task[n][t])
  /\ UNCHANGED <<row, api, age, active, accepted, sends, lostAcks, receipt,
                 replaying, sweep, callbacks>>

Start(n, t) == StartMissing(n, t) \/ StartInactive(n, t) \/ StartSkip(n, t)
               \/ StartFails(n, t) \/ (\E p \in Providers : StartSend(n, t, p))
Answer(n, t) == ProviderAccepts(n, t) \/ ProviderRejects(n, t)
                \/ ProviderTimesOut(n, t)
Commit(n, t) == SaveBillableUnits(n, t) \/ CommitSending(n, t)
                \/ CommitFails(n, t)
Respond(n, t) == SendSmsResponseFails(n, t)
                 \/ \E r \in Receipts, s \in ReportedStatuses :
                      SendSmsResponse(n, t, r, s)
Conclude(n, t) == RetryTask(n, t) \/ GiveUp(n, t)

Deliver(n, t) == Start(n, t) \/ Answer(n, t) \/ Commit(n, t) \/ Respond(n, t)
                 \/ Conclude(n, t)

-----------------------------------------------------------------------------
(* Delivery receipts: the callback endpoints, then                         *)
(* process_sms_client_response.                                            *)

\* A provider that took the message reports on it, maybe more than once.
\* Firetext says `pending' and gives a code with a failure; a status no map
\* knows is treated as technical-failure.
SendReceipt(n, r, p, s, c) ==
  /\ <<n, p>> \in accepted
  /\ receipt[n][r].pc = "none"
  /\ s = "pending" => p \in Firetext
  /\ s = "temporary-failure" => p \notin Firetext \cup Spryng
  /\ c # NoCode => p \in Firetext /\ s = "permanent-failure"
  /\ SetReceipt(n, r, [pc |-> "transit", provider |-> p, status |-> s,
                       code |-> c])
  /\ UNCHANGED <<row, api, age, active, task, accepted, sends, lostAcks,
                 replaying, sweep, callbacks, faults>>

\* _decide_permanent_temporary_failure, for the row as it stands and the
\* sent_by just filled in.
DecideFailure(old, sentBy, s, code) ==
  IF sentBy \notin Firetext \/ s # "permanent-failure" THEN s
  ELSE IF code # NoCode THEN code
  ELSE IF old.status = "pending" THEN "temporary-failure" ELSE s

\* update_notification_status_by_id, one transaction under the row's lock.
ReceiptRow(n, rc) ==
  LET sentBy == IF row[n].sent_by = NoProvider THEN rc.provider
                ELSE row[n].sent_by
  IN [row[n] EXCEPT !.sent_by = sentBy,
        !.status = DecideFailure(row[n], sentBy, rc.status, rc.code)]

ProcessReceipt(n, r) ==
  /\ receipt[n][r].pc = "transit" /\ MayStart(n)
  /\ MayUpdateStatus(n, row[n].status)
  /\ SetRow(n, ReceiptRow(n, receipt[n][r]))
  /\ SetReceipt(n, r, [receipt[n][r] EXCEPT !.pc = "updated"])
  /\ UNCHANGED <<api, age, active, task, accepted, sends, lostAcks, replaying,
                 sweep, callbacks, faults>>

IgnoreReceipt(n, r) ==
  /\ receipt[n][r].pc = "transit" /\ MayStart(n)
  /\ ~MayUpdateStatus(n, row[n].status)
  /\ SetReceipt(n, r, NoReceipt)
  /\ UNCHANGED <<row, api, age, active, task, accepted, sends, lostAcks,
                 replaying, sweep, callbacks, faults>>

\* check_and_queue_callback_task: the row is read again and its status goes
\* to the service's callback URL.
Tell(n) == callbacks' = [callbacks EXCEPT ![n] = Append(@, row[n].status)]

\* Units missing: they are filled in, in a second commit.
BillReceipt(n, r) ==
  /\ receipt[n][r].pc = "updated"
  /\ row[n].status # Absent /\ ~row[n].billed
  /\ SetRow(n, [row[n] EXCEPT !.billed = TRUE])
  /\ SetReceipt(n, r, [receipt[n][r] EXCEPT !.pc = "billed"])
  /\ UNCHANGED <<api, age, active, task, accepted, sends, lostAcks, replaying,
                 sweep, callbacks, faults>>

\* Every status but `pending' is passed on.  A row deleted in the meantime
\* makes the task fail.
TellReceipt(n, r) ==
  /\ receipt[n][r].pc = "updated" => row[n].billed \/ row[n].status = Absent
  /\ receipt[n][r].pc \in {"updated", "billed"}
  /\ IF receipt[n][r].status = "pending" \/ row[n].status = Absent
     THEN UNCHANGED callbacks ELSE Tell(n)
  /\ SetReceipt(n, r, NoReceipt)
  /\ UNCHANGED <<row, api, age, active, task, accepted, sends, lostAcks,
                 replaying, sweep, faults>>

\* The worker that holds the receipt dies.
CrashReceipt(n, r) ==
  /\ receipt[n][r].pc # "none" /\ Fault
  /\ SetReceipt(n, r, NoReceipt)
  /\ UNCHANGED <<row, api, age, active, task, accepted, sends, lostAcks,
                 replaying, sweep, callbacks>>

HandleReceipt(n, r) == ProcessReceipt(n, r) \/ IgnoreReceipt(n, r)
                       \/ BillReceipt(n, r) \/ TellReceipt(n, r)

-----------------------------------------------------------------------------
(* Scheduled tasks.                                                        *)

\* Time passes for a message whose request is over.
Age(n) ==
  /\ api[n] = "done" /\ age[n] < 2
  /\ age' = [age EXCEPT ![n] = @ + 1]
  /\ UNCHANGED <<row, api, active, task, accepted, sends, lostAcks, receipt,
                 replaying, sweep, callbacks, faults>>

\* replay_created_notifications selects the rows, then queues them one by one.
ReplaySelect ==
  /\ replaying = {}
  /\ replaying' = {n \in Notifications :
                     age[n] >= 1 /\ row[n].status = "created" /\ MayStart(n)}
  /\ replaying' # {}
  /\ UNCHANGED <<row, api, age, active, task, accepted, sends, lostAcks,
                 receipt, sweep, callbacks, faults>>

ReplayEnqueue(n, t) ==
  /\ n \in replaying /\ task[n][t].pc = "free"
  /\ replaying' = replaying \ {n}
  /\ SetTask(n, t, NewTask(0))
  /\ UNCHANGED <<row, api, age, active, accepted, sends, lostAcks, receipt,
                 sweep, callbacks, faults>>

\* The broker refuses: the row is deleted, whatever became of it since it was
\* selected, and the task ends.
ReplayFails(n) ==
  /\ n \in replaying /\ MayStart(n) /\ Fault
  /\ SetRow(n, NoRow)
  /\ replaying' = {}
  /\ UNCHANGED <<api, age, active, task, accepted, sends, lostAcks, receipt,
                 sweep, callbacks>>

\* Mutant: rows in `pending' are forgotten.
TimeoutSelectSending ==
  LET old == {n \in Notifications : age[n] = 2 /\ MayStart(n)
                                    /\ row[n].status = "sending"}
  IN /\ sweep.pc = "idle" /\ old # {}
     /\ sweep' = [pc |-> "selected", left |-> old]
     /\ UNCHANGED <<row, api, age, active, task, accepted, sends, lostAcks,
                    receipt, replaying, callbacks, faults>>

\* dao_timeout_notifications reads the rows that are still in flight ...
TimeoutSelect ==
  LET old == {n \in Notifications : age[n] = 2 /\ MayStart(n)
                                    /\ row[n].status \in InFlightStatuses}
  IN /\ sweep.pc = "idle" /\ old # {}
     /\ sweep' = [pc |-> "selected", left |-> old]
     /\ UNCHANGED <<row, api, age, active, task, accepted, sends, lostAcks,
                    receipt, replaying, callbacks, faults>>

\* ... and then updates them by id, without looking at the status again.
TimeoutUpdate ==
  /\ sweep.pc = "selected"
  /\ row' = [n \in Notifications |->
               IF n \in sweep.left /\ row[n].status # Absent
               THEN [row[n] EXCEPT !.status = "temporary-failure"] ELSE row[n]]
  /\ sweep' = [sweep EXCEPT !.pc = "telling"]
  /\ UNCHANGED <<api, age, active, task, accepted, sends, lostAcks, receipt,
                 replaying, callbacks, faults>>

SweepWithout(n) ==
  IF sweep.left = {n} THEN NoSweep
  ELSE [sweep EXCEPT !.left = @ \ {n}]

\* timeout_notifications reports every row it was given; a row that is gone
\* ends the task.
TimeoutTell(n) ==
  /\ sweep.pc = "telling" /\ n \in sweep.left
  /\ IF row[n].status = Absent
     THEN sweep' = NoSweep /\ UNCHANGED callbacks
     ELSE sweep' = SweepWithout(n) /\ Tell(n)
  /\ UNCHANGED <<row, api, age, active, task, accepted, sends, lostAcks,
                 receipt, replaying, faults>>

TimeoutCrash ==
  /\ sweep.pc # "idle" /\ Fault
  /\ sweep' = NoSweep
  /\ UNCHANGED <<row, api, age, active, task, accepted, sends, lostAcks,
                 receipt, replaying, callbacks>>

Timeout == TimeoutUpdate \/ \E n \in Notifications : TimeoutTell(n)

\* dao_archive_service: the service goes out of use for good.
ArchiveService ==
  /\ active
  /\ active' = FALSE
  /\ UNCHANGED <<row, api, age, task, accepted, sends, lostAcks, receipt,
                 replaying, sweep, callbacks, faults>>

-----------------------------------------------------------------------------
Scheduled ==
  \/ ReplaySelect \/ TimeoutSelect \/ Timeout \/ TimeoutCrash \/ ArchiveService
  \/ \E n \in Notifications : Age(n) \/ ReplayFails(n)
  \/ \E n \in Notifications, t \in Tasks : ReplayEnqueue(n, t)

Next ==
  \/ \E n \in Notifications : Create(n)
  \/ \E n \in Notifications, t \in Tasks : Deliver(n, t) \/ CrashTask(n, t)
  \/ \E n \in Notifications, t, u \in Tasks : Redeliver(n, t, u)
  \/ \E n \in Notifications, r \in Receipts, p \in Providers,
        s \in ReportedStatuses,
        c \in {NoCode, "permanent-failure", "temporary-failure"} :
       SendReceipt(n, r, p, s, c)
  \/ \E n \in Notifications, r \in Receipts :
       HandleReceipt(n, r) \/ CrashReceipt(n, r)
  \/ Scheduled

Spec == Init /\ [][Next]_vars

-----------------------------------------------------------------------------
(* Fairness.  Queues are drained, requests to a provider end (they carry a *)
(* 60 s timeout), and the beat schedule keeps starting the replay and the  *)
(* timeout.  A crash or another fault is never required to happen.         *)

Fairness ==
  /\ WF_vars(ReplaySelect) /\ SF_vars(TimeoutSelect) /\ WF_vars(Timeout)
  /\ \A n \in Notifications :
       /\ WF_vars(Age(n))
       /\ WF_vars(\E t \in Tasks : Enqueue(n, t) \/ ReplayEnqueue(n, t))
       /\ \A t \in Tasks :
            /\ SF_vars(Start(n, t))
            /\ WF_vars(Answer(n, t) \/ Commit(n, t) \/ Respond(n, t)
                       \/ Conclude(n, t))
       /\ \A r \in Receipts : SF_vars(HandleReceipt(n, r))

FairSpec == Spec /\ Fairness

-----------------------------------------------------------------------------
(* Properties.                                                             *)

\* Every variable keeps its type.
TypeOK ==
  /\ row \in [Notifications -> Row]
  /\ api \in [Notifications -> {"idle", "persisted", "done"}]
  /\ age \in [Notifications -> 0..2]
  /\ active \in BOOLEAN
  /\ task \in [Notifications -> [Tasks -> TaskState]]
  /\ accepted \subseteq Notifications \X (Providers \cup {NoProvider})
  /\ sends \in [Notifications -> Nat]
  /\ lostAcks \in [Notifications -> Nat]
  /\ receipt \in [Notifications -> [Receipts -> ReceiptState]]
  /\ replaying \subseteq Notifications
  /\ sweep \in [pc : {"idle", "selected", "telling"},
                left : SUBSET Notifications]
  /\ callbacks \in [Notifications -> Seq(NotificationStatuses)]
  /\ faults \in 0..MaxFaults

\* When handlers of a message do not overlap, deliver_sms hands it to a provider
\* once, however often it is replayed, redelivered or retried: each further text
\* is one whose acceptance was lost (request timed out, commit failed, crash).
NoDuplicateText ==
  ~Overlap => \A n \in Notifications : sends[n] <= 1 + lostAcks[n]

\* A live text that a provider took is billed, or the task that got the answer
\* has still to write billable_units, or the answer was lost.
AcceptedIsBilled ==
  \A n \in Notifications \ TestKey :
    sends[n] > 0 /\ row[n].status # Absent /\ ~row[n].billed
      => \/ lostAcks[n] > 0
         \/ \E t \in Tasks : task[n][t].pc = "accepted"

\* The inductive strengthening of NoDuplicateText and FinalStatusStable, message
\* by message, for handlers that do not overlap: one task runs at a time; while
\* it is between the read of `created' and its commit the row stays `created'
\* and is not being timed out; a message whose request is not over has no task;
\* a row selected by the timeout stays in flight; and as long as a row is
\* `created' and no acceptance is waiting to be committed, every text a provider
\* took is one whose acceptance was lost.
OneRunner(n) ==
  \A t, u \in Tasks : Running(n, t) /\ Running(n, u) => t = u
SentFromCreated(n) ==
  \A t \in Tasks :
    \/ task[n][t].pc \in {"calling", "accepted"}
    \/ task[n][t].pc = "raised" /\ task[n][t].held
    => row[n].status = "created"
RunnerNotSwept(n) == \A t \in Tasks : Running(n, t) => n \notin sweep.left
Untouched(n) ==
  api[n] # "done" =>
    /\ age[n] = 0 /\ n \notin replaying /\ n \notin sweep.left
    /\ sends[n] = 0
    /\ \A t \in Tasks : task[n][t].pc = "free"
    /\ api[n] = "idle" => row[n].status = Absent
SweptInFlight(n) ==
  n \in sweep.left /\ sweep.pc = "selected"
    => row[n].status \in InFlightStatuses
Budget(n) ==
  sends[n] <= lostAcks[n] + (IF /\ row[n].status = "created"
                                /\ \A t \in Tasks : task[n][t].pc # "accepted"
                             THEN 0 ELSE 1)
SerialInv ==
  \A n \in Notifications :
    /\ OneRunner(n) /\ SentFromCreated(n) /\ RunnerNotSwept(n)
    /\ Untouched(n) /\ SweptInFlight(n) /\ Budget(n)

\* When handlers do not overlap, a final status is only ever replaced by
\* technical_failure, when a task runs for a service that is inactive.
FinalStatusStable ==
  [][~Overlap => \A n \in Notifications :
       row[n].status \in FinalStatuses =>
         \/ row'[n].status = row[n].status
         \/ row'[n].status = Absent
         \/ ~active /\ row'[n].status = "technical-failure"]_vars

\* update_notification_to_sending never moves a message out of a final status.
SendingNeverReplacesFinal ==
  [][\A n \in Notifications :
       row[n].status \in FinalStatuses
         => row'[n].status \notin {"sending", "sent"}]_vars

\* A task that runs out of retries leaves its message settled: no replay will
\* pick it up again.
GaveUpIsSettled ==
  [][\A n \in Notifications, t \in Tasks :
       GiveUp(n, t) => row'[n].status # "created"]_vars

\* Every message the API persisted is eventually settled: sent abroad, final, or
\* deleted because the broker refused it.  Of those to countries without delivery
\* records this holds only for the ones whose tasks stop running out of retries, for
\* giving up leaves them in `created', to be replayed.
EventuallySettled ==
  \A n \in Notifications :
    (n \in NoDlr => <>[][\A t \in Tasks : ~GiveUp(n, t)]_vars)
      => (row[n].status = "created"
            ~> row[n].status \in FinalStatuses \cup {"sent", Absent})

RowStatus(n) == IF api[n] = "idle" THEN "unborn" ELSE row[n].status

\* What providers have of message n: nothing, copies they took without the worker
\* recording it, besides these one copy they are known to have, or several.
Copies(n) == IF sends[n] = 0 THEN "none"
             ELSE IF sends[n] <= lostAcks[n] THEN "lost"
             ELSE IF sends[n] = lostAcks[n] + 1 THEN "out" ELSE "twice"

\* The service is about to be told what a receipt or the timeout just wrote.
Due(n) ==
  \/ \E r \in Receipts : /\ receipt[n][r].pc \in {"updated", "billed"}
                          /\ receipt[n][r].status # "pending"
  \/ sweep.pc = "telling" /\ n \in sweep.left

Delivery == INSTANCE MessageDelivery
  WITH Messages <- Notifications, Abroad <- International, NoReports <- NoDlr,
       status <- [n \in Notifications |-> RowStatus(n)],
       copies <- [n \in Notifications |-> Copies(n)],
       due <- {n \in Notifications : Due(n)},
       told <- callbacks

\* When handlers of a message do not overlap, texts are delivered as promised: the
\* steps of the tasks, receipts and scheduled jobs are those of MessageDelivery.
ImplementsDelivery == Delivery!Spec

\* Then the row says of a text what the provider and the service know of it, and
\* the service hears of it once: process_sms_client_response and
\* timeout_notifications never both report.
RowIsHonest == ~Overlap => Delivery!Honest

\* Types hold, what went out is billed, and rows are honest.
TextInv == TypeOK /\ AcceptedIsBilled /\ RowIsHonest
=============================================================================
