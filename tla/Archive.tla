------------------------------ MODULE Archive ------------------------------
(***************************************************************************)
(* The nightly tasks: timeout_notifications, create_nightly_billing,       *)
(* create_nightly_notification_status and the deletion of notifications    *)
(* past their retention, which moves them to notification_history in       *)
(* batches, after deleting the PDFs of letters; while the tasks that send,  *)
(* receipts, callbacks and returned letters keep writing to them.          *)
(*                                                                         *)
(* Notifications of one service.  They are made during the day, after the  *)
(* night's tasks.  A day has the phases of the beat schedule: 00:05        *)
(* timeout, 00:15 billing, 00:30 statuses, 03:00 archive, day.             *)
(***************************************************************************)
EXTENDS NotificationStatus, Naturals, FiniteSets, FiniteSetsExt, Functions

CONSTANTS
  Texts,          \* ids of text messages
  Letters,        \* ids of letters
  TestKey,        \* the ones made with a test API key
  Group,          \* what billing counts a notification under (provider, postage)
  TimeoutDays,    \* SENDING_NOTIFICATIONS_TIMEOUT_PERIOD (3 days)
  TextFactDays,   \* days of statuses that are aggregated again: texts (4)
  LetterFactDays, \* ... and letters (10)
  BillingDays,    \* days of billing that are aggregated again (10)
  Retention,      \* days_of_retention of the service (3 to 90, default 7)
  Limit,          \* rows of one batch (50,000; 5,000 letters)
  LastCreated,    \* bound: last day on which notifications are made
  LastDay,        \* bound: last day
  MaxFaults       \* bound on runs that fail and deletions that S3 refuses

Notifications == Texts \cup Letters
Days == 0..LastDay
Groups == {Group[n] : n \in Notifications}

\* Texts have timed out when their day is aggregated for the last time.
ASSUME ArchiveAssumption ==
  /\ IsFiniteSet(Notifications)
  /\ Texts \cap Letters = {} /\ TestKey \subseteq Notifications
  /\ DOMAIN Group = Notifications
  /\ {TimeoutDays, LastDay, LastCreated, MaxFaults} \subseteq Nat
  /\ {TextFactDays, LetterFactDays, BillingDays, Limit} \subseteq Nat \ {0}
  /\ Retention \in Nat /\ Retention >= TimeoutDays
  /\ TimeoutDays < TextFactDays /\ TimeoutDays < BillingDays
  /\ LetterFactDays <= BillingDays

VARIABLES
  day,      \* today
  phase,    \* what the beat schedule starts next
  created,  \* day of created_at
  live,     \* notifications.status
  history,  \* notification_history.status
  pdf,      \* letters whose PDF is in S3
  scan,     \* ... in the bucket of the virus scan
  kept,     \* letters whose PDF S3 failed to delete (ClientError)
  fact,     \* ft_notification_status: the status a notification is counted under
  bill,     \* ft_billing.notifications_sent, by day and group
  sweep,    \* delete_notifications_for_service_and_type, by type
  raced,    \* notifications written to during a sweep of their type
  late,     \* texts written to after the timeout that should have settled them
  missed    \* tasks whose run failed

vars == <<day, phase, created, live, history, pdf, scan, kept, fact, bill, sweep,
          raced, late, missed>>

Types == {"sms", "letter"}
OfType(t) == IF t = "sms" THEN Texts ELSE Letters
TypeOf(n) == IF n \in Texts THEN "sms" ELSE "letter"

\* queued: to delete PDFs (letters).  clean: PDFs deleted.  selected: the rows are
\* in the temporary table, with the statuses they had.  test: now the test rows.
NoRows == [n \in {} |-> Absent]
IdleSweep == [pc |-> "idle", rows |-> NoRows]
Sweeping(t) == sweep[t].pc # "idle"

Init ==
  /\ day = 0 /\ phase = "day"
  /\ created = [n \in Notifications |-> 0]
  /\ live = [n \in Notifications |-> Absent]
  /\ history = [n \in Notifications |-> Absent]
  /\ pdf = {} /\ scan = {} /\ kept = {}
  /\ fact = [n \in Notifications |-> Absent]
  /\ bill = [x \in (0..LastCreated) \X Groups |-> 0]
  /\ sweep = [t \in Types |-> IdleSweep]
  /\ raced = {} /\ late = {} /\ missed = {}

Tables == <<live, history>>
Pdfs == <<pdf, scan, kept>>
Facts == <<fact, bill>>
Marks == <<raced, late>>

\* notifications_all_time_view.
AllTime == [n \in Notifications |-> IF live[n] # Absent THEN live[n] ELSE history[n]]

\* The run of a task fails, or the worker dies; a task fails once at most.
Fails(task) ==
  /\ task \notin missed /\ Cardinality(missed) + Cardinality(kept) < MaxFaults
  /\ missed' = missed \cup {task}

-----------------------------------------------------------------------------
(* Writers.                                                                *)

\* What a notification can be when the tasks of its first day are done: a text is left
\* for deliver_sms, a test letter is delivered when it is made
\* (TEST_LETTERS_FAKE_DELIVERY is off).
Starts(n) ==
  IF n \in Texts THEN {"created"}
  ELSE {IF n \in TestKey THEN "delivered" ELSE "sending", "validation-failed",
        "technical-failure", "virus-scan-failed", "pending-virus-check"}

\* The PDF of a letter that starts like this is left in the bucket of the virus scan.
LeftInScan == {"technical-failure", "virus-scan-failed", "pending-virus-check"}

Create(n) ==
  /\ phase = "day" /\ day <= LastCreated
  /\ AllTime[n] = Absent /\ fact[n] = Absent
  /\ \E s \in Starts(n) :
       /\ live' = [live EXCEPT ![n] = s]
       /\ scan' = IF s \in LeftInScan THEN scan \cup {n} ELSE scan
  /\ created' = [created EXCEPT ![n] = day]
  /\ pdf' = IF n \in Letters THEN pdf \cup {n} ELSE pdf
  /\ UNCHANGED <<day, phase, history, kept, Facts, sweep, Marks, missed>>

\* The night that times out what was made that day has come.
Outlived(n) ==
  created[n] + TimeoutDays < day /\ (created[n] + TimeoutDays + 1 = day => phase # "timeout")

Race(n) ==
  /\ raced' = IF Sweeping(TypeOf(n)) THEN raced \cup {n} ELSE raced
  /\ late' = IF n \in Texts /\ Outlived(n) THEN late \cup {n} ELSE late

\* A write to the row of a notification that is in the live table.
Write(n, s) ==
  /\ live' = [live EXCEPT ![n] = s]
  /\ Race(n)
  /\ UNCHANGED <<day, phase, created, history, Pdfs, Facts, sweep, missed>>

\* update_notification_to_sending, however late the task runs: a text abroad is `sent'.
Send(n) ==
  /\ n \in Texts /\ live[n] = "created"
  /\ \E s \in {"sending", "sent"} : Write(n, s)

\* update_notification_status_by_id: live rows only, and not just those that are
\* `sending'.  (The other failures count as `delivered' does, for bills and facts;
\* of a text to a country without delivery records, no receipt is taken.)
Receipt(n) ==
  /\ n \in Texts /\ live[n] \in UpdatableStatuses
  /\ \E s \in {"pending", "delivered", "technical-failure"} : Write(n, s)

\* process_letter_callback_data, by id, in either table.  Letters are assumed to
\* be settled while their day is still aggregated.
LetterCallback(n) ==
  /\ n \in Letters /\ live[n] = "sending"
  /\ day < created[n] + LetterFactDays
  /\ \E s \in {"delivered", "technical-failure"} : Write(n, s)

\* dao_update_notifications_by_reference: the live row, or else the archived one.
UpdateByReference(n, s) ==
  IF live[n] # Absent
  THEN live' = [live EXCEPT ![n] = s] /\ UNCHANGED history
  ELSE history' = [history EXCEPT ![n] = s] /\ UNCHANGED live

\* process_returned_letters_list.
Returned(n) ==
  /\ n \in Letters \ TestKey /\ AllTime[n] = "delivered"
  /\ UpdateByReference(n, "returned-letter")
  /\ Race(n)
  /\ UNCHANGED <<day, phase, created, Pdfs, Facts, sweep, missed>>

-----------------------------------------------------------------------------
(* The night.                                                              *)

Phases == [timeout |-> "billing", billing |-> "status", status |-> "archive",
           archive |-> "day"]

NewDay ==
  /\ phase = "day" /\ day < LastDay /\ \A t \in Types : ~Sweeping(t)
  /\ day' = day + 1 /\ phase' = "timeout"
  /\ UNCHANGED <<created, Tables, Pdfs, Facts, sweep, Marks, missed>>

Miss ==
  /\ phase # "day" /\ Fails(phase)
  /\ phase' = Phases[phase]
  /\ UNCHANGED <<day, created, Tables, Pdfs, Facts, sweep, Marks>>

\* dao_timeout_notifications: older than 72 hours shortly after midnight.
TimedOut(n) ==
  n \in Texts /\ live[n] \in InFlightStatuses /\ created[n] + TimeoutDays < day

TimeoutNotifications ==
  /\ phase = "timeout" /\ phase' = "billing"
  /\ live' = [n \in Notifications |->
                IF TimedOut(n) THEN "temporary-failure" ELSE live[n]]
  /\ UNCHANGED <<day, created, history, Pdfs, Facts, sweep, Marks, missed>>

\* Counted for billing: NOTIFICATION_STATUS_TYPES_BILLABLE_SMS and ..._FOR_LETTERS.
Billable(n) ==
  /\ n \notin TestKey
  /\ AllTime[n] \in IF n \in Texts
                    THEN {"sending", "sent", "delivered", "pending",
                          "temporary-failure", "permanent-failure"}
                    ELSE {"sending", "delivered", "returned-letter"}

\* fetch_billing_data_for_day.
Count(d, g) ==
  Cardinality({n \in Notifications : Group[n] = g /\ created[n] = d /\ Billable(n)})

\* Mutant: the rows of a day are written again without what is archived.
UpsertFromLive(days) ==
  bill' = [x \in DOMAIN bill |->
             IF x[1] \notin days THEN bill[x]
             ELSE Cardinality({n \in Notifications : Group[n] = x[2] /\ created[n] = x[1]
                                                     /\ Billable(n) /\ live[n] # Absent})]

\* update_ft_billing: rows are inserted or updated, never deleted.
UpsertBilling(days) ==
  bill' = [x \in DOMAIN bill |->
             IF x[1] \in days /\ Count(x[1], x[2]) > 0 THEN Count(x[1], x[2])
             ELSE bill[x]]

\* create_nightly_billing, with a task per day.
CreateNightlyBilling ==
  /\ phase = "billing" /\ phase' = "status"
  /\ UpsertBilling({d \in 0..LastCreated : d < day /\ day <= d + BillingDays})
  /\ UNCHANGED <<day, created, Tables, Pdfs, fact, sweep, Marks, missed>>

\* update_ft_billing_for_today.
UpdateBillingForToday ==
  /\ phase = "day" /\ day <= LastCreated
  /\ UpsertBilling({day})
  /\ UNCHANGED <<day, phase, created, Tables, Pdfs, fact, sweep, Marks, missed>>

\* create_nightly_notification_status: the last days, as many as the type needs.
Aggregated(n) ==
  /\ created[n] < day
  /\ day <= created[n] + (IF n \in Texts THEN TextFactDays ELSE LetterFactDays)

\* get_service_ids_with_notifications_on_date: the service has rows of that day and
\* type, live or already aggregated.
HasRows(n) ==
  \E o \in OfType(TypeOf(n)) :
    created[o] = created[n] /\ (live[o] # Absent \/ fact[o] # Absent)

\* update_fact_notification_status, for each of those days.
CreateNightlyStatus ==
  /\ phase = "status" /\ phase' = "archive"
  /\ fact' = [n \in Notifications |->
                IF AllTime[n] # Absent /\ n \notin TestKey /\ Aggregated(n)
                   /\ HasRows(n)
                THEN AllTime[n] ELSE fact[n]]
  /\ UNCHANGED <<day, created, Tables, Pdfs, bill, sweep, Marks, missed>>

\* delete_notifications_older_than_retention: a task per type.
StartSweeps ==
  /\ phase = "archive" /\ phase' = "day"
  /\ sweep' = [t \in Types |->
                 [IdleSweep EXCEPT !.pc = IF t = "letter" THEN "queued" ELSE "clean"]]
  /\ UNCHANGED <<day, created, Tables, Pdfs, Facts, Marks, missed>>

Expired(n) == live[n] # Absent /\ created[n] + Retention < day

\* The first rows of R by created_at: any Limit of them that leave out no older row.
Batches(R) ==
  {B \in SUBSET R :
     /\ Cardinality(B) = Min({Limit, Cardinality(R)})
     /\ \A n \in B, o \in R \ B : created[n] <= created[o]}

\* Mutant: letters on their way are archived too.
ArchivableAny(n) == Expired(n) /\ n \notin TestKey

\* Letters still on their way stay.
LettersKept == {"pending-virus-check", "created", "sending"}

\* Texts are taken in any status.
Archivable(n) ==
  /\ Expired(n) /\ n \notin TestKey
  /\ n \in Letters => live[n] \notin LettersKept

\* The PDFs of the letters B, one by one: S3 may fail to delete some, and what is not
\* in the bucket of its status (get_bucket_name_and_prefix) is not found.  Either is
\* logged, and the letter's row goes all the same.
DeletePdfs(B) ==
  \E F \in SUBSET (B \cap pdf) :
    /\ F = {} \/ Cardinality(missed) + Cardinality(kept \cup F) <= MaxFaults
    /\ pdf' = pdf \ (B \ (F \cup scan))
    /\ kept' = kept \cup F
    /\ UNCHANGED scan

\* _delete_letters_from_s3, test letters included.
DeleteLettersFromS3 ==
  LET R == {n \in Letters : Expired(n) /\ live[n] \in CompletedStatuses}
  IN /\ sweep["letter"].pc = "queued"
     /\ \E B \in Batches(R) : DeletePdfs(B)
     /\ sweep' = [sweep EXCEPT !["letter"].pc = "clean"]
     /\ UNCHANGED <<day, phase, created, Tables, Facts, Marks, missed>>

\* SELECT ... INTO the temporary table.
SelectRows(t) ==
  /\ sweep[t].pc = "clean"
  /\ \E B \in Batches({n \in OfType(t) : Archivable(n)}) :
       sweep' = [sweep EXCEPT ![t] = [pc |-> "selected", rows |-> Restrict(live, B)]]
  /\ UNCHANGED <<day, phase, created, Tables, Pdfs, Facts, Marks, missed>>

\* Mutant: rows that were changed meanwhile are not deleted.
MoveUnchangedRows(t) ==
  LET R == DOMAIN sweep[t].rows
  IN /\ history' = [n \in Notifications |->
                      IF n \in R /\ history[n] = Absent THEN sweep[t].rows[n]
                      ELSE history[n]]
     /\ live' = [n \in Notifications |->
                   IF n \in R /\ live[n] = sweep[t].rows[n] THEN Absent ELSE live[n]]

\* Mutant: the rows to delete are looked up again.
MoveMatchingRows(t) ==
  LET R == DOMAIN sweep[t].rows
  IN /\ history' = [n \in Notifications |->
                      IF n \in R /\ history[n] = Absent THEN sweep[t].rows[n]
                      ELSE history[n]]
     /\ live' = [n \in Notifications |->
                   IF n \in OfType(t) /\ Archivable(n) THEN Absent ELSE live[n]]

\* INSERT ... ON CONFLICT DO NOTHING, and DELETE by id, in one transaction.
MoveRows(t) ==
  LET R == DOMAIN sweep[t].rows
  IN /\ history' = [n \in Notifications |->
                      IF n \in R /\ history[n] = Absent THEN sweep[t].rows[n]
                      ELSE history[n]]
     /\ live' = [n \in Notifications |-> IF n \in R THEN Absent ELSE live[n]]

\* Mutant: the test rows are forgotten.
NextTaskNoTest(t) ==
  IF sweep[t].rows = NoRows THEN "idle"
  ELSE IF t = "letter" THEN "queued" ELSE "clean"

\* As long as there was something, the task is queued again.
NextTask(t) ==
  IF sweep[t].rows = NoRows THEN "test"
  ELSE IF t = "letter" THEN "queued" ELSE "clean"

\* insert_notification_history_delete_notifications commits.
ArchiveRows(t) ==
  /\ sweep[t].pc = "selected"
  /\ MoveRows(t)
  /\ sweep' = [sweep EXCEPT ![t] = [pc |-> NextTask(t), rows |-> NoRows]]
  /\ UNCHANGED <<day, phase, created, Pdfs, Facts, Marks, missed>>

\* delete_test_notifications, in batches until there are none.
DeleteTestRows(t) ==
  LET R == {n \in OfType(t) \cap TestKey : Expired(n)}
  IN /\ sweep[t].pc = "test"
     /\ \E B \in Batches(R) :
          /\ DeletePdfs(B)
          /\ live' = [n \in Notifications |-> IF n \in B THEN Absent ELSE live[n]]
     /\ sweep' = IF R = {} THEN [sweep EXCEPT ![t] = IdleSweep] ELSE sweep
     /\ UNCHANGED <<day, phase, created, history, Facts, Marks, missed>>

\* The worker dies: its transaction is rolled back, and nothing is queued.
SweepFails(t) ==
  /\ Sweeping(t) /\ Fails("archive")
  /\ sweep' = [sweep EXCEPT ![t] = IdleSweep]
  /\ UNCHANGED <<day, phase, created, Tables, Pdfs, Facts, Marks>>

Sweep(t) == SelectRows(t) \/ ArchiveRows(t) \/ DeleteTestRows(t)

Night == \/ TimeoutNotifications \/ CreateNightlyBilling \/ CreateNightlyStatus
         \/ StartSweeps

Next ==
  \/ \E n \in Notifications :
       Create(n) \/ Send(n) \/ Receipt(n) \/ LetterCallback(n) \/ Returned(n)
  \/ NewDay \/ Miss \/ Night \/ UpdateBillingForToday
  \/ DeleteLettersFromS3 \/ \E t \in Types : Sweep(t) \/ SweepFails(t)

Spec == Init /\ [][Next]_vars

\* The days pass, and what the schedule starts comes to an end.
FairSpec ==
  /\ Spec
  /\ WF_vars(NewDay) /\ WF_vars(Night)
  /\ WF_vars(DeleteLettersFromS3) /\ \A t \in Types : WF_vars(Sweep(t))

-----------------------------------------------------------------------------
(* Properties.                                                             *)

\* Every variable keeps its type.
TypeOK ==
  /\ day \in Days /\ phase \in DOMAIN Phases \cup {"day"}
  /\ created \in [Notifications -> Days]
  /\ \A f \in {live, history, fact} :
       f \in [Notifications -> NotificationStatuses \cup {Absent}]
  /\ pdf \subseteq Letters /\ scan \subseteq Letters /\ kept \subseteq Letters
  /\ raced \subseteq Notifications /\ late \subseteq Texts
  /\ bill \in [(0..LastCreated) \X Groups -> 0..Cardinality(Notifications)]
  /\ \A t \in Types : sweep[t].pc \in {"idle", "queued", "clean", "selected", "test"}

\* The two tables together keep one record of every notification: the archiving
\* loses none, changes none, and only test notifications are deleted.
Store == INSTANCE NotificationStore
           WITH Statuses <- NotificationStatuses, NoRecord <- Absent,
                record <- AllTime

\* The tables implement NotificationStore.
ImplementsStore == Store!Spec

\* insert_notification_history_delete_notifications moves rows: no notification is
\* in both tables, or the union in notifications_all_time_view would count it twice.
OneHome == \A n \in Notifications : live[n] = Absent \/ history[n] = Absent

\* Unless a run of the timeout failed, no text is archived as on its way, for nobody
\* would settle it there: the timeout comes before the shortest retention.  The
\* exception are texts that were sent or reported after their timeout; and letters on
\* their way stay.  (What is archived may be `created' or `sent': the timeout and the
\* archiving know nothing of these, and a receipt that comes later is dropped.)
ArchivedIsSettled ==
  "timeout" \notin missed =>
    \A n \in Notifications \ late : history[n] \notin InFlightStatuses

\* Types hold, no notification is in both tables, and what is archived is settled.
ArchiveInv == TypeOK /\ OneHome /\ ArchivedIsSettled

\* Unless a run failed, ft_notification_status is right for good once its day has
\* left the window of create_nightly_notification_status, for texts in any status
\* that were not sent or reported after their timeout, and none of them is counted
\* as on its way.  (Returned letters come later and are not looked at.)
StatusFactsSettled ==
  missed = {} /\ phase = "day" =>
    \A n \in Texts \ (TestKey \cup late) :
      AllTime[n] # Absent /\ day >= created[n] + TextFactDays =>
        fact[n] = AllTime[n] /\ fact[n] \notin InFlightStatuses

\* Unless a run failed, ft_billing counts every billable notification of a group
\* once its day is over for the billing, archived or not, if none of the group was
\* sent or reported after its timeout.  (The row of a group with nothing billable
\* left is not deleted: nothing is said of it.)
BillingSettled ==
  missed = {} /\ phase = "day" =>
    \A d \in 0..LastCreated, g \in Groups :
      /\ day >= d + BillingDays /\ Count(d, g) > 0
      /\ \A n \in late \ TestKey : Group[n] = g => created[n] # d
      => bill[d, g] = Count(d, g)

\* The facts and the bills of a day end up right, whatever was archived in between.
FactsSettled == StatusFactsSettled /\ BillingSettled

\* The PDF of a letter outlives its row, archived or deleted, only if it failed the
\* virus scan (nothing but the scan looks in its bucket), if S3 failed to delete it (it
\* is not tried again), or if the letter was completed during the sweep; as long as a
\* batch has room for all letters of the service.  (Expired test letters take places in
\* the batches of _delete_letters_from_s3 that letters archived right after would need.)
ArchivedHasNoPdf ==
  Cardinality(Letters) <= Limit =>
    \A n \in pdf : live[n] = Absent => n \in scan \cup kept \cup raced

\* Retention is honoured: texts in any status and letters that are not on their way
\* leave the notifications table.
RetentionHonoured ==
  \A n \in Notifications :
    live[n] \notin {Absent} \cup (IF n \in Texts THEN {} ELSE LettersKept)
      ~> live[n] = Absent
=============================================================================
