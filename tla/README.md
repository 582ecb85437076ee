# A TLA+ model of NotifyNL API

NotifyNL API accepts text messages, emails and letters from the services of a
government, hands them to providers (Spryng, FireText, MMG, Amazon SES, the print
provider DVLA), and keeps the status of each until it is final. Its hard part is not in
any one function: a notification is one database row that the web process, celery tasks
delivered at least once by SQS, scheduled sweeps and the providers' callbacks all read
and write, and the services, keys, folders and reports around it are edited by
concurrent requests without locks. This project models those handlers step by step,
model-checks them with TLC on small instances, and proves the central properties with
TLAPS for all values of the constants.

Paths below are relative to `src/`.

## 1. The system

### Components, state and operations

| Component | State | Operations | Module |
|---|---|---|---|
| Notification statuses (`app/constants.py`) | none | sets of statuses | `NotificationStatus` |
| Text messages (`app/celery/provider_tasks.py`, `app/delivery/send_to_providers.py`, `app/clients/sms`) | row, queue of `deliver_sms` | persist, deliver, retry, give up, commit to sending, simulated response | `SmsDelivery` |
| Receipts of texts (`app/notifications/notifications_sms_callback.py`, `app/celery/process_sms_client_response_tasks.py`) | sms-callbacks queue | update the row, bill, tell the service | `SmsDelivery` |
| Emails (same tasks, `app/clients/email`) | row with its reference, queue of `deliver_email` | deliver, retry, give up, commit of the reference | `EmailDelivery` |
| SES reports (`app/celery/process_ses_receipts_tasks.py`, `app/notifications/notifications_ses_callback.py`) | complaints table | delivery, bounce, complaint, retry of a report that came too early | `EmailDelivery` |
| Replay and timeout (`app/celery/scheduled_tasks.py`, `nightly_tasks.py`) | none of their own | replay of rows `created` over an hour ago; nightly timeout | `SmsDelivery`, `EmailDelivery`, `Archive` |
| CSV jobs (`app/job/rest.py`, `app/celery/tasks.py`, `app/dao/jobs_dao.py`) | jobs row, file in S3, tasks | create, schedule, cancel, process, shatter, save, resume, repair | `Jobs` |
| SMS provider priorities (`app/dao/provider_details_dao.py`, `app/provider_details/rest.py`) | provider_details and its history | reduce after failure or slowness, return to rest, admin change | `ProviderPriority` |
| Letters (`app/celery/letters_pdf_tasks.py`, `provider_tasks.py`, `process_letter_client_response_tasks.py`, `app/letters`) | row, file in one of eight places in S3, tasks | PDF, scan, sanitise, collate, `deliver_letter`, callback, cancel, return | `Letters` |
| Nightly archiving (`app/celery/nightly_tasks.py`, `app/dao/notifications_dao.py`) | notifications, notification_history, PDFs | timeout, delete PDFs, move rows in batches, delete test rows | `Archive`, `NotificationStore` |
| Billing and status facts (`app/celery/reporting_tasks.py`) | ft_billing, ft_notification_status | nightly and hourly aggregation | `Archive` |
| Daily limits (`app/notifications/validators.py`, `process_notifications.py`) | a Redis counter per day | check, count, decrease on cancellation | `DailyLimits` |
| Services, templates and API keys with their history (`app/dao/dao_utils.py`, `app/history_meta.py`) | rows and history tables | versioned edits, archiving a service | `ServiceRecords` |
| Caches and authentication (`app/serialised_models.py`, `app/authentication`) | Redis, memory caches, keys | create and revoke keys, accept a request | `ApiAccess` |
| SMS senders and inbound numbers (`app/dao/service_sms_sender_dao.py`, `inbound_numbers_dao.py`) | senders, the inbound number | add, change, archive, allocate, remove | `SmsSenders` |
| Template folders (`app/template_folder`) | tree of folders | create, move, delete | `TemplateFolders` |
| Unsubscribe requests (`app/one_click_unsubscribe`, `app/service/rest.py`) | requests, reports, history | click, report, process, archive | `Unsubscribes` |
| Report requests (`app/report_requests`, `app/celery/tasks.py`) | report_requests, file in S3 | request, page, store, fail, delete | `ReportRequests` |
| Credentials of the print provider (`app/clients/letter/dvla.py`) | SSM parameter, Redis lock, password at DVLA | change, save, authenticate | `DvlaPassword` |
| Teams of services (`app/service/rest.py`, `app/user/rest.py`, `app/dao/users_dao.py`) | members, permissions, requests to join, states of users | add, remove, archive, activate, set permissions, ask, decide | `Teams` |
| Service callbacks, MessageBox, receipt of inbound texts, invitations and verify codes, organisations and branding, statistics, configuration, commands, migrations | | | not modelled, see section 6 |

### How the components meet

- **The notifications row.** `persist_notification` commits it before the task is
  queued; the delivery tasks read it, call the provider and write it; receipts, the
  timeout, the replay and the archiving write it too. Some writers lock it, some test a
  value they read earlier, and some update without a condition.
- **Queues.** SQS delivers a task at least once and loses it if the worker dies after
  the message is acknowledged (celery acknowledges early here). The replay,
  `check_job_status` and `check_if_letters_still_pending_virus_check` exist because of
  that.
- **Other apps.** Antivirus and template preview take letters from buckets and answer
  with tasks; the admin app edits services and deletes their cached copies.
- **The schedule.** The timeout, billing, statuses and archiving run at fixed times of
  one night and rely on each other's order, but nothing enforces it.
- **The database's keys** are often the only thing between two requests: job and row, id
  and version of a history row, the parent of a folder.

### What is hard

Values read before a network call and used after it; two handlers of one row;
acceptances the worker never recorded; receipts before the commit they answer,
repeated or out of order; commits followed by a queueing, a file move or a second
commit that may not happen; jobs with lost, late or doubled tasks; sweeps between whose
SELECT and DELETE others write; locks that expire; caches that outlive what they cache;
the bounds of the batch and priority arithmetic. `PROJECT.json` lists such places as
hazards, at their lines, with the properties that cover them.

### What makes each part correct

- Delivery: a notification goes out once, apart from acceptances that were lost; a
  final status stays; every notification settles; what was sent is billed; the service
  is told once.
- Jobs: every row becomes one notification, delivered once; a cancelled job makes
  nothing; `finished all notifications created` is true.
- Letters: the file is where the status says; what the printer took is recorded, or
  something is left that will record it; refused and cancelled letters stay unprinted;
  none is left behind.
- Archiving: a notification is in exactly one table; nothing is lost or changed in the
  move; facts and bills end up right although rows move; retention is honoured.
- Limits: no more than the limit, up to what overlapping requests were accepted for.
- Records: no edit is lost, the history is complete, an ended key is soon refused, one
  default sender, a tree of folders, complete reports, a password that is never lost.

## 2. The modules

Every commit and every call that leaves the process is a step of its own, and so is
everything a worker does between two of them. What a task holds in its SQLAlchemy
session across such a boundary is part of the task's state.

### `NotificationStatus`

The statuses and the sets of them the tasks test (`FinalStatuses`, `InFlightStatuses`).

### `SmsDelivery`

`row` is the notification; `Absent` is a row not inserted, or deleted because the
broker refused its task. `task[n][t]` is a copy of `deliver_sms`: it is queued, out at
the provider (`calling`), answered (`accepted`, `rejected`), about to simulate a
response (`responding`), or in its exception handler (`raised`); `held` says that its
session still has the row as it was read. `receipt[n][r]` is a delivery receipt on its
queue or in a worker. `sweep` is `timeout_notifications` between its SELECT and its
UPDATE.

| Actions | Code |
|---|---|
| `Create` and its parts | `persist_notification`, `send_notification_to_queue`, deletion when the broker refuses |
| `Start`, `Answer`, `Commit`, `Respond`, `Conclude` | `deliver_sms`, `send_sms_to_provider`, `update_notification_to_sending`, retry and give-up |
| `SendReceipt`, `HandleReceipt` | the providers' endpoints and `process_sms_client_response` |
| `ReplaySelect`, `ReplayEnqueue`, `TimeoutSelect`, `Timeout` | the scheduled tasks |
| `Age`, `ArchiveService`, `CrashTask`, `CrashReceipt`, `Redeliver` | time, the archived service, worker and queue faults |

The constant `Overlap` says whether two handlers of one message may run at the same
time. Nothing in the code forbids it, so the runs that look for races set it to TRUE.
Setting it to FALSE separates what follows from order (repetition, reordering, lost
tasks, retries) from what needs two workers in the same second, and lets the stronger
properties be stated for the former.

### `EmailDelivery`

The same for emails. The references SES gives out are numbered 1, 2, ... per email, so a
report carries the reference of one send and meets the row with that one, an older one
or none. `handled` records the references whose report was dealt with. A complaint that
finds no row is retried like a report.

### `MessageDelivery`

What `SmsDelivery` and `EmailDelivery` promise together, without tasks, retries, queues and
sessions: per message the status in its row, what providers have of it (`none`, `lost`
copies that they took while the answer was lost, `out` when besides these there is one copy
they said they have, `twice` when there are several), whether the service is about to be
told (`due`) and what it was told. A provider is handed a message again only if its answer
to every earlier copy was lost, so that no message is ever `twice`; the row says `sending`
only after it answered, a final status gives way only when the service is archived or the
row deleted, and the service is told the status that is in the row. Both modules implement
it when two handlers of one message do not run at once (`ImplementsDelivery`), under the
mapping `copies <- Copies(n)`, which compares sends (`sends`, `refs`) with lost acceptances,
and `due <- Due(n)`: a receipt or report that has written the row, or the timeout. Every
step of theirs is then one step of `MessageDelivery` or none that it sees: a retry, a
redelivery, a replay, a duplicate receipt and most crashes are invisible. `Honest` is what
follows from `MessageDelivery` alone, and `RowIsHonest` is `Honest` of the two modules. A
`deliver_sms` that does not test the row's status before it sends breaks both this
refinement and `NoDuplicateText`, the count of the same in the module's own variables.

### `Jobs`

One job. `file` is its CSV file: size, rows with an invalid recipient, rows a trial
service may not send, rows too large for a task's message (`huge`), and whether it is a
letter job. `worker` holds the runs of `process_job` and `process_incomplete_job`,
`batches` the queued `shatter_job_rows`, and `save[<<row, id>>]` the save tasks: a row
queued twice has two ids, as in the code. `created` is the notifications with their
unique constraint on the row. `Subdivide` is `_shatter_job_rows_with_subdivision`, a
recursive function of a range of rows. `overdue` and `settled` stand for the two windows
of time the scheduled queries use. `faults` is the set of the kinds of fault that have
happened, so the properties can say which faults they hold under.

### `Letters`

One letter: `status`, `units` (the page count) and `touched` (`updated_at` is set) are
its row; `pdf` is the set of places in S3 where its file is; `queue` counts the messages
of the API's tasks and of the antivirus and template preview apps, by number of
retries; `handler` is what a task or request at work has read (`seen`) and its next
step; `dvla` is what the printer has done.

| Actions | Code |
|---|---|
| `PostLetter`, `PostPrecompiledLetter`, `SendUploadedLetter`, `MoveUploadedPdf` | the three ways in |
| `GetPdf`, `CreatePdf`, `UpdateBillableUnits`, `UpdateValidationFailed` | templated letters: `get_pdf_for_templated_letter` and what template preview queues |
| `ScanFile`, `SanitiseLetter`, `SanitisePdf`, `ProcessSanitisedAgain` ... `DeleteOriginal` | the virus scan and `process_sanitised_letter`, commit and file moves apart |
| `MoveFailedPdf`, `MarkFailed`, `ReplayLetterInError` | `process_virus_scan_failed` and `_error`, support's replay |
| `Collate`, `PdfNotFound`, `SendLetter...`, `MarkSending`, `MarkSendingFails` | the collation, `deliver_letter`, `update_letter_to_sending`, which may raise inside the `try` when the printer has the letter already |
| `DvlaPrints`, `LetterCallback`, `RecordDespatch`, `ReturnLetter` | the printer and its callback, in its two transactions |
| `CancelLetter`, `WriteCancelled`, `CancelLetterJob` | cancellation |
| `ReplayCreatedLetter`, `CheckPendingVirusCheck` | the checks of the beat schedule |
| `Begin`, `Crash`, `Redeliver`, `Lose` | the queue and its faults |

Overlapping handlers are one kind of fault here (`"overlap"`), so a property names the
faults it does not survive.

### `Archive` and `NotificationStore`

`Archive` is the nights of one service. `phase` is what the beat schedule starts next:
00:05 timeout, 00:15 billing, 00:30 statuses, 03:00 archiving. `live` and `history` are
the two tables, `pdf` the files, `fact` and `bill` the aggregated tables. `sweep[t]` is
the chain of tasks that archives one type: PDFs of letters first (`queued`), then the
rows are selected into a temporary table with the statuses they have (`SelectRows`), and
later inserted into the history and deleted by id (`ArchiveRows`), batch after batch;
then the test rows. A task may fail once (`missed`).

- Texts start as `created`. `Send` makes them `sending` or, abroad, `sent`, however late
  `deliver_sms` runs; a receipt is taken for a text that is `created`, `sending`,
  `pending` or `sent`, as in `update_notification_status_by_id`. The timeout settles only
  `sending` and `pending`, and the archiving takes texts in any status. `late` marks the
  texts written to after the timeout that should have settled them. That a slow send
  overwrites a receipt is the subject of `SmsDelivery`; here `Send` begins with `created`.
- Letters start where the tasks of their first day leave them, failed scans and
  validations included. `scan` is the letters whose file is in the bucket of the virus
  scan, `kept` those whose PDF S3 failed to delete. Both errors are swallowed in
  `_delete_letters_from_s3`, and the row is archived all the same.
- Receipts, callbacks and returned letters write in between; `raced` remembers to which
  rows of a type they wrote during its sweep.

`NotificationStore` is what the two tables promise together: one record per
notification, which writers change, which the timeout takes only from `sending`, and
which the archiving leaves as it is; a write it races with may be undone, and only test
notifications are purged. `Archive` implements it under the refinement mapping `record
<- AllTime`, the code's `notifications_all_time_view` (`ImplementsStore`).

### `ProviderPriority`

`row` is provider_details and `history` its history table. `ReducePriority` (with the
age guard, the lock and the alternative provider), `TendToRest` and the admin app's
request, which reads in one step and commits in another and fails when the history row
of its version already exists. The admin app sets whatever integer it is given
(`AdminPriorities`), since `app/provider_details/rest.py:72` validates nothing and the
column has no CHECK. `SetBeyond(p)` says that it once set a priority out of range, and
`RangeKept` that nothing else takes one there.

### The records around them

In these modules a request reads and validates in one step and commits in another.

- `DailyLimits`: the counter of a date. The check is a GET, and a SET to 0 when there is
  no key; counting a row is a GET and then SET 1 or INCR; a cancellation reads and then
  DECRBYs. After the commit of a row the process may die or Redis fail to answer, and the
  row is not counted (`LoseCount`). `missed` adds up what a SET has overwritten and what
  was lost in this way.
- `ServiceRecords`: the service, a template and the API keys. A commit adds one to the
  version it read; the history's primary key makes the second of two such commits fail.
  The UPDATE sets only the columns the request changed (`Merged`). Archiving the
  service ends its keys and templates in the same transaction.
- `ApiAccess`: the service in Redis, and per process a memory cache of the service and
  one of its keys, each with its age. A service object keeps the keys it was first asked
  for, however old they were.
- `Unsubscribes`: a click (test for a duplicate, then INSERT), a report (summary, INSERT,
  then the assignment of the requests in its range) and the two nightly tasks, which read
  rows and later move them as they were.
- `ReportRequests`: the check for an ongoing request and the INSERT of a new one, in two
  transactions; the messages of a request, the deliveries of `process_report_request` that
  page through notifications while these change, and the file. A notification has the
  moment it was made (`createdAt`), which others may share; its row may go (`RowGone`: the
  task could not be queued, or it was archived), and its status may cease to match. A page
  holds the newest rows strictly older than the last row of the page before, and none if
  that row is gone. `due` is what matched all the while, `ends` the last rows of full
  pages, `cut` says that a run ended at a row that was gone. `MayMiss` names what a file may
  lack on account of these two.
- `TemplateFolders`: `parent_id` as a function; the database enforces the foreign keys
  at the commit and nothing else, so `is_parent_of` may walk in a circle (`stuck`). The
  folders that walk meets (`Ancestors`) are written as the least set closed under
  `parent`, which is what the loop computes and what a proof can use.
- `SmsSenders`: the default sender, and the inbound number that is one of them.
- `DvlaPassword`: a run takes the Redis lock (which expires), reads the parameter store,
  changes the password at DVLA and saves it; an answer may be lost, a worker may die.
- `Teams`: the members of one service, the permissions of users, their states and the
  requests to join. The approval of a request commits the decision, then the membership
  and permissions, then the cancellation of the user's other requests; the keys of
  `user_to_service` and `permissions` hold at each commit, and the process may die between
  two of them (`CallDies`). `stale` marks a removal, an archiving or a change of permissions
  that read the team before another commit.

`MCPlatform` composes the ten independent modules: each initial state chooses one of
them, and only that one moves.

### Proof modules

- `SmsDelivery_proofs`, `EmailDelivery_proofs`, `Jobs_proofs`, `Letters_proofs`,
  `Archive_proofs`: of the component they name, the first two with the refinement of
  `MessageDelivery`. What follows from `MessageDelivery` itself is proved in that module.
- `Operations_proofs`: `ProviderPriority`, `DvlaPassword`, `ReportRequests`, `Unsubscribes`
  and `DailyLimits`.
- `Services_proofs`: `ServiceRecords`, `ApiAccess`, `Teams`, `SmsSenders` and
  `TemplateFolders`, and the composition of the ten modules.

## 3. The runs

| Run | Checks | Result |
|---|---|---|
| `sms_serial` | `TextInv`, `NoDuplicateText`, `FinalStatusStable`, `ImplementsDelivery` | Replays, redeliveries, retries and two faults on one message never send it twice, unbill it, report it twice or change a final status: all they do is what `MessageDelivery` allows |
| `sms_liveness` | `EventuallySettled` | A text at home, or one to a country without delivery records, with one fault, one retry and every interleaving, becomes final, sent or deleted, unless it is of the latter kind and its tasks run out of retries for ever (finding 2) |
| `sms_stale_send` | `SendingNeverReplacesFinal` | **violated**, finding 1 |
| `sms_nodlr_give_up` | `GaveUpIsSettled` | **violated**, finding 2 |
| `email_serial` | `EmailInv`, `NoDuplicateEmail`, `ImplementsDelivery` | One email with two tasks, two reports and a fault is sent once and reported once, as `MessageDelivery` promises |
| `email_liveness` | `HandledIsFinal`, `EventuallySettled`, `EventuallyTold`, `ComplaintHeard` | In every interleaving no report for the recorded reference is lost; emails settle, and services hear of those SES was given once |
| `jobs_safety` | `JobInv`, `DeliveredOnce`, `CancelledMakesNothing`, `SubdivisionExact`, `EndsForGood` | Two runs of a job and any two kinds of fault |
| `jobs_liveness` | `AllRowsCreated` | A job that made one notification makes all of them, whichever task is lost |
| `jobs_no_rows` | `MissingRowsFound` | **violated**, finding 3 |
| `letters` | `LetterInv`, `PrintedIsRecorded`, `DespatchRecorded`, `CancelledForGood`, `RefusedForGood`, `LeavesStart` | One letter of any kind, two handlers, two faults of different kinds; with one fault at most no letter is left behind |
| `archive` | `ArchiveInv`, `FactsSettled`, `ArchivedHasNoPdf`, `ImplementsStore`, `RetentionHonoured` | Five nights over a text in any status, or a letter and a test letter, made on two days, one run failing or one deletion refused. The PDF goes with the row, but for a refused deletion, the bucket of the virus scan and a letter completed during the sweep; what is past its retention leaves the table |
| `platform` | `PlatformInv`, `RestsEventually` (providers), `LimitInv`, `NoLostUpdate` (records), `EndedSoonRefused` (access), `ArchivedWasOffered` (unsubscribes), `ReportIsComplete`, `CyclesNeedOverlap` (folders), `SendersStayRight`, `PasswordNotLost`, `TeamStaysRight` | Each part with two or three concurrent requests or tasks. The priorities come to their resting points also from outside their range; a report repeats no row and lacks only what `MayMiss` names |

`TextInv`, `EmailInv`, `JobInv`, `LetterInv`, `ArchiveInv`, `LimitInv`, `SendersStayRight`,
`FactsSettled`, `TeamStaysRight` and `PlatformInv` are conjunctions of named parts, each
with its own comment in its module (`AcceptedIsBilled`, `RowIsHonest`, `AllMeansAll`,
`NothingBeyondHuge`, `FileMatchesStatus`, `OneHome`, `ArchivedIsSettled`, `LimitHolds`,
`RowsAreCounted`, `StatusFactsSettled`, `BillingSettled`, `TeamStaysWhole`, `ManagerStays`,
`ApprovalJoins`, `DefaultSurvives`, `InboundIsHeld`, `HistoryIsComplete`, `StoredHasFile`,
`NoOrphans`, `RangeKept`, `HistoryFaithful`, `VersionsUnique`); so is `PrintedIsRecorded`
(`NothingForgotten`, `RowIsExact`).

Every property of a passing run has a mutant: a version of a definition with a
plausible bug (a guard dropped, a boundary moved, a write forgotten) under which TLC
finds that property violated.

### Findings

1. `sms_stale_send`. `update_notification_to_sending` tests a status read before the
   call to the provider (`app/delivery/send_to_providers.py:187`). A receipt processed
   before the commit is overwritten: `delivered` becomes `sending`, and times out three
   days later. Test `test_update_notification_to_sending_does_not_update_status_from_a_final_status`
   says it should not.
2. `sms_nodlr_give_up`. When `deliver_sms` runs out of retries for a number in a
   country that does not record delivery, `update_notification_status_by_id` returns
   early (`app/dao/notifications_dao.py:198`). The row stays `created` and is replayed
   every 15 minutes, although the exception says "Notification has been updated to
   technical-failure".
3. `jobs_no_rows`. `find_jobs_with_missing_rows` joins jobs with their notifications
   (`app/dao/jobs_dao.py:250`), so a finished job all of whose tasks were lost is in
   neither list, although the docstring promises both lists together are the finished jobs.

The models also have behaviours of the code that no document speaks about, and that
therefore have no run of their own. They are the exceptions that the properties name.

- A receipt between the SELECT and the UPDATE of the nightly timeout is overwritten. Two
  SES reports handled at once both pass the test on an unlocked read
  (`process_ses_receipts_tasks.py:72`), and the second replaces the first one's status.
  A `deliver_email` that gives up can overwrite a status written during its call.
- A complaint is stored once per retry; an email that two overlapping tasks both gave to
  SES may be reported to its service as `sending` only.
- A job cancelled because its service was archived is resumed if a second run of it was
  under way.
- A reduction whose alternative provider is switched off raises a KeyError and changes
  nothing, and with Spryng off the resting points leave every provider at weight 0.
- A letter cancelled while `deliver_letter` or the printer's callback is at work is
  `sending` or `delivered` in the end; a verdict of the virus scan overwrites
  `cancelled`. A worker that dies before it deletes the original of a precompiled letter
  leaves it to the second scan already queued, whose verdict overwrites the status of a
  letter that is printed by then.
- A letter that was printed can be `technical-failure` for good: when the update after the
  printer's acceptance raises inside the `try` of `deliver_letter`, when retries run out
  after a lost answer, or when a second `get_pdf_for_templated_letter` gives it up. The
  printer's callback leaves that status alone. When that second write fails as well, the
  letter stays `created`, for the next collation to send again.
- A receipt or callback between the selection of a row for archiving and its deletion is
  undone (`raced`). A billing row whose notifications have all become unbillable stays.
- `app/celery/reporting_tasks.py:97` says "Email + SMS statuses don't change after 3 days",
  because what is outstanding is timed out by then. The timeout takes only `sending` and
  `pending` (`app/dao/notifications_dao.py:531`), and a receipt is taken for a text that is
  `sent` or `created`, whatever its age (line 188): an international text may change after
  its status was counted for the last time (`late`), or be archived as `sent` before a
  receipt that is then dropped.
- The PDF of an archived letter stays where S3 refused to delete it, since the error is
  logged and the row goes all the same; so does a file in the bucket of the virus scan:
  `virus-scan-failed` is none of the statuses whose PDFs are deleted, and for the others
  the file is looked for elsewhere.
- The SET of a slow "first message of the day" wipes what others have counted since, and a
  process that dies or a Redis that does not answer after the commit leaves a row uncounted.
- A report misses what was made at the very moment of a full page's last row, and ends
  early, stored, when that row is gone before the next page is read. Two requests at once
  may both find no report going on.
- The admin app may give a provider a priority below 0 or above 100.
- A link clicked again after its request was processed makes a second row of one email,
  after which further clicks fail until the nightly archiving.
- Removing an inbound number that is the default sender leaves a service without one,
  and every later change of its senders raises; so do two overlapping requests that each
  set a default. Two overlapping moves can hang two folders under one another.
- Two overlapping removals leave a service without members; a removal or a change of
  permissions that overlaps an archiving may take its last manager. A change of
  permissions that overlaps the removal of its user leaves permissions behind, and adding
  that user again with one of them fails at the unique key; an approval then stays
  `approved` without a member, as it does when the process dies after it. A decision on a
  request to join is taken whatever was decided before.
- Two runs of the password change whose lock expired are safe; a lost answer of DVLA, or
  a worker that dies before it saves, needs the manual reset that the code announces.

### Bounds

- Retries: `MaxRetries` 0 or 1 for 48 (sms and email), 5 (save tasks), 15 and 55
  (letters); 1 for SES reports. The code treats all but the last retry alike, so one
  retry and one give-up are all the cases.
- Copies: two tasks per message, and in `email_serial` two reports per email. A third copy
  meets only states that two already produce. `sms_liveness` has one task slot and one
  retry: with two slots its state graph has 2.7 million states even without faults, too
  many for the liveness check. A lost task is replaced by the replay, not doubled. For
  jobs and letters, two workers and `MaxCopies` 2 of each message.
- `sms_serial` and `email_serial` look at one message of each kind at a time
  (`OneMessage`, `OneEmail`): messages share only the fault bound, the archived service
  and the timeout's batch, so two at once add products of states.
- `MaxFaults` 1 or 2: a recovery and a fault during it. `MaxRefs` 3 is more than
  the sends of a real email with one fault; `MaxPosts` 2 lets reports be repeated and
  contradict.
- Jobs have 2 or 3 rows with `MessageLimit` 1 or 2, so batches are halved to single
  rows, odd and even; `huge` is the middle row.
- Letters: one letter, since letters share no state but the queue; `MaxRescans` 2 is the
  code's own number. Two faults, each kind once; `LeavesStart` promises something with one
  only, since a second one may hit the only recovery. Handlers are alike, so the next
  free slot is taken.
- Archive: a text, or a letter and a test letter (`OneType`): the two types share the phases
  of the night and the bound on faults, and no rows. `MaxFaults` 1 is one run that fails or
  one deletion that S3 refuses. The periods keep the code's order (timeout 1, retention 1,
  texts' facts 2, letters' facts and billing 3 days for 3, 3, 4, 10 and 10); notifications
  are made on days 0 and 1 and the last day is 5, so that the longest period of each is
  over. `Limit` 2 makes both letters share a batch; `Restrict` and the selection work per
  row.
- Platform: priorities have a range of 5 and a step of 3, so the step
  overshoots both ends and the resting point of 4 (Spryng's, which rests at the top of its
  range in the code, where no step can overshoot), with `MaxEvents` 2 disturbances; the
  admin app sets −4 and 9, one below the range and one above. A limit of 2 meets a request
  and a job of 2 over one midnight, with counts lost until a counter lacks one (`MaxLost`). Records have two
  requests and 3 versions; access one process (processes share only Redis), two keys and
  memory caches of 2 ticks; unsubscribes one email, two clicks at once, 3 rows and 2
  reports; reports two deliveries over two notifications of two moments in pages of one, so that
  the last row of a full page may share its moment or be gone; folders three, so a cycle may be
  longer than the request that closes it; senders two, so each may be the default; the
  password three runs and 3 changes, so that a run outlives its lock twice; teams two
  users, one request to join and two requests at once, so each user may be the last member
  or the last manager, and one permission, since the code tells only `manage_settings`
  from the others.
- Runs that may rest (all messages settled, queues empty, bounded history used up) turn
  off the deadlock check.

### Fairness

- Workers drain the queues and the HTTP clients time out, so a started task goes on: weak
  fairness. Starting a text's or email's task and handling a receipt have strong
  fairness, since another handler may disable them for a while when handlers exclude
  each other; so have `deliver_letter` messages, because every collation adds one and
  none of them waits for ever.
- The beat schedule runs the replay, the timeout, `check_job_status`, the repair, the
  collation and the checks of letters again and again; the clock moves (`Age`, `Tick`).
  `TimeoutSelect` has strong fairness: the set it selects may be empty now and then.
- The antivirus and template preview apps answer (`LeavesStart`); that they may fail to
  is a fault. Their tasks have weak fairness together, and so have the scheduled tasks of
  letters: one letter has one of them to wait for.
- `Archive`: days pass, the schedule's tasks start and the sweeps go on: weak fairness of
  `NewDay`, `Night` and each `Sweep`. `Miss` and `SweepFails` are never required.
- Providers owe nothing: no receipt, no SES post, no callback of the printer and no
  fault is ever required.
- `jobs_liveness` admits lost runs, shatter tasks and save tasks. It leaves out a broker
  that refuses `process_job` and a beat process that dies between marking and queueing:
  nothing in the code recovers from those.
- `email_liveness` has no faults: a broker failure after the commit of a status loses
  the callback.
- `platform`: time passes, the schedule runs the move to the resting points, and a request
  of the admin app ends; its other properties are safety.

## 4. The proofs

| Theorem | Says |
|---|---|
| `SmsDelivery_proofs!TypeCorrect` | `Spec => []TypeOK` |
| `SmsDelivery_proofs!NoDuplicates` | `Spec => []NoDuplicateText` |
| `SmsDelivery_proofs!FinalStable` | `Spec => FinalStatusStable` |
| `SmsDelivery_proofs!DeliveryImplemented` | `~Overlap => (Spec => ImplementsDelivery)` |
| `SmsDelivery_proofs!HonestRows` | `Spec => []RowIsHonest` |
| `SmsDelivery_proofs!TextRight` | `Spec => []TextInv` |
| `EmailDelivery_proofs!TypeCorrect` | `Spec => []TypeOK` |
| `EmailDelivery_proofs!NoDuplicates` | `Spec => []NoDuplicateEmail` |
| `EmailDelivery_proofs!HandledStaysFinal` | `Spec => []HandledIsFinal` |
| `EmailDelivery_proofs!DeliveryImplemented` | `~Overlap => (Spec => ImplementsDelivery)` |
| `EmailDelivery_proofs!HonestRows` | `Spec => []RowIsHonest` |
| `EmailDelivery_proofs!EmailRight` | `Spec => []EmailInv` |
| `MessageDelivery!HonestAlways` | `Spec => []Honest` |
| `Jobs_proofs!DeliveredOnceAlways` | `Spec => []DeliveredOnce` |
| `Jobs_proofs!JobFactsHold` | `Spec => []JobInv` |
| `Jobs_proofs!CancelledStaysEmpty` | `Spec => []CancelledMakesNothing` |
| `Jobs_proofs!SubdivisionIsExact` | `Spec => []SubdivisionExact` |
| `Jobs_proofs!EndedStaysEnded` | `Spec => EndsForGood` |
| `Letters_proofs!RefusedStays` | `Spec => RefusedForGood` |
| `Letters_proofs!FileAgrees` | `Spec => []LetterInv` |
| `Letters_proofs!DespatchKept` | `Spec => []DespatchRecorded` |
| `Letters_proofs!CancelledStays` | `Spec => CancelledForGood` |
| `Letters_proofs!PrintedStaysRecorded` | `Spec => []PrintedIsRecorded` |
| `Archive_proofs!StoreImplemented` | `Spec => ImplementsStore` |
| `Archive_proofs!OneHomeHolds` | `Spec => []OneHome` |
| `Archive_proofs!ArchiveRight` | `Spec => []ArchiveInv` |
| `Archive_proofs!FactsEndRight` | `Spec => []FactsSettled` |
| `Archive_proofs!PdfsGone` | `Spec => []ArchivedHasNoPdf` |
| `Operations_proofs!TypeCorrect` | providers: `Spec => [](TypeOK /\ RangeKept)` |
| `Operations_proofs!HistoryCorrect` | providers: `Spec => [](HistoryFaithful /\ VersionsUnique)` |
| `Operations_proofs!PasswordKept` | `DvlaSpec => [](PasswordNotLost /\ DvlaTypeOK)` |
| `Operations_proofs!ReportsComplete` | `ReportSpec => [](ReportIsComplete /\ StoredHasFile /\ ReportTypeOK)` |
| `Operations_proofs!OfferedBeforeArchived` | `UnsubSpec => [](ArchivedWasOffered /\ UnsubTypeOK)` |
| `Operations_proofs!LimitKept` | `LimitSpec => [](LimitInv /\ LimitTypeOK)` |
| `Services_proofs!HistoryComplete` | `RecordSpec => [](HistoryIsComplete /\ RecordTypeOK)` |
| `Services_proofs!NothingLost` | `RecordSpec => NoLostUpdate` |
| `Services_proofs!EndedRefused` | `AccessSpec => [](EndedSoonRefused /\ AccessTypeOK)` |
| `Services_proofs!TeamKept` | `TeamSpec => TeamStaysRight /\ []TeamTypeOK` |
| `Services_proofs!SendersKept` | `SenderSpec => SendersStayRight /\ []SenderTypeOK` |
| `Services_proofs!FoldersKept` | `FolderSpec => []NoOrphans` |
| `Services_proofs!TreeKept` | `FolderSpec => CyclesNeedOverlap /\ []FolderTypeOK` |
| `Services_proofs!PlatformKept` | `PlatformSpec => []PlatformInv` |

So every safety property of a passing run is a theorem. They hold for all sets of messages,
tasks, providers, files, workers, requests, keys, folders and users, all periods, batch
sizes and bounds, under the assumptions the modules name, which the runs evaluate too:

- subsets are subsets, bounds are natural numbers, a marker such as `Root` or `NoKey` is
  none of the values it stands beside (`SetsAssumption`, `BoundsAssumption`,
  `EmailAssumption`, `LettersAssumption`, `RecordAssumption`, `DvlaAssumption`,
  `UnsubAssumption`, `TeamAssumption`, `FolderAssumption`);
- `ProvidersAssumption`: the resting points lie in range, no provider is its own
  alternative, and the admin app sets integers, in range or not;
- `JobsAssumption`: batches and the limit of a message are at least one row, and a row that
  is too large is a row of its file;
- `ReportAssumption`: a page has at least one notification; `AccessAssumption`: caches live
  for at least one tick;
- `SenderAssumption`, `LimitAssumption`: senders and requests in flight are finitely many,
  and a job has at least one row;
- `ArchiveAssumption`: notifications are finitely many, and the periods come in the order
  of the code's: the timeout (3 days) is not longer than the shortest retention (3), and
  shorter than the 4 days for which texts' statuses and the 10 for which bills are
  aggregated, and letters' statuses (10 days) are aggregated no longer than their bills.
  `Archive` also assumes that the printer's callbacks come while their letter's day is
  still aggregated.

**No duplicate text, stable final status.** Neither is inductive. `SerialInv` adds, per
message: one task runs (`OneRunner`); a task between its read of `created` and its commit
finds the row still `created` (`SentFromCreated`) and out of the timeout's hands
(`RunnerNotSwept`, `SweptInFlight`); a message whose request is not over has no task
(`Untouched`); and, while the row is `created` and no acceptance waits for its commit,
each send is a lost acceptance (`Budget`). `Budget` is the heart: a second send needs
`created`, and once a send was accepted only a lost acceptance leaves `created` behind.

**A text is billed, and told of once.** That it is billed needs no order of handlers:
`BilledInv` says that nothing of a message moves before its request is over (`Early`), and
that units are saved, or with the task that has the answer, or the answer was lost
(`Paid`). `TellInv` rests on `SerialInv`: a receipt in a worker is alone with the message
(`HandledAlone`), the timeout tells of rows no one told of (`SweptUntold`), and once the
service heard, it heard one final status, of a row no receipt can change any more
(`HeardFinal`). The service is told a step after the row is
written, by a receipt or by the timeout, and neither begins with a row the other wrote.

**Emails.** `SerialInv` as for the texts, and `RefInv`: the reference of an accepted send is
one that neither the row, nor a report handled, nor another task has (`FreshRef`), a
report speaks of a reference that was given out (`ReportRef`), and if the report of the
row's own reference was handled the row is final. The last is `HandledIsFinal` and needs
no `~Overlap`: a task that commits later brings a new reference with it.

**Texts and emails implement `MessageDelivery`.** The abstract `GiveUp` asks that no
provider is known to have the message, and `Record` that one is; neither `SerialInv` nor
`TellInv` says so. `CountedInv` adds, per message, that lost acceptances are some of the
sends and, while an accepted one waits for its commit, not all; that a task at a provider
is of a live message; that a task which failed did so with the row at `created`, so that it
gives up nothing else; and, for texts, that a receipt is of something sent. With it each
action is one step of `MessageDelivery`: the provider's answer is `HandOver` (that it is not
a second copy is `Budget`), its timeout or
the crash after it `LoseAnswer`, the commit `Record` (a task of an archived service
`Refuse`), the last retry `GiveUp`, a receipt or report `Report` when it writes and `Tell`
when it queues the callback, a crash in between `Forget`, the two halves of the timeout
`TimeOut` and, message by message, `Tell`. The rest are stutters. The proofs first say which
of status, copies and `due` an action leaves alone (one lemma each), so that each step of the
refinement is about what it changes. `HonestRows` then needs no invariant of its own: it is
`MessageDelivery!HonestAlways` under the mapping.

**The platform.** A step of the composed specification is a step of one part and a stutter of
the nine others (`PartsStep`), so each behaviour of it is one of every part (`PartsRun`),
and `PlatformKept` collects what was proved of them. Typing them all took three more
facts: a history has only rows (`HistoryTyped`), a cached password was once accepted
(`CacheStep`), and a folder that was deleted does not come back (`MovesRight`).

**A row is delivered once.** `DeliveryInv` types the save tasks (`SavesTyped`) and says
(`OneTaskDelivers`) that a row has one notification at most, that a task between its
INSERT and its queueing made that notification and nothing was delivered yet, and that
nothing is delivered without the notification. It rests on the unique constraint alone:
how many runs, copies and repairs there are does not matter, which is why no part of the
invariant speaks of workers.

**The rest of a job.** `JobRight` adds that every notification is of a row that fits its
message (`RowsFit`), that a run stops at the first that does not (`RunsStop`), and that all
rows have one when the job says so (`AllMeansAll`). Unless runs overlap (`OneRun`), a job is
in one place: posted, in a run, or done (`OnePlace`), and before the run nothing is made.
`CancelledMakesNothing` and `EndsForGood` follow. That `Subdivide` is right for every range
of rows would be an induction; `SubdivisionIsExact` takes the length of a shortest range it
is wrong for instead (a set of numbers that is not empty has a least member) and shows
that its halves, which are shorter, are then not right either.

**Faithful and complete histories, no lost update.** Both `HistoryInv` (providers) and
`RecordInv` (services, templates, keys) say that versions are contiguous and that a
request which saw the current version saw the current row (`SawRow`). Then a request
that read an old row would write a version that exists, and the history's key refuses
it. `RecordInv` also bounds the edits of a row by its version, which types them.

**Ended keys are refused.** `AccessRight` bounds how long a key that a process still holds
may have been of no use: by the age of the copy for keys fetched on their own, and by that
age and one more lifetime for those attached to a cached service, which may have been
attached from an old copy (`HeldRight`). Copies die at the age of `Ttl`.

**Teams, senders, folders.** The invariants say what a request that overlaps no other
commit still finds as it read it (`StillHolds`, `EditHolds`, `MoveHolds`): the checks the
code made at the start hold at the commit. `FoldersKept` needs no such condition, only the
foreign keys. For `TreeKept` the heart is that a validated move still has its target
outside the folder it moves (`MoveHolds`), since other requests, unless they moved a folder,
added and removed nothing above an existing folder: new folders are leaves, and deleted
ones were empty (`CreatesNew`).

**Reports are complete.** `ReportRight`: while a run pages down (`Paging`), its file has only
notifications made at the moment of its last row or after it, and everything due that the
file lacks is older than the last row or shares its moment with an end of a full page
(`TakenDownTo`). The next page is strictly older, so it repeats nothing; it leaves out
what is older than its own last row, and, if it is full, what shares that row's moment. A
page that is empty because the last row is gone ends the file there, one that is empty for
want of older rows ends it with nothing due below (`Finished`). Neither a second run of the
same request nor a row that leaves makes any other hole, or a double.

**Priorities stay in range.** `RangeInv` adds to `RangeKept` that each request of the admin
app under way holds a priority in range or one that it chose itself, or has read one that
was out of range already (`RequestKept`). Adjustments are clipped to the range or start from
a priority out of it, and `SetBeyond` stays true, since the history only grows
(`HistoryGrows`).

**Offered before archived.** `UnsubRight`: a row in the history, or selected by the archiving
of unsubscribe requests, was in front of its service for the days the task waits
(`Offered`), and a row's report was made before the row refers to it (`RefersToMade`), so
the date that the task compares exists and does not change.

**The daily limit.** `LimitHeld` counts what every request in flight holds: letters it is
about to take from the counter, rows it may still save, the row it has saved and not
counted. Three inequalities hold of today (`NowRight`): rows and letters to be taken are
within the counter, the rows being counted and the counts lost; the same with the rows that
may still be saved on one side and all claims on the other; and rows made or to be made
are within the room, which is the limit and what the other requests claim. A SET replaces
the third by the second, and a request that is accepted claims nothing before. What is left
of past days is `PastRight`; a limit below every request lets nothing in (`NothingIn`). The
sums over requests are cardinalities of sets of pairs, so that no fold needs an
induction (`SumAt`, `SumLimit`).

**The password is kept.** `PasswordInv` orders the passwords: while a new one waits to be
saved, the parameter store is behind DVLA (`Behind`), and a run about to change the
password read the store, now or earlier (`PostsAreOld`). So another run that posts has
an old password and is refused, whether or not the lock still holds: the lock is not
what keeps the password safe.

**The two tables implement one store.** `StoreInv` says that the rows a sweep has selected
are live, none is a test notification, and only those written to since then differ from
what was selected (`RowsLive`); that test notifications are never in the history; and
that no sweep is left when the night begins, so that the timeout does not touch selected
rows. Each action then maps to a step of the store: a writer to `Change`, the timeout to
`TimeOut`, the commit of a batch to `Archive`, the deletion of test rows to `Purge`, and
all the others to a stutter.

**The nights end right.** `NightInv` ties the tables to the calendar. A text that is `sending`
or `pending` is so for `TimeoutDays` and until the next timeout, unless it was written to
after that (`late`), so nothing else selected for the archive is on its way (`OnTheirWay`,
`SelectedOld`). A text in any status is counted from the night after its day, hence before
it can be archived, and, unless it is late, under its last status when its day is aggregated
for the last time (`FactRight`); the billable notifications of a day do not change after
its last billing, unless a text of the same group was late (`BillRight`); and the PDFs of
the letters that can be selected are gone before the rows are, but for those in `scan`,
`kept` or `raced` (`PdfRight`), which is so because a letter that can be selected is in a
status whose PDFs are deleted or failed the virus scan (`LetterRight`). This is where the
order of the periods in `ArchiveAssumption` is used. `FactsSettled` excuses any failed run,
`ArchivedIsSettled` only one of the timeout, and `ArchivedHasNoPdf` none, only batches too
small and the letters just named.

**A refused letter stays refused.** `RefusalInv` says nothing of the letter once handlers
overlapped or a worker died. Until then the one handler at work read what still is so
(`HandlersOk`); only templated letters have messages of template preview, and only those
that are too long the message that says so (`QueueOk`); a letter with a file that may be
scanned was not printed, and the scanned file lies beside the printed one only while
`process_sanitised_letter` is about to delete it (`FilesOk`); and a refused letter is not
at the printer (`PrinterOk`). So neither a late scan, nor a late collation, nor a callback
that comes twice finds what it would need to take the letter up.

**Letters: file, despatch, cancellation, record.** `PlaceInv` adds to the above where the file
of each kind of letter is for each status (`PlacesOk`); `AnswerInv` that callbacks are about
letters the printer took (`CallbackOk`), which is enough for `DespatchRecorded` whatever
else is lost or doubled. `OrderInv` holds until an answer is lost, a task is played twice or
the database refuses the update after the printer's acceptance: one task at a time makes
the PDF (`ChainOk`), and a letter that failed, was refused or cancelled is not at the
printer (`PrintOk`). `PrintedIsRecorded` has two halves. `RowIsExact` follows from
`RecordInv`, which adds, until a message is lost, that the row says what the printer did or
the callback is on its way (`RecordOk`). `NothingForgotten` survives lost answers, repeated
tasks and that refused update: `FollowInv` says that a letter the printer has and whose row
is `created` has a `deliver_letter` outstanding, unless its update failed, and that
what the printer reported is in the row, or given up, or in a callback outstanding.

Only model-checked are the liveness properties (`EventuallySettled`, `EventuallyTold`,
`ComplaintHeard`, `AllRowsCreated`, `LeavesStart`, `RetentionHonoured`, `RestsEventually`):
fairness and ENABLED are beyond the prover. `MessageDelivery` promises safety only, so the
refinement says nothing of them either.

## 5. Plan

1. `provider_to_use` with its cache and the detection of slow delivery, joined to
   `ProviderPriority`.
2. The deletion of inbound texts, job files and old rows, which works in batches as
   `Archive` does.

## 6. Not modelled

- **Service callbacks** (`service_callback_tasks.py`): a task posts and retries, and reads
  nothing others write meanwhile. Whether and how often it is queued is in the delivery
  modules.
- **MessageBox responses**: one task that updates a row by its reference.
- **Receipt of inbound texts**: one INSERT and one queued callback.
- **Invitations, verify codes, logins, a member's folders; organisations and branding**:
  create, read and update of single rows; expiry is a comparison with the clock.
- **Statistics, performance and status endpoints, and the queries of
  `fact_billing_dao` that add up usage**: read-only.
- **`app/schemas.py`, `app/config.py`, `app/commands.py`, the fixtures of the functional
  tests, migrations**: declarations, settings and one-off scripts. What the models need
  of the settings is in their constants.
- Within modelled components: the cryptography of tokens, the rate limit per minute (one
  Redis script of a library), the despatch facts of letters, `resanitise_pdf` and the
  checks that only raise an alert.

These make up most of the lines of the repository: declarations of columns, SQL, request
parsing and serialisation without steps that interleave. The model has the part that
changes state over more than one step.
