-------------------------------- MODULE Jobs --------------------------------
(***************************************************************************)
(* One CSV job: from the request that creates it, through process_job and  *)
(* the shatter tasks, to one notification per row, with everything that    *)
(* watches over it: check_job_status, process_incomplete_jobs and          *)
(* check_for_missing_rows_in_completed_jobs.                               *)
(*                                                                         *)
(* Rows are numbered from 0.  A batch of consecutive rows is <<lo, hi>>.   *)
(* A save task is known by its row and a number that stands for the        *)
(* notification id it carries.                                             *)
(***************************************************************************)
EXTENDS Naturals, Sequences, FiniteSets, FiniteSetsExt

CONSTANTS
  Files,         \* CSV files that may be uploaded, with the template they are for
  MaxSize,       \* rows of the longest of them
  BatchSize,     \* rows of a shatter task (DEFAULT_SHATTER_JOB_ROWS_BATCH_SIZE)
  MessageLimit,  \* rows that fit in an SQS message
  Workers,       \* slots for process_job and process_incomplete_job
  MaxCopies,     \* bound on the ids in use for one row
  MaxRetries,    \* max_retries of save_sms, save_email and save_letter (5)
  MaxFaults,     \* bound on faults
  FaultKinds     \* which faults happen: see the actions that name one

Copies == 1..MaxCopies
Ids == (0..(MaxSize - 1)) \X Copies

\* huge: rows that fit in no message, even alone.  invalid: rows whose phone
\* number is not valid.  restricted: rows a trial service may not send to.
File == [size : 1..MaxSize, letter : BOOLEAN, huge : SUBSET (0..(MaxSize - 1)),
         invalid : SUBSET (0..(MaxSize - 1)),
         restricted : SUBSET (0..(MaxSize - 1))]
NoFile == [size |-> 0, letter |-> FALSE, huge |-> {}, invalid |-> {},
           restricted |-> {}]

\* A row that fits in no message is a row of its file.
ASSUME JobsAssumption ==
  /\ Files \subseteq File
  /\ \A f \in Files : f.huge \subseteq 0..(f.size - 1)
  /\ {MaxSize, BatchSize, MessageLimit, MaxCopies} \subseteq Nat \ {0}
  /\ {MaxRetries, MaxFaults} \subseteq Nat

VARIABLES
  file,        \* the file in S3, with jobs.notification_count and the template
  status,      \* jobs.job_status
  scheduled,   \* jobs.scheduled_for is set
  overdue,     \* processing_started (or, if pending, scheduled_for) is between
               \* 30 and 35 minutes ago
  settled,     \* processing_finished is between 20 minutes and a day ago
  active,      \* is the service active?
  jobMsgs,     \* process_job messages queued
  resumeMsgs,  \* process_incomplete_jobs messages queued
  checking,    \* check_job_status has marked the job and not queued it yet
  worker,      \* runs of process_job and process_incomplete_job
  batches,     \* shatter_job_rows messages queued
  save,        \* save tasks, by row and id
  created,     \* notifications of the job: <<row, id>>
  delivers,    \* tasks queued to deliver a row (or to make its letter's PDF)
  faults       \* faults that have happened

vars == <<file, status, scheduled, overdue, settled, active, jobMsgs, resumeMsgs,
          checking, worker, batches, save, created, delivers, faults>>

Rows == 0..(file.size - 1)

Statuses == {"none", "scheduled", "pending", "in progress", "cancelled",
             "sending limits exceeded", "error", "finished",
             "finished all notifications created"}
\* read: process_job saw `pending'.  started: `in progress' is committed.
\* resuming: the same, in process_incomplete_jobs.  shattering: queueing batches.
WorkerPCs == {"idle", "read", "started", "resuming", "shattering"}
SavePCs == {"none", "queued", "saved"}

IdleWorker == [pc |-> "idle", from |-> 0]
NoSave == [pc |-> "none", tries |-> 0]

Init ==
  /\ file = NoFile /\ status = "none" /\ scheduled = FALSE
  /\ overdue = FALSE /\ settled = FALSE /\ active = TRUE
  /\ jobMsgs = 0 /\ resumeMsgs = 0 /\ checking = FALSE
  /\ worker = [w \in Workers |-> IdleWorker]
  /\ batches = {}
  /\ save = [i \in Ids |-> NoSave]
  /\ created = {}
  /\ delivers = [r \in 0..(MaxSize - 1) |-> 0]
  /\ faults = {}

Fault(kind) ==
  /\ kind \in FaultKinds \ faults /\ Cardinality(faults) < MaxFaults
  /\ faults' = faults \cup {kind}

Messages == <<jobMsgs, resumeMsgs>>
Notifying == <<batches, save, created, delivers>>
Clock == <<overdue, settled>>

-----------------------------------------------------------------------------
(* Requests: create_job, cancel_job.                                       *)

\* An inactive service, and a letter job of a trial service, are refused.
Upload(f) ==
  /\ status = "none" /\ active
  /\ f.letter => f.restricted = {}
  /\ file' = f

CreateJob(f) ==
  /\ Upload(f)
  /\ \/ /\ status' = "scheduled" /\ scheduled' = TRUE
        /\ UNCHANGED jobMsgs
     \/ /\ status' = "pending" /\ jobMsgs' = 1
        /\ UNCHANGED scheduled
  /\ UNCHANGED <<Clock, active, resumeMsgs, checking, worker, Notifying, faults>>

\* The job is committed as `pending' and the broker refuses the task.
CreateJobFails(f) ==
  /\ Upload(f) /\ Fault("broker")
  /\ status' = "pending"
  /\ UNCHANGED <<scheduled, Clock, active, Messages, checking, worker,
                 Notifying>>

\* Mutant: the job's status is not part of the query.
CancelAnyJob ==
  /\ status # "none"
  /\ status' = "cancelled"
  /\ UNCHANGED <<file, scheduled, Clock, active, Messages, checking, worker,
                 Notifying, faults>>

\* One transaction under the row's lock, only for a scheduled job.
CancelJob ==
  /\ status = "scheduled"
  /\ status' = "cancelled"
  /\ UNCHANGED <<file, scheduled, Clock, active, Messages, checking, worker,
                 Notifying, faults>>

\* cancel_letter_job, where can_letter_job_be_cancelled agrees: a letter job with
\* all its notifications, none of them printed yet.
CancelLetterJob ==
  /\ file.letter /\ status = "finished all notifications created"
  /\ status' = "cancelled"
  /\ UNCHANGED <<file, scheduled, Clock, active, Messages, checking, worker,
                 Notifying, faults>>

ArchiveService ==
  /\ active
  /\ active' = FALSE
  /\ UNCHANGED <<file, status, scheduled, Clock, Messages, checking, worker,
                 Notifying, faults>>

\* run_scheduled_jobs: the status is committed under the lock, then the task is
\* queued, or the worker dies in between.
RunScheduledJob ==
  /\ status = "scheduled"
  /\ status' = "pending"
  /\ overdue' = FALSE
  /\ \/ jobMsgs' = jobMsgs + 1 /\ UNCHANGED faults
     \/ Fault("beat") /\ UNCHANGED jobMsgs
  /\ UNCHANGED <<file, scheduled, settled, active, resumeMsgs, checking, worker,
                 Notifying>>

-----------------------------------------------------------------------------
(* process_job, process_incomplete_jobs.                                   *)

SetWorker(w, pc, from) ==
  worker' = [worker EXCEPT ![w] = [pc |-> pc, from |-> from]]

\* The status is read; a job that is not pending is left alone.
ProcessJob(w) ==
  /\ jobMsgs > 0 /\ worker[w].pc = "idle"
  /\ jobMsgs' = jobMsgs - 1
  /\ SetWorker(w, IF status = "pending" THEN "read" ELSE "idle", 0)
  /\ UNCHANGED <<file, status, scheduled, Clock, active, resumeMsgs, checking,
                 Notifying, faults>>

StartJob(w) ==
  /\ worker[w].pc = "read"
  /\ status' = "in progress" /\ overdue' = FALSE
  /\ SetWorker(w, "started", 0)
  /\ UNCHANGED <<file, scheduled, settled, active, Messages, checking, Notifying,
                 faults>>

\* Inactive service: cancelled.  Over its daily limit: refused.  Otherwise the
\* rows are read from S3.
CheckJob(w) ==
  /\ worker[w].pc = "started"
  /\ \/ ~active /\ status' = "cancelled" /\ SetWorker(w, "idle", 0)
     \/ /\ active
        /\ status' = "sending limits exceeded" /\ SetWorker(w, "idle", 0)
     \/ active /\ UNCHANGED status /\ SetWorker(w, "shattering", 0)
  /\ UNCHANGED <<file, scheduled, Clock, active, Messages, checking, Notifying,
                 faults>>

\* process_incomplete_jobs: the status is overwritten.
StartResume(w) ==
  /\ resumeMsgs > 0 /\ worker[w].pc = "idle"
  /\ resumeMsgs' = resumeMsgs - 1
  /\ status' = "in progress" /\ overdue' = FALSE
  /\ SetWorker(w, "resuming", 0)
  /\ UNCHANGED <<file, scheduled, settled, active, jobMsgs, checking, Notifying,
                 faults>>

CreatedRows == {i[1] : i \in created}

\* The row after dao_get_last_notification_added_for_job_id.
ResumeFrom == IF created = {} THEN 0 ELSE Max(CreatedRows) + 1

ResumeJob(w) ==
  /\ worker[w].pc = "resuming"
  /\ SetWorker(w, "shattering", ResumeFrom)
  /\ UNCHANGED <<file, status, scheduled, Clock, active, Messages, checking,
                 Notifying, faults>>

\* Mutant: the second half starts one row late.
SubdivideGap ==
  LET f[b \in Rows \X Rows] ==
        LET half == (b[2] + 1 - b[1]) \div 2
            left == f[<<b[1], b[1] + half - 1>>]
            right == IF b[1] + half + 1 > b[2]
                     THEN [parts |-> {}, whole |-> TRUE]
                     ELSE f[<<b[1] + half + 1, b[2]>>]
        IN IF (b[1]..b[2]) \cap file.huge = {} /\ b[2] + 1 - b[1] <= MessageLimit
           THEN [parts |-> {b}, whole |-> TRUE]
           ELSE IF b[1] = b[2] THEN [parts |-> {}, whole |-> FALSE]
           ELSE IF left.whole
                THEN [parts |-> left.parts \cup right.parts, whole |-> right.whole]
                ELSE left
  IN f

\* _shatter_job_rows_with_subdivision: what is queued for the rows b[1]..b[2].  A
\* message that is too long is tried again in halves; a single row that is too
\* long raises UnprocessableJobRow, and what follows it is not queued.
Subdivide ==
  LET f[b \in Rows \X Rows] ==
        LET half == (b[2] + 1 - b[1]) \div 2
            left == f[<<b[1], b[1] + half - 1>>]
            right == f[<<b[1] + half, b[2]>>]
        IN IF (b[1]..b[2]) \cap file.huge = {} /\ b[2] + 1 - b[1] <= MessageLimit
           THEN [parts |-> {b}, whole |-> TRUE]
           ELSE IF b[1] = b[2] THEN [parts |-> {}, whole |-> FALSE]
           ELSE IF left.whole
                THEN [parts |-> left.parts \cup right.parts, whole |-> right.whole]
                ELSE left
  IN f

\* One round of the loop over batched(rows, n).
QueueBatch(w) ==
  LET lo == worker[w].from
      hi == Min({lo + BatchSize, file.size}) - 1
      sub == Subdivide[<<lo, hi>>]
  IN /\ worker[w].pc = "shattering" /\ lo < file.size
     /\ batches' = batches \cup sub.parts
     /\ IF sub.whole THEN SetWorker(w, "shattering", hi + 1)
        ELSE SetWorker(w, "idle", 0)
     /\ UNCHANGED <<file, status, scheduled, Clock, active, Messages, checking, save,
                    created, delivers, faults>>

\* job_complete.
CompleteJob(w) ==
  /\ worker[w].pc = "shattering" /\ worker[w].from >= file.size
  /\ status' = "finished" /\ settled' = FALSE
  /\ SetWorker(w, "idle", 0)
  /\ UNCHANGED <<file, scheduled, overdue, active, Messages, checking, Notifying,
                 faults>>

CrashWorker(w) ==
  /\ worker[w].pc # "idle" /\ Fault("worker")
  /\ SetWorker(w, "idle", 0)
  /\ UNCHANGED <<file, status, scheduled, Clock, active, Messages, checking,
                 Notifying>>

\* SQS delivers at least once.
RedeliverJob ==
  /\ Fault("redelivery")
  /\ \/ jobMsgs = 1 /\ jobMsgs' = 2 /\ UNCHANGED resumeMsgs
     \/ resumeMsgs = 1 /\ resumeMsgs' = 2 /\ UNCHANGED jobMsgs
  /\ UNCHANGED <<file, status, scheduled, Clock, active, checking, worker, Notifying>>

Work(w) == \/ StartJob(w) \/ CheckJob(w) \/ ResumeJob(w) \/ QueueBatch(w)
           \/ CompleteJob(w)

-----------------------------------------------------------------------------
(* shatter_job_rows, save_sms, save_email, save_letter.                    *)

FreeIds(r) == {c \in Copies : save[<<r, c>>].pc = "none" /\ <<r, c>> \notin created}

\* get_id_task_args_kwargs_for_job_row and process_job_row: each row of R gets a
\* save task with a new id.
SaveRows(R) ==
  /\ \A r \in R : FreeIds(r) # {}
  /\ save' = [i \in Ids |-> IF i[1] \in R /\ i[2] = Min(FreeIds(i[1]))
                            THEN [pc |-> "queued", tries |-> 0] ELSE save[i]]

\* All the rows of the batch, or only the first ones if the worker dies.
Shatter(b) ==
  /\ b \in batches /\ SaveRows(b[1]..b[2])
  /\ batches' = batches \ {b}
  /\ UNCHANGED <<file, status, scheduled, Clock, active, Messages, checking, worker,
                 created, delivers, faults>>

ShatterCrash(b) ==
  /\ b \in batches /\ Fault("shatter")
  /\ \E last \in b[1]..b[2] : SaveRows(b[1]..(last - 1))
  /\ batches' = batches \ {b}
  /\ UNCHANGED <<file, status, scheduled, Clock, active, Messages, checking, worker,
                 created, delivers>>

SetSave(i, new) == save' = [save EXCEPT ![i] = new]

\* A recipient the service may not send to: the task ends.
SaveRestricted(i) ==
  /\ save[i].pc = "queued" /\ i[1] \in file.restricted
  /\ SetSave(i, NoSave)
  /\ UNCHANGED <<file, status, scheduled, Clock, active, Messages, checking, worker,
                 batches, created, delivers, faults>>

\* Mutant: job and row number are not unique.
NoClash(i) == i \notin created

\* The INSERT violates neither the primary key nor uq(job_id, job_row_number).
Insertable(i) == i[1] \notin CreatedRows

\* persist_notification commits the row.
SaveRow(i) ==
  /\ save[i].pc = "queued" /\ i[1] \notin file.restricted /\ Insertable(i)
  /\ created' = created \cup {i}
  /\ SetSave(i, [save[i] EXCEPT !.pc = "saved"])
  /\ UNCHANGED <<file, status, scheduled, Clock, active, Messages, checking, worker,
                 batches, delivers, faults>>

\* handle_exception: a task that finds its own id was delivered twice and
\* stops; any other is retried, then dropped.
HandleException(i) ==
  IF i \in created \/ save[i].tries = MaxRetries THEN SetSave(i, NoSave)
  ELSE SetSave(i, [save[i] EXCEPT !.tries = @ + 1])

\* The INSERT is refused, or the database fails.
SaveFails(i) ==
  /\ save[i].pc = "queued" /\ i[1] \notin file.restricted
  /\ IF Insertable(i) THEN Fault("database") ELSE UNCHANGED faults
  /\ HandleException(i)
  /\ UNCHANGED <<file, status, scheduled, Clock, active, Messages, checking, worker,
                 batches, created, delivers>>

\* Then the task that delivers it is queued, unless the number is invalid.
QueueDelivery(i) ==
  /\ save[i].pc = "saved"
  /\ delivers' = [delivers EXCEPT ![i[1]] = @ + (IF i[1] \in file.invalid THEN 0 ELSE 1)]
  /\ SetSave(i, NoSave)
  /\ UNCHANGED <<file, status, scheduled, Clock, active, Messages, checking, worker,
                 batches, created, faults>>

CrashSave(i) ==
  /\ save[i].pc # "none" /\ Fault("save")
  /\ SetSave(i, NoSave)
  /\ UNCHANGED <<file, status, scheduled, Clock, active, Messages, checking, worker,
                 batches, created, delivers>>

\* SQS plays the message of a task that has run.
RedeliverSave(i) ==
  /\ save[i].pc = "none" /\ i \in created /\ Fault("redelivery")
  /\ SetSave(i, [pc |-> "queued", tries |-> 0])
  /\ UNCHANGED <<file, status, scheduled, Clock, active, Messages, checking, worker,
                 batches, created, delivers>>

Save(i) == SaveRestricted(i) \/ SaveRow(i) \/ SaveFails(i) \/ QueueDelivery(i)

-----------------------------------------------------------------------------
(* Scheduled checks.  They run every minute and every ten minutes, so that *)
(* a job does not leave the five minutes of the first or the day of the    *)
(* second unseen.  A run that lasts half an hour is a fault, "slow".       *)

Busy == jobMsgs + resumeMsgs > 0 \/ \E w \in Workers : worker[w].pc # "idle"

Tick ==
  \/ /\ ~overdue
     /\ status = "in progress" \/ (status = "pending" /\ scheduled)
     /\ IF Busy THEN Fault("slow") ELSE UNCHANGED faults
     /\ overdue' = TRUE
     /\ UNCHANGED <<file, status, scheduled, settled, active, Messages, checking,
                    worker, Notifying>>
  \/ /\ ~settled /\ status = "finished"
     /\ settled' = TRUE
     /\ UNCHANGED <<file, status, scheduled, overdue, active, Messages, checking,
                    worker, Notifying, faults>>

\* check_job_status commits `error' ...
CheckJobStatus ==
  /\ overdue /\ ~checking
  /\ status = "in progress" \/ (status = "pending" /\ scheduled)
  /\ status' = "error"
  /\ checking' = TRUE
  /\ UNCHANGED <<file, scheduled, Clock, active, Messages, worker, Notifying, faults>>

\* ... and then queues process_incomplete_jobs.
QueueResume ==
  /\ checking
  /\ checking' = FALSE
  /\ \/ resumeMsgs' = resumeMsgs + 1 /\ UNCHANGED faults
     \/ Fault("beat") /\ UNCHANGED resumeMsgs
  /\ UNCHANGED <<file, status, scheduled, Clock, active, jobMsgs, worker, Notifying>>

\* find_jobs_with_missing_rows: an inner join with the notifications, so that a
\* job without any is in neither list.
HasRows == created # {}

\* Mutant: off by one.
HasAlmostAllRows == HasRows /\ Cardinality(created) >= file.size - 1

\* func.count(Notification.id) == Job.notification_count
HasAllRows == HasRows /\ Cardinality(created) = file.size

\* check_for_missing_rows_in_completed_jobs.
MarkAllCreated ==
  /\ status = "finished" /\ settled /\ HasAllRows
  /\ status' = "finished all notifications created"
  /\ UNCHANGED <<file, scheduled, Clock, active, Messages, checking, worker,
                 Notifying, faults>>

\* Mutant: the last row is not looked for.
QueueMissingButLast ==
  /\ status = "finished" /\ settled /\ HasRows /\ ~HasAllRows
  /\ SaveRows((Rows \ {file.size - 1}) \ CreatedRows)
  /\ UNCHANGED <<file, status, scheduled, Clock, active, Messages, checking, worker,
                 batches, created, delivers, faults>>

QueueMissingRows ==
  /\ status = "finished" /\ settled /\ HasRows /\ ~HasAllRows
  /\ SaveRows(Rows \ CreatedRows)
  /\ UNCHANGED <<file, status, scheduled, Clock, active, Messages, checking, worker,
                 batches, created, delivers, faults>>

-----------------------------------------------------------------------------
Next ==
  \/ \E f \in Files : CreateJob(f) \/ CreateJobFails(f)
  \/ CancelJob \/ CancelLetterJob \/ ArchiveService
  \/ RunScheduledJob \/ RedeliverJob
  \/ \E w \in Workers :
       ProcessJob(w) \/ StartResume(w) \/ Work(w) \/ CrashWorker(w)
  \/ \E b \in batches : Shatter(b) \/ ShatterCrash(b)
  \/ \E i \in Ids : Save(i) \/ CrashSave(i) \/ RedeliverSave(i)
  \/ Tick \/ CheckJobStatus \/ QueueResume \/ MarkAllCreated \/ QueueMissingRows

Spec == Init /\ [][Next]_vars

\* Queues are drained and the beat schedule keeps running; requests and faults
\* are not required to happen.
Fairness ==
  /\ WF_vars(RunScheduledJob) /\ WF_vars(Tick) /\ WF_vars(CheckJobStatus)
  /\ WF_vars(QueueResume) /\ WF_vars(MarkAllCreated) /\ WF_vars(QueueMissingRows)
  /\ WF_vars(\E w \in Workers : ProcessJob(w))
  /\ WF_vars(\E w \in Workers : StartResume(w))
  /\ \A w \in Workers : WF_vars(Work(w))
  /\ \A lo, hi \in 0..(MaxSize - 1) : WF_vars(Shatter(<<lo, hi>>))
  /\ \A i \in Ids : WF_vars(Save(i))

FairSpec == Spec /\ Fairness

-----------------------------------------------------------------------------
(* Properties.                                                             *)

\* Every variable keeps its type.
TypeOK ==
  /\ file \in Files \cup {NoFile} /\ status \in Statuses
  /\ {scheduled, overdue, settled, active, checking} \subseteq BOOLEAN
  /\ jobMsgs \in Nat /\ resumeMsgs \in Nat
  /\ worker \in [Workers -> [pc : WorkerPCs, from : 0..MaxSize]]
  /\ batches \subseteq Rows \X Rows
  /\ save \in [Ids -> [pc : SavePCs, tries : 0..MaxRetries]]
  /\ created \subseteq Ids
  /\ delivers \in [0..(MaxSize - 1) -> Nat]
  /\ faults \subseteq FaultKinds

\* However often process_job runs, is resumed, redelivered or repaired, the save
\* tasks queue a row for delivery once at most.
DeliveredOnce == \A r \in 0..(MaxSize - 1) : delivers[r] <= 1

\* `finished all notifications created' is true: every row has its notification
\* (check_for_missing_rows_in_completed_jobs only counts them).
AllMeansAll ==
  status = "finished all notifications created" => CreatedRows = Rows

\* No message was delivered twice and no run took half an hour.
OneRunAtATime == faults \cap {"redelivery", "slow"} = {}

\* Unless runs overlap, a cancelled job made nothing and never will: cancel_job's
\* lock keeps it from run_scheduled_jobs, and process_job looks at the service
\* before the first row.  Only a letter job is cancelled after it made its
\* notifications, and then it has all of them.
CancelledMakesNothing ==
  OneRunAtATime /\ status = "cancelled" =>
    \/ /\ created = {} /\ batches = {} /\ ~Busy
       /\ \A i \in Ids : save[i].pc = "none"
    \/ file.letter /\ CreatedRows = Rows

\* Unless runs overlap, a job that was cancelled is not taken up again, and
\* neither is a job with all its notifications, which may only be cancelled
\* (cancel_letter_job).
EndsForGood ==
  [][OneRunAtATime =>
       /\ status = "cancelled" => status' = "cancelled"
       /\ status = "finished all notifications created"
            => status' \in {status, "cancelled"}]_vars

\* Whatever batch process_job is about to queue, the halves that
\* _shatter_job_rows_with_subdivision makes of it have each row once, and all
\* those in front of a row that does not fit.
SubdivisionExact ==
  \A w \in Workers, lo, hi \in Rows : worker[w].pc = "shattering" /\ lo <= hi =>
    LET sub == Subdivide[<<lo, hi>>]
        fit == IF (lo..hi) \cap file.huge = {} THEN lo..hi
               ELSE lo..(Min((lo..hi) \cap file.huge) - 1)
    IN /\ UNION {b[1]..b[2] : b \in sub.parts} = fit
       /\ \A b, c \in sub.parts : b # c => (b[1]..b[2]) \cap (c[1]..c[2]) = {}
       /\ sub.whole <=> (lo..hi) \cap file.huge = {}

\* UnprocessableJobRow stops a job at its row, every time it is resumed: nothing
\* behind a row that fits in no message is ever created, and the job is never
\* taken for finished.
NothingBeyondHuge ==
  file.huge # {} =>
    /\ \A r \in CreatedRows : r < Min(file.huge)
    /\ status \notin {"finished", "finished all notifications created"}

\* Types hold, and the notifications that exist are those that the job's status says.
JobInv == TypeOK /\ AllMeansAll /\ NothingBeyondHuge

\* A job that made one notification makes one for every row it may, whatever
\* tasks were lost on the way, unless one of its rows fits in no message.
AllRowsCreated ==
  created # {} /\ file.huge = {} ~> CreatedRows = Rows \ file.restricted

\* find_jobs_with_missing_rows returns the finished jobs with missing rows, the
\* ones without any notification included, when no task is left to make one.
MissingRowsFound ==
  /\ status = "finished" /\ settled /\ CreatedRows # Rows
  /\ batches = {} /\ \A i \in Ids : save[i].pc = "none"
  => HasRows
=============================================================================
