------------------------ MODULE EmailDelivery_proofs ------------------------
(***************************************************************************)
(* Types, and the two inductive invariants of emails: RefInv follows the   *)
(* references, however the handlers of an email overlap; SerialInv holds   *)
(* when they do not.  With CountedInv on top of both, every step of the    *)
(* emails is a step of MessageDelivery, or none that it sees.              *)
(***************************************************************************)
EXTENDS EmailDelivery, TLAPS

TaskType == [Emails -> [Tasks -> TaskState]]
ReportType == [Emails -> [Reports -> ReportState]]
Row == [status : NotificationStatuses \cup {Absent}, ref : 0..MaxRefs]

LEMMA TaskValues ==
  /\ FreeTask \in TaskState /\ FreeTask.pc = "free" /\ FreeTask.ref = 0
  /\ NewTask \in TaskState /\ NewTask.pc = "queued"
  /\ \A k \in 0..MaxRetries :
       /\ [NewTask EXCEPT !.retries = k] \in TaskState
       /\ [NewTask EXCEPT !.retries = k].pc = "queued"
  /\ \A x \in TaskState, pc \in TaskPCs :
       /\ [x EXCEPT !.pc = pc] \in TaskState
       /\ [x EXCEPT !.pc = pc].pc = pc /\ [x EXCEPT !.pc = pc].ref = x.ref
  /\ \A x \in TaskState, pc \in TaskPCs, s \in {Absent, "created", "sending"} :
       /\ [x EXCEPT !.pc = pc, !.seen = s] \in TaskState
       /\ [x EXCEPT !.pc = pc, !.seen = s].pc = pc
  /\ \A x \in TaskState, pc \in TaskPCs, k \in 0..MaxRefs :
       /\ [x EXCEPT !.pc = pc, !.ref = k] \in TaskState
       /\ [x EXCEPT !.pc = pc, !.ref = k].pc = pc
       /\ [x EXCEPT !.pc = pc, !.ref = k].ref = k
  /\ \A x \in TaskState, pc \in TaskPCs, k \in 0..MaxRefs :
       /\ [x EXCEPT !.pc = pc, !.ref = k, !.seen = "created"] \in TaskState
       /\ [x EXCEPT !.pc = pc, !.ref = k, !.seen = "created"].pc = pc
       /\ [x EXCEPT !.pc = pc, !.ref = k, !.seen = "created"].ref = k
<1>1. 0 \in 0..MaxRetries /\ 0 \in 0..MaxRefs
  BY EmailAssumption
<1> QED BY <1>1 DEF TaskState, FreeTask, NewTask, TaskPCs

LEMMA FirstTasks ==
  /\ FreeTask \in TaskState /\ FreeTask.pc = "free"
  /\ NewTask \in TaskState /\ NewTask.pc = "queued"
BY TaskValues

LEMMA ReportValues ==
  /\ NoReport \in ReportState /\ NoReport.pc = "none"
  /\ \A x \in ReportState, pc \in ReportPCs :
       /\ [x EXCEPT !.pc = pc] \in ReportState
       /\ [x EXCEPT !.pc = pc].pc = pc /\ [x EXCEPT !.pc = pc].ref = x.ref
       /\ [x EXCEPT !.pc = pc].kind = x.kind
  /\ \A x \in ReportState, k \in 0..MaxReportRetries :
       /\ [x EXCEPT !.pc = "transit", !.recent = FALSE, !.tries = k] \in ReportState
       /\ [x EXCEPT !.pc = "transit", !.recent = FALSE, !.tries = k].pc = "transit"
       /\ [x EXCEPT !.pc = "transit", !.recent = FALSE, !.tries = k].ref = x.ref
  /\ \A j \in 0..MaxRefs, k \in ReportKinds :
       /\ [NoReport EXCEPT !.pc = "transit", !.ref = j, !.kind = k] \in ReportState
       /\ [NoReport EXCEPT !.pc = "transit", !.ref = j, !.kind = k].pc = "transit"
       /\ [NoReport EXCEPT !.pc = "transit", !.ref = j, !.kind = k].ref = j
<1>1. 0 \in 0..MaxReportRetries /\ 0 \in 0..MaxRefs
  BY EmailAssumption
<1> QED BY <1>1 DEF ReportState, NoReport, ReportPCs, ReportKinds

\* What the three writers of tables do, entry by entry.
LEMMA TaskAt ==
  ASSUME TypeOK, NEW n \in Emails, NEW t \in Tasks, NEW new \in TaskState,
         SetTask(n, t, new)
  PROVE  /\ task' \in TaskType
         /\ task'[n][t] = new
         /\ \A u \in Tasks \ {t} : task'[n][u] = task[n][u]
         /\ \A m \in Emails \ {n} : task'[m] = task[m]
  BY DEF TypeOK, SetTask, TaskType

LEMMA ReportAt ==
  ASSUME TypeOK, NEW n \in Emails, NEW r \in Reports, NEW new \in ReportState,
         SetReport(n, r, new)
  PROVE  /\ report' \in ReportType
         /\ report'[n][r] = new
         /\ \A q \in Reports \ {r} : report'[n][q] = report[n][q]
         /\ \A m \in Emails \ {n} : report'[m] = report[m]
  BY DEF TypeOK, SetReport, ReportType

LEMMA StatusAt ==
  ASSUME TypeOK, NEW n \in Emails, NEW s \in NotificationStatuses,
         SetStatus(n, s)
  PROVE  /\ row' \in [Emails -> Row]
         /\ row'[n].status = s /\ row'[n].ref = row[n].ref
         /\ \A m \in Emails \ {n} : row'[m] = row[m]
<1>1. row \in [Emails -> Row]
  BY DEF TypeOK, Row
<1>2. row[n] \in Row
  BY <1>1
<1>3. [row[n] EXCEPT !.status = s] \in Row
  BY <1>2 DEF Row
<1> QED BY <1>1, <1>2, <1>3 DEF SetStatus, Row

\* The value a raised task has.
LEMMA Raised ==
  ASSUME TypeOK, NEW n \in Emails, NEW t \in Tasks,
         NEW s \in {Absent, "created", "sending"}, Raise(n, t, s)
  PROVE  \E new \in TaskState : new.pc = "raised" /\ SetTask(n, t, new)
<1> DEFINE new == [task[n][t] EXCEPT !.pc = "raised", !.seen = s]
<1>1. task[n][t] \in TaskState
  BY DEF TypeOK
<1>2. new \in TaskState /\ new.pc = "raised"
  BY <1>1 DEF TaskState, TaskPCs
<1>3. SetTask(n, t, new)
  BY DEF Raise
<1> QED BY <1>2, <1>3

\* A report goes back on its queue or is given up.
LEMMA Retried ==
  ASSUME TypeOK, NEW n \in Emails, NEW r \in Reports, Again(n, r)
  PROVE  \E new \in ReportState :
           /\ \/ new.pc = "none"
              \/ new.pc = "transit" /\ new.ref = report[n][r].ref
           /\ SetReport(n, r, new)
<1> DEFINE rp == report[n][r]
           new == [rp EXCEPT !.pc = "transit", !.recent = FALSE,
                             !.tries = rp.tries + 1]
<1>1. rp \in ReportState
  BY DEF TypeOK
<1>2. CASE rp.tries < MaxReportRetries
  <2>1. rp.tries + 1 \in 0..MaxReportRetries
    BY <1>1, <1>2, EmailAssumption DEF ReportState
  <2>2. new \in ReportState /\ new.pc = "transit" /\ new.ref = rp.ref
    BY <1>1, <2>1 DEF ReportState, ReportPCs
  <2>3. SetReport(n, r, new)
    BY <1>2 DEF Again
  <2> HIDE DEF new
  <2> QED BY <2>2, <2>3
<1>3. CASE ~(rp.tries < MaxReportRetries)
  <2>1. SetReport(n, r, NoReport)
    BY <1>3 DEF Again
  <2> QED BY <2>1, ReportValues
<1> QED BY <1>2, <1>3

\* The counters.
LEMMA CountersAt ==
  ASSUME TypeOK, NEW n \in Emails
  PROVE  /\ (refs[n] < MaxRefs /\ refs' = [refs EXCEPT ![n] = @ + 1]) =>
              /\ refs' \in [Emails -> 0..MaxRefs]
              /\ refs'[n] = refs[n] + 1
              /\ \A m \in Emails \ {n} : refs'[m] = refs[m]
         /\ LoseRef(n) =>
              /\ lost' \in [Emails -> Nat]
              /\ lost'[n] = lost[n] + 1
              /\ \A m \in Emails \ {n} : lost'[m] = lost[m]
         /\ Fault => faults' \in 0..MaxFaults
<1>1. MaxRefs \in Nat /\ MaxFaults \in Nat
  BY EmailAssumption
<1>2. ASSUME refs[n] < MaxRefs, refs' = [refs EXCEPT ![n] = @ + 1]
      PROVE  /\ refs' \in [Emails -> 0..MaxRefs]
             /\ refs'[n] = refs[n] + 1
             /\ \A m \in Emails \ {n} : refs'[m] = refs[m]
  BY <1>1, <1>2 DEF TypeOK
<1>f. faults \in 0..MaxFaults
  BY DEF TypeOK
<1>3. Fault => faults' \in 0..MaxFaults
  BY <1>1, <1>f DEF Fault
<1>4. LoseRef(n) => /\ lost' \in [Emails -> Nat]
                    /\ lost'[n] = lost[n] + 1
                    /\ \A m \in Emails \ {n} : lost'[m] = lost[m]
  BY DEF TypeOK, LoseRef
<1> QED BY <1>2, <1>3, <1>4

-----------------------------------------------------------------------------
(* Types.                                                                  *)

\* A step of deliver_email that writes no more than its task.
LEMMA TypeTask ==
  ASSUME TypeOK, NEW n \in Emails, NEW t \in Tasks, NEW new \in TaskState,
         SetTask(n, t, new), row' \in [Emails -> Row],
         refs' \in [Emails -> 0..MaxRefs], lost' \in [Emails -> Nat],
         faults' \in 0..MaxFaults, UNCHANGED <<Reporting, Schedule>>
  PROVE  TypeOK'
<1>1. task' \in TaskType
  BY TaskAt
<1> QED BY <1>1 DEF TypeOK, TaskType, Reporting, Schedule, Row

LEMMA TypeStart ==
  ASSUME TypeOK, NEW n \in Emails, NEW t \in Tasks, Start(n, t)
  PROVE  TypeOK'
<1>t. /\ task[n][t] \in TaskState /\ row \in [Emails -> Row]
      /\ refs \in [Emails -> 0..MaxRefs] /\ lost \in [Emails -> Nat]
      /\ faults \in 0..MaxFaults
  BY DEF TypeOK, Row
<1>1. CASE StartMissing(n, t)
  <2>1. \E new \in TaskState : SetTask(n, t, new)
    BY <1>1, Raised DEF StartMissing
  <2> QED BY <1>t, <1>1, <2>1, TypeTask DEF StartMissing
<1>2. CASE StartInactive(n, t)
  <2>1. \E new \in TaskState : SetTask(n, t, new)
    BY <1>2, Raised DEF StartInactive
  <2>2. row' \in [Emails -> Row]
    BY <1>2, StatusAt DEF StartInactive, NotificationStatuses
  <2> QED BY <1>t, <1>2, <2>1, <2>2, TypeTask DEF StartInactive
<1>3. CASE StartSkip(n, t)
  BY <1>t, <1>3, TypeTask, TaskValues DEF StartSkip
<1>4. CASE StartFails(n, t)
  <2>1. \E new \in TaskState : SetTask(n, t, new)
    BY <1>4, Raised DEF StartFails
  <2> QED BY <1>t, <1>4, <2>1, TypeTask, CountersAt DEF StartFails
<1>5. CASE StartSend(n, t)
  <2> DEFINE new == [task[n][t] EXCEPT !.pc = "calling", !.seen = "created"]
  <2>1. new \in TaskState
    BY <1>t DEF TaskState, TaskPCs
  <2>2. SetTask(n, t, new)
    BY <1>5 DEF StartSend
  <2> QED BY <1>t, <1>5, <2>1, <2>2, TypeTask DEF StartSend
<1>6. CASE StartTest(n, t)
  <2>1. /\ refs' \in [Emails -> 0..MaxRefs] /\ refs'[n] \in 0..MaxRefs
        /\ UNCHANGED <<row, lost, Reporting, Schedule, faults>>
    BY <1>6, CountersAt DEF StartTest
  <2> DEFINE new == [task[n][t] EXCEPT !.pc = "accepted", !.ref = refs'[n],
                                       !.seen = "created"]
  <2>2. new \in TaskState
    BY <1>t, <2>1 DEF TaskState, TaskPCs
  <2>3. SetTask(n, t, new)
    BY <1>6 DEF StartTest
  <2> HIDE DEF new
  <2> QED BY <1>t, <2>1, <2>2, <2>3, TypeTask
<1> QED BY <1>1, <1>2, <1>3, <1>4, <1>5, <1>6 DEF Start

LEMMA TypeContinue ==
  ASSUME TypeOK, NEW n \in Emails, NEW t \in Tasks, Continue(n, t)
  PROVE  TypeOK'
<1>t. /\ task[n][t] \in TaskState /\ row \in [Emails -> Row]
      /\ refs \in [Emails -> 0..MaxRefs] /\ lost \in [Emails -> Nat]
      /\ faults \in 0..MaxFaults
  BY DEF TypeOK, Row
<1>1. CASE SesAccepts(n, t)
  <2>1. /\ refs' \in [Emails -> 0..MaxRefs] /\ refs'[n] \in 0..MaxRefs
        /\ UNCHANGED <<row, lost, Reporting, Schedule, faults>>
    BY <1>1, CountersAt DEF SesAccepts
  <2> DEFINE new == [task[n][t] EXCEPT !.pc = "accepted", !.ref = refs'[n]]
  <2>2. new \in TaskState
    BY <1>t, <2>1 DEF TaskState, TaskPCs
  <2>3. SetTask(n, t, new)
    BY <1>1 DEF SesAccepts
  <2> HIDE DEF new
  <2> QED BY <1>t, <2>1, <2>2, <2>3, TypeTask
<1>2. CASE SesFails(n, t)
  <2>1. \E new \in TaskState : SetTask(n, t, new)
    BY <1>2, Raised DEF SesFails
  <2> QED BY <1>t, <1>2, <2>1, TypeTask DEF SesFails
<1>3. CASE SesTimesOut(n, t)
  <2>1. \E new \in TaskState : SetTask(n, t, new)
    BY <1>3, Raised DEF SesTimesOut
  <2>2. /\ refs' \in [Emails -> 0..MaxRefs] /\ lost' \in [Emails -> Nat]
        /\ faults' \in 0..MaxFaults
    BY <1>3, CountersAt DEF SesTimesOut
  <2> QED BY <1>t, <1>3, <2>1, <2>2, TypeTask DEF SesTimesOut
<1>4. CASE SesRefuses(n, t)
  <2> DEFINE new == [task[n][t] EXCEPT !.pc = "failing"]
  <2>1. new \in TaskState
    BY <1>t DEF TaskState, TaskPCs
  <2>2. SetTask(n, t, new)
    BY <1>4 DEF SesRefuses
  <2> QED BY <1>t, <1>4, <2>1, <2>2, TypeTask DEF SesRefuses
<1>5. CASE CommitSending(n, t)
  <2>1. row' \in [Emails -> Row]
    BY <1>t, <1>5 DEF CommitSending, Row, TaskState, NotificationStatuses
  <2> DEFINE new == IF n \in TestKey
                    THEN [task[n][t] EXCEPT !.pc = "responding"] ELSE FreeTask
  <2>2. new \in TaskState
    <3>1. [task[n][t] EXCEPT !.pc = "responding"] \in TaskState
      BY <1>t DEF TaskState, TaskPCs
    <3> QED BY <3>1, TaskValues
  <2>3. SetTask(n, t, new)
    BY <1>5 DEF CommitSending
  <2> HIDE DEF new
  <2> QED BY <1>t, <1>5, <2>1, <2>2, <2>3, TypeTask DEF CommitSending
<1>6. CASE CommitFails(n, t)
  <2>1. \E new \in TaskState : SetTask(n, t, new)
    BY <1>6, Raised DEF CommitFails
  <2>2. lost' \in [Emails -> Nat] /\ faults' \in 0..MaxFaults
    BY <1>t, <1>6, CountersAt DEF CommitFails
  <2> QED BY <1>t, <1>6, <2>1, <2>2, TypeTask DEF CommitFails
<1>7. CASE SendEmailResponseFails(n, t)
  <2>1. \E new \in TaskState : SetTask(n, t, new)
    BY <1>7, Raised DEF SendEmailResponseFails
  <2>2. faults' \in 0..MaxFaults
    BY <1>t, <1>7, CountersAt DEF SendEmailResponseFails
  <2> QED BY <1>t, <1>7, <2>1, <2>2, TypeTask DEF SendEmailResponseFails
<1>8. CASE RetryTask(n, t)
  <2> DEFINE k == task[n][t].retries + 1
  <2>1. k \in 0..MaxRetries
    BY <1>t, <1>8, EmailAssumption DEF RetryTask, TaskState
  <2>2. SetTask(n, t, [NewTask EXCEPT !.retries = k])
    BY <1>8 DEF RetryTask
  <2> HIDE DEF k
  <2> QED BY <1>t, <1>8, <2>1, <2>2, TypeTask, TaskValues DEF RetryTask
<1>9. CASE GiveUp(n, t)
  <2>1. row' \in [Emails -> Row]
    BY <1>t, <1>9, StatusAt DEF GiveUp, NotificationStatuses
  <2> QED BY <1>t, <1>9, <2>1, TypeTask, TaskValues DEF GiveUp
<1>10. ASSUME NEW r \in Reports, NEW k \in ReportKinds,
              SendEmailResponse(n, t, r, k)
       PROVE  TypeOK'
  <2>1. task' \in TaskType
    BY <1>10, TaskAt, TaskValues DEF SendEmailResponse
  <2>2. row[n].ref \in 0..MaxRefs
    BY <1>t DEF Row
  <2> DEFINE new == [NoReport EXCEPT !.pc = "transit", !.kind = k,
                                     !.ref = row[n].ref]
  <2>4. new \in ReportState
    BY <2>2, ReportValues DEF ReportState, ReportPCs
  <2>5. SetReport(n, r, new)
    BY <1>10 DEF SendEmailResponse
  <2> HIDE DEF new
  <2>3. report' \in ReportType
    BY <2>4, <2>5, ReportAt
  <2> QED BY <1>10, <2>1, <2>3
          DEF SendEmailResponse, TypeOK, TaskType, ReportType, Schedule
<1> QED BY <1>1, <1>2, <1>3, <1>4, <1>5, <1>6, <1>7, <1>8, <1>9, <1>10
        DEF Continue

LEMMA TypeCrash ==
  ASSUME TypeOK, NEW n \in Emails, NEW t \in Tasks, CrashTask(n, t)
  PROVE  TypeOK'
<1>1. /\ row \in [Emails -> Row] /\ refs \in [Emails -> 0..MaxRefs]
      /\ lost \in [Emails -> Nat]
  BY DEF TypeOK, Row
<1>2. /\ refs' \in [Emails -> 0..MaxRefs] /\ lost' \in [Emails -> Nat]
      /\ faults' \in 0..MaxFaults
  BY <1>1, CountersAt DEF CrashTask
<1> QED BY <1>1, <1>2, TypeTask, TaskValues DEF CrashTask

\* Only delivery and bounce reports are ever written to a row.
ReportsOk ==
  \A n \in Emails, r \in Reports :
    report[n][r].pc = "read" => ~IsComplaint(n, r)

LEMMA TypeReport ==
  ASSUME TypeOK, ReportsOk, NEW n \in Emails, NEW r \in Reports,
         ProcessReport(n, r) \/ CrashReport(n, r)
  PROVE  TypeOK'
<1>t. /\ report[n][r] \in ReportState /\ row \in [Emails -> Row]
      /\ complaints \in [Emails -> Nat] /\ toldOf \in [Emails -> Nat]
      /\ handled \subseteq Emails \X (0..MaxRefs)
      /\ faults \in 0..MaxFaults /\ told \in [Emails -> Seq(NotificationStatuses)]
  BY DEF TypeOK, Row
<1>1. report' \in ReportType
  <2>1. CASE SetReport(n, r, NoReport) \/ Again(n, r)
    BY <2>1, ReportAt, ReportValues, Retried
  <2>2. ASSUME NEW pc \in ReportPCs,
               SetReport(n, r, [report[n][r] EXCEPT !.pc = pc])
        PROVE  report' \in ReportType
    BY <1>t, <2>2, ReportAt, ReportValues
  <2>3. {"read", "updated", "saved"} \subseteq ReportPCs
    BY DEF ReportPCs
  <2> QED BY <2>1, <2>2, <2>3
          DEF ProcessReport, CrashReport, ReportUnknown, ReportDuplicate,
              ReportReads, ReportUpdates, ReportTells, ReportTellFails,
              ComplaintUnknown, SaveComplaint, TellComplaint, TellComplaintFails
<1>2. row' \in [Emails -> Row]
  <2>1. CASE row' = row
    BY <1>t, <2>1
  <2>2. CASE ReportUpdates(n, r) /\ row' # row
    <3>1. SetStatus(n, report[n][r].kind)
      BY <2>2 DEF ReportUpdates
    <3>2. report[n][r].kind \in NotificationStatuses
      BY <1>t, <2>2
         DEF ReportUpdates, ReportsOk, IsComplaint, ReportState, ReportKinds,
             NotificationStatuses
    <3> QED BY <3>1, <3>2, StatusAt
  <2> QED BY <2>1, <2>2
          DEF ProcessReport, CrashReport, ReportUnknown, ReportDuplicate,
              ReportReads, ReportTells, ReportTellFails, ComplaintUnknown,
              SaveComplaint, TellComplaint, TellComplaintFails
<1>3. handled' \subseteq Emails \X (0..MaxRefs)
  <2>1. CASE handled' = handled
    BY <1>t, <2>1
  <2>2. CASE Handled(n, r)
    BY <1>t, <2>2 DEF Handled, ReportState
  <2> QED BY <2>1, <2>2
          DEF ProcessReport, CrashReport, ReportUnknown, ReportDuplicate,
              ReportReads, ReportUpdates, ReportTells, ReportTellFails,
              ComplaintUnknown, SaveComplaint, TellComplaint, TellComplaintFails
<1>4. told' \in [Emails -> Seq(NotificationStatuses)]
  <2>1. CASE told' = told
    BY <1>t, <2>1
  <2>2. CASE ReportTells(n, r)
    <3>1. row[n].status \in NotificationStatuses
      BY <1>t, <2>2 DEF ReportTells, Row
    <3> QED BY <1>t, <2>2, <3>1 DEF ReportTells, Tell
  <2> QED BY <2>1, <2>2
          DEF ProcessReport, CrashReport, ReportUnknown, ReportDuplicate,
              ReportReads, ReportUpdates, ReportTellFails, ComplaintUnknown,
              SaveComplaint, TellComplaint, TellComplaintFails
<1>5. /\ complaints' \in [Emails -> Nat] /\ toldOf' \in [Emails -> Nat]
      /\ faults' \in 0..MaxFaults
  BY <1>t, CountersAt
     DEF ProcessReport, CrashReport, ReportUnknown, ReportDuplicate,
         ReportReads, ReportUpdates, ReportTells, ReportTellFails,
         ComplaintUnknown, SaveComplaint, TellComplaint, TellComplaintFails
<1>6. UNCHANGED <<task, refs, lost, posts, Schedule>>
  BY DEF ProcessReport, CrashReport, ReportUnknown, ReportDuplicate,
         ReportReads, ReportUpdates, ReportTells, ReportTellFails,
         ComplaintUnknown, SaveComplaint, TellComplaint, TellComplaintFails
<1> QED BY <1>1, <1>2, <1>3, <1>4, <1>5, <1>6
        DEF TypeOK, ReportType, Row, Schedule

LEMMA TypeScheduled ==
  ASSUME TypeOK, NEW n \in Emails,
         \/ Age(n) \/ ReplaySelect(n) \/ ReplayFails(n) \/ TimeoutSelect(n)
         \/ TimeoutUpdate(n) \/ TimeoutTell(n)
  PROVE  TypeOK'
<1>t. /\ row \in [Emails -> Row] /\ faults \in 0..MaxFaults
      /\ told \in [Emails -> Seq(NotificationStatuses)]
  BY DEF TypeOK, Row
<1>1. CASE Age(n)
  <2>1. age' \in [Emails -> 0..2]
    <3>1. age \in [Emails -> 0..2]
      BY DEF TypeOK
    <3> QED BY <1>1, <3>1 DEF Age
  <2> QED BY <1>1, <2>1 DEF Age, TypeOK, Reporting
<1>2. CASE ReplaySelect(n)
  BY <1>2 DEF ReplaySelect, TypeOK, Reporting
<1>3. CASE ReplayFails(n)
  <2>1. 0 \in 0..MaxRefs
    BY EmailAssumption
  <2>2. row' \in [Emails -> Row] /\ faults' \in 0..MaxFaults
    BY <1>t, <1>3, <2>1, CountersAt DEF ReplayFails, Row
  <2> QED BY <1>3, <2>2 DEF ReplayFails, TypeOK, Reporting, Row
<1>4. CASE TimeoutSelect(n)
  BY <1>4 DEF TimeoutSelect, SetSweep, TypeOK, Reporting
<1>5. CASE TimeoutUpdate(n)
  <2>1. row' \in [Emails -> Row]
    BY <1>t, <1>5, StatusAt DEF TimeoutUpdate, NotificationStatuses
  <2> QED BY <1>5, <2>1 DEF TimeoutUpdate, SetSweep, TypeOK, Reporting, Row
<1>6. CASE TimeoutTell(n)
  <2>1. told' \in [Emails -> Seq(NotificationStatuses)]
    <3>1. CASE told' = told
      BY <1>t, <3>1
    <3>2. CASE row[n].status # Absent /\ Tell(n)
      <4>1. row[n].status \in NotificationStatuses
        BY <1>t, <3>2 DEF Row
      <4> QED BY <1>t, <3>2, <4>1 DEF Tell
    <3> QED BY <1>6, <3>1, <3>2 DEF TimeoutTell
  <2> QED BY <1>6, <2>1 DEF TimeoutTell, SetSweep, TypeOK, Reporting
<1> QED BY <1>1, <1>2, <1>3, <1>4, <1>5, <1>6

LEMMA TypeStep ==
  ASSUME TypeOK, ReportsOk, Next
  PROVE  TypeOK'
<1>1. ASSUME NEW n \in Emails, NEW t \in Tasks, ReplayEnqueue(n, t)
      PROVE  TypeOK'
  <2>1. task' \in TaskType
    BY <1>1, TaskAt, TaskValues DEF ReplayEnqueue
  <2> QED BY <1>1, <2>1 DEF ReplayEnqueue, TypeOK, TaskType, Reporting
<1>2. ASSUME NEW n \in Emails, NEW t \in Tasks, NEW u \in Tasks,
             Redeliver(n, t, u)
      PROVE  TypeOK'
  <2>1. /\ task[n][t] \in TaskState /\ row \in [Emails -> Row]
        /\ refs \in [Emails -> 0..MaxRefs] /\ lost \in [Emails -> Nat]
    BY DEF TypeOK, Row
  <2> QED BY <1>2, <2>1, TypeTask, CountersAt DEF Redeliver
<1>3. ASSUME NEW n \in Emails, NEW r \in Reports, NEW ref \in 1..MaxRefs,
             NEW k \in ReportKinds, SesPosts(n, r, ref, k)
      PROVE  TypeOK'
  <2>1. report' \in ReportType
    <3>1. ref \in 0..MaxRefs
      BY EmailAssumption
    <3> QED BY <1>3, <3>1, ReportAt, ReportValues DEF SesPosts
  <2>2. posts' \in [Emails -> 0..MaxPosts]
    <3>1. MaxPosts \in Nat
      BY EmailAssumption
    <3>2. posts \in [Emails -> 0..MaxPosts]
      BY DEF TypeOK
    <3> QED BY <1>3, <3>1, <3>2 DEF SesPosts
  <2> QED BY <1>3, <2>1, <2>2 DEF SesPosts, TypeOK, ReportType, Schedule
<1>4. CASE ArchiveService
  BY <1>4 DEF ArchiveService, TypeOK, Reporting
<1> QED BY <1>1, <1>2, <1>3, <1>4, TypeStart, TypeContinue, TypeCrash,
           TypeReport, TypeScheduled
        DEF Next, Deliver

-----------------------------------------------------------------------------
(* References.                                                             *)

Accepted(n, t) == task[n][t].pc = "accepted"
HandledRef(n, k) == <<n, k>> \in handled

\* A reference a task has still to commit is in no row, in no other task, in no
\* report that has read its row, and no report for it was dealt with.
FreshRef(n, t) ==
  /\ task[n][t].ref \in 1..refs[n]
  /\ task[n][t].ref # row[n].ref
  /\ ~HandledRef(n, task[n][t].ref)
  /\ \A u \in Tasks \ {t} : Accepted(n, u) => task[n][u].ref # task[n][t].ref
  /\ \A r \in Reports :
       report[n][r].pc = "read" => report[n][r].ref # task[n][t].ref

\* The row has a reference from the commit on.
RowRef(n) ==
  /\ row[n].ref \in 0..refs[n]
  /\ row[n].status \in {"created", "sending", Absent} \cup FinalStatuses
  /\ row[n].status = "created" => row[n].ref = 0
  /\ row[n].status = "sending" => row[n].ref > 0
  /\ \A t \in Tasks :
       task[n][t].pc = "responding" => row[n].ref > 0 \/ row[n].status = Absent

\* Reports carry references SES gave out.
ReportRef(n) ==
  /\ \A r \in Reports : report[n][r].pc # "none" => report[n][r].ref \in 1..refs[n]
  /\ \A k \in Nat : HandledRef(n, k) => k \in 1..refs[n]
  /\ \A r \in Reports : report[n][r].pc = "read" => ~IsComplaint(n, r)

EmailRefs(n) ==
  /\ \A t \in Tasks : Accepted(n, t) => FreshRef(n, t)
  /\ RowRef(n)
  /\ ReportRef(n)
  /\ HandledRef(n, row[n].ref) => row[n].status \in FinalStatuses \cup {Absent}

RefInv == \A n \in Emails : EmailRefs(n)

\* What EmailRefs(m) reads.
SameRefs(m) ==
  /\ row'[m] = row[m] /\ task'[m] = task[m] /\ refs'[m] = refs[m]
  /\ report'[m] = report[m]
  /\ \A k \in Nat : <<m, k>> \in handled' => HandledRef(m, k)

LEMMA RefTypes ==
  ASSUME TypeOK, NEW n \in Emails
  PROVE  /\ row[n].ref \in Nat /\ refs[n] \in Nat /\ refs[n] <= MaxRefs
         /\ \A t \in Tasks : task[n][t].ref \in Nat
         /\ \A r \in Reports : report[n][r].ref \in Nat
<1>1. MaxRefs \in Nat
  BY EmailAssumption
<1>2. /\ row[n] \in Row /\ refs[n] \in 0..MaxRefs
      /\ \A t \in Tasks : task[n][t] \in TaskState
      /\ \A r \in Reports : report[n][r] \in ReportState
  BY DEF TypeOK, Row
<1> QED BY <1>1, <1>2 DEF Row, TaskState, ReportState

\* A step that takes one email from EmailRefs to EmailRefs and leaves the others
\* alone.
LEMMA RefFrame ==
  ASSUME TypeOK, RefInv, NEW n \in Emails, EmailRefs(n)',
         \A m \in Emails \ {n} : SameRefs(m)
  PROVE  RefInv'
<1> SUFFICES ASSUME NEW m \in Emails \ {n} PROVE EmailRefs(m)'
  BY DEF RefInv
<1>1. EmailRefs(m) /\ SameRefs(m)
  BY DEF RefInv
<1>t. /\ \A t \in Tasks : task[m][t].ref \in Nat
      /\ row[m].ref \in Nat
  BY RefTypes
<1>2. ASSUME NEW t \in Tasks, Accepted(m, t)' PROVE FreshRef(m, t)'
  <2>1. FreshRef(m, t)
    BY <1>1, <1>2 DEF EmailRefs, Accepted, SameRefs
  <2>2. HandledRef(m, task[m][t].ref)' => HandledRef(m, task[m][t].ref)
    BY <1>1, <1>t DEF SameRefs, HandledRef
  <2> QED BY <1>1, <2>1, <2>2 DEF Accepted, FreshRef, SameRefs
<1>3. RowRef(m)'
  BY <1>1 DEF EmailRefs, RowRef, SameRefs
<1>4. ReportRef(m)'
  BY <1>1 DEF EmailRefs, ReportRef, SameRefs, HandledRef, IsComplaint
<1>5. HandledRef(m, row[m].ref)' => row'[m].status \in FinalStatuses \cup {Absent}
  BY <1>1, <1>t DEF EmailRefs, SameRefs, HandledRef
<1> QED BY <1>2, <1>3, <1>4, <1>5 DEF EmailRefs

\* A task's step that does not accept, and at most fails the row.
LEMMA RefTask ==
  ASSUME TypeOK, RefInv, NEW n \in Emails, NEW t \in Tasks, NEW new \in TaskState,
         SetTask(n, t, new), new.pc \notin {"accepted", "responding"},
         \/ row' = row
         \/ row[n].status # Absent /\ SetStatus(n, "technical-failure"),
         refs' = refs \/ (/\ refs[n] < MaxRefs
                          /\ refs' = [refs EXCEPT ![n] = @ + 1]),
         UNCHANGED <<report, handled>>
  PROVE  RefInv'
<1>1. EmailRefs(n)
  BY DEF RefInv
<1>2. /\ task'[n][t] = new
      /\ \A u \in Tasks \ {t} : task'[n][u] = task[n][u]
      /\ \A m \in Emails \ {n} : task'[m] = task[m]
  BY TaskAt
<1>3. /\ row'[n].ref = row[n].ref
      /\ \/ row'[n].status = row[n].status
         \/ row[n].status # Absent /\ row'[n].status = "technical-failure"
      /\ \A m \in Emails \ {n} : row'[m] = row[m]
  BY StatusAt DEF NotificationStatuses
<1>4. /\ refs[n] \in Nat /\ refs'[n] \in Nat /\ refs[n] <= refs'[n]
      /\ \A m \in Emails \ {n} : refs'[m] = refs[m]
  BY EmailAssumption DEF TypeOK
<1>5. ASSUME NEW u \in Tasks, Accepted(n, u)' PROVE FreshRef(n, u)'
  <2>1. u # t /\ FreshRef(n, u)
    BY <1>1, <1>2, <1>5 DEF EmailRefs, Accepted
  <2>2. \A v \in Tasks : Accepted(n, v)' => Accepted(n, v) /\ v # t
    BY <1>2 DEF Accepted
  <2>3. task'[n][u].ref \in 1..refs'[n]
    BY <1>2, <1>4, <2>1 DEF FreshRef
  <2> QED BY <1>2, <1>3, <2>1, <2>2, <2>3 DEF FreshRef, HandledRef
<1>6. RowRef(n)'
  BY <1>1, <1>2, <1>3, <1>4 DEF EmailRefs, RowRef, FinalStatuses, Absent
<1>7. ReportRef(n)'
  BY <1>1, <1>4 DEF EmailRefs, ReportRef, HandledRef, IsComplaint
<1>8. EmailRefs(n)'
  BY <1>1, <1>3, <1>5, <1>6, <1>7 DEF EmailRefs, HandledRef, FinalStatuses
<1>9. \A m \in Emails \ {n} : SameRefs(m)
  BY <1>2, <1>3, <1>4 DEF SameRefs, HandledRef
<1> QED BY <1>8, <1>9, RefFrame

\* SES, or a test email, gives out the next reference.
LEMMA RefAccept ==
  ASSUME TypeOK, RefInv, NEW n \in Emails, NEW t \in Tasks, NEW new \in TaskState,
         SetTask(n, t, new), new.pc = "accepted", new.ref = refs'[n],
         refs[n] < MaxRefs, refs' = [refs EXCEPT ![n] = @ + 1],
         UNCHANGED <<row, report, handled>>
  PROVE  RefInv'
<1>1. EmailRefs(n)
  BY DEF RefInv
<1>2. /\ task'[n][t] = new
      /\ \A u \in Tasks \ {t} : task'[n][u] = task[n][u]
      /\ \A m \in Emails \ {n} : task'[m] = task[m]
  BY TaskAt
<1>3. /\ refs[n] \in Nat /\ refs'[n] = refs[n] + 1
      /\ \A m \in Emails \ {n} : refs'[m] = refs[m]
  BY EmailAssumption DEF TypeOK
<1>4. \A u \in Tasks : Accepted(n, u)' => FreshRef(n, u)'
  <2>1. FreshRef(n, t)'
    BY <1>1, <1>2, <1>3
       DEF EmailRefs, Accepted, FreshRef, RowRef, ReportRef, HandledRef
  <2>2. ASSUME NEW u \in Tasks \ {t}, Accepted(n, u)' PROVE FreshRef(n, u)'
    <3>1. Accepted(n, u) /\ FreshRef(n, u)
      BY <1>1, <1>2, <2>2 DEF Accepted, EmailRefs
    <3> QED BY <1>2, <1>3, <3>1 DEF Accepted, FreshRef, HandledRef
  <2> QED BY <2>1, <2>2
<1>5. RowRef(n)'
  BY <1>1, <1>2, <1>3 DEF EmailRefs, RowRef
<1>6. ReportRef(n)'
  BY <1>1, <1>3 DEF EmailRefs, ReportRef, HandledRef, IsComplaint
<1>7. EmailRefs(n)'
  BY <1>1, <1>4, <1>5, <1>6 DEF EmailRefs, HandledRef
<1>8. \A m \in Emails \ {n} : SameRefs(m)
  BY <1>2, <1>3 DEF SameRefs, HandledRef
<1> QED BY <1>7, <1>8, RefFrame

\* The commit of a reference.
LEMMA RefCommit ==
  ASSUME TypeOK, RefInv, NEW n \in Emails, NEW t \in Tasks, CommitSending(n, t)
  PROVE  RefInv'
<1>1. EmailRefs(n) /\ Accepted(n, t) /\ FreshRef(n, t)
  BY DEF RefInv, EmailRefs, CommitSending, Accepted
<1>t. task[n][t] \in TaskState /\ row \in [Emails -> Row]
  BY DEF TypeOK, Row
<1>2. PICK new \in TaskState :
        new.pc \in {"responding", "free"} /\ SetTask(n, t, new)
  <2>1. CASE n \in TestKey
    <3> DEFINE new == [task[n][t] EXCEPT !.pc = "responding"]
    <3>1. new \in TaskState /\ new.pc = "responding"
      BY <1>t DEF TaskState, TaskPCs
    <3>2. SetTask(n, t, new)
      BY <2>1 DEF CommitSending
    <3> HIDE DEF new
    <3> QED BY <3>1, <3>2
  <2>2. CASE n \notin TestKey
    <3>1. SetTask(n, t, FreeTask)
      BY <2>2 DEF CommitSending
    <3> QED BY <3>1, TaskValues
  <2> QED BY <2>1, <2>2
<1>3. /\ task'[n][t] = new
      /\ \A u \in Tasks \ {t} : task'[n][u] = task[n][u]
      /\ \A m \in Emails \ {n} : task'[m] = task[m]
  BY <1>2, TaskAt
<1>4. /\ row'[n].status = "sending" /\ row'[n].ref = task[n][t].ref
      /\ \A m \in Emails \ {n} : row'[m] = row[m]
  BY <1>t DEF CommitSending
<1>5. UNCHANGED <<refs, report, handled>>
  BY DEF CommitSending, Reporting
<1>6. ASSUME NEW u \in Tasks, Accepted(n, u)' PROVE FreshRef(n, u)'
  <2>1. u # t /\ Accepted(n, u) /\ FreshRef(n, u)
    BY <1>1, <1>2, <1>3, <1>6 DEF EmailRefs, Accepted
  <2>2. \A v \in Tasks : Accepted(n, v)' => Accepted(n, v) /\ v # t
    BY <1>2, <1>3 DEF Accepted
  <2>3. task[n][u].ref # task[n][t].ref
    BY <1>1, <2>1 DEF FreshRef
  <2> QED BY <1>3, <1>4, <1>5, <2>1, <2>2, <2>3 DEF FreshRef, HandledRef
<1>7. RowRef(n)'
  <2>1. task[n][t].ref \in 1..refs[n] /\ refs[n] \in Nat
    BY <1>1, RefTypes DEF FreshRef
  <2> QED BY <1>4, <1>5, <2>1 DEF RowRef
<1>8. ReportRef(n)'
  BY <1>1, <1>5 DEF EmailRefs, ReportRef, HandledRef, IsComplaint
<1>9. ~HandledRef(n, row[n].ref)'
  BY <1>1, <1>4, <1>5 DEF FreshRef, HandledRef
<1>10. EmailRefs(n)'
  BY <1>6, <1>7, <1>8, <1>9 DEF EmailRefs
<1>11. \A m \in Emails \ {n} : SameRefs(m)
  BY <1>3, <1>4, <1>5 DEF SameRefs, HandledRef
<1> QED BY <1>10, <1>11, RefFrame

\* A report moves on, and may be dealt with.
LEMMA RefReport ==
  ASSUME TypeOK, RefInv, NEW n \in Emails, NEW r \in Reports,
         NEW new \in ReportState, SetReport(n, r, new),
         \/ new.pc = "none"
         \/ new.ref \in 1..refs[n] /\ new.pc # "read"
         \/ /\ new.ref = report[n][r].ref /\ new.kind = report[n][r].kind
            /\ report[n][r].pc # "none" /\ Found(n, r) /\ ~IsComplaint(n, r),
         \/ UNCHANGED <<row, handled>>
         \/ /\ Handled(n, r) /\ report[n][r].pc # "none"
            /\ \A t \in Tasks : Accepted(n, t) => task[n][t].ref # report[n][r].ref
            /\ \/ /\ row' = row
                  /\ row[n].ref = report[n][r].ref
                       => row[n].status \in FinalStatuses \cup {Absent}
               \/ /\ SetStatus(n, report[n][r].kind) /\ row[n].status # Absent
                  /\ report[n][r].kind \in FinalStatuses,
         UNCHANGED <<task, refs>>
  PROVE  RefInv'
<1>1. EmailRefs(n)
  BY DEF RefInv
<1>t. /\ report[n][r].ref \in Nat /\ row[n].ref \in Nat /\ refs[n] \in Nat
      /\ \A t \in Tasks : task[n][t].ref \in Nat
  BY RefTypes
<1>2. /\ report'[n][r] = new
      /\ \A q \in Reports \ {r} : report'[n][q] = report[n][q]
      /\ \A m \in Emails \ {n} : report'[m] = report[m]
  BY ReportAt
<1>3. /\ row'[n].ref = row[n].ref
      /\ \/ row'[n].status = row[n].status
         \/ row[n].status # Absent /\ row'[n].status \in FinalStatuses
      /\ \A m \in Emails \ {n} : row'[m] = row[m]
  <2>1. CASE row' = row
    BY <2>1
  <2>2. CASE /\ SetStatus(n, report[n][r].kind) /\ row[n].status # Absent
             /\ report[n][r].kind \in FinalStatuses
    <3>1. report[n][r].kind \in NotificationStatuses
      BY <2>2 DEF FinalStatuses, NotificationStatuses
    <3> QED BY <2>2, <3>1, StatusAt
  <2> QED BY <2>1, <2>2
<1>4. /\ \A k \in Nat : HandledRef(n, k)' =>
           \/ HandledRef(n, k)
           \/ /\ Handled(n, r) /\ k = report[n][r].ref
              /\ report[n][r].pc # "none"
              /\ \A t \in Tasks : Accepted(n, t) => task[n][t].ref # k
      /\ \A m \in Emails \ {n}, k \in Nat : HandledRef(m, k)' => HandledRef(m, k)
  BY DEF Handled, HandledRef
<1>5. ASSUME NEW t \in Tasks, Accepted(n, t)' PROVE FreshRef(n, t)'
  <2>1. Accepted(n, t) /\ FreshRef(n, t)
    BY <1>1, <1>5 DEF EmailRefs, Accepted
  <2>2. ~HandledRef(n, task[n][t].ref)'
    BY <1>t, <1>4, <2>1 DEF FreshRef, HandledRef
  <2>3. \A q \in Reports : report'[n][q].pc = "read"
                             => report'[n][q].ref # task[n][t].ref
    BY <1>2, <2>1 DEF FreshRef, Found
  <2> QED BY <1>3, <2>1, <2>2, <2>3 DEF FreshRef, Accepted, HandledRef
<1>6. RowRef(n)'
  <2>1. row'[n].status \in {"created", "sending", Absent} \cup FinalStatuses
    BY <1>1, <1>3 DEF EmailRefs, RowRef
  <2>2. /\ row'[n].status = "created" => row[n].ref = 0
        /\ row'[n].status = "sending" => row[n].ref > 0
    BY <1>1, <1>3 DEF EmailRefs, RowRef, FinalStatuses
  <2> QED BY <1>1, <1>3, <2>1, <2>2 DEF EmailRefs, RowRef
<1>7. ReportRef(n)'
  <2>1. \A q \in Reports : report'[n][q].pc # "none" => report'[n][q].ref \in 1..refs[n]
    BY <1>1, <1>2 DEF EmailRefs, ReportRef
  <2>2. \A k \in Nat : HandledRef(n, k)' => k \in 1..refs[n]
    BY <1>1, <1>4 DEF EmailRefs, ReportRef
  <2>3. \A q \in Reports : report'[n][q].pc = "read" => report'[n][q].kind # "complaint"
    BY <1>1, <1>2 DEF EmailRefs, ReportRef, IsComplaint
  <2> QED BY <2>1, <2>2, <2>3 DEF ReportRef, HandledRef, IsComplaint
<1>8. HandledRef(n, row[n].ref)' => row'[n].status \in FinalStatuses \cup {Absent}
  <2> SUFFICES ASSUME HandledRef(n, row[n].ref)', row'[n].status = row[n].status
               PROVE  row[n].status \in FinalStatuses \cup {Absent}
    BY <1>3
  <2>1. CASE HandledRef(n, row[n].ref)
    BY <1>1, <2>1 DEF EmailRefs
  <2>2. CASE ~HandledRef(n, row[n].ref)
    <3>1. Handled(n, r) /\ row[n].ref = report[n][r].ref
      BY <1>t, <1>3, <1>4, <2>2 DEF HandledRef
    <3>2. handled' # handled
      BY <1>3, <2>2 DEF HandledRef
    <3>3. CASE SetStatus(n, report[n][r].kind) /\ report[n][r].kind \in FinalStatuses
      <4>1. report[n][r].kind \in NotificationStatuses
        BY <3>3 DEF FinalStatuses, NotificationStatuses
      <4>2. row'[n].status = report[n][r].kind
        BY <3>3, <4>1, StatusAt
      <4> QED BY <3>3, <4>2
    <3> QED BY <3>1, <3>2, <3>3
  <2> QED BY <2>1, <2>2
<1>9. EmailRefs(n)'
  BY <1>5, <1>6, <1>7, <1>8 DEF EmailRefs
<1>10. \A m \in Emails \ {n} : SameRefs(m)
  BY <1>2, <1>3, <1>4 DEF SameRefs, HandledRef
<1> QED BY <1>9, <1>10, RefFrame

LEMMA RefDeliver ==
  ASSUME TypeOK, RefInv, NEW n \in Emails, NEW t \in Tasks,
         Deliver(n, t) \/ CrashTask(n, t)
  PROVE  RefInv'
<1>t. /\ task[n][t] \in TaskState /\ refs[n] \in Nat
      /\ refs[n] < MaxRefs /\ refs' = [refs EXCEPT ![n] = @ + 1]
           => refs'[n] \in 0..MaxRefs
  <2>1. task[n][t] \in TaskState /\ refs[n] \in Nat
    BY EmailAssumption DEF TypeOK
  <2> QED BY <2>1, CountersAt
<1>1. CASE StartMissing(n, t)
  <2>1. \E new \in TaskState : new.pc = "raised" /\ SetTask(n, t, new)
    BY <1>1, Raised DEF StartMissing
  <2> QED BY <1>1, <2>1, RefTask DEF StartMissing, Reporting
<1>2. CASE StartInactive(n, t)
  <2>1. \E new \in TaskState : new.pc = "raised" /\ SetTask(n, t, new)
    BY <1>2, Raised DEF StartInactive
  <2> QED BY <1>2, <2>1, RefTask DEF StartInactive, Reporting
<1>3. CASE StartSkip(n, t)
  BY <1>3, RefTask, TaskValues DEF StartSkip, Reporting
<1>4. CASE StartFails(n, t)
  <2>1. \E new \in TaskState : new.pc = "raised" /\ SetTask(n, t, new)
    BY <1>4, Raised DEF StartFails
  <2> QED BY <1>4, <2>1, RefTask DEF StartFails, Reporting
<1>5. CASE StartSend(n, t)
  <2> DEFINE new == [task[n][t] EXCEPT !.pc = "calling", !.seen = "created"]
  <2>1. new \in TaskState /\ new.pc = "calling"
    BY <1>t DEF TaskState, TaskPCs
  <2>2. SetTask(n, t, new)
    BY <1>5 DEF StartSend
  <2> HIDE DEF new
  <2> QED BY <1>5, <2>1, <2>2, RefTask DEF StartSend, Reporting
<1>6. CASE StartTest(n, t)
  <2> DEFINE new == [task[n][t] EXCEPT !.pc = "accepted", !.ref = refs'[n],
                                       !.seen = "created"]
  <2>0. refs'[n] \in 0..MaxRefs
    BY <1>t, <1>6 DEF StartTest
  <2>1. new \in TaskState /\ new.pc = "accepted" /\ new.ref = refs'[n]
    BY <1>t, <2>0 DEF TaskState, TaskPCs
  <2>2. SetTask(n, t, new)
    BY <1>6 DEF StartTest
  <2> HIDE DEF new
  <2> QED BY <1>6, <2>1, <2>2, RefAccept DEF StartTest, Reporting
<1>7. CASE SesAccepts(n, t)
  <2> DEFINE new == [task[n][t] EXCEPT !.pc = "accepted", !.ref = refs'[n]]
  <2>0. refs'[n] \in 0..MaxRefs
    BY <1>t, <1>7 DEF SesAccepts
  <2>1. new \in TaskState /\ new.pc = "accepted" /\ new.ref = refs'[n]
    BY <1>t, <2>0 DEF TaskState, TaskPCs
  <2>2. SetTask(n, t, new)
    BY <1>7 DEF SesAccepts
  <2> HIDE DEF new
  <2> QED BY <1>7, <2>1, <2>2, RefAccept DEF SesAccepts, Reporting
<1>8. CASE SesFails(n, t) \/ CommitFails(n, t) \/ SendEmailResponseFails(n, t)
  <2>1. \E new \in TaskState : new.pc = "raised" /\ SetTask(n, t, new)
    BY <1>8, Raised DEF SesFails, CommitFails, SendEmailResponseFails
  <2> QED BY <1>8, <2>1, RefTask
          DEF SesFails, CommitFails, SendEmailResponseFails, Reporting
<1>9. CASE SesTimesOut(n, t)
  <2>1. \E new \in TaskState : new.pc = "raised" /\ SetTask(n, t, new)
    BY <1>9, Raised DEF SesTimesOut
  <2> QED BY <1>9, <2>1, RefTask DEF SesTimesOut, Reporting
<1>10. CASE SesRefuses(n, t)
  <2> DEFINE new == [task[n][t] EXCEPT !.pc = "failing"]
  <2>1. new \in TaskState /\ new.pc = "failing"
    BY <1>t DEF TaskState, TaskPCs
  <2>2. SetTask(n, t, new)
    BY <1>10 DEF SesRefuses
  <2> HIDE DEF new
  <2> QED BY <1>10, <2>1, <2>2, RefTask DEF SesRefuses, Reporting
<1>11. CASE RetryTask(n, t)
  <2> DEFINE k == task[n][t].retries + 1
  <2>1. k \in 0..MaxRetries
    BY <1>t, <1>11, EmailAssumption DEF RetryTask, TaskState
  <2>2. SetTask(n, t, [NewTask EXCEPT !.retries = k])
    BY <1>11 DEF RetryTask
  <2> HIDE DEF k
  <2> QED BY <1>11, <2>1, <2>2, RefTask, TaskValues DEF RetryTask, Reporting
<1>12. CASE GiveUp(n, t)
  <2>1. \/ row' = row
        \/ row[n].status # Absent /\ SetStatus(n, "technical-failure")
    BY <1>12 DEF GiveUp, Updates
  <2> QED BY <1>12, <2>1, RefTask, TaskValues DEF GiveUp, Reporting
<1>13. CASE CrashTask(n, t)
  <2>1. refs' = refs \/ (refs[n] < MaxRefs /\ refs' = [refs EXCEPT ![n] = @ + 1])
    BY <1>13 DEF CrashTask
  <2> QED BY <1>13, <2>1, RefTask, TaskValues DEF CrashTask, Reporting
<1>14. ASSUME NEW r \in Reports, NEW k \in ReportKinds,
              SendEmailResponse(n, t, r, k)
       PROVE  RefInv'
  <2>1. RowRef(n) /\ row[n].ref \in Nat /\ row[n] \in Row
    BY RefTypes DEF RefInv, EmailRefs, TypeOK, Row
  <2>2. row[n].ref \in 1..refs[n]
    BY <1>14, <2>1 DEF SendEmailResponse, RowRef
  <2> DEFINE new == [NoReport EXCEPT !.pc = "transit", !.kind = k,
                                     !.ref = row[n].ref]
  <2>3. new \in ReportState /\ new.pc = "transit" /\ new.ref = row[n].ref
    BY <2>1, ReportValues DEF ReportState, ReportPCs, Row
  <2>4. SetReport(n, r, new) /\ SetTask(n, t, FreeTask)
    BY <1>14 DEF SendEmailResponse
  <2> HIDE DEF new
  <2>5. /\ \A u \in Tasks : task'[n][u].pc \in {"accepted", "responding"}
                              => task'[n][u] = task[n][u]
        /\ \A m \in Emails \ {n} : task'[m] = task[m]
        /\ \A q \in Reports \ {r} : report'[n][q] = report[n][q]
        /\ report'[n][r] = new
        /\ \A m \in Emails \ {n} : report'[m] = report[m]
    <3>1. /\ report'[n][r] = new
          /\ \A q \in Reports \ {r} : report'[n][q] = report[n][q]
          /\ \A m \in Emails \ {n} : report'[m] = report[m]
      BY <2>3, <2>4, ReportAt
    <3>2. /\ task'[n][t] = FreeTask
          /\ \A u \in Tasks \ {t} : task'[n][u] = task[n][u]
          /\ \A m \in Emails \ {n} : task'[m] = task[m]
      BY <2>4, TaskAt, FirstTasks
    <3> QED BY <3>1, <3>2, FirstTasks
  <2>6. EmailRefs(n) /\ UNCHANGED <<row, refs, handled>>
    BY <1>14 DEF SendEmailResponse, RefInv
  <2>7. ASSUME NEW u \in Tasks, Accepted(n, u)' PROVE FreshRef(n, u)'
    <3>1. FreshRef(n, u)
      BY <2>5, <2>6, <2>7 DEF Accepted, EmailRefs
    <3> QED BY <2>3, <2>5, <2>6, <2>7, <3>1 DEF Accepted, FreshRef, HandledRef
  <2>8. RowRef(n)' /\ ReportRef(n)'
    BY <2>2, <2>3, <2>5, <2>6
       DEF EmailRefs, RowRef, ReportRef, HandledRef, IsComplaint
  <2>9. EmailRefs(n)'
    BY <2>6, <2>7, <2>8 DEF EmailRefs, HandledRef
  <2>10. \A m \in Emails \ {n} : SameRefs(m)
    BY <2>5, <2>6 DEF SameRefs, HandledRef
  <2> QED BY <2>9, <2>10, RefFrame
<1> QED BY <1>1, <1>2, <1>3, <1>4, <1>5, <1>6, <1>7, <1>8, <1>9, <1>10, <1>11,
           <1>12, <1>13, <1>14, RefCommit
        DEF Deliver, Start, Continue

LEMMA RefProcess ==
  ASSUME TypeOK, RefInv, NEW n \in Emails, NEW r \in Reports,
         ProcessReport(n, r) \/ CrashReport(n, r)
  PROVE  RefInv'
<1> DEFINE rp == report[n][r]
<1>e. EmailRefs(n)
  BY DEF RefInv
<1>t. rp \in ReportState
  BY DEF TypeOK
<1>u. UNCHANGED <<task, refs>>
  BY DEF ProcessReport, CrashReport, ReportUnknown, ReportDuplicate,
         ReportReads, ReportUpdates, ReportTells, ReportTellFails,
         ComplaintUnknown, SaveComplaint, TellComplaint, TellComplaintFails
<1>p. rp.pc # "none" /\ rp.ref \in 1..refs[n]
  <2>1. rp.pc # "none"
    BY DEF ProcessReport, CrashReport, ReportUnknown, ReportDuplicate, Received,
           ReportReads, ReportUpdates, ReportTells, ReportTellFails,
           ComplaintUnknown, SaveComplaint, TellComplaint, TellComplaintFails
  <2> QED BY <1>e, <2>1 DEF EmailRefs, ReportRef
<1>f. ASSUME Found(n, r), NEW t \in Tasks, Accepted(n, t)
      PROVE  task[n][t].ref # rp.ref
  BY <1>e, <1>f DEF EmailRefs, FreshRef, Found
<1>n. NoReport \in ReportState /\ NoReport.pc = "none"
  BY ReportValues
<1>1. CASE SetReport(n, r, NoReport) /\ UNCHANGED <<row, handled>>
  BY <1>1, <1>u, <1>n, RefReport
<1>2. CASE Again(n, r) /\ UNCHANGED <<row, handled>>
  <2>1. PICK new \in ReportState :
          /\ \/ new.pc = "none"
             \/ new.pc = "transit" /\ new.ref = report[n][r].ref
          /\ SetReport(n, r, new)
    BY <1>2, Retried
  <2> QED BY <1>2, <1>u, <1>p, <2>1, RefReport
<1>3. CASE ReportUnknown(n, r) /\ ~rp.recent
  <2>1. SetReport(n, r, NoReport) /\ Handled(n, r) /\ row' = row
    BY <1>3 DEF ReportUnknown
  <2>2. \A t \in Tasks : Accepted(n, t) => task[n][t].ref # rp.ref
    BY <1>3 DEF ReportUnknown, FiveMinutesOver, Uncommitted, Accepted
  <2>3. row[n].ref = rp.ref => row[n].status \in FinalStatuses \cup {Absent}
    BY <1>3 DEF ReportUnknown, Found
  <2> QED BY <1>n, <1>u, <1>p, <2>1, <2>2, <2>3, RefReport
<1>4. CASE ReportDuplicate(n, r)
  <2>1. row[n].ref = rp.ref => row[n].status \in FinalStatuses \cup {Absent}
    BY <1>4, <1>e, <1>p
       DEF ReportDuplicate, EmailRefs, RowRef, InFlightStatuses
  <2>2. /\ SetReport(n, r, NoReport) /\ Handled(n, r) /\ row' = row
        /\ Found(n, r)
    BY <1>4 DEF ReportDuplicate
  <2> QED BY <1>n, <1>u, <1>p, <1>f, <2>1, <2>2, RefReport
<1>5. CASE ReportReads(n, r)
  <2> DEFINE new == [rp EXCEPT !.pc = "read"]
  <2>1. new \in ReportState /\ new.ref = rp.ref /\ new.kind = rp.kind
    BY <1>t DEF ReportState, ReportPCs
  <2>2. /\ SetReport(n, r, new) /\ UNCHANGED <<row, handled>>
        /\ Found(n, r) /\ ~IsComplaint(n, r)
    BY <1>5 DEF ReportReads
  <2> HIDE DEF new
  <2> QED BY <1>u, <1>p, <2>1, <2>2, RefReport
<1>6. CASE ReportUpdates(n, r)
  <2> DEFINE new == [rp EXCEPT !.pc = "updated"]
  <2>1. new \in ReportState /\ new.ref = rp.ref /\ new.pc = "updated"
    BY <1>t DEF ReportState, ReportPCs
  <2>2. SetReport(n, r, new) /\ Handled(n, r)
    BY <1>6 DEF ReportUpdates
  <2>3. \A t \in Tasks : Accepted(n, t) => task[n][t].ref # rp.ref
    BY <1>6, <1>e DEF ReportUpdates, EmailRefs, FreshRef
  <2>4. rp.kind \in FinalStatuses
    BY <1>6, <1>e, <1>t
       DEF ReportUpdates, EmailRefs, ReportRef, IsComplaint, ReportState,
           ReportKinds, FinalStatuses
  <2>5. \/ /\ row' = row
           /\ row[n].ref = rp.ref => row[n].status \in FinalStatuses \cup {Absent}
        \/ SetStatus(n, rp.kind) /\ row[n].status # Absent
    BY <1>6 DEF ReportUpdates, Found
  <2> HIDE DEF new
  <2> QED BY <1>u, <1>p, <2>1, <2>2, <2>3, <2>4, <2>5, RefReport
<1>7. CASE SaveComplaint(n, r)
  <2> DEFINE new == [rp EXCEPT !.pc = "saved"]
  <2>1. new \in ReportState /\ new.ref = rp.ref /\ new.pc = "saved"
    BY <1>t DEF ReportState, ReportPCs
  <2>2. SetReport(n, r, new) /\ UNCHANGED <<row, handled>>
    BY <1>7 DEF SaveComplaint
  <2> HIDE DEF new
  <2> QED BY <1>u, <1>p, <2>1, <2>2, RefReport
<1> QED BY <1>1, <1>2, <1>3, <1>4, <1>5, <1>6, <1>7
        DEF ProcessReport, CrashReport, ReportUnknown, ReportTells,
            ReportTellFails, ComplaintUnknown, TellComplaint, TellComplaintFails

\* Redelivery, the replay, what SES posts, and the scheduled tasks.
LEMMA RefOther ==
  ASSUME TypeOK, RefInv, NEW n \in Emails,
         \/ \E t, u \in Tasks : Redeliver(n, t, u)
         \/ \E t \in Tasks : ReplayEnqueue(n, t)
         \/ \E r \in Reports, ref \in 1..MaxRefs, k \in ReportKinds :
              SesPosts(n, r, ref, k)
         \/ Age(n) \/ ReplaySelect(n) \/ ReplayFails(n)
         \/ TimeoutSelect(n) \/ TimeoutUpdate(n) \/ TimeoutTell(n)
  PROVE  RefInv'
<1>e. EmailRefs(n)
  BY DEF RefInv
<1>1. ASSUME NEW t \in Tasks, NEW u \in Tasks, Redeliver(n, t, u)
      PROVE  RefInv'
  <2>1. task[n][t] \in TaskState /\ task[n][t].pc = "queued"
    BY <1>1 DEF TypeOK, Redeliver
  <2> QED BY <1>1, <2>1, RefTask DEF Redeliver, Reporting
<1>2. ASSUME NEW t \in Tasks, ReplayEnqueue(n, t) PROVE RefInv'
  BY <1>2, RefTask, TaskValues DEF ReplayEnqueue, Reporting
<1>3. ASSUME NEW r \in Reports, NEW ref \in 1..MaxRefs, NEW k \in ReportKinds,
             SesPosts(n, r, ref, k)
      PROVE  RefInv'
  <2> DEFINE new == [NoReport EXCEPT !.pc = "transit", !.ref = ref, !.kind = k]
  <2>1. ref \in 0..MaxRefs
    BY EmailAssumption
  <2>2. new \in ReportState /\ new.pc = "transit" /\ new.ref = ref
    BY <2>1, ReportValues
  <2>3. /\ SetReport(n, r, new) /\ UNCHANGED <<row, handled, task, refs>>
        /\ ref \in 1..refs[n]
    BY <1>3 DEF SesPosts
  <2> HIDE DEF new
  <2> QED BY <2>2, <2>3, RefReport
<1>4. CASE UNCHANGED <<row, task, refs, report, handled>>
  <2>1. \A m \in Emails : SameRefs(m)
    BY <1>4 DEF SameRefs, HandledRef
  <2>2. EmailRefs(n)'
    BY <1>4, <1>e DEF EmailRefs, Accepted, FreshRef, RowRef, ReportRef,
       HandledRef, IsComplaint
  <2> QED BY <2>1, <2>2, RefFrame
<1>5. CASE /\ UNCHANGED <<task, refs, report, handled>>
           /\ row'[n].status \in {"temporary-failure", Absent}
           /\ \/ row'[n].status = Absent /\ row'[n].ref = 0
              \/ row[n].status # Absent /\ row'[n].ref = row[n].ref
           /\ \A m \in Emails \ {n} : row'[m] = row[m]
  <2>1. \A m \in Emails \ {n} : SameRefs(m)
    BY <1>5 DEF SameRefs, HandledRef
  <2>2. ASSUME NEW t \in Tasks, Accepted(n, t)' PROVE FreshRef(n, t)'
    <3>1. FreshRef(n, t) /\ task[n][t].ref # 0
      BY <1>5, <1>e, <2>2, RefTypes DEF Accepted, EmailRefs, FreshRef
    <3> QED BY <1>5, <3>1 DEF FreshRef, Accepted, HandledRef
  <2>3. RowRef(n)'
    <3>1. refs[n] \in Nat
      BY RefTypes
    <3> QED BY <1>5, <1>e, <3>1 DEF EmailRefs, RowRef, FinalStatuses, Absent
  <2>4. ReportRef(n)'
    BY <1>5, <1>e DEF EmailRefs, ReportRef, HandledRef, IsComplaint
  <2>5. EmailRefs(n)'
    BY <1>5, <2>2, <2>3, <2>4 DEF EmailRefs, FinalStatuses
  <2> QED BY <2>1, <2>5, RefFrame
<1>6. CASE ReplayFails(n)
  <2>1. /\ row'[n].status = Absent /\ row'[n].ref = 0
        /\ \A m \in Emails \ {n} : row'[m] = row[m]
    BY <1>6 DEF ReplayFails, TypeOK
  <2> QED BY <1>5, <1>6, <2>1 DEF ReplayFails, Reporting
<1>7. CASE TimeoutUpdate(n)
  <2>1. CASE row[n].status = Absent
    BY <1>4, <1>7, <2>1 DEF TimeoutUpdate, Reporting
  <2>2. CASE row[n].status # Absent
    <3>1. /\ row'[n].status = "temporary-failure" /\ row'[n].ref = row[n].ref
          /\ \A m \in Emails \ {n} : row'[m] = row[m]
      BY <1>7, <2>2, StatusAt DEF TimeoutUpdate, NotificationStatuses
    <3> QED BY <1>5, <1>7, <2>2, <3>1 DEF TimeoutUpdate, Reporting
  <2> QED BY <2>1, <2>2
<1> QED BY <1>1, <1>2, <1>3, <1>4, <1>6, <1>7
        DEF Age, ReplaySelect, TimeoutSelect, TimeoutTell, Reporting

LEMMA RefInit ==
  ASSUME Init
  PROVE  RefInv
<1> SUFFICES ASSUME NEW n \in Emails PROVE EmailRefs(n)
  BY DEF RefInv
<1>1. \A t \in Tasks : task[n][t].pc \in {"free", "queued"}
  <2>1. task[n] \in [Tasks -> {FreeTask, NewTask}]
    BY DEF Init
  <2> QED BY <2>1, FirstTasks
<1>2. \A r \in Reports : report[n][r].pc = "none"
  BY ReportValues DEF Init
<1>3. row[n].status = "created" /\ row[n].ref = 0 /\ refs[n] = 0
  BY DEF Init
<1>4. \A k : ~HandledRef(n, k)
  BY DEF Init, HandledRef
<1>5. RowRef(n)
  BY <1>1, <1>3 DEF RowRef
<1>6. ReportRef(n)
  BY <1>2, <1>4 DEF ReportRef
<1> QED BY <1>1, <1>4, <1>5, <1>6 DEF EmailRefs, Accepted

LEMMA TypeInit ==
  ASSUME Init
  PROVE  TypeOK
<1>1. /\ 0 \in 0..MaxRefs /\ 0 \in 0..MaxPosts /\ 0 \in 0..MaxFaults
  BY EmailAssumption
<1>2. task \in [Emails -> [Tasks -> TaskState]]
  <2>1. task \in [Emails -> [Tasks -> {FreeTask, NewTask}]]
    BY DEF Init
  <2> QED BY <2>1, FirstTasks
<1>3. report \in [Emails -> [Reports -> ReportState]]
  BY ReportValues DEF Init
<1>4. row \in [Emails -> Row]
  BY <1>1 DEF Init, Row, NotificationStatuses
<1>5. told \in [Emails -> Seq(NotificationStatuses)]
  BY DEF Init
<1> QED BY <1>1, <1>2, <1>3, <1>4, <1>5 DEF Init, TypeOK, Row

LEMMA RefStep ==
  ASSUME TypeOK, RefInv, [Next]_vars
  PROVE  TypeOK' /\ RefInv'
<1>1. CASE UNCHANGED vars
  <2>1. TypeOK'
    BY <1>1 DEF vars, TypeOK
  <2>2. ASSUME NEW n \in Emails PROVE EmailRefs(n)'
    BY <1>1 DEF vars, RefInv, EmailRefs, Accepted, FreshRef, RowRef, ReportRef,
       HandledRef, IsComplaint
  <2> QED BY <2>1, <2>2 DEF RefInv
<1>2. CASE Next
  <2>1. ReportsOk
    BY DEF ReportsOk, RefInv, EmailRefs, ReportRef
  <2>2. TypeOK'
    BY <1>2, <2>1, TypeStep
  <2>3. CASE ArchiveService
    <3>1. UNCHANGED <<row, task, refs, report, handled>>
      BY <2>3 DEF ArchiveService, Reporting
    <3>2. ASSUME NEW n \in Emails PROVE EmailRefs(n)'
      BY <3>1 DEF RefInv, EmailRefs, Accepted, FreshRef, RowRef, ReportRef,
         HandledRef, IsComplaint
    <3> QED BY <2>2, <3>2 DEF RefInv
  <2>4. ASSUME NEW n \in Emails, NEW t \in Tasks,
               \/ Deliver(n, t) \/ CrashTask(n, t) \/ ReplayEnqueue(n, t)
               \/ \E u \in Tasks : Redeliver(n, t, u)
        PROVE  RefInv'
    BY <2>4, RefDeliver, RefOther
  <2>5. ASSUME NEW n \in Emails, NEW r \in Reports,
               \/ ProcessReport(n, r) \/ CrashReport(n, r)
               \/ \E ref \in 1..MaxRefs, k \in ReportKinds : SesPosts(n, r, ref, k)
        PROVE  RefInv'
    BY <2>5, RefProcess, RefOther
  <2>6. ASSUME NEW n \in Emails,
               \/ Age(n) \/ ReplaySelect(n) \/ ReplayFails(n) \/ TimeoutSelect(n)
               \/ TimeoutUpdate(n) \/ TimeoutTell(n)
        PROVE  RefInv'
    BY <2>6, RefOther
  <2> QED BY <1>2, <2>2, <2>3, <2>4, <2>5, <2>6 DEF Next
<1> QED BY <1>1, <1>2

LEMMA RefAlways == Spec => [](TypeOK /\ RefInv)
BY TypeInit, RefInit, RefStep, PTL DEF Spec

\* Every variable keeps its type.
THEOREM TypeCorrect == Spec => []TypeOK
BY RefAlways, PTL

\* Once process_ses_results has dealt with a delivery or bounce report for the
\* reference an email carries, the email is in a final status, for any number of
\* overlapping tasks and reports.
THEOREM HandledStaysFinal == Spec => []HandledIsFinal
<1>1. RefInv => HandledIsFinal
  BY DEF RefInv, EmailRefs, HandledRef, HandledIsFinal
<1> QED BY <1>1, RefAlways, PTL

-----------------------------------------------------------------------------
(* Handlers of one email that do not overlap.                              *)

Running(n, t) == task[n][t].pc \notin {"free", "queued"}
Handling(n, r) == report[n][r].pc \notin {"none", "transit"}

\* One handler of an email is at work: a task, a report or the timeout.
OneHandler(n) ==
  /\ \A t, u \in Tasks : Running(n, t) /\ Running(n, u) => t = u
  /\ \A r, q \in Reports : Handling(n, r) /\ Handling(n, q) => r = q
  /\ \A t \in Tasks, r \in Reports : ~(Running(n, t) /\ Handling(n, r))
  /\ sweep[n] # "idle" =>
       /\ \A t \in Tasks : ~Running(n, t)
       /\ \A r \in Reports : ~Handling(n, r)

\* A task between the start of its call and its commit finds the row `created'.
SentFromCreated(n) ==
  \A t \in Tasks :
    task[n][t].pc \in {"calling", "accepted"} => row[n].status = "created"

\* While the row is `created' and no acceptance waits for its commit, each
\* reference was lost.
Budget(n) ==
  /\ refs[n] <= lost[n] + 1
  /\ (row[n].status = "created" /\ \A t \in Tasks : ~Accepted(n, t))
       => refs[n] <= lost[n]

\* Whoever is about to tell the service is the first to, and the email is
\* settled once it was told.
ToldOnce(n) ==
  /\ told[n] # << >> => row[n].status \in FinalStatuses \cup {Absent}
  /\ told[n] = << >> \/ \E s \in FinalStatuses : told[n] = <<s>>
  /\ \A r \in Reports :
       /\ report[n][r].pc = "read" =>
            told[n] = << >> /\ row[n].status \in InFlightStatuses /\ Found(n, r)
       /\ report[n][r].pc = "updated" =>
            told[n] = << >> /\ row[n].status \in FinalStatuses
  /\ sweep[n] = "selected" =>
       told[n] = << >> /\ row[n].status \in InFlightStatuses
  /\ sweep[n] = "telling" => told[n] = << >> /\ row[n].status \in FinalStatuses

EmailSerial(n) ==
  OneHandler(n) /\ SentFromCreated(n) /\ Budget(n) /\ ToldOnce(n)

SerialInv == \A n \in Emails : EmailSerial(n)

\* What EmailSerial(m) reads.
SameEmail(m) ==
  /\ row'[m] = row[m] /\ task'[m] = task[m] /\ refs'[m] = refs[m]
  /\ lost'[m] = lost[m] /\ report'[m] = report[m] /\ told'[m] = told[m]
  /\ sweep'[m] = sweep[m]

LEMMA SerialFrame ==
  ASSUME SerialInv, NEW n \in Emails, EmailSerial(n)',
         \A m \in Emails \ {n} : SameEmail(m)
  PROVE  SerialInv'
<1> SUFFICES ASSUME NEW m \in Emails \ {n} PROVE EmailSerial(m)'
  BY DEF SerialInv
<1>1. EmailSerial(m) /\ SameEmail(m)
  BY DEF SerialInv
<1>2. OneHandler(m)'
  BY <1>1 DEF EmailSerial, OneHandler, Running, Handling, SameEmail
<1>3. SentFromCreated(m)' /\ Budget(m)'
  BY <1>1 DEF EmailSerial, SentFromCreated, Budget, Accepted, SameEmail
<1>4. ToldOnce(m)'
  BY <1>1 DEF EmailSerial, ToldOnce, Found, SameEmail
<1> QED BY <1>2, <1>3, <1>4 DEF EmailSerial

\* A task, or a report, that is the only one at work on its email.
Sole(n, t) ==
  /\ \A u \in Tasks \ {t} : ~Running(n, u)
  /\ \A r \in Reports : ~Handling(n, r)
  /\ sweep[n] = "idle"

Alone(n, r) ==
  /\ \A t \in Tasks : ~Running(n, t)
  /\ \A q \in Reports \ {r} : ~Handling(n, q)
  /\ sweep[n] = "idle"

LEMMA SoleTask ==
  ASSUME NEW n \in Emails, NEW t \in Tasks, OneHandler(n),
         Running(n, t) \/ Idle(n)
  PROVE  Sole(n, t)
  BY DEF OneHandler, Sole, Running, Handling, Idle

LEMMA AloneReport ==
  ASSUME NEW n \in Emails, NEW r \in Reports, OneHandler(n),
         Handling(n, r) \/ Idle(n)
  PROVE  Alone(n, r)
  BY DEF OneHandler, Alone, Running, Handling, Idle

\* The budget is kept when the counts stand still and the row does not return to
\* `created', unless an acceptance that was waiting is gone.
LEMMA BudgetKept ==
  ASSUME TypeOK, NEW n \in Emails, Budget(n), refs'[n] = refs[n],
         row'[n].status = "created" => row[n].status = "created",
         \/ lost'[n] = lost[n] + 1
         \/ /\ lost'[n] = lost[n]
            /\ \/ row'[n].status # "created"
               \/ \A t \in Tasks : Accepted(n, t) => Accepted(n, t)'
  PROVE  Budget(n)'
<1>1. refs[n] \in Nat /\ lost[n] \in Nat
  BY RefTypes DEF TypeOK
<1>2. CASE lost'[n] = lost[n] + 1
  BY <1>1, <1>2 DEF Budget
<1>3. CASE lost'[n] = lost[n] /\ row'[n].status # "created"
  BY <1>1, <1>3 DEF Budget
<1>4. CASE /\ lost'[n] = lost[n]
           /\ \A t \in Tasks : Accepted(n, t) => Accepted(n, t)'
  BY <1>1, <1>4 DEF Budget
<1> QED BY <1>2, <1>3, <1>4

\* A step of the only task at work.
LEMMA SerialTask ==
  ASSUME TypeOK, SerialInv, NEW n \in Emails, NEW t \in Tasks,
         NEW new \in TaskState, SetTask(n, t, new), Sole(n, t),
         \A r \in Reports : ~Handling(n, r)',
         \A m \in Emails \ {n} :
           /\ row'[m] = row[m] /\ refs'[m] = refs[m] /\ lost'[m] = lost[m]
           /\ report'[m] = report[m],
         UNCHANGED <<told, sweep>>,
         \/ row'[n].status \in {row[n].status, "technical-failure"}
         \/ told[n] = << >>,
         new.pc \in {"calling", "accepted"} => row'[n].status = "created",
         Budget(n)'
  PROVE  SerialInv'
<1>1. EmailSerial(n)
  BY DEF SerialInv
<1>2. /\ task'[n][t] = new
      /\ \A u \in Tasks \ {t} : task'[n][u] = task[n][u]
      /\ \A m \in Emails \ {n} : task'[m] = task[m]
  BY TaskAt
<1>3. \A u \in Tasks \ {t} : task'[n][u].pc \in {"free", "queued"}
  BY <1>2 DEF Sole, Running
<1>4. OneHandler(n)'
  BY <1>3 DEF OneHandler, Running, Sole
<1>5. SentFromCreated(n)'
  BY <1>2, <1>3 DEF SentFromCreated
<1>6. ToldOnce(n)'
  <2>1. told'[n] # << >> => row'[n].status \in FinalStatuses \cup {Absent}
    BY <1>1 DEF EmailSerial, ToldOnce, FinalStatuses
  <2>2. sweep'[n] = "idle"
    BY DEF Sole
  <2>3. \A r \in Reports : report'[n][r].pc \notin {"read", "updated"}
    BY DEF Handling
  <2> QED BY <1>1, <2>1, <2>2, <2>3 DEF EmailSerial, ToldOnce
<1>7. \A m \in Emails \ {n} : SameEmail(m)
  BY <1>2 DEF SameEmail
<1> QED BY <1>4, <1>5, <1>6, <1>7, SerialFrame DEF EmailSerial

\* A copy joins the queue.
LEMMA SerialQueue ==
  ASSUME TypeOK, SerialInv, NEW n \in Emails, NEW t \in Tasks,
         NEW new \in TaskState, SetTask(n, t, new),
         task[n][t].pc = "free", new.pc = "queued",
         UNCHANGED <<row, refs, lost, report, told, sweep>>
  PROVE  SerialInv'
<1>1. EmailSerial(n)
  BY DEF SerialInv
<1>2. /\ task'[n][t] = new
      /\ \A u \in Tasks \ {t} : task'[n][u] = task[n][u]
      /\ \A m \in Emails \ {n} : task'[m] = task[m]
  BY TaskAt
<1>3. OneHandler(n)'
  BY <1>1, <1>2 DEF EmailSerial, OneHandler, Running, Handling
<1>4. SentFromCreated(n)'
  BY <1>1, <1>2 DEF EmailSerial, SentFromCreated
<1>5. Budget(n)'
  BY <1>1, <1>2, BudgetKept DEF EmailSerial, Accepted
<1>6. ToldOnce(n)'
  BY <1>1 DEF EmailSerial, ToldOnce, Found
<1>7. \A m \in Emails \ {n} : SameEmail(m)
  BY <1>2 DEF SameEmail
<1> QED BY <1>3, <1>4, <1>5, <1>6, <1>7, SerialFrame DEF EmailSerial

\* A step of the only report at work, or one that only leaves the queue.
LEMMA SerialReport ==
  ASSUME TypeOK, SerialInv, NEW n \in Emails, NEW r \in Reports,
         NEW new \in ReportState, SetReport(n, r, new),
         \/ Alone(n, r)
         \/ new.pc \in {"none", "transit"} /\ UNCHANGED <<row, told>>,
         \A m \in Emails \ {n} : row'[m] = row[m] /\ told'[m] = told[m],
         UNCHANGED <<task, refs, lost, sweep>>,
         row'[n].status = row[n].status \/ row'[n].status # "created",
         told'[n] # << >> => row'[n].status \in FinalStatuses \cup {Absent},
         told'[n] = << >> \/ \E s \in FinalStatuses : told'[n] = <<s>>,
         new.pc = "read" =>
           /\ told'[n] = << >> /\ row'[n].status \in InFlightStatuses
           /\ row'[n].ref = new.ref,
         new.pc = "updated" => told'[n] = << >> /\ row'[n].status \in FinalStatuses
  PROVE  SerialInv'
<1>1. EmailSerial(n)
  BY DEF SerialInv
<1>2. /\ report'[n][r] = new
      /\ \A q \in Reports \ {r} : report'[n][q] = report[n][q]
      /\ \A m \in Emails \ {n} : report'[m] = report[m]
  BY ReportAt
<1>3. \A m \in Emails \ {n} : SameEmail(m)
  BY <1>2 DEF SameEmail
<1>4. Budget(n)'
  BY <1>1, BudgetKept DEF EmailSerial, Accepted
<1>5. CASE Alone(n, r)
  <2>1. \A q \in Reports \ {r} : report'[n][q].pc \in {"none", "transit"}
    BY <1>2, <1>5 DEF Alone, Handling
  <2>2. \A t \in Tasks : task[n][t].pc \in {"free", "queued"}
    BY <1>5 DEF Alone, Running
  <2>3. OneHandler(n)'
    BY <1>5, <2>1, <2>2 DEF OneHandler, Running, Handling, Alone
  <2>4. SentFromCreated(n)'
    BY <2>2 DEF SentFromCreated
  <2>5. sweep'[n] = "idle"
    BY <1>5 DEF Alone
  <2>6. ASSUME NEW q \in Reports
        PROVE  /\ report'[n][q].pc = "read" =>
                    /\ told'[n] = << >> /\ row'[n].status \in InFlightStatuses
                    /\ Found(n, q)'
               /\ report'[n][q].pc = "updated" =>
                    told'[n] = << >> /\ row'[n].status \in FinalStatuses
    BY <1>2, <2>1 DEF Found, InFlightStatuses, Absent
  <2>7. ToldOnce(n)'
    BY <2>5, <2>6 DEF ToldOnce
  <2> QED BY <1>3, <1>4, <2>3, <2>4, <2>7, SerialFrame DEF EmailSerial
<1>6. CASE new.pc \in {"none", "transit"} /\ UNCHANGED <<row, told>>
  <2>1. OneHandler(n)'
    BY <1>1, <1>2, <1>6 DEF EmailSerial, OneHandler, Running, Handling
  <2>2. SentFromCreated(n)'
    BY <1>1, <1>6 DEF EmailSerial, SentFromCreated
  <2>3. ToldOnce(n)'
    BY <1>1, <1>2, <1>6 DEF EmailSerial, ToldOnce, Found
  <2> QED BY <1>3, <1>4, <2>1, <2>2, <2>3, SerialFrame DEF EmailSerial
<1> QED BY <1>5, <1>6

\* A task that is calling SES is within budget before the answer.
LEMMA CallingBudget ==
  ASSUME TypeOK, NEW n \in Emails, NEW t \in Tasks, EmailSerial(n), Sole(n, t),
         task[n][t].pc = "calling"
  PROVE  /\ row[n].status = "created" /\ refs[n] <= lost[n]
         /\ refs[n] \in Nat /\ lost[n] \in Nat
<1>1. row[n].status = "created"
  BY DEF EmailSerial, SentFromCreated
<1>2. \A u \in Tasks : ~Accepted(n, u)
  BY DEF Sole, Running, Accepted
<1> QED BY <1>1, <1>2, RefTypes DEF EmailSerial, Budget, TypeOK

\* The steps that leave the counters, and the row but for a failure, alone.
LEMMA SerialLeave ==
  ASSUME TypeOK, SerialInv, NEW n \in Emails, NEW t \in Tasks,
         NEW new \in TaskState, SetTask(n, t, new), Sole(n, t),
         new.pc = "calling" => row'[n].status = "created",
         new.pc # "accepted", task[n][t].pc # "accepted",
         row' = row \/ SetStatus(n, "technical-failure"),
         UNCHANGED <<refs, lost, report, told, sweep>>
  PROVE  SerialInv'
<1>1. Budget(n)
  BY DEF SerialInv, EmailSerial
<1>2. \A u \in Tasks : ~Accepted(n, u)
  BY DEF Sole, Running, Accepted
<1>3. /\ row'[n].status \in {row[n].status, "technical-failure"}
      /\ \A m \in Emails \ {n} : row'[m] = row[m]
  BY StatusAt DEF NotificationStatuses
<1>4. Budget(n)'
  BY <1>1, <1>2, <1>3, BudgetKept
<1>5. \A r \in Reports : ~Handling(n, r)'
  BY DEF Sole, Handling
<1> QED BY <1>3, <1>4, <1>5, SerialTask

LEMMA SerialStart ==
  ASSUME TypeOK, ~Overlap, SerialInv, NEW n \in Emails, NEW t \in Tasks,
         Start(n, t)
  PROVE  SerialInv'
<1>t. task[n][t] \in TaskState /\ refs[n] \in Nat /\ lost[n] \in Nat
  BY RefTypes DEF TypeOK
<1>i. task[n][t].pc = "queued" /\ Idle(n)
  BY DEF Start, StartMissing, StartInactive, StartSkip, StartFails, StartSend,
         StartTest, Starting, MayStart
<1>e. EmailSerial(n) /\ OneHandler(n)
  BY DEF SerialInv, EmailSerial
<1>s. Sole(n, t)
  BY <1>i, <1>e, SoleTask
<1>1. CASE StartMissing(n, t) \/ StartInactive(n, t) \/ StartFails(n, t)
  <2>1. \E new \in TaskState : new.pc = "raised" /\ SetTask(n, t, new)
    BY <1>1, Raised DEF StartMissing, StartInactive, StartFails
  <2>2. /\ row' = row \/ SetStatus(n, "technical-failure")
        /\ UNCHANGED <<refs, lost, report, told, sweep>>
    BY <1>1 DEF StartMissing, StartInactive, StartFails, Reporting, Schedule
  <2> QED BY <1>i, <1>s, <2>1, <2>2, SerialLeave
<1>2. CASE StartSkip(n, t)
  <2>1. SetTask(n, t, FreeTask) /\ UNCHANGED <<row, refs, lost, report, told, sweep>>
    BY <1>2 DEF StartSkip, Reporting, Schedule
  <2> QED BY <1>i, <1>s, <2>1, SerialLeave, FirstTasks
<1>3. CASE StartSend(n, t)
  <2> DEFINE new == [task[n][t] EXCEPT !.pc = "calling", !.seen = "created"]
  <2>1. new \in TaskState /\ new.pc = "calling"
    BY <1>t DEF TaskState, TaskPCs
  <2>2. /\ SetTask(n, t, new) /\ row[n].status = "created"
        /\ UNCHANGED <<row, refs, lost, report, told, sweep>>
    BY <1>3 DEF StartSend, Reporting, Schedule
  <2> HIDE DEF new
  <2> QED BY <1>i, <1>s, <2>1, <2>2, SerialLeave
<1>4. CASE StartTest(n, t)
  <2> DEFINE new == [task[n][t] EXCEPT !.pc = "accepted", !.ref = refs'[n],
                                       !.seen = "created"]
  <2>0. /\ refs'[n] = refs[n] + 1 /\ refs'[n] \in 0..MaxRefs
        /\ \A m \in Emails \ {n} : refs'[m] = refs[m]
    BY <1>4, CountersAt DEF StartTest
  <2>1. new \in TaskState /\ new.pc = "accepted"
    BY <1>t, <2>0 DEF TaskState, TaskPCs
  <2>2. /\ SetTask(n, t, new) /\ row[n].status = "created"
        /\ UNCHANGED <<row, lost, report, told, sweep>>
    BY <1>4 DEF StartTest, Reporting, Schedule
  <2> HIDE DEF new
  <2>3. \A u \in Tasks : ~Accepted(n, u)
    BY <1>i DEF Idle, Accepted
  <2>4. refs[n] <= lost[n]
    BY <1>e, <2>2, <2>3 DEF EmailSerial, Budget
  <2>5. task'[n][t] = new
    BY <2>1, <2>2, TaskAt
  <2>6. Budget(n)'
    BY <1>t, <2>0, <2>1, <2>2, <2>4, <2>5 DEF Budget, Accepted
  <2>7. \A r \in Reports : ~Handling(n, r)'
    BY <1>s, <2>2 DEF Sole, Handling
  <2> QED BY <1>s, <2>0, <2>1, <2>2, <2>6, <2>7, SerialTask
<1> QED BY <1>1, <1>2, <1>3, <1>4 DEF Start

LEMMA SerialAnswer ==
  ASSUME TypeOK, SerialInv, NEW n \in Emails, NEW t \in Tasks,
         \/ SesAccepts(n, t) \/ SesFails(n, t) \/ SesTimesOut(n, t)
         \/ SesRefuses(n, t)
  PROVE  SerialInv'
<1>t. task[n][t] \in TaskState
  BY DEF TypeOK
<1>i. task[n][t].pc = "calling"
  BY DEF SesAccepts, SesFails, SesTimesOut, SesRefuses
<1>e. EmailSerial(n) /\ OneHandler(n)
  BY DEF SerialInv, EmailSerial
<1>s. Sole(n, t)
  BY <1>i, <1>e, SoleTask DEF Running
<1>b. /\ row[n].status = "created" /\ refs[n] <= lost[n]
      /\ refs[n] \in Nat /\ lost[n] \in Nat
  BY <1>i, <1>e, <1>s, CallingBudget
<1>u. UNCHANGED <<row, report, told, sweep>>
  BY DEF SesAccepts, SesFails, SesTimesOut, SesRefuses, Reporting, Schedule
<1>h. \A r \in Reports : ~Handling(n, r)'
  BY <1>s, <1>u DEF Sole, Handling
<1>1. CASE SesAccepts(n, t)
  <2> DEFINE new == [task[n][t] EXCEPT !.pc = "accepted", !.ref = refs'[n]]
  <2>0. /\ refs'[n] = refs[n] + 1 /\ refs'[n] \in 0..MaxRefs
        /\ \A m \in Emails \ {n} : refs'[m] = refs[m]
    BY <1>1, CountersAt DEF SesAccepts
  <2>1. new \in TaskState /\ new.pc = "accepted"
    BY <1>t, <2>0 DEF TaskState, TaskPCs
  <2>2. SetTask(n, t, new) /\ lost' = lost
    BY <1>1 DEF SesAccepts
  <2> HIDE DEF new
  <2>3. task'[n][t] = new
    BY <2>1, <2>2, TaskAt
  <2>4. Budget(n)'
    BY <1>b, <2>0, <2>1, <2>2, <2>3 DEF Budget, Accepted
  <2> QED BY <1>s, <1>b, <1>u, <1>h, <2>0, <2>1, <2>2, <2>4, SerialTask
<1>2. CASE SesFails(n, t)
  <2>1. \E new \in TaskState : new.pc = "raised" /\ SetTask(n, t, new)
    BY <1>2, Raised DEF SesFails
  <2>2. UNCHANGED <<refs, lost>>
    BY <1>2 DEF SesFails
  <2> QED BY <1>i, <1>s, <1>u, <2>1, <2>2, SerialLeave
<1>3. CASE SesTimesOut(n, t)
  <2>1. PICK new \in TaskState : new.pc = "raised" /\ SetTask(n, t, new)
    BY <1>3, Raised DEF SesTimesOut
  <2>2. /\ refs'[n] = refs[n] + 1 /\ lost'[n] = lost[n] + 1
        /\ \A m \in Emails \ {n} : refs'[m] = refs[m] /\ lost'[m] = lost[m]
    BY <1>3, CountersAt DEF SesTimesOut
  <2>3. Budget(n)'
    BY <1>b, <2>2 DEF Budget
  <2> QED BY <1>s, <1>b, <1>u, <1>h, <2>1, <2>2, <2>3, SerialTask
<1>4. CASE SesRefuses(n, t)
  <2> DEFINE new == [task[n][t] EXCEPT !.pc = "failing"]
  <2>1. new \in TaskState /\ new.pc = "failing"
    BY <1>t DEF TaskState, TaskPCs
  <2>2. SetTask(n, t, new) /\ UNCHANGED <<refs, lost>>
    BY <1>4 DEF SesRefuses
  <2> HIDE DEF new
  <2> QED BY <1>i, <1>s, <1>u, <2>1, <2>2, SerialLeave
<1> QED BY <1>1, <1>2, <1>3, <1>4

LEMMA SerialCommit ==
  ASSUME TypeOK, SerialInv, NEW n \in Emails, NEW t \in Tasks,
         CommitSending(n, t) \/ CommitFails(n, t)
  PROVE  SerialInv'
<1>t. task[n][t] \in TaskState
  BY DEF TypeOK
<1>i. task[n][t].pc = "accepted"
  BY DEF CommitSending, CommitFails
<1>e. EmailSerial(n) /\ OneHandler(n)
  BY DEF SerialInv, EmailSerial
<1>s. Sole(n, t)
  BY <1>i, <1>e, SoleTask DEF Running
<1>c. row[n].status = "created" /\ told[n] = << >>
  <2>1. row[n].status = "created"
    BY <1>i, <1>e DEF EmailSerial, SentFromCreated
  <2> QED BY <1>e, <2>1 DEF EmailSerial, ToldOnce, FinalStatuses, Absent
<1>u. UNCHANGED <<refs, report, told, sweep>>
  BY DEF CommitSending, CommitFails, Reporting, Schedule
<1>h. \A r \in Reports : ~Handling(n, r)'
  BY <1>s, <1>u DEF Sole, Handling
<1>1. CASE CommitSending(n, t)
  <2>1. /\ row'[n].status = "sending" /\ lost' = lost
        /\ \A m \in Emails \ {n} : row'[m] = row[m]
    BY <1>1 DEF CommitSending, TypeOK
  <2>2. PICK new \in TaskState :
          new.pc \in {"responding", "free"} /\ SetTask(n, t, new)
    <3>1. CASE n \in TestKey
      <4> DEFINE new == [task[n][t] EXCEPT !.pc = "responding"]
      <4>1. new \in TaskState /\ new.pc = "responding"
        BY <1>t DEF TaskState, TaskPCs
      <4>2. SetTask(n, t, new)
        BY <1>1, <3>1 DEF CommitSending
      <4> HIDE DEF new
      <4> QED BY <4>1, <4>2
    <3>2. CASE n \notin TestKey
      <4>1. SetTask(n, t, FreeTask)
        BY <1>1, <3>2 DEF CommitSending
      <4> QED BY <4>1, FirstTasks
    <3> QED BY <3>1, <3>2
  <2>3. Budget(n)'
    BY <1>e, <1>u, <2>1, BudgetKept DEF EmailSerial
  <2> QED BY <1>s, <1>c, <1>u, <1>h, <2>1, <2>2, <2>3, SerialTask
<1>2. CASE CommitFails(n, t)
  <2>1. PICK new \in TaskState : new.pc = "raised" /\ SetTask(n, t, new)
    BY <1>2, Raised DEF CommitFails
  <2>2. /\ lost'[n] = lost[n] + 1 /\ row' = row
        /\ \A m \in Emails \ {n} : lost'[m] = lost[m]
    BY <1>2, CountersAt DEF CommitFails
  <2>3. Budget(n)'
    BY <1>e, <1>u, <2>2, BudgetKept DEF EmailSerial
  <2> QED BY <1>s, <1>u, <1>h, <2>1, <2>2, <2>3, SerialTask
<1> QED BY <1>1, <1>2

LEMMA SerialConclude ==
  ASSUME TypeOK, SerialInv, NEW n \in Emails, NEW t \in Tasks,
         \/ SendEmailResponseFails(n, t) \/ RetryTask(n, t) \/ GiveUp(n, t)
         \/ \E r \in Reports, k \in ReportKinds : SendEmailResponse(n, t, r, k)
  PROVE  SerialInv'
<1>t. task[n][t] \in TaskState
  BY DEF TypeOK
<1>i. task[n][t].pc \in {"responding", "raised", "failing"}
  BY DEF SendEmailResponseFails, RetryTask, GiveUp, SendEmailResponse
<1>e. EmailSerial(n) /\ OneHandler(n)
  BY DEF SerialInv, EmailSerial
<1>s. Sole(n, t)
  BY <1>i, <1>e, SoleTask DEF Running
<1>1. CASE SendEmailResponseFails(n, t)
  <2>1. \E new \in TaskState : new.pc = "raised" /\ SetTask(n, t, new)
    BY <1>1, Raised DEF SendEmailResponseFails
  <2>2. UNCHANGED <<row, refs, lost, report, told, sweep>>
    BY <1>1 DEF SendEmailResponseFails, Reporting, Schedule
  <2> QED BY <1>i, <1>s, <2>1, <2>2, SerialLeave
<1>2. CASE RetryTask(n, t)
  <2> DEFINE k == task[n][t].retries + 1
             new == [NewTask EXCEPT !.retries = k]
  <2>1. k \in 0..MaxRetries
    BY <1>t, <1>2, EmailAssumption DEF RetryTask, TaskState
  <2>2. SetTask(n, t, new) /\ UNCHANGED <<row, refs, lost, report, told, sweep>>
    BY <1>2 DEF RetryTask, Reporting, Schedule
  <2> HIDE DEF k
  <2>3. new \in TaskState /\ new.pc = "queued"
    BY <2>1, TaskValues
  <2> HIDE DEF new
  <2> QED BY <1>i, <1>s, <2>2, <2>3, SerialLeave
<1>3. CASE GiveUp(n, t)
  <2>1. /\ SetTask(n, t, FreeTask)
        /\ row' = row \/ SetStatus(n, "technical-failure")
        /\ UNCHANGED <<refs, lost, report, told, sweep>>
    BY <1>3 DEF GiveUp, Reporting, Schedule
  <2> QED BY <1>i, <1>s, <2>1, SerialLeave, FirstTasks
<1>4. ASSUME NEW r \in Reports, NEW k \in ReportKinds,
             SendEmailResponse(n, t, r, k)
      PROVE  SerialInv'
  <2> DEFINE new == [NoReport EXCEPT !.pc = "transit", !.kind = k,
                                     !.ref = row[n].ref]
  <2>1. new \in ReportState /\ new.pc = "transit"
    <3>1. row[n] \in Row
      BY DEF TypeOK, Row
    <3> QED BY <3>1, ReportValues DEF ReportState, ReportPCs, Row
  <2>2. /\ SetReport(n, r, new) /\ SetTask(n, t, FreeTask)
        /\ UNCHANGED <<row, refs, lost, told, sweep>>
    BY <1>4 DEF SendEmailResponse, Schedule
  <2> HIDE DEF new
  <2>3. /\ report'[n][r] = new
        /\ \A q \in Reports \ {r} : report'[n][q] = report[n][q]
        /\ \A m \in Emails \ {n} : report'[m] = report[m]
    BY <2>1, <2>2, ReportAt
  <2>4. \A q \in Reports : ~Handling(n, q)'
    BY <1>s, <2>1, <2>3 DEF Sole, Handling
  <2>5. \A u \in Tasks : ~Accepted(n, u)
    BY <1>i, <1>s DEF Sole, Running, Accepted
  <2>6. Budget(n)'
    BY <1>e, <2>2, <2>5, BudgetKept DEF EmailSerial
  <2> QED BY <1>s, <2>2, <2>3, <2>4, <2>6, SerialTask, FirstTasks
<1> QED BY <1>1, <1>2, <1>3, <1>4

LEMMA SerialCrash ==
  ASSUME TypeOK, SerialInv, NEW n \in Emails, NEW t \in Tasks, CrashTask(n, t)
  PROVE  SerialInv'
<1>e. EmailSerial(n) /\ OneHandler(n)
  BY DEF SerialInv, EmailSerial
<1>f. SetTask(n, t, FreeTask) /\ Running(n, t)
  BY DEF CrashTask, Running
<1>s. Sole(n, t)
  BY <1>f, <1>e, SoleTask
<1>u. UNCHANGED <<row, report, told, sweep>>
  BY DEF CrashTask, Reporting, Schedule
<1>h. \A r \in Reports : ~Handling(n, r)'
  BY <1>s, <1>u DEF Sole, Handling
<1>1. CASE task[n][t].pc = "accepted" /\ LoseRef(n) /\ UNCHANGED refs
  <2>1. /\ lost'[n] = lost[n] + 1
        /\ \A m \in Emails \ {n} : lost'[m] = lost[m]
    BY <1>1, CountersAt
  <2>2. Budget(n)'
    BY <1>e, <1>u, <1>1, <2>1, BudgetKept DEF EmailSerial
  <2> QED BY <1>f, <1>s, <1>u, <1>h, <1>1, <2>1, <2>2, SerialTask, FirstTasks
<1>2. CASE /\ task[n][t].pc = "calling" /\ refs[n] < MaxRefs /\ LoseRef(n)
           /\ refs' = [refs EXCEPT ![n] = @ + 1]
  <2>1. /\ refs'[n] = refs[n] + 1 /\ lost'[n] = lost[n] + 1
        /\ \A m \in Emails \ {n} : refs'[m] = refs[m] /\ lost'[m] = lost[m]
    BY <1>2, CountersAt
  <2>2. Budget(n)'
    BY <1>e, <1>s, <1>2, <2>1, CallingBudget DEF Budget
  <2> QED BY <1>f, <1>s, <1>u, <1>h, <2>1, <2>2, SerialTask, FirstTasks
<1>3. CASE task[n][t].pc # "accepted" /\ UNCHANGED <<refs, lost>>
  BY <1>f, <1>s, <1>u, <1>3, SerialLeave, FirstTasks
<1> QED BY <1>1, <1>2, <1>3 DEF CrashTask

LEMMA SerialProcess ==
  ASSUME TypeOK, ~Overlap, SerialInv, RefInv, NEW n \in Emails, NEW r \in Reports,
         ProcessReport(n, r) \/ CrashReport(n, r)
  PROVE  SerialInv'
<1> DEFINE rp == report[n][r]
<1>e. EmailSerial(n) /\ OneHandler(n)
  BY DEF SerialInv, EmailSerial
<1>t. rp \in ReportState /\ told \in [Emails -> Seq(NotificationStatuses)]
  BY DEF TypeOK
<1>u. UNCHANGED <<task, refs, lost, sweep>>
  BY DEF ProcessReport, CrashReport, ReportUnknown, ReportDuplicate,
         ReportReads, ReportUpdates, ReportTells, ReportTellFails,
         ComplaintUnknown, SaveComplaint, TellComplaint, TellComplaintFails,
         Schedule
<1>a. CASE ~CrashReport(n, r)
  <2>a. Alone(n, r)
    <3>1. Handling(n, r) \/ Idle(n)
      BY <1>a
         DEF ProcessReport, ReportUnknown, ReportDuplicate, Received, MayStart,
             ReportReads, ReportUpdates, ReportTells, ReportTellFails, Handling,
             ComplaintUnknown, SaveComplaint, TellComplaint, TellComplaintFails
    <3> QED BY <1>e, <3>1, AloneReport
  <2>t. /\ told[n] # << >> => row[n].status \in FinalStatuses \cup {Absent}
        /\ told[n] = << >> \/ \E s \in FinalStatuses : told[n] = <<s>>
    BY <1>e DEF EmailSerial, ToldOnce
  <2>1. CASE SetReport(n, r, NoReport) /\ UNCHANGED <<row, told>>
    BY <1>u, <2>a, <2>t, <2>1, ReportValues, SerialReport
  <2>2. CASE Again(n, r) /\ UNCHANGED <<row, told>>
    <3>1. \E new \in ReportState :
            new.pc \in {"none", "transit"} /\ SetReport(n, r, new)
      BY <2>2, Retried
    <3> QED BY <1>u, <2>a, <2>t, <2>2, <3>1, SerialReport
  <2>3. CASE ReportReads(n, r)
    <3> DEFINE new == [rp EXCEPT !.pc = "read"]
    <3>1. new \in ReportState /\ new.pc = "read" /\ new.ref = rp.ref
      BY <1>t DEF ReportState, ReportPCs
    <3>2. /\ SetReport(n, r, new) /\ UNCHANGED <<row, told>>
          /\ Found(n, r) /\ row[n].status \in InFlightStatuses
      BY <2>3 DEF ReportReads
    <3>3. told[n] = << >>
      BY <2>t, <3>2 DEF InFlightStatuses, FinalStatuses, Absent
    <3> HIDE DEF new
    <3> QED BY <1>u, <2>a, <2>t, <3>1, <3>2, <3>3, SerialReport DEF Found
  <2>4. CASE ReportUpdates(n, r)
    <3> DEFINE new == [rp EXCEPT !.pc = "updated"]
    <3>1. new \in ReportState /\ new.pc = "updated"
      BY <1>t DEF ReportState, ReportPCs
    <3>2. told[n] = << >> /\ Found(n, r) /\ ~IsComplaint(n, r)
      BY <1>e, <2>4
         DEF ReportUpdates, EmailSerial, ToldOnce, RefInv, EmailRefs, ReportRef
    <3>3. SetReport(n, r, new) /\ SetStatus(n, rp.kind) /\ told' = told
      BY <2>4, <3>2 DEF ReportUpdates
    <3>4. rp.kind \in FinalStatuses /\ rp.kind \in NotificationStatuses
      BY <1>t, <3>2 DEF IsComplaint, ReportState, ReportKinds, FinalStatuses,
         NotificationStatuses
    <3>5. /\ row'[n].status = rp.kind /\ row'[n].status # "created"
          /\ \A m \in Emails \ {n} : row'[m] = row[m]
      BY <3>3, <3>4, StatusAt DEF FinalStatuses
    <3> HIDE DEF new
    <3> QED BY <1>u, <2>a, <3>1, <3>2, <3>3, <3>4, <3>5, SerialReport
  <2>5. CASE ReportTells(n, r)
    <3>1. told[n] = << >> /\ row[n].status \in FinalStatuses
      BY <1>e, <2>5 DEF ReportTells, EmailSerial, ToldOnce
    <3>2. /\ told'[n] = <<row[n].status>>
          /\ \A m \in Emails \ {n} : told'[m] = told[m]
      BY <1>t, <2>5, <3>1 DEF ReportTells, Tell
    <3>3. SetReport(n, r, NoReport) /\ row' = row
      BY <2>5 DEF ReportTells
    <3> QED BY <1>u, <2>a, <3>1, <3>2, <3>3, ReportValues, SerialReport
  <2>6. CASE SaveComplaint(n, r)
    <3> DEFINE new == [rp EXCEPT !.pc = "saved"]
    <3>1. new \in ReportState /\ new.pc = "saved"
      BY <1>t DEF ReportState, ReportPCs
    <3>2. SetReport(n, r, new) /\ UNCHANGED <<row, told>>
      BY <2>6 DEF SaveComplaint
    <3> HIDE DEF new
    <3> QED BY <1>u, <2>a, <2>t, <3>1, <3>2, SerialReport
  <2> QED BY <1>a, <2>1, <2>2, <2>3, <2>4, <2>5, <2>6
          DEF ProcessReport, ReportUnknown, ReportDuplicate, ReportTellFails,
              ComplaintUnknown, TellComplaint, TellComplaintFails
<1>b. CASE CrashReport(n, r)
  <2>1. SetReport(n, r, NoReport) /\ UNCHANGED <<row, told>>
    BY <1>b DEF CrashReport
  <2>2. /\ told[n] # << >> => row[n].status \in FinalStatuses \cup {Absent}
        /\ told[n] = << >> \/ \E s \in FinalStatuses : told[n] = <<s>>
    BY <1>e DEF EmailSerial, ToldOnce
  <2> QED BY <1>u, <2>1, <2>2, ReportValues, SerialReport
<1> QED BY <1>a, <1>b

\* The replay and the timeout.
LEMMA SerialScheduled ==
  ASSUME TypeOK, ~Overlap, SerialInv, NEW n \in Emails,
         \/ ReplayFails(n) \/ TimeoutSelect(n) \/ TimeoutUpdate(n)
         \/ TimeoutTell(n)
  PROVE  SerialInv'
<1>e. /\ EmailSerial(n) /\ OneHandler(n) /\ Budget(n)
      /\ told[n] # << >> => row[n].status \in FinalStatuses \cup {Absent}
      /\ told[n] = << >> \/ \E s \in FinalStatuses : told[n] = <<s>>
  BY DEF SerialInv, EmailSerial, ToldOnce
<1>u. UNCHANGED <<task, refs, lost, report>>
  BY DEF ReplayFails, TimeoutSelect, TimeoutUpdate, TimeoutTell, Reporting
<1>a. /\ \A t \in Tasks : task[n][t].pc \in {"free", "queued"}
      /\ \A r \in Reports : report[n][r].pc \in {"none", "transit"}
  <2>1. Idle(n) \/ sweep[n] # "idle"
    BY DEF ReplayFails, TimeoutSelect, TimeoutUpdate, TimeoutTell, MayStart
  <2> QED BY <1>e, <2>1 DEF Idle, OneHandler, Running, Handling
<1>b. OneHandler(n)' /\ SentFromCreated(n)'
  BY <1>u, <1>a DEF OneHandler, SentFromCreated, Running, Handling
<1>1. ASSUME row'[n].status = "created" => row[n].status = "created",
             told'[n] # << >> => row'[n].status \in FinalStatuses \cup {Absent},
             told'[n] = << >> \/ \E s \in FinalStatuses : told'[n] = <<s>>,
             sweep'[n] = "selected" =>
               told'[n] = << >> /\ row'[n].status \in InFlightStatuses,
             sweep'[n] = "telling" =>
               told'[n] = << >> /\ row'[n].status \in FinalStatuses,
             \A m \in Emails \ {n} :
               row'[m] = row[m] /\ told'[m] = told[m] /\ sweep'[m] = sweep[m]
      PROVE  SerialInv'
  <2>1. Budget(n)'
    BY <1>e, <1>u, <1>1, BudgetKept DEF Accepted
  <2>2. ToldOnce(n)'
    BY <1>u, <1>a, <1>1 DEF ToldOnce
  <2>3. \A m \in Emails \ {n} : SameEmail(m)
    BY <1>u, <1>1 DEF SameEmail
  <2> QED BY <1>b, <2>1, <2>2, <2>3, SerialFrame DEF EmailSerial
<1>2. CASE ReplayFails(n)
  <2>1. /\ row'[n].status = Absent /\ row'[n].status # "created"
        /\ \A m \in Emails \ {n} : row'[m] = row[m]
    BY <1>2 DEF ReplayFails, TypeOK, Absent
  <2>2. UNCHANGED <<told, sweep>> /\ sweep[n] = "idle"
    BY <1>2 DEF ReplayFails, Reporting, MayStart, Idle
  <2> QED BY <1>e, <1>1, <2>1, <2>2
<1>3. CASE TimeoutSelect(n)
  <2>1. /\ sweep'[n] = "selected"
        /\ \A m \in Emails \ {n} : sweep'[m] = sweep[m]
    BY <1>3 DEF TimeoutSelect, SetSweep, TypeOK
  <2>2. UNCHANGED <<row, told>> /\ row[n].status \in InFlightStatuses
    BY <1>3 DEF TimeoutSelect, Reporting
  <2>3. told[n] = << >>
    BY <1>e, <2>2 DEF InFlightStatuses, FinalStatuses, Absent
  <2> QED BY <1>e, <1>1, <2>1, <2>2, <2>3
<1>4. CASE TimeoutUpdate(n)
  <2>1. told[n] = << >> /\ row[n].status \in InFlightStatuses
    BY <1>e, <1>4 DEF TimeoutUpdate, EmailSerial, ToldOnce
  <2>2. /\ row'[n].status = "temporary-failure"
        /\ \A m \in Emails \ {n} : row'[m] = row[m]
    BY <1>4, <2>1, StatusAt
       DEF TimeoutUpdate, InFlightStatuses, Absent, NotificationStatuses
  <2>3. /\ sweep'[n] = "telling" /\ told' = told
        /\ \A m \in Emails \ {n} : sweep'[m] = sweep[m]
    BY <1>4 DEF TimeoutUpdate, SetSweep, Reporting, TypeOK
  <2> QED BY <1>1, <2>1, <2>2, <2>3 DEF FinalStatuses
<1>5. CASE TimeoutTell(n)
  <2>1. told[n] = << >> /\ row[n].status \in FinalStatuses
    BY <1>e, <1>5 DEF TimeoutTell, EmailSerial, ToldOnce
  <2>2. /\ told'[n] = <<row[n].status>>
        /\ \A m \in Emails \ {n} : told'[m] = told[m]
    BY <1>5, <2>1 DEF TimeoutTell, Tell, FinalStatuses, Absent, TypeOK
  <2>3. /\ sweep'[n] = "idle" /\ row' = row
        /\ \A m \in Emails \ {n} : sweep'[m] = sweep[m]
    BY <1>5 DEF TimeoutTell, SetSweep, TypeOK
  <2> QED BY <1>1, <2>1, <2>2, <2>3
<1> QED BY <1>2, <1>3, <1>4, <1>5

\* Steps outside the handlers.
LEMMA SerialOther ==
  ASSUME TypeOK, SerialInv, NEW n \in Emails,
         \/ \E t, u \in Tasks : Redeliver(n, t, u)
         \/ \E t \in Tasks : ReplayEnqueue(n, t)
         \/ \E r \in Reports, ref \in 1..MaxRefs, k \in ReportKinds :
              SesPosts(n, r, ref, k)
         \/ UNCHANGED <<row, task, refs, lost, report, told, sweep>>
  PROVE  SerialInv'
<1>1. ASSUME NEW t \in Tasks, NEW u \in Tasks, Redeliver(n, t, u)
      PROVE  SerialInv'
  <2>1. task[n][t] \in TaskState
    BY DEF TypeOK
  <2> QED BY <1>1, <2>1, SerialQueue DEF Redeliver, Reporting, Schedule
<1>2. ASSUME NEW t \in Tasks, ReplayEnqueue(n, t) PROVE SerialInv'
  BY <1>2, SerialQueue, FirstTasks DEF ReplayEnqueue, Reporting
<1>3. ASSUME NEW r \in Reports, NEW ref \in 1..MaxRefs, NEW k \in ReportKinds,
             SesPosts(n, r, ref, k)
      PROVE  SerialInv'
  <2> DEFINE new == [NoReport EXCEPT !.pc = "transit", !.ref = ref, !.kind = k]
  <2>1. ref \in 0..MaxRefs
    BY EmailAssumption
  <2>2. new \in ReportState /\ new.pc = "transit"
    BY <2>1, ReportValues
  <2>3. SetReport(n, r, new) /\ UNCHANGED <<row, told, task, refs, lost, sweep>>
    BY <1>3 DEF SesPosts, Schedule
  <2> HIDE DEF new
  <2>4. /\ told[n] # << >> => row[n].status \in FinalStatuses \cup {Absent}
        /\ told[n] = << >> \/ \E s \in FinalStatuses : told[n] = <<s>>
    BY DEF SerialInv, EmailSerial, ToldOnce
  <2> QED BY <2>2, <2>3, <2>4, SerialReport
<1>4. CASE UNCHANGED <<row, task, refs, lost, report, told, sweep>>
  BY <1>4 DEF SerialInv, EmailSerial, OneHandler, SentFromCreated, Budget,
     ToldOnce, Running, Handling, Accepted, Found
<1> QED BY <1>1, <1>2, <1>3, <1>4

LEMMA SerialInit ==
  ASSUME Init
  PROVE  SerialInv
<1> SUFFICES ASSUME NEW n \in Emails PROVE EmailSerial(n)
  BY DEF SerialInv
<1>1. \A t \in Tasks : task[n][t].pc \in {"free", "queued"}
  <2>1. task[n] \in [Tasks -> {FreeTask, NewTask}]
    BY DEF Init
  <2> QED BY <2>1, FirstTasks
<1>2. \A r \in Reports : report[n][r].pc = "none"
  BY ReportValues DEF Init
<1>3. /\ sweep[n] = "idle" /\ refs[n] = 0 /\ lost[n] = 0 /\ told[n] = << >>
  BY DEF Init
<1>4. OneHandler(n) /\ SentFromCreated(n)
  BY <1>1, <1>2, <1>3 DEF OneHandler, SentFromCreated, Running, Handling
<1>5. Budget(n) /\ ToldOnce(n)
  BY <1>2, <1>3 DEF Budget, ToldOnce
<1> QED BY <1>4, <1>5 DEF EmailSerial

LEMMA SerialStep ==
  ASSUME TypeOK, RefInv, ~Overlap, SerialInv, [Next]_vars
  PROVE  SerialInv'
<1>1. CASE UNCHANGED vars \/ ArchiveService
  <2>1. UNCHANGED <<row, task, refs, lost, report, told, sweep>>
    BY <1>1 DEF vars, ArchiveService, Reporting
  <2> QED BY <2>1 DEF SerialInv, EmailSerial, OneHandler, SentFromCreated,
          Budget, ToldOnce, Running, Handling, Accepted, Found
<1>2. ASSUME NEW n \in Emails, NEW t \in Tasks,
             \/ Deliver(n, t) \/ CrashTask(n, t) \/ ReplayEnqueue(n, t)
             \/ \E u \in Tasks : Redeliver(n, t, u)
      PROVE  SerialInv'
  <2>1. CASE Continue(n, t)
    BY <2>1, SerialAnswer, SerialCommit, SerialConclude DEF Continue
  <2> QED BY <1>2, <2>1, SerialStart, SerialCrash, SerialOther DEF Deliver
<1>3. ASSUME NEW n \in Emails, NEW r \in Reports,
             \/ ProcessReport(n, r) \/ CrashReport(n, r)
             \/ \E ref \in 1..MaxRefs, k \in ReportKinds : SesPosts(n, r, ref, k)
      PROVE  SerialInv'
  BY <1>3, SerialProcess, SerialOther
<1>4. ASSUME NEW n \in Emails,
             \/ Age(n) \/ ReplaySelect(n) \/ ReplayFails(n) \/ TimeoutSelect(n)
             \/ TimeoutUpdate(n) \/ TimeoutTell(n)
      PROVE  SerialInv'
  <2>1. CASE Age(n) \/ ReplaySelect(n)
    BY <2>1, SerialOther DEF Age, ReplaySelect, Reporting
  <2> QED BY <1>4, <2>1, SerialScheduled
<1> QED BY <1>1, <1>2, <1>3, <1>4 DEF Next

\* The inductive invariant: types and references always, SerialInv when the
\* handlers of an email do not overlap.
LEMMA SerialAlways == Spec => [](TypeOK /\ RefInv /\ (~Overlap => SerialInv))
<1>1. Init => TypeOK /\ RefInv /\ (~Overlap => SerialInv)
  BY TypeInit, RefInit, SerialInit
<1>2. /\ TypeOK /\ RefInv /\ (~Overlap => SerialInv)
      /\ [Next]_vars
      => TypeOK' /\ RefInv' /\ (~Overlap => SerialInv)'
  BY RefStep, SerialStep
<1> QED BY <1>1, <1>2, PTL DEF Spec

\* deliver_email hands an email to SES once, plus once for each acceptance that
\* was lost, for any number of tasks, retries, reports and faults, as long as
\* handlers of the same email do not overlap.
THEOREM NoDuplicates == Spec => []NoDuplicateEmail
<1>1. TypeOK /\ (~Overlap => SerialInv) => NoDuplicateEmail
  <2> SUFFICES ASSUME TypeOK, ~Overlap, SerialInv, NEW n \in Emails
               PROVE  refs[n] <= 1 + lost[n]
    BY DEF NoDuplicateEmail
  <2>1. refs[n] \in Nat /\ lost[n] \in Nat
    BY RefTypes DEF TypeOK
  <2> QED BY <2>1 DEF SerialInv, EmailSerial, Budget
<1> QED BY <1>1, SerialAlways, PTL

-----------------------------------------------------------------------------
(* EmailDelivery implements MessageDelivery.                               *)

\* What the refinement needs beyond RefInv and SerialInv: a task waits for SES only of a
\* live email; a task that failed did so from a status it may give up, and its session
\* shows no other; and the references that were lost are some of those there were, all
\* but the one that is waiting to be committed.
Counted(n) ==
  /\ \A t \in Tasks :
       /\ task[n][t].pc = "calling" => n \notin TestKey
       /\ task[n][t].pc = "responding" => n \in TestKey
       /\ task[n][t].pc = "failing" => n \notin TestKey /\ row[n].status = "created"
       /\ task[n][t].pc = "raised" =>
            /\ task[n][t].seen # Absent => row[n].status = task[n][t].seen
            /\ n \in TestKey \/ row[n].status \in {"created", "technical-failure", Absent}
  /\ n \notin TestKey =>
       /\ lost[n] <= refs[n]
       /\ \A t \in Tasks : Accepted(n, t) => lost[n] < refs[n]

CountedInv == \A n \in Emails : Counted(n)

\* The abstract state.
StatusMap == [n \in Emails |-> row[n].status]
CopiesMap == [n \in Emails |-> Copies(n)]
DueSet == {n \in Emails : Due(n)}

\* What the three say of email m before and after a step.
SameStatus(m) == row'[m].status = row[m].status
SameCopies(m) == refs'[m] = refs[m] /\ lost'[m] = lost[m]
DueAfter(m) == sweep'[m] = "telling" \/ \E r \in Reports : report'[m][r].pc = "updated"
SameDue(m) == DueAfter(m) <=> Due(m)

LEMMA StatusKept ==
  ASSUME \A m \in Emails : SameStatus(m)
  PROVE  StatusMap' = StatusMap
  BY DEF StatusMap, SameStatus

LEMMA StatusWritten ==
  ASSUME NEW n \in Emails, NEW s, row'[n].status = s,
         \A m \in Emails \ {n} : SameStatus(m)
  PROVE  StatusMap' = [StatusMap EXCEPT ![n] = s]
  BY DEF StatusMap, SameStatus

LEMMA CopiesKept ==
  ASSUME \A m \in Emails : SameCopies(m)
  PROVE  CopiesMap' = CopiesMap
  BY DEF CopiesMap, Copies, SameCopies

LEMMA CopiesWritten ==
  ASSUME NEW n \in Emails, NEW c,
         \A m \in Emails \ {n} : SameCopies(m),
         c = IF n \in TestKey \/ refs'[n] = 0 THEN "none"
             ELSE IF refs'[n] <= lost'[n] THEN "lost"
             ELSE IF refs'[n] = lost'[n] + 1 THEN "out" ELSE "twice"
  PROVE  CopiesMap' = [CopiesMap EXCEPT ![n] = c]
  BY DEF CopiesMap, Copies, SameCopies

LEMMA DueOf ==
  /\ \A m \in Emails : m \in DueSet <=> Due(m)
  /\ \A m \in Emails : m \in DueSet' <=> DueAfter(m)
  /\ DueSet \subseteq Emails /\ DueSet' \subseteq Emails
  BY DEF DueSet, Due, DueAfter

LEMMA DueKept ==
  ASSUME \A m \in Emails : SameDue(m)
  PROVE  DueSet' = DueSet
  BY DueOf DEF SameDue

\* Both specifications take the names of statuses from NotificationStatus.
LEMMA SameNames ==
  /\ Delivery!Absent = Absent /\ Delivery!Unborn = "unborn"
  /\ Delivery!NotificationStatuses = NotificationStatuses
  /\ Delivery!UpdatableStatuses = UpdatableStatuses
  /\ Delivery!InFlightStatuses = InFlightStatuses
  /\ Delivery!FinalStatuses = FinalStatuses
  BY DEF Absent, Delivery!Absent, Delivery!Unborn, NotificationStatuses,
     Delivery!NotificationStatuses, UpdatableStatuses, Delivery!UpdatableStatuses,
     InFlightStatuses, Delivery!InFlightStatuses, FinalStatuses, Delivery!FinalStatuses

\* The step is one of MessageDelivery, or changes nothing there.
Maps == [Delivery!Next]_(Delivery!vars)

Untold == UNCHANGED <<told, active>>

LEMMA AsStutter ==
  ASSUME StatusMap' = StatusMap, CopiesMap' = CopiesMap, DueSet' = DueSet, Untold
  PROVE  Maps
  BY DEF Maps, Untold, Delivery!vars, StatusMap, CopiesMap, DueSet

\* The steps of a task, the replay and an archived service that write one row.
LEMMA AsWrite ==
  ASSUME NEW n \in Emails, NEW s, StatusMap' = [StatusMap EXCEPT ![n] = s],
         CopiesMap' = CopiesMap, DueSet' = DueSet, Untold, StatusMap[n] # "unborn",
         \/ /\ s = "sending" /\ StatusMap[n] = "created"
            /\ CopiesMap[n] = "out" \/ n \in TestKey
         \/ /\ s = "technical-failure"
            /\ \/ StatusMap[n] = "created" /\ CopiesMap[n] # "out"
               \/ StatusMap[n] \in UpdatableStatuses /\ n \in TestKey
         \/ s = "technical-failure" /\ ~active /\ n \notin DueSet /\ StatusMap[n] # Absent
         \/ s = Absent /\ n \notin DueSet
  PROVE  Maps
<1> USE SameNames DEF Delivery!Write, StatusMap, CopiesMap, DueSet, Untold
<1>1. CASE /\ s = "sending" /\ StatusMap[n] = "created"
           /\ CopiesMap[n] = "out" \/ n \in TestKey
  <2>1. Delivery!Record(n)
    BY <1>1 DEF Delivery!Record
  <2> QED BY <2>1 DEF Maps, Delivery!Next
<1>2. CASE /\ s = "technical-failure"
           /\ \/ StatusMap[n] = "created" /\ CopiesMap[n] # "out"
              \/ StatusMap[n] \in UpdatableStatuses /\ n \in TestKey
  <2>1. Delivery!GiveUp(n)
    BY <1>2 DEF Delivery!GiveUp
  <2> QED BY <2>1 DEF Maps, Delivery!Next
<1>3. CASE s = "technical-failure" /\ ~active /\ n \notin DueSet /\ StatusMap[n] # Absent
  <2>1. Delivery!Refuse(n)
    BY <1>3 DEF Delivery!Refuse
  <2> QED BY <2>1 DEF Maps, Delivery!Next
<1>4. CASE s = Absent /\ n \notin DueSet
  <2>1. Delivery!Discard(n)
    BY <1>4 DEF Delivery!Discard
  <2> QED BY <2>1 DEF Maps, Delivery!Next
<1> QED BY <1>1, <1>2, <1>3, <1>4

\* SES takes a copy: known to the task, or not.
LEMMA AsCopy ==
  ASSUME NEW n \in Emails, NEW c, CopiesMap' = [CopiesMap EXCEPT ![n] = c],
         StatusMap' = StatusMap, DueSet' = DueSet, Untold,
         StatusMap[n] = "created", n \notin TestKey,
         c = "lost" \/ (c = "out" /\ CopiesMap[n] # "out")
  PROVE  Maps
<1> USE DEF StatusMap, CopiesMap, DueSet, Untold
<1>1. CASE c = "lost"
  <2>1. Delivery!LoseAnswer(n)
    BY <1>1 DEF Delivery!LoseAnswer
  <2> QED BY <2>1 DEF Maps, Delivery!Next
<1>2. CASE c = "out" /\ CopiesMap[n] # "out"
  <2>1. Delivery!HandOver(n)
    BY <1>2 DEF Delivery!HandOver
  <2> QED BY <2>1 DEF Maps, Delivery!Next
<1> QED BY <1>1, <1>2

\* A report writes the row.
LEMMA AsReport ==
  ASSUME NEW n \in Emails, NEW s \in FinalStatuses,
         StatusMap' = [StatusMap EXCEPT ![n] = s], CopiesMap' = CopiesMap, Untold,
         StatusMap[n] \in UpdatableStatuses, CopiesMap[n] # "none" \/ n \in TestKey,
         DueSet' = DueSet \cup {n}
  PROVE  Maps
<1>1. s \in NotificationStatuses /\ s # "pending"
  BY DEF FinalStatuses, NotificationStatuses
<1>2. Delivery!Report(n, s)
  BY <1>1, SameNames
     DEF Delivery!Report, Delivery!Write, StatusMap, CopiesMap, DueSet, Untold
<1> QED BY <1>1, <1>2, SameNames DEF Maps, Delivery!Next

\* The timeout writes it.
LEMMA AsTimeOut ==
  ASSUME NEW n \in Emails, StatusMap[n] \in InFlightStatuses,
         StatusMap' = [StatusMap EXCEPT ![n] = "temporary-failure"],
         CopiesMap' = CopiesMap, Untold, DueSet' = DueSet \cup {n}
  PROVE  Maps
<1>1. StatusMap' = [m \in Emails |-> IF m \in {n} THEN "temporary-failure" ELSE StatusMap[m]]
  BY DEF StatusMap
<1>2. Delivery!TimeOut({n})
  BY <1>1, SameNames DEF Delivery!TimeOut, StatusMap, CopiesMap, DueSet, Untold
<1> QED BY <1>2 DEF Maps, Delivery!Next

\* The service is told, or is not.
LEMMA AsTell ==
  ASSUME NEW n \in Emails, n \in DueSet, DueSet' = DueSet \ {n},
         told' = [told EXCEPT ![n] = Append(@, StatusMap[n])],
         StatusMap' = StatusMap, CopiesMap' = CopiesMap, active' = active
  PROVE  Maps
<1>1. Delivery!Tell(n)
  BY DEF Delivery!Tell, StatusMap, CopiesMap, DueSet
<1> QED BY <1>1 DEF Maps, Delivery!Next

LEMMA AsForget ==
  ASSUME NEW n \in Emails, DueSet' = DueSet \ {n},
         StatusMap' = StatusMap, CopiesMap' = CopiesMap, Untold
  PROVE  Maps
<1>1. Delivery!Forget({n})
  BY DEF Delivery!Forget, StatusMap, CopiesMap, DueSet, Untold
<1> QED BY <1>1 DEF Maps, Delivery!Next

LEMMA MapsAt ==
  ASSUME TypeOK, NEW n \in Emails
  PROVE  /\ StatusMap[n] = row[n].status /\ StatusMap[n] # "unborn"
         /\ CopiesMap[n] = Copies(n)
         /\ n \in DueSet <=> Due(n)
<1>1. row[n].status # "unborn"
  BY DEF TypeOK, NotificationStatuses, Absent
<1> QED BY <1>1 DEF StatusMap, CopiesMap, DueSet

\* A step that leaves an email alone.
LEMMA CountedFrame ==
  ASSUME NEW m \in Emails, Counted(m), row'[m].status = row[m].status,
         task'[m] = task[m], SameCopies(m)
  PROVE  Counted(m)'
  BY DEF Counted, Accepted, SameCopies

\* A step of the only task at work on an email.
LEMMA CountedTask ==
  ASSUME TypeOK, NEW n \in Emails, NEW t \in Tasks, NEW new \in TaskState, Sole(n, t),
         SetTask(n, t, new),
         new.pc = "calling" => n \notin TestKey,
         new.pc = "responding" => n \in TestKey,
         new.pc = "failing" => n \notin TestKey /\ row'[n].status = "created",
         new.pc = "raised" =>
           /\ new.seen # Absent => row'[n].status = new.seen
           /\ n \in TestKey \/ row'[n].status \in {"created", "technical-failure", Absent},
         n \notin TestKey =>
           /\ lost'[n] <= refs'[n]
           /\ new.pc = "accepted" => lost'[n] < refs'[n]
  PROVE  Counted(n)'
<1>1. /\ task'[n][t] = new
      /\ \A u \in Tasks \ {t} : task'[n][u] = task[n][u]
  BY TaskAt
<1>2. \A u \in Tasks \ {t} : task'[n][u].pc \in {"free", "queued"}
  BY <1>1 DEF Sole, Running
<1>3. \A u \in Tasks :
       /\ task'[n][u].pc = "calling" => n \notin TestKey
       /\ task'[n][u].pc = "responding" => n \in TestKey
       /\ task'[n][u].pc = "failing" => n \notin TestKey /\ row'[n].status = "created"
       /\ task'[n][u].pc = "raised" =>
            /\ task'[n][u].seen # Absent => row'[n].status = task'[n][u].seen
            /\ n \in TestKey \/ row'[n].status \in {"created", "technical-failure", Absent}
  BY <1>1, <1>2
<1>4. n \notin TestKey =>
        \A u \in Tasks : task'[n][u].pc = "accepted" => lost'[n] < refs'[n]
  BY <1>1, <1>2
<1> QED BY <1>3, <1>4 DEF Counted, Accepted

\* What a step of a task writes.
LEMMA TaskWrites ==
  ASSUME TypeOK, NEW n \in Emails, NEW t \in Tasks, Deliver(n, t) \/ CrashTask(n, t)
  PROVE  /\ \E new : SetTask(n, t, new)
         /\ UNCHANGED <<told, sweep, active>>
         /\ \/ row' = row
            \/ SetStatus(n, "technical-failure")
            \/ \E new : row' = [row EXCEPT ![n] = new]
         /\ refs' = refs \/ refs' = [refs EXCEPT ![n] = @ + 1]
         /\ lost' = lost \/ LoseRef(n)
         /\ \/ report' = report
            \/ \E r \in Reports : \E new \in ReportState :
                 new.pc = "transit" /\ SetReport(n, r, new)
<1> USE DEF Reporting, Schedule
<1>1. CASE Start(n, t)
  BY <1>1 DEF Start, StartMissing, StartInactive, StartSkip, StartFails, StartSend,
     StartTest, Raise
<1>2. CASE SesAccepts(n, t) \/ SesFails(n, t) \/ SesTimesOut(n, t) \/ SesRefuses(n, t)
  BY <1>2 DEF SesAccepts, SesFails, SesTimesOut, SesRefuses, Raise
<1>3. CASE CommitSending(n, t) \/ CommitFails(n, t)
  BY <1>3 DEF CommitSending, CommitFails, Raise
<1>4. CASE SendEmailResponseFails(n, t) \/ RetryTask(n, t) \/ GiveUp(n, t)
  BY <1>4 DEF SendEmailResponseFails, RetryTask, GiveUp, Raise
<1>5. ASSUME NEW r \in Reports, NEW k \in ReportKinds, SendEmailResponse(n, t, r, k)
      PROVE  /\ SetTask(n, t, FreeTask) /\ UNCHANGED <<told, sweep, active, row, refs, lost>>
             /\ \E q \in Reports : \E new \in ReportState :
                  new.pc = "transit" /\ SetReport(n, q, new)
  <2> DEFINE new == [NoReport EXCEPT !.pc = "transit", !.kind = k, !.ref = row[n].ref]
  <2>1. new \in ReportState /\ new.pc = "transit"
    <3>1. row[n] \in Row
      BY DEF TypeOK, Row
    <3> QED BY <3>1, ReportValues DEF ReportState, ReportPCs, Row
  <2>2. SetReport(n, r, new)
    BY <1>5 DEF SendEmailResponse
  <2>3. SetTask(n, t, FreeTask) /\ UNCHANGED <<told, sweep, active, row, refs, lost>>
    BY <1>5 DEF SendEmailResponse
  <2> HIDE DEF new
  <2> QED BY <2>1, <2>2, <2>3
<1>6. CASE CrashTask(n, t)
  BY <1>6 DEF CrashTask
<1> QED BY <1>1, <1>2, <1>3, <1>4, <1>5, <1>6 DEF Deliver, Continue

\* What surrounds a step of a task: its email is due to nobody, before or after, and the
\* others stay as they are.
LEMMA TaskAlone ==
  ASSUME TypeOK, ~Overlap, SerialInv, NEW n \in Emails, NEW t \in Tasks,
         Deliver(n, t) \/ CrashTask(n, t)
  PROVE  /\ EmailSerial(n) /\ Sole(n, t) /\ Untold
         /\ DueSet' = DueSet /\ n \notin DueSet
         /\ \A m \in Emails \ {n} : SameStatus(m) /\ SameCopies(m) /\ task'[m] = task[m]
<1>1. EmailSerial(n) /\ OneHandler(n)
  BY DEF SerialInv, EmailSerial
<1>2. Running(n, t) \/ Idle(n)
  BY DEF Deliver, CrashTask, Start, StartMissing, StartInactive, StartSkip, StartFails,
     StartSend, StartTest, Starting, MayStart, Continue, SesAccepts, SesFails, SesTimesOut,
     SesRefuses, CommitSending, CommitFails, SendEmailResponseFails, RetryTask, GiveUp,
     SendEmailResponse, Running
<1>3. Sole(n, t)
  BY <1>1, <1>2, SoleTask
<1>4. /\ UNCHANGED <<told, sweep, active>>
      /\ \A m \in Emails \ {n} : task'[m] = task[m] /\ SameCopies(m)
  <2>0. /\ \E new : SetTask(n, t, new)
        /\ refs' = refs \/ refs' = [refs EXCEPT ![n] = @ + 1]
        /\ lost' = lost \/ LoseRef(n)
    BY TaskWrites
  <2>1. \A m \in Emails \ {n} : task'[m] = task[m]
    BY <2>0 DEF SetTask, TypeOK
  <2>2. \A m \in Emails \ {n} : refs'[m] = refs[m] /\ lost'[m] = lost[m]
    BY <2>0 DEF LoseRef, TypeOK
  <2> QED BY <2>1, <2>2, TaskWrites DEF SameCopies
<1>5. \A m \in Emails \ {n} : SameStatus(m)
  <2>1. CASE row' = row
    BY <2>1 DEF SameStatus
  <2>2. CASE SetStatus(n, "technical-failure")
    BY <2>2, StatusAt DEF SameStatus, NotificationStatuses
  <2>3. ASSUME NEW new, row' = [row EXCEPT ![n] = new]
        PROVE  \A m \in Emails \ {n} : SameStatus(m)
    BY <2>3 DEF SameStatus, TypeOK
  <2> QED BY <2>1, <2>2, <2>3, TaskWrites
<1>6. /\ \A r \in Reports : report'[n][r].pc # "updated"
      /\ \A m \in Emails \ {n} : report'[m] = report[m]
  <2>1. CASE report' = report
    BY <1>3, <2>1 DEF Sole, Handling
  <2>2. ASSUME NEW r \in Reports, NEW new \in ReportState, new.pc = "transit",
               SetReport(n, r, new)
        PROVE  /\ \A q \in Reports : report'[n][q].pc # "updated"
               /\ \A m \in Emails \ {n} : report'[m] = report[m]
    <3>1. /\ report'[n][r] = new
          /\ \A q \in Reports \ {r} : report'[n][q] = report[n][q]
          /\ \A m \in Emails \ {n} : report'[m] = report[m]
      BY <2>2, ReportAt
    <3> QED BY <1>3, <2>2, <3>1 DEF Sole, Handling
  <2> QED BY <2>1, <2>2, TaskWrites
<1>7. ~Due(n) /\ ~DueAfter(n)
  BY <1>3, <1>4, <1>6 DEF Due, DueAfter, Sole, Handling
<1>8. \A m \in Emails : SameDue(m)
  BY <1>4, <1>6, <1>7 DEF SameDue, Due, DueAfter
<1> QED BY <1>1, <1>3, <1>4, <1>5, <1>7, <1>8, DueKept, DueOf DEF Untold

\* The copies of a test email are none, whatever its references.
LEMMA CopiesSame ==
  ASSUME NEW n \in Emails, SameCopies(n) \/ n \in TestKey,
         \A m \in Emails \ {n} : SameCopies(m)
  PROVE  CopiesMap' = CopiesMap
  BY DEF CopiesMap, Copies, SameCopies

\* A step of a task that leaves the status and the copies alone.
LEMMA TaskStutters ==
  ASSUME TypeOK, ~Overlap, SerialInv, NEW n \in Emails, NEW t \in Tasks,
         Deliver(n, t) \/ CrashTask(n, t),
         row'[n].status = row[n].status, SameCopies(n) \/ n \in TestKey
  PROVE  Maps
<1>1. /\ Untold /\ DueSet' = DueSet
      /\ \A m \in Emails \ {n} : SameStatus(m) /\ SameCopies(m)
  BY TaskAlone
<1>2. \A m \in Emails : SameStatus(m)
  BY <1>1 DEF SameStatus
<1>3. StatusMap' = StatusMap /\ CopiesMap' = CopiesMap
  BY <1>1, <1>2, StatusKept, CopiesSame
<1> QED BY <1>1, <1>3, AsStutter

\* A step of a task that writes the status and leaves the copies alone.
LEMMA TaskWritten ==
  ASSUME TypeOK, ~Overlap, SerialInv, NEW n \in Emails, NEW t \in Tasks,
         Deliver(n, t) \/ CrashTask(n, t), SameCopies(n), NEW s, row'[n].status = s,
         \/ /\ s = "sending" /\ row[n].status = "created"
            /\ Copies(n) = "out" \/ n \in TestKey
         \/ /\ s = "technical-failure"
            /\ \/ row[n].status = "created" /\ Copies(n) # "out"
               \/ row[n].status \in UpdatableStatuses /\ n \in TestKey
         \/ s = "technical-failure" /\ ~active /\ row[n].status # Absent
  PROVE  Maps
<1>1. /\ Untold /\ DueSet' = DueSet /\ n \notin DueSet
      /\ \A m \in Emails \ {n} : SameStatus(m) /\ SameCopies(m)
  BY TaskAlone
<1>2. StatusMap' = [StatusMap EXCEPT ![n] = s]
  BY <1>1, StatusWritten
<1>3. CopiesMap' = CopiesMap
  BY <1>1, CopiesSame
<1>4. /\ StatusMap[n] = row[n].status /\ StatusMap[n] # "unborn"
      /\ CopiesMap[n] = Copies(n)
  BY MapsAt
<1> QED BY <1>1, <1>2, <1>3, <1>4, AsWrite

\* What the task reads when nothing is accepted, and what it has when something is.
LEMMA CountsAt ==
  ASSUME TypeOK, NEW n \in Emails, NEW t \in Tasks, EmailSerial(n), Sole(n, t), Counted(n)
  PROVE  /\ refs[n] \in Nat /\ lost[n] \in Nat
         /\ n \notin TestKey => lost[n] <= refs[n] /\ refs[n] <= lost[n] + 1
         /\ row[n].status = "created" /\ task[n][t].pc # "accepted" => refs[n] <= lost[n]
         /\ task[n][t].pc = "accepted" =>
              /\ row[n].status = "created"
              /\ n \notin TestKey => lost[n] < refs[n]
         /\ task[n][t].pc = "calling" => row[n].status = "created" /\ n \notin TestKey
<1>1. refs[n] \in Nat /\ lost[n] \in Nat
  BY RefTypes DEF TypeOK
<1>2. task[n][t].pc # "accepted" => \A u \in Tasks : ~Accepted(n, u)
  BY DEF Sole, Running, Accepted
<1>3. Budget(n) /\ SentFromCreated(n)
  BY DEF EmailSerial
<1> QED BY <1>1, <1>2, <1>3 DEF Budget, SentFromCreated, Counted, Accepted

\* The start of a task.
LEMMA MapStart ==
  ASSUME TypeOK, ~Overlap, SerialInv, NEW n \in Emails, NEW t \in Tasks, Counted(n),
         Start(n, t)
  PROVE  Counted(n)' /\ Maps
<1>d. Deliver(n, t)
  BY DEF Deliver
<1>s. Sole(n, t) /\ EmailSerial(n)
  BY <1>d, TaskAlone
<1>t. task[n][t] \in TaskState
  BY DEF TypeOK
<1>i. task[n][t].pc = "queued"
  BY DEF Start, StartMissing, StartInactive, StartSkip, StartFails, StartSend, StartTest,
     Starting
<1>c. /\ refs[n] \in Nat /\ lost[n] \in Nat
      /\ n \notin TestKey => lost[n] <= refs[n]
  BY <1>s, CountsAt
<1>l. lost' = lost
  BY DEF Start, StartMissing, StartInactive, StartSkip, StartFails, StartSend, StartTest
<1>r. refs' = refs \/ n \in TestKey
  BY DEF Start, StartMissing, StartInactive, StartSkip, StartFails, StartSend, StartTest
<1>b. n \notin TestKey => lost'[n] <= refs'[n]
  BY <1>c, <1>l, <1>r
<1>k. SameCopies(n) \/ n \in TestKey
  BY <1>l, <1>r DEF SameCopies
<1>1. CASE StartMissing(n, t)
  <2>1. PICK new \in TaskState : /\ new.pc = "raised" /\ new.seen = Absent
                                 /\ SetTask(n, t, new)
    BY <1>t, <1>1 DEF StartMissing, Raise, TaskState, TaskPCs
  <2>2. row'[n].status = row[n].status /\ row[n].status = Absent
    BY <1>1 DEF StartMissing
  <2>3. Counted(n)'
    BY <1>s, <1>b, <2>1, <2>2, CountedTask
  <2> QED BY <1>d, <1>k, <2>2, <2>3, TaskStutters
<1>2. CASE StartInactive(n, t)
  <2>1. PICK new \in TaskState : /\ new.pc = "raised" /\ new.seen = Absent
                                 /\ SetTask(n, t, new)
    BY <1>t, <1>2 DEF StartInactive, Raise, TaskState, TaskPCs
  <2>2. /\ row'[n].status = "technical-failure" /\ ~active /\ row[n].status # Absent
        /\ SameCopies(n)
    BY <1>2, StatusAt DEF StartInactive, NotificationStatuses, SameCopies
  <2>3. Counted(n)'
    BY <1>s, <1>b, <2>1, <2>2, CountedTask
  <2> QED BY <1>d, <2>2, <2>3, TaskWritten
<1>3. CASE StartSkip(n, t)
  <2>1. SetTask(n, t, FreeTask) /\ row'[n].status = row[n].status
    BY <1>3 DEF StartSkip
  <2>2. Counted(n)'
    BY <1>s, <1>b, <2>1, FirstTasks, CountedTask
  <2> QED BY <1>d, <1>k, <2>1, <2>2, TaskStutters
<1>4. CASE StartFails(n, t)
  <2>1. PICK new \in TaskState : /\ new.pc = "raised" /\ new.seen = "created"
                                 /\ SetTask(n, t, new)
    BY <1>t, <1>4 DEF StartFails, Raise, TaskState, TaskPCs
  <2>2. row'[n].status = row[n].status /\ row[n].status = "created"
    BY <1>4 DEF StartFails
  <2>3. Counted(n)'
    BY <1>s, <1>b, <2>1, <2>2, CountedTask
  <2> QED BY <1>d, <1>k, <2>2, <2>3, TaskStutters
<1>5. CASE StartSend(n, t)
  <2>1. PICK new \in TaskState : new.pc = "calling" /\ SetTask(n, t, new)
    <3> DEFINE x == [task[n][t] EXCEPT !.pc = "calling", !.seen = "created"]
    <3>1. x \in TaskState /\ x.pc = "calling"
      BY <1>t DEF TaskState, TaskPCs
    <3>2. SetTask(n, t, x)
      BY <1>5 DEF StartSend
    <3> HIDE DEF x
    <3> QED BY <3>1, <3>2
  <2>2. row'[n].status = row[n].status /\ n \notin TestKey
    BY <1>5 DEF StartSend
  <2>3. Counted(n)'
    BY <1>s, <1>b, <2>1, <2>2, CountedTask
  <2> QED BY <1>d, <1>k, <2>2, <2>3, TaskStutters
<1>6. CASE StartTest(n, t)
  <2>1. refs'[n] \in 0..MaxRefs
    BY <1>6, CountersAt DEF StartTest
  <2>2. PICK new \in TaskState : new.pc = "accepted" /\ SetTask(n, t, new)
    <3> DEFINE x == [task[n][t] EXCEPT !.pc = "accepted", !.ref = refs'[n],
                                           !.seen = "created"]
    <3>1. x \in TaskState /\ x.pc = "accepted"
      BY <1>t, <2>1 DEF TaskState, TaskPCs
    <3>2. SetTask(n, t, x)
      BY <1>6 DEF StartTest
    <3> HIDE DEF x
    <3> QED BY <3>1, <3>2
  <2>3. row'[n].status = row[n].status /\ n \in TestKey
    BY <1>6 DEF StartTest
  <2>4. Counted(n)'
    BY <1>s, <2>2, <2>3, CountedTask
  <2> QED BY <1>d, <2>3, <2>4, TaskStutters
<1> QED BY <1>1, <1>2, <1>3, <1>4, <1>5, <1>6 DEF Start

\* The answer of SES.
LEMMA MapAnswer ==
  ASSUME TypeOK, ~Overlap, SerialInv, NEW n \in Emails, NEW t \in Tasks, Counted(n),
         SesAccepts(n, t) \/ SesFails(n, t) \/ SesTimesOut(n, t) \/ SesRefuses(n, t)
  PROVE  Counted(n)' /\ Maps
<1>d. Deliver(n, t)
  BY DEF Deliver, Continue
<1>a. /\ EmailSerial(n) /\ Sole(n, t) /\ Untold /\ DueSet' = DueSet
      /\ \A m \in Emails \ {n} : SameStatus(m) /\ SameCopies(m)
  BY <1>d, TaskAlone
<1>i. task[n][t].pc = "calling" /\ task[n][t] \in TaskState /\ row' = row
  BY DEF SesAccepts, SesFails, SesTimesOut, SesRefuses, TypeOK
<1>b. /\ row[n].status = "created" /\ n \notin TestKey
      /\ refs[n] \in Nat /\ lost[n] \in Nat /\ refs[n] = lost[n]
  BY <1>a, <1>i, CountsAt
<1>m. StatusMap' = StatusMap /\ StatusMap[n] = "created" /\ CopiesMap[n] # "out"
  <2>1. \A m \in Emails : SameStatus(m)
    BY <1>i DEF SameStatus
  <2>2. Copies(n) # "out"
    BY <1>b DEF Copies
  <2> QED BY <1>b, <2>1, <2>2, StatusKept, MapsAt
<1>1. CASE SesAccepts(n, t)
  <2>1. /\ refs'[n] = refs[n] + 1 /\ refs'[n] \in 0..MaxRefs /\ lost'[n] = lost[n]
    BY <1>1, CountersAt DEF SesAccepts
  <2>2. PICK new \in TaskState : new.pc = "accepted" /\ SetTask(n, t, new)
    <3> DEFINE x == [task[n][t] EXCEPT !.pc = "accepted", !.ref = refs'[n]]
    <3>1. x \in TaskState /\ x.pc = "accepted"
      BY <1>i, <2>1 DEF TaskState, TaskPCs
    <3>2. SetTask(n, t, x)
      BY <1>1 DEF SesAccepts
    <3> HIDE DEF x
    <3> QED BY <3>1, <3>2
  <2>3. /\ lost'[n] <= refs'[n] /\ lost'[n] < refs'[n] /\ refs'[n] # 0
        /\ ~(refs'[n] <= lost'[n]) /\ refs'[n] = lost'[n] + 1
    BY <1>b, <2>1
  <2>4. Counted(n)'
    BY <1>a, <1>b, <2>2, <2>3, CountedTask
  <2>5. CopiesMap' = [CopiesMap EXCEPT ![n] = "out"]
    BY <1>a, <1>b, <2>3, CopiesWritten
  <2> QED BY <1>a, <1>b, <1>m, <2>4, <2>5, AsCopy
<1>2. CASE SesFails(n, t)
  <2>1. PICK new \in TaskState : /\ new.pc = "raised" /\ new.seen = "created"
                                 /\ SetTask(n, t, new)
    BY <1>i, <1>2 DEF SesFails, Raise, TaskState, TaskPCs
  <2>2. SameCopies(n) /\ lost'[n] <= refs'[n]
    BY <1>b, <1>2 DEF SesFails, SameCopies
  <2>3. Counted(n)'
    BY <1>a, <1>i, <1>b, <2>1, <2>2, CountedTask
  <2> QED BY <1>d, <1>i, <2>2, <2>3, TaskStutters
<1>3. CASE SesTimesOut(n, t)
  <2>1. PICK new \in TaskState : /\ new.pc = "raised" /\ new.seen = "created"
                                 /\ SetTask(n, t, new)
    BY <1>i, <1>3 DEF SesTimesOut, Raise, TaskState, TaskPCs
  <2>2. refs'[n] = refs[n] + 1 /\ lost'[n] = lost[n] + 1
    BY <1>3, CountersAt DEF SesTimesOut
  <2>3. lost'[n] <= refs'[n] /\ refs'[n] <= lost'[n] /\ refs'[n] # 0
    BY <1>b, <2>2
  <2>4. Counted(n)'
    BY <1>a, <1>i, <1>b, <2>1, <2>3, CountedTask
  <2>5. CopiesMap' = [CopiesMap EXCEPT ![n] = "lost"]
    BY <1>a, <1>b, <2>3, CopiesWritten
  <2> QED BY <1>a, <1>b, <1>m, <2>4, <2>5, AsCopy
<1>4. CASE SesRefuses(n, t)
  <2>1. PICK new \in TaskState : new.pc = "failing" /\ SetTask(n, t, new)
    <3> DEFINE x == [task[n][t] EXCEPT !.pc = "failing"]
    <3>1. x \in TaskState /\ x.pc = "failing"
      BY <1>i DEF TaskState, TaskPCs
    <3>2. SetTask(n, t, x)
      BY <1>4 DEF SesRefuses
    <3> HIDE DEF x
    <3> QED BY <3>1, <3>2
  <2>2. SameCopies(n) /\ lost'[n] <= refs'[n]
    BY <1>b, <1>4 DEF SesRefuses, SameCopies
  <2>3. Counted(n)'
    BY <1>a, <1>i, <1>b, <2>1, <2>2, CountedTask
  <2> QED BY <1>d, <1>i, <2>2, <2>3, TaskStutters
<1> QED BY <1>1, <1>2, <1>3, <1>4

\* A copy whose reference was waiting to be committed is lost.
LEMMA LosesCopy ==
  ASSUME TypeOK, ~Overlap, SerialInv, NEW n \in Emails, NEW t \in Tasks,
         Counted(n), Deliver(n, t) \/ CrashTask(n, t), task[n][t].pc = "accepted",
         row' = row, refs' = refs, LoseRef(n)
  PROVE  /\ row[n].status = "created"
         /\ n \notin TestKey => lost'[n] <= refs'[n]
         /\ Maps
<1>a. /\ EmailSerial(n) /\ Sole(n, t) /\ Untold /\ DueSet' = DueSet
      /\ \A m \in Emails \ {n} : SameStatus(m) /\ SameCopies(m)
  BY TaskAlone
<1>b. /\ row[n].status = "created" /\ refs[n] \in Nat /\ lost[n] \in Nat
      /\ n \notin TestKey => refs[n] = lost[n] + 1
  BY <1>a, CountsAt
<1>l. lost'[n] = lost[n] + 1
  BY CountersAt
<1>1. CASE n \in TestKey
  BY <1>1, <1>b, TaskStutters
<1>2. CASE n \notin TestKey
  <2>1. lost'[n] <= refs'[n] /\ refs'[n] <= lost'[n] /\ refs'[n] # 0
    BY <1>2, <1>b, <1>l
  <2>2. CopiesMap' = [CopiesMap EXCEPT ![n] = "lost"]
    BY <1>2, <1>a, <2>1, CopiesWritten
  <2>3. StatusMap' = StatusMap /\ StatusMap[n] = "created"
    <3>1. \A m \in Emails : SameStatus(m)
      BY DEF SameStatus
    <3> QED BY <1>b, <3>1, StatusKept, MapsAt
  <2> QED BY <1>2, <1>a, <1>b, <2>1, <2>2, <2>3, AsCopy
<1> QED BY <1>1, <1>2

\* The commit.
LEMMA MapCommit ==
  ASSUME TypeOK, ~Overlap, SerialInv, NEW n \in Emails, NEW t \in Tasks, Counted(n),
         CommitSending(n, t) \/ CommitFails(n, t)
  PROVE  Counted(n)' /\ Maps
<1>d. Deliver(n, t)
  BY DEF Deliver, Continue
<1>a. EmailSerial(n) /\ Sole(n, t)
  BY <1>d, TaskAlone
<1>i. task[n][t].pc = "accepted" /\ task[n][t] \in TaskState
  BY DEF CommitSending, CommitFails, TypeOK
<1>b. /\ row[n].status = "created" /\ refs[n] \in Nat /\ lost[n] \in Nat
      /\ n \notin TestKey =>
           /\ lost[n] < refs[n] /\ lost[n] <= refs[n]
           /\ refs[n] # 0 /\ ~(refs[n] <= lost[n]) /\ refs[n] = lost[n] + 1
  <2>1. /\ row[n].status = "created" /\ refs[n] \in Nat /\ lost[n] \in Nat
        /\ n \notin TestKey => lost[n] < refs[n] /\ refs[n] <= lost[n] + 1
    BY <1>a, <1>i, CountsAt
  <2> QED BY <2>1
<1>1. CASE CommitSending(n, t)
  <2>1. row'[n].status = "sending" /\ SameCopies(n)
    BY <1>1 DEF CommitSending, TypeOK, SameCopies
  <2>2. Copies(n) = "out" \/ n \in TestKey
    BY <1>b DEF Copies
  <2>3. Maps
    BY <1>d, <1>b, <2>1, <2>2, TaskWritten
  <2>4. n \notin TestKey => lost'[n] <= refs'[n]
    BY <1>b, <2>1 DEF SameCopies
  <2>5. PICK new \in TaskState :
          /\ new.pc = IF n \in TestKey THEN "responding" ELSE "free"
          /\ SetTask(n, t, new)
    <3>1. CASE n \in TestKey
      <4>1. PICK new \in TaskState : new.pc = "responding" /\ SetTask(n, t, new)
        <5> DEFINE x == [task[n][t] EXCEPT !.pc = "responding"]
        <5>1. x \in TaskState /\ x.pc = "responding"
          BY <1>i DEF TaskState, TaskPCs
        <5>2. SetTask(n, t, x)
          BY <1>1, <3>1 DEF CommitSending
        <5> HIDE DEF x
        <5> QED BY <5>1, <5>2
      <4> QED BY <3>1, <4>1
    <3>2. CASE n \notin TestKey
      BY <1>1, <3>2, FirstTasks DEF CommitSending
    <3> QED BY <3>1, <3>2
  <2>6. Counted(n)'
    BY <1>a, <2>4, <2>5, CountedTask
  <2> QED BY <2>3, <2>6
<1>2. CASE CommitFails(n, t)
  <2>1. PICK new \in TaskState : /\ new.pc = "raised" /\ new.seen = Absent
                                 /\ SetTask(n, t, new)
    BY <1>i, <1>2 DEF CommitFails, Raise, TaskState, TaskPCs
  <2>2. row' = row /\ refs' = refs /\ LoseRef(n)
    BY <1>2 DEF CommitFails
  <2>3. Maps /\ (n \notin TestKey => lost'[n] <= refs'[n])
    BY <1>d, <1>i, <2>2, LosesCopy
  <2>4. Counted(n)'
    BY <1>a, <1>b, <2>1, <2>2, <2>3, CountedTask
  <2> QED BY <2>3, <2>4
<1> QED BY <1>1, <1>2

\* The end of a task, and the simulated report of a test email.
LEMMA MapConclude ==
  ASSUME TypeOK, ~Overlap, SerialInv, NEW n \in Emails, NEW t \in Tasks, Counted(n),
         \/ SendEmailResponseFails(n, t) \/ RetryTask(n, t) \/ GiveUp(n, t)
         \/ \E r \in Reports, k \in ReportKinds : SendEmailResponse(n, t, r, k)
  PROVE  Counted(n)' /\ Maps
<1>d. Deliver(n, t)
  BY DEF Deliver, Continue
<1>a. EmailSerial(n) /\ Sole(n, t)
  BY <1>d, TaskAlone
<1>i. /\ task[n][t].pc \in {"responding", "raised", "failing"}
      /\ task[n][t] \in TaskState /\ SameCopies(n)
  BY DEF SendEmailResponseFails, RetryTask, GiveUp, SendEmailResponse, TypeOK, SameCopies
<1>b. /\ refs[n] \in Nat /\ lost[n] \in Nat
      /\ n \notin TestKey => lost'[n] <= refs'[n]
      /\ row[n].status = "created" => refs[n] <= lost[n]
  BY <1>a, <1>i, CountsAt DEF SameCopies
<1>1. CASE SendEmailResponseFails(n, t)
  <2>1. n \in TestKey /\ row' = row
    BY <1>1 DEF SendEmailResponseFails, Counted
  <2>2. PICK s \in {Absent, "created", "sending"} :
          Raise(n, t, s) /\ (s # Absent => row[n].status = s)
    BY <1>1 DEF SendEmailResponseFails
  <2>3. PICK new \in TaskState : /\ new.pc = "raised" /\ new.seen = s
                                 /\ SetTask(n, t, new)
    BY <1>i, <2>2 DEF Raise, TaskState, TaskPCs
  <2>4. Counted(n)'
    BY <1>a, <2>1, <2>2, <2>3, CountedTask
  <2> QED BY <1>d, <2>1, <2>4, TaskStutters
<1>2. CASE RetryTask(n, t)
  <2>1. row' = row
    BY <1>2 DEF RetryTask
  <2>2. PICK new \in TaskState : new.pc = "queued" /\ SetTask(n, t, new)
    <3> DEFINE k == task[n][t].retries + 1
               x == [NewTask EXCEPT !.retries = k]
    <3>1. k \in 0..MaxRetries
      BY <1>i, <1>2, EmailAssumption DEF RetryTask, TaskState
    <3>2. SetTask(n, t, x)
      BY <1>2 DEF RetryTask
    <3> HIDE DEF k
    <3>3. x \in TaskState /\ x.pc = "queued"
      BY <3>1, TaskValues
    <3> HIDE DEF x
    <3> QED BY <3>2, <3>3
  <2>3. Counted(n)'
    BY <1>a, <1>b, <2>2, CountedTask
  <2> QED BY <1>d, <1>i, <2>1, <2>3, TaskStutters
<1>3. CASE GiveUp(n, t)
  <2>1. SetTask(n, t, FreeTask)
    BY <1>3 DEF GiveUp
  <2>2. Counted(n)'
    BY <1>a, <1>b, <2>1, FirstTasks, CountedTask
  <2>3. CASE row' = row
    BY <1>d, <1>i, <2>2, <2>3, TaskStutters
  <2>4. CASE row' # row
    <3>1. /\ SetStatus(n, "technical-failure") /\ Updates(n, task[n][t].seen)
          /\ task[n][t].pc \in {"raised", "failing"}
      BY <1>3, <2>4 DEF GiveUp
    <3>2. row'[n].status = "technical-failure"
      BY <3>1, StatusAt DEF NotificationStatuses
    <3>3. row[n].status \in UpdatableStatuses
      BY <3>1 DEF Updates, Counted, UpdatableStatuses
    <3>4. n \in TestKey \/ row[n].status = "created"
      BY <3>1, <3>3 DEF Counted, UpdatableStatuses, Absent
    <3>5. row[n].status = "created" => Copies(n) # "out"
      BY <1>b DEF Copies
    <3> QED BY <1>d, <1>i, <2>2, <3>2, <3>3, <3>4, <3>5, TaskWritten
  <2> QED BY <2>3, <2>4
<1>4. ASSUME NEW r \in Reports, NEW k \in ReportKinds, SendEmailResponse(n, t, r, k)
      PROVE  Counted(n)' /\ Maps
  <2>1. SetTask(n, t, FreeTask) /\ row' = row
    BY <1>4 DEF SendEmailResponse
  <2>2. Counted(n)'
    BY <1>a, <1>b, <2>1, FirstTasks, CountedTask
  <2> QED BY <1>d, <1>i, <2>1, <2>2, TaskStutters
<1> QED BY <1>1, <1>2, <1>3, <1>4

\* The worker dies.
LEMMA MapCrash ==
  ASSUME TypeOK, ~Overlap, SerialInv, NEW n \in Emails, NEW t \in Tasks, Counted(n),
         CrashTask(n, t)
  PROVE  Counted(n)' /\ Maps
<1>a. /\ EmailSerial(n) /\ Sole(n, t) /\ Untold /\ DueSet' = DueSet
      /\ \A m \in Emails \ {n} : SameStatus(m) /\ SameCopies(m)
  BY TaskAlone
<1>f. SetTask(n, t, FreeTask) /\ row' = row
  BY DEF CrashTask
<1>1. CASE task[n][t].pc = "accepted" /\ LoseRef(n) /\ UNCHANGED refs
  <2>1. Maps /\ (n \notin TestKey => lost'[n] <= refs'[n])
    BY <1>1, <1>f, LosesCopy
  <2>2. Counted(n)'
    BY <1>a, <1>f, <2>1, FirstTasks, CountedTask
  <2> QED BY <2>1, <2>2
<1>2. CASE /\ task[n][t].pc = "calling" /\ refs[n] < MaxRefs /\ LoseRef(n)
           /\ refs' = [refs EXCEPT ![n] = @ + 1]
  <2>1. /\ row[n].status = "created" /\ n \notin TestKey
        /\ refs[n] \in Nat /\ lost[n] \in Nat /\ refs[n] = lost[n]
    BY <1>a, <1>2, CountsAt
  <2>2. refs'[n] = refs[n] + 1 /\ lost'[n] = lost[n] + 1
    BY <1>2, CountersAt
  <2>3. lost'[n] <= refs'[n] /\ refs'[n] <= lost'[n] /\ refs'[n] # 0
    BY <2>1, <2>2
  <2>4. Counted(n)'
    BY <1>a, <1>f, <2>1, <2>3, FirstTasks, CountedTask
  <2>5. CopiesMap' = [CopiesMap EXCEPT ![n] = "lost"]
    BY <1>a, <2>1, <2>3, CopiesWritten
  <2>6. StatusMap' = StatusMap /\ StatusMap[n] = "created"
    <3>1. \A m \in Emails : SameStatus(m)
      BY <1>f DEF SameStatus
    <3> QED BY <2>1, <3>1, StatusKept, MapsAt
  <2> QED BY <1>a, <2>1, <2>4, <2>5, <2>6, AsCopy
<1>3. CASE task[n][t].pc # "accepted" /\ UNCHANGED <<refs, lost>>
  <2>1. SameCopies(n) /\ (n \notin TestKey => lost'[n] <= refs'[n])
    BY <1>a, <1>3, CountsAt DEF SameCopies
  <2>2. Counted(n)'
    BY <1>a, <1>f, <2>1, FirstTasks, CountedTask
  <2> QED BY <1>f, <2>1, <2>2, TaskStutters
<1> QED BY <1>1, <1>2, <1>3 DEF CrashTask

LEMMA MapTask ==
  ASSUME TypeOK, ~Overlap, SerialInv, CountedInv, NEW n \in Emails, NEW t \in Tasks,
         Deliver(n, t) \/ CrashTask(n, t)
  PROVE  CountedInv' /\ Maps
<1>1. Counted(n)
  BY DEF CountedInv
<1>2. Continue(n, t) => Counted(n)' /\ Maps
  BY <1>1, MapAnswer, MapCommit, MapConclude DEF Continue
<1>3. Counted(n)' /\ Maps
  BY <1>1, <1>2, MapStart, MapCrash DEF Deliver
<1>4. \A m \in Emails \ {n} : SameStatus(m) /\ SameCopies(m) /\ task'[m] = task[m]
  BY TaskAlone
<1>5. ASSUME NEW m \in Emails \ {n} PROVE Counted(m)'
  BY <1>4, CountedFrame DEF CountedInv, SameStatus
<1> QED BY <1>3, <1>5 DEF CountedInv

\* A step that starts nothing and, where a task is at work, leaves the status alone.
StartsNone(n) ==
  /\ SameCopies(n)
  /\ \A t \in Tasks : task'[n][t] = task[n][t] \/ task'[n][t].pc \in {"free", "queued"}
  /\ \/ row'[n].status = row[n].status
     \/ \A t \in Tasks : task'[n][t].pc \in {"free", "queued"}

LEMMA CountedKept ==
  ASSUME CountedInv, \A m \in Emails : StartsNone(m)
  PROVE  CountedInv' /\ CopiesMap' = CopiesMap
<1>1. ASSUME NEW n \in Emails PROVE Counted(n)'
  <2> USE DEF StartsNone
  <2>0. Counted(n) /\ StartsNone(n)
    BY DEF CountedInv
  <2>1. \A t \in Tasks :
         /\ task'[n][t].pc = "calling" => n \notin TestKey
         /\ task'[n][t].pc = "responding" => n \in TestKey
         /\ task'[n][t].pc = "failing" => n \notin TestKey /\ row'[n].status = "created"
         /\ task'[n][t].pc = "raised" =>
              /\ task'[n][t].seen # Absent => row'[n].status = task'[n][t].seen
              /\ n \in TestKey \/ row'[n].status \in {"created", "technical-failure", Absent}
    BY <2>0 DEF Counted
  <2>2. n \notin TestKey =>
         /\ lost'[n] <= refs'[n]
         /\ \A t \in Tasks : task'[n][t].pc = "accepted" => lost'[n] < refs'[n]
    BY <2>0 DEF Counted, Accepted, SameCopies
  <2> QED BY <2>1, <2>2 DEF Counted, Accepted
<1> QED BY <1>1, CopiesKept DEF CountedInv, StartsNone

\* A task is queued.
LEMMA MapQueue ==
  ASSUME TypeOK, CountedInv, NEW n \in Emails, NEW t \in Tasks, NEW new \in TaskState,
         SetTask(n, t, new), new.pc = "queued",
         UNCHANGED <<row, report, told, sweep, refs, lost, active>>
  PROVE  CountedInv' /\ Maps
<1>1. \A m \in Emails : SameStatus(m) /\ SameDue(m) /\ SameCopies(m)
  BY DEF SameStatus, SameDue, Due, DueAfter, SameCopies
<1>2. \A m \in Emails, u \in Tasks :
        task'[m][u] = task[m][u] \/ task'[m][u].pc \in {"free", "queued"}
  BY TaskAt
<1>3. \A m \in Emails : StartsNone(m)
  BY <1>1, <1>2 DEF StartsNone, SameStatus
<1>4. CountedInv' /\ CopiesMap' = CopiesMap
  BY <1>3, CountedKept
<1>5. StatusMap' = StatusMap /\ DueSet' = DueSet
  BY <1>1, StatusKept, DueKept
<1> QED BY <1>4, <1>5, AsStutter DEF Untold

\* A step of a report that leaves the rows alone.
LEMMA ReportStep ==
  ASSUME TypeOK, CountedInv, NEW n \in Emails, NEW r \in Reports, NEW new \in ReportState,
         SetReport(n, r, new), UNCHANGED <<row, task, refs, lost, sweep>>
  PROVE  /\ CountedInv' /\ StatusMap' = StatusMap /\ CopiesMap' = CopiesMap
         /\ (report[n][r].pc = "updated" <=> new.pc = "updated") => DueSet' = DueSet
         /\ Alone(n, r) /\ report[n][r].pc = "updated" /\ new.pc # "updated"
              => n \in DueSet /\ DueSet' = DueSet \ {n}
<1>1. /\ report'[n][r] = new
      /\ \A q \in Reports \ {r} : report'[n][q] = report[n][q]
      /\ \A m \in Emails \ {n} : report'[m] = report[m]
  BY ReportAt
<1>2. \A m \in Emails : SameStatus(m) /\ SameCopies(m) /\ StartsNone(m)
  BY DEF SameStatus, SameCopies, StartsNone
<1>3. CountedInv' /\ StatusMap' = StatusMap /\ CopiesMap' = CopiesMap
  BY <1>2, CountedKept, StatusKept
<1>4. \A m \in Emails \ {n} : SameDue(m)
  BY <1>1 DEF SameDue, Due, DueAfter
<1>5. ASSUME report[n][r].pc = "updated" <=> new.pc = "updated"
      PROVE  DueSet' = DueSet
  <2>1. SameDue(n)
    BY <1>1, <1>5 DEF SameDue, Due, DueAfter
  <2> QED BY <1>4, <2>1, DueKept
<1>6. ASSUME Alone(n, r), report[n][r].pc = "updated", new.pc # "updated"
      PROVE  n \in DueSet /\ DueSet' = DueSet \ {n}
  <2>1. Due(n)
    BY <1>6 DEF Due
  <2>2. ~DueAfter(n)
    BY <1>1, <1>6 DEF DueAfter, Alone, Handling
  <2> QED BY <1>4, <2>1, <2>2, DueOf DEF SameDue
<1> QED BY <1>3, <1>5, <1>6

\* The report writes the row.
LEMMA MapUpdates ==
  ASSUME TypeOK, RefInv, ~Overlap, SerialInv, CountedInv, NEW n \in Emails, NEW r \in Reports,
         ReportUpdates(n, r)
  PROVE  CountedInv' /\ Maps
<1> DEFINE rp == report[n][r]
           new == [rp EXCEPT !.pc = "updated"]
<1>t. rp \in ReportState
  BY DEF TypeOK
<1>e. EmailSerial(n) /\ OneHandler(n)
  BY DEF SerialInv, EmailSerial
<1>1. /\ rp.pc = "read" /\ SetReport(n, r, new)
      /\ UNCHANGED <<task, refs, lost, sweep, active, told>>
  BY DEF ReportUpdates, Schedule
<1>2. new \in ReportState /\ new.pc = "updated"
  BY <1>t DEF ReportState, ReportPCs
<1>a. Alone(n, r)
  BY <1>e, <1>1, AloneReport DEF Handling
<1>3. Found(n, r) /\ row[n].status \in InFlightStatuses /\ ~IsComplaint(n, r)
  BY <1>e, <1>1 DEF EmailSerial, ToldOnce, RefInv, EmailRefs, ReportRef
<1>4. rp.kind \in FinalStatuses /\ rp.kind \in NotificationStatuses
  BY <1>t, <1>3 DEF IsComplaint, ReportState, ReportKinds, FinalStatuses, NotificationStatuses
<1>5. SetStatus(n, rp.kind)
  BY <1>3 DEF ReportUpdates
<1>6. /\ row'[n].status = rp.kind
      /\ \A m \in Emails \ {n} : row'[m] = row[m]
  BY <1>4, <1>5, StatusAt
<1>7. n \in TestKey \/ CopiesMap[n] # "none"
  <2>1. rp.ref \in 1..refs[n]
    BY <1>1 DEF RefInv, EmailRefs, ReportRef
  <2>2. refs[n] # 0
    BY <2>1, RefTypes
  <2> QED BY <2>2, MapsAt DEF Copies
<1> HIDE DEF new
<1>8. /\ report'[n][r] = new
      /\ \A m \in Emails \ {n} : report'[m] = report[m]
  BY <1>1, <1>2, ReportAt
<1>9. DueSet' = DueSet \cup {n}
  <2>1. DueAfter(n)
    BY <1>2, <1>8 DEF DueAfter
  <2>2. \A m \in Emails \ {n} : SameDue(m)
    BY <1>1, <1>8 DEF SameDue, Due, DueAfter
  <2> QED BY <2>1, <2>2, DueOf DEF SameDue
<1>10. \A m \in Emails : SameCopies(m) /\ StartsNone(m)
  BY <1>a, <1>1, <1>6 DEF SameCopies, StartsNone, Alone, Running
<1>11. CountedInv' /\ CopiesMap' = CopiesMap
  BY <1>10, CountedKept
<1>12. StatusMap' = [StatusMap EXCEPT ![n] = rp.kind]
  BY <1>6, StatusWritten DEF SameStatus
<1>13. StatusMap[n] \in UpdatableStatuses
  BY <1>3, MapsAt DEF InFlightStatuses, UpdatableStatuses
<1> QED BY <1>1, <1>4, <1>7, <1>9, <1>11, <1>12, <1>13, AsReport DEF Untold

\* What SES posts, handled.
LEMMA MapReport ==
  ASSUME TypeOK, RefInv, ~Overlap, SerialInv, CountedInv, NEW n \in Emails, NEW r \in Reports,
         ProcessReport(n, r) \/ CrashReport(n, r)
  PROVE  CountedInv' /\ Maps
<1> DEFINE rp == report[n][r]
<1>t. rp \in ReportState
  BY DEF TypeOK
<1>e. EmailSerial(n) /\ OneHandler(n)
  BY DEF SerialInv, EmailSerial
<1>a. rp.pc = "updated" => Alone(n, r)
  BY <1>e, AloneReport DEF Handling
<1>1. ASSUME NEW new \in ReportState, SetReport(n, r, new), new.pc # "updated",
             UNCHANGED <<row, task, refs, lost, sweep, active, told>>
      PROVE  CountedInv' /\ Maps
  <2>1. CountedInv' /\ StatusMap' = StatusMap /\ CopiesMap' = CopiesMap
    BY <1>1, ReportStep
  <2>2. CASE rp.pc = "updated"
    <3>1. DueSet' = DueSet \ {n}
      BY <1>a, <1>1, <2>2, ReportStep
    <3> QED BY <1>1, <2>1, <3>1, AsForget DEF Untold
  <2>3. CASE rp.pc # "updated"
    <3>1. DueSet' = DueSet
      BY <1>1, <2>3, ReportStep
    <3> QED BY <1>1, <2>1, <3>1, AsStutter DEF Untold
  <2> QED BY <2>2, <2>3
<1>2. CASE \/ ReportDuplicate(n, r) \/ TellComplaint(n, r) \/ CrashReport(n, r)
  <2>1. /\ SetReport(n, r, NoReport)
        /\ UNCHANGED <<row, task, refs, lost, sweep, active, told>>
    BY <1>2 DEF ReportDuplicate, TellComplaint, CrashReport, Schedule
  <2> QED BY <1>1, <2>1, ReportValues
<1>3. CASE ReportUnknown(n, r) \/ ReportTellFails(n, r) \/ ComplaintUnknown(n, r)
           \/ TellComplaintFails(n, r)
  <2>1. /\ Again(n, r) \/ SetReport(n, r, NoReport)
        /\ UNCHANGED <<row, task, refs, lost, sweep, active, told>>
    BY <1>3 DEF ReportUnknown, ReportTellFails, ComplaintUnknown, TellComplaintFails, Schedule
  <2>2. \E new \in ReportState : new.pc \in {"none", "transit"} /\ SetReport(n, r, new)
    BY <2>1, Retried, ReportValues
  <2> QED BY <1>1, <2>1, <2>2
<1>4. ASSUME NEW pc \in {"read", "saved"},
             SetReport(n, r, [rp EXCEPT !.pc = pc]),
             UNCHANGED <<row, task, refs, lost, sweep, active, told>>
      PROVE  CountedInv' /\ Maps
  <2>1. [rp EXCEPT !.pc = pc] \in ReportState /\ [rp EXCEPT !.pc = pc].pc = pc
    BY <1>t DEF ReportState, ReportPCs
  <2> QED BY <1>1, <1>4, <2>1
<1>5. CASE ReportReads(n, r) \/ SaveComplaint(n, r)
  BY <1>4, <1>5 DEF ReportReads, SaveComplaint, Schedule
<1>6. CASE ReportTells(n, r)
  <2>1. /\ SetReport(n, r, NoReport) /\ rp.pc = "updated" /\ Tell(n)
        /\ UNCHANGED <<row, task, refs, lost, sweep, active>>
    BY <1>6 DEF ReportTells, Schedule
  <2>2. /\ CountedInv' /\ StatusMap' = StatusMap /\ CopiesMap' = CopiesMap
        /\ n \in DueSet /\ DueSet' = DueSet \ {n}
    BY <1>a, <2>1, ReportValues, ReportStep
  <2>3. told' = [told EXCEPT ![n] = Append(@, StatusMap[n])]
    BY <2>1, MapsAt DEF Tell
  <2> QED BY <2>1, <2>2, <2>3, AsTell
<1> QED BY <1>2, <1>3, <1>5, <1>6, MapUpdates DEF ProcessReport

\* SES posts.
LEMMA MapPosts ==
  ASSUME TypeOK, CountedInv, NEW n \in Emails, NEW r \in Reports,
         NEW ref \in 1..MaxRefs, NEW k \in ReportKinds, SesPosts(n, r, ref, k)
  PROVE  CountedInv' /\ Maps
<1> DEFINE new == [NoReport EXCEPT !.pc = "transit", !.ref = ref, !.kind = k]
<1>1. ref \in 0..MaxRefs
  BY EmailAssumption
<1>2. new \in ReportState /\ new.pc = "transit"
  BY <1>1, ReportValues
<1>3. /\ SetReport(n, r, new) /\ report[n][r].pc = "none"
      /\ UNCHANGED <<row, told, task, refs, lost, sweep, active>>
  BY DEF SesPosts, Schedule
<1> HIDE DEF new
<1>4. /\ CountedInv' /\ StatusMap' = StatusMap /\ CopiesMap' = CopiesMap
      /\ DueSet' = DueSet
  BY <1>2, <1>3, ReportStep
<1> QED BY <1>3, <1>4, AsStutter DEF Untold

\* The replay and the timeout.
LEMMA MapScheduled ==
  ASSUME TypeOK, ~Overlap, SerialInv, CountedInv, NEW n \in Emails,
         \/ ReplayFails(n) \/ TimeoutSelect(n) \/ TimeoutUpdate(n) \/ TimeoutTell(n)
  PROVE  CountedInv' /\ Maps
<1>e. EmailSerial(n) /\ OneHandler(n)
  BY DEF SerialInv, EmailSerial
<1>u. UNCHANGED <<task, refs, lost, report, active>>
  BY DEF ReplayFails, TimeoutSelect, TimeoutUpdate, TimeoutTell, Reporting
<1>a. /\ \A t \in Tasks : task[n][t].pc \in {"free", "queued"}
      /\ \A r \in Reports : report[n][r].pc \in {"none", "transit"}
  <2>1. Idle(n) \/ sweep[n] # "idle"
    BY DEF ReplayFails, TimeoutSelect, TimeoutUpdate, TimeoutTell, MayStart
  <2> QED BY <1>e, <2>1 DEF Idle, OneHandler, Running, Handling
<1>o. \A m \in Emails \ {n} : row'[m] = row[m] /\ sweep'[m] = sweep[m]
  <2>1. \A m \in Emails \ {n} : row'[m] = row[m]
    <3>1. CASE SetStatus(n, "temporary-failure")
      BY <3>1, StatusAt DEF NotificationStatuses
    <3>2. CASE row' = row
      BY <3>2
    <3>3. CASE row' = [row EXCEPT ![n] = [status |-> Absent, ref |-> 0]]
      BY <3>3 DEF TypeOK
    <3> QED BY <3>1, <3>2, <3>3 DEF ReplayFails, TimeoutSelect, TimeoutUpdate, TimeoutTell
  <2>2. \A m \in Emails \ {n} : sweep'[m] = sweep[m]
    BY DEF ReplayFails, TimeoutSelect, TimeoutUpdate, TimeoutTell, SetSweep, TypeOK
  <2> QED BY <2>1, <2>2
<1>k. CountedInv' /\ CopiesMap' = CopiesMap
  <2>1. \A m \in Emails : StartsNone(m)
    BY <1>u, <1>a, <1>o DEF StartsNone, SameCopies
  <2> QED BY <2>1, CountedKept
<1>d. /\ \A m \in Emails \ {n} : SameDue(m) /\ SameStatus(m)
      /\ Due(n) <=> sweep[n] = "telling"
      /\ DueAfter(n) <=> sweep'[n] = "telling"
  BY <1>u, <1>a, <1>o DEF SameDue, SameStatus, Due, DueAfter
<1>s. (row' = row) => StatusMap' = StatusMap
  BY DEF StatusMap
<1>m. StatusMap[n] = row[n].status /\ StatusMap[n] # "unborn"
  BY MapsAt
<1>1. CASE ReplayFails(n)
  <2>1. /\ row'[n].status = Absent /\ told' = told
        /\ sweep[n] = "idle" /\ sweep'[n] = "idle"
    BY <1>1 DEF ReplayFails, TypeOK, MayStart, Idle, Reporting
  <2>2. DueSet' = DueSet /\ n \notin DueSet
    BY <1>d, <2>1, DueOf, DueKept DEF SameDue
  <2>3. StatusMap' = [StatusMap EXCEPT ![n] = Absent]
    BY <1>d, <2>1, StatusWritten
  <2> QED BY <1>u, <1>k, <1>m, <2>1, <2>2, <2>3, AsWrite DEF Untold
<1>2. CASE TimeoutSelect(n)
  <2>1. row' = row /\ told' = told /\ sweep[n] = "idle" /\ sweep'[n] = "selected"
    BY <1>2 DEF TimeoutSelect, SetSweep, Reporting, TypeOK
  <2>2. DueSet' = DueSet
    BY <1>d, <2>1, DueOf, DueKept DEF SameDue
  <2> QED BY <1>u, <1>k, <1>s, <2>1, <2>2, AsStutter DEF Untold
<1>3. CASE TimeoutUpdate(n)
  <2>1. row[n].status \in InFlightStatuses
    BY <1>e, <1>3 DEF TimeoutUpdate, EmailSerial, ToldOnce
  <2>2. SetStatus(n, "temporary-failure")
    BY <1>3, <2>1 DEF TimeoutUpdate, InFlightStatuses, Absent
  <2>3. row'[n].status = "temporary-failure"
    BY <2>2, StatusAt DEF NotificationStatuses
  <2>4. sweep'[n] = "telling" /\ told' = told
    BY <1>3 DEF TimeoutUpdate, SetSweep, Reporting, TypeOK
  <2>5. DueSet' = DueSet \cup {n}
    BY <1>d, <2>4, DueOf DEF SameDue
  <2>6. StatusMap' = [StatusMap EXCEPT ![n] = "temporary-failure"]
    BY <1>d, <2>3, StatusWritten
  <2> QED BY <1>u, <1>k, <1>m, <2>1, <2>4, <2>5, <2>6, AsTimeOut DEF Untold
<1>4. CASE TimeoutTell(n)
  <2>1. row[n].status \in FinalStatuses /\ sweep[n] = "telling"
    BY <1>e, <1>4 DEF TimeoutTell, EmailSerial, ToldOnce
  <2>2. Tell(n) /\ sweep'[n] = "idle" /\ row' = row
    BY <1>4, <2>1 DEF TimeoutTell, SetSweep, FinalStatuses, Absent, TypeOK
  <2>3. n \in DueSet /\ DueSet' = DueSet \ {n}
    BY <1>d, <2>1, <2>2, DueOf DEF SameDue
  <2>4. told' = [told EXCEPT ![n] = Append(@, StatusMap[n])]
    BY <1>m, <2>2 DEF Tell
  <2> QED BY <1>u, <1>k, <1>s, <2>2, <2>3, <2>4, AsTell
<1> QED BY <1>1, <1>2, <1>3, <1>4

\* Every step of the emails is one of MessageDelivery, or none that it sees.
LEMMA MapStep ==
  ASSUME TypeOK, RefInv, ~Overlap, SerialInv, CountedInv, [Next]_vars
  PROVE  CountedInv' /\ Maps
<1>1. ASSUME UNCHANGED <<row, task, refs, lost, report, sweep, told>>
      PROVE  /\ CountedInv' /\ CopiesMap' = CopiesMap
             /\ StatusMap' = StatusMap /\ DueSet' = DueSet
  <2>1. \A m \in Emails : SameStatus(m) /\ SameDue(m) /\ SameCopies(m) /\ StartsNone(m)
    BY <1>1 DEF SameStatus, SameDue, Due, DueAfter, SameCopies, StartsNone
  <2> QED BY <2>1, CountedKept, StatusKept, DueKept
<1>2. CASE UNCHANGED vars \/ \E n \in Emails : Age(n) \/ ReplaySelect(n)
  <2>1. UNCHANGED <<row, task, refs, lost, report, sweep, told, active>>
    BY <1>2 DEF vars, Age, ReplaySelect, Reporting
  <2> QED BY <1>1, <2>1, AsStutter DEF Untold
<1>3. CASE ArchiveService
  <2>1. /\ UNCHANGED <<row, task, refs, lost, report, sweep, told>>
        /\ active' = FALSE
    BY <1>3 DEF ArchiveService, Reporting
  <2>2. Delivery!ArchiveService
    BY <1>1, <2>1 DEF Delivery!ArchiveService, StatusMap, CopiesMap, DueSet
  <2> QED BY <1>1, <2>1, <2>2 DEF Maps, Delivery!Next
<1>4. ASSUME NEW n \in Emails, NEW t \in Tasks, ReplayEnqueue(n, t)
      PROVE  CountedInv' /\ Maps
  BY <1>4, FirstTasks, MapQueue DEF ReplayEnqueue, Reporting
<1>5. ASSUME NEW n \in Emails, NEW t \in Tasks, NEW u \in Tasks, Redeliver(n, t, u)
      PROVE  CountedInv' /\ Maps
  <2>1. task[n][t] \in TaskState
    BY DEF TypeOK
  <2> QED BY <1>5, <2>1, MapQueue DEF Redeliver, Reporting, Schedule
<1>6. CASE Next
  BY <1>2, <1>3, <1>4, <1>5, <1>6, MapTask, MapReport, MapPosts, MapScheduled DEF Next
<1> QED BY <1>2, <1>6

LEMMA MapInit ==
  ASSUME Init
  PROVE  CountedInv /\ Delivery!Init
<1>1. /\ \A n \in Emails, t \in Tasks : task[n][t].pc \in {"free", "queued"}
      /\ \A n \in Emails, r \in Reports : report[n][r].pc = "none"
      /\ \A n \in Emails : sweep[n] = "idle" /\ refs[n] = 0 /\ lost[n] = 0
  <2>1. \A n \in Emails : task[n] \in [Tasks -> {FreeTask, NewTask}]
    BY DEF Init
  <2>2. \A n \in Emails, t \in Tasks : task[n][t].pc \in {"free", "queued"}
    <3> SUFFICES ASSUME NEW n \in Emails, NEW t \in Tasks
                 PROVE  task[n][t].pc \in {"free", "queued"}
      OBVIOUS
    <3>1. task[n][t] = FreeTask \/ task[n][t] = NewTask
      BY <2>1
    <3> QED BY <3>1, FirstTasks
  <2>3. \A n \in Emails, r \in Reports : report[n][r].pc = "none"
    BY ReportValues DEF Init
  <2>4. \A n \in Emails : sweep[n] = "idle" /\ refs[n] = 0 /\ lost[n] = 0
    BY DEF Init
  <2> QED BY <2>2, <2>3, <2>4
<1>2. CountedInv
  BY <1>1 DEF CountedInv, Counted, Accepted
<1>3. /\ StatusMap = [n \in Emails |-> "created"]
      /\ CopiesMap = [n \in Emails |-> "none"]
      /\ DueSet = {}
  <2>1. \A n \in Emails : row[n].status = "created"
    BY DEF Init
  <2> QED BY <1>1, <2>1 DEF StatusMap, CopiesMap, Copies, DueSet, Due
<1>4. told = [n \in Emails |-> << >>] /\ active = TRUE
  BY DEF Init
<1>5. Delivery!Init
  BY <1>3, <1>4, SameNames DEF Delivery!Init, StatusMap, CopiesMap, DueSet
<1> QED BY <1>2, <1>5

\* EmailDelivery implements MessageDelivery: for any numbers of emails, tasks, references,
\* reports, retries and faults, what deliver_email, process_ses_results, the replay and
\* the timeout do to a row and to the service's callbacks is what MessageDelivery allows.
THEOREM DeliveryImplemented == ~Overlap => (Spec => ImplementsDelivery)
<1> SUFFICES ASSUME ~Overlap PROVE Spec => ImplementsDelivery
  OBVIOUS
<1>1. Init => CountedInv /\ Delivery!Init
  BY MapInit
<1>2. TypeOK /\ RefInv /\ (~Overlap => SerialInv) /\ CountedInv /\ [Next]_vars
        => CountedInv' /\ Maps
  BY MapStep
<1>3. Maps => [Delivery!Next]_(Delivery!vars)
  BY DEF Maps
<1>4. Spec => Delivery!Init /\ [][Delivery!Next]_(Delivery!vars)
  BY <1>1, <1>2, <1>3, SerialAlways, PTL DEF Spec
<1> QED BY <1>4 DEF ImplementsDelivery, Delivery!Spec

\* So the row of an email says what SES and the service know of it: `sending' only if SES
\* said it has the email, `delivered' only if it has it, no email known to be at SES
\* twice, and what the service was told is one final status, the one in the row,
\* although reports are retried and repeated and the timeout and the give-up write
\* statuses too.
THEOREM HonestRows == Spec => []RowIsHonest
<1>1. CASE Overlap
  <2>1. RowIsHonest
    BY <1>1 DEF RowIsHonest
  <2> QED BY <2>1, PTL
<1>2. CASE ~Overlap
  <2>1. Spec => []Delivery!Honest
    BY <1>2, DeliveryImplemented, Delivery!HonestAlways DEF ImplementsDelivery
  <2>2. Delivery!Honest => RowIsHonest
    BY DEF RowIsHonest
  <2> QED BY <2>1, <2>2, PTL
<1> QED BY <1>1, <1>2

\* Types hold, and rows are honest.
THEOREM EmailRight == Spec => []EmailInv
  BY TypeCorrect, HonestRows, PTL DEF EmailInv
=============================================================================
