------------------------- MODULE SmsDelivery_proofs -------------------------
(***************************************************************************)
(* When the handlers of a message do not overlap, SerialInv is inductive,  *)
(* and TellInv on top of it; NoDuplicateText and FinalStatusStable follow. *)
(* AcceptedIsBilled holds however handlers overlap, from an invariant of   *)
(* its own, BilledInv.  With CountedInv on top of SerialInv and TellInv,   *)
(* every step of the messages is a step of MessageDelivery, or none that   *)
(* it sees, and RowIsHonest follows.                                       *)
(***************************************************************************)
EXTENDS SmsDelivery, TLAPS

TaskType == [Notifications -> [Tasks -> TaskState]]
ReceiptType == [Notifications -> [Receipts -> ReceiptState]]

\* Replacing one task keeps the table of tasks well typed.
LEMMA SetTaskType ==
  ASSUME task \in TaskType, NEW n \in Notifications, NEW t \in Tasks,
         NEW new \in TaskState, SetTask(n, t, new)
  PROVE  task' \in TaskType
  BY DEF TaskType, SetTask

LEMMA SetReceiptType ==
  ASSUME receipt \in ReceiptType, NEW n \in Notifications, NEW r \in Receipts,
         NEW new \in ReceiptState, SetReceipt(n, r, new)
  PROVE  receipt' \in ReceiptType
  BY DEF ReceiptType, SetReceipt

LEMMA SetRowType ==
  ASSUME row \in [Notifications -> Row], NEW n \in Notifications,
         NEW new \in Row, SetRow(n, new)
  PROVE  row' \in [Notifications -> Row]
  BY DEF SetRow

LEMMA RowValues ==
  /\ NoRow \in Row
  /\ \A x \in Row, s \in NotificationStatuses : [x EXCEPT !.status = s] \in Row
  /\ \A x \in Row, b \in BOOLEAN : [x EXCEPT !.billed = b] \in Row
<1>1. NoRow \in Row
  BY DEF NoRow, Row
<1>2. \A x \in Row, s \in NotificationStatuses : [x EXCEPT !.status = s] \in Row
  BY DEF Row
<1>3. \A x \in Row, b \in BOOLEAN : [x EXCEPT !.billed = b] \in Row
  BY DEF Row
<1> QED BY <1>1, <1>2, <1>3

LEMMA SetStatusType ==
  ASSUME row \in [Notifications -> Row], NEW n \in Notifications,
         NEW s \in NotificationStatuses, SetStatus(n, s)
  PROVE  row' \in [Notifications -> Row]
<1>1. [row[n] EXCEPT !.status = s] \in Row
  BY RowValues
<1> QED BY <1>1, SetRowType DEF SetStatus

LEMMA FaultType ==
  ASSUME faults \in 0..MaxFaults, Fault
  PROVE  faults' \in 0..MaxFaults
  BY BoundsAssumption DEF Fault

LEMMA TookType ==
  ASSUME TypeOK, NEW n \in Notifications, NEW t \in Tasks,
         Took(n, task[n][t].provider)
  PROVE  /\ accepted' \subseteq Notifications \X (Providers \cup {NoProvider})
         /\ sends' \in [Notifications -> Nat]
<1>1. task[n][t].provider \in Providers \cup {NoProvider}
  BY DEF TypeOK, TaskState
<1> QED BY <1>1 DEF Took, TypeOK

LEMMA LoseAckType ==
  ASSUME TypeOK, NEW n \in Notifications, LoseAck(n)
  PROVE  lostAcks' \in [Notifications -> Nat]
  BY DEF LoseAck, TypeOK

LEMMA TaskValues ==
  /\ \A k \in 0..MaxRetries : NewTask(k) \in TaskState
  /\ FreeTask \in TaskState
  /\ \A x \in TaskState, pc \in TaskPCs : [x EXCEPT !.pc = pc] \in TaskState
  /\ \A x \in TaskState, pc \in TaskPCs, h \in BOOLEAN :
       [x EXCEPT !.pc = pc, !.held = h] \in TaskState
  /\ \A x \in TaskState, pc \in TaskPCs, p \in Providers :
       [x EXCEPT !.pc = pc, !.provider = p] \in TaskState
<1>1. \A k \in 0..MaxRetries : NewTask(k) \in TaskState
  BY BoundsAssumption DEF NewTask, TaskState, TaskPCs
<1>2. FreeTask \in TaskState
  <2>1. 0 \in 0..MaxRetries
    BY BoundsAssumption
  <2> QED BY <2>1 DEF FreeTask, NewTask, TaskState, TaskPCs
<1>3. \A x \in TaskState, pc \in TaskPCs : [x EXCEPT !.pc = pc] \in TaskState
  BY DEF TaskState
<1>4. \A x \in TaskState, pc \in TaskPCs, h \in BOOLEAN :
       [x EXCEPT !.pc = pc, !.held = h] \in TaskState
  BY DEF TaskState
<1>5. \A x \in TaskState, pc \in TaskPCs, p \in Providers :
       [x EXCEPT !.pc = pc, !.provider = p] \in TaskState
  BY DEF TaskState
<1> QED BY <1>1, <1>2, <1>3, <1>4, <1>5

LEMMA ReceiptValues ==
  /\ NoReceipt \in ReceiptState
  /\ \A x \in ReceiptState, pc \in ReceiptPCs : [x EXCEPT !.pc = pc] \in ReceiptState
  BY DEF NoReceipt, ReceiptState, ReceiptPCs, ReportedStatuses, NoProvider, NoCode

\* Every action keeps TypeOK, by the lemmas on the values it writes.
LEMMA TypeCreate ==
  ASSUME TypeOK, NEW n \in Notifications, Create(n)
  PROVE  TypeOK'
<1>1. CASE Persist(n)
  <2>1. row' \in [Notifications -> Row]
    BY <1>1, SetStatusType DEF Persist, TypeOK, NotificationStatuses
  <2> QED BY <1>1, <2>1 DEF Persist, TypeOK
<1>2. ASSUME NEW t \in Tasks, Enqueue(n, t) PROVE TypeOK'
  <2>0. 0 \in 0..MaxRetries
    BY BoundsAssumption
  <2>1. NewTask(0) \in TaskState
    BY <2>0, TaskValues
  <2>2. task' \in TaskType
    BY <1>2, <2>1, SetTaskType DEF Enqueue, TypeOK, TaskType
  <2> QED BY <1>2, <2>2 DEF Enqueue, TypeOK, TaskType
<1>3. CASE EnqueueFails(n)
  <2>1. row' \in [Notifications -> Row]
    BY <1>3, SetRowType, RowValues DEF EnqueueFails, TypeOK
  <2> QED BY <1>3, <2>1, FaultType DEF EnqueueFails, TypeOK
<1>4. CASE ApiCrash(n)
  BY <1>4, FaultType DEF ApiCrash, TypeOK
<1> QED BY <1>1, <1>2, <1>3, <1>4 DEF Create

\* Starting a task.
LEMMA TypeStart ==
  ASSUME TypeOK, NEW n \in Notifications, NEW t \in Tasks, Start(n, t)
  PROVE  TypeOK'
<1>0. task \in TaskType /\ task[n][t] \in TaskState
  BY DEF TypeOK, TaskType
<1>1. CASE StartMissing(n, t)
  <2>1. task' \in TaskType
    BY <1>0, <1>1, SetTaskType, TaskValues DEF StartMissing, Raise, TaskPCs
  <2> QED BY <1>1, <2>1 DEF StartMissing, TypeOK, TaskType
<1>2. CASE StartInactive(n, t)
  <2>1. task' \in TaskType
    BY <1>0, <1>2, SetTaskType, TaskValues DEF StartInactive, Raise, TaskPCs
  <2>2. row' \in [Notifications -> Row]
    BY <1>2, SetStatusType DEF StartInactive, TypeOK, NotificationStatuses
  <2> QED BY <1>2, <2>1, <2>2 DEF StartInactive, TypeOK, TaskType
<1>3. CASE StartSkip(n, t)
  <2>1. task' \in TaskType
    BY <1>0, <1>3, SetTaskType, TaskValues DEF StartSkip
  <2> QED BY <1>3, <2>1 DEF StartSkip, TypeOK, TaskType
<1>4. CASE StartFails(n, t)
  <2>1. task' \in TaskType
    BY <1>0, <1>4, SetTaskType, TaskValues DEF StartFails, Raise, TaskPCs
  <2> QED BY <1>4, <2>1, FaultType DEF StartFails, TypeOK, TaskType
<1>5. ASSUME NEW p \in Providers, StartSend(n, t, p) PROVE TypeOK'
  <2> DEFINE pc == IF n \in TestKey THEN "accepted" ELSE "calling"
  <2>0. pc \in TaskPCs
    BY DEF TaskPCs
  <2>1. SetTask(n, t, [task[n][t] EXCEPT !.pc = pc, !.provider = p])
    BY <1>5 DEF StartSend
  <2>2. task' \in TaskType
    BY <1>0, <2>0, <2>1, SetTaskType, TaskValues
  <2> QED BY <1>5, <2>2 DEF StartSend, TypeOK, TaskType
<1> QED BY <1>1, <1>2, <1>3, <1>4, <1>5 DEF Start

\* The provider's answer and what is committed after it.
LEMMA TypeAnswer ==
  ASSUME TypeOK, NEW n \in Notifications, NEW t \in Tasks, Answer(n, t)
  PROVE  TypeOK'
<1>0. task \in TaskType /\ task[n][t] \in TaskState
  BY DEF TypeOK, TaskType
<1>1. CASE ProviderAccepts(n, t)
  <2>1. task' \in TaskType
    BY <1>0, <1>1, SetTaskType, TaskValues DEF ProviderAccepts, TaskPCs
  <2> QED BY <1>1, <2>1, TookType DEF ProviderAccepts, TypeOK, TaskType
<1>2. CASE ProviderRejects(n, t)
  <2>1. task' \in TaskType
    BY <1>0, <1>2, SetTaskType, TaskValues DEF ProviderRejects, TaskPCs
  <2> QED BY <1>2, <2>1 DEF ProviderRejects, TypeOK, TaskType
<1>3. CASE ProviderTimesOut(n, t)
  <2>1. task' \in TaskType
    BY <1>0, <1>3, SetTaskType, TaskValues DEF ProviderTimesOut, TaskPCs
  <2> QED BY <1>3, <2>1, TookType, LoseAckType, FaultType
          DEF ProviderTimesOut, TypeOK, TaskType
<1> QED BY <1>1, <1>2, <1>3 DEF Answer

LEMMA TypeCommit ==
  ASSUME TypeOK, NEW n \in Notifications, NEW t \in Tasks, Commit(n, t)
  PROVE  TypeOK'
<1>0. /\ task \in TaskType /\ task[n][t] \in TaskState
      /\ row \in [Notifications -> Row] /\ row[n] \in Row
  BY DEF TypeOK, TaskType
<1>1. CASE SaveBillableUnits(n, t)
  <2>1. task' \in TaskType
    BY <1>0, <1>1, SetTaskType, TaskValues DEF SaveBillableUnits, Raise, TaskPCs
  <2>2. (row[n].status # Absent) \in BOOLEAN
    OBVIOUS
  <2>3. [row[n] EXCEPT !.billed = row[n].status # Absent] \in Row
    BY <1>0, <2>2, RowValues
  <2>4. row' \in [Notifications -> Row]
    BY <1>0, <1>1, <2>3, SetRowType DEF SaveBillableUnits
  <2> QED BY <1>1, <2>1, <2>4 DEF SaveBillableUnits, TypeOK, TaskType
<1>2. CASE CommitSending(n, t)
  <2>1. task' \in TaskType
    <3>1. CASE n \in TestKey
      BY <1>0, <1>2, <3>1, SetTaskType, TaskValues DEF CommitSending, TaskPCs
    <3>2. CASE n \notin TestKey
      BY <1>0, <1>2, <3>2, SetTaskType, TaskValues DEF CommitSending
    <3> QED BY <3>1, <3>2
  <2>2. task[n][t].provider \in Providers \cup {NoProvider}
    BY <1>0 DEF TaskState
  <2>3. SendingRow(n, task[n][t].provider) \in Row
    BY <1>0, <2>2 DEF SendingRow, Row, NotificationStatuses
  <2>4. row' \in [Notifications -> Row]
    BY <1>0, <1>2, <2>3, SetRowType DEF CommitSending
  <2> QED BY <1>2, <2>1, <2>4 DEF CommitSending, TypeOK, TaskType
<1>3. CASE CommitFails(n, t)
  <2>1. task' \in TaskType
    BY <1>0, <1>3, SetTaskType, TaskValues DEF CommitFails, Raise, TaskPCs
  <2>2. faults' \in 0..MaxFaults
    BY <1>3, FaultType DEF CommitFails, TypeOK
  <2> QED BY <1>3, <2>1, <2>2, LoseAckType DEF CommitFails, TypeOK, TaskType
<1> QED BY <1>1, <1>2, <1>3 DEF Commit

\* Simulated receipts, retries, giving up, crashes and redelivery.
LEMMA TypeRespond ==
  ASSUME TypeOK, NEW n \in Notifications, NEW t \in Tasks, Respond(n, t)
  PROVE  TypeOK'
<1>0. /\ task \in TaskType /\ task[n][t] \in TaskState
      /\ receipt \in ReceiptType
  BY DEF TypeOK, TaskType, ReceiptType
<1>1. CASE SendSmsResponseFails(n, t)
  <2>1. task' \in TaskType
    BY <1>0, <1>1, SetTaskType, TaskValues DEF SendSmsResponseFails, Raise, TaskPCs
  <2>2. faults' \in 0..MaxFaults
    BY <1>1, FaultType DEF SendSmsResponseFails, TypeOK
  <2> QED BY <1>1, <2>1, <2>2 DEF SendSmsResponseFails, TypeOK, TaskType
<1>2. ASSUME NEW r \in Receipts, NEW s \in ReportedStatuses,
             SendSmsResponse(n, t, r, s)
      PROVE  TypeOK'
  <2> DEFINE p == task[n][t].provider
             new == [pc |-> "transit", provider |-> p, status |-> s,
                     code |-> NoCode]
  <2>1. task' \in TaskType
    <3>1. CASE s = "pending"
      BY <1>0, <1>2, <3>1, SetTaskType DEF SendSmsResponse
    <3>2. CASE s # "pending"
      BY <1>0, <1>2, <3>2, SetTaskType, TaskValues DEF SendSmsResponse
    <3> QED BY <3>1, <3>2
  <2>2. p \in Providers \cup {NoProvider}
    BY <1>0 DEF TaskState
  <2>3. new \in ReceiptState
    BY <2>2 DEF ReceiptState, ReceiptPCs
  <2>4. SetReceipt(n, r, new)
    BY <1>2 DEF SendSmsResponse
  <2>5. receipt' \in ReceiptType
    BY <1>0, <2>3, <2>4, SetReceiptType
  <2> QED BY <1>2, <2>1, <2>5 DEF SendSmsResponse, TypeOK, TaskType, ReceiptType
<1> QED BY <1>1, <1>2 DEF Respond

LEMMA TypeConclude ==
  ASSUME TypeOK, NEW n \in Notifications, NEW t \in Tasks, Conclude(n, t)
  PROVE  TypeOK'
<1>0. /\ task \in TaskType /\ task[n][t] \in TaskState
      /\ row \in [Notifications -> Row]
  BY DEF TypeOK, TaskType
<1>1. CASE RetryTask(n, t)
  <2>1. task[n][t].retries + 1 \in 0..MaxRetries
    BY <1>0, <1>1, BoundsAssumption DEF RetryTask, TaskState
  <2>2. task' \in TaskType
    BY <1>0, <1>1, <2>1, SetTaskType, TaskValues DEF RetryTask
  <2> QED BY <1>1, <2>2 DEF RetryTask, TypeOK, TaskType
<1>2. CASE GiveUp(n, t)
  <2>1. task' \in TaskType
    BY <1>0, <1>2, SetTaskType, TaskValues DEF GiveUp
  <2>2. SetStatus(n, "technical-failure") \/ UNCHANGED row
    BY <1>2 DEF GiveUp
  <2>3. row' \in [Notifications -> Row]
    BY <1>0, <2>2, SetStatusType DEF NotificationStatuses
  <2> QED BY <1>2, <2>1, <2>3 DEF GiveUp, TypeOK, TaskType
<1> QED BY <1>1, <1>2 DEF Conclude

LEMMA TypeCrash ==
  ASSUME TypeOK, NEW n \in Notifications, NEW t \in Tasks, CrashTask(n, t)
  PROVE  TypeOK'
<1>1. task' \in TaskType
  BY SetTaskType, TaskValues DEF CrashTask, TypeOK, TaskType
<1>2. /\ accepted' \subseteq Notifications \X (Providers \cup {NoProvider})
      /\ sends' \in [Notifications -> Nat]
      /\ lostAcks' \in [Notifications -> Nat]
  BY TookType, LoseAckType DEF CrashTask, TypeOK
<1> QED BY <1>1, <1>2, FaultType DEF CrashTask, TypeOK, TaskType

LEMMA TypeRedeliver ==
  ASSUME TypeOK, NEW n \in Notifications, NEW t \in Tasks, NEW u \in Tasks,
         Redeliver(n, t, u)
  PROVE  TypeOK'
<1>1. task \in TaskType /\ task[n][t] \in TaskState
  BY DEF TypeOK, TaskType
<1>2. task' \in TaskType
  BY <1>1, SetTaskType DEF Redeliver
<1> QED BY <1>2, FaultType DEF Redeliver, TypeOK, TaskType

\* Delivery receipts.
LEMMA TypeSendReceipt ==
  ASSUME TypeOK, NEW n \in Notifications, NEW r \in Receipts,
         NEW p \in Providers, NEW s \in ReportedStatuses,
         NEW c \in {NoCode, "permanent-failure", "temporary-failure"},
         SendReceipt(n, r, p, s, c)
  PROVE  TypeOK'
<1> DEFINE new == [pc |-> "transit", provider |-> p, status |-> s, code |-> c]
<1>1. new \in ReceiptState
  BY DEF ReceiptState, ReceiptPCs
<1>2. SetReceipt(n, r, new)
  BY DEF SendReceipt
<1>3. receipt' \in ReceiptType
  BY <1>1, <1>2, SetReceiptType DEF TypeOK, ReceiptType
<1> QED BY <1>3 DEF SendReceipt, TypeOK, ReceiptType

LEMMA TellType ==
  ASSUME TypeOK, NEW n \in Notifications, row[n].status # Absent, Tell(n)
  PROVE  callbacks' \in [Notifications -> Seq(NotificationStatuses)]
<1>1. row[n].status \in NotificationStatuses
  BY DEF TypeOK, Row
<1>2. callbacks[n] \in Seq(NotificationStatuses)
  BY DEF TypeOK
<1>3. Append(callbacks[n], row[n].status) \in Seq(NotificationStatuses)
  BY <1>1, <1>2
<1> QED BY <1>3 DEF Tell, TypeOK

LEMMA TypeReceipt ==
  ASSUME TypeOK, NEW n \in Notifications, NEW r \in Receipts,
         HandleReceipt(n, r) \/ CrashReceipt(n, r)
  PROVE  TypeOK'
<1>0. /\ receipt \in ReceiptType /\ receipt[n][r] \in ReceiptState
      /\ row \in [Notifications -> Row] /\ row[n] \in Row
  BY DEF TypeOK, ReceiptType
<1>1. CASE ProcessReceipt(n, r)
  <2>1. receipt' \in ReceiptType
    BY <1>0, <1>1, SetReceiptType, ReceiptValues DEF ProcessReceipt, ReceiptPCs
  <2> DEFINE rc == receipt[n][r]
             by == IF row[n].sent_by = NoProvider THEN rc.provider
                   ELSE row[n].sent_by
             st == DecideFailure(row[n], by, rc.status, rc.code)
  <2>2. by \in Providers \cup {NoProvider}
    BY <1>0 DEF Row, ReceiptState
  <2>3. st \in NotificationStatuses
    <3>1. rc.status \in NotificationStatuses
      BY <1>0 DEF ReceiptState, ReportedStatuses, NotificationStatuses
    <3>2. rc.code # NoCode => rc.code \in NotificationStatuses
      BY <1>0 DEF ReceiptState, NotificationStatuses
    <3>3. "temporary-failure" \in NotificationStatuses
      BY DEF NotificationStatuses
    <3> QED BY <3>1, <3>2, <3>3 DEF DecideFailure
  <2>4. [row[n] EXCEPT !.sent_by = by, !.status = st] \in Row
    BY <1>0, <2>2, <2>3 DEF Row
  <2>5. SetRow(n, [row[n] EXCEPT !.sent_by = by, !.status = st])
    BY <1>1 DEF ProcessReceipt, ReceiptRow
  <2>6. row' \in [Notifications -> Row]
    BY <1>0, <2>4, <2>5, SetRowType
  <2> QED BY <1>1, <2>1, <2>6 DEF ProcessReceipt, TypeOK, ReceiptType
<1>2. CASE IgnoreReceipt(n, r)
  <2>1. receipt' \in ReceiptType
    BY <1>0, <1>2, SetReceiptType, ReceiptValues DEF IgnoreReceipt
  <2> QED BY <1>2, <2>1 DEF IgnoreReceipt, TypeOK, ReceiptType
<1>3. CASE BillReceipt(n, r)
  <2>1. receipt' \in ReceiptType
    BY <1>0, <1>3, SetReceiptType, ReceiptValues DEF BillReceipt, ReceiptPCs
  <2>2. row' \in [Notifications -> Row]
    BY <1>0, <1>3, SetRowType, RowValues DEF BillReceipt
  <2> QED BY <1>3, <2>1, <2>2 DEF BillReceipt, TypeOK, ReceiptType
<1>4. CASE TellReceipt(n, r)
  <2>1. receipt' \in ReceiptType
    BY <1>0, <1>4, SetReceiptType, ReceiptValues DEF TellReceipt
  <2>2. callbacks' \in [Notifications -> Seq(NotificationStatuses)]
    BY <1>4, TellType DEF TellReceipt, TypeOK
  <2> QED BY <1>4, <2>1, <2>2 DEF TellReceipt, TypeOK, ReceiptType
<1>5. CASE CrashReceipt(n, r)
  <2>1. receipt' \in ReceiptType
    BY <1>0, <1>5, SetReceiptType, ReceiptValues DEF CrashReceipt
  <2> QED BY <1>5, <2>1, FaultType DEF CrashReceipt, TypeOK, ReceiptType
<1> QED BY <1>1, <1>2, <1>3, <1>4, <1>5 DEF HandleReceipt

\* Scheduled tasks and the archiving of the service.
LEMMA TypeScheduled ==
  ASSUME TypeOK, Scheduled
  PROVE  TypeOK'
<1>1. CASE ReplaySelect
  BY <1>1 DEF ReplaySelect, TypeOK
<1>2. CASE TimeoutSelect
  BY <1>2 DEF TimeoutSelect, TypeOK
<1>3. CASE TimeoutUpdate
  <2>1. ASSUME NEW n \in Notifications PROVE row'[n] \in Row
    <3>1. row[n] \in Row /\ "temporary-failure" \in NotificationStatuses
      BY DEF TypeOK, NotificationStatuses
    <3>2. [row[n] EXCEPT !.status = "temporary-failure"] \in Row
      BY <3>1, RowValues
    <3> QED BY <1>3, <3>1, <3>2 DEF TimeoutUpdate
  <2>2. row' \in [Notifications -> Row]
    BY <1>3, <2>1 DEF TimeoutUpdate
  <2> QED BY <1>3, <2>2 DEF TimeoutUpdate, TypeOK
<1>4. ASSUME NEW n \in Notifications, TimeoutTell(n) PROVE TypeOK'
  <2>1. callbacks' \in [Notifications -> Seq(NotificationStatuses)]
    BY <1>4, TellType DEF TimeoutTell, TypeOK
  <2>2. sweep' \in [pc : {"idle", "selected", "telling"},
                    left : SUBSET Notifications]
    <3>1. sweep.left \ {n} \in SUBSET Notifications
      BY DEF TypeOK
    <3>2. [sweep EXCEPT !.left = @ \ {n}]
            \in [pc : {"idle", "selected", "telling"},
                 left : SUBSET Notifications]
      BY <3>1 DEF TypeOK
    <3>3. NoSweep \in [pc : {"idle", "selected", "telling"},
                       left : SUBSET Notifications]
      BY DEF NoSweep
    <3> QED BY <1>4, <3>2, <3>3 DEF TimeoutTell, SweepWithout
  <2> QED BY <1>4, <2>1, <2>2 DEF TimeoutTell, TypeOK
<1>5. CASE TimeoutCrash
  BY <1>5, FaultType DEF TimeoutCrash, NoSweep, TypeOK
<1>6. CASE ArchiveService
  BY <1>6 DEF ArchiveService, TypeOK
<1>7. ASSUME NEW n \in Notifications, Age(n) PROVE TypeOK'
  <2>1. age[n] \in 0..2 /\ age[n] < 2
    BY <1>7 DEF Age, TypeOK
  <2>2. age[n] + 1 \in 0..2
    BY <2>1
  <2> QED BY <1>7, <2>2 DEF Age, TypeOK
<1>8. ASSUME NEW n \in Notifications, ReplayFails(n) PROVE TypeOK'
  <2>1. row' \in [Notifications -> Row]
    BY <1>8, SetRowType, RowValues DEF ReplayFails, TypeOK
  <2> QED BY <1>8, <2>1, FaultType DEF ReplayFails, TypeOK
<1>9. ASSUME NEW n \in Notifications, NEW t \in Tasks, ReplayEnqueue(n, t)
      PROVE  TypeOK'
  <2>0. 0 \in 0..MaxRetries
    BY BoundsAssumption
  <2>1. task' \in TaskType
    BY <1>9, <2>0, SetTaskType, TaskValues DEF ReplayEnqueue, TypeOK, TaskType
  <2> QED BY <1>9, <2>1 DEF ReplayEnqueue, TypeOK, TaskType
<1> QED BY <1>1, <1>2, <1>3, <1>4, <1>5, <1>6, <1>7, <1>8, <1>9
        DEF Scheduled, Timeout

-----------------------------------------------------------------------------
\* TypeOK is inductive on its own: every state the tasks, the receipts and the
\* schedule can reach is well typed, for any number of messages and tasks.
THEOREM TypeCorrect == Spec => []TypeOK
<1>1. Init => TypeOK
  <2> SUFFICES ASSUME Init PROVE TypeOK
    OBVIOUS
  <2>1. NoRow \in Row /\ FreeTask \in TaskState /\ NoReceipt \in ReceiptState
    BY RowValues, TaskValues, ReceiptValues
  <2>2. 0 \in 0..MaxFaults
    BY BoundsAssumption
  <2> QED BY <2>1, <2>2 DEF Init, TypeOK, NoSweep
<1>2. TypeOK /\ [Next]_vars => TypeOK'
  <2> SUFFICES ASSUME TypeOK, [Next]_vars PROVE TypeOK'
    OBVIOUS
  <2>1. CASE UNCHANGED vars
    BY <2>1 DEF vars, TypeOK
  <2>2. CASE Next
    BY <2>2, TypeCreate, TypeStart, TypeAnswer, TypeCommit, TypeRespond,
       TypeConclude, TypeCrash, TypeRedeliver, TypeSendReceipt, TypeReceipt,
       TypeScheduled DEF Next, Deliver
  <2> QED BY <2>1, <2>2
<1> QED BY <1>1, <1>2, PTL DEF Spec

-----------------------------------------------------------------------------
(* Handlers that do not overlap.                                           *)


\* SerialInv for one message.
MessageInv(n) ==
  /\ OneRunner(n) /\ SentFromCreated(n) /\ RunnerNotSwept(n)
  /\ Untouched(n) /\ SweptInFlight(n) /\ Budget(n)

\* What MessageInv(m) reads.
SameMessage(m) ==
  /\ row'[m].status = row[m].status /\ task'[m] = task[m] /\ api'[m] = api[m]
  /\ age'[m] = age[m] /\ sends'[m] = sends[m] /\ lostAcks'[m] = lostAcks[m]
  /\ m \in replaying' => m \in replaying
  /\ m \in sweep'.left =>
       m \in sweep.left /\ (sweep'.pc = "selected" => sweep.pc = "selected")

\* A step that leaves a message alone keeps its invariant.
LEMMA Frame ==
  ASSUME NEW m \in Notifications, MessageInv(m), SameMessage(m)
  PROVE  MessageInv(m)'
<1> USE DEF SameMessage
<1>1. OneRunner(m)'
  BY DEF MessageInv, OneRunner, Running
<1>2. SentFromCreated(m)'
  BY DEF MessageInv, SentFromCreated
<1>3. RunnerNotSwept(m)'
  BY DEF MessageInv, RunnerNotSwept, Running
<1>4. Untouched(m)'
  BY DEF MessageInv, Untouched
<1>5. SweptInFlight(m)'
  BY DEF MessageInv, SweptInFlight
<1>6. Budget(m)'
  BY DEF MessageInv, Budget
<1> QED BY <1>1, <1>2, <1>3, <1>4, <1>5, <1>6 DEF MessageInv

\* What SetTask and SetRow do to each message.
LEMMA TaskAt ==
  ASSUME TypeOK, NEW n \in Notifications, NEW t \in Tasks, NEW new,
         SetTask(n, t, new)
  PROVE  /\ task'[n][t] = new
         /\ \A u \in Tasks \ {t} : task'[n][u] = task[n][u]
         /\ \A m \in Notifications \ {n} : task'[m] = task[m]
  BY DEF TypeOK, SetTask

LEMMA RowAt ==
  ASSUME TypeOK, NEW n \in Notifications, NEW new, SetRow(n, new)
  PROVE  /\ row'[n] = new
         /\ \A m \in Notifications \ {n} : row'[m] = row[m]
  BY DEF TypeOK, SetRow

\* A task that is the only one at work on its message takes a step.
Sole(n, t) ==
  /\ \A u \in Tasks \ {t} : ~Running(n, u)
  /\ n \notin sweep.left
  /\ api[n] = "done"

LEMMA SoleRunner ==
  ASSUME NEW n \in Notifications, NEW t \in Tasks, MessageInv(n), Running(n, t)
  PROVE  Sole(n, t)
  BY DEF MessageInv, Sole, OneRunner, RunnerNotSwept, Untouched, Running

LEMMA SoleStarter ==
  ASSUME NEW n \in Notifications, NEW t \in Tasks, MessageInv(n),
         task[n][t].pc = "queued", Idle(n)
  PROVE  Sole(n, t)
<1>1. api[n] = "done"
  BY DEF MessageInv, Untouched
<1> QED BY <1>1 DEF Sole, Running, Idle

\* Such a step keeps MessageInv if it keeps Budget and does not leave the task
\* relying on a row that is no longer `created'.
LEMMA SoleStep ==
  ASSUME TypeOK, NEW n \in Notifications, NEW t \in Tasks, NEW new \in TaskState,
         MessageInv(n), Sole(n, t), SetTask(n, t, new),
         UNCHANGED <<api, sweep>>,
         \/ new.pc \in {"calling", "accepted"}
         \/ new.pc = "raised" /\ new.held
         => row'[n].status = "created",
         Budget(n)'
  PROVE  MessageInv(n)'
<1>1. /\ task'[n][t] = new
      /\ \A u \in Tasks \ {t} : task'[n][u] = task[n][u]
  BY TaskAt
<1>2. \A u \in Tasks \ {t} : task'[n][u].pc \in {"free", "queued"}
  BY <1>1 DEF Sole, Running
<1>3. OneRunner(n)'
  BY <1>2 DEF OneRunner, Running
<1>4. SentFromCreated(n)'
  BY <1>1, <1>2 DEF SentFromCreated
<1>5. RunnerNotSwept(n)' /\ Untouched(n)' /\ SweptInFlight(n)'
  BY DEF Sole, RunnerNotSwept, Untouched, SweptInFlight
<1> QED BY <1>3, <1>4, <1>5 DEF MessageInv

\* Budget survives when the counts stand still and the row does not return to
\* `created', unless an acceptance that was waiting is gone.
LEMMA BudgetKept ==
  ASSUME TypeOK, TypeOK', NEW n \in Notifications, MessageInv(n),
         sends'[n] = sends[n],
         row'[n].status = "created" => row[n].status = "created",
         \/ lostAcks'[n] = lostAcks[n] + 1
         \/ /\ lostAcks'[n] = lostAcks[n]
            /\ \/ row'[n].status # "created"
               \/ \A u \in Tasks : task[n][u].pc = "accepted"
                                     => task'[n][u].pc = "accepted"
  PROVE  Budget(n)'
<1>1. sends[n] \in Nat /\ lostAcks[n] \in Nat
  BY DEF TypeOK
<1>2. sends[n] <= lostAcks[n] + 1
  BY <1>1 DEF MessageInv, Budget
<1>3. CASE lostAcks'[n] = lostAcks[n] + 1
  BY <1>1, <1>2, <1>3 DEF Budget
<1>4. CASE lostAcks'[n] = lostAcks[n] /\ row'[n].status # "created"
  BY <1>1, <1>2, <1>4 DEF Budget
<1>5. CASE /\ lostAcks'[n] = lostAcks[n]
           /\ \A u \in Tasks : task[n][u].pc = "accepted"
                                 => task'[n][u].pc = "accepted"
  <2>1. CASE \A u \in Tasks : task'[n][u].pc # "accepted"
    <3>1. \A u \in Tasks : task[n][u].pc # "accepted"
      BY <1>5, <2>1
    <3> QED BY <1>1, <1>2, <1>5, <2>1, <3>1 DEF MessageInv, Budget
  <2>2. CASE ~\A u \in Tasks : task'[n][u].pc # "accepted"
    BY <1>1, <1>2, <1>5, <2>2 DEF Budget
  <2> QED BY <2>1, <2>2
<1> QED BY <1>3, <1>4, <1>5

\* The value a raised task has.
LEMMA Raised ==
  ASSUME TypeOK, NEW n \in Notifications, NEW t \in Tasks, NEW h \in BOOLEAN,
         Raise(n, t, h)
  PROVE  \E new \in TaskState : /\ new.pc = "raised" /\ new.held = h
                                /\ SetTask(n, t, new)
<1> DEFINE new == [task[n][t] EXCEPT !.pc = "raised", !.held = h]
<1>1. task[n][t] \in TaskState
  BY DEF TypeOK
<1>2. new \in TaskState
  BY <1>1, TaskValues DEF TaskPCs
<1>3. new.pc = "raised" /\ new.held = h
  BY <1>1 DEF TaskState
<1>4. SetTask(n, t, new)
  BY DEF Raise
<1> QED BY <1>2, <1>3, <1>4

LEMMA Freed == FreeTask \in TaskState /\ FreeTask.pc = "free"
  BY TaskValues DEF FreeTask, NewTask

\* A task's step only touches its own message.
LEMMA TaskFrame ==
  ASSUME TypeOK, SerialInv, NEW n \in Notifications, NEW t \in Tasks, NEW new,
         SetTask(n, t, new), UNCHANGED <<api, age, replaying, sweep>>,
         \A m \in Notifications \ {n} :
           row'[m] = row[m] /\ sends'[m] = sends[m] /\ lostAcks'[m] = lostAcks[m],
         MessageInv(n)'
  PROVE  SerialInv'
<1>1. \A m \in Notifications \ {n} : SameMessage(m)
  BY TaskAt DEF SameMessage
<1>2. \A m \in Notifications : MessageInv(m)
  BY DEF SerialInv, MessageInv
<1>3. \A m \in Notifications : MessageInv(m)'
  BY <1>1, <1>2, Frame
<1> QED BY <1>3 DEF SerialInv, MessageInv

-----------------------------------------------------------------------------
\* The actions of deliver_sms.
LEMMA SerialStart ==
  ASSUME TypeOK, TypeOK', ~Overlap, SerialInv,
         NEW n \in Notifications, NEW t \in Tasks, Start(n, t)
  PROVE  SerialInv'
<1>m. MessageInv(n)
  BY DEF SerialInv, MessageInv
<1>t. task[n][t] \in TaskState /\ row[n] \in Row
  BY DEF TypeOK
<1>i. task[n][t].pc = "queued" /\ Idle(n)
  BY DEF Start, StartMissing, StartInactive, StartSkip, StartFails, StartSend,
         MayStart
<1>s. Sole(n, t)
  BY <1>m, <1>i, SoleStarter
<1>a. \A u \in Tasks : task[n][u].pc # "accepted"
  BY <1>i DEF Idle
<1>1. CASE StartMissing(n, t)
  <2>1. PICK new \in TaskState : /\ new.pc = "raised" /\ new.held = FALSE
                                 /\ SetTask(n, t, new)
    BY <1>1, Raised DEF StartMissing
  <2>2. Budget(n)'
    BY <1>m, <1>1, <1>a, BudgetKept DEF StartMissing
  <2>3. MessageInv(n)'
    BY <1>m, <1>1, <1>s, <2>1, <2>2, SoleStep DEF StartMissing
  <2> QED BY <1>1, <2>1, <2>3, TaskFrame DEF StartMissing
<1>2. CASE StartInactive(n, t)
  <2>1. PICK new \in TaskState : /\ new.pc = "raised" /\ new.held = FALSE
                                 /\ SetTask(n, t, new)
    BY <1>2, Raised DEF StartInactive
  <2>2. /\ row'[n].status = "technical-failure"
        /\ \A m \in Notifications \ {n} : row'[m] = row[m]
    BY <1>t, <1>2, RowAt DEF StartInactive, SetStatus, Row
  <2>3. Budget(n)'
    BY <1>m, <1>2, <2>2, BudgetKept DEF StartInactive
  <2>4. MessageInv(n)'
    BY <1>m, <1>2, <1>s, <2>1, <2>3, SoleStep DEF StartInactive
  <2> QED BY <1>2, <2>1, <2>2, <2>4, TaskFrame DEF StartInactive
<1>3. CASE StartSkip(n, t)
  <2>1. SetTask(n, t, FreeTask)
    BY <1>3 DEF StartSkip
  <2>2. Budget(n)'
    BY <1>m, <1>3, <1>a, BudgetKept DEF StartSkip
  <2>3. MessageInv(n)'
    BY <1>m, <1>3, <1>s, <2>1, <2>2, Freed, SoleStep DEF StartSkip
  <2> QED BY <1>3, <2>1, <2>3, TaskFrame DEF StartSkip
<1>4. CASE StartFails(n, t)
  <2>1. PICK new \in TaskState : SetTask(n, t, new)
    BY <1>4, Raised DEF StartFails
  <2>2. row'[n].status = "created"
    BY <1>4 DEF StartFails
  <2>3. Budget(n)'
    BY <1>m, <1>4, <1>a, BudgetKept DEF StartFails
  <2>4. MessageInv(n)'
    BY <1>m, <1>4, <1>s, <2>1, <2>2, <2>3, SoleStep DEF StartFails
  <2> QED BY <1>4, <2>1, <2>4, TaskFrame DEF StartFails
<1>5. ASSUME NEW p \in Providers, StartSend(n, t, p) PROVE SerialInv'
  <2> DEFINE pc == IF n \in TestKey THEN "accepted" ELSE "calling"
             new == [task[n][t] EXCEPT !.pc = pc, !.provider = p]
  <2>1. pc \in TaskPCs
    BY DEF TaskPCs
  <2>2. new \in TaskState /\ SetTask(n, t, new)
    BY <1>t, <1>5, <2>1, TaskValues DEF StartSend
  <2>3. row'[n].status = "created"
    BY <1>5 DEF StartSend
  <2>4. Budget(n)'
    BY <1>m, <1>5, <1>a, BudgetKept DEF StartSend
  <2>5. MessageInv(n)'
    BY <1>m, <1>5, <1>s, <2>2, <2>3, <2>4, SoleStep DEF StartSend
  <2> QED BY <1>5, <2>2, <2>5, TaskFrame DEF StartSend
<1> QED BY <1>1, <1>2, <1>3, <1>4, <1>5 DEF Start

\* A task that is calling its provider is within budget before the answer.
LEMMA CallingBudget ==
  ASSUME TypeOK, NEW n \in Notifications, NEW t \in Tasks, MessageInv(n),
         task[n][t].pc = "calling"
  PROVE  /\ row[n].status = "created"
         /\ \A u \in Tasks : task[n][u].pc # "accepted"
         /\ sends[n] <= lostAcks[n]
<1>1. row[n].status = "created"
  BY DEF MessageInv, SentFromCreated
<1>2. \A u \in Tasks : task[n][u].pc # "accepted"
  BY DEF MessageInv, OneRunner, Running
<1>3. sends[n] \in Nat /\ lostAcks[n] \in Nat
  BY DEF TypeOK
<1> QED BY <1>1, <1>2, <1>3 DEF MessageInv, Budget

\* How the two counters move.
LEMMA CountersAt ==
  ASSUME TypeOK, NEW n \in Notifications
  PROVE  /\ \A p : Took(n, p) =>
              /\ sends'[n] = sends[n] + 1
              /\ \A m \in Notifications \ {n} : sends'[m] = sends[m]
         /\ LoseAck(n) =>
              /\ lostAcks'[n] = lostAcks[n] + 1
              /\ \A m \in Notifications \ {n} : lostAcks'[m] = lostAcks[m]
  BY DEF TypeOK, Took, LoseAck

LEMMA SerialAnswer ==
  ASSUME TypeOK, TypeOK', ~Overlap, SerialInv,
         NEW n \in Notifications, NEW t \in Tasks, Answer(n, t)
  PROVE  SerialInv'
<1>m. MessageInv(n)
  BY DEF SerialInv, MessageInv
<1>t. task[n][t] \in TaskState /\ sends[n] \in Nat /\ lostAcks[n] \in Nat
  BY DEF TypeOK
<1>i. task[n][t].pc = "calling"
  BY DEF Answer, ProviderAccepts, ProviderRejects, ProviderTimesOut
<1>s. Sole(n, t)
  BY <1>m, <1>i, SoleRunner DEF Running
<1>b. /\ row[n].status = "created" /\ sends[n] <= lostAcks[n]
      /\ \A u \in Tasks : task[n][u].pc # "accepted"
  BY <1>m, <1>i, CallingBudget
<1>1. CASE ProviderAccepts(n, t)
  <2> DEFINE new == [task[n][t] EXCEPT !.pc = "accepted"]
  <2>1. new \in TaskState /\ SetTask(n, t, new)
    BY <1>t, <1>1, TaskValues DEF ProviderAccepts, TaskPCs
  <2>2. /\ sends'[n] = sends[n] + 1
        /\ \A m \in Notifications \ {n} : sends'[m] = sends[m]
    BY <1>1, CountersAt DEF ProviderAccepts
  <2>3. task'[n][t].pc = "accepted"
    BY <1>t, <2>1, TaskAt DEF TaskState
  <2>4. lostAcks'[n] = lostAcks[n] /\ row'[n].status = "created"
    BY <1>1, <1>b DEF ProviderAccepts
  <2>5. Budget(n)'
    BY <1>t, <1>b, <2>2, <2>3, <2>4 DEF Budget
  <2>6. MessageInv(n)'
    BY <1>m, <1>1, <1>s, <2>1, <2>4, <2>5, SoleStep DEF ProviderAccepts
  <2> QED BY <1>1, <2>1, <2>2, <2>6, TaskFrame DEF ProviderAccepts
<1>2. CASE ProviderRejects(n, t)
  <2> DEFINE new == [task[n][t] EXCEPT !.pc = "rejected"]
  <2>1. new \in TaskState /\ SetTask(n, t, new)
    BY <1>t, <1>2, TaskValues DEF ProviderRejects, TaskPCs
  <2>2. row'[n].status = "created"
    BY <1>2, <1>b DEF ProviderRejects
  <2>3. Budget(n)'
    BY <1>m, <1>2, <1>b, BudgetKept DEF ProviderRejects
  <2>4. MessageInv(n)'
    BY <1>m, <1>2, <1>s, <2>1, <2>2, <2>3, SoleStep DEF ProviderRejects
  <2> QED BY <1>2, <2>1, <2>4, TaskFrame DEF ProviderRejects
<1>3. CASE ProviderTimesOut(n, t)
  <2> DEFINE new == [task[n][t] EXCEPT !.pc = "rejected"]
  <2>1. new \in TaskState /\ SetTask(n, t, new)
    BY <1>t, <1>3, TaskValues DEF ProviderTimesOut, TaskPCs
  <2>2. row'[n].status = "created"
    BY <1>3, <1>b DEF ProviderTimesOut
  <2>3. /\ sends'[n] = sends[n] + 1 /\ lostAcks'[n] = lostAcks[n] + 1
        /\ \A m \in Notifications \ {n} :
             sends'[m] = sends[m] /\ lostAcks'[m] = lostAcks[m]
    BY <1>3, CountersAt DEF ProviderTimesOut
  <2>4. Budget(n)'
    BY <1>t, <1>b, <2>3 DEF Budget
  <2>5. MessageInv(n)'
    BY <1>m, <1>3, <1>s, <2>1, <2>2, <2>4, SoleStep DEF ProviderTimesOut
  <2> QED BY <1>3, <2>1, <2>3, <2>5, TaskFrame DEF ProviderTimesOut
<1> QED BY <1>1, <1>2, <1>3 DEF Answer

LEMMA SerialCommit ==
  ASSUME TypeOK, TypeOK', ~Overlap, SerialInv,
         NEW n \in Notifications, NEW t \in Tasks, Commit(n, t)
  PROVE  SerialInv'
<1>m. MessageInv(n)
  BY DEF SerialInv, MessageInv
<1>t. task[n][t] \in TaskState /\ row[n] \in Row
  BY DEF TypeOK
<1>i. task[n][t].pc \in {"rejected", "accepted"}
  BY DEF Commit, SaveBillableUnits, CommitSending, CommitFails
<1>s. Sole(n, t)
  BY <1>m, <1>i, SoleRunner DEF Running
<1>1. CASE SaveBillableUnits(n, t)
  <2>1. PICK new \in TaskState : /\ new.pc = "raised" /\ new.held = FALSE
                                 /\ SetTask(n, t, new)
    BY <1>1, Raised DEF SaveBillableUnits
  <2>2. /\ row'[n].status = row[n].status
        /\ \A m \in Notifications \ {n} : row'[m] = row[m]
    BY <1>t, <1>1, RowAt DEF SaveBillableUnits, Row
  <2>3. \A u \in Tasks : task[n][u].pc = "accepted" => task'[n][u].pc = "accepted"
    BY <1>1, <2>1, TaskAt DEF SaveBillableUnits
  <2>4. Budget(n)'
    BY <1>m, <1>1, <2>2, <2>3, BudgetKept DEF SaveBillableUnits
  <2>5. MessageInv(n)'
    BY <1>m, <1>1, <1>s, <2>1, <2>4, SoleStep DEF SaveBillableUnits
  <2> QED BY <1>1, <2>1, <2>2, <2>5, TaskFrame DEF SaveBillableUnits
<1>2. CASE CommitSending(n, t)
  <2>1. /\ row'[n].status \in {"sending", "sent"}
        /\ \A m \in Notifications \ {n} : row'[m] = row[m]
    BY <1>2, RowAt DEF CommitSending, SendingRow
  <2>2. Budget(n)'
    BY <1>m, <1>2, <2>1, BudgetKept DEF CommitSending
  <2>3. CASE n \in TestKey
    <3> DEFINE new == [task[n][t] EXCEPT !.pc = "responding"]
    <3>0. new.pc = "responding"
      BY <1>t DEF TaskState
    <3>1. new \in TaskState /\ SetTask(n, t, new)
      BY <1>t, <1>2, <2>3, TaskValues DEF CommitSending, TaskPCs
    <3>2. MessageInv(n)'
      BY <1>m, <1>2, <1>s, <2>2, <3>0, <3>1, SoleStep DEF CommitSending
    <3> QED BY <1>2, <2>1, <3>1, <3>2, TaskFrame DEF CommitSending
  <2>4. CASE n \notin TestKey
    <3>1. SetTask(n, t, FreeTask)
      BY <1>2, <2>4 DEF CommitSending
    <3>2. MessageInv(n)'
      BY <1>m, <1>2, <1>s, <2>2, <3>1, Freed, SoleStep DEF CommitSending
    <3> QED BY <1>2, <2>1, <3>1, <3>2, TaskFrame DEF CommitSending
  <2> QED BY <2>3, <2>4
<1>3. CASE CommitFails(n, t)
  <2>1. PICK new \in TaskState : /\ new.pc = "raised" /\ new.held = FALSE
                                 /\ SetTask(n, t, new)
    BY <1>3, Raised DEF CommitFails
  <2>2. /\ lostAcks'[n] = lostAcks[n] + 1
        /\ \A m \in Notifications \ {n} : lostAcks'[m] = lostAcks[m]
    BY <1>3, CountersAt DEF CommitFails
  <2>3. Budget(n)'
    BY <1>m, <1>3, <2>2, BudgetKept DEF CommitFails
  <2>4. MessageInv(n)'
    BY <1>m, <1>3, <1>s, <2>1, <2>3, SoleStep DEF CommitFails
  <2> QED BY <1>3, <2>1, <2>2, <2>4, TaskFrame DEF CommitFails
<1> QED BY <1>1, <1>2, <1>3 DEF Commit

\* A task that is neither calling nor accepted frees its slot or goes back to
\* the queue, and the counters stand still.
Quiet == UNCHANGED <<api, age, sends, lostAcks, replaying, sweep>>

LEMMA SerialLeave ==
  ASSUME TypeOK, TypeOK', SerialInv, NEW n \in Notifications, NEW t \in Tasks,
         Running(n, t), task[n][t].pc # "accepted",
         NEW new \in TaskState, SetTask(n, t, new),
         new.pc # "calling", new.pc # "accepted",
         new.pc = "raised" => new.held = FALSE,
         Quiet, row' = row \/ SetStatus(n, "technical-failure")
  PROVE  SerialInv'
<1>m. MessageInv(n)
  BY DEF SerialInv, MessageInv
<1>s. Sole(n, t)
  BY <1>m, SoleRunner
<1>t. row[n] \in Row
  BY DEF TypeOK
<1>q. UNCHANGED <<api, age, sends, lostAcks, replaying, sweep>>
  BY DEF Quiet
<1>1. /\ row'[n].status = "created" => row[n].status = "created"
      /\ \A m \in Notifications \ {n} : row'[m] = row[m]
  <2>1. CASE row' = row
    BY <2>1
  <2>2. CASE SetStatus(n, "technical-failure")
    BY <1>t, <2>2, RowAt DEF SetStatus, Row
  <2> QED BY <2>1, <2>2
<1>2. \A u \in Tasks : task[n][u].pc = "accepted" => task'[n][u].pc = "accepted"
  BY TaskAt
<1>3. Budget(n)'
  BY <1>m, <1>q, <1>1, <1>2, BudgetKept
<1>4. MessageInv(n)'
  BY <1>m, <1>q, <1>s, <1>3, SoleStep
<1> QED BY <1>q, <1>1, <1>4, TaskFrame

LEMMA SerialRespond ==
  ASSUME TypeOK, TypeOK', ~Overlap, SerialInv,
         NEW n \in Notifications, NEW t \in Tasks, Respond(n, t)
  PROVE  SerialInv'
<1>t. task[n][t] \in TaskState
  BY DEF TypeOK
<1>i. task[n][t].pc = "responding" /\ Running(n, t)
  BY DEF Respond, SendSmsResponse, SendSmsResponseFails, Running
<1>1. CASE SendSmsResponseFails(n, t)
  <2>1. PICK new \in TaskState : /\ new.pc = "raised" /\ new.held = FALSE
                                 /\ SetTask(n, t, new)
    BY <1>1, Raised DEF SendSmsResponseFails
  <2>2. Quiet /\ row' = row
    BY <1>1 DEF SendSmsResponseFails, Quiet
  <2> QED BY <1>i, <2>1, <2>2, SerialLeave
<1>2. ASSUME NEW r \in Receipts, NEW s \in ReportedStatuses,
             SendSmsResponse(n, t, r, s)
      PROVE  SerialInv'
  <2>0. Quiet /\ row' = row
    BY <1>2 DEF SendSmsResponse, Quiet
  <2>1. CASE s = "pending"
    <3>1. SetTask(n, t, task[n][t])
      BY <1>2, <2>1 DEF SendSmsResponse
    <3> QED BY <1>t, <1>i, <2>0, <3>1, SerialLeave
  <2>2. CASE s # "pending"
    <3>1. SetTask(n, t, FreeTask)
      BY <1>2, <2>2 DEF SendSmsResponse
    <3> QED BY <1>i, <2>0, <3>1, Freed, SerialLeave
  <2> QED BY <2>1, <2>2
<1> QED BY <1>1, <1>2 DEF Respond

LEMMA SerialConclude ==
  ASSUME TypeOK, TypeOK', ~Overlap, SerialInv,
         NEW n \in Notifications, NEW t \in Tasks, Conclude(n, t)
  PROVE  SerialInv'
<1>t. task[n][t] \in TaskState
  BY DEF TypeOK
<1>i. task[n][t].pc = "raised" /\ Running(n, t)
  BY DEF Conclude, RetryTask, GiveUp, Running
<1>1. CASE RetryTask(n, t)
  <2> DEFINE new == NewTask(task[n][t].retries + 1)
  <2>1. task[n][t].retries + 1 \in 0..MaxRetries
    BY <1>t, <1>1, BoundsAssumption DEF RetryTask, TaskState
  <2>2. new \in TaskState
    BY <2>1, TaskValues
  <2>3. new.pc = "queued" /\ SetTask(n, t, new)
    BY <1>1 DEF RetryTask, NewTask
  <2>4. Quiet /\ row' = row
    BY <1>1 DEF RetryTask, Quiet
  <2> QED BY <1>i, <2>2, <2>3, <2>4, SerialLeave
<1>2. CASE GiveUp(n, t)
  <2>1. /\ SetTask(n, t, FreeTask)
        /\ row' = row \/ SetStatus(n, "technical-failure")
    BY <1>2 DEF GiveUp
  <2>2. Quiet
    BY <1>2 DEF GiveUp, Quiet
  <2> QED BY <1>i, <2>1, <2>2, Freed, SerialLeave
<1> QED BY <1>1, <1>2 DEF Conclude

LEMMA SerialCrash ==
  ASSUME TypeOK, TypeOK', ~Overlap, SerialInv,
         NEW n \in Notifications, NEW t \in Tasks, CrashTask(n, t)
  PROVE  SerialInv'
<1>m. MessageInv(n)
  BY DEF SerialInv, MessageInv
<1>t. sends[n] \in Nat /\ lostAcks[n] \in Nat
  BY DEF TypeOK
<1>f. SetTask(n, t, FreeTask) /\ Running(n, t)
  BY DEF CrashTask
<1>s. Sole(n, t)
  BY <1>m, <1>f, SoleRunner
<1>1. CASE task[n][t].pc = "accepted" /\ LoseAck(n) /\ UNCHANGED sends
  <2>1. /\ lostAcks'[n] = lostAcks[n] + 1
        /\ \A m \in Notifications \ {n} : lostAcks'[m] = lostAcks[m]
    BY <1>1, CountersAt
  <2>2. Budget(n)'
    BY <1>m, <1>1, <2>1, BudgetKept DEF CrashTask
  <2>3. MessageInv(n)'
    BY <1>m, <1>f, <1>s, <2>2, Freed, SoleStep DEF CrashTask
  <2> QED BY <1>1, <1>f, <2>1, <2>3, TaskFrame DEF CrashTask
<1>2. CASE task[n][t].pc = "calling" /\ LoseAck(n) /\ Took(n, task[n][t].provider)
  <2>1. /\ sends'[n] = sends[n] + 1 /\ lostAcks'[n] = lostAcks[n] + 1
        /\ \A m \in Notifications \ {n} :
             sends'[m] = sends[m] /\ lostAcks'[m] = lostAcks[m]
    BY <1>2, CountersAt
  <2>2. sends[n] <= lostAcks[n]
    BY <1>m, <1>2, CallingBudget
  <2>3. Budget(n)'
    BY <1>t, <2>1, <2>2 DEF Budget
  <2>4. MessageInv(n)'
    BY <1>m, <1>f, <1>s, <2>3, Freed, SoleStep DEF CrashTask
  <2> QED BY <1>f, <2>1, <2>4, TaskFrame DEF CrashTask
<1>3. CASE task[n][t].pc # "accepted" /\ UNCHANGED <<sends, lostAcks>>
  <2>1. Quiet /\ row' = row
    BY <1>3 DEF CrashTask, Quiet
  <2> QED BY <1>3, <1>f, <2>1, Freed, SerialLeave
<1> QED BY <1>1, <1>2, <1>3 DEF CrashTask

\* Filling a free slot of a message whose request is over with a queued task.
LEMMA SerialQueue ==
  ASSUME TypeOK, TypeOK', NEW n \in Notifications, NEW t \in Tasks,
         NEW new \in TaskState, MessageInv(n), task[n][t].pc = "free",
         new.pc = "queued", SetTask(n, t, new), api'[n] = "done",
         row' = row, sends' = sends, lostAcks' = lostAcks, sweep' = sweep
  PROVE  MessageInv(n)'
<1>1. /\ task'[n][t] = new
      /\ \A u \in Tasks \ {t} : task'[n][u] = task[n][u]
  BY TaskAt
<1>2. OneRunner(n)'
  BY <1>1 DEF MessageInv, OneRunner, Running
<1>3. SentFromCreated(n)'
  BY <1>1 DEF MessageInv, SentFromCreated
<1>4. RunnerNotSwept(n)'
  BY <1>1 DEF MessageInv, RunnerNotSwept, Running
<1>5. Untouched(n)'
  BY DEF Untouched
<1>6. SweptInFlight(n)'
  BY DEF MessageInv, SweptInFlight
<1>7. Budget(n)'
  BY <1>1, BudgetKept
<1> QED BY <1>2, <1>3, <1>4, <1>5, <1>6, <1>7 DEF MessageInv

LEMMA SerialRedeliver ==
  ASSUME TypeOK, TypeOK', ~Overlap, SerialInv, NEW n \in Notifications,
         NEW t \in Tasks, NEW u \in Tasks, Redeliver(n, t, u)
  PROVE  SerialInv'
<1>1. MessageInv(n)
  BY DEF SerialInv, MessageInv
<1>2. PICK new \in TaskState : new = task[n][t]
  BY DEF TypeOK
<1>3. new.pc = "queued" /\ SetTask(n, u, new) /\ task[n][u].pc = "free"
  BY <1>2 DEF Redeliver
<1>4. api[n] = "done"
  BY <1>1, <1>2, <1>3 DEF MessageInv, Untouched
<1>5. MessageInv(n)'
  BY <1>1, <1>3, <1>4, SerialQueue DEF Redeliver
<1> QED BY <1>3, <1>5, TaskFrame DEF Redeliver

LEMMA QueuedNew ==
  \E new \in TaskState : new = NewTask(0) /\ new.pc = "queued"
<1>1. 0 \in 0..MaxRetries
  BY BoundsAssumption
<1>2. NewTask(0) \in TaskState
  BY <1>1, TaskValues
<1>3. NewTask(0).pc = "queued"
  BY DEF NewTask
<1> QED BY <1>2, <1>3

\* The request that creates the message.
LEMMA SerialCreate ==
  ASSUME TypeOK, TypeOK', ~Overlap, SerialInv, NEW n \in Notifications, Create(n)
  PROVE  SerialInv'
<1> USE DEF MessageInv
<1>m. \A m \in Notifications : MessageInv(m)
  BY DEF SerialInv
<1>t. row[n] \in Row /\ sends[n] \in Nat /\ lostAcks[n] \in Nat
  BY DEF TypeOK
<1>a. api[n] \in {"idle", "persisted"} /\ api[n] # "done"
  BY DEF Create, Persist, Enqueue, EnqueueFails, ApiCrash
<1>b. /\ sends[n] = 0 /\ n \notin replaying /\ n \notin sweep.left /\ age[n] = 0
      /\ \A t \in Tasks : task[n][t].pc = "free"
  BY <1>m, <1>a DEF Untouched
<1>1. CASE Persist(n)
  <2>1. /\ row'[n].status = "created"
        /\ \A m \in Notifications \ {n} : row'[m] = row[m] /\ api'[m] = api[m]
        /\ api'[n] = "persisted"
    BY <1>t, <1>1, RowAt DEF Persist, SetStatus, Row, TypeOK
  <2>2. \A m \in Notifications \ {n} : SameMessage(m)
    BY <1>1, <2>1 DEF Persist, SameMessage
  <2>3. OneRunner(n)' /\ SentFromCreated(n)' /\ RunnerNotSwept(n)'
    BY <1>1, <1>b DEF Persist, OneRunner, SentFromCreated, RunnerNotSwept, Running
  <2>4. Untouched(n)' /\ SweptInFlight(n)'
    BY <1>1, <1>b, <2>1 DEF Persist, Untouched, SweptInFlight
  <2>5. Budget(n)'
    BY <1>1, <1>t, <1>b DEF Persist, Budget
  <2>6. \A m \in Notifications : MessageInv(m)'
    BY <1>m, <2>2, <2>3, <2>4, <2>5, Frame
  <2> QED BY <2>6 DEF SerialInv
<1>2. ASSUME NEW t \in Tasks, Enqueue(n, t) PROVE SerialInv'
  <2>1. PICK new \in TaskState : new = NewTask(0) /\ new.pc = "queued"
    BY QueuedNew
  <2>2. SetTask(n, t, new) /\ task[n][t].pc = "free"
    BY <1>2, <2>1 DEF Enqueue
  <2>3. /\ api'[n] = "done"
        /\ \A m \in Notifications \ {n} : api'[m] = api[m]
    BY <1>2 DEF Enqueue, TypeOK
  <2>4. MessageInv(n)'
    BY <1>m, <1>2, <2>1, <2>2, <2>3, SerialQueue DEF Enqueue
  <2>5. \A m \in Notifications \ {n} : SameMessage(m)
    BY <1>2, <2>2, <2>3, TaskAt DEF Enqueue, SameMessage
  <2>6. \A m \in Notifications : MessageInv(m)'
    BY <1>m, <2>4, <2>5, Frame
  <2> QED BY <2>6 DEF SerialInv
<1>3. CASE EnqueueFails(n) \/ ApiCrash(n)
  <2>1. /\ api'[n] = "done"
        /\ \A m \in Notifications \ {n} : api'[m] = api[m]
    BY <1>3 DEF EnqueueFails, ApiCrash, TypeOK
  <2>2. \A m \in Notifications \ {n} : row'[m] = row[m]
    BY <1>3, RowAt DEF EnqueueFails, ApiCrash
  <2>3. \A m \in Notifications \ {n} : SameMessage(m)
    BY <1>3, <2>1, <2>2 DEF EnqueueFails, ApiCrash, SameMessage
  <2>4. OneRunner(n)' /\ SentFromCreated(n)' /\ RunnerNotSwept(n)'
    BY <1>3, <1>b
       DEF EnqueueFails, ApiCrash, OneRunner, SentFromCreated, RunnerNotSwept,
           Running
  <2>5. Untouched(n)' /\ SweptInFlight(n)'
    BY <1>3, <1>b, <2>1
       DEF EnqueueFails, ApiCrash, Untouched, SweptInFlight
  <2>6. Budget(n)'
    BY <1>3, <1>t, <1>b DEF EnqueueFails, ApiCrash, Budget
  <2>7. \A m \in Notifications : MessageInv(m)'
    BY <1>m, <2>3, <2>4, <2>5, <2>6, Frame
  <2> QED BY <2>7 DEF SerialInv
<1> QED BY <1>1, <1>2, <1>3 DEF Create

-----------------------------------------------------------------------------
\* Receipts and scheduled tasks.  An idle row may be given a status other than
\* `created', or be deleted.
LEMMA SerialRow ==
  ASSUME TypeOK, TypeOK', SerialInv, NEW n \in Notifications, Idle(n),
         api[n] # "idle", row'[n].status # "created",
         \A m \in Notifications \ {n} : row'[m] = row[m],
         UNCHANGED <<api, age, task, sends, lostAcks, sweep>>,
         replaying' \subseteq replaying
  PROVE  SerialInv'
<1> USE DEF MessageInv
<1>m. \A m \in Notifications : MessageInv(m)
  BY DEF SerialInv
<1>1. \A m \in Notifications \ {n} : SameMessage(m)
  BY DEF SameMessage
<1>2. OneRunner(n)' /\ SentFromCreated(n)' /\ RunnerNotSwept(n)'
  BY DEF Idle, OneRunner, SentFromCreated, RunnerNotSwept, Running
<1>3. Untouched(n)'
  BY <1>m DEF Untouched
<1>4. SweptInFlight(n)'
  BY DEF Idle, SweptInFlight
<1>5. Budget(n)'
  BY <1>m, BudgetKept
<1>6. \A m \in Notifications : MessageInv(m)'
  BY <1>m, <1>1, <1>2, <1>3, <1>4, <1>5, Frame
<1> QED BY <1>6 DEF SerialInv

\* Steps that change no row's status, no task and no counter.
LEMMA SerialFrame ==
  ASSUME SerialInv, \A m \in Notifications : SameMessage(m)
  PROVE  SerialInv'
<1>1. \A m \in Notifications : MessageInv(m)
  BY DEF SerialInv, MessageInv
<1>2. \A m \in Notifications : MessageInv(m)'
  BY <1>1, Frame
<1> QED BY <1>2 DEF SerialInv, MessageInv

LEMMA SerialReceipt ==
  ASSUME TypeOK, TypeOK', ~Overlap, SerialInv,
         NEW n \in Notifications, NEW r \in Receipts,
         HandleReceipt(n, r) \/ CrashReceipt(n, r)
  PROVE  SerialInv'
<1>t. row[n] \in Row /\ receipt[n][r] \in ReceiptState
  BY DEF TypeOK
<1>1. CASE ProcessReceipt(n, r)
  <2>1. Idle(n) /\ row[n].status # Absent
    BY <1>1 DEF ProcessReceipt, MayStart, MayUpdateStatus
  <2>2. api[n] # "idle"
    BY <2>1 DEF SerialInv, Untouched
  <2>3. /\ row'[n] = ReceiptRow(n, receipt[n][r])
        /\ \A m \in Notifications \ {n} : row'[m] = row[m]
    BY <1>1, RowAt DEF ProcessReceipt
  <2> DEFINE rc == receipt[n][r]
             by == IF row[n].sent_by = NoProvider THEN rc.provider
                   ELSE row[n].sent_by
             st == DecideFailure(row[n], by, rc.status, rc.code)
  <2>4. st # "created"
    <3>1. rc.status # "created"
      BY <1>t DEF ReceiptState, ReportedStatuses
    <3>2. rc.code # "created"
      BY <1>t DEF ReceiptState, NoCode
    <3> QED BY <3>1, <3>2 DEF DecideFailure
  <2>5. row'[n].status = st
    BY <1>t, <2>3 DEF ReceiptRow, Row
  <2> QED BY <1>1, <2>1, <2>2, <2>3, <2>4, <2>5, SerialRow DEF ProcessReceipt
<1>2. CASE IgnoreReceipt(n, r) \/ TellReceipt(n, r) \/ CrashReceipt(n, r)
  <2>1. \A m \in Notifications : SameMessage(m)
    BY <1>2 DEF IgnoreReceipt, TellReceipt, CrashReceipt, SameMessage
  <2> QED BY <2>1, SerialFrame
<1>3. CASE BillReceipt(n, r)
  <2>1. /\ row'[n].status = row[n].status
        /\ \A m \in Notifications \ {n} : row'[m] = row[m]
    BY <1>t, <1>3, RowAt DEF BillReceipt, Row
  <2>2. \A m \in Notifications : SameMessage(m)
    BY <1>3, <2>1 DEF BillReceipt, SameMessage
  <2> QED BY <2>2, SerialFrame
<1> QED BY <1>1, <1>2, <1>3 DEF HandleReceipt

LEMMA SerialScheduled ==
  ASSUME TypeOK, TypeOK', ~Overlap, SerialInv, Scheduled
  PROVE  SerialInv'
<1> USE DEF MessageInv
<1>m. \A m \in Notifications : MessageInv(m)
  BY DEF SerialInv
<1>1. CASE ReplaySelect
  <2>1. \A m \in Notifications : m \in replaying' => api[m] = "done"
    BY <1>1, <1>m DEF ReplaySelect, Untouched
  <2>2. ASSUME NEW m \in Notifications PROVE MessageInv(m)'
    <3>1. OneRunner(m)' /\ SentFromCreated(m)' /\ RunnerNotSwept(m)'
          /\ SweptInFlight(m)' /\ Budget(m)'
      BY <1>1, <1>m DEF ReplaySelect, OneRunner, SentFromCreated,
         RunnerNotSwept, SweptInFlight, Budget, Running
    <3>2. Untouched(m)'
      BY <1>1, <1>m, <2>1 DEF ReplaySelect, Untouched
    <3> QED BY <3>1, <3>2
  <2> QED BY <2>2 DEF SerialInv
<1>2. CASE TimeoutSelect
  <2> DEFINE old == {n \in Notifications : age[n] = 2 /\ MayStart(n)
                                           /\ row[n].status \in InFlightStatuses}
  <2>1. sweep'.left = old /\ sweep'.pc = "selected"
    BY <1>2 DEF TimeoutSelect
  <2>2. ASSUME NEW m \in Notifications PROVE MessageInv(m)'
    <3>1. CASE m \in old
      <4>1. Idle(m) /\ row[m].status \in InFlightStatuses /\ api[m] = "done"
        BY <1>m, <3>1 DEF MayStart, Untouched
      <4>2. OneRunner(m)' /\ SentFromCreated(m)' /\ Budget(m)'
        BY <1>2, <1>m DEF TimeoutSelect, OneRunner, SentFromCreated, Budget,
           Running
      <4>3. RunnerNotSwept(m)' /\ Untouched(m)' /\ SweptInFlight(m)'
        BY <1>2, <4>1 DEF TimeoutSelect, Idle, RunnerNotSwept, Untouched,
           SweptInFlight, Running
      <4> QED BY <4>2, <4>3
    <3>2. CASE m \notin old
      BY <1>2, <1>m, <2>1, <3>2, Frame DEF TimeoutSelect, SameMessage
    <3> QED BY <3>1, <3>2
  <2> QED BY <2>2 DEF SerialInv
<1>3. CASE TimeoutUpdate
  <2>1. sweep'.pc = "telling" /\ sweep'.left = sweep.left
    BY <1>3 DEF TimeoutUpdate, TypeOK
  <2>2. ASSUME NEW m \in Notifications PROVE MessageInv(m)'
    <3>t. row[m] \in Row
      BY DEF TypeOK
    <3>1. CASE m \in sweep.left /\ row[m].status # Absent
      <4>1. row'[m].status = "temporary-failure"
        BY <1>3, <3>1, <3>t DEF TimeoutUpdate, Row
      <4>2. /\ \A t \in Tasks : task[m][t].pc \in {"free", "queued"}
            /\ api[m] = "done"
        BY <1>m, <3>1 DEF RunnerNotSwept, Running, Untouched
      <4>3. OneRunner(m)' /\ SentFromCreated(m)' /\ RunnerNotSwept(m)'
        BY <1>3, <4>2 DEF TimeoutUpdate, OneRunner, SentFromCreated,
           RunnerNotSwept, Running
      <4>4. Untouched(m)' /\ SweptInFlight(m)'
        BY <1>3, <2>1, <4>2 DEF TimeoutUpdate, Untouched, SweptInFlight
      <4>5. Budget(m)'
        BY <1>3, <1>m, <4>1, BudgetKept DEF TimeoutUpdate
      <4> QED BY <4>3, <4>4, <4>5
    <3>2. CASE ~(m \in sweep.left /\ row[m].status # Absent)
      <4>1. row'[m] = row[m]
        BY <1>3, <3>2 DEF TimeoutUpdate
      <4> QED BY <1>3, <1>m, <2>1, <4>1, Frame DEF TimeoutUpdate, SameMessage
    <3> QED BY <3>1, <3>2
  <2> QED BY <2>2 DEF SerialInv
<1>4. ASSUME NEW n \in Notifications, TimeoutTell(n) PROVE SerialInv'
  <2>1. /\ sweep'.left \subseteq sweep.left
        /\ sweep'.pc # "selected"
    BY <1>4 DEF TimeoutTell, SweepWithout, NoSweep, TypeOK
  <2>2. \A m \in Notifications : SameMessage(m)
    BY <1>4, <2>1 DEF TimeoutTell, SameMessage
  <2> QED BY <2>2, SerialFrame
<1>5. CASE TimeoutCrash \/ ArchiveService
  <2>1. \A m \in Notifications : SameMessage(m)
    BY <1>5 DEF TimeoutCrash, ArchiveService, NoSweep, SameMessage
  <2> QED BY <2>1, SerialFrame
<1>6. ASSUME NEW n \in Notifications, Age(n) PROVE SerialInv'
  <2>1. \A m \in Notifications \ {n} : age'[m] = age[m]
    BY <1>6 DEF Age, TypeOK
  <2>2. \A m \in Notifications \ {n} : SameMessage(m)
    BY <1>6, <2>1 DEF Age, SameMessage
  <2>3. OneRunner(n)' /\ SentFromCreated(n)' /\ RunnerNotSwept(n)'
        /\ SweptInFlight(n)' /\ Budget(n)'
    BY <1>6, <1>m DEF Age, OneRunner, SentFromCreated, RunnerNotSwept,
       SweptInFlight, Budget, Running
  <2>4. Untouched(n)'
    BY <1>6 DEF Age, Untouched
  <2>5. \A m \in Notifications : MessageInv(m)'
    BY <1>m, <2>2, <2>3, <2>4, Frame
  <2> QED BY <2>5 DEF SerialInv
<1>7. ASSUME NEW n \in Notifications, ReplayFails(n) PROVE SerialInv'
  <2>1. Idle(n) /\ api[n] # "idle"
    BY <1>7, <1>m DEF ReplayFails, MayStart, Untouched
  <2>2. /\ row'[n] = NoRow
        /\ \A m \in Notifications \ {n} : row'[m] = row[m]
    BY <1>7, RowAt DEF ReplayFails
  <2>3. row'[n].status # "created"
    BY <2>2 DEF NoRow, Absent
  <2> QED BY <1>7, <2>1, <2>2, <2>3, SerialRow DEF ReplayFails
<1>8. ASSUME NEW n \in Notifications, NEW t \in Tasks, ReplayEnqueue(n, t)
      PROVE  SerialInv'
  <2>1. PICK new \in TaskState : new = NewTask(0) /\ new.pc = "queued"
    BY QueuedNew
  <2>2. SetTask(n, t, new) /\ task[n][t].pc = "free"
    BY <1>8, <2>1 DEF ReplayEnqueue
  <2>3. api'[n] = "done"
    BY <1>8, <1>m DEF ReplayEnqueue, Untouched
  <2>4. MessageInv(n)'
    BY <1>m, <1>8, <2>1, <2>2, <2>3, SerialQueue DEF ReplayEnqueue
  <2>5. \A m \in Notifications \ {n} : SameMessage(m)
    BY <1>8, <2>2, TaskAt DEF ReplayEnqueue, SameMessage
  <2>6. \A m \in Notifications : MessageInv(m)'
    BY <1>m, <2>4, <2>5, Frame
  <2> QED BY <2>6 DEF SerialInv
<1> QED BY <1>1, <1>2, <1>3, <1>4, <1>5, <1>6, <1>7, <1>8
        DEF Scheduled, Timeout
-----------------------------------------------------------------------------
\* SerialInv holds at the start and is kept by every step.
LEMMA SerialInit ==
  ASSUME Init
  PROVE  SerialInv
<1>1. \A n \in Notifications, t \in Tasks : task[n][t].pc = "free"
  BY Freed DEF Init
<1>2. \A n \in Notifications : sends[n] = 0 /\ lostAcks[n] = 0
  BY DEF Init
<1>3. \A n \in Notifications : Budget(n)
  BY <1>2 DEF Budget
<1>4. \A n \in Notifications : row[n].status = Absent
  BY DEF Init, NoRow
<1>5. \A n \in Notifications : Untouched(n) /\ SweptInFlight(n)
  BY <1>1, <1>2, <1>4 DEF Init, Untouched, SweptInFlight, NoSweep
<1>6. \A n \in Notifications :
        OneRunner(n) /\ SentFromCreated(n) /\ RunnerNotSwept(n)
  BY <1>1 DEF OneRunner, SentFromCreated, RunnerNotSwept, Running
<1> QED BY <1>3, <1>5, <1>6 DEF SerialInv

LEMMA SerialStep ==
  ASSUME TypeOK, TypeOK', ~Overlap, SerialInv, [Next]_vars
  PROVE  SerialInv'
<1>1. CASE UNCHANGED vars
  <2>1. \A m \in Notifications : SameMessage(m)
    BY <1>1 DEF vars, SameMessage
  <2> QED BY <2>1, SerialFrame
<1>2. ASSUME NEW n \in Notifications, NEW r \in Receipts, NEW p \in Providers,
             NEW s, NEW c, SendReceipt(n, r, p, s, c)
      PROVE  SerialInv'
  <2>1. \A m \in Notifications : SameMessage(m)
    BY <1>2 DEF SendReceipt, SameMessage
  <2> QED BY <2>1, SerialFrame
<1>3. CASE Next
  BY <1>2, <1>3, SerialCreate, SerialStart, SerialAnswer, SerialCommit,
     SerialRespond, SerialConclude, SerialCrash, SerialRedeliver,
     SerialReceipt, SerialScheduled DEF Next, Deliver
<1> QED BY <1>1, <1>3

\* The inductive invariant: types always, SerialInv when handlers of a message
\* do not overlap.
LEMMA SerialAlways == Spec => [](TypeOK /\ (~Overlap => SerialInv))
<1>1. Init => (~Overlap => SerialInv)
  BY SerialInit
<1>2. /\ TypeOK /\ TypeOK' /\ (~Overlap => SerialInv)
      /\ [Next]_vars
      => (~Overlap => SerialInv)'
  BY SerialStep
<1> QED BY <1>1, <1>2, TypeCorrect, PTL DEF Spec

\* deliver_sms hands a text to a provider once, plus once for each acceptance
\* that was lost, for any number of messages, tasks, retries and faults, as
\* long as handlers of the same message do not overlap.
THEOREM NoDuplicates == Spec => []NoDuplicateText
<1>1. TypeOK /\ (~Overlap => SerialInv) => NoDuplicateText
  <2> SUFFICES ASSUME TypeOK, ~Overlap, SerialInv, NEW n \in Notifications
               PROVE  sends[n] <= 1 + lostAcks[n]
    BY DEF NoDuplicateText
  <2>1. sends[n] \in Nat /\ lostAcks[n] \in Nat
    BY DEF TypeOK
  <2> QED BY <2>1 DEF SerialInv, Budget
<1> QED BY <1>1, SerialAlways, PTL

-----------------------------------------------------------------------------
\* What FinalStatusStable allows a step to do to message n.
Keeps(n) ==
  row[n].status \in FinalStatuses =>
    \/ row'[n].status = row[n].status
    \/ row'[n].status = Absent
    \/ ~active /\ row'[n].status = "technical-failure"

\* A step that writes one row keeps the others.
LEMMA KeepsOthers ==
  ASSUME TypeOK, NEW n \in Notifications, NEW new, SetRow(n, new),
         row[n].status \in FinalStatuses =>
           \/ new.status = row[n].status
           \/ new.status = Absent
           \/ ~active /\ new.status = "technical-failure"
  PROVE  \A m \in Notifications : Keeps(m)
  BY RowAt DEF Keeps

LEMMA KeepsDeliver ==
  ASSUME TypeOK, SerialInv, NEW n \in Notifications, NEW t \in Tasks,
         Deliver(n, t)
  PROVE  \A m \in Notifications : Keeps(m)
<1>t. row[n] \in Row
  BY DEF TypeOK
<1>1. CASE row' = row
  BY <1>1 DEF Keeps
<1>2. CASE StartInactive(n, t)
  BY <1>t, <1>2, KeepsOthers DEF StartInactive, SetStatus, Row
<1>3. CASE SaveBillableUnits(n, t)
  BY <1>t, <1>3, KeepsOthers DEF SaveBillableUnits, Row
<1>4. CASE CommitSending(n, t)
  <2>1. row[n].status = "created"
    BY <1>4 DEF CommitSending, SerialInv, SentFromCreated
  <2> QED BY <1>4, <2>1, KeepsOthers DEF CommitSending, FinalStatuses
<1>5. CASE GiveUp(n, t)
  <2>1. task[n][t].held => row[n].status = "created"
    BY <1>5 DEF GiveUp, SerialInv, SentFromCreated
  <2>2. CASE row' # row
    <3>1. SetStatus(n, "technical-failure") /\ row[n].status \notin FinalStatuses
      BY <1>5, <2>1, <2>2 DEF GiveUp, MayUpdateStatus, UpdatableStatuses,
         FinalStatuses
    <3> QED BY <3>1, KeepsOthers DEF SetStatus
  <2> QED BY <1>1, <2>2
<1> QED BY <1>1, <1>2, <1>3, <1>4, <1>5
        DEF Deliver, Start, Answer, Commit, Respond, Conclude, StartMissing,
            StartSkip, StartFails, StartSend, ProviderAccepts, ProviderRejects,
            ProviderTimesOut, CommitFails, SendSmsResponse,
            SendSmsResponseFails, RetryTask

LEMMA KeepsReceipt ==
  ASSUME TypeOK, NEW n \in Notifications, NEW r \in Receipts,
         HandleReceipt(n, r) \/ CrashReceipt(n, r)
  PROVE  \A m \in Notifications : Keeps(m)
<1>t. row[n] \in Row
  BY DEF TypeOK
<1>1. CASE ProcessReceipt(n, r)
  <2>1. row[n].status \notin FinalStatuses
    BY <1>1 DEF ProcessReceipt, MayUpdateStatus, UpdatableStatuses, FinalStatuses
  <2> QED BY <1>1, <2>1, KeepsOthers DEF ProcessReceipt
<1>2. CASE BillReceipt(n, r)
  BY <1>t, <1>2, KeepsOthers DEF BillReceipt, Row
<1>3. CASE row' = row
  BY <1>3 DEF Keeps
<1> QED BY <1>1, <1>2, <1>3
        DEF HandleReceipt, IgnoreReceipt, TellReceipt, CrashReceipt

LEMMA KeepsScheduled ==
  ASSUME TypeOK, SerialInv, Scheduled
  PROVE  \A m \in Notifications : Keeps(m)
<1>1. CASE row' = row
  BY <1>1 DEF Keeps
<1>2. CASE TimeoutUpdate
  <2> SUFFICES ASSUME NEW m \in Notifications PROVE Keeps(m)
    OBVIOUS
  <2>1. m \in sweep.left => row[m].status \notin FinalStatuses
    BY <1>2 DEF TimeoutUpdate, SerialInv, SweptInFlight, InFlightStatuses,
       FinalStatuses
  <2> QED BY <1>2, <2>1 DEF TimeoutUpdate, Keeps
<1>3. ASSUME NEW n \in Notifications, ReplayFails(n)
      PROVE  \A m \in Notifications : Keeps(m)
  BY <1>3, KeepsOthers DEF ReplayFails, NoRow
<1> QED BY <1>1, <1>2, <1>3
        DEF Scheduled, Timeout, ReplaySelect, TimeoutSelect, TimeoutTell,
            TimeoutCrash, ArchiveService, Age, ReplayEnqueue

LEMMA KeepsCreate ==
  ASSUME TypeOK, SerialInv, NEW n \in Notifications, Create(n)
  PROVE  \A m \in Notifications : Keeps(m)
<1>1. CASE row' = row
  BY <1>1 DEF Keeps
<1>2. CASE Persist(n)
  <2>1. row[n].status = Absent
    BY <1>2 DEF Persist, SerialInv, Untouched
  <2> QED BY <1>2, <2>1, KeepsOthers
          DEF Persist, SetStatus, Absent, FinalStatuses
<1>3. CASE EnqueueFails(n)
  BY <1>3, KeepsOthers DEF EnqueueFails, NoRow
<1> QED BY <1>1, <1>2, <1>3 DEF Create, Enqueue, ApiCrash

\* Receipts, timeouts, replays, retries and the commits of deliver_sms never
\* replace a final status, except by technical-failure for an archived service.
THEOREM FinalStable == Spec => FinalStatusStable
<1> DEFINE Stable == ~Overlap => \A n \in Notifications :
              row[n].status \in FinalStatuses =>
                \/ row'[n].status = row[n].status
                \/ row'[n].status = Absent
                \/ ~active /\ row'[n].status = "technical-failure"
<1>1. TypeOK /\ (~Overlap => SerialInv) /\ [Next]_vars => [Stable]_vars
  <2> SUFFICES ASSUME TypeOK, SerialInv, Next
               PROVE  \A n \in Notifications : Keeps(n)
    BY DEF Keeps
  <2>1. ASSUME row' = row PROVE \A n \in Notifications : Keeps(n)
    BY <2>1 DEF Keeps
  <2> QED BY <2>1, KeepsCreate, KeepsDeliver, KeepsReceipt, KeepsScheduled
          DEF Next, CrashTask, Redeliver, SendReceipt
<1> QED BY <1>1, SerialAlways, PTL DEF Spec, FinalStatusStable

-----------------------------------------------------------------------------
(* What the service is told of a message, and when.                        *)

Handling(n, r) == receipt[n][r].pc \in {"updated", "billed"}

\* A receipt at work has its message to itself, and unless it reported `pending' the row
\* has the final status it is going to report.
HandledAlone(n) ==
  \A r \in Receipts : Handling(n, r) =>
    /\ \A t \in Tasks : ~Running(n, t)
    /\ n \notin sweep.left
    /\ \A q \in Receipts : Handling(n, q) => q = r
    /\ receipt[n][r].status # "pending" => row[n].status \in FinalStatuses
    /\ callbacks[n] = << >>

\* The timeout has not told of the messages it has still to tell of.
SweptUntold(n) ==
  n \in sweep.left =>
    /\ callbacks[n] = << >>
    /\ sweep.pc = "telling" => row[n].status = "temporary-failure"

\* A message the service was told of is not updated again, so nothing tells of it again.
HeardFinal(n) ==
  callbacks[n] # << >> =>
    /\ Len(callbacks[n]) = 1 /\ callbacks[n][1] \in FinalStatuses
    /\ row[n].status \notin UpdatableStatuses

Unreported(n) ==
  api[n] # "done" => callbacks[n] = << >> /\ \A r \in Receipts : receipt[n][r].pc = "none"

ToldInv(n) == HandledAlone(n) /\ SweptUntold(n) /\ HeardFinal(n) /\ Unreported(n)

\* A provider took the messages it may report on.
AcceptedSent == \A n \in Notifications : \A p : <<n, p>> \in accepted => sends[n] > 0

TellInv == AcceptedSent /\ \A n \in Notifications : ToldInv(n)

\* A step that leaves a message alone, or only writes to it without telling or handling.
LEMMA ToldFrame ==
  ASSUME NEW m \in Notifications, ToldInv(m),
         row'[m].status = row[m].status, receipt'[m] = receipt[m],
         callbacks'[m] = callbacks[m], api'[m] = api[m],
         \A t \in Tasks : Running(m, t)' => Running(m, t),
         m \in sweep'.left =>
           m \in sweep.left /\ (sweep'.pc = "telling" => sweep.pc = "telling")
  PROVE  ToldInv(m)'
<1>1. HandledAlone(m)'
  BY DEF ToldInv, HandledAlone, Handling
<1>2. SweptUntold(m)' /\ HeardFinal(m)' /\ Unreported(m)'
  BY DEF ToldInv, SweptUntold, HeardFinal, Unreported
<1> QED BY <1>1, <1>2 DEF ToldInv

\* The same with a message that is not handled, whose row may be written.
LEMMA ToldWrite ==
  ASSUME NEW m \in Notifications, ToldInv(m),
         \A r \in Receipts : ~Handling(m, r)',
         callbacks'[m] = callbacks[m], api'[m] = "done", m \notin sweep'.left,
         row[m].status \notin UpdatableStatuses => row'[m].status \notin UpdatableStatuses
  PROVE  ToldInv(m)'
<1>1. HandledAlone(m)' /\ SweptUntold(m)' /\ Unreported(m)'
  BY DEF HandledAlone, SweptUntold, Unreported
<1>2. HeardFinal(m)'
  BY DEF ToldInv, HeardFinal
<1> QED BY <1>1, <1>2 DEF ToldInv

LEMMA FinalNotUpdatable ==
  /\ FinalStatuses \cap UpdatableStatuses = {} /\ InFlightStatuses \subseteq UpdatableStatuses
  /\ "technical-failure" \in FinalStatuses /\ "temporary-failure" \in FinalStatuses
  /\ Absent \notin UpdatableStatuses \cup FinalStatuses /\ "created" \in UpdatableStatuses
BY DEF FinalStatuses, UpdatableStatuses, InFlightStatuses, Absent

\* A task takes a step when no receipt is being handled.
LEMMA TaskAtWork ==
  ASSUME ~Overlap, NEW n \in Notifications, NEW t \in Tasks, MessageInv(n), ToldInv(n),
         Deliver(n, t) \/ CrashTask(n, t)
  PROVE  Sole(n, t) /\ \A r \in Receipts : ~Handling(n, r)
<1>1. CASE Running(n, t)
  BY <1>1, SoleRunner DEF ToldInv, HandledAlone
<1>2. CASE ~Running(n, t)
  <2>1. task[n][t].pc = "queued" /\ MayStart(n)
    BY <1>2 DEF Running, Deliver, CrashTask, Start, StartMissing, StartInactive, StartSkip,
       StartFails, StartSend, Answer, ProviderAccepts, ProviderRejects, ProviderTimesOut, Commit,
       SaveBillableUnits, CommitSending, CommitFails, Respond, SendSmsResponse,
       SendSmsResponseFails, Conclude, RetryTask, GiveUp
  <2>2. Idle(n)
    BY <2>1 DEF MayStart
  <2> QED BY <2>1, <2>2, SoleStarter DEF Idle, Handling
<1> QED BY <1>1, <1>2

\* What a task writes.
LEMMA TaskWrites ==
  ASSUME TypeOK, NEW n \in Notifications, NEW t \in Tasks,
         Deliver(n, t) \/ CrashTask(n, t)
  PROVE  /\ \E new : SetTask(n, t, new)
         /\ UNCHANGED <<api, sweep, callbacks>>
         /\ \/ receipt' = receipt
            \/ \E r \in Receipts : \E new : new.pc = "transit" /\ SetReceipt(n, r, new)
<1>1. ASSUME NEW r \in Receipts, NEW s \in ReportedStatuses, SendSmsResponse(n, t, r, s)
      PROVE  /\ \E new : SetTask(n, t, new)
             /\ UNCHANGED <<api, sweep, callbacks>>
             /\ \E new : new.pc = "transit" /\ SetReceipt(n, r, new)
  <2> DEFINE new == [pc |-> "transit", provider |-> task[n][t].provider, status |-> s,
                     code |-> NoCode]
  <2>1. new.pc = "transit" /\ SetReceipt(n, r, new)
    BY <1>1 DEF SendSmsResponse
  <2>2. UNCHANGED <<api, sweep, callbacks>> /\ \E x : SetTask(n, t, x)
    BY <1>1 DEF SendSmsResponse
  <2> HIDE DEF new
  <2> QED BY <2>1, <2>2
<1>2. CASE \/ Start(n, t) \/ Answer(n, t) \/ Commit(n, t) \/ SendSmsResponseFails(n, t)
           \/ Conclude(n, t) \/ CrashTask(n, t)
  <2>1. UNCHANGED <<api, sweep, callbacks, receipt>>
    BY <1>2 DEF CrashTask, Start, StartMissing, StartInactive, StartSkip,
       StartFails, StartSend, Answer, ProviderAccepts, ProviderRejects, ProviderTimesOut, Commit,
       SaveBillableUnits, CommitSending, CommitFails, SendSmsResponseFails, Conclude, RetryTask,
       GiveUp
  <2>2. \E new : SetTask(n, t, new)
    BY <1>2 DEF CrashTask, Start, StartMissing, StartInactive, StartSkip, Raise,
       StartFails, StartSend, Answer, ProviderAccepts, ProviderRejects, ProviderTimesOut, Commit,
       SaveBillableUnits, CommitSending, CommitFails, SendSmsResponseFails, Conclude, RetryTask,
       GiveUp
  <2> QED BY <2>1, <2>2
<1> QED BY <1>1, <1>2 DEF Deliver, Respond

\* A task updates a row only from a status that may be updated, or for an archived
\* service to technical-failure.
LEMMA TaskRow ==
  ASSUME TypeOK, NEW n \in Notifications, NEW t \in Tasks, MessageInv(n),
         Deliver(n, t) \/ CrashTask(n, t)
  PROVE  /\ row[n].status \notin UpdatableStatuses => row'[n].status \notin UpdatableStatuses
         /\ \A m \in Notifications \ {n} : row'[m] = row[m]
<1>t. row[n] \in Row
  BY DEF TypeOK
<1>1. CASE row' = row
  BY <1>1
<1>2. CASE StartInactive(n, t)
  BY <1>t, <1>2, RowAt, FinalNotUpdatable DEF StartInactive, SetStatus, Row
<1>3. CASE SaveBillableUnits(n, t)
  BY <1>t, <1>3, RowAt DEF SaveBillableUnits, Row
<1>4. CASE CommitSending(n, t)
  <2>1. row[n].status = "created"
    BY <1>4 DEF CommitSending, MessageInv, SentFromCreated
  <2> QED BY <1>4, <2>1, RowAt, FinalNotUpdatable DEF CommitSending
<1>5. CASE GiveUp(n, t)
  <2>1. CASE SetStatus(n, "technical-failure")
    BY <1>t, <2>1, RowAt, FinalNotUpdatable DEF SetStatus, Row
  <2> QED BY <1>1, <1>5, <2>1 DEF GiveUp
<1> QED BY <1>1, <1>2, <1>3, <1>4, <1>5
        DEF Deliver, Start, Answer, Commit, Respond, Conclude, StartMissing,
            StartSkip, StartFails, StartSend, ProviderAccepts, ProviderRejects,
            ProviderTimesOut, CommitFails, SendSmsResponse, CrashTask,
            SendSmsResponseFails, RetryTask

LEMMA ReceiptAt ==
  ASSUME TypeOK, NEW n \in Notifications, NEW r \in Receipts, NEW new, SetReceipt(n, r, new)
  PROVE  /\ receipt'[n][r] = new
         /\ \A q \in Receipts \ {r} : receipt'[n][q] = receipt[n][q]
         /\ \A m \in Notifications \ {n} : receipt'[m] = receipt[m]
  BY DEF TypeOK, SetReceipt

LEMMA ToldTask ==
  ASSUME TypeOK, ~Overlap, SerialInv, TellInv, NEW n \in Notifications, NEW t \in Tasks,
         Deliver(n, t) \/ CrashTask(n, t)
  PROVE  \A m \in Notifications : ToldInv(m)'
<1>1. MessageInv(n) /\ \A m \in Notifications : ToldInv(m)
  BY DEF SerialInv, MessageInv, TellInv
<1>2. Sole(n, t) /\ \A r \in Receipts : ~Handling(n, r)
  BY <1>1, TaskAtWork
<1>3. /\ UNCHANGED <<api, sweep, callbacks>>
      /\ \A m \in Notifications \ {n} : task'[m] = task[m]
  BY TaskWrites, TaskAt
<1>4. /\ \A r \in Receipts : ~Handling(n, r)'
      /\ \A m \in Notifications \ {n} : receipt'[m] = receipt[m]
  <2>1. CASE receipt' = receipt
    BY <1>2, <2>1 DEF Handling
  <2>2. ASSUME NEW r \in Receipts, NEW new, new.pc = "transit", SetReceipt(n, r, new)
        PROVE  /\ \A q \in Receipts : ~Handling(n, q)'
               /\ \A m \in Notifications \ {n} : receipt'[m] = receipt[m]
    <3>1. /\ receipt'[n][r] = new
          /\ \A q \in Receipts \ {r} : receipt'[n][q] = receipt[n][q]
          /\ \A m \in Notifications \ {n} : receipt'[m] = receipt[m]
      BY <2>2, ReceiptAt
    <3> QED BY <1>2, <2>2, <3>1 DEF Handling
  <2> QED BY <2>1, <2>2, TaskWrites
<1>5. /\ row[n].status \notin UpdatableStatuses => row'[n].status \notin UpdatableStatuses
      /\ \A m \in Notifications \ {n} : row'[m] = row[m]
  BY <1>1, TaskRow
<1>6. ToldInv(n)'
  BY <1>1, <1>2, <1>3, <1>4, <1>5, ToldWrite DEF Sole
<1>7. ASSUME NEW m \in Notifications \ {n} PROVE ToldInv(m)'
  BY <1>1, <1>3, <1>4, <1>5, ToldFrame DEF Running
<1> QED BY <1>6, <1>7

\* A free slot that a queued task takes.
LEMMA ToldQueue ==
  ASSUME TypeOK, TellInv, NEW n \in Notifications, NEW t \in Tasks, NEW new,
         SetTask(n, t, new), new.pc = "queued",
         UNCHANGED <<row, receipt, callbacks, sweep>>,
         \A m \in Notifications : api'[m] = api[m] \/ api'[m] = "done"
  PROVE  \A m \in Notifications : ToldInv(m)'
<1> SUFFICES ASSUME NEW m \in Notifications PROVE ToldInv(m)'
  OBVIOUS
<1>1. ToldInv(m)
  BY DEF TellInv
<1>2. \A u \in Tasks : Running(m, u)' => Running(m, u)
  BY TaskAt DEF Running
<1>3. HandledAlone(m)'
  BY <1>1, <1>2 DEF ToldInv, HandledAlone, Handling
<1>4. SweptUntold(m)' /\ HeardFinal(m)' /\ Unreported(m)'
  BY <1>1 DEF ToldInv, SweptUntold, HeardFinal, Unreported
<1> QED BY <1>3, <1>4 DEF ToldInv

LEMMA ToldRedeliver ==
  ASSUME TypeOK, TellInv, NEW n \in Notifications, NEW t \in Tasks, NEW u \in Tasks,
         Redeliver(n, t, u)
  PROVE  \A m \in Notifications : ToldInv(m)'
<1>1. /\ SetTask(n, u, task[n][t]) /\ task[n][t].pc = "queued"
      /\ UNCHANGED <<row, receipt, callbacks, sweep>>
      /\ \A m \in Notifications : api'[m] = api[m]
  BY DEF Redeliver
<1> QED BY <1>1, ToldQueue

\* The request that creates a message: nothing has been told of it.
LEMMA ToldCreate ==
  ASSUME TypeOK, SerialInv, TellInv, NEW n \in Notifications, Create(n)
  PROVE  \A m \in Notifications : ToldInv(m)'
<1>1. /\ \A m \in Notifications : ToldInv(m)
      /\ api[n] # "done"
  BY DEF TellInv, Create, Persist, Enqueue, EnqueueFails, ApiCrash
<1>2. /\ n \notin sweep.left /\ callbacks[n] = << >>
      /\ \A r \in Receipts : receipt[n][r].pc = "none"
  BY <1>1 DEF SerialInv, Untouched, ToldInv, Unreported
<1>3. CASE Persist(n) \/ EnqueueFails(n) \/ ApiCrash(n)
  <2>1. /\ UNCHANGED <<task, receipt, callbacks, sweep>>
        /\ \A m \in Notifications \ {n} : row'[m] = row[m] /\ api'[m] = api[m]
    BY <1>3, RowAt DEF Persist, EnqueueFails, ApiCrash, SetStatus, TypeOK
  <2>2. ToldInv(n)'
    <3>1. HandledAlone(n)' /\ SweptUntold(n)' /\ HeardFinal(n)' /\ Unreported(n)'
      BY <1>2, <2>1 DEF HandledAlone, Handling, SweptUntold, HeardFinal, Unreported
    <3> QED BY <3>1 DEF ToldInv
  <2>3. ASSUME NEW m \in Notifications \ {n} PROVE ToldInv(m)'
    BY <1>1, <2>1, ToldFrame DEF Running
  <2> QED BY <2>2, <2>3
<1>4. ASSUME NEW t \in Tasks, Enqueue(n, t) PROVE \A m \in Notifications : ToldInv(m)'
  <2>1. /\ SetTask(n, t, NewTask(0)) /\ NewTask(0).pc = "queued"
        /\ UNCHANGED <<row, receipt, callbacks, sweep>>
        /\ \A m \in Notifications : api'[m] = api[m] \/ api'[m] = "done"
    BY <1>4 DEF Enqueue, NewTask, TypeOK
  <2> QED BY <2>1, ToldQueue
<1> QED BY <1>3, <1>4 DEF Create

\* A receipt that arrives, and what the receipts of one message write.
LEMMA ToldSendReceipt ==
  ASSUME TypeOK, SerialInv, TellInv, NEW n \in Notifications, NEW r \in Receipts,
         NEW p \in Providers, NEW s, NEW c, SendReceipt(n, r, p, s, c)
  PROVE  \A m \in Notifications : ToldInv(m)'
<1> DEFINE new == [pc |-> "transit", provider |-> p, status |-> s, code |-> c]
<1>1. /\ \A m \in Notifications : ToldInv(m)
      /\ <<n, p>> \in accepted /\ receipt[n][r].pc = "none"
      /\ SetReceipt(n, r, new) /\ UNCHANGED <<row, api, task, sweep, callbacks>>
  BY DEF TellInv, SendReceipt
<1>2. new.pc = "transit"
  OBVIOUS
<1> HIDE DEF new
<1>3. /\ receipt'[n][r] = new
      /\ \A q \in Receipts \ {r} : receipt'[n][q] = receipt[n][q]
      /\ \A m \in Notifications \ {n} : receipt'[m] = receipt[m]
  BY <1>1, ReceiptAt
<1>4. api[n] = "done"
  <2>1. sends[n] # 0
    BY <1>1 DEF TellInv, AcceptedSent
  <2> QED BY <2>1 DEF SerialInv, Untouched
<1>5. \A q \in Receipts : Handling(n, q)' => q # r /\ Handling(n, q)
  BY <1>2, <1>3 DEF Handling
<1>6. HandledAlone(n)'
  BY <1>1, <1>3, <1>5 DEF ToldInv, HandledAlone, Running
<1>7. SweptUntold(n)' /\ HeardFinal(n)' /\ Unreported(n)'
  BY <1>1, <1>4 DEF ToldInv, SweptUntold, HeardFinal, Unreported
<1>8. ASSUME NEW m \in Notifications \ {n} PROVE ToldInv(m)'
  BY <1>1, <1>3, ToldFrame DEF Running
<1> QED BY <1>6, <1>7, <1>8 DEF ToldInv

LEMMA NoReceiptIdle == NoReceipt.pc = "none"
BY DEF NoReceipt

LEMMA ToldReceipt ==
  ASSUME TypeOK, TypeOK', ~Overlap, SerialInv, TellInv,
         NEW n \in Notifications, NEW r \in Receipts,
         HandleReceipt(n, r) \/ CrashReceipt(n, r)
  PROVE  \A m \in Notifications : ToldInv(m)'
<1>1. /\ \A m \in Notifications : ToldInv(m)
      /\ row[n] \in Row /\ receipt[n][r] \in ReceiptState
  BY DEF TellInv, TypeOK
<1>2. UNCHANGED <<api, task, sweep>>
  BY DEF HandleReceipt, ProcessReceipt, IgnoreReceipt, BillReceipt, TellReceipt, CrashReceipt
<1>3. receipt[n][r].pc # "none"
  BY DEF HandleReceipt, ProcessReceipt, IgnoreReceipt, BillReceipt, TellReceipt, CrashReceipt
<1>4. api[n] = "done"
  BY <1>1, <1>3 DEF ToldInv, Unreported
<1>5. \A m \in Notifications \ {n} :
        row'[m] = row[m] /\ receipt'[m] = receipt[m] /\ callbacks'[m] = callbacks[m]
  <2>1. \A m \in Notifications \ {n} : receipt'[m] = receipt[m]
    BY ReceiptAt DEF HandleReceipt, ProcessReceipt, IgnoreReceipt, BillReceipt, TellReceipt,
       CrashReceipt
  <2>2. \A m \in Notifications \ {n} : row'[m] = row[m]
    BY RowAt DEF HandleReceipt, ProcessReceipt, IgnoreReceipt, BillReceipt, TellReceipt,
       CrashReceipt
  <2>3. \A m \in Notifications \ {n} : callbacks'[m] = callbacks[m]
    BY DEF HandleReceipt, ProcessReceipt, IgnoreReceipt, BillReceipt, TellReceipt,
       CrashReceipt, Tell, TypeOK
  <2> QED BY <2>1, <2>2, <2>3
<1>6. ASSUME NEW m \in Notifications \ {n} PROVE ToldInv(m)'
  BY <1>1, <1>2, <1>5, ToldFrame DEF Running
<1>7. CASE ProcessReceipt(n, r)
  <2> DEFINE new == [receipt[n][r] EXCEPT !.pc = "updated"]
  <2>1. /\ Idle(n) /\ row[n].status \in UpdatableStatuses
        /\ UNCHANGED callbacks /\ SetReceipt(n, r, new)
    BY <1>7 DEF ProcessReceipt, MayStart, MayUpdateStatus
  <2>2. new.pc = "updated" /\ new.status = receipt[n][r].status
    BY <1>1 DEF ReceiptState
  <2> HIDE DEF new
  <2>3. /\ receipt'[n][r] = new
        /\ \A q \in Receipts \ {r} : receipt'[n][q] = receipt[n][q]
    BY <2>1, ReceiptAt
  <2>4. \A q \in Receipts : Handling(n, q)' => q = r
    BY <2>1, <2>3 DEF Handling, Idle
  <2>5. callbacks'[n] = << >>
    BY <1>1, <2>1 DEF ToldInv, HeardFinal
  <2>6. /\ n \notin sweep'.left
        /\ \A t \in Tasks : ~Running(n, t)'
    BY <1>2, <2>1 DEF Idle, Running
  <2>7. new.status # "pending" => row'[n].status \in FinalStatuses
    <3> DEFINE rc == receipt[n][r]
               by == IF row[n].sent_by = NoProvider THEN rc.provider ELSE row[n].sent_by
               st == DecideFailure(row[n], by, rc.status, rc.code)
    <3>1. rc.status # "pending" => st \in FinalStatuses
      BY <1>1 DEF DecideFailure, FinalStatuses, ReceiptState, ReportedStatuses, NoCode
    <3>2. row'[n] = ReceiptRow(n, rc)
      BY <1>7, RowAt DEF ProcessReceipt
    <3>3. row'[n].status = st
      BY <1>1, <3>2 DEF ReceiptRow, Row
    <3> QED BY <2>2, <3>1, <3>3
  <2>8. HandledAlone(n)'
    BY <2>3, <2>4, <2>5, <2>6, <2>7 DEF HandledAlone
  <2>9. SweptUntold(n)' /\ HeardFinal(n)' /\ Unreported(n)'
    BY <1>2, <1>4, <2>5, <2>6 DEF SweptUntold, HeardFinal, Unreported
  <2> QED BY <1>6, <2>8, <2>9 DEF ToldInv
<1>8. ASSUME SetReceipt(n, r, NoReceipt), UNCHANGED <<row, callbacks>>
      PROVE  ToldInv(n)'
  <2>1. /\ receipt'[n][r] = NoReceipt
        /\ \A q \in Receipts \ {r} : receipt'[n][q] = receipt[n][q]
    BY <1>8, ReceiptAt
  <2>2. \A q \in Receipts : Handling(n, q)' => q # r /\ Handling(n, q)
    BY <2>1, NoReceiptIdle DEF Handling
  <2>3. HandledAlone(n)'
    BY <1>1, <1>2, <1>8, <2>1, <2>2 DEF ToldInv, HandledAlone, Running
  <2>4. SweptUntold(n)' /\ HeardFinal(n)' /\ Unreported(n)'
    BY <1>1, <1>2, <1>4, <1>8 DEF ToldInv, SweptUntold, HeardFinal, Unreported
  <2> QED BY <2>3, <2>4 DEF ToldInv
<1>9. CASE BillReceipt(n, r)
  <2> DEFINE new == [receipt[n][r] EXCEPT !.pc = "billed"]
  <2>1. /\ receipt[n][r].pc = "updated" /\ UNCHANGED callbacks /\ SetReceipt(n, r, new)
        /\ SetRow(n, [row[n] EXCEPT !.billed = TRUE])
    BY <1>9 DEF BillReceipt
  <2>2. new.pc = "billed" /\ new.status = receipt[n][r].status
    BY <1>1 DEF ReceiptState
  <2> HIDE DEF new
  <2>3. /\ receipt'[n][r] = new
        /\ \A q \in Receipts \ {r} : receipt'[n][q] = receipt[n][q]
    BY <2>1, ReceiptAt
  <2>4. row'[n].status = row[n].status
    BY <1>1, <2>1, RowAt DEF Row
  <2>5. Handling(n, r) /\ \A q \in Receipts : Handling(n, q)' => Handling(n, q)
    BY <2>1, <2>3 DEF Handling
  <2>6. HandledAlone(n)'
    BY <1>1, <1>2, <2>1, <2>2, <2>3, <2>4, <2>5 DEF ToldInv, HandledAlone, Running
  <2>7. SweptUntold(n)' /\ HeardFinal(n)' /\ Unreported(n)'
    BY <1>1, <1>2, <1>4, <2>1, <2>4 DEF ToldInv, SweptUntold, HeardFinal, Unreported
  <2> QED BY <1>6, <2>6, <2>7 DEF ToldInv
<1>10. CASE TellReceipt(n, r) /\ Tell(n) /\ receipt[n][r].status # "pending"
  <2>1. Handling(n, r) /\ SetReceipt(n, r, NoReceipt) /\ UNCHANGED row
    BY <1>10 DEF TellReceipt, Handling
  <2>2. /\ callbacks[n] = << >> /\ row[n].status \in FinalStatuses
        /\ n \notin sweep.left /\ \A q \in Receipts : Handling(n, q) => q = r
    BY <1>1, <1>10, <2>1 DEF ToldInv, HandledAlone
  <2>3. \A q \in Receipts : ~Handling(n, q)'
    <3>1. /\ receipt'[n][r] = NoReceipt
          /\ \A q \in Receipts \ {r} : receipt'[n][q] = receipt[n][q]
      BY <2>1, ReceiptAt
    <3> QED BY <2>2, <3>1, NoReceiptIdle DEF Handling
  <2>4. callbacks'[n] = Append(<< >>, row[n].status)
    BY <1>10, <2>2 DEF Tell, TypeOK
  <2>5. Len(callbacks'[n]) = 1 /\ callbacks'[n][1] = row[n].status
    BY <2>4
  <2>6. HeardFinal(n)'
    BY <2>1, <2>2, <2>5, FinalNotUpdatable DEF HeardFinal
  <2>7. HandledAlone(n)' /\ SweptUntold(n)' /\ Unreported(n)'
    BY <1>2, <1>4, <2>2, <2>3 DEF HandledAlone, SweptUntold, Unreported
  <2> QED BY <1>6, <2>6, <2>7 DEF ToldInv
<1>11. CASE IgnoreReceipt(n, r) \/ CrashReceipt(n, r)
  BY <1>6, <1>8, <1>11 DEF IgnoreReceipt, CrashReceipt
<1>12. CASE TellReceipt(n, r)
  <2>1. \/ Tell(n) /\ receipt[n][r].status # "pending"
        \/ UNCHANGED callbacks
    BY <1>12 DEF TellReceipt
  <2>2. CASE UNCHANGED callbacks
    BY <1>6, <1>8, <1>12, <2>2 DEF TellReceipt
  <2> QED BY <1>10, <1>12, <2>1, <2>2
<1> QED BY <1>7, <1>9, <1>11, <1>12 DEF HandleReceipt

\* Selecting, telling and dropping what the timeout has in hand.
LEMMA SweepParts ==
  ASSUME TypeOK, NEW n \in sweep.left
  PROVE  /\ n \notin SweepWithout(n).left /\ SweepWithout(n).left \subseteq sweep.left
         /\ SweepWithout(n).left # {} => SweepWithout(n).pc = sweep.pc
         /\ NoSweep.left = {}
  BY DEF TypeOK, SweepWithout, NoSweep

LEMMA ToldScheduled ==
  ASSUME TypeOK, ~Overlap, SerialInv, TellInv, Scheduled
  PROVE  \A m \in Notifications : ToldInv(m)'
<1>m. /\ \A m \in Notifications : ToldInv(m)
      /\ \A m \in Notifications : MessageInv(m)
      /\ \A m \in Notifications : row[m] \in Row
  BY DEF TellInv, SerialInv, MessageInv, TypeOK
<1>1. ASSUME UNCHANGED <<row, api, task, receipt, callbacks, sweep>>
      PROVE  \A m \in Notifications : ToldInv(m)'
  BY <1>m, <1>1, ToldFrame DEF Running
<1>2. ASSUME NEW n \in Notifications, NEW t \in Tasks, ReplayEnqueue(n, t)
      PROVE  \A m \in Notifications : ToldInv(m)'
  <2>1. /\ SetTask(n, t, NewTask(0)) /\ NewTask(0).pc = "queued"
        /\ UNCHANGED <<row, receipt, callbacks, sweep>>
        /\ \A m \in Notifications : api'[m] = api[m] \/ api'[m] = "done"
    BY <1>2 DEF ReplayEnqueue, NewTask
  <2> QED BY <2>1, ToldQueue
<1>3. ASSUME NEW n \in Notifications, ReplayFails(n)
      PROVE  \A m \in Notifications : ToldInv(m)'
  <2>1. /\ Idle(n) /\ UNCHANGED <<api, task, receipt, callbacks, sweep>>
        /\ SetRow(n, NoRow) /\ n \in replaying
    BY <1>3 DEF ReplayFails, MayStart
  <2>2. row'[n] = NoRow /\ \A m \in Notifications \ {n} : row'[m] = row[m]
    BY <2>1, RowAt
  <2>3. /\ \A r \in Receipts : ~Handling(n, r)'
        /\ n \notin sweep'.left /\ callbacks'[n] = callbacks[n]
    BY <2>1 DEF Idle, Handling
  <2>4. api'[n] = "done"
    BY <1>m, <2>1 DEF MessageInv, Untouched
  <2>5. row'[n].status \notin UpdatableStatuses
    BY <2>2, FinalNotUpdatable DEF NoRow
  <2>6. ToldInv(n)'
    BY <1>m, <2>3, <2>4, <2>5, ToldWrite
  <2>7. ASSUME NEW m \in Notifications \ {n} PROVE ToldInv(m)'
    BY <1>m, <2>1, <2>2, ToldFrame DEF Running
  <2> QED BY <2>6, <2>7
<1>4. CASE TimeoutSelect
  <2> SUFFICES ASSUME NEW m \in Notifications PROVE ToldInv(m)'
    OBVIOUS
  <2>1. /\ UNCHANGED <<row, api, task, receipt, callbacks>>
        /\ sweep'.pc = "selected"
        /\ m \in sweep'.left => Idle(m) /\ row[m].status \in InFlightStatuses
    BY <1>4 DEF TimeoutSelect, MayStart
  <2>2. HandledAlone(m)'
    BY <1>m, <2>1 DEF ToldInv, HandledAlone, Handling, Idle, Running
  <2>3. SweptUntold(m)'
    BY <1>m, <2>1, FinalNotUpdatable DEF ToldInv, HeardFinal, SweptUntold
  <2>4. HeardFinal(m)' /\ Unreported(m)'
    BY <1>m, <2>1 DEF ToldInv, HeardFinal, Unreported
  <2> QED BY <2>2, <2>3, <2>4 DEF ToldInv
<1>5. CASE TimeoutUpdate
  <2> SUFFICES ASSUME NEW m \in Notifications PROVE ToldInv(m)'
    OBVIOUS
  <2>1. /\ UNCHANGED <<api, task, receipt, callbacks>>
        /\ sweep'.left = sweep.left
        /\ m \in sweep.left => row[m].status \in InFlightStatuses
    BY <1>m, <1>5 DEF TimeoutUpdate, MessageInv, SweptInFlight, TypeOK
  <2>2. CASE m \in sweep.left
    <3>1. row'[m].status = "temporary-failure"
      BY <1>m, <1>5, <2>1, <2>2, FinalNotUpdatable DEF TimeoutUpdate, Row
    <3>2. \A r \in Receipts : ~Handling(m, r)'
      BY <1>m, <2>1, <2>2 DEF ToldInv, HandledAlone, Handling
    <3>3. callbacks'[m] = << >>
      BY <1>m, <2>1, <2>2 DEF ToldInv, SweptUntold
    <3>4. HandledAlone(m)' /\ SweptUntold(m)' /\ HeardFinal(m)'
      BY <3>1, <3>2, <3>3 DEF HandledAlone, SweptUntold, HeardFinal
    <3>5. Unreported(m)'
      BY <1>m, <2>1 DEF ToldInv, Unreported
    <3> QED BY <3>4, <3>5 DEF ToldInv
  <2>3. CASE m \notin sweep.left
    <3>1. row'[m] = row[m] /\ m \notin sweep'.left
      BY <1>5, <2>1, <2>3 DEF TimeoutUpdate
    <3> QED BY <1>m, <2>1, <3>1, ToldFrame DEF Running
  <2> QED BY <2>2, <2>3
<1>6. CASE TimeoutCrash
  <2>1. sweep'.left = {}
    BY <1>6 DEF TimeoutCrash, NoSweep
  <2>2. UNCHANGED <<row, api, task, receipt, callbacks>>
    BY <1>6 DEF TimeoutCrash
  <2> QED BY <1>m, <2>1, <2>2, ToldFrame DEF Running
<1>7. ASSUME NEW n \in Notifications, TimeoutTell(n)
      PROVE  \A m \in Notifications : ToldInv(m)'
  <2>1. /\ UNCHANGED <<row, api, task, receipt>>
        /\ n \in sweep.left /\ sweep.pc = "telling"
    BY <1>7 DEF TimeoutTell
  <2>2. CASE row[n].status = Absent
    <3>1. sweep' = NoSweep /\ UNCHANGED callbacks
      BY <1>7, <2>2 DEF TimeoutTell
    <3>2. sweep'.left = {}
      BY <3>1 DEF NoSweep
    <3> QED BY <1>m, <2>1, <3>1, <3>2, ToldFrame DEF Running
  <2>3. CASE row[n].status # Absent
    <3>1. sweep' = SweepWithout(n) /\ Tell(n)
      BY <1>7, <2>3 DEF TimeoutTell
    <3>2. /\ n \notin sweep'.left /\ sweep'.left \subseteq sweep.left
          /\ sweep'.left # {} => sweep'.pc = sweep.pc
      BY <2>1, <3>1, SweepParts
    <3>3. /\ callbacks'[n] = Append(callbacks[n], row[n].status)
          /\ \A m \in Notifications \ {n} : callbacks'[m] = callbacks[m]
      BY <3>1 DEF Tell, TypeOK
    <3>4. callbacks[n] = << >> /\ row[n].status = "temporary-failure"
      BY <1>m, <2>1 DEF ToldInv, SweptUntold
    <3>5. Len(callbacks'[n]) = 1 /\ callbacks'[n][1] = "temporary-failure"
      BY <3>3, <3>4
    <3>6. HeardFinal(n)'
      BY <2>1, <3>4, <3>5, FinalNotUpdatable DEF HeardFinal
    <3>7. \A r \in Receipts : ~Handling(n, r)'
      BY <1>m, <2>1 DEF ToldInv, HandledAlone, Handling
    <3>8. api[n] = "done"
      BY <1>m, <2>1 DEF MessageInv, Untouched
    <3>9. HandledAlone(n)' /\ SweptUntold(n)' /\ Unreported(n)'
      BY <2>1, <3>2, <3>7, <3>8 DEF HandledAlone, SweptUntold, Unreported
    <3>10. ASSUME NEW m \in Notifications \ {n} PROVE ToldInv(m)'
      BY <1>m, <2>1, <3>2, <3>3, ToldFrame DEF Running
    <3> QED BY <3>6, <3>9, <3>10 DEF ToldInv
  <2> QED BY <2>2, <2>3
<1> QED BY <1>1, <1>2, <1>3, <1>4, <1>5, <1>6, <1>7
        DEF Scheduled, Timeout, ReplaySelect, ArchiveService, Age

\* What a provider took.
LEMMA SentStep ==
  ASSUME TypeOK, AcceptedSent, [Next]_vars
  PROVE  AcceptedSent'
<1>1. ASSUME NEW n \in Notifications, NEW p, Took(n, p) PROVE AcceptedSent'
  <2>1. /\ sends'[n] = sends[n] + 1
        /\ \A m \in Notifications \ {n} : sends'[m] = sends[m]
    BY <1>1, CountersAt
  <2>2. \A m \in Notifications : sends[m] \in Nat
    BY DEF TypeOK
  <2>3. sends'[n] > 0
    BY <2>1, <2>2
  <2>4. \A m \in Notifications : \A q :
          <<m, q>> \in accepted' => m = n \/ <<m, q>> \in accepted
    BY <1>1 DEF Took
  <2> QED BY <2>1, <2>3, <2>4 DEF AcceptedSent
<1>2. CASE UNCHANGED <<accepted, sends>>
  BY <1>2 DEF AcceptedSent
<1>3. ASSUME NEW n \in Notifications, NEW t \in Tasks, Deliver(n, t) \/ CrashTask(n, t)
      PROVE  UNCHANGED <<accepted, sends>> \/ \E p : Took(n, p)
  BY <1>3 DEF Deliver, CrashTask, Start, StartMissing, StartInactive, StartSkip, StartFails,
     StartSend, Answer, ProviderAccepts, ProviderRejects, ProviderTimesOut, Commit,
     SaveBillableUnits, CommitSending, CommitFails, Respond, SendSmsResponse,
     SendSmsResponseFails, Conclude, RetryTask, GiveUp
<1>4. ASSUME NEW n \in Notifications, Create(n) PROVE UNCHANGED <<accepted, sends>>
  BY <1>4 DEF Create, Persist, Enqueue, EnqueueFails, ApiCrash
<1>5. ASSUME NEW n \in Notifications, NEW r \in Receipts,
             HandleReceipt(n, r) \/ CrashReceipt(n, r)
      PROVE  UNCHANGED <<accepted, sends>>
  BY <1>5 DEF HandleReceipt, ProcessReceipt, IgnoreReceipt, BillReceipt, TellReceipt,
     CrashReceipt
<1>6. CASE Scheduled
  BY <1>2, <1>6 DEF Scheduled, Timeout, ReplaySelect, TimeoutSelect, TimeoutUpdate,
     TimeoutTell, TimeoutCrash, ArchiveService, Age, ReplayFails, ReplayEnqueue
<1>7. CASE UNCHANGED vars
  BY <1>2, <1>7 DEF vars
<1>8. CASE Next
  BY <1>1, <1>2, <1>3, <1>4, <1>5, <1>6, <1>8 DEF Next, Redeliver, SendReceipt
<1> QED BY <1>7, <1>8

LEMMA TellStep ==
  ASSUME TypeOK, TypeOK', ~Overlap, SerialInv, TellInv, [Next]_vars
  PROVE  TellInv'
<1>1. CASE UNCHANGED vars
  <2>1. \A m \in Notifications : ToldInv(m)
    BY DEF TellInv
  <2>2. UNCHANGED <<row, api, task, receipt, callbacks, sweep>>
    BY <1>1 DEF vars
  <2>3. \A m \in Notifications : ToldInv(m)'
    BY <2>1, <2>2, ToldFrame DEF Running
  <2> QED BY <2>3, SentStep DEF TellInv
<1>2. CASE Next
  <2>1. \A m \in Notifications : ToldInv(m)'
    BY <1>2, ToldCreate, ToldTask, ToldRedeliver, ToldSendReceipt, ToldReceipt, ToldScheduled
       DEF Next
  <2> QED BY <2>1, SentStep DEF TellInv
<1> QED BY <1>1, <1>2

LEMMA TellInit ==
  ASSUME Init
  PROVE  TellInv
<1>1. AcceptedSent
  BY DEF Init, AcceptedSent
<1>2. \A n \in Notifications : /\ callbacks[n] = << >> /\ n \notin sweep.left
                               /\ \A r \in Receipts : receipt[n][r].pc = "none"
  BY NoReceiptIdle DEF Init, NoSweep
<1>3. \A n \in Notifications : ToldInv(n)
  BY <1>2 DEF ToldInv, HandledAlone, Handling, SweptUntold, HeardFinal, Unreported
<1> QED BY <1>1, <1>3 DEF TellInv

LEMMA TellAlways == Spec => [](TypeOK /\ (~Overlap => SerialInv /\ TellInv))
<1>1. Init => (~Overlap => TellInv)
  BY TellInit
<1>2. /\ TypeOK /\ TypeOK' /\ (~Overlap => SerialInv) /\ (~Overlap => TellInv)
      /\ [Next]_vars
      => (~Overlap => TellInv)'
  BY TellStep
<1>3. Spec => [](~Overlap => TellInv)
  BY <1>1, <1>2, SerialAlways, PTL DEF Spec
<1>4. TypeOK /\ (~Overlap => SerialInv) /\ (~Overlap => TellInv)
      => TypeOK /\ (~Overlap => SerialInv /\ TellInv)
  OBVIOUS
<1> QED BY <1>3, <1>4, SerialAlways, PTL

-----------------------------------------------------------------------------
(* What a provider took is billed; handlers may overlap here.              *)

\* Before its request is over a message has no task and was not sent.
Early(n) ==
  api[n] # "done" =>
    /\ age[n] = 0 /\ n \notin replaying /\ sends[n] = 0
    /\ \A t \in Tasks : task[n][t].pc = "free"

\* AcceptedIsBilled for one message.
Paid(n) ==
  n \notin TestKey /\ sends[n] > 0 /\ row[n].status # Absent /\ ~row[n].billed
    => \/ lostAcks[n] > 0
       \/ \E t \in Tasks : task[n][t].pc = "accepted"

BilledInv == \A n \in Notifications : Early(n) /\ Paid(n)

\* The request of a message is over for good.
EarlyBefore(n) ==
  api'[n] # "done" =>
    /\ api[n] # "done" /\ age'[n] = age[n] /\ sends'[n] = sends[n]
    /\ n \in replaying' => n \in replaying
    /\ \A t \in Tasks : task[n][t].pc = "free" => task'[n][t].pc = "free"

LEMMA EarlyKept ==
  ASSUME NEW n \in Notifications, Early(n), EarlyBefore(n)
  PROVE  Early(n)'
BY DEF Early, EarlyBefore

\* A row that stays keeps its units.
PaidBefore(n) ==
  /\ sends'[n] = sends[n] /\ lostAcks'[n] = lostAcks[n]
  /\ row'[n].status # Absent =>
       row[n].status # Absent /\ (row[n].billed => row'[n].billed)
  /\ \A t \in Tasks : task[n][t].pc = "accepted" => task'[n][t].pc = "accepted"

LEMMA PaidKept ==
  ASSUME NEW n \in Notifications, Paid(n), PaidBefore(n)
  PROVE  Paid(n)'
BY DEF Paid, PaidBefore

\* A task that leaves the answer of its provider behind saves the units or loses the answer.
LEMMA PaidTask ==
  ASSUME TypeOK, NEW n \in Notifications, NEW t \in Tasks, Paid(n),
         Deliver(n, t) \/ CrashTask(n, t)
  PROVE  Paid(n)'
<1>t. /\ row[n] \in Row /\ task[n][t] \in TaskState
      /\ sends[n] \in Nat /\ lostAcks[n] \in Nat
  BY DEF TypeOK
<1>1. ASSUME LoseAck(n) PROVE Paid(n)'
  <2>1. lostAcks'[n] > 0
    BY <1>t, <1>1, CountersAt
  <2> QED BY <2>1 DEF Paid
<1>2. ASSUME task[n][t].pc # "accepted", UNCHANGED <<sends, lostAcks>>, NEW new,
             SetTask(n, t, new),
             row'[n].status # Absent =>
               row[n].status # Absent /\ (row[n].billed => row'[n].billed)
      PROVE  Paid(n)'
  <2>1. \A u \in Tasks : task[n][u].pc = "accepted" => task'[n][u].pc = "accepted"
    BY <1>2, TaskAt
  <2> QED BY <1>2, <2>1, PaidKept DEF PaidBefore
<1>3. CASE StartInactive(n, t)
  <2>1. row'[n] = [row[n] EXCEPT !.status = "technical-failure"] /\ row[n].status # Absent
    BY <1>3, RowAt DEF StartInactive, SetStatus
  <2>2. row'[n].billed = row[n].billed
    BY <1>t, <2>1 DEF Row
  <2>3. task[n][t].pc # "accepted" /\ UNCHANGED <<sends, lostAcks>> /\ Raise(n, t, FALSE)
    BY <1>3 DEF StartInactive
  <2> QED BY <1>2, <2>1, <2>2, <2>3 DEF Raise
<1>4. CASE SaveBillableUnits(n, t)
  <2>1. row'[n] = [row[n] EXCEPT !.billed = row[n].status # Absent]
    BY <1>4, RowAt DEF SaveBillableUnits
  <2>2. row'[n].status = row[n].status /\ row'[n].billed = (row[n].status # Absent)
    BY <1>t, <2>1 DEF Row
  <2>3. task[n][t].pc # "accepted" /\ UNCHANGED <<sends, lostAcks>> /\ Raise(n, t, FALSE)
    BY <1>4 DEF SaveBillableUnits
  <2> QED BY <1>2, <2>2, <2>3 DEF Raise
<1>5. CASE GiveUp(n, t)
  <2>1. task[n][t].pc # "accepted" /\ UNCHANGED <<sends, lostAcks>> /\ SetTask(n, t, FreeTask)
    BY <1>5 DEF GiveUp
  <2>2. \/ row' = row
        \/ row[n].status # Absent /\ SetStatus(n, "technical-failure")
    BY <1>5 DEF GiveUp, MayUpdateStatus
  <2>3. row'[n].status # Absent =>
          row[n].status # Absent /\ (row[n].billed => row'[n].billed)
    <3>1. CASE row[n].status # Absent /\ SetStatus(n, "technical-failure")
      <4>1. row'[n] = [row[n] EXCEPT !.status = "technical-failure"]
        BY <3>1, RowAt DEF SetStatus
      <4>2. row'[n].billed = row[n].billed
        BY <1>t, <4>1 DEF Row
      <4> QED BY <3>1, <4>2
    <3> QED BY <2>2, <3>1
  <2> QED BY <1>2, <2>1, <2>3
<1>6. CASE CommitSending(n, t)
  <2>1. n \notin TestKey => row'[n].billed
    <3>1. row'[n] = SendingRow(n, task[n][t].provider)
      BY <1>6, RowAt DEF CommitSending
    <3>2. row'[n].billed = (row[n].billed \/ n \notin TestKey)
      BY <3>1 DEF SendingRow
    <3> QED BY <3>2
  <2> QED BY <2>1 DEF Paid
<1>7. CASE ProviderAccepts(n, t)
  <2> DEFINE new == [task[n][t] EXCEPT !.pc = "accepted"]
  <2>1. new.pc = "accepted" /\ SetTask(n, t, new)
    BY <1>t, <1>7 DEF ProviderAccepts, TaskState
  <2> HIDE DEF new
  <2>2. task'[n][t].pc = "accepted"
    BY <2>1, TaskAt
  <2> QED BY <2>2 DEF Paid
<1>8. CASE ProviderTimesOut(n, t) \/ CommitFails(n, t)
  BY <1>1, <1>8 DEF ProviderTimesOut, CommitFails
<1>9. CASE CrashTask(n, t)
  <2>1. CASE LoseAck(n)
    BY <1>1, <2>1
  <2>2. CASE ~LoseAck(n)
    <3>1. /\ task[n][t].pc # "accepted" /\ UNCHANGED <<sends, lostAcks, row>>
          /\ SetTask(n, t, FreeTask)
      BY <1>9, <2>2 DEF CrashTask
    <3> QED BY <1>2, <3>1
  <2> QED BY <2>1, <2>2
<1>10. ASSUME NEW p \in Providers, StartSend(n, t, p) PROVE Paid(n)'
  <2>1. task[n][t].pc # "accepted" /\ UNCHANGED <<row, sends, lostAcks>>
    BY <1>10 DEF StartSend
  <2>2. \E new : SetTask(n, t, new)
    BY <1>10 DEF StartSend
  <2> QED BY <1>2, <2>1, <2>2
<1>11. CASE \/ StartMissing(n, t) \/ StartSkip(n, t) \/ StartFails(n, t)
            \/ ProviderRejects(n, t) \/ RetryTask(n, t) \/ SendSmsResponseFails(n, t)
  <2>1. task[n][t].pc # "accepted" /\ UNCHANGED <<row, sends, lostAcks>>
    BY <1>11 DEF StartMissing, StartSkip, StartFails, ProviderRejects, RetryTask,
       SendSmsResponseFails
  <2>2. \E new : SetTask(n, t, new)
    BY <1>11 DEF StartMissing, StartSkip, StartFails, ProviderRejects, RetryTask,
       SendSmsResponseFails, Raise
  <2> QED BY <1>2, <2>1, <2>2
<1>12. ASSUME NEW r \in Receipts, NEW s \in ReportedStatuses, SendSmsResponse(n, t, r, s)
       PROVE  Paid(n)'
  <2>1. task[n][t].pc # "accepted" /\ UNCHANGED <<row, sends, lostAcks>>
    BY <1>12 DEF SendSmsResponse
  <2>2. \E new : SetTask(n, t, new)
    BY <1>12 DEF SendSmsResponse
  <2> QED BY <1>2, <2>1, <2>2
<1> QED BY <1>3, <1>4, <1>5, <1>6, <1>7, <1>8, <1>9, <1>10, <1>11, <1>12
        DEF Deliver, Start, Answer, Commit, Respond, Conclude

\* What a task leaves alone.
LEMMA TaskOthers ==
  ASSUME TypeOK, NEW n \in Notifications, NEW t \in Tasks,
         Deliver(n, t) \/ CrashTask(n, t)
  PROVE  /\ UNCHANGED <<api, age, replaying>> /\ task[n][t].pc # "free"
         /\ \A m \in Notifications \ {n} :
              /\ task'[m] = task[m] /\ row'[m] = row[m]
              /\ sends'[m] = sends[m] /\ lostAcks'[m] = lostAcks[m]
<1>1. UNCHANGED <<api, age, replaying>> /\ task[n][t].pc # "free"
  BY DEF Deliver, CrashTask, Start, StartMissing, StartInactive, StartSkip, StartFails,
     StartSend, Answer, ProviderAccepts, ProviderRejects, ProviderTimesOut, Commit,
     SaveBillableUnits, CommitSending, CommitFails, Respond, SendSmsResponse,
     SendSmsResponseFails, Conclude, RetryTask, GiveUp, Running
<1>2. /\ row' = row \/ \E new : SetRow(n, new)
      /\ sends' = sends \/ \E p : Took(n, p)
      /\ lostAcks' = lostAcks \/ LoseAck(n)
  <2>1. row' = row \/ \E new : SetRow(n, new)
    BY DEF Deliver, CrashTask, Start, StartMissing, StartInactive, StartSkip, StartFails,
     StartSend, Answer, ProviderAccepts, ProviderRejects, ProviderTimesOut, Commit,
     SaveBillableUnits, CommitSending, CommitFails, Respond, SendSmsResponse,
     SendSmsResponseFails, Conclude, RetryTask, GiveUp, SetStatus
  <2>2. /\ sends' = sends \/ \E p : Took(n, p)
        /\ lostAcks' = lostAcks \/ LoseAck(n)
    BY DEF Deliver, CrashTask, Start, StartMissing, StartInactive, StartSkip, StartFails,
     StartSend, Answer, ProviderAccepts, ProviderRejects, ProviderTimesOut, Commit,
     SaveBillableUnits, CommitSending, CommitFails, Respond, SendSmsResponse,
     SendSmsResponseFails, Conclude, RetryTask, GiveUp
  <2> QED BY <2>1, <2>2
<1>3. \A m \in Notifications \ {n} : task'[m] = task[m]
  BY TaskWrites, TaskAt
<1>4. \A m \in Notifications \ {n} : row'[m] = row[m]
  BY <1>2, RowAt
<1>5. \A m \in Notifications \ {n} : sends'[m] = sends[m] /\ lostAcks'[m] = lostAcks[m]
  BY <1>2, CountersAt
<1> QED BY <1>1, <1>3, <1>4, <1>5

LEMMA BilledCreate ==
  ASSUME TypeOK, BilledInv, NEW n \in Notifications, Create(n)
  PROVE  BilledInv'
<1>1. /\ api[n] # "done" /\ sends[n] = 0 /\ UNCHANGED <<age, sends, lostAcks, replaying>>
      /\ \A t \in Tasks : task[n][t].pc = "free"
  BY DEF BilledInv, Early, Create, Persist, Enqueue, EnqueueFails, ApiCrash
<1>2. \A m \in Notifications \ {n} : api'[m] = api[m]
  BY DEF Create, Persist, Enqueue, EnqueueFails, ApiCrash, TypeOK
<1>3. /\ row' = row \/ \E new : SetRow(n, new)
      /\ \/ task' = task
         \/ api'[n] = "done" /\ \E t \in Tasks : \E new : SetTask(n, t, new)
  <2>1. row' = row \/ \E new : SetRow(n, new)
    BY DEF Create, Persist, Enqueue, EnqueueFails, ApiCrash, SetStatus
  <2>2. ASSUME NEW t \in Tasks, Enqueue(n, t)
        PROVE  api'[n] = "done" /\ SetTask(n, t, NewTask(0))
    BY <2>2 DEF Enqueue, TypeOK
  <2>3. CASE task' = task
    BY <2>1, <2>3
  <2>4. task' = task \/ \E t \in Tasks : Enqueue(n, t)
    BY DEF Create, Persist, EnqueueFails, ApiCrash
  <2> QED BY <2>1, <2>2, <2>4
<1>4. \A m \in Notifications \ {n} : row'[m] = row[m] /\ task'[m] = task[m]
  BY <1>3, RowAt, TaskAt
<1>5. Paid(n)'
  BY <1>1 DEF Paid
<1>6. EarlyBefore(n)
  BY <1>1, <1>3 DEF EarlyBefore
<1>7. \A m \in Notifications \ {n} : EarlyBefore(m) /\ PaidBefore(m)
  BY <1>1, <1>2, <1>4 DEF EarlyBefore, PaidBefore
<1> QED BY <1>5, <1>6, <1>7, EarlyKept, PaidKept DEF BilledInv

LEMMA BilledReceipt ==
  ASSUME TypeOK, NEW n \in Notifications, NEW r \in Receipts,
         HandleReceipt(n, r) \/ CrashReceipt(n, r)
  PROVE  /\ UNCHANGED <<api, age, replaying, task, sends, lostAcks>>
         /\ \A m \in Notifications : row'[m].status # Absent =>
              row[m].status # Absent /\ (row[m].billed => row'[m].billed)
<1>t. row[n] \in Row
  BY DEF TypeOK
<1>1. UNCHANGED <<api, age, replaying, task, sends, lostAcks>>
  BY DEF HandleReceipt, ProcessReceipt, IgnoreReceipt, BillReceipt, TellReceipt, CrashReceipt
<1>2. CASE row' = row
  BY <1>1, <1>2
<1>3. CASE ProcessReceipt(n, r)
  <2>1. /\ row'[n] = ReceiptRow(n, receipt[n][r]) /\ row[n].status # Absent
        /\ \A m \in Notifications \ {n} : row'[m] = row[m]
    BY <1>3, RowAt DEF ProcessReceipt, MayUpdateStatus
  <2>2. row'[n].billed = row[n].billed
    BY <1>t, <2>1 DEF ReceiptRow, Row
  <2> QED BY <1>1, <2>1, <2>2
<1>4. CASE BillReceipt(n, r)
  <2>1. /\ row'[n] = [row[n] EXCEPT !.billed = TRUE] /\ row[n].status # Absent
        /\ \A m \in Notifications \ {n} : row'[m] = row[m]
    BY <1>4, RowAt DEF BillReceipt
  <2>2. row'[n].billed
    BY <1>t, <2>1 DEF Row
  <2> QED BY <1>1, <2>1, <2>2
<1> QED BY <1>2, <1>3, <1>4 DEF HandleReceipt, IgnoreReceipt, TellReceipt, CrashReceipt

LEMMA BilledScheduled ==
  ASSUME TypeOK, BilledInv, Scheduled
  PROVE  BilledInv'
<1>1. /\ UNCHANGED <<api, sends, lostAcks>>
      /\ \A m \in Notifications : Early(m) /\ Paid(m)
  BY DEF BilledInv, Scheduled, Timeout, ReplaySelect, TimeoutSelect, TimeoutUpdate,
     TimeoutTell, TimeoutCrash, ArchiveService, Age, ReplayFails, ReplayEnqueue
<1>2. \A m \in Notifications : EarlyBefore(m)
  <2>1. CASE ReplaySelect
    <3>1. \A m \in Notifications : m \in replaying' => age[m] # 0
      BY <2>1 DEF ReplaySelect
    <3> QED BY <1>1, <2>1, <3>1 DEF ReplaySelect, Early, EarlyBefore
  <2>2. ASSUME NEW n \in Notifications, NEW t \in Tasks, ReplayEnqueue(n, t)
        PROVE  \A m \in Notifications : EarlyBefore(m)
    <3>1. /\ api[n] = "done" /\ UNCHANGED <<age, api>> /\ replaying' \subseteq replaying
          /\ SetTask(n, t, NewTask(0))
      BY <1>1, <2>2 DEF ReplayEnqueue, Early
    <3>2. \A m \in Notifications \ {n} : task'[m] = task[m]
      BY <3>1, TaskAt
    <3> QED BY <1>1, <3>1, <3>2 DEF EarlyBefore
  <2>3. ASSUME NEW n \in Notifications, Age(n)
        PROVE  \A m \in Notifications : EarlyBefore(m)
    BY <1>1, <2>3 DEF Age, EarlyBefore, TypeOK
  <2>4. CASE UNCHANGED <<age, task>> /\ replaying' \subseteq replaying
    BY <1>1, <2>4 DEF EarlyBefore
  <2> QED BY <2>1, <2>2, <2>3, <2>4 DEF Scheduled, Timeout, TimeoutSelect, TimeoutUpdate,
          TimeoutTell, TimeoutCrash, ArchiveService, ReplayFails
<1>3. \A m \in Notifications : row'[m].status # Absent =>
        row[m].status # Absent /\ (row[m].billed => row'[m].billed)
  <2>1. CASE TimeoutUpdate
    <3> SUFFICES ASSUME NEW m \in Notifications
                 PROVE  /\ row'[m].status # Absent => row[m].status # Absent
                        /\ row'[m].billed = row[m].billed
      OBVIOUS
    <3>1. row[m] \in Row
      BY DEF TypeOK
    <3>2. \/ row'[m] = row[m]
          \/ /\ row[m].status # Absent
             /\ row'[m] = [row[m] EXCEPT !.status = "temporary-failure"]
      BY <2>1 DEF TimeoutUpdate
    <3> QED BY <3>1, <3>2 DEF Row
  <2>2. ASSUME NEW n \in Notifications, ReplayFails(n)
        PROVE  \A m \in Notifications : row'[m].status # Absent => row'[m] = row[m]
    <3>1. row'[n] = NoRow /\ \A m \in Notifications \ {n} : row'[m] = row[m]
      BY <2>2, RowAt DEF ReplayFails
    <3> QED BY <3>1 DEF NoRow
  <2>3. CASE row' = row
    BY <2>3
  <2> QED BY <2>1, <2>2, <2>3 DEF Scheduled, Timeout, ReplaySelect, TimeoutSelect,
     TimeoutTell, TimeoutCrash, ArchiveService, Age, ReplayEnqueue
<1>4. \A m \in Notifications : \A t \in Tasks :
        task[m][t].pc = "accepted" => task'[m][t].pc = "accepted"
  <2>1. ASSUME NEW n \in Notifications, NEW u \in Tasks, ReplayEnqueue(n, u)
        PROVE  \A m \in Notifications : \A t \in Tasks :
                 task[m][t].pc = "accepted" => task'[m][t].pc = "accepted"
    BY <2>1, TaskAt DEF ReplayEnqueue
  <2>2. CASE task' = task
    BY <2>2
  <2> QED BY <2>1, <2>2 DEF Scheduled, Timeout, ReplaySelect, TimeoutSelect, TimeoutUpdate,
     TimeoutTell, TimeoutCrash, ArchiveService, Age, ReplayFails
<1>5. \A m \in Notifications : PaidBefore(m)
  BY <1>1, <1>3, <1>4 DEF PaidBefore
<1> QED BY <1>1, <1>2, <1>5, EarlyKept, PaidKept DEF BilledInv

LEMMA BilledStep ==
  ASSUME TypeOK, BilledInv, [Next]_vars
  PROVE  BilledInv'
<1>1. ASSUME \A m \in Notifications : EarlyBefore(m) /\ PaidBefore(m)
      PROVE  BilledInv'
  BY <1>1, EarlyKept, PaidKept DEF BilledInv
<1>2. ASSUME NEW n \in Notifications, NEW t \in Tasks, Deliver(n, t) \/ CrashTask(n, t)
      PROVE  BilledInv'
  <2>1. Paid(n)'
    BY <1>2, PaidTask DEF BilledInv
  <2>2. api[n] = "done"
    BY <1>2, TaskOthers DEF BilledInv, Early
  <2>3. \A m \in Notifications \ {n} : EarlyBefore(m) /\ PaidBefore(m)
    BY <1>2, TaskOthers DEF EarlyBefore, PaidBefore
  <2>4. EarlyBefore(n)
    BY <1>2, <2>2, TaskOthers DEF EarlyBefore
  <2> QED BY <2>1, <2>3, <2>4, EarlyKept, PaidKept DEF BilledInv
<1>3. ASSUME NEW n \in Notifications, NEW t \in Tasks, NEW u \in Tasks, Redeliver(n, t, u)
      PROVE  BilledInv'
  <2>1. /\ SetTask(n, u, task[n][t]) /\ task[n][t].pc = "queued" /\ task[n][u].pc = "free"
        /\ UNCHANGED <<row, api, age, sends, lostAcks, replaying>>
    BY <1>3 DEF Redeliver
  <2>2. api[n] = "done"
    BY <2>1 DEF BilledInv, Early
  <2>3. /\ \A m \in Notifications \ {n} : task'[m] = task[m]
        /\ \A v \in Tasks \ {u} : task'[n][v] = task[n][v]
    BY <2>1, TaskAt
  <2>4. \A m \in Notifications : EarlyBefore(m) /\ PaidBefore(m)
    BY <2>1, <2>2, <2>3 DEF EarlyBefore, PaidBefore
  <2> QED BY <1>1, <2>4
<1>4. ASSUME NEW n \in Notifications, NEW r \in Receipts, NEW p \in Providers,
             NEW s, NEW c, SendReceipt(n, r, p, s, c)
      PROVE  BilledInv'
  BY <1>1, <1>4 DEF SendReceipt, EarlyBefore, PaidBefore
<1>5. ASSUME NEW n \in Notifications, NEW r \in Receipts,
             HandleReceipt(n, r) \/ CrashReceipt(n, r)
      PROVE  BilledInv'
  BY <1>1, <1>5, BilledReceipt DEF EarlyBefore, PaidBefore
<1>6. CASE UNCHANGED vars
  BY <1>1, <1>6 DEF vars, EarlyBefore, PaidBefore
<1>7. CASE Next
  BY <1>2, <1>3, <1>4, <1>5, <1>7, BilledCreate, BilledScheduled DEF Next
<1> QED BY <1>6, <1>7

LEMMA BilledAlways == Spec => []BilledInv
<1>1. Init => BilledInv
  <2> SUFFICES ASSUME Init, NEW n \in Notifications PROVE Early(n) /\ Paid(n)
    BY DEF BilledInv
  <2>1. sends[n] = 0 /\ \A t \in Tasks : task[n][t].pc = "free"
    BY Freed DEF Init
  <2> QED BY <2>1 DEF Init, Early, Paid
<1> QED BY <1>1, BilledStep, TypeCorrect, PTL DEF Spec

-----------------------------------------------------------------------------
(* SmsDelivery implements MessageDelivery.                                 *)

\* What the refinement needs beyond SerialInv and TellInv: a task waits for a provider
\* only of a live message, a task that failed did so from a status it may give up, and
\* the acceptances that were lost are some of those there were, all but the one that is
\* waiting to be committed.
Counted(n) ==
  /\ \A t \in Tasks :
       /\ task[n][t].pc = "calling" => n \notin TestKey
       /\ task[n][t].pc = "responding" => n \in TestKey
       /\ task[n][t].pc = "rejected" => row[n].status = "created"
       /\ task[n][t].pc = "raised" =>
            \/ n \in TestKey
            \/ row[n].status \in {"created", "technical-failure", Absent}
  /\ n \in TestKey => sends[n] = 0
  /\ n \notin TestKey =>
       /\ lostAcks[n] <= sends[n]
       /\ \A t \in Tasks : task[n][t].pc = "accepted" => lostAcks[n] < sends[n]
       /\ \A r \in Receipts : receipt[n][r].pc # "none" => sends[n] > 0

CountedInv == \A n \in Notifications : Counted(n)

\* The abstract state.
StatusMap == [n \in Notifications |-> RowStatus(n)]
CopiesMap == [n \in Notifications |-> Copies(n)]
DueSet == {n \in Notifications : Due(n)}

\* What the three say of message m before and after a step.
SameStatus(m) ==
  (api'[m] = "idle" <=> api[m] = "idle") /\ row'[m].status = row[m].status
SameCopies(m) == sends'[m] = sends[m] /\ lostAcks'[m] = lostAcks[m]
DueAfter(m) ==
  \/ \E r \in Receipts : /\ receipt'[m][r].pc \in {"updated", "billed"}
                         /\ receipt'[m][r].status # "pending"
  \/ sweep'.pc = "telling" /\ m \in sweep'.left
SameDue(m) == DueAfter(m) <=> Due(m)

LEMMA StatusAfter ==
  ASSUME NEW N \in SUBSET Notifications, NEW s,
         \A m \in Notifications \ N : SameStatus(m),
         \A m \in N : api'[m] # "idle" /\ row'[m].status = s
  PROVE  StatusMap' = [m \in Notifications |-> IF m \in N THEN s ELSE StatusMap[m]]
  BY DEF StatusMap, RowStatus, SameStatus

LEMMA CopiesAfter ==
  ASSUME \A m \in Notifications : SameCopies(m)
  PROVE  CopiesMap' = CopiesMap
  BY DEF CopiesMap, Copies, SameCopies

LEMMA CopiesWritten ==
  ASSUME NEW n \in Notifications, NEW c,
         \A m \in Notifications \ {n} : SameCopies(m),
         c = IF sends'[n] = 0 THEN "none"
             ELSE IF sends'[n] <= lostAcks'[n] THEN "lost"
             ELSE IF sends'[n] = lostAcks'[n] + 1 THEN "out" ELSE "twice"
  PROVE  CopiesMap' = [CopiesMap EXCEPT ![n] = c]
  BY DEF CopiesMap, Copies, SameCopies

LEMMA DueKept ==
  ASSUME \A m \in Notifications : SameDue(m)
  PROVE  DueSet' = DueSet
<1>1. \A m \in Notifications : m \in DueSet' <=> DueAfter(m)
  BY DEF DueSet, Due, DueAfter
<1> QED BY <1>1 DEF SameDue, DueSet

\* Both specifications take the names of statuses from NotificationStatus.
LEMMA SameNames ==
  /\ Delivery!Absent = Absent /\ Delivery!Unborn = "unborn"
  /\ Delivery!NotificationStatuses = NotificationStatuses
  /\ Delivery!UpdatableStatuses = UpdatableStatuses
  /\ Delivery!InFlightStatuses = InFlightStatuses
  /\ Delivery!FinalStatuses = FinalStatuses
  BY DEF Absent, Delivery!Absent, Delivery!Unborn, NotificationStatuses,
     Delivery!NotificationStatuses, UpdatableStatuses, Delivery!UpdatableStatuses,
     InFlightStatuses, Delivery!InFlightStatuses, FinalStatuses, Delivery!FinalStatuses

\* The step is one of MessageDelivery, or changes nothing there.
Maps == [Delivery!Next]_(Delivery!vars)

Untold == UNCHANGED <<callbacks, active>>

LEMMA AsStutter ==
  ASSUME StatusMap' = StatusMap, CopiesMap' = CopiesMap, DueSet' = DueSet, Untold
  PROVE  Maps
  BY DEF Maps, Untold, Delivery!vars, StatusMap, CopiesMap, DueSet

\* The steps that write one row.
LEMMA AsWrite ==
  ASSUME NEW n \in Notifications, NEW s, StatusMap' = [StatusMap EXCEPT ![n] = s],
         CopiesMap' = CopiesMap, DueSet' = DueSet, Untold,
         \/ StatusMap[n] = "unborn" /\ s = "created"
         \/ /\ StatusMap[n] = "created"
            /\ CopiesMap[n] = "out" \/ n \in TestKey
            /\ s = IF n \in International THEN "sent" ELSE "sending"
         \/ /\ s = "technical-failure" /\ n \notin NoDlr
            /\ \/ StatusMap[n] = "created" /\ CopiesMap[n] # "out"
               \/ StatusMap[n] \in UpdatableStatuses /\ n \in TestKey
         \/ /\ s = "technical-failure" /\ ~active /\ n \notin DueSet
            /\ StatusMap[n] \notin {"unborn", Absent}
         \/ s = Absent /\ n \notin DueSet /\ StatusMap[n] # "unborn"
  PROVE  Maps
<1> USE SameNames DEF Delivery!Write, StatusMap, CopiesMap, DueSet, Untold
<1>1. CASE StatusMap[n] = "unborn" /\ s = "created"
  <2>1. Delivery!Persist(n)
    BY <1>1 DEF Delivery!Persist
  <2> QED BY <2>1 DEF Maps, Delivery!Next
<1>2. CASE /\ StatusMap[n] = "created"
           /\ CopiesMap[n] = "out" \/ n \in TestKey
           /\ s = IF n \in International THEN "sent" ELSE "sending"
  <2>1. Delivery!Record(n)
    BY <1>2 DEF Delivery!Record
  <2> QED BY <2>1 DEF Maps, Delivery!Next
<1>3. CASE /\ s = "technical-failure" /\ n \notin NoDlr
           /\ \/ StatusMap[n] = "created" /\ CopiesMap[n] # "out"
              \/ StatusMap[n] \in UpdatableStatuses /\ n \in TestKey
  <2>1. Delivery!GiveUp(n)
    BY <1>3 DEF Delivery!GiveUp
  <2> QED BY <2>1 DEF Maps, Delivery!Next
<1>4. CASE /\ s = "technical-failure" /\ ~active /\ n \notin DueSet
           /\ StatusMap[n] \notin {"unborn", Absent}
  <2>1. Delivery!Refuse(n)
    BY <1>4 DEF Delivery!Refuse
  <2> QED BY <2>1 DEF Maps, Delivery!Next
<1>5. CASE s = Absent /\ n \notin DueSet /\ StatusMap[n] # "unborn"
  <2>1. Delivery!Discard(n)
    BY <1>5 DEF Delivery!Discard
  <2> QED BY <2>1 DEF Maps, Delivery!Next
<1> QED BY <1>1, <1>2, <1>3, <1>4, <1>5

\* The provider takes a copy: known to the task, or not.
LEMMA AsCopy ==
  ASSUME NEW n \in Notifications, NEW c, CopiesMap' = [CopiesMap EXCEPT ![n] = c],
         StatusMap' = StatusMap, DueSet' = DueSet, Untold,
         StatusMap[n] = "created", n \notin TestKey,
         c = "lost" \/ (c = "out" /\ CopiesMap[n] # "out")
  PROVE  Maps
<1> USE DEF StatusMap, CopiesMap, DueSet, Untold
<1>1. CASE c = "lost"
  <2>1. Delivery!LoseAnswer(n)
    BY <1>1 DEF Delivery!LoseAnswer
  <2> QED BY <2>1 DEF Maps, Delivery!Next
<1>2. CASE c = "out" /\ CopiesMap[n] # "out"
  <2>1. Delivery!HandOver(n)
    BY <1>2 DEF Delivery!HandOver
  <2> QED BY <2>1 DEF Maps, Delivery!Next
<1> QED BY <1>1, <1>2

\* A receipt writes the row.
LEMMA AsReport ==
  ASSUME NEW n \in Notifications, NEW s \in FinalStatuses \cup {"pending"},
         StatusMap' = [StatusMap EXCEPT ![n] = s], CopiesMap' = CopiesMap, Untold,
         StatusMap[n] \in UpdatableStatuses, n \notin NoDlr,
         CopiesMap[n] # "none" \/ n \in TestKey,
         DueSet' = IF s = "pending" THEN DueSet ELSE DueSet \cup {n}
  PROVE  Maps
<1>1. s \in NotificationStatuses
  BY DEF FinalStatuses, NotificationStatuses
<1>2. Delivery!Report(n, s)
  BY SameNames DEF Delivery!Report, Delivery!Write, StatusMap, CopiesMap, DueSet, Untold
<1> QED BY <1>1, <1>2, SameNames DEF Maps, Delivery!Next

\* The timeout writes many rows.
LEMMA AsTimeOut ==
  ASSUME NEW N \in SUBSET Notifications,
         \A n \in N : StatusMap[n] \in InFlightStatuses,
         StatusMap' = [n \in Notifications |->
                         IF n \in N THEN "temporary-failure" ELSE StatusMap[n]],
         CopiesMap' = CopiesMap, Untold, DueSet' = DueSet \cup N
  PROVE  Maps
<1>1. Delivery!TimeOut(N)
  BY SameNames DEF Delivery!TimeOut, StatusMap, CopiesMap, DueSet, Untold
<1> QED BY <1>1 DEF Maps, Delivery!Next

\* The service is told, or is not.
LEMMA AsTell ==
  ASSUME NEW n \in Notifications, n \in DueSet, DueSet' = DueSet \ {n},
         callbacks' = [callbacks EXCEPT ![n] = Append(@, StatusMap[n])],
         StatusMap' = StatusMap, CopiesMap' = CopiesMap, active' = active
  PROVE  Maps
<1>1. Delivery!Tell(n)
  BY DEF Delivery!Tell, StatusMap, CopiesMap, DueSet
<1> QED BY <1>1 DEF Maps, Delivery!Next

LEMMA AsForget ==
  ASSUME NEW N \in SUBSET Notifications, DueSet' = DueSet \ N,
         StatusMap' = StatusMap, CopiesMap' = CopiesMap, Untold
  PROVE  Maps
<1>1. Delivery!Forget(N)
  BY DEF Delivery!Forget, StatusMap, CopiesMap, DueSet, Untold
<1> QED BY <1>1 DEF Maps, Delivery!Next

LEMMA RowWritten ==
  ASSUME NEW n \in Notifications, NEW s, api'[n] # "idle", row'[n].status = s,
         \A m \in Notifications \ {n} : SameStatus(m)
  PROVE  StatusMap' = [StatusMap EXCEPT ![n] = s]
  BY DEF StatusMap, RowStatus, SameStatus

LEMMA RowKept ==
  ASSUME \A m \in Notifications : SameStatus(m)
  PROVE  StatusMap' = StatusMap
  BY DEF StatusMap, RowStatus, SameStatus

LEMMA MapsAt ==
  ASSUME NEW n \in Notifications
  PROVE  /\ api[n] # "idle" => StatusMap[n] = row[n].status
         /\ api[n] = "idle" => StatusMap[n] = "unborn"
         /\ CopiesMap[n] = Copies(n)
         /\ n \in DueSet <=> Due(n)
  BY DEF StatusMap, CopiesMap, DueSet, RowStatus

\* A step that leaves a message alone.
LEMMA CountedFrame ==
  ASSUME NEW m \in Notifications, Counted(m), row'[m].status = row[m].status,
         task'[m] = task[m], sends'[m] = sends[m], lostAcks'[m] = lostAcks[m],
         receipt'[m] = receipt[m]
  PROVE  Counted(m)'
  BY DEF Counted

\* A step of the only task at work on a message.
LEMMA CountedTask ==
  ASSUME TypeOK, NEW n \in Notifications, NEW t \in Tasks, NEW new, Counted(n), Sole(n, t),
         SetTask(n, t, new),
         new.pc = "calling" => n \notin TestKey,
         new.pc = "responding" => n \in TestKey,
         new.pc = "rejected" => row'[n].status = "created",
         new.pc = "raised" =>
           \/ n \in TestKey
           \/ row'[n].status \in {"created", "technical-failure", Absent},
         n \in TestKey => sends'[n] = 0,
         n \notin TestKey =>
           /\ lostAcks'[n] <= sends'[n]
           /\ new.pc = "accepted" => lostAcks'[n] < sends'[n]
           /\ \A r \in Receipts : receipt'[n][r].pc # "none" => sends'[n] > 0
  PROVE  Counted(n)'
<1>1. /\ task'[n][t] = new
      /\ \A u \in Tasks \ {t} : task'[n][u] = task[n][u]
  BY TaskAt
<1>2. \A u \in Tasks \ {t} : task'[n][u].pc \in {"free", "queued"}
  BY <1>1 DEF Sole, Running
<1>3. \A u \in Tasks :
       /\ task'[n][u].pc = "calling" => n \notin TestKey
       /\ task'[n][u].pc = "responding" => n \in TestKey
       /\ task'[n][u].pc = "rejected" => row'[n].status = "created"
       /\ task'[n][u].pc = "raised" =>
            \/ n \in TestKey
            \/ row'[n].status \in {"created", "technical-failure", Absent}
  BY <1>1, <1>2
<1>4. n \notin TestKey =>
        \A u \in Tasks : task'[n][u].pc = "accepted" => lostAcks'[n] < sends'[n]
  BY <1>1, <1>2
<1> QED BY <1>3, <1>4 DEF Counted

\* What surrounds a step of a task: its message is due to nobody, before or after, and
\* the others stay as they are.
LEMMA TaskAlone ==
  ASSUME TypeOK, ~Overlap, SerialInv, TellInv, NEW n \in Notifications, NEW t \in Tasks,
         Deliver(n, t) \/ CrashTask(n, t)
  PROVE  /\ MessageInv(n) /\ Sole(n, t) /\ Untold /\ api' = api /\ api[n] = "done"
         /\ DueSet' = DueSet /\ n \notin DueSet
         /\ \A m \in Notifications \ {n} :
              /\ SameStatus(m) /\ SameCopies(m)
              /\ task'[m] = task[m] /\ receipt'[m] = receipt[m]
<1>1. MessageInv(n) /\ ToldInv(n)
  BY DEF SerialInv, MessageInv, TellInv
<1>2. Sole(n, t) /\ \A r \in Receipts : ~Handling(n, r)
  BY <1>1, TaskAtWork
<1>3. /\ UNCHANGED <<api, sweep, callbacks>>
      /\ \/ receipt' = receipt
         \/ \E r \in Receipts : \E new : new.pc = "transit" /\ SetReceipt(n, r, new)
  BY TaskWrites
<1>4. active' = active
  BY DEF Deliver, CrashTask, Start, StartMissing, StartInactive, StartSkip, StartFails,
     StartSend, Answer, ProviderAccepts, ProviderRejects, ProviderTimesOut, Commit,
     SaveBillableUnits, CommitSending, CommitFails, Respond, SendSmsResponse,
     SendSmsResponseFails, Conclude, RetryTask, GiveUp
<1>5. /\ \A r \in Receipts : receipt'[n][r].pc \notin {"updated", "billed"}
      /\ \A m \in Notifications \ {n} : receipt'[m] = receipt[m]
  <2>1. CASE receipt' = receipt
    BY <1>2, <2>1 DEF Handling
  <2>2. ASSUME NEW r \in Receipts, NEW new, new.pc = "transit", SetReceipt(n, r, new)
        PROVE  /\ \A q \in Receipts : receipt'[n][q].pc \notin {"updated", "billed"}
               /\ \A m \in Notifications \ {n} : receipt'[m] = receipt[m]
    <3>1. /\ receipt'[n][r] = new
          /\ \A q \in Receipts \ {r} : receipt'[n][q] = receipt[n][q]
          /\ \A m \in Notifications \ {n} : receipt'[m] = receipt[m]
      BY <2>2, ReceiptAt
    <3> QED BY <1>2, <2>2, <3>1 DEF Handling
  <2> QED BY <1>3, <2>1, <2>2
<1>6. ~Due(n) /\ ~DueAfter(n)
  BY <1>2, <1>3, <1>5 DEF Due, DueAfter, Handling, Sole
<1>7. \A m \in Notifications \ {n} : SameDue(m)
  BY <1>3, <1>5 DEF SameDue, Due, DueAfter
<1>8. DueSet' = DueSet /\ n \notin DueSet
  <2>1. \A m \in Notifications : SameDue(m)
    BY <1>6, <1>7 DEF SameDue
  <2> QED BY <1>6, <2>1, DueKept, MapsAt
<1>9. \A m \in Notifications \ {n} : SameStatus(m) /\ SameCopies(m) /\ task'[m] = task[m]
  BY <1>3, TaskOthers DEF SameStatus, SameCopies
<1> QED BY <1>1, <1>2, <1>3, <1>4, <1>5, <1>8, <1>9 DEF Untold, Sole

\* A step of a task that leaves the status and the copies alone.
LEMMA TaskStutters ==
  ASSUME TypeOK, ~Overlap, SerialInv, TellInv, NEW n \in Notifications, NEW t \in Tasks,
         Deliver(n, t) \/ CrashTask(n, t),
         row'[n].status = row[n].status, SameCopies(n)
  PROVE  Maps
<1>1. /\ Untold /\ DueSet' = DueSet /\ api' = api
      /\ \A m \in Notifications \ {n} : SameStatus(m) /\ SameCopies(m)
  BY TaskAlone
<1>2. SameStatus(n)
  BY <1>1 DEF SameStatus
<1>3. StatusMap' = StatusMap /\ CopiesMap' = CopiesMap
  BY <1>1, <1>2, RowKept, CopiesAfter
<1> QED BY <1>1, <1>3, AsStutter

\* A step of a task that writes the status and leaves the copies alone.
LEMMA TaskWritten ==
  ASSUME TypeOK, ~Overlap, SerialInv, TellInv, NEW n \in Notifications, NEW t \in Tasks,
         Deliver(n, t) \/ CrashTask(n, t), SameCopies(n), NEW s, row'[n].status = s,
         \/ /\ row[n].status = "created" /\ (Copies(n) = "out" \/ n \in TestKey)
            /\ s = IF n \in International THEN "sent" ELSE "sending"
         \/ /\ s = "technical-failure" /\ n \notin NoDlr
            /\ \/ row[n].status = "created" /\ Copies(n) # "out"
               \/ row[n].status \in UpdatableStatuses /\ n \in TestKey
         \/ s = "technical-failure" /\ ~active /\ row[n].status # Absent
  PROVE  Maps
<1>1. /\ Untold /\ DueSet' = DueSet /\ api' = api /\ api[n] = "done" /\ n \notin DueSet
      /\ \A m \in Notifications \ {n} : SameStatus(m) /\ SameCopies(m)
  BY TaskAlone
<1>2. StatusMap' = [StatusMap EXCEPT ![n] = s] /\ CopiesMap' = CopiesMap
  BY <1>1, RowWritten, CopiesAfter
<1>3. StatusMap[n] = row[n].status /\ CopiesMap[n] = Copies(n)
  BY <1>1, MapsAt
<1>4. row[n].status # "unborn"
  BY DEF TypeOK, Row, NotificationStatuses, Absent
<1> QED BY <1>1, <1>2, <1>3, <1>4, AsWrite

\* A step of a task that leaves the copies and the receipts of its message alone, and the
\* task neither calling nor with a copy in hand.
LEMMA CountedQuiet ==
  ASSUME TypeOK, NEW n \in Notifications, NEW t \in Tasks, NEW new, Counted(n), Sole(n, t),
         SetTask(n, t, new), SameCopies(n), receipt'[n] = receipt[n],
         new.pc \in {"free", "queued", "raised"},
         new.pc = "raised" =>
           \/ n \in TestKey
           \/ row'[n].status \in {"created", "technical-failure", Absent}
  PROVE  Counted(n)'
<1>1. n \in TestKey => sends'[n] = 0
  BY DEF Counted, SameCopies
<1>2. n \notin TestKey =>
        /\ lostAcks'[n] <= sends'[n]
        /\ \A r \in Receipts : receipt'[n][r].pc # "none" => sends'[n] > 0
  BY DEF Counted, SameCopies
<1> QED BY <1>1, <1>2, CountedTask

\* The start of a task.
LEMMA RefStart ==
  ASSUME TypeOK, ~Overlap, SerialInv, TellInv, NEW n \in Notifications, NEW t \in Tasks,
         Counted(n), Start(n, t)
  PROVE  Counted(n)' /\ Maps
<1>d. Deliver(n, t)
  BY DEF Deliver
<1>s. Sole(n, t)
  BY <1>d, TaskAlone
<1>t. task[n][t] \in TaskState /\ row[n] \in Row
  BY DEF TypeOK
<1>c. SameCopies(n) /\ receipt' = receipt
  BY DEF Start, StartMissing, StartInactive, StartSkip, StartFails, StartSend, SameCopies
<1>1. CASE StartMissing(n, t)
  <2>1. PICK new \in TaskState : /\ new.pc = "raised" /\ new.held = FALSE
                                 /\ SetTask(n, t, new)
    BY <1>1, Raised DEF StartMissing
  <2>2. row'[n].status = row[n].status /\ row[n].status = Absent
    BY <1>1 DEF StartMissing
  <2> QED BY <1>d, <1>s, <1>c, <2>1, <2>2, CountedQuiet, TaskStutters
<1>2. CASE StartInactive(n, t)
  <2>1. PICK new \in TaskState : /\ new.pc = "raised" /\ new.held = FALSE
                                 /\ SetTask(n, t, new)
    BY <1>2, Raised DEF StartInactive
  <2>2. row'[n].status = "technical-failure" /\ ~active /\ row[n].status # Absent
    BY <1>t, <1>2, RowAt DEF StartInactive, SetStatus, Row
  <2> QED BY <1>d, <1>s, <1>c, <2>1, <2>2, CountedQuiet, TaskWritten
<1>3. CASE StartSkip(n, t)
  <2>1. SetTask(n, t, FreeTask) /\ row'[n].status = row[n].status
    BY <1>3 DEF StartSkip
  <2> QED BY <1>d, <1>s, <1>c, <2>1, Freed, CountedQuiet, TaskStutters
<1>4. CASE StartFails(n, t)
  <2>1. PICK new \in TaskState : new.pc = "raised" /\ SetTask(n, t, new)
    BY <1>4, Raised DEF StartFails
  <2>2. row'[n].status = row[n].status /\ row[n].status = "created"
    BY <1>4 DEF StartFails
  <2> QED BY <1>d, <1>s, <1>c, <2>1, <2>2, CountedQuiet, TaskStutters
<1>5. ASSUME NEW p \in Providers, StartSend(n, t, p)
      PROVE  Counted(n)' /\ Maps
  <2> DEFINE pc == IF n \in TestKey THEN "accepted" ELSE "calling"
             new == [task[n][t] EXCEPT !.pc = pc, !.provider = p]
  <2>1. SetTask(n, t, new) /\ row'[n].status = row[n].status
    BY <1>5 DEF StartSend
  <2>2. new.pc = pc
    BY <1>t DEF TaskState
  <2>3. /\ n \in TestKey => sends'[n] = 0
        /\ n \notin TestKey =>
             /\ lostAcks'[n] <= sends'[n]
             /\ \A r \in Receipts : receipt'[n][r].pc # "none" => sends'[n] > 0
    BY <1>c DEF Counted, SameCopies
  <2> HIDE DEF new
  <2>4. Counted(n)'
    BY <1>s, <2>1, <2>2, <2>3, CountedTask
  <2> QED BY <1>d, <1>c, <2>1, <2>4, TaskStutters
<1> QED BY <1>1, <1>2, <1>3, <1>4, <1>5 DEF Start

\* The answer of the provider.
LEMMA RefAnswer ==
  ASSUME TypeOK, ~Overlap, SerialInv, TellInv, NEW n \in Notifications, NEW t \in Tasks,
         Counted(n), Answer(n, t)
  PROVE  Counted(n)' /\ Maps
<1>d. Deliver(n, t)
  BY DEF Deliver
<1>a. /\ MessageInv(n) /\ Sole(n, t) /\ Untold /\ api' = api /\ api[n] = "done"
      /\ DueSet' = DueSet
      /\ \A m \in Notifications \ {n} : SameStatus(m) /\ SameCopies(m)
  BY <1>d, TaskAlone
<1>t. task[n][t] \in TaskState /\ sends[n] \in Nat /\ lostAcks[n] \in Nat
  BY DEF TypeOK
<1>i. task[n][t].pc = "calling" /\ row' = row /\ receipt' = receipt
  BY DEF Answer, ProviderAccepts, ProviderRejects, ProviderTimesOut
<1>b. /\ row[n].status = "created" /\ sends[n] <= lostAcks[n]
  BY <1>a, <1>i, CallingBudget
<1>e. n \notin TestKey /\ sends[n] = lostAcks[n]
  BY <1>t, <1>i, <1>b DEF Counted
<1>m. StatusMap' = StatusMap /\ StatusMap[n] = "created" /\ CopiesMap[n] # "out"
  <2>1. \A m \in Notifications : SameStatus(m)
    BY <1>a, <1>i DEF SameStatus
  <2>2. Copies(n) # "out"
    BY <1>t, <1>e DEF Copies
  <2> QED BY <1>a, <1>b, <2>1, <2>2, RowKept, MapsAt
<1>1. CASE ProviderAccepts(n, t)
  <2> DEFINE new == [task[n][t] EXCEPT !.pc = "accepted"]
  <2>1. new.pc = "accepted" /\ SetTask(n, t, new)
    BY <1>t, <1>1 DEF ProviderAccepts, TaskState
  <2>2. sends'[n] = sends[n] + 1 /\ lostAcks'[n] = lostAcks[n]
    BY <1>1, CountersAt DEF ProviderAccepts
  <2>3. /\ lostAcks'[n] < sends'[n] /\ sends'[n] > 0 /\ lostAcks'[n] <= sends'[n]
        /\ sends'[n] # 0 /\ ~(sends'[n] <= lostAcks'[n]) /\ sends'[n] = lostAcks'[n] + 1
    BY <1>t, <1>e, <2>2
  <2> HIDE DEF new
  <2>4. Counted(n)'
    BY <1>a, <1>e, <2>1, <2>3, CountedTask
  <2>5. CopiesMap' = [CopiesMap EXCEPT ![n] = "out"]
    BY <1>a, <2>3, CopiesWritten
  <2> QED BY <1>a, <1>e, <1>m, <2>4, <2>5, AsCopy
<1>2. CASE ProviderRejects(n, t)
  <2> DEFINE new == [task[n][t] EXCEPT !.pc = "rejected"]
  <2>1. new.pc = "rejected" /\ SetTask(n, t, new) /\ SameCopies(n)
    BY <1>t, <1>2 DEF ProviderRejects, TaskState, SameCopies
  <2>2. /\ lostAcks'[n] <= sends'[n]
        /\ \A r \in Receipts : receipt'[n][r].pc # "none" => sends'[n] > 0
    BY <1>e, <1>i, <2>1 DEF Counted, SameCopies
  <2> HIDE DEF new
  <2>3. Counted(n)'
    BY <1>a, <1>b, <1>e, <1>i, <2>1, <2>2, CountedTask
  <2> QED BY <1>d, <1>i, <2>1, <2>3, TaskStutters
<1>3. CASE ProviderTimesOut(n, t)
  <2> DEFINE new == [task[n][t] EXCEPT !.pc = "rejected"]
  <2>1. new.pc = "rejected" /\ SetTask(n, t, new)
    BY <1>t, <1>3 DEF ProviderTimesOut, TaskState
  <2>2. sends'[n] = sends[n] + 1 /\ lostAcks'[n] = lostAcks[n] + 1
    BY <1>3, CountersAt DEF ProviderTimesOut
  <2>3. /\ lostAcks'[n] <= sends'[n] /\ sends'[n] > 0
        /\ sends'[n] # 0 /\ sends'[n] <= lostAcks'[n]
    BY <1>t, <1>e, <2>2
  <2> HIDE DEF new
  <2>4. Counted(n)'
    BY <1>a, <1>b, <1>e, <1>i, <2>1, <2>3, CountedTask
  <2>5. CopiesMap' = [CopiesMap EXCEPT ![n] = "lost"]
    BY <1>a, <1>t, <2>2, <2>3, CopiesWritten
  <2> QED BY <1>a, <1>e, <1>m, <2>4, <2>5, AsCopy
<1> QED BY <1>1, <1>2, <1>3 DEF Answer

\* A copy that was waiting to be committed is lost.
LEMMA LosesCopy ==
  ASSUME TypeOK, ~Overlap, SerialInv, TellInv, NEW n \in Notifications, NEW t \in Tasks,
         Counted(n), Deliver(n, t) \/ CrashTask(n, t), task[n][t].pc = "accepted",
         row' = row, sends' = sends, LoseAck(n)
  PROVE  /\ row[n].status = "created"
         /\ n \in TestKey => sends'[n] = 0
         /\ n \notin TestKey => lostAcks'[n] <= sends'[n] /\ sends'[n] > 0
         /\ Maps
<1>a. /\ MessageInv(n) /\ Sole(n, t) /\ Untold /\ api' = api /\ api[n] = "done"
      /\ DueSet' = DueSet
      /\ \A m \in Notifications \ {n} : SameStatus(m) /\ SameCopies(m)
  BY TaskAlone
<1>t. sends[n] \in Nat /\ lostAcks[n] \in Nat
  BY DEF TypeOK
<1>b. row[n].status = "created" /\ sends[n] <= lostAcks[n] + 1
  BY <1>a, <1>t DEF MessageInv, SentFromCreated, Budget
<1>l. lostAcks'[n] = lostAcks[n] + 1
  BY CountersAt
<1>m. StatusMap' = StatusMap /\ StatusMap[n] = "created"
  <2>1. \A m \in Notifications : SameStatus(m)
    BY <1>a DEF SameStatus
  <2> QED BY <1>a, <1>b, <2>1, RowKept, MapsAt
<1>1. CASE n \in TestKey
  <2>1. sends'[n] = 0 /\ sends[n] = 0
    BY <1>1 DEF Counted
  <2>2. CopiesMap' = [CopiesMap EXCEPT ![n] = "none"]
    BY <1>a, <2>1, CopiesWritten
  <2>3. CopiesMap[n] = "none"
    BY <2>1, MapsAt DEF Copies
  <2>4. CopiesMap' = CopiesMap
    BY <2>2, <2>3 DEF CopiesMap
  <2> QED BY <1>1, <1>a, <1>b, <1>m, <2>1, <2>4, AsStutter
<1>2. CASE n \notin TestKey
  <2>1. lostAcks[n] < sends[n]
    BY <1>2 DEF Counted
  <2>2. /\ lostAcks'[n] <= sends'[n] /\ sends'[n] > 0
        /\ sends'[n] # 0 /\ sends'[n] <= lostAcks'[n]
    BY <1>t, <1>b, <1>l, <2>1
  <2>3. CopiesMap' = [CopiesMap EXCEPT ![n] = "lost"]
    BY <1>a, <1>t, <2>2, CopiesWritten
  <2>4. Maps
    BY <1>2, <1>a, <1>m, <2>3, AsCopy
  <2> QED BY <1>2, <1>b, <2>2, <2>4
<1> QED BY <1>1, <1>2

\* What the task commits.
LEMMA RefCommit ==
  ASSUME TypeOK, ~Overlap, SerialInv, TellInv, NEW n \in Notifications, NEW t \in Tasks,
         Counted(n), Commit(n, t)
  PROVE  Counted(n)' /\ Maps
<1>d. Deliver(n, t)
  BY DEF Deliver
<1>s. Sole(n, t) /\ MessageInv(n)
  BY <1>d, TaskAlone
<1>t. task[n][t] \in TaskState /\ row[n] \in Row /\ sends[n] \in Nat /\ lostAcks[n] \in Nat
  BY DEF TypeOK
<1>r. receipt' = receipt
  BY DEF Commit, SaveBillableUnits, CommitSending, CommitFails
<1>1. CASE SaveBillableUnits(n, t)
  <2>1. PICK new \in TaskState : /\ new.pc = "raised" /\ new.held = FALSE
                                 /\ SetTask(n, t, new)
    BY <1>1, Raised DEF SaveBillableUnits
  <2>2. row'[n].status = row[n].status /\ row[n].status = "created" /\ SameCopies(n)
    BY <1>t, <1>1, RowAt DEF SaveBillableUnits, Row, Counted, SameCopies
  <2> QED BY <1>d, <1>s, <1>r, <2>1, <2>2, CountedQuiet, TaskStutters
<1>2. CASE CommitSending(n, t)
  <2>1. /\ row'[n].status = IF n \in International THEN "sent" ELSE "sending"
        /\ row[n].status = "created" /\ SameCopies(n)
    BY <1>s, <1>2, RowAt
       DEF CommitSending, SendingRow, SameCopies, MessageInv, SentFromCreated
  <2>0. n \notin TestKey =>
          sends[n] # 0 /\ ~(sends[n] <= lostAcks[n]) /\ sends[n] = lostAcks[n] + 1
    <3>1. sends[n] <= lostAcks[n] + 1
      BY <1>s, <1>t DEF MessageInv, Budget
    <3>2. n \notin TestKey => lostAcks[n] < sends[n]
      BY <1>2 DEF CommitSending, Counted
    <3> QED BY <1>t, <3>1, <3>2
  <2>2. Copies(n) = "out" \/ n \in TestKey
    BY <2>0 DEF Copies
  <2>3. Maps
    BY <1>d, <2>1, <2>2, TaskWritten
  <2>4. CASE n \in TestKey
    <3> DEFINE new == [task[n][t] EXCEPT !.pc = "responding"]
    <3>1. new.pc = "responding" /\ SetTask(n, t, new)
      BY <1>t, <1>2, <2>4 DEF CommitSending, TaskState
    <3>2. sends'[n] = 0
      BY <2>1, <2>4 DEF Counted, SameCopies
    <3> HIDE DEF new
    <3>3. Counted(n)'
      BY <1>s, <2>4, <3>1, <3>2, CountedTask
    <3> QED BY <2>3, <3>3
  <2>5. CASE n \notin TestKey
    <3>1. SetTask(n, t, FreeTask)
      BY <1>2, <2>5 DEF CommitSending
    <3>2. Counted(n)'
      BY <1>s, <1>r, <2>1, <3>1, Freed, CountedQuiet
    <3> QED BY <2>3, <3>2
  <2> QED BY <2>4, <2>5
<1>3. CASE CommitFails(n, t)
  <2>1. PICK new \in TaskState : /\ new.pc = "raised" /\ new.held = FALSE
                                 /\ SetTask(n, t, new)
    BY <1>3, Raised DEF CommitFails
  <2>2. /\ task[n][t].pc = "accepted" /\ row' = row /\ sends' = sends /\ LoseAck(n)
    BY <1>3 DEF CommitFails
  <2>3. /\ row[n].status = "created" /\ Maps
        /\ n \in TestKey => sends'[n] = 0
        /\ n \notin TestKey => lostAcks'[n] <= sends'[n] /\ sends'[n] > 0
    BY <1>d, <2>2, LosesCopy
  <2>4. Counted(n)'
    BY <1>s, <2>1, <2>2, <2>3, CountedTask
  <2> QED BY <2>3, <2>4
<1> QED BY <1>1, <1>2, <1>3 DEF Commit

\* A test message answers itself.
LEMMA RefRespond ==
  ASSUME TypeOK, ~Overlap, SerialInv, TellInv, NEW n \in Notifications, NEW t \in Tasks,
         Counted(n), Respond(n, t)
  PROVE  Counted(n)' /\ Maps
<1>d. Deliver(n, t)
  BY DEF Deliver
<1>s. Sole(n, t)
  BY <1>d, TaskAlone
<1>i. /\ task[n][t].pc = "responding" /\ SameCopies(n)
      /\ row'[n].status = row[n].status
  BY DEF Respond, SendSmsResponse, SendSmsResponseFails, SameCopies
<1>k. n \in TestKey /\ sends'[n] = 0
  BY <1>i DEF Counted, SameCopies
<1>m. Maps
  BY <1>d, <1>i, TaskStutters
<1>1. CASE SendSmsResponseFails(n, t)
  <2>1. PICK new \in TaskState : /\ new.pc = "raised" /\ new.held = FALSE
                                 /\ SetTask(n, t, new)
    BY <1>1, Raised DEF SendSmsResponseFails
  <2>2. Counted(n)'
    BY <1>s, <1>k, <2>1, CountedTask
  <2> QED BY <1>m, <2>2
<1>2. ASSUME NEW r \in Receipts, NEW s \in ReportedStatuses, SendSmsResponse(n, t, r, s)
      PROVE  Counted(n)' /\ Maps
  <2>1. CASE s = "pending"
    <3>1. PICK new \in TaskState : new = task[n][t]
      BY DEF TypeOK
    <3>2. new.pc = "responding" /\ SetTask(n, t, new)
      BY <1>2, <1>i, <2>1, <3>1 DEF SendSmsResponse
    <3>3. Counted(n)'
      BY <1>s, <1>k, <3>2, CountedTask
    <3> QED BY <1>m, <3>3
  <2>2. CASE s # "pending"
    <3>1. SetTask(n, t, FreeTask)
      BY <1>2, <2>2 DEF SendSmsResponse
    <3>2. Counted(n)'
      BY <1>s, <1>k, <3>1, Freed, CountedTask
    <3> QED BY <1>m, <3>2
  <2> QED BY <2>1, <2>2
<1> QED BY <1>1, <1>2 DEF Respond

\* The end of a task that failed.
LEMMA RefConclude ==
  ASSUME TypeOK, ~Overlap, SerialInv, TellInv, NEW n \in Notifications, NEW t \in Tasks,
         Counted(n), Conclude(n, t)
  PROVE  Counted(n)' /\ Maps
<1>d. Deliver(n, t)
  BY DEF Deliver
<1>s. Sole(n, t) /\ MessageInv(n)
  BY <1>d, TaskAlone
<1>t. /\ row[n] \in Row /\ task[n][t] \in TaskState
      /\ sends[n] \in Nat /\ lostAcks[n] \in Nat
  BY DEF TypeOK
<1>i. task[n][t].pc = "raised" /\ SameCopies(n) /\ receipt' = receipt
  BY DEF Conclude, RetryTask, GiveUp, SameCopies
<1>1. CASE RetryTask(n, t)
  <2> DEFINE new == NewTask(task[n][t].retries + 1)
  <2>1. new.pc = "queued"
    BY DEF NewTask
  <2>2. SetTask(n, t, new) /\ row'[n].status = row[n].status
    BY <1>1 DEF RetryTask
  <2> HIDE DEF new
  <2>3. Counted(n)'
    BY <1>s, <1>i, <2>1, <2>2, CountedQuiet
  <2> QED BY <1>d, <1>i, <2>2, <2>3, TaskStutters
<1>2. CASE GiveUp(n, t)
  <2>1. SetTask(n, t, FreeTask)
    BY <1>2 DEF GiveUp
  <2>2. Counted(n)'
    BY <1>s, <1>i, <2>1, Freed, CountedQuiet
  <2>3. CASE row' = row
    BY <1>d, <1>i, <2>2, <2>3, TaskStutters
  <2>4. CASE row' # row
    <3> DEFINE seen == IF task[n][t].held THEN "created" ELSE row[n].status
    <3>1. MayUpdateStatus(n, seen) /\ SetStatus(n, "technical-failure")
      BY <1>2, <2>4 DEF GiveUp
    <3>2. seen = row[n].status
      BY <1>s, <1>i DEF MessageInv, SentFromCreated
    <3>3. n \notin NoDlr /\ row[n].status \in UpdatableStatuses
      BY <3>1, <3>2 DEF MayUpdateStatus
    <3>4. row'[n].status = "technical-failure"
      BY <1>t, <3>1, RowAt DEF SetStatus, Row
    <3>5. CASE n \in TestKey
      BY <1>d, <1>i, <2>2, <3>3, <3>4, <3>5, TaskWritten
    <3>6. CASE n \notin TestKey
      <4>1. row[n].status = "created"
        BY <1>i, <3>3, <3>6 DEF Counted, UpdatableStatuses, Absent
      <4>2. \A u \in Tasks : task[n][u].pc # "accepted"
        BY <1>s, <1>i DEF Sole, Running
      <4>3. sends[n] <= lostAcks[n]
        BY <1>s, <1>t, <4>1, <4>2 DEF MessageInv, Budget
      <4>4. Copies(n) # "out"
        BY <1>t, <4>3 DEF Copies
      <4> QED BY <1>d, <1>i, <2>2, <3>3, <3>4, <4>1, <4>4, TaskWritten
    <3> QED BY <3>5, <3>6
  <2> QED BY <2>3, <2>4
<1> QED BY <1>1, <1>2 DEF Conclude

\* The worker dies.
LEMMA RefCrash ==
  ASSUME TypeOK, ~Overlap, SerialInv, TellInv, NEW n \in Notifications, NEW t \in Tasks,
         Counted(n), CrashTask(n, t)
  PROVE  Counted(n)' /\ Maps
<1>a. /\ MessageInv(n) /\ Sole(n, t) /\ Untold /\ api' = api /\ api[n] = "done"
      /\ DueSet' = DueSet
      /\ \A m \in Notifications \ {n} : SameStatus(m) /\ SameCopies(m)
  BY TaskAlone
<1>t. sends[n] \in Nat /\ lostAcks[n] \in Nat
  BY DEF TypeOK
<1>f. SetTask(n, t, FreeTask) /\ row' = row /\ receipt' = receipt
  BY DEF CrashTask
<1>1. CASE task[n][t].pc = "accepted" /\ LoseAck(n) /\ UNCHANGED sends
  <2>1. /\ Maps
        /\ n \in TestKey => sends'[n] = 0
        /\ n \notin TestKey => lostAcks'[n] <= sends'[n] /\ sends'[n] > 0
    BY <1>1, <1>f, LosesCopy
  <2>2. Counted(n)'
    BY <1>a, <1>f, <2>1, Freed, CountedTask
  <2> QED BY <2>1, <2>2
<1>2. CASE task[n][t].pc = "calling" /\ LoseAck(n) /\ Took(n, task[n][t].provider)
  <2>1. row[n].status = "created" /\ sends[n] <= lostAcks[n]
    BY <1>a, <1>2, CallingBudget
  <2>2. n \notin TestKey /\ sends[n] = lostAcks[n]
    BY <1>t, <1>2, <2>1 DEF Counted
  <2>3. sends'[n] = sends[n] + 1 /\ lostAcks'[n] = lostAcks[n] + 1
    BY <1>2, CountersAt
  <2>4. /\ lostAcks'[n] <= sends'[n] /\ sends'[n] > 0
        /\ sends'[n] # 0 /\ sends'[n] <= lostAcks'[n]
    BY <1>t, <2>2, <2>3
  <2>5. Counted(n)'
    BY <1>a, <1>f, <2>2, <2>4, Freed, CountedTask
  <2>6. CopiesMap' = [CopiesMap EXCEPT ![n] = "lost"]
    BY <1>a, <2>4, CopiesWritten
  <2>7. StatusMap' = StatusMap /\ StatusMap[n] = "created"
    <3>1. \A m \in Notifications : SameStatus(m)
      BY <1>a, <1>f DEF SameStatus
    <3> QED BY <1>a, <2>1, <3>1, RowKept, MapsAt
  <2> QED BY <1>a, <2>2, <2>5, <2>6, <2>7, AsCopy
<1>3. CASE task[n][t].pc # "accepted" /\ UNCHANGED <<sends, lostAcks>>
  <2>1. SameCopies(n)
    BY <1>3 DEF SameCopies
  <2> QED BY <1>a, <1>f, <2>1, Freed, CountedQuiet, TaskStutters
<1> QED BY <1>1, <1>2, <1>3 DEF CrashTask

LEMMA RefTask ==
  ASSUME TypeOK, ~Overlap, SerialInv, TellInv, CountedInv,
         NEW n \in Notifications, NEW t \in Tasks, Deliver(n, t) \/ CrashTask(n, t)
  PROVE  CountedInv' /\ Maps
<1>1. Counted(n)
  BY DEF CountedInv
<1>2. Counted(n)' /\ Maps
  BY <1>1, RefStart, RefAnswer, RefCommit, RefRespond, RefConclude, RefCrash DEF Deliver
<1>3. \A m \in Notifications \ {n} : /\ SameStatus(m) /\ SameCopies(m)
                                     /\ task'[m] = task[m] /\ receipt'[m] = receipt[m]
  BY TaskAlone
<1>4. ASSUME NEW m \in Notifications \ {n} PROVE Counted(m)'
  BY <1>3, CountedFrame DEF CountedInv, SameStatus, SameCopies
<1> QED BY <1>2, <1>4 DEF CountedInv

\* A step that starts nothing and, where a task is at work, leaves the status alone.
StartsNone(n) ==
  /\ SameCopies(n)
  /\ \A t \in Tasks : task'[n][t] = task[n][t] \/ task'[n][t].pc \in {"free", "queued"}
  /\ \/ row'[n].status = row[n].status
     \/ \A t \in Tasks : task'[n][t].pc \in {"free", "queued"}
  /\ \A r \in Receipts :
       receipt'[n][r].pc # "none" => receipt[n][r].pc # "none" \/ sends[n] > 0

LEMMA CountedKept ==
  ASSUME NEW n \in Notifications, Counted(n), StartsNone(n)
  PROVE  Counted(n)'
<1> USE DEF StartsNone
<1>1. \A t \in Tasks :
       /\ task'[n][t].pc = "calling" => n \notin TestKey
       /\ task'[n][t].pc = "responding" => n \in TestKey
       /\ task'[n][t].pc = "rejected" => row'[n].status = "created"
       /\ task'[n][t].pc = "raised" =>
            \/ n \in TestKey
            \/ row'[n].status \in {"created", "technical-failure", Absent}
  BY DEF Counted
<1>2. n \in TestKey => sends'[n] = 0
  BY DEF Counted, SameCopies
<1>3. n \notin TestKey =>
       /\ lostAcks'[n] <= sends'[n]
       /\ \A t \in Tasks : task'[n][t].pc = "accepted" => lostAcks'[n] < sends'[n]
       /\ \A r \in Receipts : receipt'[n][r].pc # "none" => sends'[n] > 0
  BY DEF Counted, SameCopies
<1> QED BY <1>1, <1>2, <1>3 DEF Counted

\* A step that MessageDelivery does not see.
LEMMA RefQuiet ==
  ASSUME CountedInv, Untold,
         \A m \in Notifications : SameStatus(m) /\ SameDue(m) /\ StartsNone(m)
  PROVE  CountedInv' /\ Maps
<1>1. CountedInv'
  BY CountedKept DEF CountedInv
<1>2. StatusMap' = StatusMap /\ CopiesMap' = CopiesMap /\ DueSet' = DueSet
  BY RowKept, CopiesAfter, DueKept DEF StartsNone
<1> QED BY <1>1, <1>2, AsStutter

\* A task is queued.
LEMMA RefQueue ==
  ASSUME TypeOK, CountedInv, NEW n \in Notifications, NEW t \in Tasks, NEW new,
         SetTask(n, t, new), new.pc = "queued",
         UNCHANGED <<row, receipt, callbacks, sweep, sends, lostAcks, active>>,
         \A m \in Notifications : api'[m] = "idle" <=> api[m] = "idle"
  PROVE  CountedInv' /\ Maps
<1>1. \A m \in Notifications : SameStatus(m) /\ SameDue(m) /\ SameCopies(m)
  BY DEF SameStatus, SameDue, Due, DueAfter, SameCopies
<1>2. \A m \in Notifications, u \in Tasks :
        task'[m][u] = task[m][u] \/ task'[m][u].pc \in {"free", "queued"}
  BY TaskAt
<1>3. \A m \in Notifications : StartsNone(m)
  BY <1>1, <1>2 DEF StartsNone
<1> QED BY <1>1, <1>3, RefQuiet DEF Untold

\* The request that creates a message.
LEMMA RefCreate ==
  ASSUME TypeOK, SerialInv, TellInv, CountedInv, NEW n \in Notifications, Create(n)
  PROVE  CountedInv' /\ Maps
<1>a. /\ api[n] # "done" /\ n \notin sweep.left
      /\ \A r \in Receipts : receipt[n][r].pc = "none"
      /\ \A t \in Tasks : task[n][t].pc = "free"
      /\ api[n] \in {"idle", "persisted", "done"}
  BY DEF Create, Persist, Enqueue, EnqueueFails, ApiCrash, SerialInv, Untouched,
     TellInv, ToldInv, Unreported, TypeOK
<1>b. ~Due(n)
  BY <1>a DEF Due
<1>1. ASSUME NEW t \in Tasks, Enqueue(n, t)
      PROVE  CountedInv' /\ Maps
  <2>1. /\ SetTask(n, t, NewTask(0)) /\ NewTask(0).pc = "queued"
        /\ UNCHANGED <<row, receipt, callbacks, sweep, sends, lostAcks, active>>
        /\ \A m \in Notifications : api'[m] = "idle" <=> api[m] = "idle"
    BY <1>1 DEF Enqueue, NewTask, TypeOK
  <2> QED BY <2>1, RefQueue
<1>2. CASE Persist(n) \/ EnqueueFails(n) \/ ApiCrash(n)
  <2>1. /\ UNCHANGED <<task, receipt, callbacks, sweep, sends, lostAcks, active>>
        /\ api'[n] # "idle"
        /\ \A m \in Notifications \ {n} : row'[m] = row[m] /\ api'[m] = api[m]
    BY <1>2, RowAt DEF Persist, EnqueueFails, ApiCrash, SetStatus, TypeOK
  <2>2. /\ \A m \in Notifications \ {n} : SameStatus(m)
        /\ \A m \in Notifications : SameDue(m) /\ SameCopies(m) /\ StartsNone(m)
        /\ Untold
    BY <1>a, <2>1
       DEF SameStatus, SameDue, Due, DueAfter, SameCopies, StartsNone, Untold
  <2>3. CountedInv'
    BY <2>2, CountedKept DEF CountedInv
  <2>4. CopiesMap' = CopiesMap /\ DueSet' = DueSet
    BY <2>2, CopiesAfter, DueKept
  <2>5. CASE Persist(n)
    <3>1. row'[n].status = "created" /\ api[n] = "idle"
      BY <2>5, RowAt DEF Persist, SetStatus, TypeOK, Row
    <3>2. StatusMap' = [StatusMap EXCEPT ![n] = "created"] /\ StatusMap[n] = "unborn"
      BY <2>1, <2>2, <3>1, RowWritten, MapsAt
    <3> QED BY <2>2, <2>3, <2>4, <3>2, AsWrite
  <2>6. CASE EnqueueFails(n)
    <3>1. row'[n].status = Absent /\ api[n] # "idle"
      BY <2>6, RowAt DEF EnqueueFails, NoRow
    <3>2. StatusMap' = [StatusMap EXCEPT ![n] = Absent]
      BY <2>1, <2>2, <3>1, RowWritten
    <3>3. n \notin DueSet
      BY <1>b, MapsAt
    <3>4. StatusMap[n] # "unborn"
      <4>1. row[n].status # "unborn"
        BY DEF TypeOK, Row, NotificationStatuses, Absent
      <4> QED BY <3>1, <4>1, MapsAt
    <3> QED BY <2>2, <2>3, <2>4, <3>2, <3>3, <3>4, AsWrite
  <2>7. CASE ApiCrash(n)
    <3>1. SameStatus(n)
      BY <2>1, <2>7 DEF ApiCrash, SameStatus
    <3> QED BY <2>2, <3>1, RefQuiet
  <2> QED BY <1>2, <2>5, <2>6, <2>7
<1> QED BY <1>1, <1>2 DEF Create

\* A provider reports.
LEMMA RefSendReceipt ==
  ASSUME TypeOK, TellInv, CountedInv, NEW n \in Notifications, NEW r \in Receipts,
         NEW p \in Providers, NEW s, NEW c, SendReceipt(n, r, p, s, c)
  PROVE  CountedInv' /\ Maps
<1> DEFINE new == [pc |-> "transit", provider |-> p, status |-> s, code |-> c]
<1>1. /\ <<n, p>> \in accepted /\ receipt[n][r].pc = "none"
      /\ SetReceipt(n, r, new)
      /\ UNCHANGED <<row, api, task, sweep, callbacks, active, sends, lostAcks>>
  BY DEF SendReceipt
<1>2. new.pc = "transit"
  OBVIOUS
<1> HIDE DEF new
<1>3. sends[n] > 0
  BY <1>1 DEF TellInv, AcceptedSent
<1>4. /\ receipt'[n][r] = new
      /\ \A q \in Receipts \ {r} : receipt'[n][q] = receipt[n][q]
      /\ \A m \in Notifications \ {n} : receipt'[m] = receipt[m]
  BY <1>1, ReceiptAt
<1>5. \A m \in Notifications : SameStatus(m) /\ SameCopies(m) /\ SameDue(m)
  BY <1>1, <1>2, <1>4 DEF SameStatus, SameCopies, SameDue, Due, DueAfter
<1>6. \A m \in Notifications : StartsNone(m)
  BY <1>1, <1>3, <1>4, <1>5 DEF StartsNone
<1> QED BY <1>1, <1>5, <1>6, RefQuiet DEF Untold

\* What surrounds a step of a receipt: the other messages and the tasks stay as they are.
LEMMA ReceiptAlone ==
  ASSUME TypeOK, ~Overlap, SerialInv, TellInv, CountedInv,
         NEW n \in Notifications, NEW r \in Receipts,
         HandleReceipt(n, r) \/ CrashReceipt(n, r)
  PROVE  /\ ToldInv(n) /\ Counted(n) /\ api[n] = "done"
         /\ UNCHANGED <<api, task, sweep, active>>
         /\ \A m \in Notifications : SameCopies(m)
         /\ \A m \in Notifications \ {n} : SameStatus(m) /\ SameDue(m)
         /\ \A m \in Notifications \ {n} : callbacks'[m] = callbacks[m]
         /\ CopiesMap' = CopiesMap
<1>1. ToldInv(n) /\ Counted(n)
  BY DEF TellInv, CountedInv
<1>2. /\ UNCHANGED <<api, task, sweep, active, sends, lostAcks>>
      /\ receipt[n][r].pc # "none"
  BY DEF HandleReceipt, ProcessReceipt, IgnoreReceipt, BillReceipt, TellReceipt, CrashReceipt
<1>3. api[n] = "done"
  BY <1>1, <1>2 DEF ToldInv, Unreported
<1>4. \A m \in Notifications \ {n} : receipt'[m] = receipt[m]
  BY ReceiptAt DEF HandleReceipt, ProcessReceipt, IgnoreReceipt, BillReceipt, TellReceipt,
     CrashReceipt
<1>5. \A m \in Notifications \ {n} : row'[m] = row[m]
  BY RowAt DEF HandleReceipt, ProcessReceipt, IgnoreReceipt, BillReceipt, TellReceipt,
     CrashReceipt
<1>6. \A m \in Notifications \ {n} : callbacks'[m] = callbacks[m]
  BY DEF HandleReceipt, ProcessReceipt, IgnoreReceipt, BillReceipt, TellReceipt,
     CrashReceipt, Tell, TypeOK
<1>7. \A m \in Notifications : SameCopies(m)
  BY <1>2 DEF SameCopies
<1>8. \A m \in Notifications \ {n} : SameStatus(m) /\ SameDue(m)
  BY <1>2, <1>4, <1>5 DEF SameStatus, SameDue, Due, DueAfter
<1> QED BY <1>1, <1>2, <1>3, <1>6, <1>7, <1>8, CopiesAfter

\* The receipts after one of them is written.
LEMMA CountedReceipt ==
  ASSUME TypeOK, ~Overlap, SerialInv, TellInv, CountedInv,
         NEW n \in Notifications, NEW r \in Receipts,
         HandleReceipt(n, r) \/ CrashReceipt(n, r)
  PROVE  CountedInv' /\ \A m \in Notifications : StartsNone(m)
<1>a. /\ UNCHANGED <<api, task, sweep, active>>
      /\ \A m \in Notifications : SameCopies(m)
      /\ \A m \in Notifications \ {n} : SameStatus(m)
  BY ReceiptAlone
<1>1. /\ receipt[n][r].pc # "none"
      /\ \E new : SetReceipt(n, r, new)
  BY DEF HandleReceipt, ProcessReceipt, IgnoreReceipt, BillReceipt, TellReceipt, CrashReceipt
<1>2. \A m \in Notifications, q \in Receipts :
        receipt'[m][q].pc # "none" => receipt[m][q].pc # "none"
  BY <1>1, ReceiptAt
<1>3. \/ row'[n].status = row[n].status
      \/ \A t \in Tasks : task'[n][t].pc \in {"free", "queued"}
  <2>1. CASE ProcessReceipt(n, r)
    BY <1>a, <2>1 DEF ProcessReceipt, MayStart, Idle
  <2>2. CASE BillReceipt(n, r)
    BY <2>2, RowAt DEF BillReceipt, TypeOK, Row
  <2>3. CASE IgnoreReceipt(n, r) \/ TellReceipt(n, r) \/ CrashReceipt(n, r)
    BY <2>3 DEF IgnoreReceipt, TellReceipt, CrashReceipt
  <2> QED BY <2>1, <2>2, <2>3 DEF HandleReceipt
<1>4. \A m \in Notifications : StartsNone(m)
  BY <1>a, <1>2, <1>3 DEF StartsNone, SameStatus
<1> QED BY <1>4, CountedKept DEF CountedInv

\* A receipt writes the row.
LEMMA RefProcess ==
  ASSUME TypeOK, ~Overlap, SerialInv, TellInv, CountedInv,
         NEW n \in Notifications, NEW r \in Receipts, ProcessReceipt(n, r)
  PROVE  Maps
<1>h. HandleReceipt(n, r)
  BY DEF HandleReceipt
<1>a. /\ ToldInv(n) /\ Counted(n) /\ api[n] = "done"
      /\ UNCHANGED <<api, task, sweep, active>>
      /\ \A m \in Notifications : SameCopies(m)
      /\ \A m \in Notifications \ {n} : SameStatus(m) /\ SameDue(m)
      /\ CopiesMap' = CopiesMap
  BY <1>h, ReceiptAlone
<1>t. row[n] \in Row /\ receipt[n][r] \in ReceiptState /\ sends[n] \in Nat
  BY DEF TypeOK
<1> DEFINE new == [receipt[n][r] EXCEPT !.pc = "updated"]
<1>1. /\ Idle(n) /\ row[n].status \in UpdatableStatuses /\ n \notin NoDlr
      /\ UNCHANGED callbacks /\ SetReceipt(n, r, new)
      /\ receipt[n][r].pc = "transit"
  BY DEF ProcessReceipt, MayStart, MayUpdateStatus
<1>2. new.pc = "updated" /\ new.status = receipt[n][r].status
  BY <1>t DEF ReceiptState
<1> HIDE DEF new
<1>3. /\ receipt'[n][r] = new
      /\ \A q \in Receipts \ {r} : receipt'[n][q] = receipt[n][q]
  BY <1>1, ReceiptAt
<1>4. PICK s \in FinalStatuses \cup {"pending"} :
        /\ row'[n].status = s
        /\ s = "pending" <=> receipt[n][r].status = "pending"
  <2> DEFINE rc == receipt[n][r]
             by == IF row[n].sent_by = NoProvider THEN rc.provider ELSE row[n].sent_by
             st == DecideFailure(row[n], by, rc.status, rc.code)
  <2>1. /\ st \in FinalStatuses \cup {"pending"}
        /\ st = "pending" <=> rc.status = "pending"
    BY <1>t DEF DecideFailure, FinalStatuses, ReceiptState, ReportedStatuses, NoCode
  <2>2. row'[n] = ReceiptRow(n, rc)
    BY RowAt DEF ProcessReceipt
  <2>3. row'[n].status = st
    BY <1>t, <2>2 DEF ReceiptRow, Row
  <2> QED BY <2>1, <2>3
<1>5. /\ StatusMap' = [StatusMap EXCEPT ![n] = s]
      /\ StatusMap[n] \in UpdatableStatuses
  BY <1>a, <1>1, <1>4, RowWritten, MapsAt
<1>6. CopiesMap[n] # "none" \/ n \in TestKey
  <2>1. CASE n \notin TestKey
    <3>1. sends[n] # 0
      BY <1>t, <1>a, <1>1, <2>1 DEF Counted
    <3> QED BY <3>1, MapsAt DEF Copies
  <2> QED BY <2>1
<1>7. ~Due(n)
  BY <1>1 DEF Due, Idle
<1>8. DueAfter(n) <=> s # "pending"
  BY <1>a, <1>1, <1>2, <1>3, <1>4 DEF DueAfter, Idle
<1>9. DueSet' = IF s = "pending" THEN DueSet ELSE DueSet \cup {n}
  <2>1. \A m \in Notifications : m \in DueSet' <=> DueAfter(m)
    BY DEF DueSet, Due, DueAfter
  <2>2. \A m \in Notifications : m \in DueSet <=> Due(m)
    BY DEF DueSet
  <2>3. DueSet \subseteq Notifications /\ DueSet' \subseteq Notifications
    BY DEF DueSet
  <2> QED BY <1>a, <1>7, <1>8, <2>1, <2>2, <2>3 DEF SameDue
<1>10. Untold
  BY <1>a, <1>1 DEF Untold
<1> QED BY <1>1, <1>5, <1>6, <1>9, <1>10, <1>a, AsReport

\* The other steps of a receipt.
LEMMA RefReceipt ==
  ASSUME TypeOK, ~Overlap, SerialInv, TellInv, CountedInv,
         NEW n \in Notifications, NEW r \in Receipts,
         HandleReceipt(n, r) \/ CrashReceipt(n, r)
  PROVE  CountedInv' /\ Maps
<1>a. /\ ToldInv(n) /\ Counted(n) /\ api[n] = "done"
      /\ UNCHANGED <<api, task, sweep, active>>
      /\ \A m \in Notifications : SameCopies(m)
      /\ \A m \in Notifications \ {n} : SameStatus(m) /\ SameDue(m)
      /\ \A m \in Notifications \ {n} : callbacks'[m] = callbacks[m]
      /\ CopiesMap' = CopiesMap
  BY ReceiptAlone
<1>k. CountedInv' /\ \A m \in Notifications : StartsNone(m)
  BY CountedReceipt
<1>t. row[n] \in Row /\ receipt[n][r] \in ReceiptState
  BY DEF TypeOK
<1>s. ASSUME row'[n].status = row[n].status
      PROVE  StatusMap' = StatusMap /\ \A m \in Notifications : SameStatus(m)
  <2>1. \A m \in Notifications : SameStatus(m)
    BY <1>a, <1>s DEF SameStatus
  <2> QED BY <2>1, RowKept
<1>d. \A m \in Notifications : (m \in DueSet <=> Due(m)) /\ (m \in DueSet' <=> DueAfter(m))
  BY DEF DueSet, Due, DueAfter
<1>e. DueSet \subseteq Notifications /\ DueSet' \subseteq Notifications
  BY DEF DueSet
<1>1. CASE BillReceipt(n, r)
  <2> DEFINE new == [receipt[n][r] EXCEPT !.pc = "billed"]
  <2>1. /\ receipt[n][r].pc = "updated" /\ UNCHANGED callbacks /\ SetReceipt(n, r, new)
        /\ SetRow(n, [row[n] EXCEPT !.billed = TRUE])
    BY <1>1 DEF BillReceipt
  <2>2. new.pc = "billed" /\ new.status = receipt[n][r].status
    BY <1>t DEF ReceiptState
  <2> HIDE DEF new
  <2>3. /\ receipt'[n][r] = new
        /\ \A q \in Receipts \ {r} : receipt'[n][q] = receipt[n][q]
    BY <2>1, ReceiptAt
  <2>4. row'[n].status = row[n].status
    BY <1>t, <2>1, RowAt DEF Row
  <2>5. SameDue(n)
    BY <1>a, <2>1, <2>2, <2>3 DEF SameDue, Due, DueAfter
  <2>6. Untold
    BY <1>a, <2>1 DEF Untold
  <2> QED BY <1>a, <1>k, <1>s, <2>4, <2>5, <2>6, RefQuiet
<1>2. CASE IgnoreReceipt(n, r)
  <2>1. /\ SetReceipt(n, r, NoReceipt) /\ UNCHANGED <<row, callbacks>>
        /\ receipt[n][r].pc = "transit"
    BY <1>2 DEF IgnoreReceipt
  <2>2. /\ receipt'[n][r] = NoReceipt
        /\ \A q \in Receipts \ {r} : receipt'[n][q] = receipt[n][q]
    BY <2>1, ReceiptAt
  <2>3. SameDue(n)
    BY <1>a, <2>1, <2>2, NoReceiptIdle DEF SameDue, Due, DueAfter
  <2>4. Untold
    BY <1>a, <2>1 DEF Untold
  <2> QED BY <1>a, <1>k, <1>s, <2>1, <2>3, <2>4, RefQuiet
<1>3. ASSUME SetReceipt(n, r, NoReceipt), UNCHANGED row, Handling(n, r)
      PROVE  /\ DueSet' = DueSet \ {n}
             /\ n \in DueSet <=> receipt[n][r].status # "pending"
  <2>1. /\ receipt'[n][r] = NoReceipt
        /\ \A q \in Receipts \ {r} : receipt'[n][q] = receipt[n][q]
    BY <1>3, ReceiptAt
  <2>2. /\ n \notin sweep.left
        /\ \A q \in Receipts : Handling(n, q) => q = r
    BY <1>a, <1>3 DEF ToldInv, HandledAlone
  <2>3. ~DueAfter(n)
    BY <1>a, <2>1, <2>2, NoReceiptIdle DEF DueAfter, Handling
  <2>4. Due(n) <=> receipt[n][r].status # "pending"
    BY <1>3, <2>2 DEF Due, Handling
  <2> QED BY <1>a, <1>d, <1>e, <2>3, <2>4 DEF SameDue
<1>4. CASE TellReceipt(n, r)
  <2>1. Handling(n, r) /\ SetReceipt(n, r, NoReceipt) /\ UNCHANGED row
    BY <1>4 DEF TellReceipt, Handling
  <2>2. /\ StatusMap' = StatusMap /\ DueSet' = DueSet \ {n}
        /\ n \in DueSet <=> receipt[n][r].status # "pending"
    BY <1>s, <1>3, <2>1
  <2>3. CASE receipt[n][r].status = "pending"
    <3>1. Untold
      BY <1>a, <1>4, <2>3 DEF TellReceipt, Untold
    <3>2. DueSet' = DueSet
      BY <2>2, <2>3
    <3> QED BY <1>a, <1>k, <2>2, <3>1, <3>2, AsStutter
  <2>4. CASE receipt[n][r].status # "pending"
    <3>1. row[n].status \in FinalStatuses
      BY <1>a, <2>1, <2>4 DEF ToldInv, HandledAlone
    <3>2. Tell(n)
      BY <1>4, <2>4, <3>1, FinalNotUpdatable DEF TellReceipt
    <3>3. StatusMap[n] = row[n].status
      BY <1>a, MapsAt
    <3>4. callbacks' = [callbacks EXCEPT ![n] = Append(@, StatusMap[n])]
      BY <3>2, <3>3 DEF Tell
    <3> QED BY <1>a, <1>k, <2>2, <2>4, <3>4, AsTell
  <2> QED BY <2>3, <2>4
<1>5. CASE CrashReceipt(n, r)
  <2>1. SetReceipt(n, r, NoReceipt) /\ UNCHANGED <<row, callbacks>>
    BY <1>5 DEF CrashReceipt
  <2>2. StatusMap' = StatusMap /\ Untold
    BY <1>a, <1>s, <2>1 DEF Untold
  <2>3. CASE Handling(n, r)
    <3>1. DueSet' = DueSet \ {n}
      BY <1>3, <2>1, <2>3
    <3> QED BY <1>a, <1>k, <2>2, <3>1, AsForget
  <2>4. CASE ~Handling(n, r)
    <3>1. /\ receipt'[n][r] = NoReceipt
          /\ \A q \in Receipts \ {r} : receipt'[n][q] = receipt[n][q]
      BY <2>1, ReceiptAt
    <3>2. SameDue(n)
      BY <1>a, <2>4, <3>1, NoReceiptIdle DEF SameDue, Due, DueAfter, Handling
    <3>3. DueSet' = DueSet
      BY <1>a, <3>2, DueKept
    <3> QED BY <1>a, <1>k, <2>2, <3>3, AsStutter
  <2> QED BY <2>3, <2>4
<1> QED BY <1>1, <1>2, <1>4, <1>5, <1>k, RefProcess DEF HandleReceipt

\* The scheduled jobs.
LEMMA RefScheduled ==
  ASSUME TypeOK, ~Overlap, SerialInv, TellInv, CountedInv, Scheduled
  PROVE  CountedInv' /\ Maps
<1>m. /\ \A m \in Notifications : ToldInv(m) /\ MessageInv(m) /\ Counted(m)
      /\ \A m \in Notifications : row[m] \in Row
      /\ sweep.left \subseteq Notifications
  BY DEF TellInv, SerialInv, MessageInv, CountedInv, TypeOK
<1>d. \A m \in Notifications : (m \in DueSet <=> Due(m)) /\ (m \in DueSet' <=> DueAfter(m))
  BY DEF DueSet, Due, DueAfter
<1>e. DueSet \subseteq Notifications /\ DueSet' \subseteq Notifications
  BY DEF DueSet
<1>q. ASSUME UNCHANGED <<task, receipt, sends, lostAcks>>,
             \A m \in Notifications : \/ row'[m].status = row[m].status
                                      \/ \A t \in Tasks : ~Running(m, t)
      PROVE  /\ CountedInv' /\ CopiesMap' = CopiesMap
             /\ \A m \in Notifications : StartsNone(m)
  <2>1. \A m \in Notifications : SameCopies(m) /\ StartsNone(m)
    BY <1>q DEF SameCopies, StartsNone, Running
  <2> QED BY <2>1, CountedKept, CopiesAfter DEF CountedInv
<1>1. ASSUME UNCHANGED <<row, api, task, receipt, callbacks, sends, lostAcks, active>>,
             UNCHANGED sweep \/ (sweep.pc # "telling" /\ sweep'.pc # "telling")
      PROVE  CountedInv' /\ Maps
  <2>1. \A m \in Notifications : SameStatus(m) /\ SameDue(m)
    BY <1>1 DEF SameStatus, SameDue, Due, DueAfter
  <2> QED BY <1>1, <1>q, <2>1, RefQuiet DEF Untold
<1>2. ASSUME NEW n \in Notifications, NEW t \in Tasks, ReplayEnqueue(n, t)
      PROVE  CountedInv' /\ Maps
  <2>1. /\ SetTask(n, t, NewTask(0)) /\ NewTask(0).pc = "queued"
        /\ UNCHANGED <<row, receipt, callbacks, sweep, sends, lostAcks, active>>
        /\ \A m \in Notifications : api'[m] = "idle" <=> api[m] = "idle"
    BY <1>2 DEF ReplayEnqueue, NewTask
  <2> QED BY <2>1, RefQueue
<1>3. ASSUME NEW n \in Notifications, ReplayFails(n)
      PROVE  CountedInv' /\ Maps
  <2>1. /\ Idle(n) /\ n \in replaying /\ SetRow(n, NoRow)
        /\ UNCHANGED <<api, task, receipt, callbacks, sweep, sends, lostAcks, active>>
    BY <1>3 DEF ReplayFails, MayStart
  <2>2. row'[n] = NoRow /\ \A m \in Notifications \ {n} : row'[m] = row[m]
    BY <2>1, RowAt
  <2>3. row'[n].status = Absent
    BY <2>2 DEF NoRow
  <2>4. api[n] = "done"
    BY <1>m, <2>1 DEF MessageInv, Untouched
  <2>5. CountedInv' /\ CopiesMap' = CopiesMap
    BY <1>q, <2>1, <2>2 DEF Idle, Running
  <2>6. \A m \in Notifications : SameDue(m)
    BY <2>1 DEF SameDue, Due, DueAfter
  <2>7. DueSet' = DueSet
    BY <2>6, DueKept
  <2>8. n \notin DueSet
    BY <1>d, <2>1 DEF Idle, Due
  <2>9. StatusMap' = [StatusMap EXCEPT ![n] = Absent]
    BY <2>1, <2>2, <2>3, <2>4, RowWritten DEF SameStatus
  <2>10. StatusMap[n] # "unborn"
    <3>1. row[n].status # "unborn"
      BY DEF TypeOK, Row, NotificationStatuses, Absent
    <3> QED BY <2>4, <3>1, MapsAt
  <2>11. Untold
    BY <2>1 DEF Untold
  <2> QED BY <2>5, <2>7, <2>8, <2>9, <2>10, <2>11, AsWrite
<1>4. CASE TimeoutUpdate
  <2>1. /\ UNCHANGED <<api, task, receipt, callbacks, sends, lostAcks, active>>
        /\ sweep'.left = sweep.left /\ sweep'.pc = "telling" /\ sweep.pc = "selected"
        /\ \A m \in sweep.left : row[m].status \in InFlightStatuses
    BY <1>m, <1>4 DEF TimeoutUpdate, MessageInv, SweptInFlight, TypeOK
  <2>2. \A m \in sweep.left : row'[m].status = "temporary-failure" /\ api[m] = "done"
    BY <1>m, <1>4, <2>1, FinalNotUpdatable DEF TimeoutUpdate, Row, MessageInv, Untouched
  <2>3. \A m \in Notifications \ sweep.left : row'[m] = row[m]
    BY <1>4 DEF TimeoutUpdate
  <2>4. CountedInv' /\ CopiesMap' = CopiesMap
    <3>1. \A m \in Notifications : \/ row'[m].status = row[m].status
                                   \/ \A t \in Tasks : ~Running(m, t)
      BY <1>m, <2>3 DEF MessageInv, RunnerNotSwept
    <3> QED BY <1>q, <2>1, <3>1
  <2>5. StatusMap' = [n \in Notifications |->
                        IF n \in sweep.left THEN "temporary-failure" ELSE StatusMap[n]]
    <3>1. /\ \A m \in Notifications \ sweep.left : SameStatus(m)
          /\ \A m \in sweep.left : api'[m] # "idle" /\ row'[m].status = "temporary-failure"
          /\ sweep.left \in SUBSET Notifications
      BY <1>m, <2>1, <2>2, <2>3 DEF SameStatus
    <3> QED BY <3>1, StatusAfter
  <2>6. \A m \in sweep.left : StatusMap[m] \in InFlightStatuses
    BY <1>m, <2>1, <2>2, MapsAt
  <2>7. DueSet' = DueSet \cup sweep.left
    <3>1. \A m \in Notifications : DueAfter(m) <=> Due(m) \/ m \in sweep.left
      BY <2>1 DEF Due, DueAfter
    <3> QED BY <1>m, <1>d, <1>e, <3>1
  <2>8. Untold
    BY <2>1 DEF Untold
  <2> QED BY <1>m, <2>4, <2>5, <2>6, <2>7, <2>8, AsTimeOut
<1>t. ASSUME UNCHANGED <<row, api, task, receipt, sends, lostAcks, active>>,
             NEW N \in SUBSET sweep.left, sweep'.left = sweep.left \ N,
             sweep'.left # {} => sweep'.pc = sweep.pc
      PROVE  /\ CountedInv' /\ CopiesMap' = CopiesMap
             /\ StatusMap' = StatusMap /\ DueSet' = DueSet \ N
  <2>1. CountedInv' /\ CopiesMap' = CopiesMap
    BY <1>q, <1>t
  <2>2. \A m \in Notifications : SameStatus(m)
    BY <1>t DEF SameStatus
  <2>3. \A m \in N : \A r \in Receipts : ~Handling(m, r)
    BY <1>m DEF ToldInv, HandledAlone
  <2>4. \A m \in N : ~DueAfter(m)
    BY <1>t, <2>3 DEF DueAfter, Handling
  <2>5. \A m \in Notifications \ N : DueAfter(m) <=> Due(m)
    BY <1>t DEF Due, DueAfter
  <2>6. DueSet' = DueSet \ N
    BY <1>m, <1>d, <1>e, <2>4, <2>5
  <2> QED BY <2>1, <2>2, <2>6, RowKept
<1>5. CASE TimeoutCrash
  <2>1. /\ UNCHANGED <<row, api, task, receipt, callbacks, sends, lostAcks, active>>
        /\ sweep'.left = {}
    BY <1>5 DEF TimeoutCrash, NoSweep
  <2>2. /\ CountedInv' /\ CopiesMap' = CopiesMap
        /\ StatusMap' = StatusMap /\ DueSet' = DueSet \ sweep.left
    BY <1>t, <2>1
  <2> QED BY <1>m, <2>1, <2>2, AsForget DEF Untold
<1>6. ASSUME NEW n \in Notifications, TimeoutTell(n)
      PROVE  CountedInv' /\ Maps
  <2>1. /\ UNCHANGED <<row, api, task, receipt, sends, lostAcks, active>>
        /\ n \in sweep.left /\ sweep.pc = "telling"
    BY <1>6 DEF TimeoutTell
  <2>2. row[n].status = "temporary-failure"
    BY <1>m, <2>1 DEF ToldInv, SweptUntold
  <2>3. sweep' = SweepWithout(n) /\ Tell(n)
    BY <1>6, <2>2 DEF TimeoutTell, Absent
  <2>4. sweep'.left = sweep.left \ {n} /\ (sweep'.left # {} => sweep'.pc = sweep.pc)
    BY <2>1, <2>3 DEF SweepWithout, NoSweep, TypeOK
  <2>5. /\ CountedInv' /\ CopiesMap' = CopiesMap
        /\ StatusMap' = StatusMap /\ DueSet' = DueSet \ {n}
    BY <1>t, <2>1, <2>4
  <2>6. n \in DueSet
    BY <1>d, <2>1 DEF Due
  <2>7. StatusMap[n] = row[n].status
    <3>1. api[n] = "done"
      BY <1>m, <2>1 DEF MessageInv, Untouched
    <3> QED BY <3>1, MapsAt
  <2>8. callbacks' = [callbacks EXCEPT ![n] = Append(@, StatusMap[n])]
    BY <2>3, <2>7 DEF Tell
  <2> QED BY <2>1, <2>5, <2>6, <2>8, AsTell
<1>7. CASE ArchiveService
  <2>1. /\ UNCHANGED <<row, api, task, receipt, callbacks, sweep, sends, lostAcks>>
        /\ active' = FALSE
    BY <1>7 DEF ArchiveService
  <2>2. CountedInv' /\ CopiesMap' = CopiesMap
    BY <1>q, <2>1
  <2>3. \A m \in Notifications : SameStatus(m) /\ SameDue(m)
    BY <2>1 DEF SameStatus, SameDue, Due, DueAfter
  <2>4. StatusMap' = StatusMap /\ DueSet' = DueSet
    BY <2>3, RowKept, DueKept
  <2>5. Delivery!ArchiveService
    BY <2>1, <2>2, <2>4 DEF Delivery!ArchiveService, StatusMap, CopiesMap, DueSet
  <2> QED BY <2>2, <2>5 DEF Maps, Delivery!Next
<1>8. CASE TimeoutSelect
  <2>1. /\ UNCHANGED <<row, api, task, receipt, callbacks, sends, lostAcks, active>>
        /\ sweep.pc = "idle" /\ sweep'.pc = "selected"
    BY <1>8 DEF TimeoutSelect
  <2> QED BY <1>1, <2>1
<1>9. ASSUME ReplaySelect \/ \E n \in Notifications : Age(n)
      PROVE  CountedInv' /\ Maps
  <2>1. UNCHANGED <<row, api, task, receipt, callbacks, sends, lostAcks, active, sweep>>
    BY <1>9 DEF ReplaySelect, Age
  <2> QED BY <1>1, <2>1
<1> QED BY <1>2, <1>3, <1>4, <1>5, <1>6, <1>7, <1>8, <1>9 DEF Scheduled, Timeout

\* Every step of the texts is one of MessageDelivery, or none that it sees.
LEMMA RefStep ==
  ASSUME TypeOK, ~Overlap, SerialInv, TellInv, CountedInv, [Next]_vars
  PROVE  CountedInv' /\ Maps
<1>1. CASE UNCHANGED vars
  <2>1. UNCHANGED <<row, api, task, sends, lostAcks, receipt, sweep, callbacks, active>>
    BY <1>1 DEF vars
  <2>2. \A m \in Notifications : SameStatus(m) /\ SameDue(m) /\ SameCopies(m)
    BY <2>1 DEF SameStatus, SameDue, Due, DueAfter, SameCopies
  <2>3. \A m \in Notifications : StartsNone(m)
    BY <2>1, <2>2 DEF StartsNone
  <2> QED BY <2>1, <2>2, <2>3, RefQuiet DEF Untold
<1>2. ASSUME NEW n \in Notifications, NEW t \in Tasks, NEW u \in Tasks, Redeliver(n, t, u)
      PROVE  CountedInv' /\ Maps
  <2>1. /\ SetTask(n, u, task[n][t]) /\ task[n][t].pc = "queued"
        /\ UNCHANGED <<row, receipt, callbacks, sweep, sends, lostAcks, active>>
        /\ \A m \in Notifications : api'[m] = "idle" <=> api[m] = "idle"
    BY <1>2 DEF Redeliver
  <2> QED BY <2>1, RefQueue
<1>3. CASE Next
  BY <1>2, <1>3, RefCreate, RefTask, RefSendReceipt, RefReceipt, RefScheduled DEF Next
<1> QED BY <1>1, <1>3

LEMMA RefInit ==
  ASSUME Init
  PROVE  CountedInv /\ Delivery!Init
<1>1. /\ \A n \in Notifications :
           /\ sends[n] = 0 /\ lostAcks[n] = 0 /\ api[n] = "idle"
           /\ \A t \in Tasks : task[n][t].pc = "free"
           /\ \A r \in Receipts : receipt[n][r].pc = "none"
      /\ sweep.left = {} /\ active = TRUE
      /\ callbacks = [n \in Notifications |-> << >>]
  BY NoReceiptIdle, Freed DEF Init, NoSweep
<1>2. CountedInv
  BY <1>1 DEF CountedInv, Counted
<1>3. /\ StatusMap = [n \in Notifications |-> "unborn"]
      /\ CopiesMap = [n \in Notifications |-> "none"]
      /\ DueSet = {}
  BY <1>1 DEF StatusMap, RowStatus, CopiesMap, Copies, DueSet, Due
<1>4. Delivery!Init
  BY <1>1, <1>3, SameNames DEF Delivery!Init, StatusMap, CopiesMap, DueSet
<1> QED BY <1>2, <1>4

\* SmsDelivery implements MessageDelivery: for any numbers of messages, tasks, providers,
\* receipts, retries and faults, what deliver_sms, the receipts, the replay and the timeout
\* do to a row and to the service's callbacks is what MessageDelivery allows.
THEOREM DeliveryImplemented == ~Overlap => (Spec => ImplementsDelivery)
<1> SUFFICES ASSUME ~Overlap PROVE Spec => ImplementsDelivery
  OBVIOUS
<1>1. Init => CountedInv /\ Delivery!Init
  BY RefInit
<1>2. TypeOK /\ (~Overlap => SerialInv /\ TellInv) /\ CountedInv /\ [Next]_vars
        => CountedInv' /\ Maps
  BY RefStep
<1>3. Maps => [Delivery!Next]_(Delivery!vars)
  BY DEF Maps
<1>4. Spec => Delivery!Init /\ [][Delivery!Next]_(Delivery!vars)
  BY <1>1, <1>2, <1>3, TellAlways, PTL DEF Spec
<1> QED BY <1>4 DEF ImplementsDelivery, Delivery!Spec

\* So the row of a text says what the provider and the service know of it: `sending' only
\* if a provider said it has the text, `delivered' only if one has it, no text known to
\* be at a provider twice, and what the service was told is one final status, the one in
\* the row, whether the delivery receipt or the timeout comes first.
THEOREM HonestRows == Spec => []RowIsHonest
<1>1. CASE Overlap
  <2>1. RowIsHonest
    BY <1>1 DEF RowIsHonest
  <2> QED BY <2>1, PTL
<1>2. CASE ~Overlap
  <2>1. Spec => []Delivery!Honest
    BY <1>2, DeliveryImplemented, Delivery!HonestAlways DEF ImplementsDelivery
  <2>2. Delivery!Honest => RowIsHonest
    BY DEF RowIsHonest
  <2> QED BY <2>1, <2>2, PTL
<1> QED BY <1>1, <1>2

\* Types hold, and rows are honest; and, however handlers overlap, a live text that a
\* provider took is billed, unless the answer was lost or its task has still to write
\* the units.
THEOREM TextRight == Spec => []TextInv
<1>1. BilledInv => AcceptedIsBilled
  BY DEF BilledInv, Paid, AcceptedIsBilled
<1> QED BY <1>1, TypeCorrect, BilledAlways, HonestRows, PTL DEF TextInv
=============================================================================
