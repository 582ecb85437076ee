-------------------------- MODULE MessageDelivery --------------------------
(***************************************************************************)
(* What the delivery of texts and emails promises, without the tasks,      *)
(* retries, queues and sessions that bring it about.  A provider is given  *)
(* a message once, and again only if its answer to every earlier copy was  *)
(* lost.  A row says that a message is on its way only if a provider has   *)
(* said so.  A final status is replaced in two cases alone: the service    *)
(* was archived, or the row is deleted.  The service is told of a message  *)
(* once, and what it is told is what the row says.                         *)
(*                                                                         *)
(* SmsDelivery and EmailDelivery implement this module as long as two      *)
(* handlers of the same message do not run at the same time.               *)
(***************************************************************************)
EXTENDS NotificationStatus, Sequences, TLAPS

CONSTANTS
  Messages,   \* ids of the messages
  TestKey,    \* the ones made with a test API key
  Abroad,     \* the ones that `sent' is the last word about
  NoReports   \* the ones whose status no report or failure changes

Unborn == "unborn"   \* the row is not persisted yet

VARIABLES
  status,  \* the status in the row
  copies,  \* what providers have: none, out (one copy that they said they have),
           \* lost (copies they did not) or twice (more than one they said)
  due,     \* messages whose new status the service is about to be told
  told,    \* what the service was told of each message
  active   \* is the service active?

vars == <<status, copies, due, told, active>>

Init ==
  /\ status \in [Messages -> {Unborn, "created"}]
  /\ copies = [n \in Messages |-> "none"]
  /\ due = {}
  /\ told = [n \in Messages |-> << >>]
  /\ active = TRUE

Write(n, s) == status' = [status EXCEPT ![n] = s]

Persist(n) ==
  /\ status[n] = Unborn
  /\ Write(n, "created")
  /\ UNCHANGED <<copies, due, told, active>>

\* A provider takes a live message, and says so.
HandOver(n) ==
  /\ status[n] = "created" /\ n \notin TestKey /\ copies[n] # "out"
  /\ copies' = [copies EXCEPT ![n] = "out"]
  /\ UNCHANGED <<status, due, told, active>>

\* It has the message, but the answer is lost before the row says so.
LoseAnswer(n) ==
  /\ status[n] = "created" /\ n \notin TestKey
  /\ copies' = [copies EXCEPT ![n] = "lost"]
  /\ UNCHANGED <<status, due, told, active>>

\* The row says that the message is on its way.
Record(n) ==
  /\ status[n] = "created" /\ (copies[n] = "out" \/ n \in TestKey)
  /\ Write(n, IF n \in Abroad THEN "sent" ELSE "sending")
  /\ UNCHANGED <<copies, due, told, active>>

\* A provider that has the message reports on it.
Report(n, s) ==
  /\ status[n] \in UpdatableStatuses /\ n \notin NoReports
  /\ copies[n] # "none" \/ n \in TestKey
  /\ s \in FinalStatuses \cup {"pending"}
  /\ Write(n, s)
  /\ due' = IF s = "pending" THEN due ELSE due \cup {n}
  /\ UNCHANGED <<copies, told, active>>

\* Retries are over: never for a live message that a provider is known to have.
GiveUp(n) ==
  /\ \/ status[n] = "created" /\ copies[n] # "out"
     \/ status[n] \in UpdatableStatuses /\ n \in TestKey
  /\ n \notin NoReports
  /\ Write(n, "technical-failure")
  /\ UNCHANGED <<copies, due, told, active>>

\* A task runs for an archived service: any status is overwritten.
Refuse(n) ==
  /\ ~active /\ status[n] \notin {Unborn, Absent} /\ n \notin due
  /\ Write(n, "technical-failure")
  /\ UNCHANGED <<copies, due, told, active>>

\* The queue refuses the message: the row is deleted.
Discard(n) ==
  /\ status[n] # Unborn /\ n \notin due
  /\ Write(n, Absent)
  /\ UNCHANGED <<copies, due, told, active>>

\* Messages that stayed in flight for days.
TimeOut(N) ==
  /\ \A n \in N : status[n] \in InFlightStatuses
  /\ status' = [n \in Messages |->
                  IF n \in N THEN "temporary-failure" ELSE status[n]]
  /\ due' = due \cup N
  /\ UNCHANGED <<copies, told, active>>

Tell(n) ==
  /\ n \in due
  /\ told' = [told EXCEPT ![n] = Append(@, status[n])]
  /\ due' = due \ {n}
  /\ UNCHANGED <<status, copies, active>>

\* A worker dies, or a queue refuses: the service is not told.
Forget(N) ==
  /\ due' = due \ N
  /\ UNCHANGED <<status, copies, told, active>>

ArchiveService ==
  /\ active' = FALSE
  /\ UNCHANGED <<status, copies, due, told>>

Next ==
  \/ \E n \in Messages :
       \/ Persist(n) \/ HandOver(n) \/ LoseAnswer(n) \/ Record(n)
       \/ GiveUp(n) \/ Refuse(n) \/ Discard(n) \/ Tell(n)
       \/ \E s \in NotificationStatuses : Report(n, s)
  \/ \E N \in SUBSET Messages : TimeOut(N) \/ Forget(N)
  \/ ArchiveService

Spec == Init /\ [][Next]_vars

-----------------------------------------------------------------------------
\* What follows for a message: the row says sending or sent only if a provider is
\* known to have the message, pending or delivered only if one has it; a test
\* message is at no provider, and no message is known to be at one twice; the
\* service is told once, a final status, which is the one in the row unless the
\* service is archived or the row deleted.
HonestAbout(n) ==
  /\ n \in TestKey => copies[n] = "none"
  /\ copies[n] # "twice"
  /\ status[n] \in {"sending", "sent"} => copies[n] = "out" \/ n \in TestKey
  /\ status[n] \in {"pending", "delivered"} => copies[n] # "none" \/ n \in TestKey
  /\ n \in due => status[n] \in FinalStatuses /\ told[n] = << >>
  /\ \/ told[n] = << >>
     \/ /\ status[n] \in FinalStatuses /\ told[n] = <<status[n]>>
     \/ /\ status[n] = Absent \/ (~active /\ status[n] = "technical-failure")
        /\ \E s \in FinalStatuses : told[n] = <<s>>

Honest == \A n \in Messages : HonestAbout(n)

\* Every variable keeps its type.
TypeOK ==
  /\ status \in [Messages -> NotificationStatuses \cup {Unborn, Absent}]
  /\ copies \in [Messages -> {"none", "out", "lost"}]
  /\ due \subseteq Messages
  /\ told \in [Messages -> Seq(NotificationStatuses)]
  /\ active \in BOOLEAN

\* Typed steps: the statuses written are statuses, and what is told is one of them.
LEMMA TypeStep ==
  ASSUME TypeOK, Honest, [Next]_vars
  PROVE  TypeOK'
<1> USE DEF TypeOK, NotificationStatuses, FinalStatuses
<1>1. CASE UNCHANGED vars
  BY <1>1 DEF vars
<1>2. ASSUME NEW n \in Messages,
             \/ Persist(n) \/ Record(n) \/ GiveUp(n) \/ Refuse(n) \/ Discard(n)
             \/ \E s \in NotificationStatuses : Report(n, s)
      PROVE  TypeOK'
  BY <1>2 DEF Persist, Record, GiveUp, Refuse, Discard, Report, Write
<1>3. ASSUME NEW n \in Messages, HandOver(n) \/ LoseAnswer(n)
      PROVE  TypeOK'
  BY <1>3 DEF HandOver, LoseAnswer
<1>4. ASSUME NEW n \in Messages, Tell(n)
      PROVE  TypeOK'
  <2>1. status[n] \in NotificationStatuses
    BY <1>4 DEF Tell, Honest, HonestAbout
  <2>2. Append(told[n], status[n]) \in Seq(NotificationStatuses)
    BY <2>1
  <2> QED BY <1>4, <2>2 DEF Tell
<1>5. ASSUME NEW N \in SUBSET Messages, TimeOut(N) \/ Forget(N)
      PROVE  TypeOK'
  BY <1>5 DEF TimeOut, Forget
<1>6. CASE ArchiveService
  BY <1>6 DEF ArchiveService
<1> QED BY <1>1, <1>2, <1>3, <1>4, <1>5, <1>6 DEF Next

\* A step that leaves a message alone.
LEMMA HonestFrame ==
  ASSUME NEW m, HonestAbout(m), status'[m] = status[m], copies'[m] = copies[m],
         told'[m] = told[m], m \in due' => m \in due, active' => active
  PROVE  HonestAbout(m)'
  BY DEF HonestAbout

\* A step writes the row of one message, and what it writes is honest.
LEMMA HonestWrite ==
  ASSUME TypeOK, Honest, NEW n \in Messages,
         \/ Persist(n) \/ Record(n) \/ GiveUp(n) \/ Refuse(n) \/ Discard(n)
         \/ \E s \in NotificationStatuses : Report(n, s)
  PROVE  Honest'
<1>1. \A m \in Messages \ {n} : /\ status'[m] = status[m] /\ (m \in due' => m \in due)
  BY DEF TypeOK, Persist, Record, GiveUp, Refuse, Discard, Report, Write
<1>2. UNCHANGED <<copies, told, active>>
  BY DEF Persist, Record, GiveUp, Refuse, Discard, Report
<1>3. ASSUME NEW m \in Messages \ {n} PROVE HonestAbout(m)'
  <2>1. HonestAbout(m) /\ status'[m] = status[m] /\ (m \in due' => m \in due)
    BY <1>1 DEF Honest
  <2>2. active' => active
    BY <1>2
  <2> QED BY <1>2, <2>1, <2>2, HonestFrame
<1>4. HonestAbout(n)'
  <2> USE DEF HonestAbout, Write, TypeOK, Honest
  <2>1. CASE Persist(n)
    BY <2>1 DEF Persist, Unborn, Absent, FinalStatuses
  <2>2. CASE Record(n)
    BY <2>2 DEF Record, Absent, FinalStatuses
  <2>3. CASE GiveUp(n)
    BY <2>3 DEF GiveUp, Absent, FinalStatuses, UpdatableStatuses
  <2>4. CASE Refuse(n)
    BY <2>4 DEF Refuse, FinalStatuses
  <2>5. CASE Discard(n)
    BY <2>5 DEF Discard, Absent, FinalStatuses
  <2>6. ASSUME NEW s \in NotificationStatuses, Report(n, s)
        PROVE  HonestAbout(n)'
    BY <2>6 DEF Report, FinalStatuses, UpdatableStatuses, Absent
  <2> QED BY <2>1, <2>2, <2>3, <2>4, <2>5, <2>6
<1> QED BY <1>3, <1>4 DEF Honest

LEMMA HonestStep ==
  ASSUME TypeOK, Honest, [Next]_vars
  PROVE  Honest'
<1>1. CASE UNCHANGED vars
  BY <1>1, HonestFrame DEF vars, Honest
<1>2. ASSUME NEW n \in Messages, HandOver(n) \/ LoseAnswer(n)
      PROVE  Honest'
  BY <1>2 DEF HandOver, LoseAnswer, Honest, HonestAbout, TypeOK, FinalStatuses, Absent
<1>3. ASSUME NEW n \in Messages, Tell(n)
      PROVE  Honest'
  <2>1. \A m \in Messages \ {n} : HonestAbout(m)'
    BY <1>3, HonestFrame DEF Tell, TypeOK, Honest
  <2>2. status[n] \in FinalStatuses /\ told[n] = << >>
    BY <1>3 DEF Tell, Honest, HonestAbout
  <2>3. told'[n] = <<status[n]>>
    BY <1>3, <2>2 DEF Tell, TypeOK
  <2>4. HonestAbout(n)'
    BY <1>3, <2>2, <2>3 DEF Tell, Honest, HonestAbout
  <2> QED BY <2>1, <2>4 DEF Honest
<1>4. ASSUME NEW N \in SUBSET Messages, TimeOut(N)
      PROVE  Honest'
  <2> SUFFICES ASSUME NEW m \in Messages PROVE HonestAbout(m)'
    BY DEF Honest
  <2>1. CASE m \notin N
    BY <1>4, <2>1, HonestFrame DEF TimeOut, Honest
  <2>2. CASE m \in N
    BY <1>4, <2>2 DEF TimeOut, Honest, HonestAbout, InFlightStatuses, FinalStatuses, Absent
  <2> QED BY <2>1, <2>2
<1>5. ASSUME NEW N \in SUBSET Messages, Forget(N)
      PROVE  Honest'
  BY <1>5, HonestFrame DEF Forget, Honest
<1>6. CASE ArchiveService
  BY <1>6, HonestFrame DEF ArchiveService, Honest
<1> QED BY <1>1, <1>2, <1>3, <1>4, <1>5, <1>6, HonestWrite DEF Next

\* Whatever implements MessageDelivery keeps rows honest: no row says sending without
\* a provider that said it has the message, and what the service was told is what
\* the row says, whichever tasks, reports and timeouts brought it there.
THEOREM HonestAlways == Spec => []Honest
<1>1. Init => TypeOK /\ Honest
  BY DEF Init, TypeOK, Honest, HonestAbout, Unborn, NotificationStatuses, FinalStatuses, Absent
<1>2. TypeOK /\ Honest /\ [Next]_vars => (TypeOK /\ Honest)'
  BY TypeStep, HonestStep
<1> QED BY <1>1, <1>2, PTL DEF Spec
=============================================================================
