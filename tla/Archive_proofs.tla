--------------------------- MODULE Archive_proofs ---------------------------
(***************************************************************************)
(* The tables `notifications' and `notification_history' with the nightly  *)
(* tasks implement NotificationStore, for any notifications, periods and   *)
(* batch sizes; and what is archived is not on its way, the facts and the  *)
(* bills of a day end up right, and the PDFs of letters go with their rows, *)
(* each but for what the properties name.  The first needs what the sweeps *)
(* hold (StoreInv), the others what holds between the tasks of the nights  *)
(* (NightInv).                                                             *)
(***************************************************************************)
EXTENDS Archive, FiniteSetTheorems, TLAPS

\* The groups of variables, and what any write to a live row does.
USE DEF Pdfs, Marks, Write

Status == NotificationStatuses \cup {Absent}
RowMaps == UNION {[B -> NotificationStatuses] : B \in SUBSET Notifications}
Sweeps == [pc : {"idle", "queued", "clean", "selected", "test"}, rows : RowMaps]

\* The rows a sweep has selected are live, none is a test notification, and only those
\* written to since then have another status than they were selected with.
RowsLive(t) ==
  /\ DOMAIN sweep[t].rows # {} => sweep[t].pc = "selected"
  /\ \A n \in DOMAIN sweep[t].rows :
       /\ n \in OfType(t) \ TestKey /\ live[n] # Absent
       /\ live[n] = sweep[t].rows[n] \/ n \in raced

\* Test notifications are deleted, never archived; the timeout and the facts of a night
\* come before its sweeps and after those of the night before.
StoreInv ==
  /\ live \in [Notifications -> Status] /\ history \in [Notifications -> Status]
  /\ sweep \in [Types -> Sweeps] /\ raced \subseteq Notifications
  /\ OneHome
  /\ \A n \in TestKey : history[n] = Absent
  /\ phase # "day" => \A t \in Types : ~Sweeping(t)
  /\ \A t \in Types : RowsLive(t)

LEMMA StatusFacts ==
  /\ Absent \notin NotificationStatuses
  /\ {"created", "sending", "sent", "pending", "delivered", "technical-failure",
      "temporary-failure", "validation-failed", "virus-scan-failed",
      "pending-virus-check", "returned-letter"} \subseteq NotificationStatuses
BY DEF Absent, NotificationStatuses

LEMMA NoRowsType == NoRows \in RowMaps /\ DOMAIN NoRows = {} /\ IdleSweep \in Sweeps
<1>1. NoRows \in [{} -> NotificationStatuses] /\ {} \in SUBSET Notifications
  BY DEF NoRows
<1>2. NoRows \in RowMaps
  BY <1>1 DEF RowMaps
<1> QED
  BY <1>1, <1>2 DEF IdleSweep, Sweeps, NoRows

\* A row belongs to one type.
LEMMA OneType ==
  ASSUME ArchiveAssumption, NEW n \in Notifications, NEW t \in Types, n \in OfType(t)
  PROVE  TypeOf(n) = t
BY DEF ArchiveAssumption, Notifications, Types, OfType, TypeOf

LEMMA AllTimeOf ==
  ASSUME NEW n \in Notifications
  PROVE  /\ AllTime[n] = IF live[n] # Absent THEN live[n] ELSE history[n]
         /\ AllTime'[n] = IF live'[n] # Absent THEN live'[n] ELSE history'[n]
BY DEF AllTime

LEMMA InitHolds == ArchiveAssumption /\ Init => StoreInv /\ Store!Init
<1> SUFFICES ASSUME ArchiveAssumption, Init PROVE StoreInv /\ Store!Init
  OBVIOUS
<1>1. \A n \in Notifications : live[n] = Absent /\ history[n] = Absent
  BY DEF Init
<1>2. live \in [Notifications -> Status] /\ history \in [Notifications -> Status]
  BY DEF Init, Status
<1>3. sweep \in [Types -> Sweeps] /\ \A t \in Types : sweep[t] = IdleSweep
  BY NoRowsType DEF Init
<1>4. \A t \in Types : DOMAIN sweep[t].rows = {}
  BY <1>3, NoRowsType DEF IdleSweep
<1>5. StoreInv
  BY <1>1, <1>2, <1>3, <1>4 DEF Init, StoreInv, OneHome, RowsLive, ArchiveAssumption
<1>6. AllTime = [n \in Notifications |-> Absent]
  BY <1>1 DEF AllTime
<1> QED
  BY <1>5, <1>6 DEF Init, Store!Init

\* A write to a live row: the store changes one record.
LEMMA LiveWrite ==
  ASSUME ArchiveAssumption, StoreInv, NEW n \in Notifications,
         NEW s \in NotificationStatuses, live[n] # Absent,
         live' = [live EXCEPT ![n] = s], Race(n),
         UNCHANGED <<history, phase, sweep>>
  PROVE  StoreInv' /\ Store!Change(n, s)
<1>1. live' \in [Notifications -> Status] /\ raced' \in SUBSET Notifications
  BY DEF StoreInv, Race, Status
<1>2. /\ live'[n] = s /\ s # Absent /\ history[n] = Absent
      /\ \A m \in Notifications \ {n} : live'[m] = live[m]
  BY StatusFacts DEF StoreInv, OneHome
<1>3. OneHome'
  BY <1>2 DEF StoreInv, OneHome
<1>4. raced \subseteq raced' /\ raced' \in {raced, raced \cup {n}}
  BY DEF Race
<1>5. ASSUME NEW t \in Types PROVE RowsLive(t)'
  <2>1. RowsLive(t) /\ OfType(t) \subseteq Notifications
    BY DEF StoreInv, OfType, Notifications
  <2>2. ASSUME NEW m \in DOMAIN sweep[t].rows
        PROVE  live'[m] # Absent /\ (live'[m] = sweep[t].rows[m] \/ m \in raced')
    <3>1. CASE m = n
      <4>1. TypeOf(n) = t
        BY <2>1, <2>2, <3>1, OneType DEF RowsLive
      <4>2. Sweeping(t)
        BY <2>1, <2>2 DEF RowsLive, Sweeping
      <4> QED
        BY <1>2, <3>1, <4>1, <4>2 DEF Race
    <3>2. CASE m # n
      BY <1>2, <1>4, <2>1, <2>2, <3>2 DEF RowsLive
    <3> QED
      BY <3>1, <3>2
  <2> QED
    BY <2>1, <2>2 DEF RowsLive
<1>6. StoreInv'
  BY <1>1, <1>3, <1>5 DEF StoreInv, Sweeping
<1>7. AllTime[n] # Absent /\ AllTime' = [AllTime EXCEPT ![n] = s]
  BY <1>2 DEF AllTime
<1> QED
  BY <1>2, <1>4, <1>6, <1>7 DEF Store!Change

LEMMA CreateStep ==
  ASSUME ArchiveAssumption, StoreInv, NEW n \in Notifications, Create(n)
  PROVE  StoreInv' /\ \E s \in NotificationStatuses : Store!Accept(n, s)
<1>0. PICK s \in Starts(n) : live' = [live EXCEPT ![n] = s]
  BY DEF Create
<1>1. s \in NotificationStatuses /\ s # Absent
  <2>1. s \in {"created", "sending", "delivered", "validation-failed", "technical-failure",
               "virus-scan-failed", "pending-virus-check"}
    BY DEF Starts
  <2> QED
    BY <2>1, StatusFacts
<1>2. /\ live' = [live EXCEPT ![n] = s] /\ UNCHANGED <<history, phase, sweep, raced>>
      /\ AllTime[n] = Absent
  BY <1>0 DEF Create
<1>3. live[n] = Absent /\ history[n] = Absent
  BY <1>2, AllTimeOf
<1>4. /\ live' \in [Notifications -> Status] /\ live'[n] = s
      /\ \A m \in Notifications \ {n} : live'[m] = live[m]
  BY <1>1, <1>2 DEF StoreInv, Status
<1>5. OneHome'
  BY <1>2, <1>3, <1>4 DEF StoreInv, OneHome
<1>6. ASSUME NEW t \in Types PROVE RowsLive(t)'
  <2>1. RowsLive(t) /\ OfType(t) \subseteq Notifications
    BY DEF StoreInv, OfType, Notifications
  <2>2. n \notin DOMAIN sweep[t].rows
    BY <1>3, <2>1 DEF RowsLive
  <2> QED
    BY <1>2, <1>4, <2>1, <2>2 DEF RowsLive
<1>7. StoreInv'
  BY <1>2, <1>4, <1>5, <1>6 DEF StoreInv, Sweeping
<1>8. AllTime' = [AllTime EXCEPT ![n] = s]
  BY <1>1, <1>2, <1>3, <1>4 DEF AllTime
<1> QED
  BY <1>1, <1>2, <1>7, <1>8 DEF Store!Accept

LEMMA ReturnedStep ==
  ASSUME ArchiveAssumption, StoreInv, NEW n \in Notifications, Returned(n)
  PROVE  StoreInv' /\ Store!Change(n, "returned-letter")
<1> DEFINE s == "returned-letter"
<1>1. s \in NotificationStatuses /\ s # Absent /\ "delivered" # Absent
  BY StatusFacts
<1>2. /\ n \notin TestKey /\ AllTime[n] = "delivered" /\ Race(n)
      /\ UNCHANGED <<phase, sweep>>
  BY DEF Returned
<1>3. CASE live[n] # Absent
  BY <1>1, <1>2, <1>3, LiveWrite DEF Returned, UpdateByReference
<1>4. CASE live[n] = Absent
  <2>1. history' = [history EXCEPT ![n] = s] /\ UNCHANGED live
    BY <1>4 DEF Returned, UpdateByReference
  <2>2. /\ history' \in [Notifications -> Status] /\ history'[n] = s
        /\ \A m \in Notifications \ {n} : history'[m] = history[m]
    BY <1>1, <2>1 DEF StoreInv, Status
  <2>3. raced' \in SUBSET Notifications /\ raced \subseteq raced'
        /\ raced' \in {raced, raced \cup {n}}
    BY <1>2 DEF Race, StoreInv
  <2>4. OneHome' /\ \A m \in TestKey : history'[m] = Absent
    BY <1>2, <1>4, <2>1, <2>2 DEF StoreInv, OneHome, ArchiveAssumption
  <2>5. ASSUME NEW t \in Types PROVE RowsLive(t)'
    BY <1>2, <2>1, <2>3 DEF StoreInv, RowsLive
  <2>6. StoreInv'
    BY <1>2, <2>1, <2>2, <2>3, <2>4, <2>5 DEF StoreInv, Sweeping
  <2>7. AllTime' = [AllTime EXCEPT ![n] = s]
    BY <1>4, <2>1, <2>2 DEF AllTime
  <2> QED
    BY <1>1, <1>2, <2>3, <2>6, <2>7 DEF Store!Change
<1> QED
  BY <1>3, <1>4

\* The timeout runs when nothing is swept, on texts that are live and on their way.
LEMMA TimeoutStep ==
  ASSUME ArchiveAssumption, StoreInv, TimeoutNotifications
  PROVE  StoreInv' /\ \E N \in SUBSET Notifications : Store!TimeOut(N)
<1> DEFINE N == {n \in Notifications : TimedOut(n)}
<1>1. /\ live' = [n \in Notifications |->
                    IF TimedOut(n) THEN "temporary-failure" ELSE live[n]]
      /\ UNCHANGED <<history, sweep, raced>>
      /\ \A t \in Types : ~Sweeping(t)
  BY DEF TimeoutNotifications, StoreInv
<1>2. \A n \in N : live[n] \in InFlightStatuses /\ live[n] # Absent /\ history[n] = Absent
  BY StatusFacts DEF TimedOut, StoreInv, OneHome, InFlightStatuses
<1>3. live' \in [Notifications -> Status] /\ OneHome'
  BY <1>1, <1>2, StatusFacts DEF StoreInv, Status, OneHome
<1>4. \A t \in Types : DOMAIN sweep[t].rows = {}
  BY <1>1 DEF StoreInv, RowsLive, Sweeping
<1>5. StoreInv'
  BY <1>1, <1>3, <1>4 DEF StoreInv, RowsLive, Sweeping
<1>6. \A n \in N : AllTime[n] \in {"sending", "pending"}
  BY <1>2 DEF AllTime, InFlightStatuses
<1>7. AllTime' = [n \in Notifications |->
                   IF n \in N THEN "temporary-failure" ELSE AllTime[n]]
  BY <1>1, <1>2, StatusFacts DEF AllTime
<1> QED
  BY <1>1, <1>5, <1>6, <1>7 DEF Store!TimeOut

\* A step that writes no notification: the store stutters.
LEMMA QuietStep ==
  ASSUME StoreInv, UNCHANGED <<Tables, raced>>, sweep' \in [Types -> Sweeps],
         \A t \in Types : RowsLive(t)',
         phase' # "day" => \A t \in Types : ~Sweeping(t)'
  PROVE  StoreInv' /\ UNCHANGED Store!vars
<1>1. StoreInv'
  BY DEF StoreInv, Tables, OneHome
<1>2. AllTime' = AllTime
  BY DEF AllTime, Tables
<1> QED
  BY <1>1, <1>2 DEF Store!vars

\* The other tasks of the night, with the sweeps as they were.
LEMMA TaskStep ==
  ASSUME StoreInv, UNCHANGED <<Tables, raced, sweep>>,
         \/ phase' \in {phase, "day"}
         \/ phase # "day"
         \/ \A t \in Types : ~Sweeping(t)
  PROVE  StoreInv' /\ UNCHANGED Store!vars
<1>1. \A t \in Types : RowsLive(t)'
  BY DEF StoreInv, RowsLive, Tables
<1>2. phase' # "day" => \A t \in Types : ~Sweeping(t)'
  BY DEF StoreInv, Sweeping
<1> QED
  BY <1>1, <1>2, QuietStep DEF StoreInv

\* A sweep that goes on, with the rows it then has.
LEMMA SweepStep ==
  ASSUME StoreInv, NEW t \in Types, NEW s \in Sweeps, UNCHANGED <<Tables, raced, phase>>,
         Sweeping(t), sweep' = [sweep EXCEPT ![t] = s],
         DOMAIN s.rows # {} => s.pc = "selected",
         \A n \in DOMAIN s.rows : n \in OfType(t) \ TestKey /\ live[n] # Absent
                                  /\ live[n] = s.rows[n]
  PROVE  StoreInv' /\ UNCHANGED Store!vars
<1>1. /\ sweep' \in [Types -> Sweeps] /\ sweep'[t] = s
      /\ \A u \in Types \ {t} : sweep'[u] = sweep[u]
  BY DEF StoreInv
<1>2. ASSUME NEW u \in Types PROVE RowsLive(u)'
  <2>1. CASE u = t
    BY <1>1, <2>1 DEF RowsLive, Tables
  <2>2. CASE u # t
    BY <1>1, <2>2 DEF RowsLive, StoreInv, Tables
  <2> QED
    BY <2>1, <2>2
<1>3. phase' = "day"
  BY DEF StoreInv
<1> QED
  BY <1>1, <1>2, <1>3, QuietStep

LEMMA StartStep ==
  ASSUME StoreInv, StartSweeps
  PROVE  StoreInv' /\ UNCHANGED Store!vars
<1> DEFINE s(t) == [IdleSweep EXCEPT !.pc = IF t = "letter" THEN "queued" ELSE "clean"]
<1>1. \A t \in Types : s(t) \in Sweeps /\ s(t).rows = NoRows
  BY NoRowsType DEF IdleSweep, Sweeps
<1>2. sweep' = [t \in Types |-> s(t)]
  BY DEF StartSweeps
<1>3. sweep' \in [Types -> Sweeps] /\ \A t \in Types : DOMAIN sweep'[t].rows = {}
  BY <1>1, <1>2, NoRowsType
<1>4. UNCHANGED <<Tables, raced>> /\ phase' = "day"
  BY DEF StartSweeps
<1>5. \A t \in Types : RowsLive(t)'
  BY <1>3 DEF RowsLive
<1> QED
  BY <1>3, <1>4, <1>5, QuietStep

LEMMA DeleteLettersStep ==
  ASSUME StoreInv, DeleteLettersFromS3
  PROVE  StoreInv' /\ UNCHANGED Store!vars
<1> DEFINE s == [sweep["letter"] EXCEPT !.pc = "clean"]
<1>1. /\ sweep["letter"].pc = "queued" /\ sweep' = [sweep EXCEPT !["letter"] = s]
      /\ UNCHANGED <<Tables, raced, phase>> /\ "letter" \in Types
  BY DEF DeleteLettersFromS3, StoreInv, Types
<1>2. sweep["letter"] \in Sweeps /\ DOMAIN sweep["letter"].rows = {}
  BY <1>1 DEF StoreInv, RowsLive
<1>3. s \in Sweeps /\ s.rows = sweep["letter"].rows
  BY <1>2 DEF Sweeps
<1>4. Sweeping("letter")
  BY <1>1 DEF Sweeping
<1> HIDE DEF s
<1> QED
  BY <1>1, <1>2, <1>3, <1>4, SweepStep

\* Selected are expired rows of the type, no test notifications.
LEMMA SelectStep ==
  ASSUME ArchiveAssumption, StoreInv, NEW t \in Types, SelectRows(t)
  PROVE  StoreInv' /\ UNCHANGED Store!vars
<1>1. PICK B \in SUBSET {n \in OfType(t) : Archivable(n)} :
        sweep' = [sweep EXCEPT ![t] = [pc |-> "selected", rows |-> Restrict(live, B)]]
  BY DEF SelectRows, Batches
<1> DEFINE rows == Restrict(live, B)
           s == [pc |-> "selected", rows |-> rows]
<1>2. \A n \in B : n \in OfType(t) \ TestKey /\ n \in Notifications /\ live[n] # Absent
  BY DEF Archivable, Expired, OfType, Notifications
<1>3. rows = [n \in B |-> live[n]]
  BY DEF Restrict
<1>4. rows \in [B -> NotificationStatuses] /\ B \in SUBSET Notifications
  BY <1>2, <1>3 DEF StoreInv, Status
<1>5. rows \in RowMaps
  BY <1>4 DEF RowMaps
<1>6. s \in Sweeps
  BY <1>5 DEF Sweeps
<1>7. UNCHANGED <<Tables, raced, phase>> /\ Sweeping(t)
  BY DEF SelectRows, Sweeping
<1>8. \A n \in DOMAIN rows : n \in OfType(t) \ TestKey /\ live[n] # Absent
                             /\ live[n] = rows[n]
  BY <1>2, <1>3
<1>9. sweep' = [sweep EXCEPT ![t] = s] /\ s.pc = "selected" /\ s.rows = rows
  BY <1>1
<1> HIDE DEF s, rows
<1> QED
  BY <1>6, <1>7, <1>8, <1>9, SweepStep

LEMMA FailStep ==
  ASSUME StoreInv, NEW t \in Types, SweepFails(t)
  PROVE  StoreInv' /\ UNCHANGED Store!vars
<1>1. /\ Sweeping(t) /\ sweep' = [sweep EXCEPT ![t] = IdleSweep]
      /\ UNCHANGED <<Tables, raced, phase>>
  BY DEF SweepFails
<1>2. IdleSweep \in Sweeps /\ DOMAIN IdleSweep.rows = {}
  BY NoRowsType DEF IdleSweep
<1> QED
  BY <1>1, <1>2, SweepStep

\* The rows leave one table for the other in one transaction: the record of a row
\* changes only if it was written to since it was selected.
LEMMA ArchiveStep ==
  ASSUME ArchiveAssumption, StoreInv, NEW t \in Types, ArchiveRows(t)
  PROVE  StoreInv' /\ Store!Archive
<1> DEFINE rows == sweep[t].rows
           R == DOMAIN rows
<1>1. /\ sweep[t].pc = "selected" /\ UNCHANGED <<phase, raced>>
      /\ sweep' = [sweep EXCEPT ![t] = [pc |-> NextTask(t), rows |-> NoRows]]
      /\ history' = [n \in Notifications |->
                       IF n \in R /\ history[n] = Absent THEN rows[n] ELSE history[n]]
      /\ live' = [n \in Notifications |-> IF n \in R THEN Absent ELSE live[n]]
  BY DEF ArchiveRows, MoveRows
<1>2. rows \in RowMaps /\ RowsLive(t)
  BY DEF StoreInv, Sweeps
<1>3. \A n \in R : /\ n \in Notifications \ TestKey /\ rows[n] \in NotificationStatuses
                   /\ n \in OfType(t) /\ live[n] # Absent /\ history[n] = Absent
                   /\ live[n] = rows[n] \/ n \in raced
  BY <1>2 DEF RowMaps, RowsLive, StoreInv, OneHome
<1>4. \A n \in Notifications :
        /\ n \in R => live'[n] = Absent /\ history'[n] = rows[n]
        /\ n \notin R => live'[n] = live[n] /\ history'[n] = history[n]
  BY <1>1, <1>3
<1>5. live' \in [Notifications -> Status] /\ history' \in [Notifications -> Status]
  BY <1>1, <1>3 DEF StoreInv, Status
<1>6. OneHome' /\ \A n \in TestKey : history'[n] = Absent
  BY <1>3, <1>4 DEF StoreInv, OneHome, ArchiveAssumption
<1>7. /\ sweep' \in [Types -> Sweeps] /\ sweep'[t].rows = NoRows
      /\ \A u \in Types \ {t} : sweep'[u] = sweep[u]
  <2>1. [pc |-> NextTask(t), rows |-> NoRows] \in Sweeps
    BY NoRowsType DEF Sweeps, NextTask
  <2> QED
    BY <1>1, <2>1 DEF StoreInv
<1>8. ASSUME NEW u \in Types PROVE RowsLive(u)'
  <2>1. CASE u = t
    BY <1>7, <2>1, NoRowsType DEF RowsLive
  <2>2. CASE u # t
    <3>1. RowsLive(u) /\ OfType(u) \cap OfType(t) = {} /\ OfType(u) \subseteq Notifications
      BY <2>2 DEF StoreInv, Types, OfType, ArchiveAssumption, Notifications
    <3>2. \A n \in DOMAIN sweep[u].rows : n \notin R /\ n \in Notifications
      BY <1>3, <3>1 DEF RowsLive
    <3> QED
      BY <1>1, <1>4, <1>7, <2>2, <3>1, <3>2 DEF RowsLive
  <2> QED
    BY <2>1, <2>2
<1>9. StoreInv'
  <2>1. phase' = "day"
    BY <1>1 DEF StoreInv, Sweeping
  <2> QED
    BY <1>1, <1>5, <1>6, <1>7, <1>8, <2>1 DEF StoreInv
<1>10. \A n \in Notifications :
         /\ n \in R => AllTime[n] = live[n] /\ AllTime'[n] = rows[n]
         /\ n \notin R => AllTime'[n] = AllTime[n]
  BY <1>3, <1>4, AllTimeOf
<1>11. AllTime' \in [Notifications -> Status]
  BY <1>5 DEF AllTime
<1>12. \A n \in Notifications : /\ AllTime'[n] # AllTime[n] => n \in raced
                                /\ AllTime'[n] = Absent <=> AllTime[n] = Absent
  BY <1>3, <1>10, StatusFacts
<1> QED
  BY <1>1, <1>9, <1>11, <1>12 DEF Store!Archive, Status

\* Only test notifications are deleted, and they are not in the history.
LEMMA DeleteTestStep ==
  ASSUME ArchiveAssumption, StoreInv, NEW t \in Types, DeleteTestRows(t)
  PROVE  StoreInv' /\ \E N \in SUBSET Notifications : Store!Purge(N)
<1>1. PICK B \in SUBSET {n \in OfType(t) \cap TestKey : Expired(n)} :
        live' = [n \in Notifications |-> IF n \in B THEN Absent ELSE live[n]]
  BY DEF DeleteTestRows, Batches
<1>2. B \subseteq TestKey /\ B \subseteq Notifications
  BY DEF ArchiveAssumption
<1>3. /\ sweep[t].pc = "test" /\ UNCHANGED <<history, phase, raced>>
      /\ sweep' = sweep \/ sweep' = [sweep EXCEPT ![t] = IdleSweep]
  BY DEF DeleteTestRows
<1>4. live' \in [Notifications -> Status] /\ OneHome'
  BY <1>1, <1>3 DEF StoreInv, OneHome, Status
<1>5. /\ sweep' \in [Types -> Sweeps]
      /\ \A u \in Types : sweep'[u] = sweep[u] \/ sweep'[u] = IdleSweep
  BY <1>3, NoRowsType DEF StoreInv
<1>6. ASSUME NEW u \in Types PROVE RowsLive(u)'
  <2>1. CASE sweep'[u] = IdleSweep
    BY <2>1, NoRowsType DEF RowsLive, IdleSweep
  <2>2. CASE sweep'[u] = sweep[u]
    <3>1. RowsLive(u) /\ OfType(u) \subseteq Notifications
      BY DEF StoreInv, OfType, Notifications
    <3>2. \A n \in DOMAIN sweep[u].rows : live'[n] = live[n]
      BY <1>1, <1>2, <3>1 DEF RowsLive
    <3> QED
      BY <1>3, <2>2, <3>1, <3>2 DEF RowsLive
  <2> QED
    BY <1>5, <2>1, <2>2
<1>7. phase' = "day"
  BY <1>3 DEF StoreInv, Sweeping
<1>8. StoreInv'
  BY <1>3, <1>4, <1>5, <1>6, <1>7 DEF StoreInv
<1>9. AllTime' = [n \in Notifications |-> IF n \in B THEN Absent ELSE AllTime[n]]
  BY <1>1, <1>2, <1>3 DEF AllTime, StoreInv
<1> QED
  BY <1>2, <1>3, <1>8, <1>9 DEF Store!Purge

\* Every step of the tables keeps the invariant and is a step of the store, or none.
LEMMA StepHolds ==
  ASSUME ArchiveAssumption, StoreInv, [Next]_vars
  PROVE  StoreInv' /\ [Store!Next]_(Store!vars)
<1>1. ASSUME NEW n \in Notifications, Create(n)
      PROVE  StoreInv' /\ Store!Next
  BY <1>1, CreateStep DEF Store!Next
<1>2. ASSUME NEW n \in Notifications, Send(n) \/ Receipt(n) \/ LetterCallback(n)
      PROVE  StoreInv' /\ Store!Next
  <2>1. PICK s \in {"sending", "sent", "pending", "delivered", "technical-failure"} :
          Write(n, s)
    BY <1>2 DEF Send, Receipt, LetterCallback
  <2>2. live[n] # Absent
    BY <1>2, StatusFacts DEF Send, Receipt, LetterCallback, UpdatableStatuses, Absent
  <2>3. s \in NotificationStatuses
    BY StatusFacts
  <2> QED
    BY <2>1, <2>2, <2>3, LiveWrite DEF Store!Next
<1>3. ASSUME NEW n \in Notifications, Returned(n)
      PROVE  StoreInv' /\ Store!Next
  BY <1>3, ReturnedStep, StatusFacts DEF Store!Next
<1>4. CASE NewDay
  BY <1>4, TaskStep DEF NewDay
<1>5. CASE Miss
  BY <1>5, TaskStep DEF Miss
<1>6. CASE TimeoutNotifications
  BY <1>6, TimeoutStep DEF Store!Next
<1>7. CASE CreateNightlyBilling \/ CreateNightlyStatus \/ UpdateBillingForToday
  BY <1>7, TaskStep DEF CreateNightlyBilling, CreateNightlyStatus, UpdateBillingForToday
<1>8. CASE StartSweeps
  BY <1>8, StartStep
<1>9. CASE DeleteLettersFromS3
  BY <1>9, DeleteLettersStep
<1>10. ASSUME NEW t \in Types, SelectRows(t) \/ SweepFails(t)
       PROVE  StoreInv' /\ UNCHANGED Store!vars
  BY <1>10, SelectStep, FailStep
<1>11. ASSUME NEW t \in Types, ArchiveRows(t) \/ DeleteTestRows(t)
       PROVE  StoreInv' /\ Store!Next
  BY <1>11, ArchiveStep, DeleteTestStep DEF Store!Next
<1>12. CASE UNCHANGED vars
  BY <1>12, TaskStep DEF vars, Tables
<1> QED
  BY <1>1, <1>2, <1>3, <1>4, <1>5, <1>6, <1>7, <1>8, <1>9, <1>10, <1>11, <1>12
     DEF Next, Night, Sweep

\* Archiving loses no notification, changes none but one that is written to meanwhile,
\* and only test notifications are deleted: notifications, notification_history and
\* the nightly tasks of app/celery/nightly_tasks.py implement NotificationStore.
THEOREM StoreImplemented == Spec => ImplementsStore
<1>1. ArchiveAssumption
  BY ArchiveAssumption
<1>2. Init => StoreInv /\ Store!Init
  BY <1>1, InitHolds
<1>3. StoreInv /\ [Next]_vars => StoreInv' /\ [Store!Next]_(Store!vars)
  BY <1>1, StepHolds
<1> QED
  BY <1>2, <1>3, PTL DEF Spec, ImplementsStore, Store!Spec

\* No notification is in both tables (insert_notification_history_delete_notifications
\* moves rows in one transaction, and test notifications are never archived).
THEOREM OneHomeHolds == Spec => []OneHome
<1>1. ArchiveAssumption
  BY ArchiveAssumption
<1>2. Init => StoreInv
  BY <1>1, InitHolds
<1>3. StoreInv /\ [Next]_vars => StoreInv'
  BY <1>1, StepHolds
<1>4. StoreInv => OneHome
  BY DEF StoreInv
<1> QED
  BY <1>2, <1>3, <1>4, PTL DEF Spec

-----------------------------------------------------------------------------
(* What a step does to one notification, to a sweep and to the clock.      *)

Phase == {"timeout", "billing", "status", "archive", "day"}

NightTypes ==
  /\ day \in Days /\ phase \in Phase
  /\ created \in [Notifications -> Days] /\ fact \in [Notifications -> Status]
  /\ pdf \subseteq Letters /\ scan \subseteq Letters /\ kept \subseteq Letters
  /\ late \subseteq Texts
  /\ bill \in [(0..LastCreated) \X Groups -> 0..Cardinality(Notifications)]

Kept(n) == live'[n] = live[n] /\ history'[n] = history[n]

LetterStatus == {"sending", "delivered", "technical-failure", "validation-failed",
                 "virus-scan-failed", "pending-virus-check", "returned-letter"}

Made(n) ==
  /\ live[n] = Absent /\ history[n] = Absent /\ fact[n] = Absent
  /\ history'[n] = Absent /\ created'[n] = day
  /\ IF n \in Texts THEN live'[n] = "created" ELSE live'[n] \in LetterStatus
  /\ live'[n] \in {"virus-scan-failed", "pending-virus-check"} => n \in scan'

\* A text is sent, or a receipt is taken in.
Written(n) ==
  /\ n \in Texts /\ live[n] \in UpdatableStatuses
  /\ live'[n] \in {"sending", "sent", "pending", "delivered", "technical-failure"}
  /\ Outlived(n) => n \in late'
  /\ history'[n] = history[n] /\ UNCHANGED <<day, phase>>

\* A callback of the printer.
Settled(n) ==
  /\ n \in Letters /\ live[n] = "sending" /\ live'[n] \in {"delivered", "technical-failure"}
  /\ day < created[n] + LetterFactDays
  /\ Sweeping(TypeOf(n)) => n \in raced'
  /\ history'[n] = history[n]

SentBack(n) ==
  /\ n \in Letters \ TestKey
  /\ Sweeping(TypeOf(n)) => n \in raced'
  /\ \/ live[n] = "delivered" /\ live'[n] = "returned-letter" /\ history'[n] = history[n]
     \/ live[n] = Absent /\ live'[n] = Absent
        /\ history[n] = "delivered" /\ history'[n] = "returned-letter"

GivenUp(n) ==
  /\ TimedOut(n) /\ phase = "timeout"
  /\ live'[n] = "temporary-failure" /\ history'[n] = history[n]

Archived(n) ==
  \E t \in Types :
    /\ sweep[t].pc = "selected" /\ n \in DOMAIN sweep[t].rows
    /\ n \notin DOMAIN sweep'[t].rows
    /\ live'[n] = Absent /\ history'[n] = sweep[t].rows[n]

\* With its PDF, but for what S3 keeps.
Purged(n) ==
  /\ n \in TestKey /\ live'[n] = Absent /\ history'[n] = history[n]
  /\ n \in pdf' => n \in scan' \cup kept'

\* Day d is past, or today and the night has come to one of the phases.
Past(d, phases) == day > d \/ (day = d /\ phase \in phases)

\* What is marked stays marked.
MarksGrow ==
  /\ raced \subseteq raced' /\ late \subseteq late' /\ missed \subseteq missed'
  /\ scan \subseteq scan' /\ kept \subseteq kept'

LEMMA RowSteps ==
  ASSUME ArchiveAssumption, StoreInv, NightTypes, [Next]_vars, NEW n \in Notifications
  PROVE  /\ \/ /\ \/ Kept(n) \/ Written(n) \/ Settled(n) \/ SentBack(n) \/ GivenUp(n)
                  \/ Archived(n) \/ Purged(n)
               /\ created'[n] = created[n]
            \/ Made(n) /\ UNCHANGED <<day, phase, fact, bill, sweep, missed>>
         /\ MarksGrow
<1>1. ASSUME NEW m \in Notifications, Create(m)
      PROVE  /\ \/ Kept(n) /\ created'[n] = created[n]
                \/ Made(n) /\ UNCHANGED <<day, phase, fact, bill, sweep, missed>>
             /\ MarksGrow
  <2>0. PICK s \in Starts(m) :
          /\ live' = [live EXCEPT ![m] = s]
          /\ scan' = IF s \in LeftInScan THEN scan \cup {m} ELSE scan
    BY <1>1 DEF Create
  <2>1. /\ UNCHANGED <<history, raced, late, kept, missed, day, phase, fact, bill, sweep>>
        /\ AllTime[m] = Absent /\ fact[m] = Absent
        /\ created' = [created EXCEPT ![m] = day]
    BY <1>1 DEF Create, Facts
  <2>5. MarksGrow
    BY <2>0, <2>1 DEF MarksGrow
  <2>6. /\ m \in Texts => s = "created"
        /\ m \notin Texts => s \in LetterStatus
        /\ s \in {"virus-scan-failed", "pending-virus-check"} => s \in LeftInScan
    BY DEF Starts, LetterStatus, LeftInScan
  <2>2. live[m] = Absent /\ history[m] = Absent
    BY <2>1, AllTimeOf
  <2>3. CASE m = n
    <3>2. live'[n] = s /\ created'[n] = day
      BY <2>0, <2>1, <2>3 DEF StoreInv, NightTypes
    <3>3. s \in LeftInScan => n \in scan'
      BY <2>0, <2>3
    <3>1. Made(n)
      BY <2>1, <2>2, <2>3, <2>6, <3>2, <3>3 DEF Made
    <3> QED
      BY <2>1, <2>5, <3>1
  <2>4. CASE m # n
    <3>1. Kept(n) /\ created'[n] = created[n]
      BY <2>0, <2>1, <2>4 DEF Kept, StoreInv, NightTypes
    <3> QED
      BY <2>5, <3>1
  <2> QED
    BY <2>3, <2>4
<1>2. ASSUME NEW m \in Notifications, Send(m) \/ Receipt(m) \/ LetterCallback(m)
      PROVE  /\ Kept(n) \/ Written(n) \/ Settled(n)
             /\ created'[n] = created[n]
             /\ MarksGrow
  <2>1. PICK s \in {"sending", "sent", "pending", "delivered", "technical-failure"} :
          /\ Write(m, s)
          /\ \/ m \in Texts /\ live[m] \in UpdatableStatuses
             \/ /\ m \in Letters /\ live[m] = "sending"
                /\ day < created[m] + LetterFactDays /\ s \in {"delivered", "technical-failure"}
    BY <1>2 DEF Send, Receipt, LetterCallback, UpdatableStatuses
  <2>2. /\ live' = [live EXCEPT ![m] = s] /\ Race(m)
        /\ UNCHANGED <<history, created, missed, scan, kept, day, phase>>
    BY <2>1
  <2>3. /\ MarksGrow /\ (Sweeping(TypeOf(m)) => m \in raced')
        /\ (m \in Texts /\ Outlived(m) => m \in late')
    BY <2>2 DEF Race, MarksGrow
  <2>4. CASE m = n
    <3>1. live'[n] = s
      BY <2>2, <2>4 DEF StoreInv
    <3>2. Written(n) \/ Settled(n)
      BY <2>1, <2>2, <2>3, <2>4, <3>1 DEF Written, Settled
    <3> QED
      BY <2>2, <2>3, <3>2
  <2>5. CASE m # n
    BY <2>2, <2>3, <2>5 DEF Kept, StoreInv
  <2> QED
    BY <2>4, <2>5
<1>3. ASSUME NEW m \in Notifications, Returned(m)
      PROVE  /\ Kept(n) \/ SentBack(n)
             /\ created'[n] = created[n]
             /\ MarksGrow
  <2>1. /\ m \in Letters \ TestKey /\ AllTime[m] = "delivered" /\ Race(m)
        /\ UpdateByReference(m, "returned-letter") /\ UNCHANGED <<created, missed, scan, kept>>
    BY <1>3 DEF Returned
  <2>2. MarksGrow /\ (Sweeping(TypeOf(m)) => m \in raced')
    BY <2>1 DEF Race, MarksGrow
  <2>3. \/ live[m] = "delivered" /\ live' = [live EXCEPT ![m] = "returned-letter"]
           /\ UNCHANGED history
        \/ live[m] = Absent /\ history[m] = "delivered" /\ UNCHANGED live
           /\ history' = [history EXCEPT ![m] = "returned-letter"]
    BY <2>1, AllTimeOf DEF UpdateByReference
  <2>4. CASE m = n
    <3>1. \/ live[n] = "delivered" /\ live'[n] = "returned-letter" /\ history'[n] = history[n]
          \/ live[n] = Absent /\ live'[n] = Absent
             /\ history[n] = "delivered" /\ history'[n] = "returned-letter"
      BY <2>3, <2>4 DEF StoreInv
    <3> QED
      BY <2>1, <2>2, <2>4, <3>1 DEF SentBack
  <2>5. CASE m # n
    BY <2>1, <2>2, <2>3, <2>5 DEF Kept, StoreInv
  <2> QED
    BY <2>4, <2>5
<1>4. CASE TimeoutNotifications
  <2>1. /\ live'[n] = IF TimedOut(n) THEN "temporary-failure" ELSE live[n]
        /\ UNCHANGED <<history, created, raced, late, scan, kept, missed>>
        /\ phase = "timeout"
    BY <1>4 DEF TimeoutNotifications
  <2> QED
    BY <2>1 DEF Kept, GivenUp, MarksGrow
<1>5. ASSUME NEW t \in Types, ArchiveRows(t)
      PROVE  /\ Kept(n) \/ Archived(n)
             /\ created'[n] = created[n]
             /\ MarksGrow
  <2>1. /\ sweep[t].pc = "selected" /\ UNCHANGED <<created, raced, late, scan, kept, missed>>
        /\ sweep' = [sweep EXCEPT ![t] = [pc |-> NextTask(t), rows |-> NoRows]]
        /\ live'[n] = IF n \in DOMAIN sweep[t].rows THEN Absent ELSE live[n]
        /\ history'[n] = IF n \in DOMAIN sweep[t].rows /\ history[n] = Absent
                         THEN sweep[t].rows[n] ELSE history[n]
    BY <1>5 DEF ArchiveRows, MoveRows
  <2>2. n \in DOMAIN sweep[t].rows => history[n] = Absent
    BY DEF StoreInv, RowsLive, OneHome
  <2>3. n \notin DOMAIN sweep'[t].rows
    BY <2>1, NoRowsType DEF StoreInv
  <2> QED
    BY <2>1, <2>2, <2>3 DEF Kept, Archived, MarksGrow
<1>6. ASSUME NEW t \in Types, DeleteTestRows(t)
      PROVE  /\ Kept(n) \/ Purged(n)
             /\ created'[n] = created[n]
             /\ MarksGrow
  <2>1. PICK B \in SUBSET {m \in OfType(t) \cap TestKey : Expired(m)} :
          /\ live' = [m \in Notifications |-> IF m \in B THEN Absent ELSE live[m]]
          /\ DeletePdfs(B)
    BY <1>6 DEF DeleteTestRows, Batches
  <2>2. UNCHANGED <<history, created, raced, late, missed>>
    BY <1>6 DEF DeleteTestRows
  <2>3. PICK F \in SUBSET (B \cap pdf) :
          pdf' = pdf \ (B \ (F \cup scan)) /\ kept' = kept \cup F /\ scan' = scan
    BY <2>1 DEF DeletePdfs
  <2>4. MarksGrow
    BY <2>2, <2>3 DEF MarksGrow
  <2> QED
    BY <2>1, <2>2, <2>3, <2>4 DEF Kept, Purged
<1>7. CASE \/ NewDay \/ Miss \/ CreateNightlyBilling \/ CreateNightlyStatus \/ StartSweeps
           \/ UpdateBillingForToday \/ DeleteLettersFromS3 \/ UNCHANGED vars
           \/ \E t \in Types : SelectRows(t) \/ SweepFails(t)
  <2>1. UNCHANGED <<live, history, created>> /\ MarksGrow
    BY <1>7 DEF NewDay, Miss, Fails, CreateNightlyBilling, CreateNightlyStatus, StartSweeps,
       UpdateBillingForToday, DeleteLettersFromS3, DeletePdfs, SelectRows, SweepFails, vars,
       Tables, MarksGrow
  <2> QED
    BY <2>1 DEF Kept
<1> QED
  BY <1>1, <1>2, <1>3, <1>4, <1>5, <1>6, <1>7 DEF Next, Night, Sweep

\* The rows a sweep has selected.
LEMMA SweepSteps ==
  ASSUME ArchiveAssumption, StoreInv, [Next]_vars, NEW t \in Types
  PROVE  \/ sweep'[t].rows = sweep[t].rows
         \/ DOMAIN sweep'[t].rows = {}
         \/ /\ sweep[t].pc = "clean" /\ phase = "day"
            /\ UNCHANGED <<day, phase, created, live, history, Marks, missed, Pdfs>>
            /\ \A n \in DOMAIN sweep'[t].rows :
                 n \in OfType(t) /\ Archivable(n) /\ sweep'[t].rows[n] = live[n]
<1>1. ASSUME NEW u \in Types, SelectRows(u)
      PROVE  \/ sweep'[t].rows = sweep[t].rows
             \/ /\ sweep[t].pc = "clean" /\ phase = "day"
                /\ UNCHANGED <<day, phase, created, live, history, Marks, missed, Pdfs>>
                /\ \A n \in DOMAIN sweep'[t].rows :
                     n \in OfType(t) /\ Archivable(n) /\ sweep'[t].rows[n] = live[n]
  <2>1. PICK B \in SUBSET {n \in OfType(u) : Archivable(n)} :
          sweep' = [sweep EXCEPT ![u] = [pc |-> "selected", rows |-> Restrict(live, B)]]
    BY <1>1 DEF SelectRows, Batches
  <2>2. /\ sweep[u].pc = "clean" /\ phase = "day"
        /\ UNCHANGED <<day, phase, created, live, history, Marks, missed, Pdfs>>
    BY <1>1 DEF SelectRows, StoreInv, Sweeping, Tables
  <2>3. CASE u = t
    <3>1. sweep'[t].rows = [n \in B |-> live[n]]
      BY <2>1, <2>3 DEF StoreInv, Restrict
    <3> QED
      BY <2>1, <2>2, <2>3, <3>1
  <2>4. CASE u # t
    BY <2>1, <2>4 DEF StoreInv
  <2> QED
    BY <2>3, <2>4
<1>2. ASSUME NEW u \in Types, ArchiveRows(u) \/ DeleteTestRows(u) \/ SweepFails(u)
      PROVE  sweep'[t].rows = sweep[t].rows \/ DOMAIN sweep'[t].rows = {}
  <2>1. \/ sweep' = [sweep EXCEPT ![u] = [pc |-> NextTask(u), rows |-> NoRows]]
        \/ sweep' = [sweep EXCEPT ![u] = IdleSweep]
        \/ sweep' = sweep
    BY <1>2 DEF ArchiveRows, DeleteTestRows, SweepFails
  <2> QED
    BY <2>1, NoRowsType DEF StoreInv, IdleSweep
<1>3. CASE StartSweeps
  <2>1. sweep'[t] = [IdleSweep EXCEPT !.pc = IF t = "letter" THEN "queued" ELSE "clean"]
    BY <1>3 DEF StartSweeps
  <2> QED
    BY <2>1, NoRowsType DEF IdleSweep
<1>4. CASE DeleteLettersFromS3
  <2>1. sweep' = [sweep EXCEPT !["letter"].pc = "clean"]
    BY <1>4 DEF DeleteLettersFromS3
  <2>2. sweep'[t].rows = sweep[t].rows
    BY <2>1 DEF StoreInv, Sweeps
  <2> QED
    BY <2>2
<1>5. CASE \/ \E n \in Notifications : Create(n) \/ Send(n) \/ Receipt(n) \/ LetterCallback(n) \/ Returned(n)
           \/ NewDay \/ Miss \/ TimeoutNotifications \/ CreateNightlyBilling
           \/ CreateNightlyStatus \/ UpdateBillingForToday \/ UNCHANGED vars
  <2>1. UNCHANGED sweep
    BY <1>5 DEF Create, Send, Receipt, LetterCallback, Returned, NewDay, Miss, TimeoutNotifications,
       CreateNightlyBilling, CreateNightlyStatus, UpdateBillingForToday, vars
  <2> QED
    BY <2>1
<1> QED
  BY <1>1, <1>2, <1>3, <1>4, <1>5 DEF Next, Night, Sweep

\* Days and phases: a task of the night that is over has run, or its run has failed.
NightFalls ==
  /\ phase = "day" /\ phase' = "timeout" /\ day < LastDay /\ day' = day + 1
  /\ \A t \in Types : ~Sweeping(t)
  /\ UNCHANGED <<created, live, history, pdf, fact, bill, sweep, raced, late, missed>>

PhaseEnds ==
  /\ day' = day
  /\ \/ phase = "timeout" /\ phase' = "billing"
     \/ phase = "billing" /\ phase' = "status"
     \/ phase = "status" /\ phase' = "archive"
     \/ phase = "archive" /\ phase' = "day"
  /\ phase = "timeout" => TimeoutNotifications \/ "timeout" \in missed'
  /\ phase = "billing" => CreateNightlyBilling \/ "billing" \in missed'
  /\ phase = "status" => CreateNightlyStatus \/ "status" \in missed'

LEMMA Clock ==
  ASSUME NightTypes, [Next]_vars
  PROVE  \/ UNCHANGED <<day, phase>>
         \/ NightFalls
         \/ PhaseEnds
<1>1. CASE NewDay
  BY <1>1 DEF NewDay, NightFalls, Tables, Facts
<1>2. CASE Miss
  <2>1. phase # "day" /\ phase \in missed' /\ phase' = Phases[phase] /\ day' = day
    BY <1>2 DEF Miss, Fails
  <2>2. \/ phase = "timeout" /\ phase' = "billing"
        \/ phase = "billing" /\ phase' = "status"
        \/ phase = "status" /\ phase' = "archive"
        \/ phase = "archive" /\ phase' = "day"
    BY <2>1 DEF NightTypes, Phase, Phases
  <2> QED
    BY <2>1, <2>2 DEF PhaseEnds
<1>3. CASE Night
  BY <1>3 DEF Night, TimeoutNotifications, CreateNightlyBilling, CreateNightlyStatus,
     StartSweeps, PhaseEnds
<1>4. CASE \/ \E n \in Notifications : Create(n) \/ Send(n) \/ Receipt(n) \/ LetterCallback(n) \/ Returned(n)
           \/ UpdateBillingForToday \/ DeleteLettersFromS3
           \/ \E t \in Types : Sweep(t) \/ SweepFails(t)
           \/ UNCHANGED vars
  BY <1>4 DEF Create, Send, Receipt, LetterCallback, Returned, UpdateBillingForToday,
     DeleteLettersFromS3, Sweep, SelectRows, ArchiveRows, DeleteTestRows, SweepFails, vars
<1> QED
  BY <1>1, <1>2, <1>3, <1>4 DEF Next

\* The facts, the bills and the PDFs.
LEMMA FactSteps ==
  ASSUME [Next]_vars
  PROVE  UNCHANGED fact \/ CreateNightlyStatus
BY DEF Next, Create, Send, Receipt, LetterCallback, Returned, NewDay, Miss, Night,
   TimeoutNotifications, CreateNightlyBilling, StartSweeps, UpdateBillingForToday,
   DeleteLettersFromS3, Sweep, SelectRows, ArchiveRows, DeleteTestRows, SweepFails, vars, Facts

LEMMA BillSteps ==
  ASSUME [Next]_vars
  PROVE  UNCHANGED bill \/ CreateNightlyBilling \/ UpdateBillingForToday
BY DEF Next, Create, Send, Receipt, LetterCallback, Returned, NewDay, Miss, Night,
   TimeoutNotifications, CreateNightlyStatus, StartSweeps,
   DeleteLettersFromS3, Sweep, SelectRows, ArchiveRows, DeleteTestRows, SweepFails, vars, Facts

LEMMA PdfSteps ==
  ASSUME [Next]_vars
  PROVE  \/ pdf' \subseteq pdf
         \/ \E n \in Notifications : Create(n) /\ pdf' \subseteq pdf \cup (Letters \cap {n})
<1>1. ASSUME NEW n \in Notifications, Create(n)
      PROVE  pdf' \subseteq pdf \cup (Letters \cap {n})
  BY <1>1 DEF Create
<1>2. CASE \/ \E n \in Notifications : Send(n) \/ Receipt(n) \/ LetterCallback(n) \/ Returned(n)
           \/ NewDay \/ Miss \/ Night \/ UpdateBillingForToday
           \/ DeleteLettersFromS3
           \/ \E t \in Types : Sweep(t) \/ SweepFails(t)
           \/ UNCHANGED vars
  BY <1>2 DEF Send, Receipt, LetterCallback, Returned, NewDay, Miss, Night, TimeoutNotifications,
     CreateNightlyBilling, CreateNightlyStatus, StartSweeps, UpdateBillingForToday,
     DeleteLettersFromS3, DeletePdfs, Sweep, SelectRows, ArchiveRows, DeleteTestRows,
     SweepFails, vars
<1> QED
  BY <1>1, <1>2 DEF Next

LEMMA MarkTypes ==
  ASSUME ArchiveAssumption, NightTypes, [Next]_vars
  PROVE  scan' \subseteq Letters /\ kept' \subseteq Letters /\ late' \subseteq Texts
<1>1. ASSUME NEW n \in Notifications, Create(n)
      PROVE  scan' \subseteq Letters /\ UNCHANGED <<kept, late>>
  <2>1. PICK s \in Starts(n) : scan' = IF s \in LeftInScan THEN scan \cup {n} ELSE scan
    BY <1>1 DEF Create
  <2>2. s \in LeftInScan => n \in Letters
    BY DEF Starts, LeftInScan, Notifications
  <2> QED
    BY <1>1, <2>1, <2>2 DEF Create, NightTypes
<1>2. ASSUME NEW n \in Notifications,
             Send(n) \/ Receipt(n) \/ LetterCallback(n) \/ Returned(n)
      PROVE  late' \subseteq Texts /\ UNCHANGED <<scan, kept>>
  <2>1. Race(n) /\ UNCHANGED <<scan, kept>>
    BY <1>2 DEF Send, Receipt, LetterCallback, Returned
  <2> QED
    BY <2>1 DEF Race, NightTypes
<1>3. ASSUME NEW B \in SUBSET Notifications, DeletePdfs(B)
      PROVE  kept' \subseteq Letters /\ UNCHANGED scan
  BY <1>3 DEF DeletePdfs, NightTypes
<1>4. CASE DeleteLettersFromS3
  <2>1. \E B \in SUBSET Notifications : DeletePdfs(B)
    BY <1>4 DEF DeleteLettersFromS3, Batches, Notifications
  <2> QED
    BY <1>3, <1>4, <2>1 DEF DeleteLettersFromS3, NightTypes
<1>5. ASSUME NEW t \in Types, DeleteTestRows(t)
      PROVE  kept' \subseteq Letters /\ UNCHANGED <<scan, late>>
  <2>1. \E B \in SUBSET Notifications : DeletePdfs(B)
    BY <1>5 DEF DeleteTestRows, Batches, OfType, Notifications
  <2> QED
    BY <1>3, <1>5, <2>1 DEF DeleteTestRows
<1>6. CASE \/ NewDay \/ Miss \/ Night \/ UpdateBillingForToday
           \/ \E t \in Types : SelectRows(t) \/ ArchiveRows(t) \/ SweepFails(t)
           \/ UNCHANGED vars
  BY <1>6 DEF NewDay, Miss, Night, TimeoutNotifications, CreateNightlyBilling,
     CreateNightlyStatus, StartSweeps, UpdateBillingForToday, SelectRows, ArchiveRows,
     SweepFails, vars, NightTypes
<1> QED
  BY <1>1, <1>2, <1>4, <1>5, <1>6 DEF Next, Sweep, NightTypes

-----------------------------------------------------------------------------
(* What holds between the tasks of the nights.                             *)

\* Until a run of the timeout fails, a text is on its way for TimeoutDays days at most,
\* and then until the timeout of the next night, unless it is written to after that;
\* what was selected for the archive was not on its way, and at most a delivered letter
\* has been returned since.
OnTheirWay ==
  "timeout" \notin missed =>
    /\ \A n \in Texts \ late : live[n] \in InFlightStatuses => ~Outlived(n)
    /\ \A t \in Types : \A n \in (DOMAIN sweep[t].rows) \ late :
         /\ sweep[t].rows[n] \notin InFlightStatuses
         /\ \/ live[n] = sweep[t].rows[n]
            \/ n \in Letters /\ sweep[t].rows[n] = "delivered" /\ live[n] = "returned-letter"
    /\ \A n \in Notifications \ late : history[n] \notin InFlightStatuses

\* Selected rows are past the retention.
SelectedOld ==
  \A t \in Types : \A n \in DOMAIN sweep[t].rows : created[n] + Retention < day

\* Until a run fails, a text is counted from the night after its day, so before it is
\* archived, and under its last status when its day is aggregated for the last time.
FactRight ==
  missed = {} =>
    \A n \in Texts \ TestKey :
      /\ Past(created[n] + 1, {"archive", "day"}) /\ AllTime[n] # Absent => fact[n] # Absent
      /\ history[n] # Absent => fact[n] # Absent
      /\ Past(created[n] + TextFactDays, {"archive", "day"}) /\ AllTime[n] # Absent
         /\ n \notin late
           => fact[n] = AllTime[n] /\ fact[n] \notin InFlightStatuses

\* No text of the group and day was written to after its timeout.
NoneLate(d, g) == \A n \in late \ TestKey : Group[n] = g => created[n] # d

\* What was written to late is not made again.
LateExist == \A n \in late \ TestKey : AllTime[n] # Absent

\* Until a run fails, a day that is billed for the last time is billed right.
BillRight ==
  missed = {} =>
    \A d \in 0..LastCreated, g \in Groups :
      Past(d + BillingDays, {"status", "archive", "day"}) /\ Count(d, g) > 0
      /\ NoneLate(d, g)
        => bill[<<d, g>>] = Count(d, g)

\* When a batch has room for all letters, their PDFs go before their rows do: those of
\* the letters that can be selected, that are selected and that are gone are gone, but
\* for those that no deletion can remove.
Lasting == scan \cup kept \cup raced

PdfRight ==
  Cardinality(Letters) <= Limit =>
    \A n \in Letters \ Lasting :
      /\ live[n] = Absent => n \notin pdf
      /\ sweep["letter"].pc = "clean" /\ Archivable(n) => n \notin pdf
      /\ n \in DOMAIN sweep["letter"].rows => n \notin pdf

\* A letter that is not on its way is in a status _delete_letters_from_s3 looks for, or
\* it failed the virus scan.
LetterRight ==
  \A n \in Letters :
    /\ live[n] \in {Absent} \cup LetterStatus
    /\ live[n] = "virus-scan-failed" => n \in scan

NightInv ==
  /\ NightTypes /\ OnTheirWay /\ SelectedOld /\ LateExist /\ LetterRight
  /\ FactRight /\ BillRight /\ PdfRight

-----------------------------------------------------------------------------

\* A count of notifications.
LEMMA CountType ==
  ASSUME ArchiveAssumption, NEW d, NEW g
  PROVE  Count(d, g) \in 0..Cardinality(Notifications)
<1> DEFINE S == {n \in Notifications : Group[n] = g /\ created[n] = d /\ Billable(n)}
<1>1. IsFiniteSet(Notifications) /\ S \in SUBSET Notifications
  BY DEF ArchiveAssumption
<1>2. IsFiniteSet(S) /\ Cardinality(S) <= Cardinality(Notifications)
  BY <1>1, FS_Subset
<1>3. Cardinality(S) \in Nat /\ Cardinality(Notifications) \in Nat
  BY <1>1, <1>2, FS_CardinalityType
<1> HIDE DEF S
<1>4. Cardinality(S) \in 0..Cardinality(Notifications)
  BY <1>2, <1>3
<1> QED
  BY <1>4 DEF Count, S

LEMMA UpsertType ==
  ASSUME ArchiveAssumption, NightTypes, NEW days, UpsertBilling(days)
  PROVE  bill' \in [(0..LastCreated) \X Groups -> 0..Cardinality(Notifications)]
<1>1. \A x \in DOMAIN bill : Count(x[1], x[2]) \in 0..Cardinality(Notifications)
  BY CountType
<1> QED
  BY <1>1 DEF UpsertBilling, NightTypes

LEMMA TypesStep ==
  ASSUME ArchiveAssumption, StoreInv, NightTypes, [Next]_vars
  PROVE  NightTypes'
<1>1. day' \in Days /\ phase' \in Phase
  <2>1. CASE UNCHANGED <<day, phase>>
    BY <2>1 DEF NightTypes
  <2>2. CASE NightFalls
    BY <2>2 DEF NightTypes, NightFalls, Days, Phase, ArchiveAssumption
  <2>3. CASE PhaseEnds
    BY <2>3 DEF NightTypes, PhaseEnds, Phase
  <2> QED
    BY <2>1, <2>2, <2>3, Clock
<1>2. created' \in [Notifications -> Days]
  BY DEF NightTypes, Next, Create, Send, Receipt, LetterCallback, Returned, NewDay, Miss, Night,
     TimeoutNotifications, CreateNightlyBilling, CreateNightlyStatus, StartSweeps,
     UpdateBillingForToday, DeleteLettersFromS3, Sweep, SelectRows, ArchiveRows,
     DeleteTestRows, SweepFails, vars
<1>3. fact' \in [Notifications -> Status]
  <2>1. CASE UNCHANGED fact
    BY <2>1 DEF NightTypes
  <2>2. CASE CreateNightlyStatus
    <3>1. AllTime \in [Notifications -> Status]
      BY DEF AllTime, StoreInv
    <3> QED
      BY <2>2, <3>1 DEF CreateNightlyStatus, NightTypes
  <2> QED
    BY <2>1, <2>2, FactSteps
<1>4. /\ pdf' \subseteq Letters
      /\ scan' \subseteq Letters /\ kept' \subseteq Letters /\ late' \subseteq Texts
  BY PdfSteps, MarkTypes DEF NightTypes
<1>5. bill' \in [(0..LastCreated) \X Groups -> 0..Cardinality(Notifications)]
  <2>1. CASE UNCHANGED bill
    BY <2>1 DEF NightTypes
  <2>2. CASE CreateNightlyBilling
    BY <2>2, UpsertType DEF CreateNightlyBilling
  <2>3. CASE UpdateBillingForToday
    BY <2>3, UpsertType DEF UpdateBillingForToday
  <2> QED
    BY <2>1, <2>2, <2>3, BillSteps
<1> QED
  BY <1>1, <1>2, <1>3, <1>4, <1>5 DEF NightTypes

\* The numbers.
LEMMA DayTypes ==
  ASSUME ArchiveAssumption, NightTypes, NEW n \in Notifications
  PROVE  /\ created[n] \in Nat /\ day \in Nat
         /\ TimeoutDays \in Nat /\ TextFactDays \in Nat \ {0} /\ LetterFactDays \in Nat \ {0}
         /\ BillingDays \in Nat \ {0} /\ Retention \in Nat /\ Retention >= TimeoutDays
         /\ TimeoutDays < TextFactDays /\ TimeoutDays < BillingDays
         /\ LetterFactDays <= BillingDays
BY DEF ArchiveAssumption, NightTypes, Days

LEMMA LetterRightStep ==
  ASSUME ArchiveAssumption, StoreInv, NightTypes, LetterRight, [Next]_vars
  PROVE  LetterRight'
<1> SUFFICES ASSUME NEW n \in Letters
             PROVE  /\ live'[n] \in {Absent} \cup LetterStatus
                    /\ live'[n] = "virus-scan-failed" => n \in scan'
  BY DEF LetterRight
<1>1. n \in Notifications /\ n \notin Texts
  BY DEF Notifications, ArchiveAssumption
<1>2. ~GivenUp(n) /\ ~Written(n)
  BY <1>1 DEF GivenUp, TimedOut, Written
<1>3. /\ \/ Kept(n) \/ Settled(n) \/ SentBack(n) \/ Archived(n) \/ Purged(n)
         \/ Made(n)
      /\ scan \subseteq scan'
  BY <1>1, <1>2, RowSteps DEF MarksGrow
<1>4. live[n] \in {Absent} \cup LetterStatus /\ (live[n] = "virus-scan-failed" => n \in scan)
  BY DEF LetterRight
<1>5. CASE Kept(n)
  BY <1>3, <1>4, <1>5 DEF Kept
<1>6. CASE Made(n)
  BY <1>1, <1>6 DEF Made
<1>7. CASE Settled(n) \/ SentBack(n) \/ Archived(n) \/ Purged(n)
  <2>1. live'[n] \in {Absent, "delivered", "technical-failure", "returned-letter"}
    BY <1>7 DEF Settled, SentBack, Archived, Purged
  <2> QED
    BY <2>1 DEF LetterStatus, Absent
<1> QED
  BY <1>3, <1>5, <1>6, <1>7

\* Selected rows have outlived their timeout.
LEMMA SelectedOutlived ==
  ASSUME ArchiveAssumption, StoreInv, NightTypes, SelectedOld,
         NEW t \in Types, NEW n \in DOMAIN sweep[t].rows
  PROVE  Outlived(n)
<1>1. n \in Notifications /\ phase = "day" /\ created[n] + Retention < day
  BY DEF StoreInv, RowsLive, OfType, Notifications, Sweeping, SelectedOld
<1>2. created[n] + TimeoutDays < day
  BY <1>1, DayTypes
<1> QED
  BY <1>1, <1>2 DEF Outlived

\* A selected row stays what it is, but for a letter that is returned and a text that
\* is written to late.
LEMMA SelectedStep ==
  ASSUME ArchiveAssumption, StoreInv, NightTypes, OnTheirWay, SelectedOld, [Next]_vars,
         "timeout" \notin missed,
         NEW t \in Types, NEW n \in DOMAIN sweep[t].rows, n \in DOMAIN sweep'[t].rows,
         sweep'[t].rows = sweep[t].rows, n \notin late'
  PROVE  /\ sweep'[t].rows[n] \notin InFlightStatuses
         /\ \/ live'[n] = sweep'[t].rows[n]
            \/ n \in Letters /\ sweep'[t].rows[n] = "delivered" /\ live'[n] = "returned-letter"
<1>0. /\ n \in OfType(t) \ TestKey /\ live[n] # Absent /\ n \in Notifications
      /\ Outlived(n)
  BY SelectedOutlived DEF StoreInv, RowsLive, OfType, Notifications
<1>1. /\ n \notin late
      /\ sweep[t].rows[n] \notin InFlightStatuses
      /\ \/ live[n] = sweep[t].rows[n]
         \/ n \in Letters /\ sweep[t].rows[n] = "delivered" /\ live[n] = "returned-letter"
  BY <1>0, RowSteps DEF OnTheirWay, MarksGrow
<1>2. ~Made(n) /\ ~Purged(n)
  BY <1>0 DEF Made, Purged
<1>3. ~Written(n) /\ ~Settled(n) /\ ~GivenUp(n)
  <2>1. ~Written(n)
    BY <1>0 DEF Written
  <2>2. live[n] \notin InFlightStatuses
    BY <1>1 DEF InFlightStatuses
  <2> QED
    BY <2>1, <2>2 DEF Settled, GivenUp, TimedOut, InFlightStatuses
<1>4. ~Archived(n)
  <2> SUFFICES ASSUME Archived(n) PROVE FALSE
    OBVIOUS
  <2>1. PICK u \in Types : n \in DOMAIN sweep[u].rows /\ n \notin DOMAIN sweep'[u].rows
    BY DEF Archived
  <2>2. n \in OfType(u)
    BY <2>1 DEF StoreInv, RowsLive
  <2>3. u = t
    BY <1>0, <2>2, OneType
  <2> QED
    BY <2>1, <2>3
<1>5. Kept(n) \/ SentBack(n)
  BY <1>0, <1>2, <1>3, <1>4, RowSteps
<1>6. CASE Kept(n)
  BY <1>1, <1>6 DEF Kept
<1>7. CASE SentBack(n)
  <2>1. n \in Letters /\ live[n] = "delivered" /\ live'[n] = "returned-letter"
    BY <1>0, <1>7 DEF SentBack
  <2> QED
    BY <1>1, <2>1
<1> QED
  BY <1>5, <1>6, <1>7

LEMMA MissedGrows ==
  ASSUME [Next]_vars
  PROVE  missed \subseteq missed'
BY DEF Next, Create, Send, Receipt, LetterCallback, Returned, NewDay, Miss, Night, Fails,
   TimeoutNotifications, CreateNightlyBilling, CreateNightlyStatus, StartSweeps,
   UpdateBillingForToday, DeleteLettersFromS3, Sweep, SelectRows, ArchiveRows,
   DeleteTestRows, SweepFails, vars

\* The timeout settles what has come to its day.
LEMMA OutlivedStep ==
  ASSUME ArchiveAssumption, StoreInv, NightTypes, OnTheirWay, [Next]_vars,
         "timeout" \notin missed', NEW n \in Texts \ late, live[n] \in InFlightStatuses,
         live'[n] \in InFlightStatuses, created'[n] = created[n]
  PROVE  ~Outlived(n)'
<1>1. n \in Notifications /\ "timeout" \notin missed
  BY MissedGrows DEF Notifications
<1>2. ~Outlived(n)
  BY <1>1 DEF OnTheirWay
<1>3. \/ day <= created[n] + TimeoutDays
      \/ day = created[n] + TimeoutDays + 1 /\ phase = "timeout"
  BY <1>1, <1>2, DayTypes DEF Outlived
<1>4. CASE UNCHANGED <<day, phase>>
  BY <1>2, <1>4 DEF Outlived
<1>5. CASE NightFalls
  <2>1. phase = "day" /\ phase' = "timeout" /\ day' = day + 1
    BY <1>5 DEF NightFalls
  <2>2. day <= created[n] + TimeoutDays
    BY <1>3, <2>1
  <2>3. day' <= created[n] + TimeoutDays \/ created[n] + TimeoutDays + 1 = day'
    BY <1>1, <2>1, <2>2, DayTypes
  <2> QED
    BY <1>1, <2>1, <2>3, DayTypes DEF Outlived
<1>6. CASE PhaseEnds
  <2>1. day' = day /\ (phase = "timeout" => TimeoutNotifications)
    BY <1>6 DEF PhaseEnds
  <2>2. day <= created[n] + TimeoutDays
    <3>1. CASE phase = "timeout"
      <4>1. ~TimedOut(n)
        BY <1>1, <2>1, <3>1 DEF TimeoutNotifications, InFlightStatuses
      <4> QED
        BY <1>1, <4>1, DayTypes DEF TimedOut
    <3> QED
      BY <1>3, <3>1
  <2> QED
    BY <1>1, <2>1, <2>2, DayTypes DEF Outlived
<1> QED
  BY <1>4, <1>5, <1>6, Clock

LEMMA OnTheirWayStep ==
  ASSUME ArchiveAssumption, StoreInv, NightTypes, OnTheirWay, SelectedOld, LetterRight,
         [Next]_vars
  PROVE  OnTheirWay'
<1> SUFFICES ASSUME "timeout" \notin missed'
             PROVE  OnTheirWay'
  BY DEF OnTheirWay
<1>1. "timeout" \notin missed
  BY MissedGrows
<1>2. ASSUME NEW n \in Texts, n \notin late', live'[n] \in InFlightStatuses
      PROVE  ~Outlived(n)'
  <2>1. n \in Notifications /\ n \notin late
    BY <1>2, RowSteps DEF Notifications, MarksGrow
  <2>2. ~Made(n)
    BY <1>2 DEF Made, InFlightStatuses
  <2>3. CASE Kept(n) /\ created'[n] = created[n]
    BY <1>2, <2>1, <2>3, OutlivedStep DEF Kept
  <2>4. CASE Written(n) /\ created'[n] = created[n]
    <3>1. ~Outlived(n)
      BY <1>2, <2>4 DEF Written
    <3>2. UNCHANGED <<day, phase>>
      BY <2>4 DEF Written
    <3> QED
      BY <2>4, <3>1, <3>2 DEF Outlived
  <2>5. ~(Settled(n) \/ SentBack(n) \/ GivenUp(n) \/ Archived(n) \/ Purged(n))
    BY <1>2 DEF Settled, SentBack, GivenUp, Archived, Purged, Absent, InFlightStatuses
  <2> QED
    BY <2>1, <2>2, <2>3, <2>4, <2>5, RowSteps
<1>3. ASSUME NEW t \in Types, NEW n \in DOMAIN sweep'[t].rows, n \notin late'
      PROVE  /\ sweep'[t].rows[n] \notin InFlightStatuses
             /\ \/ live'[n] = sweep'[t].rows[n]
                \/ /\ n \in Letters /\ sweep'[t].rows[n] = "delivered"
                   /\ live'[n] = "returned-letter"
  <2>1. CASE sweep'[t].rows = sweep[t].rows
    BY <1>1, <1>3, <2>1, SelectedStep
  <2>2. CASE /\ phase = "day"
             /\ UNCHANGED <<live, late>>
             /\ n \in OfType(t) /\ Archivable(n) /\ sweep'[t].rows[n] = live[n]
    <3>1. live[n] \notin InFlightStatuses
      <4>1. CASE n \in Letters
        BY <2>2, <4>1 DEF Archivable, LettersKept, LetterRight, LetterStatus, InFlightStatuses,
           Absent
      <4>2. CASE n \in Texts
        <5>1. created[n] + Retention < day /\ n \in Notifications
          BY <2>2, <4>2 DEF Archivable, Expired, Notifications
        <5>2. created[n] + TimeoutDays < day
          BY <5>1, DayTypes
        <5>3. Outlived(n)
          BY <2>2, <5>2 DEF Outlived
        <5> QED
          BY <1>1, <1>3, <2>2, <4>2, <5>3 DEF OnTheirWay
      <4> QED
        BY <2>2, <4>1, <4>2 DEF OfType
    <3> QED
      BY <2>2, <3>1
  <2> QED
    BY <1>3, <2>1, <2>2, SweepSteps
<1>4. ASSUME NEW n \in Notifications, n \notin late'
      PROVE  history'[n] \notin InFlightStatuses
  <2>0. n \notin late
    BY <1>4, RowSteps DEF MarksGrow
  <2>1. history[n] \notin InFlightStatuses
    BY <1>1, <2>0 DEF OnTheirWay
  <2>2. CASE Archived(n)
    BY <1>1, <2>0, <2>2 DEF Archived, OnTheirWay
  <2>3. CASE \/ Kept(n) \/ Written(n) \/ Settled(n) \/ SentBack(n) \/ GivenUp(n)
             \/ Purged(n) \/ Made(n)
    BY <2>1, <2>3 DEF Kept, Written, Settled, SentBack, GivenUp, Purged, Made, Absent,
       InFlightStatuses
  <2> QED
    BY <2>2, <2>3, RowSteps
<1> QED
  BY <1>2, <1>3, <1>4 DEF OnTheirWay

LEMMA SelectedOldStep ==
  ASSUME ArchiveAssumption, StoreInv, NightTypes, SelectedOld, [Next]_vars
  PROVE  SelectedOld'
<1> SUFFICES ASSUME NEW t \in Types, NEW n \in DOMAIN sweep'[t].rows
             PROVE  created'[n] + Retention < day'
  BY DEF SelectedOld
<1>1. CASE sweep'[t].rows = sweep[t].rows
  <2>1. n \in DOMAIN sweep[t].rows
    BY <1>1
  <2>2. n \in Notifications /\ live[n] # Absent /\ created[n] + Retention < day
    BY <2>1 DEF StoreInv, RowsLive, OfType, Notifications, SelectedOld
  <2>3. created'[n] = created[n]
    BY <2>2, RowSteps DEF Made
  <2>4. day' >= day
    BY <2>2, Clock, DayTypes DEF NightFalls, PhaseEnds
  <2>5. NightTypes'
    BY TypesStep
  <2>6. day' \in Nat
    BY <2>5 DEF NightTypes, Days
  <2> QED
    BY <2>2, <2>3, <2>4, <2>6, DayTypes
<1>2. CASE UNCHANGED <<day, created>> /\ Archivable(n)
  BY <1>2 DEF Archivable, Expired
<1> QED
  BY <1>1, <1>2, SweepSteps

\* What counts of a record that exists before and after a step.
LEMMA RecordSteps ==
  ASSUME ArchiveAssumption, StoreInv, NightTypes, [Next]_vars, NEW n \in Notifications \ TestKey
  PROVE  \/ Made(n) /\ UNCHANGED <<day, phase, fact, bill, sweep, missed>>
         \/ /\ created'[n] = created[n]
            /\ AllTime'[n] # Absent <=> AllTime[n] # Absent
            /\ MarksGrow
            /\ \/ AllTime'[n] = AllTime[n]
               \/ Written(n)
               \/ Settled(n)
               \/ SentBack(n)
               \/ GivenUp(n)
               \/ Archived(n)
<1>1. CASE Made(n) /\ UNCHANGED <<day, phase, fact, bill, sweep, missed>>
  BY <1>1
<1>2. CASE Kept(n) /\ created'[n] = created[n]
  <2>1. AllTime'[n] = AllTime[n]
    BY <1>2, AllTimeOf DEF Kept
  <2> QED
    BY <1>2, <2>1, RowSteps
<1>3. CASE \/ Written(n) /\ created'[n] = created[n]
           \/ Settled(n) /\ created'[n] = created[n]
           \/ GivenUp(n) /\ created'[n] = created[n]
           \/ SentBack(n) /\ created'[n] = created[n]
  <2>1. AllTime'[n] # Absent /\ AllTime[n] # Absent
    BY <1>3, AllTimeOf, StatusFacts DEF Written, Settled, SentBack, GivenUp, TimedOut, Absent,
       UpdatableStatuses, InFlightStatuses
  <2> QED
    BY <1>3, <2>1, RowSteps
<1>4. CASE Archived(n) /\ created'[n] = created[n]
  <2>1. PICK t \in Types : /\ n \in DOMAIN sweep[t].rows
                           /\ live'[n] = Absent /\ history'[n] = sweep[t].rows[n]
    BY <1>4 DEF Archived
  <2>2. live[n] # Absent
    BY <2>1 DEF StoreInv, RowsLive
  <2>3. sweep[t].rows \in RowMaps
    BY DEF StoreInv, Sweeps
  <2>4. sweep[t].rows[n] \in NotificationStatuses
    BY <2>1, <2>3 DEF RowMaps
  <2>5. AllTime[n] = live[n] /\ AllTime'[n] = sweep[t].rows[n]
    BY <2>1, <2>2, AllTimeOf
  <2>6. AllTime'[n] # Absent /\ AllTime[n] # Absent
    BY <2>2, <2>4, <2>5, StatusFacts
  <2> QED
    BY <1>4, <2>6, RowSteps
<1>5. ~Purged(n)
  BY DEF Purged
<1> QED
  BY <1>1, <1>2, <1>3, <1>4, <1>5, RowSteps

\* A text that outlives its timeout and is archived keeps its record.
LEMMA ArchivedKept ==
  ASSUME ArchiveAssumption, StoreInv, OnTheirWay, "timeout" \notin missed,
         NEW n \in Texts \ late, Archived(n)
  PROVE  AllTime'[n] = AllTime[n]
<1>1. PICK t \in Types : /\ n \in DOMAIN sweep[t].rows
                         /\ live'[n] = Absent /\ history'[n] = sweep[t].rows[n]
  BY DEF Archived
<1>2. n \in Notifications /\ n \notin Letters
  BY DEF Notifications, ArchiveAssumption
<1>3. live[n] # Absent /\ live[n] = sweep[t].rows[n]
  BY <1>1, <1>2 DEF StoreInv, RowsLive, OnTheirWay
<1> QED
  BY <1>1, <1>2, <1>3, AllTimeOf

\* A day that is past stays so; a day becomes past when its last phase is over.
LEMMA PastSteps ==
  ASSUME ArchiveAssumption, NightTypes, [Next]_vars, NEW d \in Nat, NEW phases,
         "timeout" \notin phases, "day" \in phases, Past(d, phases)'
  PROVE  \/ Past(d, phases)
         \/ day = d /\ phase \notin phases /\ phase' \in phases /\ PhaseEnds
<1>1. day \in Nat
  BY DEF NightTypes, Days, ArchiveAssumption
<1>2. CASE UNCHANGED <<day, phase>>
  BY <1>2 DEF Past
<1>3. CASE NightFalls
  <2>1. phase = "day" /\ phase' = "timeout" /\ day' = day + 1
    BY <1>3 DEF NightFalls
  <2>2. day' > d
    BY <2>1 DEF Past
  <2>3. day > d \/ day = d
    BY <1>1, <2>1, <2>2
  <2> QED
    BY <2>1, <2>3 DEF Past
<1>4. CASE PhaseEnds
  BY <1>4 DEF Past, PhaseEnds
<1> QED
  BY <1>2, <1>3, <1>4, Clock

\* A text is archived after the night that counts it.
LEMMA ArchivedCounted ==
  ASSUME ArchiveAssumption, StoreInv, NightTypes, SelectedOld, FactRight, missed = {},
         NEW n \in Texts \ TestKey, Archived(n)
  PROVE  fact[n] # Absent
<1>1. PICK t \in Types : sweep[t].pc = "selected" /\ n \in DOMAIN sweep[t].rows
  BY DEF Archived
<1>2. live[n] # Absent /\ n \in Notifications /\ phase = "day"
  BY <1>1 DEF StoreInv, RowsLive, Notifications, Sweeping
<1>3. created[n] + Retention < day
  BY <1>1 DEF SelectedOld
<1>4. day >= created[n] + 1
  BY <1>2, <1>3, DayTypes
<1>5. Past(created[n] + 1, {"archive", "day"})
  BY <1>2, <1>4, DayTypes DEF Past
<1>6. AllTime[n] # Absent
  BY <1>2, AllTimeOf
<1> QED
  BY <1>5, <1>6 DEF FactRight

LEMMA FactRightStep ==
  ASSUME ArchiveAssumption, StoreInv, NightTypes, OnTheirWay, SelectedOld, FactRight,
         [Next]_vars
  PROVE  FactRight'
<1> SUFFICES ASSUME missed' = {}, NEW n \in Texts \ TestKey
             PROVE  /\ /\ Past(created[n] + 1, {"archive", "day"})'
                       /\ AllTime'[n] # Absent
                       => fact'[n] # Absent
                    /\ history'[n] # Absent => fact'[n] # Absent
                    /\ /\ Past(created[n] + TextFactDays, {"archive", "day"})'
                       /\ AllTime'[n] # Absent /\ n \notin late'
                       => fact'[n] = AllTime'[n] /\ fact'[n] \notin InFlightStatuses
  BY DEF FactRight
<1>1. missed = {} /\ n \in Notifications \ TestKey
  BY MissedGrows DEF Notifications
<1>2. /\ Past(created[n] + 1, {"archive", "day"}) /\ AllTime[n] # Absent => fact[n] # Absent
      /\ history[n] # Absent => fact[n] # Absent
      /\ Past(created[n] + TextFactDays, {"archive", "day"}) /\ AllTime[n] # Absent
         /\ n \notin late
           => fact[n] = AllTime[n] /\ fact[n] \notin InFlightStatuses
  BY <1>1 DEF FactRight
<1>3. CASE Made(n) /\ UNCHANGED <<day, phase, fact, bill, sweep, missed>>
  <2>1. created'[n] = day /\ day' = day /\ history'[n] = Absent
    BY <1>3 DEF Made
  <2>2. ~Past(created[n] + 1, {"archive", "day"})'
        /\ ~Past(created[n] + TextFactDays, {"archive", "day"})'
    BY <1>1, <2>1, DayTypes DEF Past
  <2> QED
    BY <2>1, <2>2
<1>4. CASE /\ created'[n] = created[n]
           /\ AllTime'[n] # Absent <=> AllTime[n] # Absent
           /\ MarksGrow
           /\ \/ AllTime'[n] = AllTime[n]
              \/ Written(n)
              \/ Settled(n)
              \/ SentBack(n)
              \/ GivenUp(n)
              \/ Archived(n)
  <2>1. \/ fact'[n] = fact[n]
        \/ /\ fact'[n] = AllTime[n] /\ AllTime[n] # Absent
           /\ CreateNightlyStatus /\ Aggregated(n)
    <3>1. CASE CreateNightlyStatus
      BY <1>1, <3>1 DEF CreateNightlyStatus
    <3> QED
      BY <3>1, FactSteps
  \* When the statuses of the night have been counted.
  <2>2. ASSUME CreateNightlyStatus, Aggregated(n), AllTime[n] # Absent
        PROVE  fact'[n] = AllTime[n]
    <3>1. live[n] # Absent \/ fact[n] # Absent
      BY <1>1, <1>2, <2>2, AllTimeOf
    <3>2. n \in OfType(TypeOf(n))
      BY DEF OfType, TypeOf
    <3>3. HasRows(n)
      BY <3>1, <3>2 DEF HasRows
    <3> QED
      BY <1>1, <2>2, <3>3 DEF CreateNightlyStatus
  <2>3. ASSUME NEW k \in Nat \ {0}, k <= TextFactDays, day = created[n] + k,
               phase \notin {"archive", "day"}, phase' \in {"archive", "day"}, PhaseEnds
        PROVE  CreateNightlyStatus /\ Aggregated(n)
    <3>1. CreateNightlyStatus
      BY <2>3 DEF PhaseEnds
    <3>2. created[n] < day /\ day <= created[n] + TextFactDays
      BY <1>1, <2>3, DayTypes
    <3> QED
      BY <3>1, <3>2 DEF Aggregated
  <2>4. ASSUME Past(created[n] + 1, {"archive", "day"})', AllTime'[n] # Absent
        PROVE  fact'[n] # Absent
    <3>1. created[n] + 1 \in Nat /\ TextFactDays \in Nat \ {0}
      BY <1>1, DayTypes
    <3>2. Past(created[n] + 1, {"archive", "day"})' <=>
            (day' > created[n] + 1 \/ (day' = created[n] + 1 /\ phase' \in {"archive", "day"}))
      BY <1>4 DEF Past
    <3> DEFINE d == created[n] + 1
    <3>3. \/ Past(d, {"archive", "day"})
          \/ /\ day = d /\ PhaseEnds
             /\ phase \notin {"archive", "day"} /\ phase' \in {"archive", "day"}
      <4>1. PICK e \in Nat : e = created[n] + 1
        BY <3>1
      <4>2. Past(e, {"archive", "day"})'
        BY <2>4, <3>2, <4>1 DEF Past
      <4> QED
        BY <4>1, <4>2, PastSteps
    <3>4. CASE Past(d, {"archive", "day"})
      BY <1>2, <1>4, <2>1, <2>4, <3>4
    <3>5. CASE day = d /\ phase \notin {"archive", "day"} /\ phase' \in {"archive", "day"}
               /\ PhaseEnds
      <4>1. CreateNightlyStatus /\ Aggregated(n)
        BY <2>3, <3>1, <3>5
      <4> QED
        BY <1>4, <2>2, <2>4, <4>1
    <3> QED
      BY <3>3, <3>4, <3>5
  <2>5. ASSUME history'[n] # Absent PROVE fact'[n] # Absent
    <3>1. fact[n] # Absent
      <4>1. CASE history[n] # Absent
        BY <1>2, <4>1
      <4>2. CASE history[n] = Absent
        <5>1. Archived(n)
          BY <1>1, <2>5, <4>2, RowSteps DEF Kept, Written, Settled, SentBack, GivenUp, Purged,
             Made, Absent
        <5> QED
          BY <1>1, <5>1, ArchivedCounted
      <4> QED
        BY <4>1, <4>2
    <3> QED
      BY <2>1, <3>1
  <2>6. ASSUME Past(created[n] + TextFactDays, {"archive", "day"})',
               AllTime'[n] # Absent, n \notin late'
        PROVE  fact'[n] = AllTime'[n] /\ fact'[n] \notin InFlightStatuses
    <3>1. created[n] + TextFactDays \in Nat /\ TextFactDays \in Nat \ {0}
      BY <1>1, DayTypes
    <3> DEFINE d == created[n] + TextFactDays
    <3>2. \/ Past(d, {"archive", "day"})
          \/ /\ day = d /\ PhaseEnds
             /\ phase \notin {"archive", "day"} /\ phase' \in {"archive", "day"}
      <4>1. PICK e \in Nat : e = created[n] + TextFactDays
        BY <3>1
      <4>2. Past(e, {"archive", "day"})'
        BY <1>4, <2>6, <4>1 DEF Past
      <4> QED
        BY <4>1, <4>2, PastSteps
    <3>3. n \notin late /\ AllTime[n] # Absent
      BY <1>4, <2>6 DEF MarksGrow
    <3>4. CASE Past(d, {"archive", "day"})
      <4>1. fact[n] = AllTime[n] /\ fact[n] \notin InFlightStatuses
        BY <1>2, <3>3, <3>4
      <4>2. Outlived(n)
        <5>1. day >= created[n] + TextFactDays
          BY <1>1, <3>4, DayTypes DEF Past
        <5>2. /\ created[n] + TimeoutDays < day
              /\ created[n] + TimeoutDays + 1 = day => day = created[n] + TextFactDays
          BY <1>1, <5>1, DayTypes
        <5>3. created[n] + TimeoutDays + 1 = day => phase # "timeout"
          BY <1>1, <3>4, <5>2, DayTypes DEF Past
        <5> QED
          BY <5>2, <5>3 DEF Outlived
      <4>3. ~Written(n)
        BY <2>6, <4>2 DEF Written
      <4>4. ~Settled(n) /\ ~SentBack(n)
        BY DEF Settled, SentBack, ArchiveAssumption
      <4>5. ~GivenUp(n)
        BY <1>1, <4>1, AllTimeOf DEF GivenUp, TimedOut, Absent, InFlightStatuses
      <4>6. AllTime'[n] = AllTime[n]
        BY <1>1, <1>4, <3>3, <4>3, <4>4, <4>5, ArchivedKept
      <4> QED
        BY <2>1, <4>1, <4>6
    <3>5. CASE day = d /\ phase \notin {"archive", "day"} /\ phase' \in {"archive", "day"}
               /\ PhaseEnds
      <4>1. CreateNightlyStatus /\ Aggregated(n)
        BY <1>1, <2>3, <3>1, <3>5, DayTypes
      <4>2. fact'[n] = AllTime[n]
        BY <2>2, <3>3, <4>1
      <4>3. AllTime'[n] = AllTime[n]
        BY <1>1, <4>1, AllTimeOf DEF CreateNightlyStatus, Tables
      <4>4. AllTime[n] \notin InFlightStatuses
        <5>1. phase = "status"
          BY <4>1 DEF CreateNightlyStatus
        <5>2. created[n] + TimeoutDays < day
          BY <1>1, <3>5, DayTypes
        <5>3. Outlived(n)
          BY <5>1, <5>2 DEF Outlived
        <5>4. live[n] \notin InFlightStatuses /\ history[n] \notin InFlightStatuses
          BY <1>1, <3>3, <5>3 DEF OnTheirWay
        <5> QED
          BY <1>1, <5>4, AllTimeOf
      <4> QED
        BY <4>2, <4>3, <4>4
    <3> QED
      BY <3>2, <3>4, <3>5
  <2> QED
    BY <2>4, <2>5, <2>6
<1> QED
  BY <1>1, <1>3, <1>4, RecordSteps

\* What is billed stays billed once its day is billed for the last time: texts have
\* been timed out, letters have been settled, and returned letters are billed as well.
LEMMA BillableStays ==
  ASSUME ArchiveAssumption, StoreInv, NightTypes, OnTheirWay, [Next]_vars, missed = {},
         NEW d \in Nat, Past(d + BillingDays, {"status", "archive", "day"}),
         NEW n \in Notifications, n \in late' \ TestKey => created'[n] # d
  PROVE  (created'[n] = d /\ Billable(n)') <=> (created[n] = d /\ Billable(n))
<1>1. CASE n \in TestKey
  BY <1>1 DEF Billable
<1>2. CASE n \notin TestKey /\ Made(n) /\ UNCHANGED <<day, phase, fact, bill, sweep, missed>>
  <2>1. created'[n] = day /\ AllTime[n] = Absent
    BY <1>2, AllTimeOf DEF Made
  <2>2. day # d
    BY DayTypes DEF Past
  <2>3. ~Billable(n)
    BY <2>1 DEF Billable, Absent
  <2> QED
    BY <2>1, <2>2, <2>3
<1>3. CASE /\ n \notin TestKey
           /\ created'[n] = created[n]
           /\ MarksGrow
           /\ \/ AllTime'[n] = AllTime[n]
              \/ Written(n)
              \/ Settled(n)
              \/ SentBack(n)
              \/ GivenUp(n)
              \/ Archived(n)
  <2> SUFFICES ASSUME created[n] = d PROVE Billable(n)' <=> Billable(n)
    BY <1>3
  <2>0. n \notin late' /\ n \notin late /\ "timeout" \notin missed
    BY <1>3 DEF MarksGrow
  <2>1. CASE AllTime'[n] = AllTime[n]
    BY <1>3, <2>1 DEF Billable
  <2>2. CASE Written(n)
    <3>1. day >= created[n] + BillingDays /\ (day = created[n] + BillingDays => phase # "timeout")
      BY DayTypes DEF Past
    <3>2. /\ created[n] + TimeoutDays < day
          /\ created[n] + TimeoutDays + 1 = day => day = created[n] + BillingDays
      BY <3>1, DayTypes
    <3>3. Outlived(n)
      BY <3>1, <3>2 DEF Outlived
    <3> QED
      BY <2>0, <2>2, <3>3 DEF Written
  <2>3. CASE Settled(n)
    <3>1. day < created[n] + LetterFactDays
      BY <2>3 DEF Settled
    <3> QED
      BY <3>1, DayTypes DEF Past
  <2>4. CASE SentBack(n)
    <3>1. n \notin Texts
      BY <2>4 DEF SentBack, ArchiveAssumption
    <3>2. AllTime[n] = "delivered" /\ AllTime'[n] = "returned-letter"
      BY <2>4, AllTimeOf, StatusFacts DEF SentBack, Absent
    <3> QED
      BY <1>3, <3>1, <3>2 DEF Billable
  <2>5. CASE GivenUp(n)
    <3>1. n \in Texts
      BY <2>5 DEF GivenUp, TimedOut
    <3>2. AllTime[n] \in {"sending", "pending"} /\ AllTime'[n] = "temporary-failure"
      BY <2>5, AllTimeOf DEF GivenUp, TimedOut, Absent, InFlightStatuses
    <3> QED
      BY <1>3, <3>1, <3>2 DEF Billable
  <2>6. CASE Archived(n)
    <3>1. PICK t \in Types : /\ n \in DOMAIN sweep[t].rows
                             /\ live'[n] = Absent /\ history'[n] = sweep[t].rows[n]
      BY <2>6 DEF Archived
    <3>2. /\ live[n] # Absent
          /\ \/ live[n] = sweep[t].rows[n]
             \/ /\ n \in Letters /\ sweep[t].rows[n] = "delivered"
                /\ live[n] = "returned-letter"
      BY <2>0, <3>1 DEF StoreInv, RowsLive, OnTheirWay
    <3>3. AllTime[n] = live[n] /\ AllTime'[n] = sweep[t].rows[n]
      BY <3>1, <3>2, AllTimeOf
    <3>4. CASE live[n] = sweep[t].rows[n]
      BY <1>3, <3>3, <3>4 DEF Billable
    <3>5. CASE /\ n \in Letters /\ sweep[t].rows[n] = "delivered"
               /\ live[n] = "returned-letter"
      <4>1. n \notin Texts
        BY <3>5 DEF ArchiveAssumption
      <4> QED
        BY <1>3, <3>3, <3>5, <4>1 DEF Billable
    <3> QED
      BY <3>2, <3>4, <3>5
  <2> QED
    BY <1>3, <2>1, <2>2, <2>3, <2>4, <2>5, <2>6
<1> QED
  BY <1>1, <1>2, <1>3, RecordSteps

LEMMA CountStays ==
  ASSUME ArchiveAssumption, StoreInv, NightTypes, OnTheirWay, [Next]_vars, missed = {},
         NEW d \in Nat, NEW g, Past(d + BillingDays, {"status", "archive", "day"}),
         NoneLate(d, g)'
  PROVE  Count(d, g)' = Count(d, g)
<1>1. \A n \in Notifications :
        Group[n] = g =>
          ((created'[n] = d /\ Billable(n)') <=> (created[n] = d /\ Billable(n)))
  <2> SUFFICES ASSUME NEW n \in Notifications, Group[n] = g
               PROVE  (created'[n] = d /\ Billable(n)') <=> (created[n] = d /\ Billable(n))
    OBVIOUS
  <2>1. n \in late' \ TestKey => created'[n] # d
    BY DEF NoneLate
  <2> QED
    BY <2>1, BillableStays
<1>2. {n \in Notifications : Group[n] = g /\ created'[n] = d /\ Billable(n)'}
      = {n \in Notifications : Group[n] = g /\ created[n] = d /\ Billable(n)}
  BY <1>1
<1> QED
  BY <1>2 DEF Count

LEMMA LateSteps ==
  ASSUME ArchiveAssumption, StoreInv, [Next]_vars, NEW n \in late' \ late
  PROVE  live'[n] # Absent
<1>1. ASSUME NEW m \in Notifications, Send(m) \/ Receipt(m) \/ LetterCallback(m)
      PROVE  live'[n] # Absent
  <2>1. PICK s \in {"sending", "sent", "pending", "delivered", "technical-failure"} : Write(m, s)
    BY <1>1 DEF Send, Receipt, LetterCallback
  <2>2. n = m /\ live'[m] = s
    BY <2>1 DEF Race, StoreInv
  <2> QED
    BY <2>1, <2>2 DEF Absent
<1>2. ASSUME NEW m \in Notifications, Returned(m)
      PROVE  live'[n] # Absent
  <2>1. n = m /\ m \in Texts /\ m \in Letters
    BY <1>2 DEF Returned, Race
  <2> QED
    BY <1>2, <2>1 DEF Returned, UpdateByReference, StoreInv, ArchiveAssumption
<1>3. CASE \/ \E m \in Notifications : Create(m)
           \/ NewDay \/ Miss \/ Night \/ UpdateBillingForToday \/ DeleteLettersFromS3
           \/ \E t \in Types : Sweep(t) \/ SweepFails(t)
           \/ UNCHANGED vars
  BY <1>3 DEF Create, NewDay, Miss, Night, TimeoutNotifications, CreateNightlyBilling,
     CreateNightlyStatus, StartSweeps, UpdateBillingForToday, DeleteLettersFromS3, Sweep,
     SelectRows, ArchiveRows, DeleteTestRows, SweepFails, vars
<1> QED
  BY <1>1, <1>2, <1>3 DEF Next

LEMMA LateExistStep ==
  ASSUME ArchiveAssumption, StoreInv, NightTypes, LateExist, [Next]_vars
  PROVE  LateExist'
<1> SUFFICES ASSUME NEW n \in late' \ TestKey PROVE AllTime'[n] # Absent
  BY DEF LateExist
<1>1. n \in Notifications
  BY MarkTypes DEF Notifications
<1>2. CASE n \in late
  <2>1. AllTime[n] # Absent
    BY <1>2 DEF LateExist
  <2>2. ~Made(n)
    BY <1>1, <2>1, AllTimeOf DEF Made
  <2> QED
    BY <1>1, <2>1, <2>2, RecordSteps
<1>3. CASE n \notin late
  BY <1>1, <1>3, LateSteps, AllTimeOf
<1> QED
  BY <1>2, <1>3

LEMMA NoneLateBefore ==
  ASSUME ArchiveAssumption, StoreInv, NightTypes, LateExist, [Next]_vars,
         NEW d, NEW g, NoneLate(d, g)'
  PROVE  NoneLate(d, g)
<1> SUFFICES ASSUME NEW n \in late \ TestKey, Group[n] = g PROVE created[n] # d
  BY DEF NoneLate
<1>1. n \in Notifications /\ AllTime[n] # Absent
  BY DEF LateExist, NightTypes, Notifications
<1>2. n \in late' /\ created'[n] = created[n]
  <2>1. ~Made(n)
    BY <1>1, AllTimeOf DEF Made
  <2> QED
    BY <1>1, <2>1, RecordSteps, RowSteps DEF MarksGrow
<1> QED
  BY <1>2 DEF NoneLate

\* The rows of ft_billing that are written.
LEMMA UpsertStep ==
  ASSUME NightTypes, NEW days, UpsertBilling(days),
         NEW d \in 0..LastCreated, NEW g \in Groups, Count(d, g) > 0
  PROVE  bill'[<<d, g>>] = IF d \in days THEN Count(d, g) ELSE bill[<<d, g>>]
<1>1. <<d, g>> \in DOMAIN bill
  BY DEF NightTypes
<1>2. bill' = [x \in DOMAIN bill |->
                 IF x[1] \in days /\ Count(x[1], x[2]) > 0 THEN Count(x[1], x[2]) ELSE bill[x]]
  BY DEF UpsertBilling
<1>3. bill'[<<d, g>>] = IF d \in days /\ Count(d, g) > 0 THEN Count(d, g) ELSE bill[<<d, g>>]
  BY <1>1, <1>2
<1> QED
  BY <1>3

LEMMA BillRightStep ==
  ASSUME ArchiveAssumption, StoreInv, NightTypes, OnTheirWay, LateExist, BillRight,
         [Next]_vars
  PROVE  BillRight'
<1> SUFFICES ASSUME missed' = {}, NEW d \in 0..LastCreated, NEW g \in Groups,
                    Past(d + BillingDays, {"status", "archive", "day"})', Count(d, g)' > 0,
                    NoneLate(d, g)'
             PROVE  bill'[<<d, g>>] = Count(d, g)'
  BY DEF BillRight
<1>1. missed = {} /\ d \in Nat /\ LastCreated \in Nat /\ BillingDays \in Nat \ {0}
      /\ day \in Nat
  BY MissedGrows DEF ArchiveAssumption, NightTypes, Days
<1>2. \/ Past(d + BillingDays, {"status", "archive", "day"})
      \/ /\ day = d + BillingDays /\ PhaseEnds
         /\ phase \notin {"status", "archive", "day"}
         /\ phase' \in {"status", "archive", "day"}
  <2>1. PICK e \in Nat : e = d + BillingDays
    BY <1>1
  <2>2. Past(e, {"status", "archive", "day"})'
    BY <2>1 DEF Past
  <2> QED
    BY <2>1, <2>2, PastSteps
<1>3. CASE Past(d + BillingDays, {"status", "archive", "day"})
  <2>1. Count(d, g)' = Count(d, g)
    BY <1>1, <1>3, CountStays
  <2>2. Count(d, g) > 0
    BY <2>1
  <2>3. bill[<<d, g>>] = Count(d, g)
    BY <1>1, <1>3, <2>2, NoneLateBefore DEF BillRight
  <2>4. CASE UNCHANGED bill
    BY <2>1, <2>3, <2>4
  <2>5. ASSUME NEW days, UpsertBilling(days)
        PROVE  bill'[<<d, g>>] = Count(d, g)
    BY <2>2, <2>3, <2>5, UpsertStep
  <2>6. CASE CreateNightlyBilling \/ UpdateBillingForToday
    BY <2>1, <2>5, <2>6 DEF CreateNightlyBilling, UpdateBillingForToday
  <2> QED
    BY <2>4, <2>6, BillSteps
<1>4. CASE /\ day = d + BillingDays /\ PhaseEnds
           /\ phase \notin {"status", "archive", "day"}
           /\ phase' \in {"status", "archive", "day"}
  <2>1. CreateNightlyBilling
    BY <1>4 DEF PhaseEnds
  <2>2. UNCHANGED <<created, live, history>>
    BY <2>1 DEF CreateNightlyBilling, Tables
  <2>3. Count(d, g)' = Count(d, g)
    BY <2>2 DEF Count, Billable, AllTime
  <2>4. d \in {e \in 0..LastCreated : e < day /\ day <= e + BillingDays}
    BY <1>1, <1>4
  <2>5. Count(d, g) > 0
    BY <2>3
  <2> QED
    BY <2>1, <2>3, <2>4, <2>5, UpsertStep DEF CreateNightlyBilling
<1> QED
  BY <1>2, <1>3, <1>4

\* A batch with room for all letters takes every row it is offered.
LEMMA FullBatch ==
  ASSUME ArchiveAssumption, Cardinality(Letters) <= Limit, NEW R \in SUBSET Letters,
         NEW B \in Batches(R)
  PROVE  B = R
<1>1. IsFiniteSet(Letters) /\ Limit \in Nat
  <2>1. IsFiniteSet(Notifications) /\ Letters \in SUBSET Notifications
    BY DEF ArchiveAssumption, Notifications
  <2> QED
    BY <2>1, FS_Subset DEF ArchiveAssumption
<1>2. IsFiniteSet(R) /\ Cardinality(R) <= Cardinality(Letters)
  BY <1>1, FS_Subset
<1>3. Cardinality(R) \in Nat /\ Cardinality(Letters) \in Nat
  BY <1>1, <1>2, FS_CardinalityType
<1> DEFINE c == Cardinality(R)
<1>4. c \in Nat /\ c <= Limit
  BY <1>1, <1>2, <1>3
<1>5. B \in SUBSET R /\ Cardinality(B) = Min({Limit, c})
  BY DEF Batches
<1> HIDE DEF c
<1>6. Min({Limit, c}) = c
  <2>1. \E x \in {Limit, c} : \A y \in {Limit, c} : x <= y
    BY <1>1, <1>4
  <2>2. /\ Min({Limit, c}) \in {Limit, c}
        /\ \A y \in {Limit, c} : Min({Limit, c}) <= y
    BY <2>1 DEF Min
  <2> QED
    BY <1>1, <1>4, <2>2
<1>7. Cardinality(B) = Cardinality(R)
  BY <1>5, <1>6 DEF c
<1> QED
  BY <1>2, <1>5, <1>7, FS_Subset

\* A letter that can be selected has had its PDF looked for.
LEMMA CleanSteps ==
  ASSUME ArchiveAssumption, StoreInv, [Next]_vars,
         sweep'["letter"].pc = "clean", sweep["letter"].pc # "clean"
  PROVE  DeleteLettersFromS3
<1>1. "letter" \in Types /\ "letter" # "sms"
  BY DEF Types
<1>2. CASE \/ \E n \in Notifications : Create(n) \/ Send(n) \/ Receipt(n) \/ LetterCallback(n) \/ Returned(n)
           \/ NewDay \/ Miss \/ TimeoutNotifications \/ CreateNightlyBilling
           \/ CreateNightlyStatus \/ UpdateBillingForToday \/ UNCHANGED vars
  <2>1. UNCHANGED sweep
    BY <1>2 DEF Create, Send, Receipt, LetterCallback, Returned, NewDay, Miss, TimeoutNotifications,
       CreateNightlyBilling, CreateNightlyStatus, UpdateBillingForToday, vars
  <2> QED
    BY <2>1
<1>3. CASE StartSweeps
  <2>1. sweep'["letter"] = [IdleSweep EXCEPT !.pc = "queued"]
    BY <1>1, <1>3 DEF StartSweeps
  <2> QED
    BY <2>1 DEF IdleSweep
<1>4. ASSUME NEW t \in Types, Sweep(t) \/ SweepFails(t) PROVE FALSE
  <2>1. CASE t = "letter"
    <3>1. \/ \E R \in SUBSET Letters :
               sweep' = [sweep EXCEPT ![t] = [pc |-> "selected", rows |-> Restrict(live, R)]]
          \/ sweep' = [sweep EXCEPT ![t] = [pc |-> NextTask(t), rows |-> NoRows]]
          \/ sweep' = [sweep EXCEPT ![t] = IdleSweep]
          \/ sweep' = sweep
      <4>1. CASE SelectRows(t)
        BY <2>1, <4>1 DEF SelectRows, OfType, Batches
      <4>2. CASE ArchiveRows(t) \/ DeleteTestRows(t) \/ SweepFails(t)
        BY <4>2 DEF ArchiveRows, DeleteTestRows, SweepFails
      <4> QED
        BY <1>4, <4>1, <4>2 DEF Sweep
    <3>2. sweep' = sweep \/ sweep'["letter"].pc \in {"selected", "test", "queued", "idle"}
      BY <2>1, <3>1 DEF NextTask, IdleSweep, StoreInv
    <3> QED
      BY <3>2
  <2>2. CASE t # "letter"
    <3>1. sweep'["letter"] = sweep["letter"]
      BY <1>1, <1>4, <2>2 DEF Sweep, SelectRows, ArchiveRows, DeleteTestRows, SweepFails,
         StoreInv
    <3> QED
      BY <3>1
  <2> QED
    BY <2>1, <2>2
<1> QED
  BY <1>2, <1>3, <1>4 DEF Next, Night

LEMMA PdfRightStep ==
  ASSUME ArchiveAssumption, StoreInv, NightTypes, LetterRight, PdfRight, [Next]_vars
  PROVE  PdfRight'
<1> SUFFICES ASSUME Cardinality(Letters) <= Limit,
                    NEW n \in Letters, n \notin scan' \cup kept' \cup raced'
             PROVE  /\ live'[n] = Absent => n \notin pdf'
                    /\ sweep'["letter"].pc = "clean" /\ Archivable(n)' => n \notin pdf'
                    /\ n \in DOMAIN sweep'["letter"].rows => n \notin pdf'
  BY DEF PdfRight, Lasting
<1>1. n \in Notifications /\ n \notin Texts /\ TypeOf(n) = "letter" /\ "letter" \in Types
  BY DEF ArchiveAssumption, Notifications, TypeOf, Types
<1>2. n \notin Lasting
  BY <1>1, RowSteps DEF MarksGrow, Lasting
<1>3. /\ live[n] = Absent => n \notin pdf
      /\ sweep["letter"].pc = "clean" /\ Archivable(n) => n \notin pdf
      /\ n \in DOMAIN sweep["letter"].rows => n \notin pdf
  BY <1>2 DEF PdfRight
<1>4. CASE Made(n) /\ UNCHANGED <<day, phase, fact, bill, sweep, missed>>
  <2>1. live'[n] # Absent
    BY <1>1, <1>4 DEF Made, LetterStatus, Absent
  <2>2. ~Archivable(n)'
    <3>1. created'[n] = day /\ day' = day
      BY <1>4 DEF Made
    <3> QED
      BY <1>1, <3>1, DayTypes DEF Archivable, Expired
  <2>3. n \notin DOMAIN sweep'["letter"].rows
    BY <1>1, <1>4 DEF Made, StoreInv, RowsLive
  <2> QED
    BY <2>1, <2>2, <2>3
<1>5. CASE /\ Kept(n) \/ Settled(n) \/ SentBack(n) \/ Archived(n) \/ Purged(n)
           /\ created'[n] = created[n]
  <2>1. n \notin pdf => n \notin pdf'
    <3>1. ~Create(n)
      <4>1. ASSUME Create(n) PROVE FALSE
        <5>1. PICK s \in Starts(n) : live' = [live EXCEPT ![n] = s]
          BY <4>1 DEF Create
        <5>2. live'[n] \notin {Absent, "returned-letter"}
          BY <1>1, <5>1 DEF Starts, Absent, StoreInv
        <5>3. live[n] = Absent
          BY <1>1, <4>1, AllTimeOf DEF Create
        <5> QED
          BY <1>5, <5>2, <5>3 DEF Kept, Settled, SentBack, Archived, Purged, Absent
      <4> QED
        BY <4>1
    <3> QED
      BY <3>1, PdfSteps
  <2>2. ASSUME live'[n] = Absent PROVE n \notin pdf'
    <3>1. CASE live[n] = Absent
      BY <1>3, <2>1, <3>1
    <3>2. CASE Purged(n)
      BY <3>2 DEF Purged
    <3>3. CASE Archived(n)
      <4>1. PICK t \in Types : n \in DOMAIN sweep[t].rows
        BY <3>3 DEF Archived
      <4>2. t = "letter"
        BY <1>1, <4>1, OneType DEF StoreInv, RowsLive
      <4> QED
        BY <1>3, <2>1, <4>1, <4>2
    <3>4. CASE live[n] # Absent /\ (Kept(n) \/ Settled(n) \/ SentBack(n))
      BY <2>2, <3>4 DEF Kept, Settled, SentBack, Absent
    <3> QED
      BY <1>5, <3>1, <3>2, <3>3, <3>4
  <2>3. ASSUME sweep'["letter"].pc = "clean", Archivable(n)' PROVE n \notin pdf'
    <3>1. CASE sweep["letter"].pc = "clean"
      <4>1. Sweeping("letter") /\ UNCHANGED day
        <5>1. Sweeping("letter") /\ phase = "day"
          BY <1>1, <3>1 DEF Sweeping, StoreInv
        <5> QED
          BY <1>1, <5>1, Clock DEF NightFalls, PhaseEnds
      <4>2. live'[n] # Absent
        BY <2>3 DEF Archivable, Expired
      <4>3. ~Settled(n) /\ ~SentBack(n)
        BY <1>1, <4>1 DEF Settled, SentBack
      <4>4. ~Archived(n) /\ ~Purged(n)
        BY <1>1, <4>2 DEF Archived, Purged
      <4>5. Kept(n)
        BY <1>5, <4>3, <4>4
      <4>6. Archivable(n)
        BY <1>5, <2>3, <4>1, <4>5 DEF Archivable, Expired, Kept
      <4> QED
        BY <1>3, <2>1, <3>1, <4>6
    <3>2. CASE sweep["letter"].pc # "clean"
      <4>1. DeleteLettersFromS3
        BY <2>3, <3>2, CleanSteps
      <4> DEFINE R == {m \in Letters : Expired(m) /\ live[m] \in CompletedStatuses}
      <4>2. PICK B \in Batches(R) : DeletePdfs(B)
        BY <4>1 DEF DeleteLettersFromS3
      <4>3. R \in SUBSET Letters
        OBVIOUS
      <4> HIDE DEF R
      <4>4. B = R
        BY <4>2, <4>3, FullBatch
      <4>5. UNCHANGED <<live, created, day>>
        BY <4>1 DEF DeleteLettersFromS3, Tables
      <4>6. Expired(n) /\ live[n] \notin LettersKept
        BY <2>3, <4>5 DEF Archivable, Expired
      <4>7. live[n] \in {"delivered", "technical-failure", "validation-failed",
                        "returned-letter"}
        BY <1>2, <4>6 DEF LetterRight, LetterStatus, LettersKept, Expired, Lasting
      <4>8. n \in R
        BY <4>6, <4>7 DEF R, CompletedStatuses
      <4>9. PICK F \in SUBSET (B \cap pdf) :
              pdf' = pdf \ (B \ (F \cup scan)) /\ kept' = kept \cup F /\ scan' = scan
        BY <4>2 DEF DeletePdfs
      <4> QED
        BY <4>4, <4>8, <4>9
    <3> QED
      BY <3>1, <3>2
  <2>4. ASSUME n \in DOMAIN sweep'["letter"].rows PROVE n \notin pdf'
    BY <1>1, <1>3, <2>1, <2>4, SweepSteps
  <2> QED
    BY <2>2, <2>3, <2>4
<1>6. ~GivenUp(n) /\ ~Written(n)
  BY <1>1 DEF GivenUp, TimedOut, Written
<1> QED
  BY <1>1, <1>4, <1>5, <1>6, RowSteps

-----------------------------------------------------------------------------

LEMMA NightStarts == ArchiveAssumption /\ Init => NightInv
<1> SUFFICES ASSUME ArchiveAssumption, Init PROVE NightInv
  OBVIOUS
<1>1. \A n \in Notifications : live[n] = Absent /\ history[n] = Absent /\ fact[n] = Absent
  BY DEF Init
<1>2. \A n \in Notifications : AllTime[n] = Absent
  BY <1>1 DEF AllTime
<1>3. \A t \in Types : sweep[t] = IdleSweep
  BY DEF Init
<1>4. \A t \in Types : DOMAIN sweep[t].rows = {} /\ sweep[t].pc = "idle"
  BY <1>3, NoRowsType DEF IdleSweep
<1>5. Cardinality(Notifications) \in Nat
  BY FS_CardinalityType DEF ArchiveAssumption
<1>6. NightTypes
  <2>1. 0 \in 0..Cardinality(Notifications)
    BY <1>5
  <2>2. bill \in [(0..LastCreated) \X Groups -> 0..Cardinality(Notifications)]
    BY <2>1 DEF Init
  <2>3. day \in Days /\ created \in [Notifications -> Days]
    BY DEF Init, Days, ArchiveAssumption
  <2>4. /\ fact \in [Notifications -> Status] /\ phase \in Phase
        /\ pdf \subseteq Letters /\ scan \subseteq Letters /\ kept \subseteq Letters
        /\ late \subseteq Texts
    BY DEF Init, Status, Phase
  <2> QED
    BY <2>2, <2>3, <2>4 DEF NightTypes
<1>7. OnTheirWay /\ SelectedOld /\ LateExist /\ LetterRight
  <2>1. OnTheirWay
    BY <1>1, <1>4 DEF OnTheirWay, Notifications, Absent, InFlightStatuses
  <2>2. SelectedOld
    BY <1>4 DEF SelectedOld
  <2>3. late = {} /\ LateExist
    BY DEF Init, LateExist
  <2>4. LetterRight
    BY <1>1 DEF LetterRight, Notifications, Absent
  <2> QED
    BY <2>1, <2>2, <2>3, <2>4
<1>8. FactRight
  BY <1>1, <1>2 DEF FactRight, Notifications
<1>9. BillRight
  <2> SUFFICES ASSUME NEW d \in 0..LastCreated, NEW g \in Groups, Count(d, g) > 0
               PROVE  FALSE
    BY DEF BillRight
  <2>1. {n \in Notifications : Group[n] = g /\ created[n] = d /\ Billable(n)} = {}
    BY <1>2 DEF Billable, Absent
  <2>2. Count(d, g) = 0
    BY <2>1, FS_EmptySet DEF Count
  <2> QED
    BY <2>2
<1>10. PdfRight
  BY <1>4 DEF PdfRight, Init
<1> QED
  BY <1>6, <1>7, <1>8, <1>9, <1>10 DEF NightInv

LEMMA NightStep ==
  ASSUME ArchiveAssumption, StoreInv, NightInv, [Next]_vars
  PROVE  NightInv'
BY TypesStep, OnTheirWayStep, SelectedOldStep, LateExistStep, FactRightStep, BillRightStep, PdfRightStep,
   LetterRightStep DEF NightInv

LEMMA NightAlways == Spec => [](StoreInv /\ NightInv)
<1>1. ArchiveAssumption
  BY ArchiveAssumption
<1>2. Init => StoreInv /\ NightInv
  BY <1>1, InitHolds, NightStarts
<1>3. (StoreInv /\ NightInv) /\ [Next]_vars => (StoreInv /\ NightInv)'
  BY <1>1, StepHolds, NightStep
<1> QED
  BY <1>2, <1>3, PTL DEF Spec

\* Types hold, no notification is in both tables, and unless a run of the timeout
\* failed nothing is archived that is still on its way (dao_timeout_notifications,
\* insert_notification_history_delete_notifications), but texts that were sent or
\* reported after their timeout.
THEOREM ArchiveRight == Spec => []ArchiveInv
<1>1. ASSUME StoreInv, NightInv PROVE ArchiveInv
  <2>1. TypeOK
    <3>1. phase \in DOMAIN Phases \cup {"day"}
      BY <1>1 DEF NightInv, NightTypes, Phase, Phases
    <3>2. \A t \in Types : sweep[t].pc \in {"idle", "queued", "clean", "selected", "test"}
      BY <1>1 DEF StoreInv, Sweeps
    <3> QED
      BY <1>1, <3>1, <3>2 DEF TypeOK, NightInv, NightTypes, StoreInv, Status
  <2>2. ArchivedIsSettled
    BY <1>1 DEF NightInv, OnTheirWay, ArchivedIsSettled
  <2> QED
    BY <1>1, <2>1, <2>2 DEF ArchiveInv, StoreInv
<1> QED
  BY <1>1, NightAlways, PTL

\* Unless a run failed, ft_notification_status and ft_billing are right for good once a
\* day has left the window of the nightly tasks (create_nightly_notification_status,
\* create_nightly_billing), whatever was archived, sent back or timed out in between,
\* but for texts that were sent or reported after their timeout.
THEOREM FactsEndRight == Spec => []FactsSettled
<1>1. ASSUME StoreInv, NightInv PROVE FactsSettled
  <2>1. ArchiveAssumption
    BY ArchiveAssumption
  <2>2. StatusFactsSettled
    <3> SUFFICES ASSUME missed = {}, phase = "day", NEW n \in Texts \ (TestKey \cup late),
                        AllTime[n] # Absent, day >= created[n] + TextFactDays
                 PROVE  fact[n] = AllTime[n] /\ fact[n] \notin InFlightStatuses
      BY DEF StatusFactsSettled
    <3>1. n \in Notifications
      BY DEF Notifications
    <3>2. Past(created[n] + TextFactDays, {"archive", "day"})
      BY <1>1, <2>1, <3>1, DayTypes DEF Past, NightInv
    <3> QED
      BY <1>1, <3>2 DEF NightInv, FactRight
  <2>3. BillingSettled
    <3> SUFFICES ASSUME missed = {}, phase = "day", NEW d \in 0..LastCreated, NEW g \in Groups,
                        day >= d + BillingDays, Count(d, g) > 0,
                        NoneLate(d, g)
                 PROVE  bill[<<d, g>>] = Count(d, g)
      BY DEF BillingSettled, NoneLate
    <3>1. d + BillingDays \in Nat /\ day \in Nat
      BY <1>1, <2>1 DEF ArchiveAssumption, NightInv, NightTypes, Days
    <3>2. Past(d + BillingDays, {"status", "archive", "day"})
      BY <3>1 DEF Past
    <3> QED
      BY <1>1, <3>2 DEF NightInv, BillRight
  <2> QED
    BY <2>2, <2>3 DEF FactsSettled
<1> QED
  BY <1>1, NightAlways, PTL

\* The PDF of a letter is gone with its row, when a batch of _delete_letters_from_s3 has
\* room for all letters of the service, unless S3 failed to delete it, it was left in
\* the bucket of the virus scan, or something was written to the letter during the sweep.
THEOREM PdfsGone == Spec => []ArchivedHasNoPdf
<1>1. NightInv => ArchivedHasNoPdf
  BY DEF NightInv, NightTypes, PdfRight, Lasting, ArchivedHasNoPdf
<1> QED
  BY <1>1, NightAlways, PTL
=============================================================================
