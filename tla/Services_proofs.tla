-------------------------- MODULE Services_proofs --------------------------
(***************************************************************************)
(* Proofs about the records of a service and those who change them: its    *)
(* versions, its keys in the caches, its team, its text message senders    *)
(* and its template folders; and, last, what holds of the platform whose   *)
(* parts share no state.                                                   *)
(***************************************************************************)
EXTENDS MCPlatform, Operations_proofs

-----------------------------------------------------------------------------
(* ServiceRecords.                                                         *)

Session == [op : Records \cup {"archive"}, read : [Records -> RecordRow]]

\* The request of w saw e as it is, or an older version of it.
SawRow(w, e) ==
  /\ session[w].read[e].version <= rows[e].version
  /\ session[w].read[e].version = rows[e].version => session[w].read[e] = rows[e]

RecordInv ==
  /\ rows \in [Records -> RecordRow]
  /\ \A e \in Records : rows[e].name <= rows[e].version
  /\ DOMAIN recordHistory = Records
  /\ session \in [Writers -> {NoSession} \cup Session]
  /\ \A w \in Writers : session[w] # NoSession =>
       /\ \A e \in Records : SawRow(w, e)
       /\ \A e \in Changes(session[w].op, session[w].read) :
            session[w].read[e].version < MaxVersion
  /\ HistoryIsComplete

LEMMA RowTypes ==
  ASSUME RecordAssumption
  PROVE  /\ Absent \in RecordRow /\ FirstVersion \in RecordRow
         /\ Absent.version = 0 /\ FirstVersion.version = 1
         /\ Absent.name = 0 /\ FirstVersion.name = 0
BY DEF RecordAssumption, Absent, FirstVersion, RecordRow

LEMMA ChangesRecords ==
  ASSUME NEW op \in Records \cup {"archive"}, NEW read
  PROVE  Changes(op, read) \subseteq Records
BY DEF Changes, Archives, LiveRecords, Records

LEMMA RecordsStart == RecordAssumption /\ RecordInit => RecordInv
<1> SUFFICES ASSUME RecordAssumption, RecordInit PROVE RecordInv
  OBVIOUS
<1>1. rows \in [Records -> RecordRow]
  BY RowTypes DEF RecordInit
<1>2. DOMAIN recordHistory = Records /\ session \in [Writers -> {NoSession} \cup Session]
  BY DEF RecordInit
<1>3. \A w \in Writers : session[w] = NoSession
  BY DEF RecordInit
<1>4. HistoryIsComplete
  <2> SUFFICES ASSUME NEW e \in Records
               PROVE  /\ DOMAIN recordHistory[e] = 1..rows[e].version
                      /\ rows[e].version > 0 => recordHistory[e][rows[e].version] = rows[e]
    BY DEF HistoryIsComplete
  <2>1. CASE e \in Keys \ FirstKeys
    <3>1. rows[e].version = 0 /\ recordHistory[e] = <<>>
      BY <2>1, RowTypes DEF RecordInit
    <3> QED
      BY <3>1
  <2>2. CASE e \notin Keys \ FirstKeys
    <3>1. rows[e] = FirstVersion /\ recordHistory[e] = <<FirstVersion>>
      BY <2>2 DEF RecordInit
    <3> QED
      BY <3>1, RowTypes
  <2> QED
    BY <2>1, <2>2
<1>5. \A e \in Records : rows[e].name <= rows[e].version
  BY RowTypes DEF RecordInit
<1> QED
  BY <1>1, <1>2, <1>3, <1>4, <1>5 DEF RecordInv

\* The new row of a record is its next version.
LEMMA WrittenType ==
  ASSUME RecordAssumption, NEW op, NEW read \in [Records -> RecordRow], NEW e \in Records,
         read[e].version < MaxVersion, read[e].name <= read[e].version
  PROVE  /\ Written(op, read, e) \in RecordRow
         /\ Written(op, read, e).version = read[e].version + 1
         /\ Written(op, read, e).name <= Written(op, read, e).version
<1>1. read[e] \in RecordRow
  OBVIOUS
<1>2. CASE read[e].version = 0
  BY <1>2, RowTypes DEF Written
<1>3. CASE read[e].version # 0
  <2> DEFINE r == read[e]
  <2>1. /\ r.version \in 0..MaxVersion /\ r.name \in 0..MaxVersion /\ r.ended \in BOOLEAN
    BY <1>1 DEF RecordRow
  <2>2. r.version + 1 \in 0..MaxVersion /\ r.name + 1 \in 0..MaxVersion
    BY <2>1 DEF RecordAssumption
  <2>3. /\ Edited(r) \in RecordRow /\ Edited(r).version = r.version + 1
        /\ Edited(r).name = r.name + 1
    BY <1>1, <2>1, <2>2 DEF RecordRow, Edited
  <2>4. /\ Ended(r) \in RecordRow /\ Ended(r).version = r.version + 1
        /\ Ended(r).name = r.name
    BY <1>1, <2>1, <2>2 DEF RecordRow, Ended
  <2> QED
    BY <1>3, <2>1, <2>3, <2>4 DEF Written
<1> QED
  BY <1>2, <1>3

\* A request that committed did so on rows that are as it read them, so that the
\* columns it did not change are the row's.
LEMMA CommitOnRead ==
  ASSUME RecordAssumption, RecordInv, NEW w \in Writers, CommitRows(w), HistoryKeyFree(w),
         NEW e \in Records
  PROVE  LET op == session[w].op
             read == session[w].read
         IN /\ session[w] \in Session
            /\ e \in Changes(op, read) =>
                 /\ read[e] = rows[e] /\ rows[e].version < MaxVersion
                 /\ rows'[e] = Written(op, read, e)
                 /\ recordHistory'[e] =
                      [v \in DOMAIN recordHistory[e] \cup {rows'[e].version} |->
                         IF v = rows'[e].version THEN rows'[e] ELSE recordHistory[e][v]]
            /\ e \notin Changes(op, read) =>
                 rows'[e] = rows[e] /\ recordHistory'[e] = recordHistory[e]
<1> DEFINE op == session[w].op
           read == session[w].read
           new == [d \in Changes(op, read) |-> Written(op, read, d)]
           Merged(d) == [new[d] EXCEPT
                           !.name = IF @ = read[d].name THEN rows[d].name ELSE @,
                           !.ended = IF @ = read[d].ended THEN rows[d].ended ELSE @]
<1>1. session[w] # NoSession /\ session[w] \in Session
  BY DEF CommitRows, RecordInv
<1>2. op \in Records \cup {"archive"} /\ read \in [Records -> RecordRow]
  BY <1>1 DEF Session
<1>3. /\ rows' = [d \in Records |-> IF d \in DOMAIN new THEN Merged(d) ELSE rows[d]]
      /\ recordHistory' = [d \in Records |->
           IF d \notin DOMAIN new THEN recordHistory[d]
           ELSE [v \in DOMAIN recordHistory[d] \cup {new[d].version} |->
                   IF v = new[d].version THEN new[d] ELSE recordHistory[d][v]]]
  BY DEF CommitRows
<1>4. CASE e \notin Changes(op, read)
  BY <1>1, <1>3, <1>4
<1>5. CASE e \in Changes(op, read)
  <2>1. rows[e] \in RecordRow /\ read[e] \in RecordRow
    BY <1>2 DEF RecordInv
  <2>2. /\ SawRow(w, e) /\ read[e].version < MaxVersion
        /\ DOMAIN recordHistory[e] = 1..rows[e].version
    BY <1>1, <1>5 DEF RecordInv, HistoryIsComplete
  <2>3. read[e].version + 1 \notin 1..rows[e].version
    BY <1>5, <2>2 DEF HistoryKeyFree
  <2>4. read[e].version = rows[e].version
    BY <2>1, <2>2, <2>3 DEF SawRow, RecordRow
  <2>5. read[e] = rows[e]
    BY <2>2, <2>4 DEF SawRow
  <2>6. new[e] \in RecordRow /\ new[e] = Written(op, read, e)
    BY <1>2, <1>5, <2>2, <2>5, WrittenType DEF RecordInv
  <2>7. Merged(e) = new[e]
    BY <2>1, <2>5, <2>6 DEF RecordRow
  <2>8. rows'[e] = new[e]
    BY <1>3, <1>5, <2>7
  <2> QED
    BY <1>1, <1>3, <1>5, <2>2, <2>5, <2>6, <2>8
<1> QED
  BY <1>4, <1>5

LEMMA ReadHolds ==
  ASSUME RecordAssumption, RecordInv, NEW w \in Writers,
         NEW op \in Records \cup {"archive"}, ReadRows(w, op)
  PROVE  RecordInv'
<1> DEFINE s == [op |-> op, read |-> rows]
<1>1. s \in Session /\ session' = [session EXCEPT ![w] = s]
  BY DEF ReadRows, Session, RecordInv
<1>2. UNCHANGED <<rows, recordHistory>>
  BY DEF ReadRows
<1>3. session' \in [Writers -> {NoSession} \cup Session]
  BY <1>1 DEF RecordInv
<1>4. ASSUME NEW v \in Writers, session'[v] # NoSession
      PROVE  /\ \A e \in Records : SawRow(v, e)'
             /\ \A e \in Changes(session'[v].op, session'[v].read) :
                  session'[v].read[e].version < MaxVersion
  <2>1. CASE v = w
    <3>1. session'[v].read = rows /\ session'[v].op = op
      BY <1>1, <2>1 DEF RecordInv
    <3>2. \A e \in Records : rows[e].version \in Nat
      BY DEF RecordInv, RecordRow, RecordAssumption
    <3>3. \A e \in Changes(op, rows) : rows[e].version < MaxVersion
      BY DEF ReadRows
    <3> QED
      BY <1>2, <3>1, <3>2, <3>3 DEF SawRow
  <2>2. CASE v # w
    <3>1. session'[v] = session[v]
      BY <1>1, <2>2 DEF RecordInv
    <3> QED
      BY <1>2, <1>4, <3>1 DEF RecordInv, SawRow
  <2> QED
    BY <2>1, <2>2
<1> QED
  BY <1>2, <1>3, <1>4 DEF RecordInv, HistoryIsComplete

LEMMA CommitHolds ==
  ASSUME RecordAssumption, RecordInv, NEW w \in Writers, CommitRows(w)
  PROVE  RecordInv'
<1>1. session' = [session EXCEPT ![w] = NoSession]
  BY DEF CommitRows
<1>2. session' \in [Writers -> {NoSession} \cup Session]
  BY <1>1 DEF RecordInv
<1>3. ASSUME NEW v \in Writers, session'[v] # NoSession
      PROVE  v # w /\ session'[v] = session[v]
  BY <1>1, <1>3 DEF RecordInv
<1>4. CASE ~HistoryKeyFree(w)
  <2>1. UNCHANGED <<rows, recordHistory>>
    BY <1>4 DEF CommitRows
  <2> QED
    BY <1>2, <1>3, <2>1 DEF RecordInv, HistoryIsComplete, SawRow
<1>5. CASE HistoryKeyFree(w)
  <2> DEFINE op == session[w].op
             read == session[w].read
  <2>1. op \in Records \cup {"archive"} /\ read \in [Records -> RecordRow]
    <3>1. session[w] \in Session
      BY DEF CommitRows, RecordInv
    <3> QED
      BY <3>1 DEF Session
  <2>2. DOMAIN rows' = Records /\ DOMAIN recordHistory' = Records /\ rows' = [e \in Records |-> rows'[e]]
    BY <1>5 DEF CommitRows
  <2>3. ASSUME NEW e \in Records
        PROVE  /\ rows'[e] \in RecordRow /\ rows'[e].name <= rows'[e].version
               /\ DOMAIN recordHistory'[e] = 1..rows'[e].version
               /\ rows'[e].version > 0 => recordHistory'[e][rows'[e].version] = rows'[e]
               /\ \/ rows'[e] = rows[e]
                  \/ rows'[e].version = rows[e].version + 1
    <3>1. CASE e \notin Changes(op, read)
      BY <1>5, <3>1, CommitOnRead DEF RecordInv, HistoryIsComplete
    <3>2. CASE e \in Changes(op, read)
      <4>1. /\ read[e] = rows[e] /\ rows[e].version < MaxVersion
            /\ rows'[e] = Written(op, read, e)
            /\ recordHistory'[e] =
                 [v \in DOMAIN recordHistory[e] \cup {rows'[e].version} |->
                    IF v = rows'[e].version THEN rows'[e] ELSE recordHistory[e][v]]
        BY <1>5, <3>2, CommitOnRead
      <4>2. /\ rows'[e] \in RecordRow /\ rows'[e].name <= rows'[e].version
            /\ rows'[e].version = rows[e].version + 1
        BY <2>1, <4>1, WrittenType DEF RecordInv
      <4>3. rows[e].version \in Nat /\ DOMAIN recordHistory[e] = 1..rows[e].version
        BY DEF RecordInv, HistoryIsComplete, RecordRow, RecordAssumption
      <4>4. DOMAIN recordHistory'[e] = 1..rows'[e].version
        BY <4>1, <4>2, <4>3
      <4> QED
        BY <4>1, <4>2, <4>3, <4>4
    <3> QED
      BY <3>1, <3>2
  <2>4. rows' \in [Records -> RecordRow]
    BY <2>2, <2>3
  <2>5. HistoryIsComplete'
    BY <2>3 DEF HistoryIsComplete
  <2>6. ASSUME NEW v \in Writers, session'[v] # NoSession
        PROVE  /\ \A e \in Records : SawRow(v, e)'
               /\ \A e \in Changes(session'[v].op, session'[v].read) :
                    session'[v].read[e].version < MaxVersion
    <3>1. /\ session'[v] = session[v] /\ session[v] \in Session
          /\ \A e \in Changes(session[v].op, session[v].read) :
               session[v].read[e].version < MaxVersion
      BY <1>3, <2>6 DEF RecordInv
    <3>2. ASSUME NEW e \in Records PROVE SawRow(v, e)'
      <4>1. SawRow(v, e) /\ session[v].read[e] \in RecordRow /\ rows[e] \in RecordRow
        BY <3>1, <1>3, <2>6 DEF RecordInv, Session
      <4>2. rows'[e] = rows[e] \/ rows'[e].version = rows[e].version + 1
        BY <2>3
      <4>3. session[v].read[e].version \in Nat /\ rows[e].version \in Nat
        BY <4>1 DEF RecordRow, RecordAssumption
      <4> QED
        BY <3>1, <4>1, <4>2, <4>3 DEF SawRow
    <3> QED
      BY <3>1, <3>2
  <2> QED
    BY <1>2, <2>2, <2>3, <2>4, <2>5, <2>6 DEF RecordInv
<1> QED
  BY <1>4, <1>5

LEMMA RecordsStep ==
  ASSUME RecordAssumption, RecordInv, [RecordNext]_recordVars
  PROVE  RecordInv'
<1>1. CASE UNCHANGED recordVars
  BY <1>1 DEF RecordInv, HistoryIsComplete, SawRow, recordVars
<1>2. CASE RecordNext
  BY <1>2, ReadHolds, CommitHolds DEF RecordNext
<1> QED
  BY <1>1, <1>2

\* No request replaces a row that it has not read.
LEMMA StepLosesNothing ==
  ASSUME RecordAssumption, RecordInv, [RecordNext]_recordVars,
         NEW w \in Writers, session[w] # NoSession, session'[w] = NoSession,
         NEW e \in Records, rows'[e] # rows[e]
  PROVE  session[w].read[e] = rows[e]
<1>1. PICK v \in Writers : CommitRows(v)
  BY DEF RecordNext, ReadRows, recordVars
<1>2. v = w
  BY <1>1 DEF CommitRows, RecordInv
<1>3. HistoryKeyFree(w)
  BY <1>1, <1>2 DEF CommitRows
<1> QED
  BY <1>1, <1>2, <1>3, CommitOnRead

\* The rows of a history are rows.
HistoryTyped(e) == recordHistory[e] \in [DOMAIN recordHistory[e] -> RecordRow]

LEMMA HistoryStep ==
  ASSUME RecordAssumption, RecordInv, RecordInv', [RecordNext]_recordVars,
         NEW e \in Records, HistoryTyped(e)
  PROVE  HistoryTyped(e)'
<1>1. CASE recordHistory'[e] = recordHistory[e]
  BY <1>1 DEF HistoryTyped
<1>2. CASE recordHistory'[e] # recordHistory[e]
  <2>1. PICK w \in Writers : CommitRows(w)
    BY <1>2 DEF RecordNext, ReadRows, recordVars
  <2>2. HistoryKeyFree(w)
    BY <1>2, <2>1 DEF CommitRows
  <2>3. recordHistory'[e] =
          [v \in DOMAIN recordHistory[e] \cup {rows'[e].version} |->
             IF v = rows'[e].version THEN rows'[e] ELSE recordHistory[e][v]]
    BY <1>2, <2>1, <2>2, CommitOnRead
  <2>4. rows'[e] \in RecordRow
    BY DEF RecordInv
  <2> QED BY <2>3, <2>4 DEF HistoryTyped
<1> QED BY <1>1, <1>2

LEMMA HistoryStarts == RecordInit => \A e \in Records : HistoryTyped(e)
<1> SUFFICES ASSUME RecordInit, NEW e \in Records PROVE HistoryTyped(e)
  OBVIOUS
<1>1. FirstVersion \in RecordRow
  BY RecordAssumption, RowTypes
<1>2. recordHistory[e] = <<>> \/ recordHistory[e] = <<FirstVersion>>
  BY DEF RecordInit
<1>3. CASE recordHistory[e] = <<>>
  BY <1>3 DEF HistoryTyped
<1>4. CASE recordHistory[e] = <<FirstVersion>>
  <2>1. DOMAIN recordHistory[e] = 1..1 /\ recordHistory[e][1] = FirstVersion
    BY <1>4
  <2>2. recordHistory[e] = [v \in 1..1 |-> recordHistory[e][v]]
    BY <1>4
  <2>3. \A v \in 1..1 : v = 1
    OBVIOUS
  <2> QED BY <1>1, <2>1, <2>2, <2>3 DEF HistoryTyped
<1> QED BY <1>2, <1>3, <1>4

\* The history of every record has every version from the first to the live row
\* (version_class, create_history).
THEOREM HistoryComplete == RecordSpec => [](HistoryIsComplete /\ RecordTypeOK)
<1>1. RecordSpec => []RecordInv
  BY RecordAssumption, RecordsStart, RecordsStep, PTL DEF RecordSpec
<1>2. RecordInv /\ RecordInv' /\ [RecordNext]_recordVars /\ (\A e \in Records : HistoryTyped(e))
        => (\A e \in Records : HistoryTyped(e))'
  BY RecordAssumption, HistoryStep
<1>3. RecordSpec => [](\A e \in Records : HistoryTyped(e))
  BY <1>1, <1>2, HistoryStarts, PTL DEF RecordSpec
<1>4. RecordInv /\ (\A e \in Records : HistoryTyped(e)) => HistoryIsComplete /\ RecordTypeOK
  <2> SUFFICES ASSUME RecordInv, \A e \in Records : HistoryTyped(e)
               PROVE  HistoryIsComplete /\ RecordTypeOK
    OBVIOUS
  <2>1. ASSUME NEW w \in Writers
        PROVE  session[w] = NoSession \/ session[w].read \in [Records -> RecordRow]
    <3>1. session[w] = NoSession \/ session[w] \in Session
      BY DEF RecordInv
    <3> QED BY <3>1 DEF Session
  <2>2. HistoryIsComplete /\ rows \in [Records -> RecordRow]
    BY DEF RecordInv
  <2> QED BY <2>1, <2>2 DEF HistoryTyped, RecordTypeOK
<1> QED
  BY <1>1, <1>3, <1>4, PTL

\* A commit replaces only what its request has read (autocommit's rollback on the
\* history table's primary key).
THEOREM NothingLost == RecordSpec => NoLostUpdate
<1>1. RecordSpec => []RecordInv
  BY RecordAssumption, RecordsStart, RecordsStep, PTL DEF RecordSpec
<1>2. RecordInv /\ [RecordNext]_recordVars =>
        [\A w \in Writers : session[w] # NoSession /\ session'[w] = NoSession =>
           \A e \in Records : rows'[e] # rows[e] => session[w].read[e] = rows[e]]_recordVars
  BY RecordAssumption, StepLosesNothing
<1> QED
  BY <1>1, <1>2, PTL DEF RecordSpec, NoLostUpdate

-----------------------------------------------------------------------------
(* ApiAccess.                                                              *)

Ages == 0..(Ttl - 1)
MemoryType == [service : {Nothing, TRUE, FALSE}, serviceAge : Ages,
               attached : {Nothing} \cup SUBSET ApiKeys,
               keys : {Nothing} \cup SUBSET ApiKeys, keysAge : Ages]

\* How long a key that a process still holds may have been of no use.
HeldRight(m) ==
  /\ m.keys # Nothing => \A k \in m.keys \cap ApiKeys :
       endedFor[k] <= m.keysAge /\ closedFor[k] <= m.keysAge + 1
  /\ m.attached # Nothing => \A k \in m.attached \cap ApiKeys :
       endedFor[k] <= m.serviceAge + Ttl - 1 /\ closedFor[k] <= m.serviceAge + Ttl

\* The inductive invariant of the caches.
AccessRight ==
  /\ active \in BOOLEAN /\ redis \in {Nothing, TRUE, FALSE}
  /\ keyState \in [ApiKeys -> {"none", "usable", "expired"}]
  /\ endedFor \in [ApiKeys -> Unending] /\ closedFor \in [ApiKeys -> Unending]
  /\ memory \in [Procs -> MemoryType]
  /\ \A k \in ApiKeys : keyState[k] # "expired" => endedFor[k] = 0 /\ closedFor[k] = 0
  /\ \A p \in Procs : HeldRight(memory[p])

LEMMA AccessStarts == AccessAssumption /\ AccessInit => AccessRight
<1> SUFFICES ASSUME AccessAssumption, AccessInit PROVE AccessRight
  OBVIOUS
<1>1. 0 \in Unending /\ 0 \in Ages
  BY DEF AccessAssumption, Unending, Ages
<1>2. EmptyMemory \in MemoryType /\ EmptyMemory.keys = Nothing /\ EmptyMemory.attached = Nothing
  BY <1>1 DEF EmptyMemory, MemoryType
<1>3. \A p \in Procs : memory[p] = EmptyMemory
  BY DEF AccessInit
<1>4. \A p \in Procs : HeldRight(memory[p])
  BY <1>2, <1>3 DEF HeldRight
<1>5. memory \in [Procs -> MemoryType]
  BY <1>2 DEF AccessInit
<1> QED BY <1>1, <1>4, <1>5 DEF AccessRight, AccessInit

LEMMA AccessTypes ==
  ASSUME AccessAssumption, AccessRight
  PROVE  /\ \A k \in ApiKeys : endedFor[k] \in Nat /\ closedFor[k] \in Nat
         /\ \A n \in Ages : n \in Nat
         /\ Ttl \in Nat /\ 0 \in Ages /\ 1 \in Unending /\ 0 \in Unending
         /\ \A p \in Procs : memory[p] \in MemoryType /\ HeldRight(memory[p])
BY DEF AccessAssumption, AccessRight, Unending, Ages

\* Keys and the service change in the database only.
LEMMA DatabaseStep ==
  ASSUME AccessAssumption, AccessRight,
         ArchiveService \/ \E k \in ApiKeys : CreateKey(k) \/ RevokeKey(k)
  PROVE  AccessRight'
<1>1. CASE ArchiveService
  <2>1. keyState' \in [ApiKeys -> {"none", "usable", "expired"}]
    BY <1>1 DEF ArchiveService, Expire, AccessRight
  <2>2. closedFor' \in [ApiKeys -> Unending]
    BY <1>1, AccessTypes DEF ArchiveService
  <2>3. \A k \in ApiKeys : closedFor'[k] = IF keyState[k] = "none" THEN 0 ELSE 1
    BY <1>1 DEF ArchiveService
  <2>4. UNCHANGED <<redis, memory, endedFor>> /\ active' \in BOOLEAN
    BY <1>1 DEF ArchiveService
  <2>5. \A k \in ApiKeys : keyState'[k] # "expired" => endedFor'[k] = 0 /\ closedFor'[k] = 0
    <3> SUFFICES ASSUME NEW k \in ApiKeys, keyState'[k] # "expired"
                 PROVE  endedFor'[k] = 0 /\ closedFor'[k] = 0
      OBVIOUS
    <3>1. keyState[k] = "none"
      BY <1>1 DEF ArchiveService, Expire, AccessRight
    <3> QED BY <2>3, <2>4, <3>1 DEF AccessRight
  <2>6. ASSUME NEW p \in Procs PROVE HeldRight(memory[p])'
    <3>1. memory[p].keysAge \in Nat /\ memory[p].serviceAge \in Nat /\ Ttl \in Nat \ {0}
      BY AccessTypes DEF MemoryType, AccessAssumption
    <3>2. \A k \in ApiKeys : closedFor'[k] <= memory[p].keysAge + 1
                             /\ closedFor'[k] <= memory[p].serviceAge + Ttl
      BY <2>3, <3>1
    <3> QED BY <2>4, <3>2, AccessTypes DEF HeldRight
  <2> QED BY <2>1, <2>2, <2>4, <2>5, <2>6 DEF AccessRight
<1>2. ASSUME NEW k \in ApiKeys, CreateKey(k) \/ RevokeKey(k) PROVE AccessRight'
  <2>1. UNCHANGED <<active, redis, memory, endedFor, closedFor>>
    BY <1>2 DEF CreateKey, RevokeKey
  <2>2. keyState' \in [ApiKeys -> {"none", "usable", "expired"}] /\ keyState[k] # "expired"
        /\ \A j \in ApiKeys \ {k} : keyState'[j] = keyState[j]
    BY <1>2 DEF CreateKey, RevokeKey, AccessRight
  <2>3. \A j \in ApiKeys : keyState'[j] # "expired" => endedFor[j] = 0 /\ closedFor[j] = 0
    BY <2>2 DEF AccessRight
  <2>4. \A p \in Procs : HeldRight(memory[p])'
    BY <2>1 DEF AccessRight, HeldRight
  <2> QED BY <2>1, <2>2, <2>3, <2>4 DEF AccessRight
<1> QED BY <1>1, <1>2

\* The memory of one process changes.
LEMMA MemoryStep ==
  ASSUME AccessAssumption, AccessRight, NEW p \in Procs, NEW m \in MemoryType,
         memory' = [memory EXCEPT ![p] = m], HeldRight(m),
         UNCHANGED <<active, keyState, endedFor, closedFor>>,
         redis' \in {Nothing, TRUE, FALSE}
  PROVE  AccessRight'
<1>1. memory' \in [Procs -> MemoryType] /\ memory'[p] = m
      /\ \A q \in Procs \ {p} : memory'[q] = memory[q]
  BY DEF AccessRight
<1>2. ASSUME NEW q \in Procs PROVE HeldRight(memory'[q]) /\ HeldRight(memory[q])'
  BY <1>1 DEF AccessRight, HeldRight
<1> QED BY <1>1, <1>2 DEF AccessRight

LEMMA LoadStep ==
  ASSUME AccessAssumption, AccessRight, NEW p \in Procs, NEW late \in BOOLEAN,
         LoadService(p, late)
  PROVE  AccessRight'
<1>1. PICK found \in {Nothing, TRUE, FALSE} :
        /\ redis' = found
        /\ memory' = [memory EXCEPT ![p].service = found, ![p].serviceAge = 0,
                                    ![p].attached = Nothing]
  BY DEF LoadService, AccessRight
<1>2. memory[p] \in MemoryType /\ HeldRight(memory[p]) /\ 0 \in Ages
  BY AccessTypes
<1> DEFINE m == [memory[p] EXCEPT !.service = found, !.serviceAge = 0, !.attached = Nothing]
<1>3. m \in MemoryType /\ m.keys = memory[p].keys /\ m.keysAge = memory[p].keysAge
      /\ m.attached = Nothing
  BY <1>2 DEF MemoryType
<1>4. memory' = [memory EXCEPT ![p] = m]
  BY <1>1
<1> HIDE DEF m
<1>5. HeldRight(m)
  BY <1>2, <1>3 DEF HeldRight
<1>6. UNCHANGED <<active, keyState, endedFor, closedFor>>
  BY DEF LoadService
<1> QED BY <1>1, <1>3, <1>4, <1>5, <1>6, MemoryStep

LEMMA AttachStep ==
  ASSUME AccessAssumption, AccessRight, NEW p \in Procs, AttachKeys(p)
  PROVE  AccessRight'
<1>1. memory[p] \in MemoryType /\ HeldRight(memory[p]) /\ 0 \in Ages
  BY AccessTypes
<1> DEFINE held == memory[p].keys # Nothing
           keys == IF held THEN memory[p].keys ELSE Usable
           keyAge == IF held THEN memory[p].keysAge ELSE 0
           m == [memory[p] EXCEPT !.attached = keys, !.keys = keys, !.keysAge = keyAge]
<1>2. keys \in {Nothing} \cup SUBSET ApiKeys /\ keyAge \in Ages
  BY <1>1 DEF MemoryType, Usable
<1>3. memory' = [memory EXCEPT ![p] = m]
  BY DEF AttachKeys
<1>4. m \in MemoryType /\ m.keys = keys /\ m.keysAge = keyAge /\ m.attached = keys
      /\ m.serviceAge = memory[p].serviceAge
  <2> HIDE DEF keys, keyAge, held
  <2> QED BY <1>1, <1>2 DEF MemoryType
<1>5. ASSUME NEW k \in keys \cap ApiKeys, keys # Nothing
      PROVE  endedFor[k] <= keyAge /\ closedFor[k] <= keyAge + 1
  <2>1. CASE held
    BY <1>1, <1>5, <2>1 DEF HeldRight
  <2>2. CASE ~held
    <3>1. keyState[k] = "usable"
      BY <1>5, <2>2 DEF Usable
    <3>2. endedFor[k] = 0 /\ closedFor[k] = 0
      BY <1>5, <3>1 DEF AccessRight
    <3> QED BY <2>2, <3>2
  <2> QED BY <2>1, <2>2
<1> HIDE DEF held, keys, keyAge
<1>6. m.serviceAge \in Nat /\ keyAge \in 0..(Ttl - 1) /\ Ttl \in Nat
  BY <1>1, <1>2, <1>4, AccessTypes DEF MemoryType, Ages
<1>7. ASSUME NEW k \in keys \cap ApiKeys, keys # Nothing
      PROVE  endedFor[k] <= m.serviceAge + Ttl - 1 /\ closedFor[k] <= m.serviceAge + Ttl
  <2>1. endedFor[k] \in Nat /\ closedFor[k] \in Nat
    BY <1>7, AccessTypes
  <2> HIDE DEF m
  <2> QED BY <1>5, <1>6, <1>7, <2>1
<1> HIDE DEF m
<1>8. HeldRight(m)
  BY <1>4, <1>5, <1>7 DEF HeldRight
<1>9. UNCHANGED <<active, keyState, endedFor, closedFor>> /\ redis' \in {Nothing, TRUE, FALSE}
  BY DEF AttachKeys, AccessRight
<1> QED BY <1>3, <1>4, <1>8, <1>9, MemoryStep

\* A tick: what a process holds gets older with the keys in it, or is dropped.
LEMMA SecondStep ==
  ASSUME AccessAssumption, AccessRight, Second
  PROVE  AccessRight'
<1>1. ASSUME NEW n \in Unending PROVE Longer(n) \in Unending /\ Longer(n) <= n + 1
  BY DEF Longer, Unending, AccessAssumption
<1>2. ASSUME NEW k \in ApiKeys
      PROVE  /\ endedFor'[k] \in Unending /\ closedFor'[k] \in Unending
             /\ endedFor'[k] <= endedFor[k] + 1 /\ closedFor'[k] <= closedFor[k] + 1
             /\ keyState'[k] # "expired" => endedFor'[k] = 0 /\ closedFor'[k] = 0
  <2>1. endedFor[k] \in Unending /\ closedFor[k] \in Unending
    BY DEF AccessRight
  <2>2. endedFor'[k] = IF keyState[k] = "expired" THEN Longer(endedFor[k]) ELSE 0
    BY DEF Second
  <2>3. closedFor'[k] = IF closedFor[k] > 0 THEN Longer(closedFor[k]) ELSE 0
    BY DEF Second
  <2>4. 0 \in Unending /\ endedFor[k] \in Nat /\ closedFor[k] \in Nat
    BY AccessTypes
  <2>5. keyState'[k] # "expired" => closedFor[k] = 0 /\ keyState[k] # "expired"
    BY DEF AccessRight, Second
  <2> QED BY <1>1, <2>1, <2>2, <2>3, <2>4, <2>5
<1>3. ASSUME NEW p \in Procs
      PROVE  memory'[p] \in MemoryType /\ HeldRight(memory[p])'
  <2> DEFINE m == memory[p]
             a == Aged(m)
             s == m.service # Nothing /\ Fresh(m.serviceAge + 1)
             c == m.keys # Nothing /\ Fresh(m.keysAge + 1)
  <2>1. m \in MemoryType /\ HeldRight(m) /\ Ttl \in Nat /\ 0 \in Ages
    BY AccessTypes
  <2>2. a = [service |-> IF s THEN m.service ELSE Nothing,
             serviceAge |-> IF s THEN m.serviceAge + 1 ELSE 0,
             attached |-> IF s THEN m.attached ELSE Nothing,
             keys |-> IF c THEN m.keys ELSE Nothing,
             keysAge |-> IF c THEN m.keysAge + 1 ELSE 0]
    BY DEF Aged
  <2>3. m.service \in {Nothing, TRUE, FALSE} /\ m.serviceAge \in Ages /\ m.keysAge \in Ages
        /\ m.attached \in {Nothing} \cup SUBSET ApiKeys
        /\ m.keys \in {Nothing} \cup SUBSET ApiKeys
    BY <2>1 DEF MemoryType
  <2> HIDE DEF m
  <2>4. (s => m.serviceAge + 1 \in Ages) /\ (c => m.keysAge + 1 \in Ages)
    BY <2>1, <2>3 DEF Fresh, Ages
  <2>5. m.serviceAge \in Nat /\ m.keysAge \in Nat
    BY <2>3 DEF Ages
  <2> HIDE DEF s, c, a
  <2>6. a \in MemoryType
    BY <2>1, <2>2, <2>3, <2>4 DEF MemoryType
  <2>7. ASSUME a.keys # Nothing, NEW k \in a.keys \cap ApiKeys
        PROVE  endedFor'[k] <= a.keysAge /\ closedFor'[k] <= a.keysAge + 1
    <3>1. a.keys = m.keys /\ m.keys # Nothing /\ a.keysAge = m.keysAge + 1
      BY <2>2, <2>7 DEF c
    <3>2. endedFor[k] <= m.keysAge /\ closedFor[k] <= m.keysAge + 1
      BY <2>1, <2>7, <3>1 DEF HeldRight
    <3>3. endedFor[k] \in Nat /\ closedFor[k] \in Nat
          /\ endedFor'[k] \in Nat /\ closedFor'[k] \in Nat
      BY <1>2, <2>7, AccessTypes DEF Unending
    <3> QED BY <1>2, <2>5, <2>7, <3>1, <3>2, <3>3
  <2>8. ASSUME a.attached # Nothing, NEW k \in a.attached \cap ApiKeys
        PROVE  endedFor'[k] <= a.serviceAge + Ttl - 1 /\ closedFor'[k] <= a.serviceAge + Ttl
    <3>1. a.attached = m.attached /\ m.attached # Nothing /\ a.serviceAge = m.serviceAge + 1
      BY <2>2, <2>8
    <3>2. endedFor[k] <= m.serviceAge + Ttl - 1 /\ closedFor[k] <= m.serviceAge + Ttl
      BY <2>1, <2>8, <3>1 DEF HeldRight
    <3>3. endedFor[k] \in Nat /\ closedFor[k] \in Nat
          /\ endedFor'[k] \in Nat /\ closedFor'[k] \in Nat
      BY <1>2, <2>8, AccessTypes DEF Unending
    <3> QED BY <1>2, <2>1, <2>5, <2>8, <3>1, <3>2, <3>3
  <2>9. memory'[p] = a
    BY DEF Second, a, m
  <2> QED BY <2>6, <2>7, <2>8, <2>9 DEF HeldRight
<1>4. memory' \in [Procs -> MemoryType]
  BY <1>3 DEF Second
<1>5. endedFor' \in [ApiKeys -> Unending] /\ closedFor' \in [ApiKeys -> Unending]
  BY <1>2 DEF Second
<1>6. UNCHANGED <<active, keyState, redis>>
  BY DEF Second
<1>7. \A p \in Procs : HeldRight(memory[p])'
  BY <1>3
<1> QED BY <1>2, <1>4, <1>5, <1>6, <1>7 DEF AccessRight

LEMMA AccessSteps == AccessAssumption /\ AccessRight /\ [AccessNext]_accessVars => AccessRight'
<1> SUFFICES ASSUME AccessAssumption, AccessRight, [AccessNext]_accessVars PROVE AccessRight'
  OBVIOUS
<1>1. CASE UNCHANGED accessVars
  BY <1>1 DEF accessVars, AccessRight, HeldRight
<1>2. CASE ArchiveService \/ \E k \in ApiKeys : CreateKey(k) \/ RevokeKey(k)
  BY <1>2, DatabaseStep
<1>3. CASE InvalidateService
  BY <1>3 DEF InvalidateService, AccessRight, HeldRight
<1>4. ASSUME NEW p \in Procs, (\E late \in BOOLEAN : LoadService(p, late)) \/ AttachKeys(p)
      PROVE  AccessRight'
  BY <1>4, LoadStep, AttachStep
<1>5. CASE Second
  BY <1>5, SecondStep
<1> QED BY <1>1, <1>2, <1>3, <1>4, <1>5 DEF AccessNext

LEMMA AccessRightSuffices ==
  AccessAssumption /\ AccessRight => EndedSoonRefused /\ AccessTypeOK
<1> SUFFICES ASSUME AccessAssumption, AccessRight
             PROVE  EndedSoonRefused /\ AccessTypeOK
  OBVIOUS
<1>1. ASSUME NEW p \in Procs, NEW k \in ApiKeys, Accepts(p, k)
      PROVE  endedFor[k] < 2 * Ttl /\ closedFor[k] <= 2 * Ttl
  <2>1. endedFor[k] <= memory[p].serviceAge + Ttl - 1
        /\ closedFor[k] <= memory[p].serviceAge + Ttl
    BY <1>1, AccessTypes DEF Accepts, HeldRight
  <2>2. memory[p].serviceAge \in 0..(Ttl - 1)
    BY AccessTypes DEF MemoryType, Ages
  <2>3. endedFor[k] \in Nat /\ closedFor[k] \in Nat /\ Ttl \in Nat
    BY AccessTypes
  <2> QED BY <2>1, <2>2, <2>3
<1>2. ASSUME NEW p \in Procs
      PROVE  /\ memory[p].service \in {Nothing, TRUE, FALSE}
             /\ memory[p].keys \in {Nothing} \cup SUBSET ApiKeys
             /\ memory[p].attached \in {Nothing} \cup SUBSET ApiKeys
             /\ {memory[p].serviceAge, memory[p].keysAge} \subseteq 0..(Ttl - 1)
  <2>1. memory[p] \in MemoryType
    BY AccessTypes
  <2> QED BY <2>1 DEF MemoryType, Ages
<1> QED BY <1>1, <1>2 DEF EndedSoonRefused, AccessTypeOK, AccessRight

\* A key that was revoked, or that a service had when it was archived, is refused by
\* every process after twice the time to live of its caches, whatever Redis still says
\* of the service (requires_auth, SerialisedService, dao_archive_service).
THEOREM EndedRefused == AccessSpec => [](EndedSoonRefused /\ AccessTypeOK)
<1>1. AccessInit => AccessRight
  BY AccessAssumption, AccessStarts
<1>2. AccessRight /\ [AccessNext]_accessVars => AccessRight'
  BY AccessAssumption, AccessSteps
<1>3. AccessRight => EndedSoonRefused /\ AccessTypeOK
  BY AccessAssumption, AccessRightSuffices
<1> QED BY <1>1, <1>2, <1>3, PTL DEF AccessSpec

-----------------------------------------------------------------------------
(* Teams.                                                                  *)

CallType == [op : {"none", "add", "remove", "archive", "permissions", "approve", "tidy",
                    "died"},
             user : Users, perms : SUBSET PermissionNames, stale : BOOLEAN]

\* What a request that overlaps no other still finds as it read it.
StillHolds(c) ==
  ~c.stale =>
    /\ c.op = "remove" => c.user \in member /\ member # {c.user}
    /\ c.op = "archive" => MayArchiveUser(c.user)
    /\ c.op = "permissions" => c.user \in member

TeamTyped ==
  /\ userState \in [Users -> {"pending", "active", "inactive"}]
  /\ member \subseteq Users
  /\ granted \in [Users -> SUBSET PermissionNames]
  /\ join \in [JoinRequests -> [by : Users, status : Decisions \cup {"none"}]]
  /\ call \in [TeamCalls -> CallType]

\* The inductive invariant of the team.
TeamRight == TeamTyped /\ \A q \in TeamCalls : StillHolds(call[q])

LEMMA NoCallType == NoCall \in CallType /\ NoCall.op = "none" /\ NoCall.stale = FALSE
BY TeamAssumption DEF NoCall, CallType

LEMMA CallAt ==
  ASSUME TeamRight, NEW q \in TeamCalls
  PROVE  call[q] \in CallType /\ StillHolds(call[q])
BY DEF TeamRight, TeamTyped

LEMMA TeamStarts == TeamInit => TeamRight
<1> SUFFICES ASSUME TeamInit PROVE TeamRight
  OBVIOUS
<1>1. TeamTyped
  BY NoCallType, TeamAssumption DEF TeamInit, TeamTyped, NoJoin, Decisions
<1>2. \A q \in TeamCalls : call[q].op = "none"
  BY NoCallType DEF TeamInit
<1> QED BY <1>1, <1>2 DEF TeamRight, StillHolds

\* A request reads the team and goes on with what it found.
LEMMA CallsStep ==
  ASSUME TeamRight, NEW q \in TeamCalls, NEW c \in CallType,
         call' = [call EXCEPT ![q] = c], UNCHANGED Team,
         join' \in [JoinRequests -> [by : Users, status : Decisions \cup {"none"}]],
         StillHolds(c)
  PROVE  TeamRight'
<1>1. call' \in [TeamCalls -> CallType] /\ call'[q] = c
      /\ \A p \in TeamCalls \ {q} : call'[p] = call[p]
  BY DEF TeamRight, TeamTyped
<1>2. UNCHANGED <<userState, member, granted>>
  BY DEF Team
<1>3. \A p \in TeamCalls : StillHolds(call[p])'
  BY <1>1, <1>2 DEF TeamRight, StillHolds, MayArchiveUser
<1> QED BY <1>1, <1>2, <1>3 DEF TeamRight, TeamTyped

LEMMA CalledStep ==
  ASSUME TeamRight, NEW q \in TeamCalls, NEW u \in Users, NEW perms \in SUBSET PermissionNames,
         \/ CallAdd(q, u, perms) \/ CallRemove(q, u) \/ CallArchive(q, u)
         \/ CallPermissions(q, u, perms)
  PROVE  TeamRight'
<1>1. PICK op \in {"add", "remove", "archive", "permissions"}, ps \in SUBSET PermissionNames :
        /\ Called(q, op, u, ps)
        /\ op = "remove" => u \in member /\ member # {u}
        /\ op = "archive" => MayArchiveUser(u)
        /\ op = "permissions" => u \in member
  BY DEF CallAdd, CallRemove, CallArchive, CallPermissions
<1> DEFINE c == [op |-> op, user |-> u, perms |-> ps, stale |-> FALSE]
<1>2. call' = [call EXCEPT ![q] = c] /\ UNCHANGED <<Team, join>>
  BY <1>1 DEF Called
<1>3. c \in CallType /\ c.op = op /\ c.user = u
  BY DEF CallType
<1> HIDE DEF c
<1>4. StillHolds(c)
  BY <1>1, <1>3 DEF StillHolds
<1> QED BY <1>2, <1>3, <1>4, CallsStep DEF TeamRight, TeamTyped

LEMMA DecideStep ==
  ASSUME TeamRight, NEW q \in TeamCalls, NEW j \in JoinRequests, NEW d \in Decisions,
         NEW perms \in SUBSET PermissionNames, DecideJoin(q, j, d, perms)
  PROVE  TeamRight'
<1>1. UNCHANGED Team /\ call[q] = NoCall /\ join' = [join EXCEPT ![j].status = d]
  BY DEF DecideJoin
<1>2. join' \in [JoinRequests -> [by : Users, status : Decisions \cup {"none"}]]
      /\ join[j].by \in Users
  BY <1>1 DEF TeamRight, TeamTyped
<1> DEFINE c == [op |-> "approve", user |-> join[j].by, perms |-> perms, stale |-> FALSE]
<1>3. c \in CallType /\ StillHolds(c)
  BY <1>2 DEF CallType, StillHolds
<1>4. CASE call' = [call EXCEPT ![q] = c]
  <2> HIDE DEF c
  <2> QED BY <1>1, <1>2, <1>3, <1>4, CallsStep
<1>5. CASE call' = call
  BY <1>1, <1>2, <1>5 DEF TeamRight, TeamTyped, StillHolds, MayArchiveUser, Team
<1> QED BY <1>4, <1>5 DEF DecideJoin

\* A commit: the other requests that rest on the team have read an old one.
LEMMA CommitStep ==
  ASSUME TeamRight, NEW q \in TeamCalls, NEW op \in {"tidy", "none"}, GoesOn(q, op),
         UNCHANGED join, member' \subseteq Users,
         userState' \in [Users -> {"pending", "active", "inactive"}],
         granted' \in [Users -> SUBSET PermissionNames]
  PROVE  /\ TeamRight'
         /\ call[q].op # "none" => call'[q] # call[q] \/ op = "tidy"
         /\ \A p \in TeamCalls \ {q} : call'[p].op = call[p].op
<1>1. ASSUME NEW p \in TeamCalls
      PROVE  /\ call'[p] \in CallType /\ StillHolds(call[p])'
             /\ p # q => call'[p].op = call[p].op
             /\ (p = q /\ op = "none") => call'[p].op = "none"
  <2> DEFINE on == [call[p] EXCEPT !.op = op, !.perms = {}]
             late == [call[p] EXCEPT !.stale = TRUE]
  <2>1. call'[p] = CASE p = q /\ op = "none" -> NoCall
                     [] p = q /\ op # "none" -> on
                     [] p # q /\ call[p].op \in Reliant -> late
                     [] OTHER -> call[p]
    BY DEF GoesOn
  <2>2. call[p] \in CallType
    BY CallAt
  <2>3. on \in CallType /\ on.op = op /\ late \in CallType /\ late.op = call[p].op /\ late.stale
    BY <2>2 DEF CallType
  <2>4. CASE p = q /\ op = "none"
    BY <2>1, <2>4, NoCallType DEF StillHolds
  <2>5. CASE p = q /\ op # "none"
    BY <2>1, <2>3, <2>5 DEF StillHolds
  <2>6. CASE p # q /\ call[p].op \in Reliant
    <3>1. call'[p] = late
      BY <2>1, <2>6
    <3> QED BY <2>3, <2>6, <3>1 DEF StillHolds
  <2>7. CASE p # q /\ call[p].op \notin Reliant
    <3>1. call'[p] = call[p]
      BY <2>1, <2>7
    <3> QED BY <2>2, <2>7, <3>1 DEF StillHolds, Reliant
  <2> QED BY <2>4, <2>5, <2>6, <2>7
<1>2. call' \in [TeamCalls -> CallType]
  BY <1>1 DEF GoesOn
<1>3. TeamTyped'
  BY <1>2 DEF TeamRight, TeamTyped
<1> QED BY <1>1, <1>3 DEF TeamRight

LEMMA AddFacts ==
  ASSUME TeamRight, NEW q \in TeamCalls, AddMember(q)
  PROVE  /\ call[q] \in CallType /\ call[q].op \in {"add", "approve"}
         /\ member' = member \cup {call[q].user} /\ UNCHANGED <<userState, join>>
         /\ granted' = [granted EXCEPT ![call[q].user] = @ \cup call[q].perms]
         /\ \E op \in {"tidy", "none"} : GoesOn(q, op)
BY CallAt DEF AddMember

LEMMA DropFacts ==
  ASSUME TeamRight, NEW q \in TeamCalls, RemoveMember(q) \/ ArchiveUser(q)
  PROVE  /\ call[q] \in CallType /\ call[q].op \in {"remove", "archive"}
         /\ member' = member \ {call[q].user} /\ UNCHANGED join
         /\ granted' = [granted EXCEPT ![call[q].user] = {}]
         /\ \/ call[q].op = "remove" /\ userState' = userState
            \/ /\ call[q].op = "archive"
               /\ userState' = [userState EXCEPT ![call[q].user] = "inactive"]
         /\ GoesOn(q, "none")
BY CallAt DEF RemoveMember, ArchiveUser, Drop

LEMMA SetFacts ==
  ASSUME TeamRight, NEW q \in TeamCalls, SetPermissions(q)
  PROVE  /\ call[q] \in CallType /\ call[q].op = "permissions"
         /\ UNCHANGED <<userState, member, join>>
         /\ granted' = [granted EXCEPT ![call[q].user] = call[q].perms]
         /\ GoesOn(q, "none")
BY CallAt DEF SetPermissions

LEMMA TeamSteps == TeamRight /\ [TeamNext]_teamVars => TeamRight'
<1> SUFFICES ASSUME TeamRight, [TeamNext]_teamVars PROVE TeamRight'
  OBVIOUS
<1>1. CASE UNCHANGED teamVars
  BY <1>1 DEF teamVars, TeamRight, TeamTyped, StillHolds, MayArchiveUser
<1>2. ASSUME NEW u \in Users, ActivateUser(u) PROVE TeamRight'
  <2>1. userState' \in [Users -> {"pending", "active", "inactive"}]
        /\ \A v \in Users : userState[v] = "active" => userState'[v] = "active"
    BY <1>2 DEF ActivateUser, TeamRight, TeamTyped
  <2>2. UNCHANGED <<member, granted, join, call>>
    BY <1>2 DEF ActivateUser
  <2>3. member \subseteq Users
    BY DEF TeamRight, TeamTyped
  <2>4. ASSUME NEW q \in TeamCalls PROVE StillHolds(call[q])'
    BY <2>1, <2>2, <2>3, CallAt DEF StillHolds, MayArchiveUser
  <2> QED BY <2>1, <2>2, <2>4 DEF TeamRight, TeamTyped
<1>3. ASSUME NEW u \in Users, NEW j \in JoinRequests, AskToJoin(j, u) PROVE TeamRight'
  <2>1. join' \in [JoinRequests -> [by : Users, status : Decisions \cup {"none"}]]
    BY <1>3 DEF AskToJoin, TeamRight, TeamTyped, Decisions
  <2>2. UNCHANGED <<userState, member, granted, call>>
    BY <1>3 DEF AskToJoin, Team
  <2> QED BY <2>1, <2>2 DEF TeamRight, TeamTyped, StillHolds, MayArchiveUser
<1>4. ASSUME NEW q \in TeamCalls, NEW u \in Users, NEW perms \in SUBSET PermissionNames,
             \/ CallAdd(q, u, perms) \/ CallRemove(q, u) \/ CallArchive(q, u)
             \/ CallPermissions(q, u, perms)
      PROVE  TeamRight'
  BY <1>4, CalledStep
<1>5. ASSUME NEW q \in TeamCalls, NEW j \in JoinRequests, NEW d \in Decisions,
             NEW perms \in SUBSET PermissionNames, DecideJoin(q, j, d, perms)
      PROVE  TeamRight'
  BY <1>5, DecideStep
<1>6. ASSUME NEW q \in TeamCalls, AddMember(q) PROVE TeamRight'
  <2>1. member' \subseteq Users /\ granted' \in [Users -> SUBSET PermissionNames]
    BY <1>6, AddFacts DEF TeamRight, TeamTyped, CallType
  <2> QED BY <1>6, <2>1, AddFacts, CommitStep DEF TeamRight, TeamTyped
<1>7. ASSUME NEW q \in TeamCalls, RemoveMember(q) \/ ArchiveUser(q) PROVE TeamRight'
  <2>1. member' \subseteq Users /\ granted' \in [Users -> SUBSET PermissionNames]
        /\ userState' \in [Users -> {"pending", "active", "inactive"}]
    BY <1>7, DropFacts DEF TeamRight, TeamTyped
  <2> QED BY <1>7, <2>1, DropFacts, CommitStep
<1>8. ASSUME NEW q \in TeamCalls, SetPermissions(q) PROVE TeamRight'
  <2>1. member' \subseteq Users /\ granted' \in [Users -> SUBSET PermissionNames]
    BY <1>8, SetFacts DEF TeamRight, TeamTyped, CallType
  <2> QED BY <1>8, <2>1, SetFacts, CommitStep DEF TeamRight, TeamTyped
<1>9. ASSUME NEW q \in TeamCalls, CancelPendingJoins(q) PROVE TeamRight'
  <2>1. join' \in [JoinRequests -> [by : Users, status : Decisions \cup {"none"}]]
    BY <1>9 DEF CancelPendingJoins, TeamRight, TeamTyped, Decisions
  <2>2. NoCall \in CallType /\ StillHolds(NoCall)
    BY NoCallType DEF StillHolds
  <2> QED BY <1>9, <2>1, <2>2, CallsStep DEF CancelPendingJoins
<1>10. ASSUME NEW q \in TeamCalls, CallFails(q) PROVE TeamRight'
  <2>1. NoCall \in CallType /\ StillHolds(NoCall)
    BY NoCallType DEF StillHolds
  <2>2. UNCHANGED <<Team, join>> /\ call' = [call EXCEPT ![q] = NoCall]
    BY <1>10 DEF CallFails
  <2> QED BY <2>1, <2>2, CallsStep DEF TeamRight, TeamTyped
<1>11. ASSUME NEW q \in TeamCalls, CallDies(q) PROVE TeamRight'
  <2> DEFINE c == [call[q] EXCEPT !.op = "died"]
  <2>1. call[q] \in CallType
    BY CallAt
  <2>2. c \in CallType /\ StillHolds(c)
    BY <2>1 DEF CallType, StillHolds
  <2>3. UNCHANGED <<Team, join>> /\ call' = [call EXCEPT ![q] = c]
    BY <1>11 DEF CallDies
  <2> HIDE DEF c
  <2> QED BY <2>2, <2>3, CallsStep DEF TeamRight, TeamTyped
<1> QED BY <1>1, <1>2, <1>3, <1>4, <1>5, <1>6, <1>7, <1>8, <1>9, <1>10, <1>11 DEF TeamNext

\* What changes the team, and how.
LEMMA TeamChanges ==
  ASSUME TeamRight, TeamNext
  PROVE  \/ UNCHANGED <<member, granted>> /\ \A u \in Users : userState'[u] = "inactive" =>
                                                 userState[u] = "inactive"
         \/ \E q \in TeamCalls : AddMember(q) \/ RemoveMember(q) \/ ArchiveUser(q)
                                 \/ SetPermissions(q)
<1>1. ASSUME NEW u \in Users, ActivateUser(u)
      PROVE  UNCHANGED <<member, granted>> /\ \A v \in Users : userState'[v] = "inactive" =>
                                                  userState[v] = "inactive"
  BY <1>1 DEF ActivateUser, TeamRight, TeamTyped
<1>2. UNCHANGED Team => UNCHANGED <<member, granted, userState>>
  BY DEF Team
<1>3. ASSUME NEW u \in Users, NEW j \in JoinRequests, AskToJoin(j, u) PROVE UNCHANGED Team
  BY <1>3 DEF AskToJoin
<1>4. ASSUME NEW q \in TeamCalls, NEW u \in Users, NEW perms \in SUBSET PermissionNames,
             \/ CallAdd(q, u, perms) \/ CallRemove(q, u) \/ CallArchive(q, u)
             \/ CallPermissions(q, u, perms)
      PROVE  UNCHANGED Team
  BY <1>4 DEF CallAdd, CallRemove, CallArchive, CallPermissions, Called
<1>5. ASSUME NEW q \in TeamCalls, NEW j \in JoinRequests, NEW d \in Decisions,
             NEW perms \in SUBSET PermissionNames, DecideJoin(q, j, d, perms)
      PROVE  UNCHANGED Team
  BY <1>5 DEF DecideJoin
<1>6. ASSUME NEW q \in TeamCalls, CancelPendingJoins(q) \/ CallFails(q) \/ CallDies(q)
      PROVE  UNCHANGED Team
  BY <1>6 DEF CancelPendingJoins, CallFails, CallDies
<1> QED BY <1>1, <1>2, <1>3, <1>4, <1>5, <1>6 DEF TeamNext

LEMMA NotStale ==
  ASSUME TeamRight, ~Stale, NEW q \in TeamCalls, call'[q] # call[q]
  PROVE  ~call[q].stale
BY DEF Stale

\* A drop or a new set of permissions ends its request.
LEMMA CommitEnds ==
  ASSUME TeamRight, NEW q \in TeamCalls,
         RemoveMember(q) \/ ArchiveUser(q) \/ SetPermissions(q)
  PROVE  call'[q] # call[q]
<1>1. call[q].op # "none" /\ GoesOn(q, "none")
  BY DropFacts, SetFacts
<1>2. call'[q] = NoCall
  BY <1>1 DEF GoesOn
<1> QED BY <1>1, <1>2, NoCallType

LEMMA WholeSteps == TeamRight /\ [TeamNext]_teamVars => (TeamIsWhole => Stale \/ TeamIsWhole')
<1> SUFFICES ASSUME TeamRight, [TeamNext]_teamVars, TeamIsWhole, ~Stale PROVE TeamIsWhole'
  OBVIOUS
<1>1. CASE UNCHANGED <<member, granted>>
  BY <1>1 DEF TeamIsWhole
<1>2. granted \in [Users -> SUBSET PermissionNames] /\ member \subseteq Users
  BY DEF TeamRight, TeamTyped
<1>3. ASSUME NEW q \in TeamCalls, AddMember(q) PROVE TeamIsWhole'
  <2>1. call[q].user \in Users
    BY <1>3, AddFacts DEF CallType
  <2> QED BY <1>2, <1>3, <2>1, AddFacts DEF TeamIsWhole
<1>4. ASSUME NEW q \in TeamCalls, RemoveMember(q) \/ ArchiveUser(q) PROVE TeamIsWhole'
  <2>1. StillHolds(call[q]) /\ ~call[q].stale /\ call[q].user \in Users
    BY <1>4, CallAt, NotStale, CommitEnds DEF CallType
  <2>2. member' # {}
    <3>1. CASE call[q].op = "remove"
      BY <1>4, <2>1, <3>1, DropFacts DEF StillHolds
    <3>2. CASE call[q].op = "archive"
      BY <1>4, <2>1, <3>2, DropFacts DEF StillHolds, MayArchiveUser, TeamIsWhole
    <3> QED BY <1>4, <3>1, <3>2, DropFacts
  <2>3. \A u \in Users \ member' : granted'[u] = {}
    BY <1>2, <1>4, <2>1, DropFacts DEF TeamIsWhole
  <2> QED BY <2>2, <2>3 DEF TeamIsWhole
<1>5. ASSUME NEW q \in TeamCalls, SetPermissions(q) PROVE TeamIsWhole'
  <2>1. StillHolds(call[q]) /\ ~call[q].stale
    BY <1>5, CallAt, NotStale, CommitEnds
  <2>2. call[q].user \in member
    BY <1>5, <2>1, SetFacts DEF StillHolds
  <2> QED BY <1>2, <1>5, <2>2, SetFacts DEF TeamIsWhole
<1> QED BY <1>1, <1>3, <1>4, <1>5, TeamChanges DEF teamVars

LEMMA ManagedSteps ==
  TeamRight /\ [TeamNext]_teamVars =>
    (Managed /\ (\E u \in Users : userState[u] # "inactive" /\ userState'[u] = "inactive")
       => Stale \/ Managed')
<1> SUFFICES ASSUME TeamRight, [TeamNext]_teamVars, Managed, ~Stale,
                    NEW u \in Users, userState[u] # "inactive", userState'[u] = "inactive"
             PROVE  Managed'
  OBVIOUS
<1>1. PICK q \in TeamCalls : ArchiveUser(q)
  <2>1. ~UNCHANGED userState
    OBVIOUS
  <2> QED BY <2>1, TeamChanges, AddFacts, DropFacts, SetFacts DEF teamVars, ArchiveUser,
             RemoveMember
<1>2. call[q].op = "archive" /\ member' = member \ {call[q].user} /\ call[q].user \in Users
      /\ granted' = [granted EXCEPT ![call[q].user] = {}]
      /\ userState' = [userState EXCEPT ![call[q].user] = "inactive"]
  BY <1>1, CallAt DEF ArchiveUser, Drop, CallType
<1>3. MayArchiveUser(call[q].user)
  BY <1>1, <1>2, CallAt, NotStale, CommitEnds DEF StillHolds
<1>4. PICK v \in member \ {call[q].user} : userState[v] = "active"
                                           /\ "manage_settings" \in granted[v]
  <2>1. CASE call[q].user \in member
    BY <1>3, <2>1 DEF MayArchiveUser
  <2>2. CASE call[q].user \notin member
    BY <2>2 DEF Managed
  <2> QED BY <2>1, <2>2
<1>5. v \in Users /\ v # call[q].user /\ granted \in [Users -> SUBSET PermissionNames]
      /\ userState \in [Users -> {"pending", "active", "inactive"}]
  BY <1>4 DEF TeamRight, TeamTyped
<1> QED BY <1>2, <1>4, <1>5 DEF Managed

LEMMA ApprovalSteps ==
  TeamRight /\ [TeamNext]_teamVars =>
    (\A q \in TeamCalls : TeamIsWhole /\ call[q].op = "approve"
                              /\ call'[q].op \notin {"approve", "died"}
       => call[q].user \in member')
<1> SUFFICES ASSUME TeamRight, [TeamNext]_teamVars, NEW q \in TeamCalls, TeamIsWhole,
                    call[q].op = "approve", call'[q].op \notin {"approve", "died"}
             PROVE  call[q].user \in member'
  OBVIOUS
<1>0. call \in [TeamCalls -> CallType] /\ call[q].user \in Users /\ call[q] # NoCall
  BY CallAt, NoCallType DEF CallType, TeamRight, TeamTyped
<1>1. ASSUME NEW p \in TeamCalls, AddMember(p) PROVE call[q].user \in member'
  <2>1. CASE p = q
    BY <1>1, <2>1, AddFacts
  <2>2. CASE p # q
    BY <1>0, <1>1, <2>2, AddFacts DEF GoesOn, Reliant
  <2> QED BY <2>1, <2>2
<1>2. ASSUME NEW p \in TeamCalls, RemoveMember(p) \/ ArchiveUser(p) \/ SetPermissions(p)
      PROVE  FALSE
  <2>1. GoesOn(p, "none") /\ p # q
    BY <1>2, DropFacts, SetFacts
  <2>2. call'[q] = call[q]
    BY <2>1 DEF GoesOn, Reliant
  <2> QED BY <2>2
<1>3. ASSUME NEW p \in TeamCalls, CancelPendingJoins(p) \/ CallFails(p)
      PROVE  call[q].user \in member'
  <2>1. p = q
    BY <1>0, <1>3 DEF CancelPendingJoins, CallFails
  <2>2. granted[call[q].user] # {} /\ UNCHANGED member
    BY <1>3, <2>1 DEF CancelPendingJoins, CallFails, RowsFit, Team
  <2> QED BY <1>0, <2>2 DEF TeamIsWhole
<1>4. ASSUME NEW p \in TeamCalls, NEW c, call[p] = NoCall, call' = [call EXCEPT ![p] = c]
      PROVE  FALSE
  BY <1>0, <1>4
<1>5. ASSUME NEW p \in TeamCalls, NEW u \in Users, NEW perms \in SUBSET PermissionNames,
             \/ CallAdd(p, u, perms) \/ CallRemove(p, u) \/ CallArchive(p, u)
             \/ CallPermissions(p, u, perms)
      PROVE  FALSE
  BY <1>4, <1>5 DEF CallAdd, CallRemove, CallArchive, CallPermissions, Called
<1>6. call' # call
  OBVIOUS
<1>7. ASSUME NEW p \in TeamCalls, NEW j \in JoinRequests, NEW d \in Decisions,
             NEW perms \in SUBSET PermissionNames, DecideJoin(p, j, d, perms)
      PROVE  FALSE
  BY <1>4, <1>6, <1>7 DEF DecideJoin
<1>8. ASSUME NEW u \in Users, ActivateUser(u) \/ \E j \in JoinRequests : AskToJoin(j, u)
      PROVE  FALSE
  BY <1>6, <1>8 DEF ActivateUser, AskToJoin
<1>9. ASSUME NEW p \in TeamCalls, CallDies(p) PROVE FALSE
  <2>1. p # q
    BY <1>0, <1>9 DEF CallDies, CallType
  <2> QED BY <1>0, <1>9, <2>1 DEF CallDies
<1> QED BY <1>1, <1>2, <1>3, <1>5, <1>6, <1>7, <1>8, <1>9 DEF TeamNext, teamVars

\* Requests that do not overlap leave the team whole and managed, and an approval makes a
\* member of a team that is whole (remove_user_from_service, user_can_be_archived,
\* dao_archive_user, update_service_join_request_by_id).
THEOREM TeamKept == TeamSpec => TeamStaysRight /\ []TeamTypeOK
<1>1. TeamInit => TeamRight
  BY TeamStarts
<1>2. TeamRight /\ [TeamNext]_teamVars => TeamRight'
  BY TeamSteps
<1>3. TeamSpec => []TeamRight
  BY <1>1, <1>2, PTL DEF TeamSpec
<1>4. TeamSpec => TeamStaysWhole
  BY <1>3, WholeSteps, PTL DEF TeamSpec, TeamStaysWhole
<1>5. TeamSpec => ManagerStays
  BY <1>3, ManagedSteps, PTL DEF TeamSpec, ManagerStays
<1>6. TeamSpec => ApprovalJoins
  BY <1>3, ApprovalSteps, PTL DEF TeamSpec, ApprovalJoins
<1>7. TeamRight => TeamTypeOK
  BY DEF TeamRight, TeamTyped, TeamTypeOK, CallType
<1>8. TeamSpec => []TeamTypeOK
  BY <1>3, <1>7, PTL
<1> QED BY <1>4, <1>5, <1>6, <1>8 DEF TeamStaysRight

-----------------------------------------------------------------------------
(* SmsSenders.                                                             *)

SenderType == [home : {"none", "live", "archived"}, default : BOOLEAN, inbound : BOOLEAN]
EditType == [op : {"none", "add", "update", "archive", "allocated", "convert"},
             of : Senders, old : SUBSET Senders, default : BOOLEAN, inbound : BOOLEAN,
             stale : BOOLEAN]

\* What a request that overlaps no other still finds as it read it.
EditHolds(e) ==
  ~e.stale =>
    /\ e.op \in {"add", "update"} /\ e.default => e.old = Defaults
    /\ e.op = "add" => sender[e.of].home = "none"
    /\ e.op = "update" => e.of \in Shown /\ (e.default \/ e.of \notin Defaults)
    /\ e.op = "archive" => ~sender[e.of].default
    /\ e.op \in {"allocated", "convert"} \/ e.inbound => number = "held"

SenderTyped ==
  /\ sender \in [Senders -> SenderType]
  /\ number \in {"free", "held", "inactive"}
  /\ edit \in [Editors -> EditType]

\* The inductive invariant of the senders.
SenderRight == SenderTyped /\ \A q \in Editors : EditHolds(edit[q])

LEMMA NoEditType ==
  NoEdit \in EditType /\ NoEdit.op = "none" /\ NoEdit.inbound = FALSE
  /\ NoEdit.stale = FALSE
BY SenderAssumption DEF NoEdit, EditType

LEMMA SenderStarts == SenderInit => SenderRight
<1> SUFFICES ASSUME SenderInit PROVE SenderRight
  OBVIOUS
<1>1. SenderTyped
  BY NoEditType DEF SenderInit, SenderTyped, SenderType, NoSender
<1>2. \A q \in Editors : EditHolds(edit[q])
  BY NoEditType DEF SenderInit, EditHolds
<1> QED BY <1>1, <1>2 DEF SenderRight

LEMMA EditAt ==
  ASSUME SenderRight, NEW q \in Editors
  PROVE  edit[q] \in EditType /\ EditHolds(edit[q])
BY DEF SenderRight, SenderTyped

\* A request reads and plans.
LEMMA PlanStep ==
  ASSUME SenderRight, NEW q \in Editors, NEW e \in EditType, edit' = [edit EXCEPT ![q] = e],
         sender' = sender, number' = number, EditHolds(e)
  PROVE  SenderRight'
<1>1. edit' \in [Editors -> EditType] /\ edit'[q] = e
      /\ \A p \in Editors \ {q} : edit'[p] = edit[p]
  BY DEF SenderRight, SenderTyped
<1>2. ASSUME NEW p \in Editors PROVE EditHolds(edit[p])'
  <2>1. CASE p = q
    BY <1>1, <2>1 DEF EditHolds, Defaults, Shown
  <2>2. CASE p # q
    BY <1>1, <2>2, EditAt DEF EditHolds, Defaults, Shown
  <2> QED BY <2>1, <2>2
<1> QED BY <1>1, <1>2 DEF SenderRight, SenderTyped

LEMMA PlansStep ==
  ASSUME SenderRight, NEW q \in Editors,
         \/ \E s \in Senders, d \in BOOLEAN : PlanAdd(q, s, d) \/ PlanUpdate(q, s, d)
         \/ \E s \in Senders : PlanArchive(q, s)
         \/ PlanInbound(q)
  PROVE  SenderRight'
<1>1. UNCHANGED <<sender, number>>
  BY DEF PlanAdd, PlanUpdate, PlanArchive, PlanInbound
<1>2. edit[q] \in EditType /\ EditHolds(edit[q])
  BY EditAt
<1>9. sender' = sender /\ number' = number
  BY <1>1
<1>3. CASE edit' = [edit EXCEPT ![q] = NoEdit]
  <2>1. NoEdit \in EditType /\ EditHolds(NoEdit)
    BY NoEditType DEF EditHolds
  <2> QED BY <1>1, <1>3, <1>9, <2>1, PlanStep
<1>4. ASSUME NEW op \in {"add", "update", "archive", "convert"}, NEW s \in Senders,
             NEW d \in BOOLEAN, NEW i \in BOOLEAN, Plan(q, op, s, d, i),
             op = "add" => sender[s].home = "none",
             op = "update" => s \in Shown /\ (d \/ s \notin Defaults),
             op = "archive" => ~sender[s].default,
             op = "convert" \/ i => number = "held" \/ edit[q].stale
      PROVE  SenderRight'
  <2> DEFINE e == [op |-> op, of |-> s, default |-> d, old |-> IF d THEN Defaults ELSE {},
                   inbound |-> i, stale |-> edit[q].stale]
  <2>1. Defaults \in SUBSET Senders /\ edit[q].stale \in BOOLEAN
    BY <1>2 DEF Defaults, Shown, EditType
  <2>2. e \in EditType /\ e.op = op /\ e.of = s /\ e.stale = edit[q].stale
    BY <2>1 DEF EditType
  <2>3. e.default = d /\ e.inbound = i /\ (d => e.old = Defaults)
    OBVIOUS
  <2>4. edit' = [edit EXCEPT ![q] = e]
    BY <1>4 DEF Plan
  <2> HIDE DEF e
  <2>5. EditHolds(e)
    BY <1>4, <2>2, <2>3 DEF EditHolds
  <2> QED BY <1>1, <1>9, <2>2, <2>4, <2>5, PlanStep
<1>5. ASSUME NEW s \in Senders, NEW d \in BOOLEAN, PlanAdd(q, s, d) PROVE SenderRight'
  BY <1>4, <1>5 DEF PlanAdd, Unused
<1>6. ASSUME NEW s \in Senders, NEW d \in BOOLEAN, PlanUpdate(q, s, d) PROVE SenderRight'
  BY <1>4, <1>6 DEF PlanUpdate
<1>7. ASSUME NEW s \in Senders, PlanArchive(q, s) PROVE SenderRight'
  BY <1>4, <1>7 DEF PlanArchive, MayArchive
<1>8. CASE PlanInbound(q)
  <2>1. number = "held" \/ edit[q].stale
    BY <1>2, <1>8 DEF PlanInbound, EditHolds, EditType
  <2>2. ASSUME NEW s \in Shown, Plan(q, "convert", s, sender[s].default, TRUE)
        PROVE  SenderRight'
    <3>1. s \in Senders /\ sender[s].default \in BOOLEAN
      BY DEF Shown, SenderRight, SenderTyped, SenderType
    <3> QED BY <1>4, <2>1, <2>2, <3>1
  <2>3. ASSUME NEW s \in Senders, Unused(s), Plan(q, "add", s, TRUE, TRUE)
        PROVE  SenderRight'
    BY <1>4, <2>1, <2>3 DEF Unused
  <2> QED BY <1>3, <1>8, <2>2, <2>3 DEF PlanInbound
<1> QED BY <1>5, <1>6, <1>7, <1>8

LEMMA AllocateStep ==
  ASSUME SenderRight, NEW q \in Editors, AllocateNumber(q)
  PROVE  SenderRight'
<1> DEFINE e == [NoEdit EXCEPT !.op = "allocated"]
<1>1. e \in EditType /\ e.op = "allocated" /\ e.inbound = FALSE
  BY NoEditType DEF EditType
<1>2. edit' = [edit EXCEPT ![q] = e] /\ UNCHANGED sender /\ number' = "held"
  BY DEF AllocateNumber
<1> HIDE DEF e
<1>3. edit' \in [Editors -> EditType] /\ edit'[q] = e
      /\ \A p \in Editors \ {q} : edit'[p] = edit[p]
  BY <1>1, <1>2 DEF SenderRight, SenderTyped
<1>4. ASSUME NEW p \in Editors PROVE EditHolds(edit[p])'
  <2>1. CASE p = q
    BY <1>1, <1>2, <1>3, <2>1 DEF EditHolds
  <2>2. CASE p # q
    BY <1>2, <1>3, <2>2, EditAt DEF EditHolds, Defaults, Shown
  <2> QED BY <2>1, <2>2
<1> QED BY <1>2, <1>3, <1>4 DEF SenderRight, SenderTyped

\* After a change of the senders every other request has read old ones.
LEMMA EditsStale ==
  ASSUME SenderRight, sender' \in [Senders -> SenderType],
         number' \in {"free", "held", "inactive"}, DOMAIN edit' = Editors,
         edit' = [q \in Editors |-> edit'[q]],
         \A q \in Editors : edit'[q] = NoEdit \/ edit'[q] = [edit[q] EXCEPT !.stale = TRUE]
  PROVE  SenderRight'
<1>1. ASSUME NEW q \in Editors PROVE edit'[q] \in EditType /\ EditHolds(edit[q])'
  <2>1. [edit[q] EXCEPT !.stale = TRUE] \in EditType
        /\ [edit[q] EXCEPT !.stale = TRUE].stale = TRUE
    BY EditAt DEF EditType
  <2>2. CASE edit'[q] = NoEdit
    BY <2>2, NoEditType DEF EditHolds
  <2>3. CASE edit'[q] = [edit[q] EXCEPT !.stale = TRUE]
    BY <2>1, <2>3 DEF EditHolds
  <2> QED BY <2>2, <2>3
<1> QED BY <1>1 DEF SenderRight, SenderTyped

\* What a commit writes.
LEMMA Committed ==
  ASSUME SenderRight, NEW q \in Editors, CommitEdit(q)
  PROVE  LET e == edit[q] IN
         /\ e \in EditType /\ e.op \in {"add", "update", "convert", "archive"}
         /\ UNCHANGED number /\ edit'[q] = NoEdit
         /\ sender' \in [Senders -> SenderType]
         /\ e.op = "add" => sender'[e.of] = [home |-> "live", default |-> e.default,
                                             inbound |-> e.inbound]
         /\ e.op = "update" => sender'[e.of] = [sender[e.of] EXCEPT !.default = e.default]
         /\ e.op = "convert" => sender'[e.of] = [sender[e.of] EXCEPT !.inbound = TRUE]
         /\ e.op = "archive" => sender'[e.of] = [sender[e.of] EXCEPT !.home = "archived"]
         /\ \A s \in Senders \ {e.of} :
              sender'[s] = IF e.op \in {"add", "update"} /\ e.default /\ s \in e.old
                           THEN [sender[s] EXCEPT !.default = FALSE] ELSE sender[s]
<1> DEFINE e == edit[q]
           reset == IF e.op \in {"add", "update"} /\ e.default THEN e.old \ {e.of} ELSE {}
           written == CASE e.op = "add" -> [home |-> "live", default |-> e.default,
                                            inbound |-> e.inbound]
                        [] e.op = "update" -> [sender[e.of] EXCEPT !.default = e.default]
                        [] e.op = "convert" -> [sender[e.of] EXCEPT !.inbound = TRUE]
                        [] OTHER -> [sender[e.of] EXCEPT !.home = "archived"]
<1>1. e \in EditType /\ e.op \in {"add", "update", "convert", "archive"} /\ UNCHANGED number
  BY EditAt DEF CommitEdit
<1>2. sender' = [s \in Senders |->
          CASE s = e.of -> written
            [] s # e.of /\ s \in reset -> [sender[s] EXCEPT !.default = FALSE]
            [] OTHER -> sender[s]]
  BY DEF CommitEdit
<1>3. edit'[q] = NoEdit
  BY DEF CommitEdit
<1>4. e.of \in Senders /\ e.default \in BOOLEAN /\ e.inbound \in BOOLEAN
  BY <1>1 DEF EditType
<1>5. \A s \in Senders : sender[s] \in SenderType
  BY DEF SenderRight, SenderTyped
<1>6. written \in SenderType
  <2>1. /\ [home |-> "live", default |-> e.default, inbound |-> e.inbound] \in SenderType
        /\ [sender[e.of] EXCEPT !.default = e.default] \in SenderType
        /\ [sender[e.of] EXCEPT !.inbound = TRUE] \in SenderType
        /\ [sender[e.of] EXCEPT !.home = "archived"] \in SenderType
    BY <1>4, <1>5 DEF SenderType
  <2> QED BY <1>1, <2>1
<1>7. sender'[e.of] = written
  BY <1>2, <1>4
<1>8. ASSUME NEW s \in Senders \ {e.of}
      PROVE  sender'[s] = IF e.op \in {"add", "update"} /\ e.default /\ s \in e.old
                          THEN [sender[s] EXCEPT !.default = FALSE] ELSE sender[s]
  <2> HIDE DEF written
  <2> QED BY <1>2, <1>8
<1>9. sender' \in [Senders -> SenderType]
  <2>1. ASSUME NEW s \in Senders PROVE [sender[s] EXCEPT !.default = FALSE] \in SenderType
    BY <1>5 DEF SenderType
  <2> HIDE DEF written
  <2>2. \A s \in Senders : sender'[s] \in SenderType
    BY <1>5, <1>6, <1>7, <1>8, <2>1
  <2> QED BY <1>2, <2>2
<1>10. /\ e.op = "add" => written = [home |-> "live", default |-> e.default,
                                     inbound |-> e.inbound]
       /\ e.op = "update" => written = [sender[e.of] EXCEPT !.default = e.default]
       /\ e.op = "convert" => written = [sender[e.of] EXCEPT !.inbound = TRUE]
       /\ e.op = "archive" => written = [sender[e.of] EXCEPT !.home = "archived"]
  BY <1>1
<1> HIDE DEF written, reset
<1> QED BY <1>1, <1>3, <1>7, <1>8, <1>9, <1>10

LEMMA Removed ==
  ASSUME SenderRight, NEW archive \in BOOLEAN, RemoveInbound(archive)
  PROVE  /\ number = "held" /\ number' \in {"free", "inactive"}
         /\ sender' \in [Senders -> SenderType]
         /\ \A s \in Senders : sender'[s] = IF sender[s].inbound THEN NoSender ELSE sender[s]
<1>1. NoSender \in SenderType
  BY DEF NoSender, SenderType
<1> QED BY <1>1 DEF RemoveInbound, WithoutInbound, SenderRight, SenderTyped

LEMMA SenderSteps == SenderRight /\ [SenderNext]_senderVars => SenderRight'
<1> SUFFICES ASSUME SenderRight, [SenderNext]_senderVars PROVE SenderRight'
  OBVIOUS
<1>1. CASE UNCHANGED senderVars
  BY <1>1 DEF senderVars, SenderRight, SenderTyped, EditHolds, Defaults, Shown
<1>2. ASSUME NEW q \in Editors,
             \/ \E s \in Senders, d \in BOOLEAN : PlanAdd(q, s, d) \/ PlanUpdate(q, s, d)
             \/ \E s \in Senders : PlanArchive(q, s)
             \/ PlanInbound(q)
      PROVE  SenderRight'
  BY <1>2, PlansStep
<1>3. ASSUME NEW q \in Editors, AllocateNumber(q) PROVE SenderRight'
  BY <1>3, AllocateStep
<1>4. ASSUME NEW q \in Editors, CommitEdit(q) PROVE SenderRight'
  <2>1. /\ edit' = [p \in Editors |-> edit'[p]] /\ DOMAIN edit' = Editors
        /\ \A p \in Editors : \/ edit'[p] = NoEdit
                              \/ edit'[p] = [edit[p] EXCEPT !.stale = TRUE]
    BY <1>4 DEF CommitEdit
  <2>2. sender' \in [Senders -> SenderType] /\ UNCHANGED number
    BY <1>4, Committed
  <2> QED BY <2>1, <2>2, EditsStale DEF SenderRight, SenderTyped
<1>5. ASSUME NEW q \in Editors, EditFails(q) PROVE SenderRight'
  <2>1. NoEdit \in EditType /\ EditHolds(NoEdit)
    BY NoEditType DEF EditHolds
  <2>2. edit' = [edit EXCEPT ![q] = NoEdit] /\ UNCHANGED <<sender, number>>
    BY <1>5 DEF EditFails
  <2>3. sender' = sender /\ number' = number
    BY <2>2 DEF SenderRight, SenderTyped
  <2> QED BY <2>1, <2>2, <2>3, PlanStep
<1>6. ASSUME NEW archive \in BOOLEAN, RemoveInbound(archive) PROVE SenderRight'
  <2>1. /\ edit' = [p \in Editors |-> edit'[p]] /\ DOMAIN edit' = Editors
        /\ \A p \in Editors : \/ edit'[p] = NoEdit
                              \/ edit'[p] = [edit[p] EXCEPT !.stale = TRUE]
    BY <1>6 DEF RemoveInbound
  <2> QED BY <1>6, <2>1, Removed, EditsStale
<1> QED BY <1>1, <1>2, <1>3, <1>4, <1>5, <1>6 DEF SenderNext

LEMMA SendersChange ==
  ASSUME SenderRight, SenderNext
  PROVE  \/ UNCHANGED sender /\ (number = "held" => number' = "held")
         \/ \E q \in Editors : CommitEdit(q)
         \/ \E archive \in BOOLEAN : RemoveInbound(archive)
BY DEF SenderNext, PlanAdd, PlanUpdate, PlanArchive, PlanInbound, AllocateNumber, EditFails

\* A commit that is not of an overlapping request.
LEMMA FreshCommit ==
  ASSUME SenderRight, NEW q \in Editors, CommitEdit(q), ~StaleCommit
  PROVE  ~edit[q].stale /\ EditHolds(edit[q])
BY Committed, EditAt DEF StaleCommit

LEMMA InboundSteps ==
  SenderRight /\ [SenderNext]_senderVars =>
    ((\A s \in Senders : sender[s].inbound => number = "held") =>
       StaleCommit \/ \A s \in Senders : sender'[s].inbound => number' = "held")
<1> SUFFICES ASSUME SenderRight, [SenderNext]_senderVars, ~StaleCommit,
                    \A s \in Senders : sender[s].inbound => number = "held",
                    NEW s \in Senders, sender'[s].inbound
             PROVE  number' = "held"
  OBVIOUS
<1>1. CASE UNCHANGED sender /\ (number = "held" => number' = "held")
  BY <1>1
<1>2. ASSUME NEW q \in Editors, CommitEdit(q) PROVE number' = "held"
  <2> DEFINE e == edit[q]
  <2>1. ~e.stale /\ EditHolds(e)
    BY <1>2, FreshCommit
  <2>2. /\ e.op \in {"add", "update", "convert", "archive"} /\ UNCHANGED number
        /\ e \in EditType
    BY <1>2, Committed
  <2>3. sender[s] \in SenderType /\ sender[e.of] \in SenderType
    BY <2>2 DEF EditType, SenderRight, SenderTyped
  <2>4. CASE sender[s].inbound
    BY <2>2, <2>4
  <2>5. CASE ~sender[s].inbound
    <3>1. s = e.of
      <4>1. s # e.of => sender'[s] = sender[s]
                        \/ sender'[s] = [sender[s] EXCEPT !.default = FALSE]
        BY <1>2, Committed
      <4> QED BY <2>3, <2>5, <4>1 DEF SenderType
    <3>2. e.op \in {"update", "archive"} => sender'[s].inbound = sender[s].inbound
      <4>1. /\ e.op = "update" => sender'[e.of] = [sender[e.of] EXCEPT !.default = e.default]
            /\ e.op = "archive" => sender'[e.of] = [sender[e.of] EXCEPT !.home = "archived"]
        BY <1>2, Committed
      <4> QED BY <2>3, <3>1, <4>1 DEF SenderType
    <3>3. CASE e.op = "add"
      <4>1. sender'[e.of] = [home |-> "live", default |-> e.default, inbound |-> e.inbound]
        BY <1>2, <3>3, Committed
      <4>2. sender'[e.of].inbound = e.inbound
        BY <4>1
      <4>3. sender'[s].inbound
        OBVIOUS
      <4>4. sender'[s] = sender'[e.of]
        BY <3>1
      <4>5. e.inbound
        BY <4>2, <4>3, <4>4
      <4> QED BY <2>1, <2>2, <4>5 DEF EditHolds
    <3>4. CASE e.op = "convert"
      BY <2>1, <2>2, <3>4 DEF EditHolds
    <3> QED BY <2>2, <2>5, <3>2, <3>3, <3>4
  <2> QED BY <2>4, <2>5
<1>3. ASSUME NEW archive \in BOOLEAN, RemoveInbound(archive) PROVE FALSE
  BY <1>3, Removed DEF NoSender
<1> QED BY <1>1, <1>2, <1>3, SendersChange DEF senderVars

LEMMA DefaultSteps ==
  SenderRight /\ [SenderNext]_senderVars =>
    (Cardinality(Defaults) = 1 /\ Cardinality(Defaults') # 1 =>
       StaleCommit \/ \E s \in Defaults : sender[s].inbound /\ number' # number)
<1> SUFFICES ASSUME SenderRight, [SenderNext]_senderVars, ~StaleCommit,
                    Cardinality(Defaults) = 1,
                    ~ \E s \in Defaults : sender[s].inbound /\ number' # number
             PROVE  Cardinality(Defaults') = 1
  OBVIOUS
<1>1. Defaults = {s \in Senders : sender[s].home = "live" /\ sender[s].default}
      /\ Defaults' = {s \in Senders : sender'[s].home = "live" /\ sender'[s].default}
  BY DEF Defaults, Shown
<1>2. PICK x : Defaults = {x}
  <2>1. IsFiniteSet(Defaults)
    BY <1>1, SenderAssumption, FS_Subset
  <2> QED BY <2>1, FS_Singleton
<1>3. SUFFICES Defaults' = Defaults \/ \E y : Defaults' = {y}
  BY FS_Singleton
<1>4. CASE UNCHANGED sender
  BY <1>1, <1>4
<1>5. ASSUME NEW q \in Editors, CommitEdit(q)
      PROVE  Defaults' = Defaults \/ \E y : Defaults' = {y}
  <2> DEFINE e == edit[q]
             IsDefault(s) == sender[s].home = "live" /\ sender[s].default
             WillBe(s) == sender'[s].home = "live" /\ sender'[s].default
  <2>1. ~e.stale /\ EditHolds(e)
    BY <1>5, FreshCommit
  <2>2. e.op \in {"add", "update", "convert", "archive"} /\ e \in EditType
    BY <1>5, Committed
  <2>3. e.of \in Senders /\ \A s \in Senders : sender[s] \in SenderType
    BY <2>2 DEF EditType, SenderRight, SenderTyped
  <2>4. \A s \in Senders \ {e.of} :
          sender'[s] = IF e.op \in {"add", "update"} /\ e.default /\ s \in e.old
                       THEN [sender[s] EXCEPT !.default = FALSE] ELSE sender[s]
    BY <1>5, Committed
  <2>5. CASE e.op \in {"add", "update"} /\ e.default
    <3>1. WillBe(e.of)
      <4>1. CASE e.op = "add"
        <5>1. sender'[e.of] = [home |-> "live", default |-> e.default, inbound |-> e.inbound]
          BY <1>5, <4>1, Committed
        <5> QED BY <2>5, <5>1
      <4>2. CASE e.op = "update"
        <5>1. sender'[e.of] = [sender[e.of] EXCEPT !.default = e.default]
          BY <1>5, <4>2, Committed
        <5>2. sender[e.of].home = "live"
          BY <2>1, <4>2 DEF EditHolds, Shown
        <5> QED BY <2>3, <2>5, <5>1, <5>2 DEF SenderType
      <4> QED BY <2>5, <4>1, <4>2
    <3>2. ASSUME NEW s \in Senders \ {e.of} PROVE ~WillBe(s)
      <4>1. e.old = Defaults
        BY <2>1, <2>5 DEF EditHolds
      <4>2. CASE s \in Defaults
        <5>1. sender'[s] = [sender[s] EXCEPT !.default = FALSE]
          BY <2>4, <2>5, <4>1, <4>2
        <5> QED BY <2>3, <5>1 DEF SenderType
      <4>3. CASE s \notin Defaults
        BY <1>1, <2>4, <4>1, <4>3
      <4> QED BY <4>2, <4>3
    <3>3. Defaults' = {e.of}
      BY <1>1, <2>3, <3>1, <3>2
    <3> QED BY <3>3
  <2>6. CASE ~(e.op \in {"add", "update"} /\ e.default)
    <3>1. \A s \in Senders \ {e.of} : sender'[s] = sender[s]
      BY <2>4, <2>6
    <3>2. WillBe(e.of) <=> IsDefault(e.of)
      <4>0. sender[e.of] \in SenderType
        BY <2>3
      <4>1. CASE e.op = "add"
        <5>1. sender'[e.of] = [home |-> "live", default |-> e.default, inbound |-> e.inbound]
          BY <1>5, <4>1, Committed
        <5>2. sender[e.of].home = "none" /\ ~e.default
          BY <2>1, <2>6, <4>1 DEF EditHolds
        <5> QED BY <5>1, <5>2
      <4>2. CASE e.op = "update"
        <5>1. sender'[e.of] = [sender[e.of] EXCEPT !.default = e.default] /\ ~e.default
          BY <1>5, <2>6, <4>2, Committed
        <5>2. e.of \notin Defaults
          BY <2>1, <4>2, <5>1 DEF EditHolds
        <5> QED BY <1>1, <2>3, <4>0, <5>1, <5>2 DEF SenderType
      <4>3. CASE e.op = "convert"
        <5>1. sender'[e.of] = [sender[e.of] EXCEPT !.inbound = TRUE]
          BY <1>5, <4>3, Committed
        <5> QED BY <4>0, <5>1 DEF SenderType
      <4>4. CASE e.op = "archive"
        <5>1. sender'[e.of] = [sender[e.of] EXCEPT !.home = "archived"]
              /\ ~sender[e.of].default
          BY <1>5, <2>1, <4>4, Committed DEF EditHolds
        <5> QED BY <4>0, <5>1 DEF SenderType
      <4> QED BY <2>2, <4>1, <4>2, <4>3, <4>4
    <3>3. \A s \in Senders : WillBe(s) <=> IsDefault(s)
      BY <3>1, <3>2
    <3> QED BY <1>1, <3>3
  <2> QED BY <2>5, <2>6
<1>6. ASSUME NEW archive \in BOOLEAN, RemoveInbound(archive)
      PROVE  Defaults' = Defaults
  <2>1. number' # number
    BY <1>6, Removed
  <2>2. \A s \in Defaults : ~sender[s].inbound
    BY <2>1
  <2>3. NoSender.home = "none"
    BY DEF NoSender
  <2>4. \A s \in Senders : sender'[s] = IF sender[s].inbound THEN NoSender ELSE sender[s]
    BY <1>6, Removed
  <2> QED BY <1>1, <2>2, <2>3, <2>4
<1> QED BY <1>4, <1>5, <1>6, SendersChange DEF senderVars

\* Requests that do not overlap keep the one default sender of a service, and keep the
\* inbound number with the sender that shows it (dao_add_sms_sender_for_service,
\* archive_sms_sender, add_inbound_number_to_service).
THEOREM SendersKept == SenderSpec => SendersStayRight /\ []SenderTypeOK
<1>1. SenderSpec => []SenderRight
  BY SenderStarts, SenderSteps, PTL DEF SenderSpec
<1>2. SenderSpec => DefaultSurvives
  BY <1>1, DefaultSteps, PTL DEF SenderSpec, DefaultSurvives
<1>3. SenderSpec => InboundIsHeld
  BY <1>1, InboundSteps, PTL DEF SenderSpec, InboundIsHeld
<1>4. SenderRight => SenderTypeOK
  <2> SUFFICES ASSUME SenderRight PROVE SenderTypeOK
    OBVIOUS
  <2>1. \A q \in Editors : edit[q] \in EditType
    BY EditAt
  <2> QED BY <2>1 DEF SenderRight, SenderTyped, SenderTypeOK, SenderType, EditType
<1>5. SenderSpec => []SenderTypeOK
  BY <1>1, <1>4, PTL
<1> QED BY <1>2, <1>3, <1>5 DEF SendersStayRight

-----------------------------------------------------------------------------
(* TemplateFolders.                                                        *)

AskType == [op : {"none", "create", "move", "template", "delete", "stuck"},
            folder : Folders \cup Templates \cup {Root}, target : Folders \cup {Root},
            stale : BOOLEAN]

\* A request is about a folder or a template of the service.
AsksRight(a) ==
  /\ a.op \in {"create", "move", "delete"} => a.folder \in Folders
  /\ a.op = "template" => a.folder \in Templates

\* The inductive invariant of the folders: no orphans, and requests that are right.
FoldersRight ==
  /\ exists \subseteq Folders
  /\ parent \in [Folders -> Folders \cup {Root}]
  /\ inFolder \in [Templates -> Folders \cup {Root}]
  /\ asked \in [Requesters -> AskType] /\ \A q \in Requesters : AsksRight(asked[q])
  /\ NoOrphans

LEMMA NoneAskedType == NoneAsked \in AskType /\ AsksRight(NoneAsked)
BY DEF NoneAsked, AskType, AsksRight

LEMMA FoldersStart == FolderInit => FoldersRight
BY NoneAskedType DEF FolderInit, FoldersRight, NoOrphans

\* A request is read, or is given up.
LEMMA AskStep ==
  ASSUME FoldersRight, NEW q \in Requesters, NEW a \in AskType,
         asked' = [asked EXCEPT ![q] = a],
         UNCHANGED <<exists, gone, parent, inFolder>>, AsksRight(a)
  PROVE  FoldersRight'
<1>1. asked' \in [Requesters -> AskType] /\ asked'[q] = a
      /\ \A p \in Requesters \ {q} : asked'[p] = asked[p]
  BY DEF FoldersRight
<1>2. \A p \in Requesters : AsksRight(asked[p])'
  BY <1>1 DEF FoldersRight, AsksRight
<1> QED BY <1>1, <1>2 DEF FoldersRight, NoOrphans

LEMMA AsksStep ==
  ASSUME FoldersRight, NEW q \in Requesters,
         \/ \E f \in Folders, t \in Folders \cup {Root} : AskCreate(q, f, t) \/ AskMove(q, f, t)
         \/ \E m \in Templates, t \in Folders \cup {Root} : AskMoveTemplate(q, m, t)
         \/ \E f \in Folders : AskDelete(q, f)
         \/ RollbackAsked(q)
  PROVE  FoldersRight'
<1>1. ASSUME NEW op \in {"create", "move", "template", "delete", "stuck"},
             NEW f \in Folders \cup Templates, NEW t \in Folders \cup {Root},
             Ask(q, op, f, t), UNCHANGED <<exists, gone, parent, inFolder>>,
             op \in {"create", "move", "delete"} => f \in Folders,
             op = "template" => f \in Templates
      PROVE  FoldersRight'
  <2> DEFINE a == [op |-> op, folder |-> f, target |-> t, stale |-> FALSE]
  <2>1. asked' = [asked EXCEPT ![q] = a]
    BY <1>1 DEF Ask
  <2>2. a \in AskType /\ AsksRight(a)
    BY <1>1 DEF AskType, AsksRight
  <2> HIDE DEF a
  <2> QED BY <1>1, <2>1, <2>2, AskStep
<1>2. ASSUME NEW f \in Folders, NEW t \in Folders \cup {Root}, AskCreate(q, f, t) \/ AskMove(q, f, t)
      PROVE  FoldersRight'
  BY <1>1, <1>2 DEF AskCreate, AskMove
<1>3. ASSUME NEW m \in Templates, NEW t \in Folders \cup {Root}, AskMoveTemplate(q, m, t)
      PROVE  FoldersRight'
  <2>1. Ask(q, "template", m, t) /\ UNCHANGED <<exists, gone, parent, inFolder>>
    BY <1>3 DEF AskMoveTemplate
  <2> QED BY <1>1, <2>1
<1>4. ASSUME NEW f \in Folders, AskDelete(q, f) PROVE FoldersRight'
  BY <1>1, <1>4 DEF AskDelete
<1>5. CASE RollbackAsked(q)
  BY <1>5, NoneAskedType, AskStep DEF RollbackAsked
<1> QED BY <1>2, <1>3, <1>4, <1>5

LEMMA CommitsStep ==
  ASSUME FoldersRight, NEW q \in Requesters, CommitAsked(q)
  PROVE  FoldersRight'
<1> DEFINE f == asked[q].folder
           t == asked[q].target
<1>1. ASSUME NEW p \in Requesters PROVE asked'[p] \in AskType /\ AsksRight(asked'[p])
  <2>1. asked'[p] \in {NoneAsked, asked[p], [asked[p] EXCEPT !.stale = TRUE]}
    BY DEF CommitAsked
  <2>2. asked[p] \in AskType /\ AsksRight(asked[p])
    BY DEF FoldersRight
  <2>3. [asked[p] EXCEPT !.stale = TRUE] \in AskType /\ AsksRight([asked[p] EXCEPT !.stale = TRUE])
    BY <2>2 DEF AskType, AsksRight
  <2> QED BY <2>1, <2>2, <2>3, NoneAskedType
<1>2. asked' \in [Requesters -> AskType] /\ \A p \in Requesters : AsksRight(asked[p])'
  <2>1. asked' = [p \in Requesters |-> asked'[p]]
    BY DEF CommitAsked
  <2>2. \A p \in Requesters : AsksRight(asked[p])'
    BY <1>1 DEF AsksRight
  <2> QED BY <1>1, <2>1, <2>2
<1>3. AsksRight(asked[q]) /\ exists \subseteq Folders /\ NoOrphans
      /\ parent \in [Folders -> Folders \cup {Root}]
      /\ inFolder \in [Templates -> Folders \cup {Root}]
  BY DEF FoldersRight
<1>4. exists' \subseteq Folders /\ parent' \in [Folders -> Folders \cup {Root}]
      /\ inFolder' \in [Templates -> Folders \cup {Root}] /\ NoOrphans'
  <2>1. CASE /\ asked[q].op = "create" /\ ForeignKeysHold(Root, t)
             /\ exists' = exists \cup {f} /\ parent' = [parent EXCEPT ![f] = t]
             /\ UNCHANGED <<gone, inFolder>>
    BY <1>3, <2>1 DEF AsksRight, ForeignKeysHold, NoOrphans
  <2>2. CASE /\ asked[q].op = "move" /\ ForeignKeysHold(Root, t) /\ f \in exists
             /\ parent' = [parent EXCEPT ![f] = t] /\ UNCHANGED <<exists, gone, inFolder>>
    BY <1>3, <2>2 DEF AsksRight, ForeignKeysHold, NoOrphans
  <2>3. CASE /\ asked[q].op = "template" /\ ForeignKeysHold(Root, t)
             /\ inFolder' = [inFolder EXCEPT ![f] = t] /\ UNCHANGED <<exists, gone, parent>>
    BY <1>3, <2>3 DEF AsksRight, ForeignKeysHold, NoOrphans
  <2>4. CASE /\ asked[q].op = "delete" /\ ForeignKeysHold(f, Root) /\ f \in exists
             /\ exists' = exists \ {f} /\ gone' = gone \cup {f}
             /\ parent' = [parent EXCEPT ![f] = Root] /\ UNCHANGED inFolder
    BY <1>3, <2>4 DEF AsksRight, ForeignKeysHold, Empty, NoOrphans
  <2> QED BY <2>1, <2>2, <2>3, <2>4 DEF CommitAsked
<1> QED BY <1>2, <1>4 DEF FoldersRight

\* No folder or template is left in a folder that is gone, however requests overlap: the
\* foreign keys stand between the reading and the commit (delete_template_folder).
THEOREM FoldersKept == FolderSpec => []NoOrphans
<1>1. FoldersRight /\ [FolderNext]_folderVars => FoldersRight'
  <2> SUFFICES ASSUME FoldersRight, [FolderNext]_folderVars PROVE FoldersRight'
    OBVIOUS
  <2>1. CASE UNCHANGED folderVars
    BY <2>1 DEF folderVars, FoldersRight, NoOrphans, AsksRight
  <2>2. ASSUME NEW q \in Requesters,
               \/ \E f \in Folders, t \in Folders \cup {Root} : AskCreate(q, f, t) \/ AskMove(q, f, t)
               \/ \E m \in Templates, t \in Folders \cup {Root} : AskMoveTemplate(q, m, t)
               \/ \E f \in Folders : AskDelete(q, f)
               \/ RollbackAsked(q)
        PROVE  FoldersRight'
    BY <2>2, AsksStep
  <2>3. ASSUME NEW q \in Requesters, CommitAsked(q) PROVE FoldersRight'
    BY <2>3, CommitsStep
  <2> QED BY <2>1, <2>2, <2>3 DEF FolderNext
<1>2. FoldersRight => NoOrphans
  BY DEF FoldersRight
<1> QED BY <1>1, <1>2, FoldersStart, PTL DEF FolderSpec

\* The folders above f: its parent and those above its parent, in the least set.
LEMMA AncestorsLeast ==
  ASSUME NEW f, NEW S \in SUBSET Folders, Up(f) \subseteq S, \A h \in S : Up(h) \subseteq S
  PROVE  Ancestors(f) \subseteq S
BY DEF Ancestors

LEMMA AncestorsClosed ==
  ASSUME parent \in [Folders -> Folders \cup {Root}], NEW f \in Folders \cup {Root}
  PROVE  /\ Ancestors(f) \subseteq Folders
         /\ Up(f) \subseteq Ancestors(f)
         /\ \A h \in Ancestors(f) : Up(h) \subseteq Ancestors(f)
<1>1. \A h \in Folders \cup {Root} : Up(h) \subseteq Folders
  BY DEF Up
<1>2. Ancestors(f) \subseteq Folders /\ Up(f) \subseteq Ancestors(f)
  BY <1>1 DEF Ancestors
<1>3. ASSUME NEW h \in Ancestors(f), NEW g \in Up(h) PROVE g \in Ancestors(f)
  <2>1. h \in Folders /\ g \in Folders
    BY <1>1, <1>2, <1>3
  <2> SUFFICES ASSUME NEW S \in SUBSET Folders, Up(f) \subseteq S, \A k \in S : Up(k) \subseteq S
               PROVE  g \in S
    BY <2>1 DEF Ancestors
  <2>2. h \in S
    BY <1>3 DEF Ancestors
  <2> QED BY <1>3, <2>2
<1> QED BY <1>2, <1>3

LEMMA AncestorsSplit ==
  ASSUME parent \in [Folders -> Folders \cup {Root}], NEW f \in Folders \cup {Root},
         NEW h \in Ancestors(f)
  PROVE  /\ Ancestors(h) \subseteq Ancestors(f)
         /\ h \in Up(f) \/ \E g \in Up(f) : h \in Ancestors(g)
<1>1. Up(f) \subseteq Folders /\ h \in Folders
  BY AncestorsClosed
<1>2. Ancestors(h) \subseteq Ancestors(f)
  BY AncestorsClosed, AncestorsLeast
<1> DEFINE S == Up(f) \cup UNION {Ancestors(g) : g \in Up(f)}
<1>3. \A g \in Up(f) : /\ Ancestors(g) \subseteq Folders /\ Up(g) \subseteq Ancestors(g)
                       /\ \A k \in Ancestors(g) : Up(k) \subseteq Ancestors(g)
  BY <1>1, AncestorsClosed
<1>4. S \in SUBSET Folders /\ Up(f) \subseteq S
  BY <1>1, <1>3
<1>5. \A k \in S : Up(k) \subseteq S
  BY <1>3
<1>6. Ancestors(f) \subseteq S
  BY <1>4, <1>5, AncestorsLeast
<1> QED BY <1>2, <1>6

\* Folders whose parents stay, or that lose their parent, meet no other folder above them.
LEMMA AncestorsShrink ==
  ASSUME parent \in [Folders -> Folders \cup {Root}], NEW f \in Folders \cup {Root},
         \A h \in Ancestors(f) \cup {f} : Up(h)' \subseteq Up(h)
  PROVE  Ancestors(f)' \subseteq Ancestors(f)
<1> DEFINE A == Ancestors(f)
<1>1. A \in SUBSET Folders /\ Up(f) \subseteq A /\ \A h \in A : Up(h) \subseteq A
  BY AncestorsClosed
<1>2. Up(f)' \subseteq A /\ \A h \in A : Up(h)' \subseteq A
  BY <1>1
<1> HIDE DEF A
<1>3. Ancestors(f)' \subseteq A
  BY <1>1, <1>2 DEF Ancestors
<1> QED BY <1>3 DEF A

\* A validated move whose check still holds, and a new folder that is nobody's yet.
MoveHolds(a) ==
  a.op = "move" /\ ~a.stale =>
    /\ a.folder # a.target /\ a.folder \notin Ancestors(a.target)
    /\ a.target \in exists \cup gone \cup {Root}

CreatesNew ==
  /\ \A f \in Folders \ exists : parent[f] = Root
  /\ \A q \in Requesters : asked[q].op = "create" => asked[q].folder \notin exists \cup gone
  /\ \A p, q \in Requesters : /\ asked[p].op = "create" /\ asked[q].op = "create"
                              /\ asked[p].folder = asked[q].folder
                              => p = q

\* The inductive invariant of the moves.
MovesRight ==
  /\ FoldersRight /\ CreatesNew /\ gone \subseteq Folders \ exists
  /\ \A q \in Requesters : MoveHolds(asked[q])

LEMMA MovesStart == FolderInit => MovesRight
BY FoldersStart DEF FolderInit, MovesRight, CreatesNew, MoveHolds, NoneAsked

\* Where the parents of folders lead.
LEMMA UpExists ==
  ASSUME FoldersRight, FolderAssumption
  PROVE  \A h \in exists \cup {Root} : Up(h) \subseteq exists
BY DEF FoldersRight, NoOrphans, Up

LEMMA AncestorsExist ==
  ASSUME FoldersRight, CreatesNew, FolderAssumption, gone \subseteq Folders,
         NEW f \in exists \cup gone \cup {Root}
  PROVE  Ancestors(f) \subseteq exists
<1>1. Up(f) \subseteq exists
  <2>1. CASE f \in exists \cup {Root}
    BY <2>1, UpExists
  <2>2. CASE f \notin exists \cup {Root}
    BY <2>2 DEF CreatesNew, Up
  <2> QED BY <2>1, <2>2
<1> QED BY <1>1, UpExists, AncestorsLeast DEF FoldersRight

\* A move that is valid when it is committed keeps the tree.
LEMMA MoveKeepsTree ==
  ASSUME FoldersRight, FolderAssumption, Acyclic,
         NEW f \in exists, NEW t \in exists \cup {Root}, f # t, f \notin Ancestors(t),
         parent' = [parent EXCEPT ![f] = t], exists' = exists
  PROVE  Acyclic'
<1> SUFFICES ASSUME NEW g \in exists PROVE g \notin Ancestors(g)'
  BY DEF Acyclic
<1>1. parent \in [Folders -> Folders \cup {Root}] /\ exists \subseteq Folders
  BY DEF FoldersRight
<1>2. /\ \A h \in (Folders \cup {Root}) \ {f} : Up(h)' = Up(h)
      /\ Up(f)' = {t} \ {Root} /\ Up(t) \subseteq Folders
  BY <1>1 DEF Up, FolderAssumption
<1>3. g \notin Ancestors(g) /\ f \notin Ancestors(f)
  BY DEF Acyclic
<1> DEFINE A == Ancestors(g)
           T == ({t} \ {Root}) \cup Ancestors(t)
<1>4. A \subseteq Folders /\ Up(g) \subseteq A /\ \A h \in A : Up(h) \subseteq A
  BY <1>1, AncestorsClosed
<1>5. T \subseteq Folders /\ f \notin T /\ \A h \in T : Up(h)' \subseteq T
  <2>1. /\ Ancestors(t) \subseteq Folders /\ Up(t) \subseteq Ancestors(t)
        /\ \A h \in Ancestors(t) : Up(h) \subseteq Ancestors(t)
    BY <1>1, AncestorsClosed
  <2>2. T \subseteq Folders /\ f \notin T
    BY <1>1, <2>1
  <2> QED BY <1>2, <2>1, <2>2
<1>6. CASE f \notin A \cup {g}
  <2>1. \A h \in A \cup {g} : Up(h)' \subseteq Up(h)
    BY <1>1, <1>2, <1>4, <1>6
  <2> QED BY <1>1, <1>3, <2>1, AncestorsShrink
<1>7. CASE f = g
  <2>1. T \in SUBSET Folders /\ Up(g)' \subseteq T /\ \A h \in T : Up(h)' \subseteq T
    BY <1>2, <1>5, <1>7
  <2> HIDE DEF T
  <2>2. Ancestors(g)' \subseteq T
    BY <2>1 DEF Ancestors
  <2> QED BY <1>5, <1>7, <2>2
<1>8. CASE f \in A /\ f # g
  <2> DEFINE B == {h \in A : h = f \/ f \in Ancestors(h)}
             S == B \cup T
  <2>1. \A h \in Folders \ {f} : f \in Ancestors(h) => Up(h) \cap Folders \subseteq {k \in Folders : k = f \/ f \in Ancestors(k)}
    <3> SUFFICES ASSUME NEW h \in Folders \ {f}, f \in Ancestors(h), NEW k \in Up(h)
                 PROVE  k = f \/ f \in Ancestors(k)
      OBVIOUS
    <3>1. f \in Up(h) \/ \E e \in Up(h) : f \in Ancestors(e)
      BY <1>1, AncestorsSplit
    <3>2. \A e \in Up(h) : e = k
      BY DEF Up
    <3> QED BY <3>1, <3>2
  <2>2. Up(g)' \subseteq B
    BY <1>1, <1>2, <1>4, <1>8, <2>1
  <2>3. \A h \in B : Up(h)' \subseteq S
    <3> SUFFICES ASSUME NEW h \in B PROVE Up(h)' \subseteq S
      OBVIOUS
    <3>1. CASE h = f
      BY <1>2, <3>1
    <3>2. CASE h # f
      BY <1>2, <1>4, <2>1, <3>2
    <3> QED BY <3>1, <3>2
  <2>4. S \in SUBSET Folders /\ Up(g)' \subseteq S /\ \A h \in S : Up(h)' \subseteq S
    BY <1>4, <1>5, <2>2, <2>3
  <2>5. g \notin T
    <3>1. CASE g \in Ancestors(t)
      <4>1. Ancestors(g) \subseteq Ancestors(t)
        BY <1>1, <3>1, AncestorsSplit
      <4> QED BY <1>8, <4>1
    <3>2. CASE g = t
      BY <1>8, <3>2
    <3> QED BY <3>1, <3>2
  <2>6. g \notin S
    BY <1>3, <2>5
  <2> HIDE DEF S
  <2>7. Ancestors(g)' \subseteq S
    BY <2>4 DEF Ancestors
  <2> QED BY <2>6, <2>7
<1> QED BY <1>6, <1>7, <1>8

\* Neither a new folder nor a deletion changes what is above the folders that were there.
LEMMA CreateAbove ==
  ASSUME MovesRight, FolderAssumption, NEW f \in Folders \ (exists \cup gone),
         NEW t \in exists \cup {Root}, parent' = [parent EXCEPT ![f] = t]
  PROVE  /\ \A g \in exists \cup gone \cup {Root} : Ancestors(g)' \subseteq Ancestors(g)
         /\ f \notin Ancestors(f)'
<1>1. /\ parent \in [Folders -> Folders \cup {Root}] /\ exists \subseteq Folders
      /\ gone \subseteq Folders /\ FoldersRight /\ CreatesNew
  BY DEF MovesRight, FoldersRight
<1>2. /\ \A h \in (Folders \cup {Root}) \ {f} : Up(h)' = Up(h)
      /\ Up(f)' = {t} \ {Root}
  BY <1>1 DEF Up, FolderAssumption
<1>3. ASSUME NEW g \in exists \cup gone \cup {Root} PROVE Ancestors(g)' \subseteq Ancestors(g)
  <2>1. Ancestors(g) \subseteq exists
    BY <1>1, AncestorsExist
  <2>2. \A h \in Ancestors(g) \cup {g} : Up(h)' \subseteq Up(h)
    BY <1>1, <1>2, <2>1 DEF FolderAssumption
  <2> QED BY <1>1, <2>2, AncestorsShrink
<1>4. \A h \in exists : Up(h)' \subseteq exists
  BY <1>1, <1>2, UpExists
<1>5. Up(f)' \subseteq exists
  BY <1>2
<1>6. Ancestors(f)' \subseteq exists
  BY <1>1, <1>4, <1>5 DEF Ancestors
<1> QED BY <1>3, <1>6

LEMMA DeleteAbove ==
  ASSUME FoldersRight, NEW f \in Folders, parent' = [parent EXCEPT ![f] = Root]
  PROVE  \A g \in Folders \cup {Root} : Ancestors(g)' \subseteq Ancestors(g)
<1>1. parent \in [Folders -> Folders \cup {Root}]
  BY DEF FoldersRight
<1>2. \A h \in Folders \cup {Root} : Up(h)' \subseteq Up(h)
  BY <1>1 DEF Up
<1>3. \A g \in Folders \cup {Root} : Ancestors(g) \subseteq Folders
  BY DEF Ancestors
<1> QED BY <1>1, <1>2, <1>3, AncestorsShrink

LEMMA SameAbove ==
  ASSUME parent' = parent
  PROVE  \A g : Ancestors(g)' = Ancestors(g)
BY DEF Ancestors, Up

\* A request is read or given up, or a commit does its part; what it leaves to the others.
LEMMA MovesAsk ==
  ASSUME MovesRight, FoldersRight', NEW q \in Requesters, NEW a \in AskType,
         asked' = [asked EXCEPT ![q] = a], UNCHANGED <<exists, gone, parent, inFolder>>,
         MoveHolds(a),
         a.op = "create" =>
           /\ a.folder \notin exists \cup gone
           /\ \A p \in Requesters : asked[p].op = "create" => asked[p].folder # a.folder
  PROVE  MovesRight'
<1>1. /\ asked'[q] = a /\ \A p \in Requesters \ {q} : asked'[p] = asked[p]
      /\ \A g : Ancestors(g)' = Ancestors(g)
  BY SameAbove DEF MovesRight, FoldersRight
<1>2. CreatesNew'
  BY <1>1 DEF MovesRight, CreatesNew
<1>3. \A p \in Requesters : MoveHolds(asked[p])'
  BY <1>1 DEF MovesRight, MoveHolds
<1> QED BY <1>2, <1>3 DEF MovesRight

LEMMA MovesAsks ==
  ASSUME MovesRight, FolderAssumption, NEW q \in Requesters,
         \/ \E f \in Folders, t \in Folders \cup {Root} : AskCreate(q, f, t) \/ AskMove(q, f, t)
         \/ \E m \in Templates, t \in Folders \cup {Root} : AskMoveTemplate(q, m, t)
         \/ \E f \in Folders : AskDelete(q, f)
         \/ RollbackAsked(q)
  PROVE  MovesRight'
<1>f. FoldersRight'
  BY AsksStep DEF MovesRight
<1>1. ASSUME NEW op \in {"create", "move", "template", "delete", "stuck"},
             NEW f \in Folders \cup Templates, NEW t \in Folders \cup {Root},
             Ask(q, op, f, t), UNCHANGED <<exists, gone, parent, inFolder>>,
             op = "move" => MayMove(f, t) /\ t \in exists \cup {Root},
             op = "create" =>
               /\ f \notin exists \cup gone
               /\ \A p \in Requesters : asked[p].op = "create" => asked[p].folder # f
      PROVE  MovesRight'
  <2> DEFINE a == [op |-> op, folder |-> f, target |-> t, stale |-> FALSE]
  <2>1. asked' = [asked EXCEPT ![q] = a]
    BY <1>1 DEF Ask
  <2>2. a \in AskType /\ a.op = op /\ a.folder = f /\ a.target = t
    BY DEF AskType
  <2> HIDE DEF a
  <2>3. MoveHolds(a)
    BY <1>1, <2>2 DEF MoveHolds, MayMove
  <2> QED BY <1>f, <1>1, <2>1, <2>2, <2>3, MovesAsk
<1>2. ASSUME NEW f \in Folders, NEW t \in Folders \cup {Root}, AskCreate(q, f, t) PROVE MovesRight'
  BY <1>1, <1>2 DEF AskCreate
<1>3. ASSUME NEW f \in Folders, NEW t \in Folders \cup {Root}, AskMove(q, f, t) PROVE MovesRight'
  BY <1>1, <1>3 DEF AskMove
<1>4. ASSUME NEW m \in Templates, NEW t \in Folders \cup {Root}, AskMoveTemplate(q, m, t)
      PROVE  MovesRight'
  <2>1. Ask(q, "template", m, t) /\ UNCHANGED <<exists, gone, parent, inFolder>>
    BY <1>4 DEF AskMoveTemplate
  <2> QED BY <1>1, <2>1
<1>5. ASSUME NEW f \in Folders, AskDelete(q, f) PROVE MovesRight'
  BY <1>1, <1>5 DEF AskDelete
<1>6. CASE RollbackAsked(q)
  <2>1. MoveHolds(NoneAsked) /\ NoneAsked.op # "create"
    BY DEF MoveHolds, NoneAsked
  <2> QED BY <1>f, <1>6, <2>1, NoneAskedType, MovesAsk DEF RollbackAsked
<1> QED BY <1>2, <1>3, <1>4, <1>5, <1>6

\* What a commit leaves of the other requests.
LEMMA OthersAsked ==
  ASSUME FoldersRight, NEW q \in Requesters, CommitAsked(q), NEW p \in Requesters
  PROVE  /\ p = q => asked'[p] = NoneAsked
         /\ p # q => /\ asked'[p].op = asked[p].op /\ asked'[p].folder = asked[p].folder
                     /\ asked'[p].target = asked[p].target
                     /\ asked'[p].stale \/ asked'[p] = asked[p]
                     /\ asked[p].op = "move" /\ asked[q].op = "move" => asked'[p].stale
<1>1. asked[p] \in AskType
  BY DEF FoldersRight
<1>2. asked'[p] = CASE p = q -> NoneAsked
                    [] p # q /\ (asked[p].op = "none" \/ asked[q].op # "move") -> asked[p]
                    [] OTHER -> [asked[p] EXCEPT !.stale = TRUE]
  BY DEF CommitAsked
<1> QED BY <1>1, <1>2 DEF AskType

LEMMA MovesCommit ==
  ASSUME MovesRight, FolderAssumption, NEW q \in Requesters, CommitAsked(q)
  PROVE  /\ MovesRight'
         /\ Acyclic /\ ~Acyclic' => asked[q].op = "move" /\ asked[q].stale
<1>0. PICK f, t : f = asked[q].folder /\ t = asked[q].target
  OBVIOUS
<1>1. FoldersRight /\ FoldersRight' /\ CreatesNew /\ gone \subseteq Folders \ exists
  BY CommitsStep DEF MovesRight
<1>2. /\ asked[q] \in AskType /\ AsksRight(asked[q]) /\ exists \subseteq Folders
      /\ MoveHolds(asked[q]) /\ parent \in [Folders -> Folders \cup {Root}]
  BY <1>1 DEF FoldersRight, MovesRight
<1>3. \A p \in Requesters : /\ p = q => asked'[p] = NoneAsked
                            /\ p # q => /\ asked'[p].op = asked[p].op
                                        /\ asked'[p].folder = asked[p].folder
                                        /\ asked'[p].target = asked[p].target
                                        /\ asked'[p].stale \/ asked'[p] = asked[p]
                                        /\ asked[p].op = "move" /\ asked[q].op = "move"
                                             => asked'[p].stale
  BY <1>1, OthersAsked
<1>4. MoveHolds(NoneAsked)' /\ NoneAsked.op = "none"
  BY DEF MoveHolds, NoneAsked
<1>5. ASSUME \A g \in exists \cup gone \cup {Root} : Ancestors(g)' \subseteq Ancestors(g),
             exists \cup gone \subseteq exists' \cup gone'
      PROVE  \A p \in Requesters : MoveHolds(asked[p])'
  <2> SUFFICES ASSUME NEW p \in Requesters PROVE MoveHolds(asked[p])'
    OBVIOUS
  <2>1. CASE p = q
    BY <1>3, <1>4, <2>1 DEF MoveHolds
  <2>2. CASE p # q /\ asked'[p] = asked[p]
    <3>1. MoveHolds(asked[p])
      BY DEF MovesRight
    <3> QED BY <1>5, <2>2, <3>1 DEF MoveHolds
  <2>3. CASE asked'[p].stale
    BY <2>3 DEF MoveHolds
  <2> QED BY <1>3, <2>1, <2>2, <2>3
<1>6. CASE /\ asked[q].op = "create" /\ ForeignKeysHold(Root, t)
           /\ exists' = exists \cup {f} /\ parent' = [parent EXCEPT ![f] = t]
           /\ UNCHANGED <<gone, inFolder>>
  <2>1. f \in Folders \ (exists \cup gone) /\ t \in exists \cup {Root}
    BY <1>0, <1>1, <1>2, <1>6 DEF CreatesNew, AsksRight, ForeignKeysHold
  <2>e. exists' = exists \cup {f} /\ parent' = [parent EXCEPT ![f] = t]
    BY <1>6
  <2>2. /\ \A g \in exists \cup gone \cup {Root} : Ancestors(g)' \subseteq Ancestors(g)
        /\ f \notin Ancestors(f)'
    BY <2>1, <2>e, CreateAbove
  <2>3. \A p \in Requesters : MoveHolds(asked[p])'
    BY <1>5, <1>6, <2>2
  <2>4. Acyclic => Acyclic'
    BY <2>2, <2>e DEF Acyclic
  <2>5. CreatesNew'
    <3>1. \A g \in Folders \ exists' : parent'[g] = Root
      BY <1>1, <1>2, <1>6 DEF CreatesNew
    <3>2. \A p \in Requesters : asked'[p].op = "create" =>
            p # q /\ asked[p].op = "create" /\ asked'[p].folder = asked[p].folder
      BY <1>3, <1>4
    <3> QED BY <1>0, <1>1, <1>6, <3>1, <3>2 DEF CreatesNew
  <2>6. gone' \subseteq Folders \ exists'
    BY <1>1, <1>6, <2>1
  <2>7. MovesRight'
    BY <1>1, <2>3, <2>5, <2>6 DEF MovesRight
  <2> QED BY <1>6, <2>4, <2>7
<1>7. ASSUME \A p \in Requesters : MoveHolds(asked[p])', gone' \subseteq Folders \ exists',
             exists' \cup gone' \subseteq exists \cup gone,
             \A g \in Folders \ exists' : parent'[g] = Root
      PROVE  MovesRight'
  <2>1. \A p \in Requesters : asked'[p].op = "create" =>
          p # q /\ asked[p].op = "create" /\ asked'[p].folder = asked[p].folder
    BY <1>3, <1>4
  <2>2. CreatesNew'
    BY <1>1, <1>7, <2>1 DEF CreatesNew
  <2> QED BY <1>1, <1>7, <2>2 DEF MovesRight
<1>8. CASE /\ asked[q].op = "move" /\ ForeignKeysHold(Root, t) /\ f \in exists
           /\ parent' = [parent EXCEPT ![f] = t] /\ UNCHANGED <<exists, gone, inFolder>>
  <2>1. \A p \in Requesters : MoveHolds(asked[p])'
    BY <1>3, <1>4, <1>8 DEF MoveHolds
  <2>2. \A g \in Folders \ exists' : parent'[g] = Root
    BY <1>1, <1>2, <1>8 DEF CreatesNew
  <2>3. MovesRight'
    BY <1>1, <1>7, <1>8, <2>1, <2>2
  <2>4. ASSUME Acyclic, ~asked[q].stale PROVE Acyclic'
    <3>1. f # t /\ f \notin Ancestors(t) /\ t \in exists \cup {Root}
      BY <1>0, <1>2, <1>8, <2>4 DEF MoveHolds, ForeignKeysHold
    <3> QED BY <1>1, <1>8, <2>4, <3>1, MoveKeepsTree
  <2> QED BY <1>8, <2>3, <2>4
<1>9. CASE /\ asked[q].op = "template" /\ ForeignKeysHold(Root, t)
           /\ inFolder' = [inFolder EXCEPT ![f] = t] /\ UNCHANGED <<exists, gone, parent>>
  <2>1. \A g : Ancestors(g)' = Ancestors(g)
    BY <1>9, SameAbove
  <2>2. \A p \in Requesters : MoveHolds(asked[p])'
    BY <1>5, <1>9, <2>1
  <2>3. MovesRight'
    BY <1>1, <1>7, <1>9, <2>2 DEF CreatesNew
  <2> QED BY <1>9, <2>1, <2>3 DEF Acyclic
<1>10. CASE /\ asked[q].op = "delete" /\ ForeignKeysHold(f, Root) /\ f \in exists
            /\ exists' = exists \ {f} /\ gone' = gone \cup {f}
            /\ parent' = [parent EXCEPT ![f] = Root] /\ UNCHANGED inFolder
  <2>1. \A g \in Folders \cup {Root} : Ancestors(g)' \subseteq Ancestors(g)
    BY <1>1, <1>2, <1>10, DeleteAbove
  <2>2. \A p \in Requesters : MoveHolds(asked[p])'
    BY <1>1, <1>2, <1>5, <1>10, <2>1
  <2>3. \A g \in Folders \ exists' : parent'[g] = Root
    BY <1>1, <1>2, <1>10 DEF CreatesNew
  <2>4. MovesRight'
    <3>1. gone' \subseteq Folders \ exists' /\ exists' \cup gone' \subseteq exists \cup gone
      BY <1>1, <1>2, <1>10
    <3> QED BY <1>7, <2>2, <2>3, <3>1
  <2> QED BY <1>2, <1>10, <2>1, <2>4 DEF Acyclic
<1> QED BY <1>0, <1>6, <1>8, <1>9, <1>10 DEF CommitAsked

\* Folders end up under one another only when a move that was validated before another
\* move's commit is committed itself, for any folders and requests (move_to_template_folder).
THEOREM TreeKept == FolderSpec => CyclesNeedOverlap /\ []FolderTypeOK
<1> DEFINE CycleStep == Acyclic /\ ~Acyclic' =>
                     \E q \in Requesters : /\ asked[q].op = "move" /\ asked[q].stale
                                           /\ asked'[q].op = "none"
<1>1. MovesRight /\ [FolderNext]_folderVars => MovesRight' /\ [CycleStep]_folderVars
  <2> SUFFICES ASSUME MovesRight, [FolderNext]_folderVars PROVE MovesRight' /\ [CycleStep]_folderVars
    OBVIOUS
  <2>1. CASE UNCHANGED folderVars
    <3>1. \A g : Ancestors(g)' = Ancestors(g)
      BY <2>1, SameAbove DEF folderVars
    <3>2. FoldersRight' /\ CreatesNew'
      BY <2>1 DEF folderVars, MovesRight, FoldersRight, NoOrphans, AsksRight, CreatesNew
    <3>3. \A p \in Requesters : MoveHolds(asked[p])'
      BY <2>1, <3>1 DEF folderVars, MovesRight, MoveHolds
    <3> QED BY <2>1, <3>2, <3>3 DEF folderVars, MovesRight
  <2>2. ASSUME NEW q \in Requesters, CommitAsked(q) PROVE MovesRight' /\ CycleStep
    <3>1. asked'[q].op = "none"
      <4>1. asked'[q] = NoneAsked
        BY <2>2, OthersAsked DEF MovesRight
      <4> QED BY <4>1 DEF NoneAsked
    <3> QED BY <2>2, <3>1, FolderAssumption, MovesCommit
  <2>3. ASSUME NEW q \in Requesters,
               \/ \E f \in Folders, t \in Folders \cup {Root} : AskCreate(q, f, t) \/ AskMove(q, f, t)
               \/ \E m \in Templates, t \in Folders \cup {Root} : AskMoveTemplate(q, m, t)
               \/ \E f \in Folders : AskDelete(q, f)
               \/ RollbackAsked(q)
        PROVE  MovesRight' /\ CycleStep
    <3>1. UNCHANGED <<exists, parent>>
      BY <2>3 DEF AskCreate, AskMove, AskMoveTemplate, AskDelete, RollbackAsked
    <3>2. \A g : Ancestors(g)' = Ancestors(g)
      BY <3>1, SameAbove
    <3>3. Acyclic => Acyclic'
      BY <3>1, <3>2 DEF Acyclic
    <3> QED BY <2>3, <3>3, FolderAssumption, MovesAsks
  <2> QED BY <2>1, <2>2, <2>3 DEF FolderNext
<1>2. MovesRight => FolderTypeOK
  BY DEF MovesRight, FoldersRight, FolderTypeOK, AskType
<1> QED BY <1>1, <1>2, MovesStart, PTL DEF FolderSpec, CyclesNeedOverlap

-----------------------------------------------------------------------------
(* The platform.                                                           *)

\* Each part takes its own steps, and the others leave it alone.
LEMMA PartsStep ==
  ASSUME [PlatformNext]_platformVars
  PROVE  /\ [Next]_vars /\ [LimitNext]_limitVars /\ [RecordNext]_recordVars
         /\ [AccessNext]_accessVars /\ [UnsubNext]_unsubVars /\ [ReportNext]_reportVars
         /\ [FolderNext]_folderVars /\ [SenderNext]_senderVars /\ [DvlaNext]_dvlaVars
         /\ [TeamNext]_teamVars
BY DEF PlatformNext, platformVars

\* So every behaviour of the platform is one of each part.
LEMMA PartsRun ==
  /\ PlatformSpec => Spec /\ LimitSpec /\ RecordSpec /\ AccessSpec /\ UnsubSpec
  /\ PlatformSpec => ReportSpec /\ FolderSpec /\ SenderSpec /\ DvlaSpec /\ TeamSpec
<1>1. PlatformInit => /\ Init /\ LimitInit /\ RecordInit /\ AccessInit /\ UnsubInit
                      /\ ReportInit /\ FolderInit /\ SenderInit /\ DvlaInit /\ TeamInit
  BY DEF PlatformInit
<1>2. PlatformSpec => Spec
  BY <1>1, PartsStep, PTL DEF PlatformSpec, Spec
<1>3. PlatformSpec => LimitSpec
  BY <1>1, PartsStep, PTL DEF PlatformSpec, LimitSpec
<1>4. PlatformSpec => RecordSpec
  BY <1>1, PartsStep, PTL DEF PlatformSpec, RecordSpec
<1>5. PlatformSpec => AccessSpec
  BY <1>1, PartsStep, PTL DEF PlatformSpec, AccessSpec
<1>6. PlatformSpec => UnsubSpec
  BY <1>1, PartsStep, PTL DEF PlatformSpec, UnsubSpec
<1>7. PlatformSpec => ReportSpec
  BY <1>1, PartsStep, PTL DEF PlatformSpec, ReportSpec
<1>8. PlatformSpec => FolderSpec
  BY <1>1, PartsStep, PTL DEF PlatformSpec, FolderSpec
<1>9. PlatformSpec => SenderSpec
  BY <1>1, PartsStep, PTL DEF PlatformSpec, SenderSpec
<1>10. PlatformSpec => DvlaSpec
  BY <1>1, PartsStep, PTL DEF PlatformSpec, DvlaSpec
<1>11. PlatformSpec => TeamSpec
  BY <1>1, PartsStep, PTL DEF PlatformSpec, TeamSpec
<1> QED BY <1>2, <1>3, <1>4, <1>5, <1>6, <1>7, <1>8, <1>9, <1>10, <1>11

\* For any constants of the parts, whichever of them take steps: every variable keeps its
\* type, a provider's priority is in its range unless the admin app has set one out of it,
\* every version of a record is in its history and of a provider once, a stored
\* report has its file, and no folder or template hangs in a folder that is gone
\* (create_history, s3upload before the status, the foreign keys of template_folder).
THEOREM PlatformKept == PlatformSpec => []PlatformInv
<1>1. /\ TypeOK /\ RangeKept /\ HistoryFaithful /\ VersionsUnique
      /\ LimitInv /\ LimitTypeOK /\ HistoryIsComplete /\ RecordTypeOK
      /\ EndedSoonRefused /\ AccessTypeOK /\ ArchivedWasOffered /\ UnsubTypeOK
      /\ ReportIsComplete /\ StoredHasFile /\ ReportTypeOK
      /\ NoOrphans /\ FolderTypeOK /\ SenderTypeOK /\ PasswordNotLost /\ DvlaTypeOK
      /\ TeamTypeOK
      => PlatformInv
  BY DEF PlatformInv
<1>2. PlatformSpec => [](TypeOK /\ RangeKept /\ HistoryFaithful /\ VersionsUnique)
  BY PartsRun, TypeCorrect, HistoryCorrect, PTL
<1>3. PlatformSpec => [](LimitInv /\ LimitTypeOK /\ HistoryIsComplete /\ RecordTypeOK)
  BY PartsRun, LimitKept, HistoryComplete, PTL
<1>4. PlatformSpec => [](EndedSoonRefused /\ AccessTypeOK /\ ArchivedWasOffered /\ UnsubTypeOK)
  BY PartsRun, EndedRefused, OfferedBeforeArchived, PTL
<1>5. PlatformSpec => [](ReportIsComplete /\ StoredHasFile /\ ReportTypeOK)
  BY PartsRun, ReportsComplete, PTL
<1>6. PlatformSpec => [](NoOrphans /\ FolderTypeOK /\ SenderTypeOK)
  BY PartsRun, FoldersKept, TreeKept, SendersKept, PTL
<1>7. PlatformSpec => [](PasswordNotLost /\ DvlaTypeOK /\ TeamTypeOK)
  BY PartsRun, PasswordKept, TeamKept, PTL
<1> QED BY <1>1, <1>2, <1>3, <1>4, <1>5, <1>6, <1>7, PTL
=============================================================================
