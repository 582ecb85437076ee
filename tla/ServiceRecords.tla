-------------------------- MODULE ServiceRecords --------------------------
(***************************************************************************)
(* The versioned rows of a service (the service, its templates, its API    *)
(* keys) and the requests of the admin app, each of which reads rows and   *)
(* later commits a new version of them together with its copy in the       *)
(* history table.                                                          *)
(***************************************************************************)
EXTENDS Integers

CONSTANTS Writers,      \* concurrent requests of the admin app
          Keys,         \* API keys of the service
          FirstKeys,    \* those that exist from the start
          MaxVersion    \* bound on the versions of a row

ASSUME RecordAssumption == FirstKeys \subseteq Keys /\ MaxVersion \in Nat \ {0}

VARIABLES rows,         \* the live row of each record
          recordHistory, \* the history table: version -> row
          session        \* what each writer has read

recordVars == <<rows, recordHistory, session>>

Records == {"service", "template"} \cup Keys
Absent == [version |-> 0, name |-> 0, ended |-> FALSE]
FirstVersion == [version |-> 1, name |-> 0, ended |-> FALSE]
NoSession == [op |-> "idle"]

\* name counts edits; ended is Service.active negated, Template.archived or
\* ApiKey.expiry_date.
RecordRow == [version : 0..MaxVersion, name : 0..MaxVersion, ended : BOOLEAN]

RecordTypeOK ==
  /\ rows \in [Records -> RecordRow]
  /\ \A e \in Records : recordHistory[e] \in [DOMAIN recordHistory[e] -> RecordRow]
  /\ \A w \in Writers : session[w] = NoSession \/ session[w].read \in [Records -> RecordRow]

RecordInit ==
  /\ rows = [e \in Records |-> IF e \in Keys \ FirstKeys THEN Absent ELSE FirstVersion]
  /\ recordHistory = [e \in Records |-> IF e \in Keys \ FirstKeys THEN <<>> ELSE <<FirstVersion>>]
  /\ session = [w \in Writers |-> NoSession]

Edited(row) == [row EXCEPT !.version = @ + 1, !.name = @ + 1]
Ended(row) == [row EXCEPT !.version = @ + 1, !.ended = TRUE]
LiveRecords(read) == {e \in Records : read[e].version > 0 /\ ~read[e].ended}

\* dao_archive_service: the service, its templates and its keys.
Archives(read) == {"service"} \cup LiveRecords(read)

\* The records that an operation changes, given what it read.
Changes(op, read) == CASE op = "archive" -> Archives(read)
                       [] OTHER -> {op}

\* The new rows: update_service and update_template edit, expire_api_key and
\* dao_archive_service end, save_model_api_key makes the first version.
Written(op, read, e) ==
  IF read[e].version = 0 THEN FirstVersion
  ELSE IF op \in {"service", "template"} THEN Edited(read[e]) ELSE Ended(read[e])

\* A request reads the rows.  archive_service returns early when the service is
\* archived already.
ReadRows(w, op) ==
  /\ session[w] = NoSession
  /\ op = "archive" => ~rows["service"].ended
  /\ \A e \in Changes(op, rows) : rows[e].version < MaxVersion
  /\ session' = [session EXCEPT ![w] = [op |-> op, read |-> rows]]
  /\ UNCHANGED <<rows, recordHistory>>

NoKeyConflict(w) == TRUE                                                \* mutant
\* create_history adds one to the version that was read; (id, version) is the
\* primary key of the history table.
HistoryKeyFree(w) ==
  \A e \in Changes(session[w].op, session[w].read) :
    session[w].read[e].version + 1 \notin DOMAIN recordHistory[e]

\* autocommit: the rows and their history in one transaction, or an IntegrityError
\* and a rollback.  UPDATE sets the columns that the request changed.
CommitRows(w) ==
  /\ session[w] # NoSession
  /\ LET op == session[w].op
         read == session[w].read
         new == [e \in Changes(op, read) |-> Written(op, read, e)]
         Merged(e) == [new[e] EXCEPT
                         !.name = IF @ = read[e].name THEN rows[e].name ELSE @,
                         !.ended = IF @ = read[e].ended THEN rows[e].ended ELSE @]
     IN IF HistoryKeyFree(w)
        THEN /\ rows' = [e \in Records |-> IF e \in DOMAIN new THEN Merged(e)
                                           ELSE rows[e]]
             /\ recordHistory' = [e \in Records |->
                  IF e \notin DOMAIN new THEN recordHistory[e]
                  ELSE [v \in DOMAIN recordHistory[e] \cup {new[e].version} |->
                          IF v = new[e].version THEN new[e] ELSE recordHistory[e][v]]]
        ELSE UNCHANGED <<rows, recordHistory>>
  /\ session' = [session EXCEPT ![w] = NoSession]

RecordNext ==
  \E w \in Writers :
    \/ \E op \in Records \cup {"archive"} : ReadRows(w, op)
    \/ CommitRows(w)

RecordSpec == RecordInit /\ [][RecordNext]_recordVars

-----------------------------------------------------------------------------
\* Whatever requests overlap, the history holds every version of every record from
\* the first and the last of them is the live row (version_class, create_history).
HistoryIsComplete ==
  \A e \in Records : /\ DOMAIN recordHistory[e] = 1..rows[e].version
                     /\ rows[e].version > 0 => recordHistory[e][rows[e].version] = rows[e]

\* A commit replaces only what its request has read: of two requests that read the
\* same version of a record one fails, no change is lost (autocommit's rollback on
\* the history table's primary key).
NoLostUpdate ==
  [][\A w \in Writers : session[w] # NoSession /\ session'[w] = NoSession =>
       \A e \in Records : rows'[e] # rows[e] => session[w].read[e] = rows[e]]_recordVars
=============================================================================
