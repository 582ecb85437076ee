---------------------------- MODULE Unsubscribes ----------------------------
(***************************************************************************)
(* One-click unsubscribing from emails: a click is recorded unless a       *)
(* request of the same email is still open, the service collects requests  *)
(* into reports and marks these as processed, and nightly tasks move       *)
(* requests to the history table.  Every transaction is a step of its own. *)
(***************************************************************************)
EXTENDS Integers, FiniteSets, FiniteSetsExt

CONSTANTS Emails,       \* notifications with an unsubscribe link
          Clicks,       \* clicks that may be handled at once
          ReportMakers,       \* users of the service who make reports
          BatchDays,    \* days that a report stays (7)
          OldDays,      \* days that a request waits for a report (90)
          MaxRows,      \* bound on requests
          MaxReports,   \* bound on reports
          LastNight     \* bound on days

ASSUME UnsubAssumption ==
  {BatchDays, OldDays, MaxRows, MaxReports, LastNight} \subseteq Nat

VARIABLES unsub,        \* unsubscribe_request and its history, by created_at
          report,       \* unsubscribe_request_report
          click,        \* clicks between the test for duplicates and the INSERT
          view,         \* the summary each admin looks at
          sweep,        \* what a nightly task has selected, by task
          night         \* days passed

unsubVars == <<unsub, report, click, view, sweep, night>>

RowIds == 1..MaxRows
UnsubReports == 1..MaxReports
Sweeps == {"batched", "old"}
NoRow == [of |-> "none", home |-> "none", report |-> 0, copy |-> 0, day |-> 0]
NoReport == [made |-> FALSE, done |-> FALSE, day |-> 0]
NoView == [pc |-> "none", from |-> 0, to |-> 0, report |-> 0]

UnsubTypeOK ==
  /\ \A i \in RowIds :
       /\ unsub[i].of \in Emails \cup {"none"}
       /\ unsub[i].home \in {"none", "live", "history"}
       /\ {unsub[i].report, unsub[i].copy} \subseteq {0} \cup UnsubReports
  /\ report \in [UnsubReports -> [made : BOOLEAN, done : BOOLEAN, day : 0..LastNight]]
  /\ click \in [Clicks -> {"idle"} \cup Emails]
  /\ view \in [ReportMakers -> [pc : {"none", "read", "made"}, from : 0..MaxRows,
                          to : 0..MaxRows, report : {0} \cup UnsubReports]]
  /\ sweep \in [Sweeps -> SUBSET RowIds]

UnsubInit ==
  /\ unsub = [i \in RowIds |-> NoRow]
  /\ report = [r \in UnsubReports |-> NoReport]
  /\ click = [c \in Clicks |-> "idle"]
  /\ view = [a \in ReportMakers |-> NoView]
  /\ sweep = [s \in Sweeps |-> {}]
  /\ night = 0

LiveOf(e) == {i \in RowIds : unsub[i].home = "live" /\ unsub[i].of = e}
Unbatched == {i \in RowIds : unsub[i].home = "live" /\ unsub[i].report = 0}
Processed(i) == unsub[i].report # 0 /\ report[unsub[i].report].done
NextFree == {i \in RowIds : unsub[i].home = "none" /\ \A j \in 1..(i - 1) :
                              unsub[j].home # "none"}

\* is_duplicate_unsubscribe_request: an open request of the same email makes the
\* click a duplicate, which is answered and forgotten, and with two rows of the email
\* one_or_none raises: neither changes anything.
ClickLink(c, e) ==
  /\ click[c] = "idle"
  /\ Cardinality(LiveOf(e)) <= 1 /\ \A i \in LiveOf(e) : Processed(i)
  /\ click' = [click EXCEPT ![c] = e]
  /\ UNCHANGED <<unsub, report, view, sweep, night>>

\* create_unsubscribe_request_dao
CreateRequest(c) ==
  /\ click[c] # "idle"
  /\ \E i \in NextFree :
       unsub' = [unsub EXCEPT ![i] = [NoRow EXCEPT !.of = click[c], !.home = "live",
                                                   !.day = night]]
  /\ click' = [click EXCEPT ![c] = "idle"]
  /\ UNCHANGED <<report, view, sweep, night>>

\* The summary of the requests that are in no report yet.
ReadSummary(a) ==
  /\ view[a].pc = "none" /\ Unbatched # {}
  /\ view' = [view EXCEPT ![a] = [pc |-> "read", from |-> Min(Unbatched),
                                  to |-> Max(Unbatched), report |-> 0]]
  /\ UNCHANGED <<unsub, report, click, sweep, night>>

\* create_unsubscribe_request_report commits the report ...
CreateReport(a) ==
  /\ view[a].pc = "read"
  /\ \E r \in UnsubReports :
       /\ ~report[r].made /\ \A q \in 1..(r - 1) : report[q].made
       /\ report' = [report EXCEPT ![r] = [made |-> TRUE, done |-> FALSE, day |-> night]]
       /\ view' = [view EXCEPT ![a].pc = "made", ![a].report = r]
  /\ UNCHANGED <<unsub, click, sweep, night>>

\* ... and then assigns the requests of the summary to it.
AssignRequests(a) ==
  /\ view[a].pc = "made"
  /\ unsub' = [i \in RowIds |->
       IF i \in Unbatched /\ i \in view[a].from..view[a].to
       THEN [unsub[i] EXCEPT !.report = view[a].report] ELSE unsub[i]]
  /\ view' = [view EXCEPT ![a] = NoView]
  /\ UNCHANGED <<report, click, sweep, night>>

\* process_unsubscribe_request_report; the mark may be taken back.
ProcessReport(r, done) ==
  /\ report[r].made /\ report[r].done # done
  /\ report' = [report EXCEPT ![r].done = done]
  /\ UNCHANGED <<unsub, click, view, sweep, night>>

\* dao_archive_batched_unsubscribe_requests
BatchedRows == {i \in RowIds : /\ unsub[i].home = "live" /\ unsub[i].report # 0
                               /\ night - report[unsub[i].report].day > BatchDays}
OldAndBatched == {i \in RowIds : /\ unsub[i].home = "live"
                                 /\ night - unsub[i].day > OldDays}       \* mutant
\* dao_archive_old_unsubscribe_requests
OldRows == {i \in Unbatched : night - unsub[i].day > OldDays}

\* archive_unsubscribe_requests_from_query reads the rows ...
SelectExpired(s) ==
  /\ sweep[s] = {}
  /\ sweep' = [sweep EXCEPT ![s] = IF s = "batched" THEN BatchedRows ELSE OldRows]
  /\ sweep'[s] # {}
  /\ unsub' = [i \in RowIds |-> IF i \in sweep'[s]
                                THEN [unsub[i] EXCEPT !.copy = unsub[i].report]
                                ELSE unsub[i]]
  /\ UNCHANGED <<report, click, view, night>>

\* ... and moves them, as they were read, to the history table, unless one of them is
\* there: then the INSERT fails and the task with it.
MoveExpired(s) ==
  /\ sweep[s] # {}
  /\ unsub' = IF \E i \in sweep[s] : unsub[i].home = "history" THEN unsub
              ELSE [i \in RowIds |-> IF i \in sweep[s]
                                     THEN [unsub[i] EXCEPT !.home = "history"]
                                     ELSE unsub[i]]
  /\ sweep' = [sweep EXCEPT ![s] = {}]
  /\ UNCHANGED <<report, click, view, night>>

NextNight ==
  /\ night < LastNight
  /\ night' = night + 1
  /\ UNCHANGED <<unsub, report, click, view, sweep>>

UnsubNext ==
  \/ \E c \in Clicks : (\E e \in Emails : ClickLink(c, e)) \/ CreateRequest(c)
  \/ \E a \in ReportMakers : ReadSummary(a) \/ CreateReport(a) \/ AssignRequests(a)
  \/ \E r \in UnsubReports, done \in BOOLEAN : ProcessReport(r, done)
  \/ \E s \in Sweeps : SelectExpired(s) \/ MoveExpired(s)
  \/ NextNight

UnsubSpec == UnsubInit /\ [][UnsubNext]_unsubVars

-----------------------------------------------------------------------------
\* A request reaches the history only after a service had time for it: it was in a
\* report for more than BatchDays, or in none for more than OldDays, when the nightly
\* task read it (serialize, "will_be_archived_at").
ArchivedWasOffered ==
  \A i \in RowIds : unsub[i].home = "history" =>
    IF unsub[i].copy # 0 THEN night - report[unsub[i].copy].day > BatchDays
    ELSE night - unsub[i].day > OldDays
=============================================================================
