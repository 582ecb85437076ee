--------------------------- MODULE ReportRequests ---------------------------
(***************************************************************************)
(* Reports of a service's notifications: a request is saved and queued, a  *)
(* worker reads the notifications page by page, newest first, while rows   *)
(* arrive and change status, uploads a CSV file in parts and marks the     *)
(* request as stored.  Old requests are marked as deleted every night.     *)
(***************************************************************************)
EXTENDS Integers, FiniteSets

CONSTANTS ReportIds,    \* report requests, of one user and one kind
          Runs,         \* deliveries of process_report_request at work
          Notes,        \* notifications of the service
          NoNote,
          LastMoment,   \* bound: created_at is one of 1..LastMoment
          PageSize,     \* REPORT_REQUEST_NOTIFICATIONS_CSV_BATCH_SIZE
          Timeout,      \* REPORT_REQUEST_NOTIFICATIONS_TIMEOUT_MINUTES, in ticks
          DeleteAfter   \* a day, in ticks: when the nightly task deletes a request

ASSUME ReportAssumption == /\ IsFiniteSet(Notes) /\ NoNote \notin Notes
                           /\ LastMoment \in Nat /\ PageSize \in Nat \ {0}
                           /\ Timeout \in Nat /\ DeleteAfter \in Nat

VARIABLES createdAt,    \* when a notification was made; 0: not yet
          inTable,      \* the rows of notifications
          matches,      \* ... the report asks for
          asking,       \* requests for a report that found no other going on
          requests,     \* report_requests
          queued,       \* process_report_request messages; SQS may deliver one again
          runs,         \* the workers
          files         \* requests whose file is complete in S3

noteVars == <<createdAt, inTable, matches>>
reportVars == <<noteVars, asking, requests, queued, runs, files>>

NoRequest == [status |-> "none", age |-> 0, quiet |-> 0]
\* last: older_than; ends: the last rows of the full pages; cut: older_than was gone;
\* due: what matched from the start of the report on.
NoRun == [pc |-> "free", of |-> "none", last |-> NoNote, csv |-> {}, twice |-> FALSE,
          ends |-> {}, cut |-> FALSE, due |-> {}]
Statuses == {"none", "pending", "in_progress", "stored", "failed", "deleted"}

ReportTypeOK ==
  /\ createdAt \in [Notes -> 0..LastMoment]
  /\ matches \subseteq inTable /\ inTable \subseteq {n \in Notes : createdAt[n] > 0}
  /\ requests \in [ReportIds -> [status : Statuses, age : 0..DeleteAfter,
                                 quiet : 0..Timeout]]
  /\ queued \cup files \cup asking \subseteq ReportIds
  /\ \A w \in Runs : /\ runs[w].pc \in {"free", "read", "fetch", "finish", "store"}
                     /\ runs[w].csv \cup runs[w].due \cup runs[w].ends \subseteq Notes
                     /\ runs[w].last \in Notes \cup {NoNote}

ReportInit ==
  /\ createdAt = [n \in Notes |-> 0] /\ inTable = {} /\ matches = {}
  /\ requests = [r \in ReportIds |-> NoRequest]
  /\ asking = {} /\ queued = {} /\ files = {}
  /\ runs = [w \in Runs |-> NoRun]

\* Two notifications may be made at the same moment, and saved in another order.
Arrives(n) ==
  /\ createdAt[n] = 0
  /\ \E moment \in 1..LastMoment : createdAt' = [createdAt EXCEPT ![n] = moment]
  /\ inTable' = inTable \cup {n} /\ matches' = matches \cup {n}
  /\ UNCHANGED <<asking, requests, queued, runs, files>>

NotDue(n) == runs' = [w \in Runs |-> [runs[w] EXCEPT !.due = @ \ {n}]]

\* Its status, or at midnight its day, starts or stops matching the report.
ChangesStatus(n) ==
  /\ n \in inTable
  /\ matches' = IF n \in matches THEN matches \ {n} ELSE matches \cup {n}
  /\ NotDue(n)
  /\ UNCHANGED <<createdAt, inTable, asking, requests, queued, files>>

\* The row is deleted, because its task could not be queued, or archived.
RowGone(n) ==
  /\ n \in inTable
  /\ inTable' = inTable \ {n} /\ matches' = matches \ {n}
  /\ NotDue(n)
  /\ UNCHANGED <<createdAt, asking, requests, queued, files>>

\* dao_get_oldest_ongoing_report_request
Ongoing(r) == /\ requests[r].status \in {"pending", "in_progress"}
              /\ requests[r].quiet < Timeout

\* create_report_request_by_type: an ongoing request is returned instead.
CheckOngoing(r) ==
  /\ r \notin asking /\ requests[r].status = "none"
  /\ \A q \in ReportIds : ~Ongoing(q)
  /\ asking' = asking \cup {r}
  /\ UNCHANGED <<noteVars, requests, queued, runs, files>>

\* The request is committed and then queued, unless the process dies in between.
CreateReportRequest(r) ==
  /\ r \in asking
  /\ asking' = asking \ {r}
  /\ requests' = [requests EXCEPT ![r] = [NoRequest EXCEPT !.status = "pending"]]
  /\ queued' \in {queued, queued \cup {r}}
  /\ UNCHANGED <<noteVars, runs, files>>

SetStatus(r, s) == requests' = [requests EXCEPT ![r].status = s, ![r].quiet = 0]

\* process_report_request reads the request; SQS keeps the message until the end.
ReadRequest(w, r) ==
  /\ runs[w] = NoRun /\ r \in queued
  /\ IF requests[r].status = "pending"
     THEN runs' = [runs EXCEPT ![w] = [NoRun EXCEPT !.pc = "read", !.of = r]] /\ queued' = queued
     ELSE queued' = queued \ {r} /\ runs' = runs
  /\ UNCHANGED <<noteVars, asking, requests, files>>

StartReport(w) ==
  /\ runs[w].pc = "read"
  /\ SetStatus(runs[w].of, "in_progress")
  /\ runs' = [runs EXCEPT ![w].pc = "fetch", ![w].due = matches]
  /\ UNCHANGED <<noteVars, asking, queued, files>>

OlderUnlessGone(w) ==
  LET last == runs[w].last
  IN {n \in matches : last \notin inTable \/ createdAt[n] < createdAt[last]}   \* mutant

\* get_notifications_for_service: what matches and is older than the last row of the
\* page before.  If that row is gone there are no results.
Older(w) ==
  LET last == runs[w].last
  IN {n \in matches : last = NoNote \/ (last \in inTable /\ createdAt[n] < createdAt[last])}

IsUnsorted(page, w) ==
  /\ page \subseteq Older(w)
  /\ Cardinality(page) <= PageSize
  /\ Cardinality(page) < PageSize => page = Older(w)                        \* mutant

\* The newest of them first, those of one moment in any order.
IsPage(page, w) ==
  /\ page \subseteq Older(w)
  /\ Cardinality(page) <= PageSize
  /\ Cardinality(page) < PageSize => page = Older(w)
  /\ \A n \in page, m \in Older(w) \ page : createdAt[n] >= createdAt[m]

\* The page is written; the next one is older than its last row.
NextPage(run, page, last) ==
  [run EXCEPT !.last = last, !.csv = @ \cup page, !.twice = @ \/ run.csv \cap page # {},
              !.ends = IF Cardinality(page) = PageSize THEN @ \cup {last} ELSE @]

\* _fetch_and_upload_notifications: one page, until a page is empty.
FetchPage(w) ==
  /\ runs[w].pc = "fetch"
  /\ \E page \in SUBSET Notes :
       /\ IsPage(page, w)
       /\ \/ /\ page = {}
             /\ runs' = [runs EXCEPT ![w].pc = "finish",
                          ![w].cut = runs[w].last \notin inTable \cup {NoNote}]
          \/ \E last \in page : /\ \A n \in page : createdAt[n] >= createdAt[last]
                               /\ runs' = [runs EXCEPT ![w] = NextPage(runs[w], page, last)]
  /\ UNCHANGED <<noteVars, asking, requests, queued, files>>

\* _finalize_upload
FinishUpload(w) ==
  /\ runs[w].pc = "finish"
  /\ files' = files \cup {runs[w].of}
  /\ runs' = [runs EXCEPT ![w].pc = "store"]
  /\ UNCHANGED <<noteVars, asking, requests, queued>>

StoreUnfinished(w) ==
  /\ runs[w].pc = "finish"
  /\ SetStatus(runs[w].of, "stored")
  /\ UNCHANGED <<noteVars, asking, queued, runs, files>>                  \* mutant

StoreReport(w) ==
  /\ runs[w].pc = "store"
  /\ SetStatus(runs[w].of, "stored")
  /\ queued' = queued \ {runs[w].of}
  /\ runs' = [runs EXCEPT ![w] = NoRun]
  /\ UNCHANGED <<noteVars, asking, files>>

\* Reading, uploading or writing the status raises: the request has failed.
FailReport(w) ==
  /\ runs[w].pc \in {"fetch", "finish", "store"}
  /\ SetStatus(runs[w].of, "failed")
  /\ queued' = queued \ {runs[w].of}
  /\ runs' = [runs EXCEPT ![w] = NoRun]
  /\ UNCHANGED <<noteVars, asking, files>>

\* The worker dies; its message is delivered again.
CrashReport(w) ==
  /\ runs[w] # NoRun
  /\ runs' = [runs EXCEPT ![w] = NoRun]
  /\ UNCHANGED <<noteVars, asking, requests, queued, files>>

Deletable(r) == requests[r].status \notin {"none", "deleted"} /\ requests[r].age = DeleteAfter

\* update_report_requests_status_to_deleted
DeleteReports ==
  /\ \E r \in ReportIds : Deletable(r)
  /\ requests' = [r \in ReportIds |->
       IF Deletable(r) THEN [requests[r] EXCEPT !.status = "deleted", !.quiet = 0]
       ELSE requests[r]]
  /\ UNCHANGED <<noteVars, asking, queued, runs, files>>

TimePasses ==
  /\ requests' = [r \in ReportIds |->
       IF requests[r].status = "none" THEN requests[r]
       ELSE [requests[r] EXCEPT !.age = IF @ < DeleteAfter THEN @ + 1 ELSE @,
                                !.quiet = IF @ < Timeout THEN @ + 1 ELSE @]]
  /\ UNCHANGED <<noteVars, asking, queued, runs, files>>

ReportNext ==
  \/ \E n \in Notes : Arrives(n) \/ ChangesStatus(n) \/ RowGone(n)
  \/ \E r \in ReportIds : \/ CheckOngoing(r) \/ CreateReportRequest(r)
                          \/ \E w \in Runs : ReadRequest(w, r)
  \/ \E w \in Runs : \/ StartReport(w) \/ FetchPage(w) \/ FinishUpload(w)
                     \/ StoreReport(w) \/ FailReport(w) \/ CrashReport(w)
  \/ DeleteReports \/ TimePasses

ReportSpec == ReportInit /\ [][ReportNext]_reportVars

-----------------------------------------------------------------------------
\* A due notification that the report of w has not: made at the very moment of the last
\* row of a full page, or older than a last row that was gone when the next page was read.
MayMiss(w, n) ==
  \/ \E e \in runs[w].ends : createdAt[e] = createdAt[n]
  \/ (runs[w].cut /\ createdAt[n] < createdAt[runs[w].last])

\* A finished file has no notification twice, and every one that was there and matched
\* all the while it was written, whatever arrived, changed status and was deleted
\* between its pages, but for what reading older than a row may miss
\* (ReportRequestProcessor, get_notifications_for_service's older_than).
ReportIsComplete ==
  \A w \in Runs : runs[w].pc \in {"finish", "store"} =>
    /\ ~runs[w].twice
    /\ \A n \in runs[w].due \ runs[w].csv : MayMiss(w, n)

\* A request that says it is stored has its file, although two deliveries of its
\* message may have worked on it at once, one of them failing or dying
\* (process_report_request).
StoredHasFile == \A r \in ReportIds : requests[r].status = "stored" => r \in files
=============================================================================
