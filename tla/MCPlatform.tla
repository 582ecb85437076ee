----------------------------- MODULE MCPlatform -----------------------------
(***************************************************************************)
(* Instances for TLC of the parts of the platform that share no state:     *)
(* each initial state chooses one of them, and only that one takes steps.  *)
(***************************************************************************)
EXTENDS ProviderPriority, DailyLimits, ServiceRecords, ApiAccess, Unsubscribes,
        ReportRequests, TemplateFolders, SmsSenders, DvlaPassword, Teams

CONSTANTS Parts   \* the parts to check

MCProviders == {"spryng", "firetext", "mmg"}
\* Like ConfigNL's SMS_PROVIDER_RESTING_POINTS one provider has a resting point of its
\* own and the others 0; 4 of 5 instead of 100 of 100, so that no Step ends on it.
MCResting == [p \in MCProviders |-> IF p = "spryng" THEN 4 ELSE 0]
\* One is below the range of priorities, the other above it.
MCAdminPriorities == {-4, 9}
MCAlternative == [p \in MCProviders |-> IF p = "spryng" THEN "firetext"
                                        ELSE "spryng"]

VARIABLE part     \* the part that this behaviour is of

platformVars == <<vars, limitVars, recordVars, accessVars, unsubVars, reportVars,
                  folderVars, senderVars, dvlaVars, teamVars, part>>

PlatformInit ==
  /\ part \in Parts
  /\ Init /\ LimitInit /\ RecordInit /\ AccessInit /\ UnsubInit /\ ReportInit
  /\ FolderInit /\ SenderInit /\ DvlaInit /\ TeamInit

PlatformNext ==
  /\ \/ /\ part = "providers" /\ Next
        /\ UNCHANGED <<limitVars, recordVars, accessVars, unsubVars, reportVars,
                       folderVars, senderVars, dvlaVars, teamVars>>
     \/ /\ part = "limits" /\ LimitNext
        /\ UNCHANGED <<vars, recordVars, accessVars, unsubVars, reportVars,
                       folderVars, senderVars, dvlaVars, teamVars>>
     \/ /\ part = "records" /\ RecordNext
        /\ UNCHANGED <<vars, limitVars, accessVars, unsubVars, reportVars,
                       folderVars, senderVars, dvlaVars, teamVars>>
     \/ /\ part = "access" /\ AccessNext
        /\ UNCHANGED <<vars, limitVars, recordVars, unsubVars, reportVars,
                       folderVars, senderVars, dvlaVars, teamVars>>
     \/ /\ part = "unsubscribes" /\ UnsubNext
        /\ UNCHANGED <<vars, limitVars, recordVars, accessVars, reportVars,
                       folderVars, senderVars, dvlaVars, teamVars>>
     \/ /\ part = "reports" /\ ReportNext
        /\ UNCHANGED <<vars, limitVars, recordVars, accessVars, unsubVars,
                       folderVars, senderVars, dvlaVars, teamVars>>
     \/ /\ part = "folders" /\ FolderNext
        /\ UNCHANGED <<vars, limitVars, recordVars, accessVars, unsubVars, reportVars,
                       senderVars, dvlaVars, teamVars>>
     \/ /\ part = "senders" /\ SenderNext
        /\ UNCHANGED <<vars, limitVars, recordVars, accessVars, unsubVars, reportVars,
                       folderVars, dvlaVars, teamVars>>
     \/ /\ part = "dvla" /\ DvlaNext
        /\ UNCHANGED <<vars, limitVars, recordVars, accessVars, unsubVars, reportVars,
                       folderVars, senderVars, teamVars>>
     \/ /\ part = "teams" /\ TeamNext
        /\ UNCHANGED <<vars, limitVars, recordVars, accessVars, unsubVars, reportVars,
                       folderVars, senderVars, dvlaVars>>
  /\ UNCHANGED part

PlatformSpec == PlatformInit /\ [][PlatformNext]_platformVars

\* Only what is said of the providers needs fairness.
FairPlatformSpec == PlatformSpec /\ Fairness

\* Every variable of the part keeps its type, and what its rows refer to exists: the
\* versions of a record in its history, the file of a stored report, the folder that
\* a folder or template is in.
PlatformInv ==
  CASE part = "limits" -> LimitTypeOK
    [] part = "records" -> RecordTypeOK /\ HistoryIsComplete
    [] part = "access" -> AccessTypeOK
    [] part = "unsubscribes" -> UnsubTypeOK
    [] part = "reports" -> ReportTypeOK /\ StoredHasFile
    [] part = "folders" -> FolderTypeOK /\ NoOrphans
    [] part = "senders" -> SenderTypeOK
    [] part = "dvla" -> DvlaTypeOK
    [] part = "teams" -> TeamTypeOK
    [] OTHER -> TypeOK /\ RangeKept /\ HistoryFaithful /\ VersionsUnique
=============================================================================
