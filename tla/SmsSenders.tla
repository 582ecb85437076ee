----------------------------- MODULE SmsSenders -----------------------------
(***************************************************************************)
(* The text message senders of a service, one of which is the default, and *)
(* the inbound number that may be one of them.  A request reads and tests  *)
(* in one step and commits in another, without locks.  The reply-to        *)
(* addresses and letter contacts of a service are kept in the same way.    *)
(***************************************************************************)
EXTENDS Integers, FiniteSets

CONSTANTS Senders,      \* ServiceSmsSender rows
          FirstSender,  \* the one made with the service
          Editors       \* requests that may be handled at once

ASSUME SenderAssumption == IsFiniteSet(Senders) /\ FirstSender \in Senders

VARIABLES sender,       \* the rows
          number,       \* the inbound number: free, held by the service, or inactive
          edit          \* what each request has read and is about to commit

senderVars == <<sender, number, edit>>

NoSender == [home |-> "none", default |-> FALSE, inbound |-> FALSE]
NoEdit == [op |-> "none", of |-> FirstSender, old |-> {}, default |-> FALSE,
           inbound |-> FALSE, stale |-> FALSE]

SenderTypeOK ==
  /\ sender \in [Senders -> [home : {"none", "live", "archived"}, default : BOOLEAN,
                             inbound : BOOLEAN]]
  /\ number \in {"free", "held", "inactive"}
  /\ \A q \in Editors : /\ edit[q].op \in {"none", "add", "update", "archive",
                                           "allocated", "convert"}
                        /\ edit[q].old \subseteq Senders

SenderInit ==
  /\ sender = [s \in Senders |->
       IF s = FirstSender THEN [home |-> "live", default |-> TRUE, inbound |-> FALSE]
       ELSE NoSender]
  /\ number = "free"
  /\ edit = [q \in Editors |-> NoEdit]

Shown == {s \in Senders : sender[s].home = "live"}
Defaults == {s \in Shown : sender[s].default}

\* _get_existing_default raises unless there is exactly one among the senders.
HasDefault == Shown = {} \/ Cardinality(Defaults) = 1

Unused(s) == sender[s].home = "none" /\ \A q \in Editors : edit[q].op = "add" =>
                                                             edit[q].of # s

Plan(q, op, s, d, i) ==
  edit' = [edit EXCEPT ![q] = [op |-> op, of |-> s, default |-> d,
                               old |-> IF d THEN Defaults ELSE {},
                               inbound |-> i, stale |-> edit[q].stale]]

\* dao_add_sms_sender_for_service, with _raise_when_no_default
PlanAdd(q, s, d) ==
  /\ edit[q] = NoEdit /\ Unused(s)
  /\ HasDefault /\ (d \/ Defaults # {})
  /\ Plan(q, "add", s, d, FALSE)
  /\ UNCHANGED <<sender, number>>

\* update_service_sms_sender, dao_update_service_sms_sender
PlanUpdate(q, s, d) ==
  /\ edit[q] = NoEdit /\ s \in Shown
  /\ HasDefault /\ (d \/ s \notin Defaults)
  /\ Plan(q, "update", s, d, FALSE)
  /\ UNCHANGED <<sender, number>>

ArchivableAnyway(s) == ~sender[s].inbound                                \* mutant
\* archive_sms_sender
MayArchive(s) == ~sender[s].inbound /\ ~sender[s].default

PlanArchive(q, s) ==
  /\ edit[q] = NoEdit /\ sender[s].home # "none" /\ MayArchive(s)
  /\ Plan(q, "archive", s, FALSE, FALSE)
  /\ UNCHANGED <<sender, number>>

\* dao_allocate_number_for_service: a conditional UPDATE, committed.
AllocateNumber(q) ==
  /\ edit[q] = NoEdit /\ number = "free"
  /\ number' = "held"
  /\ edit' = [edit EXCEPT ![q].op = "allocated"]
  /\ UNCHANGED sender

\* add_inbound_number_to_service goes on: the only sender becomes the number, or a new
\* default sender is added.
PlanInbound(q) ==
  /\ edit[q].op = "allocated"
  /\ \/ \E s \in Shown : Shown = {s} /\ Plan(q, "convert", s, sender[s].default, TRUE)
     \/ /\ Cardinality(Shown) # 1 /\ HasDefault
        /\ \E s \in Senders : Unused(s) /\ Plan(q, "add", s, TRUE, TRUE)
     \/ ~HasDefault /\ edit' = [edit EXCEPT ![q] = NoEdit]
  /\ UNCHANGED <<sender, number>>

\* The commit: _reset_old_default_to_false when the sender is to be the default, and
\* the columns that the request changes.
CommitEdit(q) ==
  LET e == edit[q]
      reset == IF e.op \in {"add", "update"} /\ e.default THEN e.old \ {e.of} ELSE {}
      written == CASE e.op = "add" -> [home |-> "live", default |-> e.default,
                                       inbound |-> e.inbound]
                   [] e.op = "update" -> [sender[e.of] EXCEPT !.default = e.default]
                   [] e.op = "convert" -> [sender[e.of] EXCEPT !.inbound = TRUE]
                   [] OTHER -> [sender[e.of] EXCEPT !.home = "archived"]
  IN /\ e.op \in {"add", "update", "convert", "archive"}
     /\ e.op = "add" \/ sender[e.of].home # "none"
     /\ sender' = [s \in Senders |->
          CASE s = e.of -> written
            [] s # e.of /\ s \in reset -> [sender[s] EXCEPT !.default = FALSE]
            [] OTHER -> sender[s]]
     /\ edit' = [p \in Editors |->
          CASE p = q -> NoEdit
            [] p # q /\ edit[p].op = "none" -> NoEdit
            [] OTHER -> [edit[p] EXCEPT !.stale = TRUE]]
     /\ UNCHANGED number

\* The row that a request wants to change is gone.
EditFails(q) ==
  /\ edit[q].op \in {"update", "convert", "archive"} /\ sender[edit[q].of].home = "none"
  /\ edit' = [edit EXCEPT ![q] = NoEdit]
  /\ UNCHANGED <<sender, number>>

\* dao_remove_inbound_sms_senders deletes every sender with a number, the default too.
WithoutInbound(s) == IF sender[s].inbound THEN NoSender ELSE sender[s]

\* dao_remove_inbound_sms_for_service, one transaction: the senders and the number.
RemoveInbound(archive) ==
  /\ number = "held"
  /\ number' = IF archive THEN "inactive" ELSE "free"
  /\ sender' = [s \in Senders |-> WithoutInbound(s)]
  /\ edit' = [p \in Editors |-> IF edit[p].op = "none" THEN NoEdit
                                ELSE [edit[p] EXCEPT !.stale = TRUE]]

SenderNext ==
  \/ \E q \in Editors :
       \/ \E s \in Senders, d \in BOOLEAN : PlanAdd(q, s, d) \/ PlanUpdate(q, s, d)
       \/ \E s \in Senders : PlanArchive(q, s)
       \/ AllocateNumber(q) \/ PlanInbound(q) \/ CommitEdit(q) \/ EditFails(q)
  \/ \E archive \in BOOLEAN : RemoveInbound(archive)

SenderSpec == SenderInit /\ [][SenderNext]_senderVars

-----------------------------------------------------------------------------
StaleCommit == \E q \in Editors : edit[q].stale /\ edit'[q] = NoEdit

\* A service with one default sender keeps exactly one through every request, except
\* for requests that overlap, and for the removal of an inbound number that is the
\* default: that leaves no default, and every later change of the senders raises
\* (service_sms_sender_dao, "There should only be one default sms sender").
DefaultSurvives ==
  [][Cardinality(Defaults) = 1 /\ Cardinality(Defaults') # 1 =>
       StaleCommit \/ \E s \in Defaults : sender[s].inbound /\ number' # number]_senderVars

\* A sender that shows the inbound number belongs to a service that holds it, unless
\* the number was removed while a request was giving it to a sender
\* (add_inbound_number_to_service, dao_remove_inbound_sms_for_service).
InboundIsHeld ==
  [][(\A s \in Senders : sender[s].inbound => number = "held") =>
       StaleCommit \/ \A s \in Senders : sender'[s].inbound => number' = "held"]_senderVars

\* Requests that do not overlap keep one default, and the number with its sender.
SendersStayRight == DefaultSurvives /\ InboundIsHeld
=============================================================================
