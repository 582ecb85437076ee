------------------------------- MODULE Teams -------------------------------
(***************************************************************************)
(* The team of a service: its members, their permissions, the requests to  *)
(* join it, and the archiving of users.  A request reads and tests in one  *)
(* step and commits in others; of the database, the keys of                *)
(* user_to_service and permissions are what holds at a commit.             *)
(***************************************************************************)
EXTENDS FiniteSets

CONSTANTS Users, Founder,    \* Founder made the service
          PermissionNames,   \* manage_settings among them
          JoinRequests,
          TeamCalls          \* requests that may be handled at once

ASSUME TeamAssumption == Founder \in Users /\ "manage_settings" \in PermissionNames

VARIABLES userState,   \* users.state
          member,      \* user_to_service
          granted,     \* permissions of the service, by user
          join,        \* service_join_requests
          call         \* what each request has read and is about to commit

teamVars == <<userState, member, granted, join, call>>

NoCall == [op |-> "none", user |-> Founder, perms |-> {}, stale |-> FALSE]
NoJoin == [by |-> Founder, status |-> "none"]
Decisions == {"pending", "approved", "rejected", "cancelled"}

TeamTypeOK ==
  /\ userState \in [Users -> {"pending", "active", "inactive"}]
  /\ member \subseteq Users
  /\ granted \in [Users -> SUBSET PermissionNames]
  /\ join \in [JoinRequests -> [by : Users, status : Decisions \cup {"none"}]]
  /\ call \in [TeamCalls -> [op : {"none", "add", "remove", "archive", "permissions",
                                   "approve", "tidy", "died"},
                             user : Users, perms : SUBSET PermissionNames,
                             stale : BOOLEAN]]

\* dao_create_service: the one who makes it is a member, with all permissions.
TeamInit ==
  /\ userState = [u \in Users |-> IF u = Founder THEN "active" ELSE "pending"]
  /\ member = {Founder}
  /\ granted = [u \in Users |-> IF u = Founder THEN PermissionNames ELSE {}]
  /\ join = [j \in JoinRequests |-> NoJoin]
  /\ call = [q \in TeamCalls |-> NoCall]

Team == <<userState, member, granted>>

Called(q, op, u, perms) ==
  /\ call[q] = NoCall
  /\ call' = [call EXCEPT ![q] = [op |-> op, user |-> u, perms |-> perms,
                                  stale |-> FALSE]]
  /\ UNCHANGED <<Team, join>>

\* add_user_to_service
CallAdd(q, u, perms) == u \notin member /\ Called(q, "add", u, perms)

\* remove_user_from_service: not the only user.
CallRemove(q, u) == u \in member /\ member # {u} /\ Called(q, "remove", u, {})

LeavesUser(u) ==                                                         \* mutant
  u \in member => \E v \in member \ {u} : userState[v] = "active"
\* user_can_be_archived
MayArchiveUser(u) ==
  u \in member => \E v \in member \ {u} : /\ userState[v] = "active"
                                          /\ "manage_settings" \in granted[v]

\* archive_user
CallArchive(q, u) == MayArchiveUser(u) /\ Called(q, "archive", u, {})

\* set_permissions
CallPermissions(q, u, perms) ==
  u \in member /\ Called(q, "permissions", u, perms)

\* activate_user, of a user who is pending or was archived.
ActivateUser(u) ==
  /\ userState[u] # "active"
  /\ userState' = [userState EXCEPT ![u] = "active"]
  /\ UNCHANGED <<member, granted, join, call>>

\* create_service_join_request
AskToJoin(j, u) ==
  /\ join[j].status = "none" /\ u \notin member
  /\ join' = [join EXCEPT ![j] = [by |-> u, status |-> "pending"]]
  /\ UNCHANGED <<Team, call>>

\* update_service_join_request_by_id commits the decision, whatever it was before; an
\* approval goes on.
DecideJoin(q, j, decision, perms) ==
  /\ call[q] = NoCall /\ join[j].status # "none"
  /\ join' = [join EXCEPT ![j].status = decision]
  /\ IF decision = "approved"
     THEN call' = [call EXCEPT ![q] = [op |-> "approve", user |-> join[j].by,
                                       perms |-> perms, stale |-> FALSE]]
     ELSE UNCHANGED call
  /\ UNCHANGED Team

-----------------------------------------------------------------------------
(* Commits.                                                                *)

\* What these requests commit rests on the team they read; the keys check the others.
Reliant == {"remove", "archive", "permissions"}

\* The request goes on with op; the others at work have read an old team.
GoesOn(q, op) ==
  call' = [p \in TeamCalls |->
    CASE p = q /\ op = "none" -> NoCall
      [] p = q /\ op # "none" -> [call[p] EXCEPT !.op = op, !.perms = {}]
      [] p # q /\ call[p].op \in Reliant -> [call[p] EXCEPT !.stale = TRUE]
      [] OTHER -> call[p]]

\* The keys of user_to_service and permissions let the rows in.  An approval reads the
\* members as it adds one and passes over a row that is there.
RowsFit(c) == /\ c.op = "add" => c.user \notin member
              /\ granted[c.user] \cap c.perms = {}

\* dao_add_user_to_service
AddMember(q) ==
  LET c == call[q] IN
  /\ c.op \in {"add", "approve"} /\ RowsFit(c)
  /\ member' = member \cup {c.user}
  /\ granted' = [granted EXCEPT ![c.user] = @ \cup c.perms]
  /\ GoesOn(q, IF c.op = "approve" THEN "tidy" ELSE "none")
  /\ UNCHANGED <<userState, join>>

Drop(u) == /\ member' = member \ {u}
           /\ granted' = [granted EXCEPT ![u] = {}]

\* dao_remove_user_from_service
RemoveMember(q) ==
  /\ call[q].op = "remove" /\ call[q].user \in member
  /\ Drop(call[q].user)
  /\ GoesOn(q, "none")
  /\ UNCHANGED <<userState, join>>

\* dao_archive_user
ArchiveUser(q) ==
  /\ call[q].op = "archive"
  /\ Drop(call[q].user)
  /\ userState' = [userState EXCEPT ![call[q].user] = "inactive"]
  /\ GoesOn(q, "none")
  /\ UNCHANGED join

\* set_user_service_permission, which does not look at the membership
SetPermissions(q) ==
  /\ call[q].op = "permissions"
  /\ granted' = [granted EXCEPT ![call[q].user] = call[q].perms]
  /\ GoesOn(q, "none")
  /\ UNCHANGED <<userState, member, join>>

\* dao_cancel_pending_service_join_requests
CancelPendingJoins(q) ==
  /\ call[q].op = "tidy"
  /\ join' = [j \in JoinRequests |->
       IF join[j].by = call[q].user /\ join[j].status = "pending"
       THEN [join[j] EXCEPT !.status = "cancelled"] ELSE join[j]]
  /\ call' = [call EXCEPT ![q] = NoCall]
  /\ UNCHANGED Team

\* The process dies between two commits of an approval; its slot is not used again.
CallDies(q) ==
  /\ call[q].op \in {"approve", "tidy"}
  /\ call' = [call EXCEPT ![q].op = "died"]
  /\ UNCHANGED <<Team, join>>

\* IntegrityError, NoResultFound or ObjectDeletedError.
CallFails(q) ==
  /\ \/ call[q].op \in {"add", "approve"} /\ ~RowsFit(call[q])
     \/ call[q].op = "remove" /\ call[q].user \notin member
  /\ call' = [call EXCEPT ![q] = NoCall]
  /\ UNCHANGED <<Team, join>>

TeamNext ==
  \/ \E u \in Users :
       \/ ActivateUser(u)
       \/ \E j \in JoinRequests : AskToJoin(j, u)
       \/ \E q \in TeamCalls : CallRemove(q, u) \/ CallArchive(q, u)
  \/ \E q \in TeamCalls, perms \in SUBSET PermissionNames :
       \/ \E u \in Users : CallAdd(q, u, perms) \/ CallPermissions(q, u, perms)
       \/ \E j \in JoinRequests, d \in Decisions : DecideJoin(q, j, d, perms)
  \/ \E q \in TeamCalls :
       \/ AddMember(q) \/ RemoveMember(q) \/ ArchiveUser(q) \/ SetPermissions(q)
       \/ CancelPendingJoins(q) \/ CallFails(q) \/ CallDies(q)

TeamSpec == TeamInit /\ [][TeamNext]_teamVars

-----------------------------------------------------------------------------
Stale == \E q \in TeamCalls : call[q].stale /\ call'[q] # call[q]

\* The service has a member, and only members have permissions.  Permissions left
\* behind would make the next attempt to add their user fail at the unique key.
TeamIsWhole == member # {} /\ \A u \in Users \ member : granted[u] = {}

Managed == \E u \in member : userState[u] = "active" /\ "manage_settings" \in granted[u]

\* A request that overlaps no other keeps the team whole (remove_user_from_service, "You
\* cannot remove the only user for a service", and dao_archive_user).
TeamStaysWhole == [][TeamIsWhole => Stale \/ TeamIsWhole']_teamVars

\* Archiving a user takes the last active manager from the service only if it overlaps
\* another request (user_can_be_archived).
ManagerStays ==
  [][Managed /\ (\E u \in Users : userState[u] # "inactive" /\ userState'[u] = "inactive")
       => Stale \/ Managed']_teamVars

\* Who is approved becomes a member, although the approval is committed first and other
\* requests come in between (update_service_join_request_by_id): the keys refuse one who
\* is no member only for permissions that were left behind, and only the death of the
\* process leaves an approval without effect.
ApprovalJoins ==
  [][\A q \in TeamCalls :
       TeamIsWhole /\ call[q].op = "approve" /\ call'[q].op \notin {"approve", "died"}
       => call[q].user \in member']_teamVars

\* The team survives requests that do not overlap, and approvals have their effect.
TeamStaysRight == TeamStaysWhole /\ ManagerStays /\ ApprovalJoins
=============================================================================
