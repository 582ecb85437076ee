--------------------------- MODULE ProviderPriority ---------------------------
(***************************************************************************)
(* The priorities of the SMS providers: reduced when a provider fails or   *)
(* is slow, moved back to their resting points, and set by hand from the   *)
(* admin app, with the history row each change writes.                     *)
(*                                                                         *)
(* The two automatic adjustments hold the lock of every active SMS         *)
(* provider from reading to commit and are one step each.  The request of  *)
(* the admin app reads without a lock and is two steps: between them       *)
(* nothing but the primary key (id, version) of the history table keeps it *)
(* from overwriting a change it has not seen.                              *)
(***************************************************************************)
EXTENDS Integers, FiniteSets

CONSTANTS
  Providers,        \* SMS providers
  Resting,          \* SMS_PROVIDER_RESTING_POINTS
  Alternative,      \* get_alternative_sms_provider
  MaxPriority,      \* 100
  Step,             \* amount_to_reduce_by (10)
  FailWait,         \* age of the last change a failing provider asks for (1 minute)
  SlowWait,         \* ... a slow one (5 minutes)
  RestWait,         \* ... the move to the resting points (15 minutes)
  Admins,           \* slots for requests of the admin app
  AdminPriorities,  \* priorities they set, which nothing validates
  MaxEvents         \* bound on failures, slow periods and requests

ASSUME ProvidersAssumption ==
  /\ MaxPriority \in Nat /\ Step \in Nat \ {0} /\ MaxEvents \in Nat
  /\ FailWait \in Nat /\ SlowWait \in Nat \ {0} /\ RestWait \in Nat
  /\ FailWait <= RestWait /\ SlowWait <= RestWait
  /\ Resting \in [Providers -> 0..MaxPriority]
  /\ Alternative \in [Providers -> Providers]
  /\ \A p \in Providers : Alternative[p] # p
  /\ AdminPriorities \subseteq Int

VARIABLES
  row,      \* provider_details
  age,      \* time since updated_at, up to RestWait
  history,  \* provider_details_history: what each version said
  admin,    \* requests of the admin app
  events    \* failures, slow periods and requests so far

vars == <<row, age, history, admin, events>>

InRange == 0..MaxPriority
Details == [priority : Int, active : BOOLEAN, version : Nat \ {0}]
Idle == [pc |-> "idle"]

\* The migrations make version 1 of each provider and its history row.
Init ==
  /\ row = [p \in Providers |->
              [priority |-> Resting[p], active |-> TRUE, version |-> 1]]
  /\ age = [p \in Providers |-> RestWait]
  /\ history = [p \in Providers |-> {row[p]}]
  /\ admin = [a \in Admins |-> Idle]
  /\ events = 0

Event == events < MaxEvents /\ events' = events + 1

Active == {p \in Providers : row[p].active}

-----------------------------------------------------------------------------
(* Automatic adjustments.                                                  *)

\* _get_sms_providers_for_update returns the active providers, and none at all
\* if one of them was changed too recently.
ForUpdate(wait) == IF \E p \in Active : age[p] < wait THEN {} ELSE Active

\* _adjust_provider_priority and _update_provider_details_without_commit.
Adjusted(p, priority) ==
  [row[p] EXCEPT !.priority = priority, !.version = @ + 1]

\* Rows and history rows are written in one transaction, which fails on a
\* version that exists.
Adjust(new) ==
  /\ row' = [p \in Providers |->
               IF p \in DOMAIN new THEN Adjusted(p, new[p]) ELSE row[p]]
  /\ age' = [p \in Providers |-> IF p \in DOMAIN new THEN 0 ELSE age[p]]
  /\ history' = [p \in Providers |->
                   history[p] \cup (IF p \in DOMAIN new THEN {row'[p]} ELSE {})]

Reduced(p) == IF row[p].priority >= Step THEN row[p].priority - Step ELSE 0
Raised(p) == IF row[p].priority + Step <= MaxPriority THEN row[p].priority + Step
             ELSE MaxPriority

\* dao_reduce_sms_provider_priority.  A provider that is not active, or whose
\* alternative is not, raises KeyError and nothing is changed.
ReducePriority(p, wait) ==
  LET q == Alternative[p]
  IN /\ Cardinality(ForUpdate(wait)) >= 2 /\ {p, q} \subseteq ForUpdate(wait)
     /\ Adjust([x \in {p, q} |-> IF x = p THEN Reduced(p) ELSE Raised(q)])

\* send_sms_to_provider: the request to provider p raised.
ProviderFails(p) ==
  /\ Event /\ ReducePriority(p, FailWait)
  /\ UNCHANGED admin

\* switch_current_sms_provider_on_slow_delivery: some, not all, are slow.  After
\* the first of them the others are too recent.
ProviderSlow(p) ==
  /\ Event /\ ReducePriority(p, SlowWait)
  /\ UNCHANGED admin

\* Towards the resting point, and not past it.
Towards(p) ==
  IF row[p].priority > Resting[p]
  THEN IF row[p].priority - Step >= Resting[p] THEN row[p].priority - Step
       ELSE Resting[p]
  ELSE IF row[p].priority + Step <= Resting[p] THEN row[p].priority + Step
       ELSE Resting[p]

\* Mutant: priorities below the resting point are left there.
TendDown ==
  LET away == {p \in ForUpdate(RestWait) : row[p].priority > Resting[p]}
  IN /\ away # {}
     /\ Adjust([p \in away |-> Towards(p)])
     /\ UNCHANGED <<admin, events>>

\* tend_providers_back_to_middle.
TendToRest ==
  LET away == {p \in ForUpdate(RestWait) : row[p].priority # Resting[p]}
  IN /\ away # {}
     /\ Adjust([p \in away |-> Towards(p)])
     /\ UNCHANGED <<admin, events>>

Tick ==
  /\ \E p \in Providers : age[p] < RestWait
  /\ age' = [p \in Providers |-> IF age[p] < RestWait THEN age[p] + 1 ELSE age[p]]
  /\ UNCHANGED <<row, history, admin, events>>

-----------------------------------------------------------------------------
(* update_provider_details.                                                *)

\* The provider is read, and changed in the session.
AdminReads(a, p) ==
  /\ admin[a] = Idle /\ Event
  /\ \E priority \in AdminPriorities \cup {row[p].priority}, active \in BOOLEAN :
       admin' = [admin EXCEPT ![a] =
                   [pc |-> "changed", provider |-> p, seen |-> row[p],
                    new |-> [priority |-> priority, active |-> active,
                             version |-> row[p].version + 1]]]
  /\ UNCHANGED <<row, age, history>>

\* Mutant: the history has no primary key.
AnyVersion(p, version) == TRUE

\* The primary key of provider_details_history.
FreshVersion(p, version) == \A h \in history[p] : h.version # version

\* The UPDATE sets the columns that were changed; the INSERT of the history row
\* has all of them as the session knows them.
AdminCommits(a) ==
  LET c == admin[a]
      p == c.provider
  IN /\ admin[a] # Idle /\ FreshVersion(p, c.new.version)
     /\ row' = [row EXCEPT ![p] =
          [priority |-> IF c.new.priority = c.seen.priority THEN row[p].priority
                        ELSE c.new.priority,
           active |-> IF c.new.active = c.seen.active THEN row[p].active
                      ELSE c.new.active,
           version |-> c.new.version]]
     /\ age' = [age EXCEPT ![p] = 0]
     /\ history' = [history EXCEPT ![p] = @ \cup {c.new}]
     /\ admin' = [admin EXCEPT ![a] = Idle]
     /\ UNCHANGED events

\* The history row exists: IntegrityError, and the transaction is rolled back.
AdminFails(a) ==
  /\ admin[a] # Idle /\ ~FreshVersion(admin[a].provider, admin[a].new.version)
  /\ admin' = [admin EXCEPT ![a] = Idle]
  /\ UNCHANGED <<row, age, history, events>>

-----------------------------------------------------------------------------
Next ==
  \/ \E p \in Providers : ProviderFails(p) \/ ProviderSlow(p)
  \/ TendToRest \/ Tick
  \/ \E a \in Admins, p \in Providers : AdminReads(a, p)
  \/ \E a \in Admins : AdminCommits(a) \/ AdminFails(a)

Spec == Init /\ [][Next]_vars

\* Time passes and the beat schedule runs tend_providers_back_to_middle.
Fairness == WF_vars(Tick) /\ WF_vars(TendToRest)
            /\ \A a \in Admins : WF_vars(AdminCommits(a) \/ AdminFails(a))

FairSpec == Spec /\ Fairness

-----------------------------------------------------------------------------
(* Properties.                                                             *)

Request == [pc : {"changed"}, provider : Providers, seen : Details, new : Details]

\* Every variable keeps its type.
TypeOK ==
  /\ row \in [Providers -> Details]
  /\ age \in [Providers -> 0..RestWait]
  /\ history \in [Providers -> SUBSET Details]
  /\ admin \in [Admins -> {Idle} \cup Request]
  /\ events \in 0..MaxEvents

\* A version of provider p has a priority out of range that the admin app set.
SetBeyond(p) == \E h \in history[p] : h.priority \in AdminPriorities \ InRange

\* No adjustment takes a priority out of 0..100 ("always keep values between 0 and
\* 100"), however failures, slow periods, moves to the resting points and requests
\* follow and overlap, unless the admin app has set one that is
\* (dao_reduce_sms_provider_priority, update_provider_details).
RangeKept == \A p \in Providers : row[p].priority \in InRange \/ SetBeyond(p)

\* The last history row of a provider says what the provider is: no change is
\* lost between the read and the commit of the admin app's request.
HistoryFaithful ==
  \A p \in Providers :
    /\ row[p] \in history[p]
    /\ \A h \in history[p] : h.version <= row[p].version

\* No version of a provider was ever written twice.
VersionsUnique ==
  \A p \in Providers : \A g, h \in history[p] : g.version = h.version => g = h

\* What the proof of the two needs besides: history has every version up to the
\* last, and a request of the admin app that saw the last version saw the row.
HistoryInv ==
  /\ \A p \in Providers : \A v \in 1..row[p].version :
       \E h \in history[p] : h.version = v
  /\ \A a \in Admins : admin[a] # Idle =>
       LET seen == admin[a].seen
           now == row[admin[a].provider]
       IN /\ admin[a].new.version = seen.version + 1
          /\ seen.version <= now.version
          /\ seen.version = now.version => seen = now

\* When failures, slow periods and requests stop, every active provider comes to
\* its resting point and stays there.
RestsEventually == <>[](\A p \in Active : row[p].priority = Resting[p])
=============================================================================
