------------------------- MODULE Operations_proofs -------------------------
(***************************************************************************)
(* Proofs about what runs by itself beside the delivery of messages: the   *)
(* priorities of the text message providers, the password of the print     *)
(* provider, the reports of notifications, the unsubscribe requests and    *)
(* the daily message limit.                                                *)
(***************************************************************************)
EXTENDS ProviderPriority, DvlaPassword, ReportRequests, Unsubscribes, DailyLimits,
        WellFoundedInduction, FiniteSetTheorems, TLAPS

-----------------------------------------------------------------------------
(* The least and the greatest member of a set of numbers.                  *)

LEMMA LeastOf ==
  ASSUME NEW S \in SUBSET Nat, S # {}
  PROVE  \E m \in S : \A n \in S : m <= n
<1>1. IsWellFoundedOn({ss \in Nat \X Nat : ss[1] < ss[2]}, Nat)
  BY NatLessThanWellFounded DEF OpToRel
<1>2. \E m \in S : \A n \in S : ~(<<n, m>> \in {ss \in Nat \X Nat : ss[1] < ss[2]})
  BY <1>1, WFMin
<1>3. PICK m \in S : \A n \in S : ~(<<n, m>> \in {ss \in Nat \X Nat : ss[1] < ss[2]})
  BY <1>2
<1>4. \A n \in S : m <= n
  <2> SUFFICES ASSUME NEW n \in S PROVE m <= n
    OBVIOUS
  <2>1. <<n, m>> \in Nat \X Nat /\ <<n, m>>[1] = n /\ <<n, m>>[2] = m
    OBVIOUS
  <2>2. ~(n < m)
    BY <1>3, <2>1
  <2>3. n \in Nat /\ m \in Nat
    OBVIOUS
  <2> QED BY <2>2, <2>3
<1> QED BY <1>4

LEMMA GreatestOf ==
  ASSUME NEW k \in Nat, NEW S \in SUBSET (0..k), S # {}
  PROVE  \E m \in S : \A n \in S : n <= m
<1> DEFINE T == {k - n : n \in S}
<1>0. \A n \in S : n \in 0..k /\ k - n \in Nat
  OBVIOUS
<1>1. T \in SUBSET Nat /\ T # {}
  BY <1>0
<1>2. PICK d \in T : \A e \in T : d <= e
  BY <1>1, LeastOf
<1>3. PICK m \in S : d = k - m
  BY <1>2
<1> QED BY <1>2, <1>3

LEMMA MinOf ==
  ASSUME NEW S \in SUBSET Nat, S # {}
  PROVE  Min(S) \in S /\ \A n \in S : Min(S) <= n
BY LeastOf DEF Min

LEMMA MaxOf ==
  ASSUME NEW k \in Nat, NEW S \in SUBSET (0..k), S # {}
  PROVE  Max(S) \in S /\ \A n \in S : n <= Max(S)
<1>1. \E m \in S : \A n \in S : m >= n
  BY GreatestOf
<1> QED BY <1>1 DEF Max

-----------------------------------------------------------------------------
(* ProviderPriority.                                                       *)

USE DEF Details, Request

\* A new priority of dao_reduce_sms_provider_priority or of the move to the
\* resting points stays between 0 and MaxPriority where the old one was.
LEMMA NewPriority ==
  ASSUME ProvidersAssumption, TypeOK, NEW p \in Providers
  PROVE  /\ Reduced(p) \in Int /\ Raised(p) \in Int /\ Towards(p) \in Int
         /\ row[p].priority \in InRange =>
              Reduced(p) \in InRange /\ Raised(p) \in InRange /\ Towards(p) \in InRange
<1>1. row[p].priority \in Int /\ Resting[p] \in 0..MaxPriority
  BY DEF TypeOK, ProvidersAssumption
<1>2. MaxPriority \in Nat /\ Step \in Nat
  BY DEF ProvidersAssumption
<1> QED
  BY <1>1, <1>2 DEF Reduced, Raised, Towards, InRange

\* The rows an automatic adjustment writes.
LEMMA AdjustedType ==
  ASSUME TypeOK, NEW p \in Providers, NEW x \in Int
  PROVE  /\ Adjusted(p, x) \in Details
         /\ Adjusted(p, x).version = row[p].version + 1
<1>1. row[p] \in Details
  BY DEF TypeOK
<1>2. row[p].version + 1 \in Nat \ {0}
  BY <1>1
<1> QED
  BY <1>1, <1>2 DEF Adjusted

\* An automatic adjustment keeps the types.
LEMMA AdjustType ==
  ASSUME ProvidersAssumption, TypeOK, NEW D \in SUBSET Providers,
         NEW new \in [D -> Int], Adjust(new)
  PROVE  /\ row' \in [Providers -> Details]
         /\ age' \in [Providers -> 0..RestWait]
         /\ history' \in [Providers -> SUBSET Details]
<1>1. DOMAIN new = D
  OBVIOUS
<1>2. \A p \in D : new[p] \in Int
  OBVIOUS
<1>3. \A p \in Providers : (IF p \in D THEN Adjusted(p, new[p]) ELSE row[p]) \in Details
  BY <1>2, AdjustedType DEF TypeOK
<1>4. row' \in [Providers -> Details]
  BY <1>1, <1>3 DEF Adjust
<1>5. 0 \in 0..RestWait
  BY DEF ProvidersAssumption
<1>6. age' \in [Providers -> 0..RestWait]
  BY <1>5 DEF Adjust, TypeOK
<1>7. \A p \in Providers :
        history[p] \cup (IF p \in DOMAIN new THEN {row'[p]} ELSE {}) \in SUBSET Details
  <2> SUFFICES ASSUME NEW p \in Providers
               PROVE  history[p] \cup (IF p \in DOMAIN new THEN {row'[p]} ELSE {})
                        \in SUBSET Details
    OBVIOUS
  <2>1. history[p] \in SUBSET Details
    BY DEF TypeOK
  <2>2. row'[p] \in Details
    BY <1>4
  <2> QED
    BY <2>1, <2>2
<1>8. history' \in [Providers -> SUBSET Details]
  BY <1>7 DEF Adjust
<1> QED
  BY <1>4, <1>6, <1>8

\* New priorities that are in range where the old ones are.
KeepsRange(new) ==
  \A x \in DOMAIN new : x \in Providers /\ (row[x].priority \in InRange => new[x] \in InRange)

\* The two adjustments, as the function of new priorities they apply.
LEMMA ReducePriorityAdjusts ==
  ASSUME ProvidersAssumption, TypeOK, NEW p \in Providers, NEW wait,
         ReducePriority(p, wait)
  PROVE  \E D \in SUBSET Providers : \E new \in [D -> Int] :
           Adjust(new) /\ KeepsRange(new)
<1> DEFINE q == Alternative[p]
<1> DEFINE new == [x \in {p, q} |-> IF x = p THEN Reduced(p) ELSE Raised(q)]
<1>1. q \in Providers
  BY DEF ProvidersAssumption
<1>2. /\ Reduced(p) \in Int /\ Raised(q) \in Int
      /\ row[p].priority \in InRange => Reduced(p) \in InRange
      /\ row[q].priority \in InRange => Raised(q) \in InRange
  BY <1>1, NewPriority
<1>3. new \in [{p, q} -> Int] /\ KeepsRange(new)
  BY <1>1, <1>2 DEF KeepsRange
<1>4. Adjust(new)
  BY DEF ReducePriority
<1> QED
  BY <1>1, <1>3, <1>4

LEMMA TendToRestAdjusts ==
  ASSUME ProvidersAssumption, TypeOK, TendToRest
  PROVE  \E D \in SUBSET Providers : \E new \in [D -> Int] :
           Adjust(new) /\ KeepsRange(new)
<1> DEFINE D == {p \in ForUpdate(RestWait) : row[p].priority # Resting[p]}
<1> DEFINE new == [p \in D |-> Towards(p)]
<1>1. D \in SUBSET Providers
  BY DEF ForUpdate, Active
<1>2. \A p \in D : /\ Towards(p) \in Int
                   /\ row[p].priority \in InRange => Towards(p) \in InRange
  BY <1>1, NewPriority
<1>3. new \in [D -> Int] /\ KeepsRange(new)
  BY <1>1, <1>2 DEF KeepsRange
<1>4. Adjust(new)
  BY DEF TendToRest
<1> HIDE DEF D, new
<1> QED
  BY <1>1, <1>3, <1>4

\* Ticks and requests of the admin app keep the types.
LEMMA AdminType ==
  ASSUME ProvidersAssumption, TypeOK, NEW a \in Admins, AdminCommits(a)
  PROVE  TypeOK'
<1> DEFINE c == admin[a]
<1> DEFINE p == c.provider
<1>1. c \in Request
  BY DEF AdminCommits, TypeOK
<1>2. p \in Providers /\ c.new \in Details /\ c.seen \in Details
  BY <1>1
<1>3. row[p] \in Details
  BY <1>2 DEF TypeOK
<1> DEFINE d == [priority |-> IF c.new.priority = c.seen.priority THEN row[p].priority
                              ELSE c.new.priority,
                 active |-> IF c.new.active = c.seen.active THEN row[p].active
                            ELSE c.new.active,
                 version |-> c.new.version]
<1>4. d \in Details
  BY <1>2, <1>3
<1>5. /\ row' = [row EXCEPT ![p] = d]
      /\ age' = [age EXCEPT ![p] = 0]
      /\ history' = [history EXCEPT ![p] = @ \cup {c.new}]
      /\ admin' = [admin EXCEPT ![a] = Idle]
      /\ events' = events
  BY DEF AdminCommits
<1> HIDE DEF d, p, c
<1>6. row' \in [Providers -> Details]
  BY <1>4, <1>5 DEF TypeOK
<1>7. age' \in [Providers -> 0..RestWait]
  <2>1. 0 \in 0..RestWait
    BY DEF ProvidersAssumption
  <2> QED
    BY <1>5, <2>1 DEF TypeOK
<1>8. history' \in [Providers -> SUBSET Details]
  <2>1. history[p] \cup {c.new} \in SUBSET Details
    BY <1>2 DEF TypeOK
  <2> QED
    BY <1>5, <2>1 DEF TypeOK
<1>9. admin' \in [Admins -> {Idle} \cup Request]
  BY <1>5 DEF TypeOK
<1> QED
  BY <1>5, <1>6, <1>7, <1>8, <1>9 DEF TypeOK

\* What AdminReads leaves in the session.
LEMMA AdminReadsType ==
  ASSUME TypeOK, ProvidersAssumption, NEW a \in Admins, NEW p \in Providers,
         AdminReads(a, p)
  PROVE  \E r \in Request :
           /\ admin' = [admin EXCEPT ![a] = r]
           /\ r.new.priority \in AdminPriorities \cup {row[p].priority}
           /\ r.provider = p /\ r.seen = row[p]
           /\ r.new.version = row[p].version + 1
<1>1. PICK x \in AdminPriorities \cup {row[p].priority}, b \in BOOLEAN :
        admin' = [admin EXCEPT ![a] =
                    [pc |-> "changed", provider |-> p, seen |-> row[p],
                     new |-> [priority |-> x, active |-> b,
                              version |-> row[p].version + 1]]]
  BY DEF AdminReads
<1>2. row[p] \in Details
  BY DEF TypeOK
<1>3. x \in Int
  BY <1>2 DEF ProvidersAssumption
<1>4. row[p].version + 1 \in Nat \ {0}
  BY <1>2
<1> DEFINE n == [priority |-> x, active |-> b, version |-> row[p].version + 1]
<1>5. n \in Details /\ n.version = row[p].version + 1 /\ n.priority = x
  BY <1>3, <1>4
<1> HIDE DEF n
<1> DEFINE r == [pc |-> "changed", provider |-> p, seen |-> row[p], new |-> n]
<1>6. r \in Request /\ r.provider = p /\ r.seen = row[p] /\ r.new = n
  BY <1>2, <1>5
<1>7. admin' = [admin EXCEPT ![a] = r]
  BY <1>1 DEF n
<1> HIDE DEF r
<1> QED
  BY <1>5, <1>6, <1>7

LEMMA EventType ==
  ASSUME ProvidersAssumption, TypeOK, Event
  PROVE  events' \in 0..MaxEvents
BY DEF ProvidersAssumption, TypeOK, Event

LEMMA TypeStarts == Init => TypeOK
<1> SUFFICES ASSUME Init PROVE TypeOK
  OBVIOUS
<1>1. \A p \in Providers :
        [priority |-> Resting[p], active |-> TRUE, version |-> 1] \in Details
  BY ProvidersAssumption DEF ProvidersAssumption
<1>2. row \in [Providers -> Details]
  BY <1>1 DEF Init
<1>3. history \in [Providers -> SUBSET Details]
  <2>1. \A p \in Providers : {row[p]} \in SUBSET Details
    BY <1>2
  <2> QED
    BY <2>1 DEF Init
<1>4. age \in [Providers -> 0..RestWait] /\ events \in 0..MaxEvents
  BY ProvidersAssumption DEF Init, ProvidersAssumption
<1>5. admin \in [Admins -> {Idle} \cup Request]
  BY DEF Init
<1> QED
  BY <1>2, <1>3, <1>4, <1>5 DEF TypeOK

LEMMA TypeStep == ProvidersAssumption /\ TypeOK /\ [Next]_vars => TypeOK'
<1> SUFFICES ASSUME ProvidersAssumption, TypeOK, [Next]_vars PROVE TypeOK'
  OBVIOUS
<1>1. ASSUME NEW p \in Providers, ProviderFails(p) \/ ProviderSlow(p)
      PROVE  TypeOK'
  <2>1. PICK D \in SUBSET Providers : \E new \in [D -> Int] : Adjust(new)
    BY <1>1, ReducePriorityAdjusts, ProvidersAssumption
       DEF ProviderFails, ProviderSlow
  <2>2. /\ row' \in [Providers -> Details]
        /\ age' \in [Providers -> 0..RestWait]
        /\ history' \in [Providers -> SUBSET Details]
    BY <2>1, AdjustType, ProvidersAssumption
  <2>3. events' \in 0..MaxEvents /\ admin' = admin
    BY <1>1, EventType, ProvidersAssumption DEF ProviderFails, ProviderSlow
  <2> QED
    BY <2>2, <2>3 DEF TypeOK
<1>2. CASE TendToRest
  <2>1. PICK D \in SUBSET Providers : \E new \in [D -> Int] : Adjust(new)
    BY <1>2, TendToRestAdjusts, ProvidersAssumption
  <2>2. /\ row' \in [Providers -> Details]
        /\ age' \in [Providers -> 0..RestWait]
        /\ history' \in [Providers -> SUBSET Details]
    BY <2>1, AdjustType, ProvidersAssumption
  <2> QED
    BY <1>2, <2>2 DEF TypeOK, TendToRest
<1>3. CASE Tick
  <2>1. age' \in [Providers -> 0..RestWait]
    <3>1. \A p \in Providers : (IF age[p] < RestWait THEN age[p] + 1 ELSE age[p])
                                 \in 0..RestWait
      BY ProvidersAssumption DEF TypeOK, ProvidersAssumption
    <3> QED
      BY <1>3, <3>1 DEF Tick
  <2> QED
    BY <1>3, <2>1 DEF Tick, TypeOK
<1>4. ASSUME NEW a \in Admins, NEW p \in Providers, AdminReads(a, p)
      PROVE  TypeOK'
  <2>1. PICK r \in Request : admin' = [admin EXCEPT ![a] = r]
    BY <1>4, AdminReadsType, ProvidersAssumption
  <2>2. admin' \in [Admins -> {Idle} \cup Request]
    BY <2>1 DEF TypeOK
  <2>3. events' \in 0..MaxEvents
    BY <1>4, EventType, ProvidersAssumption DEF AdminReads
  <2> QED
    BY <1>4, <2>2, <2>3 DEF AdminReads, TypeOK
<1>5. ASSUME NEW a \in Admins, AdminCommits(a)
      PROVE  TypeOK'
  BY <1>5, AdminType, ProvidersAssumption
<1>6. ASSUME NEW a \in Admins, AdminFails(a)
      PROVE  TypeOK'
  BY <1>6 DEF AdminFails, TypeOK
<1>7. CASE UNCHANGED vars
  BY <1>7 DEF vars, TypeOK
<1> QED
  BY <1>1, <1>2, <1>3, <1>4, <1>5, <1>6, <1>7 DEF Next

\* What RangeKept needs besides: a request of the admin app holds a priority that is in
\* range, that the admin app has set, or that was beyond the range when it was read.
RequestKept(a) ==
  admin[a] # Idle =>
    \/ admin[a].new.priority \in InRange \cup AdminPriorities
    \/ SetBeyond(admin[a].provider)
RangeInv == TypeOK /\ RangeKept /\ \A a \in Admins : RequestKept(a)

\* No history row is ever deleted.
LEMMA HistoryGrows ==
  ASSUME ProvidersAssumption, TypeOK, [Next]_vars, NEW p \in Providers
  PROVE  history[p] \subseteq history'[p] /\ (SetBeyond(p) => SetBeyond(p)')
<1>1. history[p] \subseteq history'[p]
  <2>1. ASSUME NEW new, Adjust(new) PROVE history[p] \subseteq history'[p]
    BY <2>1 DEF Adjust
  <2>2. CASE \E q \in Providers : ProviderFails(q) \/ ProviderSlow(q)
    BY <2>1, <2>2 DEF ProviderFails, ProviderSlow, ReducePriority
  <2>3. CASE TendToRest
    BY <2>1, <2>3 DEF TendToRest
  <2>4. CASE \E a \in Admins : AdminCommits(a)
    BY <2>4 DEF AdminCommits, TypeOK
  <2>5. CASE UNCHANGED history
    BY <2>5
  <2> QED BY <2>2, <2>3, <2>4, <2>5 DEF Next, vars, Tick, AdminReads, AdminFails
<1> QED BY <1>1 DEF SetBeyond, InRange

LEMMA AdjustKeepsRange ==
  ASSUME ProvidersAssumption, RangeInv, [Next]_vars, admin' = admin,
         NEW D \in SUBSET Providers, NEW new \in [D -> Int], Adjust(new), KeepsRange(new)
  PROVE  RangeKept' /\ \A a \in Admins : RequestKept(a)'
<1>1. ASSUME NEW p \in Providers
      PROVE  row'[p].priority \in InRange \/ SetBeyond(p)'
  <2>1. SetBeyond(p) => SetBeyond(p)'
    BY HistoryGrows DEF RangeInv
  <2>2. row[p].priority \in InRange \/ SetBeyond(p)
    BY DEF RangeInv, RangeKept
  <2>3. row[p] \in Details
    BY DEF RangeInv, TypeOK
  <2>4. CASE p \in D
    <3>1. row'[p] = Adjusted(p, new[p]) /\ new[p] \in Int
      BY <2>4 DEF Adjust
    <3>2. row'[p].priority = new[p]
      BY <2>3, <3>1 DEF Adjusted
    <3>3. row[p].priority \in InRange => new[p] \in InRange
      BY <2>4 DEF KeepsRange
    <3> QED BY <2>1, <2>2, <3>2, <3>3
  <2>5. CASE p \notin D
    <3>1. row'[p] = row[p]
      BY <2>5 DEF Adjust
    <3> QED BY <2>1, <2>2, <3>1
  <2> QED BY <2>4, <2>5
<1>2. ASSUME NEW a \in Admins PROVE RequestKept(a)'
  <2>1. RequestKept(a) /\ admin[a] \in {Idle} \cup Request
    BY DEF RangeInv, TypeOK
  <2>2. CASE admin[a] = Idle
    BY <2>2 DEF RequestKept
  <2>3. CASE admin[a] # Idle
    <3>1. PICK p \in Providers : p = admin[a].provider
      BY <2>1, <2>3
    <3>2. SetBeyond(p) => SetBeyond(p)'
      BY HistoryGrows DEF RangeInv
    <3> QED BY <2>1, <2>3, <3>1, <3>2 DEF RequestKept, InRange, SetBeyond
  <2> QED BY <2>2, <2>3
<1>3. RangeKept'
  BY <1>1 DEF RangeKept, InRange
<1> QED BY <1>2, <1>3

LEMMA CommitKeepsRange ==
  ASSUME ProvidersAssumption, RangeInv, [Next]_vars, NEW a \in Admins, AdminCommits(a)
  PROVE  RangeKept' /\ \A b \in Admins : RequestKept(b)'
<1>0. admin[a] \in Request /\ admin[a] # Idle /\ RequestKept(a)
  BY DEF AdminCommits, RangeInv, TypeOK
<1>1. PICK c \in Request, p \in Providers : c = admin[a] /\ p = c.provider
  BY <1>0
<1>2. p \in Providers /\ c.new \in Details /\ row \in [Providers -> Details]
      /\ history \in [Providers -> SUBSET Details]
  BY <1>1 DEF RangeInv, TypeOK
<1>3. \A q \in Providers : SetBeyond(q) => SetBeyond(q)'
  BY HistoryGrows DEF RangeInv
<1>4. c.new \in history'[p]
  BY <1>1, <1>2 DEF AdminCommits
<1>5. c.new.priority \in InRange \/ SetBeyond(p)'
  <2>1. CASE c.new.priority \in InRange \cup AdminPriorities
    BY <1>4, <2>1 DEF SetBeyond
  <2>2. CASE SetBeyond(p)
    BY <1>2, <1>3, <2>2
  <2> QED BY <1>0, <1>1, <2>1, <2>2 DEF RequestKept
<1>6. /\ row'[p].priority \in {row[p].priority, c.new.priority}
      /\ \A q \in Providers \ {p} : row'[q] = row[q]
  <2> DEFINE new == [priority |-> IF c.new.priority = c.seen.priority THEN row[p].priority
                                ELSE c.new.priority,
                   active |-> IF c.new.active = c.seen.active THEN row[p].active
                              ELSE c.new.active,
                   version |-> c.new.version]
  <2>1. row' = [row EXCEPT ![p] = new]
    BY <1>1 DEF AdminCommits
  <2>2. new.priority \in {row[p].priority, c.new.priority}
    OBVIOUS
  <2> HIDE DEF new
  <2> QED BY <1>2, <2>1, <2>2
<1>7. \A q \in Providers : row[q].priority \in InRange \/ SetBeyond(q)
  BY DEF RangeInv, RangeKept
<1>8. \A q \in Providers : row'[q].priority \in InRange \/ SetBeyond(q)'
  BY <1>2, <1>3, <1>5, <1>6, <1>7
<1>9. ASSUME NEW b \in Admins PROVE RequestKept(b)'
  <2>1. RequestKept(b) /\ admin[b] \in {Idle} \cup Request
    BY DEF RangeInv, TypeOK
  <2>2. admin'[b] \in {admin[b], Idle}
    BY DEF AdminCommits, RangeInv, TypeOK
  <2>3. admin[b] # Idle => admin[b].provider \in Providers
    BY <2>1
  <2> QED BY <1>3, <2>1, <2>2, <2>3 DEF RequestKept, InRange, SetBeyond
<1>10. RangeKept'
  BY <1>8 DEF RangeKept, InRange
<1> QED BY <1>9, <1>10

LEMMA ReadKeepsRange ==
  ASSUME ProvidersAssumption, RangeInv, NEW a \in Admins, NEW p \in Providers,
         AdminReads(a, p)
  PROVE  RangeKept' /\ \A b \in Admins : RequestKept(b)'
<1>1. PICK q \in Request :
        /\ admin' = [admin EXCEPT ![a] = q] /\ q.provider = p
        /\ q.new.priority \in AdminPriorities \cup {row[p].priority}
  BY AdminReadsType DEF RangeInv
<1>2. row' = row /\ history' = history
  BY DEF AdminReads
<1>3. RangeKept' /\ \A x \in Providers : SetBeyond(x)' <=> SetBeyond(x)
  BY <1>2 DEF RangeInv, RangeKept, SetBeyond, InRange
<1>4. row[p].priority \in InRange \/ SetBeyond(p)
  BY DEF RangeInv, RangeKept
<1>5. RequestKept(a)'
  <2>1. admin'[a] = q
    BY <1>1 DEF RangeInv, TypeOK
  <2> QED BY <1>1, <1>2, <1>4, <2>1 DEF RequestKept, SetBeyond, InRange
<1>6. ASSUME NEW b \in Admins, b # a PROVE RequestKept(b)'
  <2>1. admin'[b] = admin[b] /\ RequestKept(b)
    BY <1>1, <1>6 DEF RangeInv, TypeOK
  <2> QED BY <1>2, <2>1 DEF RequestKept, SetBeyond, InRange
<1> QED BY <1>3, <1>5, <1>6

\* Every variable keeps its type; and whatever the order of failures, slow periods, moves
\* to the resting points and requests, a priority leaves its range only after the admin
\* app has set one out of it, whatever the admin app may set
\* (dao_reduce_sms_provider_priority, update_provider_details).
THEOREM TypeCorrect == Spec => [](TypeOK /\ RangeKept)
<1>1. Init => RangeInv
  <2> SUFFICES ASSUME Init PROVE RangeInv
    OBVIOUS
  <2>1. \A p \in Providers : row[p].priority \in InRange
    BY ProvidersAssumption DEF Init, ProvidersAssumption, InRange
  <2>2. \A a \in Admins : admin[a] = Idle
    BY DEF Init
  <2> QED BY <2>1, <2>2, TypeStarts DEF RangeInv, RangeKept, RequestKept
<1>2. RangeInv /\ [Next]_vars => RangeInv'
  <2> SUFFICES ASSUME RangeInv, [Next]_vars PROVE RangeInv'
    OBVIOUS
  <2>1. TypeOK /\ TypeOK'
    BY ProvidersAssumption, TypeStep DEF RangeInv
  <2>2. ASSUME NEW p \in Providers, ProviderFails(p) \/ ProviderSlow(p)
        PROVE  RangeKept' /\ \A a \in Admins : RequestKept(a)'
    <3>1. PICK D \in SUBSET Providers : \E new \in [D -> Int] : Adjust(new) /\ KeepsRange(new)
      BY <2>1, <2>2, ReducePriorityAdjusts, ProvidersAssumption
         DEF ProviderFails, ProviderSlow
    <3>2. admin' = admin
      BY <2>2 DEF ProviderFails, ProviderSlow
    <3> QED BY <3>1, <3>2, AdjustKeepsRange, ProvidersAssumption
  <2>3. CASE TendToRest
    <3>1. PICK D \in SUBSET Providers : \E new \in [D -> Int] : Adjust(new) /\ KeepsRange(new)
      BY <2>1, <2>3, TendToRestAdjusts, ProvidersAssumption
    <3>2. admin' = admin
      BY <2>3 DEF TendToRest
    <3> QED BY <2>1, <3>1, <3>2, AdjustKeepsRange, ProvidersAssumption DEF RangeInv
  <2>4. ASSUME NEW a \in Admins, NEW p \in Providers, AdminReads(a, p)
        PROVE  RangeKept' /\ \A b \in Admins : RequestKept(b)'
    BY <2>4, ReadKeepsRange, ProvidersAssumption
  <2>5. ASSUME NEW a \in Admins, AdminCommits(a)
        PROVE  RangeKept' /\ \A b \in Admins : RequestKept(b)'
    BY <2>5, CommitKeepsRange, ProvidersAssumption
  <2>6. CASE UNCHANGED <<row, history>> /\ \A a \in Admins : admin'[a] \in {admin[a], Idle}
    <3>1. RangeKept' /\ \A p \in Providers : SetBeyond(p)' <=> SetBeyond(p)
      BY <2>6 DEF RangeInv, RangeKept, SetBeyond, InRange
    <3>2. ASSUME NEW a \in Admins PROVE RequestKept(a)'
      <4>1. RequestKept(a) /\ admin'[a] \in {admin[a], Idle} /\ history' = history
        BY <2>6 DEF RangeInv
      <4> QED BY <4>1 DEF RequestKept, SetBeyond, InRange
    <3> QED BY <2>1, <3>1, <3>2 DEF RangeInv
  <2>7. ASSUME NEW a \in Admins, AdminFails(a)
        PROVE  UNCHANGED <<row, history>> /\ \A b \in Admins : admin'[b] \in {admin[b], Idle}
    BY <2>1, <2>7 DEF AdminFails, TypeOK
  <2>8. CASE Tick \/ UNCHANGED vars
    BY <2>6, <2>8 DEF Tick, vars
  <2>9. RangeKept' /\ \A a \in Admins : RequestKept(a)'
    BY <2>2, <2>3, <2>4, <2>5, <2>6, <2>7, <2>8 DEF Next, RangeInv
  <2> QED BY <2>1, <2>9 DEF RangeInv
<1>3. RangeInv => TypeOK /\ RangeKept
  BY DEF RangeInv
<1> QED
  BY <1>1, <1>2, <1>3, PTL DEF Spec

-----------------------------------------------------------------------------
(* The history.  Every step leaves a provider and its history alone or     *)
(* moves both to the next version.                                         *)

Same(p) == row'[p] = row[p] /\ history'[p] = history[p]
Advanced(p) ==
  /\ row'[p].version = row[p].version + 1
  /\ history'[p] = history[p] \cup {row'[p]}

HistoryParts == HistoryFaithful /\ VersionsUnique /\ HistoryInv

LEMMA AdjustAdvances ==
  ASSUME TypeOK, NEW D \in SUBSET Providers,
         NEW new \in [D -> Int], Adjust(new)
  PROVE  \A p \in Providers : Same(p) \/ Advanced(p)
<1> SUFFICES ASSUME NEW p \in Providers PROVE Same(p) \/ Advanced(p)
  OBVIOUS
<1>1. CASE p \in D
  <2>1. new[p] \in Int /\ row'[p] = Adjusted(p, new[p])
    BY <1>1 DEF Adjust
  <2>2. row'[p].version = row[p].version + 1
    BY <2>1, AdjustedType
  <2>3. history'[p] = history[p] \cup {row'[p]}
    BY <1>1 DEF Adjust
  <2> QED
    BY <2>2, <2>3 DEF Advanced
<1>2. CASE p \notin D
  <2>1. row'[p] = row[p]
    BY <1>2 DEF Adjust
  <2>2. history'[p] = history[p] \cup {}
    BY <1>2 DEF Adjust
  <2> QED
    BY <2>1, <2>2 DEF Same
<1> QED
  BY <1>1, <1>2

\* The primary key lets a request of the admin app commit only on top of the
\* version it has seen, and then what it saw is what there is.
LEMMA CommitAdvances ==
  ASSUME TypeOK, HistoryParts, NEW a \in Admins, AdminCommits(a)
  PROVE  \A p \in Providers : Same(p) \/ Advanced(p)
<1> DEFINE c == admin[a]
<1> DEFINE q == c.provider
<1>1. c \in Request /\ c # Idle
  BY DEF AdminCommits, TypeOK
<1>2. q \in Providers /\ c.new \in Details /\ c.seen \in Details
  BY <1>1
<1>3. row[q] \in Details
  BY <1>2 DEF TypeOK
<1>4. /\ c.new.version = c.seen.version + 1
      /\ c.seen.version <= row[q].version
      /\ c.seen.version = row[q].version => c.seen = row[q]
  BY <1>1 DEF HistoryParts, HistoryInv
<1>5. \A h \in history[q] : h.version # c.new.version
  BY DEF AdminCommits, FreshVersion
<1>6. \A v \in 1..row[q].version : \E h \in history[q] : h.version = v
  BY <1>2 DEF HistoryParts, HistoryInv
<1>7. c.new.version \notin 1..row[q].version
  BY <1>5, <1>6
<1>8. c.seen.version = row[q].version
  <2>1. c.seen.version \in Nat /\ row[q].version \in Nat
    BY <1>2, <1>3
  <2> QED
    BY <1>4, <1>7, <2>1
<1>9. c.seen = row[q] /\ c.new.version = row[q].version + 1
  BY <1>4, <1>8
<1>10. /\ row' = [row EXCEPT ![q] =
            [priority |-> IF c.new.priority = c.seen.priority THEN row[q].priority
                          ELSE c.new.priority,
             active |-> IF c.new.active = c.seen.active THEN row[q].active
                        ELSE c.new.active,
             version |-> c.new.version]]
       /\ history' = [history EXCEPT ![q] = @ \cup {c.new}]
  BY DEF AdminCommits
<1> HIDE DEF q, c
<1>11. [priority |-> IF c.new.priority = c.seen.priority THEN row[q].priority
                     ELSE c.new.priority,
        active |-> IF c.new.active = c.seen.active THEN row[q].active
                   ELSE c.new.active,
        version |-> c.new.version] = c.new
  BY <1>2, <1>9
<1>12. row' = [row EXCEPT ![q] = c.new]
  BY <1>10, <1>11
<1>13. Advanced(q)
  BY <1>2, <1>9, <1>10, <1>12 DEF Advanced, TypeOK
<1>14. \A p \in Providers : p # q => Same(p)
  BY <1>10, <1>12 DEF Same, TypeOK
<1> QED
  BY <1>13, <1>14

LEMMA StepAdvances ==
  ASSUME TypeOK, HistoryParts, Next
  PROVE  \A p \in Providers : Same(p) \/ Advanced(p)
<1>1. ASSUME NEW p \in Providers, ProviderFails(p) \/ ProviderSlow(p)
      PROVE  \A x \in Providers : Same(x) \/ Advanced(x)
  <2>1. PICK D \in SUBSET Providers : \E new \in [D -> Int] : Adjust(new)
    BY <1>1, ReducePriorityAdjusts, ProvidersAssumption DEF ProviderFails, ProviderSlow
  <2> QED
    BY <2>1, AdjustAdvances
<1>2. CASE TendToRest
  <2>1. PICK D \in SUBSET Providers : \E new \in [D -> Int] : Adjust(new)
    BY <1>2, TendToRestAdjusts, ProvidersAssumption
  <2> QED
    BY <2>1, AdjustAdvances
<1>3. CASE Tick
  BY <1>3 DEF Tick, Same
<1>4. ASSUME NEW a \in Admins, NEW p \in Providers, AdminReads(a, p)
      PROVE  \A x \in Providers : Same(x) \/ Advanced(x)
  BY <1>4 DEF AdminReads, Same
<1>5. ASSUME NEW a \in Admins, AdminCommits(a)
      PROVE  \A x \in Providers : Same(x) \/ Advanced(x)
  BY <1>5, CommitAdvances
<1>6. ASSUME NEW a \in Admins, AdminFails(a)
      PROVE  \A x \in Providers : Same(x) \/ Advanced(x)
  BY <1>6 DEF AdminFails, Same
<1> QED
  BY <1>1, <1>2, <1>3, <1>4, <1>5, <1>6 DEF Next

\* A request in a session was there before, or has just read the row.
LEMMA RequestStep ==
  ASSUME TypeOK, Next, NEW a \in Admins, admin'[a] # Idle
  PROVE  \/ admin'[a] = admin[a]
         \/ /\ admin'[a].provider \in Providers
            /\ admin'[a].seen = row'[admin'[a].provider]
            /\ admin'[a].new.version = admin'[a].seen.version + 1
<1>1. ASSUME NEW b \in Admins, NEW p \in Providers, AdminReads(b, p)
      PROVE  \/ admin'[a] = admin[a]
             \/ /\ admin'[a].provider \in Providers
                /\ admin'[a].seen = row'[admin'[a].provider]
                /\ admin'[a].new.version = admin'[a].seen.version + 1
  <2>1. PICK r \in Request : /\ admin' = [admin EXCEPT ![b] = r]
                             /\ r.provider = p /\ r.seen = row[p]
                             /\ r.new.version = row[p].version + 1
    BY <1>1, AdminReadsType, ProvidersAssumption
  <2>2. row' = row
    BY <1>1 DEF AdminReads
  <2>3. CASE a = b
    <3>1. admin'[a] = r
      BY <2>1, <2>3 DEF TypeOK
    <3> QED
      BY <2>1, <2>2, <3>1
  <2>4. CASE a # b
    BY <2>1, <2>4 DEF TypeOK
  <2> QED
    BY <2>3, <2>4
<1>2. ASSUME NEW b \in Admins, AdminCommits(b) \/ AdminFails(b)
      PROVE  admin'[a] = admin[a]
  <2>1. admin' = [admin EXCEPT ![b] = Idle]
    BY <1>2 DEF AdminCommits, AdminFails
  <2>2. a # b
    BY <2>1 DEF TypeOK
  <2> QED
    BY <2>1, <2>2 DEF TypeOK
<1>3. ASSUME NEW p \in Providers, ProviderFails(p) \/ ProviderSlow(p)
      PROVE  admin'[a] = admin[a]
  BY <1>3 DEF ProviderFails, ProviderSlow
<1>4. CASE TendToRest \/ Tick
  BY <1>4 DEF TendToRest, Tick
<1> QED
  BY <1>1, <1>2, <1>3, <1>4 DEF Next

\* The last history row of every provider is the provider, and no version was
\* written twice, for any number of concurrent requests of the admin app:
\* update_provider_details reads without a lock, and the primary key of the
\* history makes a commit on top of an unseen version fail.
THEOREM HistoryCorrect == Spec => [](HistoryFaithful /\ VersionsUnique)
<1>1. Init => HistoryParts
  <2> SUFFICES ASSUME Init PROVE HistoryParts
    OBVIOUS
  <2>1. \A p \in Providers : history[p] = {row[p]} /\ row[p].version = 1
    BY DEF Init
  <2>2. \A a \in Admins : admin[a] = Idle
    BY DEF Init
  <2>3. HistoryFaithful /\ VersionsUnique
    BY <2>1 DEF HistoryFaithful, VersionsUnique
  <2>4. HistoryInv
    BY <2>1, <2>2 DEF HistoryInv
  <2> QED
    BY <2>3, <2>4 DEF HistoryParts
<1>2. TypeOK /\ TypeOK' /\ HistoryParts /\ [Next]_vars => HistoryParts'
  <2> SUFFICES ASSUME TypeOK, TypeOK', HistoryParts, [Next]_vars
               PROVE  HistoryParts'
    OBVIOUS
  <2>1. CASE UNCHANGED vars
    BY <2>1 DEF vars, HistoryParts, HistoryFaithful, VersionsUnique, HistoryInv
  <2>2. CASE Next
    <3>1. \A p \in Providers : Same(p) \/ Advanced(p)
      BY <2>2, StepAdvances
    <3>2. ASSUME NEW p \in Providers
          PROVE  /\ row[p].version \in Nat \ {0} /\ row'[p].version \in Nat \ {0}
                 /\ row[p] \in history[p]
                 /\ \A h \in history[p] : h.version \in Nat \ {0}
                 /\ \A h \in history[p] : h.version <= row[p].version
      BY DEF TypeOK, HistoryParts, HistoryFaithful
    <3>3. HistoryFaithful'
      <4> SUFFICES ASSUME NEW p \in Providers
                   PROVE  /\ row'[p] \in history'[p]
                          /\ \A h \in history'[p] : h.version <= row'[p].version
        BY DEF HistoryFaithful
      <4>1. CASE Same(p)
        BY <3>2, <4>1 DEF Same
      <4>2. CASE Advanced(p)
        BY <3>2, <4>2 DEF Advanced
      <4> QED
        BY <3>1, <4>1, <4>2
    <3>4. VersionsUnique'
      <4> SUFFICES ASSUME NEW p \in Providers, NEW g \in history'[p],
                          NEW h \in history'[p], g.version = h.version
                   PROVE  g = h
        BY DEF VersionsUnique
      <4>1. \A x, y \in history[p] : x.version = y.version => x = y
        BY DEF HistoryParts, VersionsUnique
      <4>2. CASE Same(p)
        BY <4>1, <4>2 DEF Same
      <4>3. CASE Advanced(p)
        BY <3>2, <4>1, <4>3 DEF Advanced
      <4> QED
        BY <3>1, <4>2, <4>3
    <3>5. ASSUME NEW p \in Providers, NEW v \in 1..row'[p].version
          PROVE  \E h \in history'[p] : h.version = v
      <4>1. \A x \in 1..row[p].version : \E h \in history[p] : h.version = x
        BY DEF HistoryParts, HistoryInv
      <4>2. CASE Same(p)
        BY <3>5, <4>1, <4>2 DEF Same
      <4>3. CASE Advanced(p)
        <5>1. v \in 1..row[p].version \/ v = row'[p].version
          BY <3>2, <3>5, <4>3 DEF Advanced
        <5> QED
          BY <4>1, <4>3, <5>1 DEF Advanced
      <4> QED
        BY <3>1, <4>2, <4>3
    <3>6. ASSUME NEW a \in Admins, admin'[a] # Idle
          PROVE  /\ admin'[a].new.version = admin'[a].seen.version + 1
                 /\ admin'[a].seen.version <= row'[admin'[a].provider].version
                 /\ admin'[a].seen.version = row'[admin'[a].provider].version
                      => admin'[a].seen = row'[admin'[a].provider]
      <4>1. CASE admin'[a] = admin[a]
        <5> DEFINE q == admin[a].provider
        <5>1. admin[a] \in Request
          BY <3>6, <4>1 DEF TypeOK
        <5>2. q \in Providers /\ admin[a].seen.version \in Nat
          BY <5>1
        <5>3. /\ admin[a].new.version = admin[a].seen.version + 1
              /\ admin[a].seen.version <= row[q].version
              /\ admin[a].seen.version = row[q].version => admin[a].seen = row[q]
          BY <3>6, <4>1 DEF HistoryParts, HistoryInv
        <5>4. row[q].version \in Nat
          BY <3>2, <5>2
        <5>5. CASE Same(q)
          BY <4>1, <5>3, <5>5 DEF Same
        <5>6. CASE Advanced(q)
          <6>1. row'[q].version = row[q].version + 1
            BY <5>6 DEF Advanced
          <6>2. admin[a].seen.version < row'[q].version
            BY <5>2, <5>3, <5>4, <6>1
          <6>3. admin[a].seen.version <= row'[q].version
                /\ admin[a].seen.version # row'[q].version
            BY <5>2, <5>4, <6>1, <6>2
          <6> QED
            BY <4>1, <5>3, <6>3
        <5> QED
          BY <3>1, <5>2, <5>5, <5>6
      <4>2. CASE /\ admin'[a].provider \in Providers
                 /\ admin'[a].seen = row'[admin'[a].provider]
                 /\ admin'[a].new.version = admin'[a].seen.version + 1
        <5>1. row'[admin'[a].provider].version \in Nat
          BY <3>2, <4>2
        <5> QED
          BY <4>2, <5>1
      <4> QED
        BY <2>2, <3>6, <4>1, <4>2, RequestStep
    <3>7. HistoryInv'
      BY <3>5, <3>6 DEF HistoryInv
    <3> QED
      BY <3>3, <3>4, <3>7 DEF HistoryParts
  <2> QED
    BY <2>1, <2>2
<1>3. HistoryParts => HistoryFaithful /\ VersionsUnique
  BY DEF HistoryParts
<1> QED
  BY <1>1, <1>2, <1>3, TypeCorrect, PTL DEF Spec

HIDE DEF Details, Request

-----------------------------------------------------------------------------
(* DvlaPassword.                                                           *)

Secrets == 0..MaxSecret
Change == [pc : {"idle", "locked", "post", "save"}, old : {NoValue} \cup Secrets,
           tries : 0..MaxTries]

\* The types, and a run that posts or saves has a password.
Typed ==
  /\ atDvla \in Secrets /\ inSsm \in Secrets /\ broken \in BOOLEAN
  /\ changer \in [Changers -> Change]
  /\ \A c \in Changers : changer[c].pc \in {"post", "save"} => changer[c].old \in Secrets

\* A run that posts has read the store, at the latest now.
PostsAreOld == \A c \in Changers : changer[c].pc = "post" => changer[c].old <= inSsm

NoneSaves == \A c \in Changers : changer[c].pc # "save"
OnlySaver(c) == /\ changer[c].pc = "save" /\ changer[c].old = atDvla
                /\ \A d \in Changers \ {c} : changer[d].pc # "save"

\* While a password waits to be saved the store is behind DVLA, so every other run
\* will be refused.
Behind == \/ inSsm = atDvla /\ NoneSaves
          \/ inSsm < atDvla /\ \E c \in Changers : OnlySaver(c)

PasswordInv == Typed /\ (~broken => PostsAreOld /\ Behind)

\* The invariant is enough.
LEMMA InvImpliesNotLost == PasswordInv => PasswordNotLost
BY DEF PasswordInv, PasswordNotLost, Behind, NoneSaves, OnlySaver

LEMMA PasswordStarts == DvlaInit => PasswordInv
<1> SUFFICES ASSUME DvlaInit PROVE PasswordInv
  OBVIOUS
<1> USE DvlaAssumption DEF DvlaAssumption
<1>1. NoChange \in Change /\ NoChange.pc = "idle" /\ 0 \in Secrets
  BY DEF NoChange, Change, Secrets
<1>2. \A c \in Changers : changer[c] = NoChange
  BY DEF DvlaInit
<1>3. Typed
  BY <1>1, <1>2 DEF DvlaInit, Typed
<1>4. PostsAreOld /\ Behind
  BY <1>1, <1>2 DEF DvlaInit, PostsAreOld, Behind, NoneSaves
<1> QED
  BY <1>3, <1>4 DEF PasswordInv

\* A step that changes one run to another without a password to post or save.
LEMMA LeaveRun ==
  ASSUME PasswordInv, NEW c \in Changers, NEW r \in Change, r.pc \in {"idle", "locked"},
         changer' = [changer EXCEPT ![c] = r],
         UNCHANGED <<atDvla, inSsm>>, broken' \in BOOLEAN,
         ~broken' => ~broken /\ changer[c].pc # "save"
  PROVE  PasswordInv'
<1>1. Typed'
  BY DEF PasswordInv, Typed, Change, Secrets
<1>2. ASSUME ~broken' PROVE PostsAreOld'
  BY <1>2 DEF PasswordInv, Typed, Change, Secrets, PostsAreOld
<1>3. ASSUME ~broken' PROVE Behind'
  BY <1>3 DEF PasswordInv, Typed, Change, Secrets, Behind, NoneSaves, OnlySaver
<1> QED
  BY <1>1, <1>2, <1>3 DEF PasswordInv

\* No step of a run, of the lock or of a client loses the password.
LEMMA PasswordStep == PasswordInv /\ [DvlaNext]_dvlaVars => PasswordInv'
<1> SUFFICES ASSUME PasswordInv, [DvlaNext]_dvlaVars PROVE PasswordInv'
  OBVIOUS
<1> USE DvlaAssumption DEF DvlaAssumption
<1>1. ASSUME NEW c \in Changers, TakeLock(c) PROVE PasswordInv'
  <2> DEFINE r == [changer[c] EXCEPT !.pc = "locked", !.tries = @ + 1]
  <2>1. r \in Change /\ r.pc = "locked" /\ changer' = [changer EXCEPT ![c] = r]
    BY <1>1 DEF TakeLock, PasswordInv, Typed, Change
  <2>2. UNCHANGED <<atDvla, inSsm, broken>> /\ changer[c].pc # "save" /\ broken \in BOOLEAN
    BY <1>1 DEF TakeLock, PasswordInv, Typed
  <2> QED
    BY <2>1, <2>2, LeaveRun
<1>2. ASSUME NEW c \in Changers, ReadPassword(c) PROVE PasswordInv'
  <2>1. Typed'
    BY <1>2 DEF ReadPassword, PasswordInv, Typed, Change, Secrets
  <2>2. ASSUME ~broken' PROVE PostsAreOld'
    BY <1>2, <2>2 DEF ReadPassword, PasswordInv, Typed, Change, Secrets, PostsAreOld
  <2>3. ASSUME ~broken' PROVE Behind'
    BY <1>2, <2>3 DEF ReadPassword, PasswordInv, Typed, Change, Secrets, Behind, NoneSaves,
       OnlySaver
  <2> QED
    BY <2>1, <2>2, <2>3 DEF PasswordInv
<1>3. ASSUME NEW c \in Changers, PostPassword(c) PROVE PasswordInv'
  <2>1. Typed'
    BY <1>3 DEF PostPassword, PasswordInv, Typed, Change, Secrets
  <2>2. ASSUME ~broken' PROVE PostsAreOld'
    BY <1>3, <2>2 DEF PostPassword, PasswordInv, Typed, Change, Secrets, PostsAreOld
  <2>3. ASSUME ~broken' PROVE Behind'
    <3>1. inSsm = atDvla /\ NoneSaves
      BY <1>3, <2>3 DEF PostPassword, PasswordInv, PostsAreOld, Behind, Typed, Secrets
    <3>2. inSsm' < atDvla' /\ OnlySaver(c)'
      BY <1>3, <3>1 DEF PostPassword, PasswordInv, Typed, Change, Secrets, NoneSaves,
         OnlySaver
    <3> QED
      BY <3>2 DEF Behind
  <2> QED
    BY <2>1, <2>2, <2>3 DEF PasswordInv
<1>4. ASSUME NEW c \in Changers, PostRefused(c) PROVE PasswordInv'
  <2> DEFINE r == [NoChange EXCEPT !.tries = MaxTries]
  <2>1. r \in Change /\ r.pc = "idle" /\ changer' = [changer EXCEPT ![c] = r]
    BY <1>4 DEF PostRefused, NoChange, Change
  <2>2. UNCHANGED <<atDvla, inSsm, broken>> /\ changer[c].pc # "save" /\ broken \in BOOLEAN
    BY <1>4 DEF PostRefused, LeavePassword, PasswordInv, Typed
  <2> QED
    BY <2>1, <2>2, LeaveRun
<1>5. ASSUME NEW c \in Changers, NEW changed \in BOOLEAN, PostFails(c, changed)
      PROVE  PasswordInv'
  <2> DEFINE r == [changer[c] EXCEPT !.pc = "idle", !.old = NoValue]
  <2>1. r \in Change /\ r.pc = "idle" /\ changer' = [changer EXCEPT ![c] = r]
    BY <1>5 DEF PostFails, PasswordInv, Typed, Change
  <2>2. CASE changed
    <3>1. broken'
      BY <1>5, <2>2 DEF PostFails
    <3>2. Typed'
      BY <1>5, <2>1, <3>1 DEF PostFails, PasswordInv, Typed, Change, Secrets
    <3> QED
      BY <3>1, <3>2 DEF PasswordInv
  <2>3. CASE ~changed
    <3>1. UNCHANGED <<atDvla, inSsm, broken>> /\ changer[c].pc # "save" /\ broken \in BOOLEAN
      BY <1>5, <2>3 DEF PostFails, PasswordInv, Typed
    <3> QED
      BY <2>1, <3>1, LeaveRun
  <2> QED
    BY <2>2, <2>3
<1>6. ASSUME NEW c \in Changers, SavePassword(c) PROVE PasswordInv'
  <2>1. Typed'
    BY <1>6 DEF SavePassword, PasswordInv, Typed, Change, Secrets, NoChange
  <2>2. ASSUME ~broken' PROVE PostsAreOld' /\ Behind'
    <3>1. inSsm < atDvla /\ OnlySaver(c)
      BY <1>6, <2>2 DEF SavePassword, PasswordInv, Behind, NoneSaves, OnlySaver
    <3>2. PostsAreOld'
      BY <1>6, <2>2, <3>1 DEF SavePassword, PasswordInv, PostsAreOld, OnlySaver, Typed,
         Change, Secrets, NoChange
    <3>3. inSsm' = atDvla' /\ NoneSaves'
      BY <1>6, <3>1 DEF SavePassword, PasswordInv, OnlySaver, NoneSaves, Typed, Change,
         NoChange
    <3> QED
      BY <3>2, <3>3 DEF Behind
  <2> QED
    BY <2>1, <2>2 DEF PasswordInv
<1>7. ASSUME NEW c \in Changers, CrashChange(c) PROVE PasswordInv'
  <2> DEFINE r == [NoChange EXCEPT !.tries = MaxTries]
  <2>1. r \in Change /\ r.pc = "idle" /\ changer' = [changer EXCEPT ![c] = r]
    BY <1>7 DEF CrashChange, NoChange, Change
  <2>2. UNCHANGED <<atDvla, inSsm>> /\ broken' \in BOOLEAN
    BY <1>7 DEF CrashChange, PasswordInv, Typed
  <2>3. ~broken' => ~broken /\ changer[c].pc # "save"
    BY <1>7 DEF CrashChange
  <2> QED
    BY <2>1, <2>2, <2>3, LeaveRun
<1>8. CASE UNCHANGED <<atDvla, inSsm, changer, broken>>
  BY <1>8 DEF PasswordInv, Typed, PostsAreOld, Behind, NoneSaves, OnlySaver
<1>9. LockExpires \/ (\E p \in Clients : Authenticate(p)) \/ UNCHANGED dvlaVars
        => UNCHANGED <<atDvla, inSsm, changer, broken>>
  BY DEF LockExpires, Authenticate, dvlaVars
<1> QED
  BY <1>1, <1>2, <1>3, <1>4, <1>5, <1>6, <1>7, <1>8, <1>9 DEF DvlaNext

\* What a client has cached is a password that was accepted, and only runs hold the lock.
LEMMA CacheStep ==
  ASSUME PasswordInv, DvlaTypeOK, [DvlaNext]_dvlaVars, PasswordInv'
  PROVE  DvlaTypeOK'
<1>1. \A c \in Changers : changer'[c] \in Change
  BY DEF PasswordInv, Typed
<1>2. atDvla \in Secrets /\ inSsm \in Secrets
  BY DEF PasswordInv, Typed
<1>3. cached' \in [Clients -> {NoValue} \cup Secrets]
  <2>1. CASE cached' = cached
    BY <2>1 DEF DvlaTypeOK, Secrets
  <2>2. ASSUME NEW p \in Clients, Authenticate(p)
        PROVE  cached' \in [Clients -> {NoValue} \cup Secrets]
    BY <1>2, <2>2 DEF Authenticate, DvlaTypeOK, Secrets
  <2>3. (\E p \in Clients : Authenticate(p)) \/ cached' = cached
    BY DEF DvlaNext, dvlaVars, TakeLock, ReadPassword, PostPassword, PostRefused, PostFails,
       SavePassword, CrashChange, LockExpires
  <2> QED BY <2>1, <2>2, <2>3
<1>4. lock' \in Changers \cup {NoValue}
  BY DEF DvlaTypeOK, DvlaNext, dvlaVars, TakeLock, ReadPassword, PostPassword, PostRefused,
     PostFails, SavePassword, CrashChange, LockExpires, Authenticate, Release
<1> QED BY <1>1, <1>3, <1>4 DEF DvlaTypeOK, PasswordInv, Typed, Change, Secrets

\* Whatever runs overlap, expire, fail and die, the password in use is in the store or
\* about to be saved by exactly one run, unless an answer of DVLA was lost or a worker
\* died before it saved (DVLAClient.change_password).
THEOREM PasswordKept == DvlaSpec => [](PasswordNotLost /\ DvlaTypeOK)
<1>1. DvlaSpec => []PasswordInv
  BY PasswordStarts, PasswordStep, PTL DEF DvlaSpec
<1>2. DvlaInit => DvlaTypeOK
  <2> SUFFICES ASSUME DvlaInit PROVE DvlaTypeOK
    OBVIOUS
  <2>1. 0 \in 0..MaxSecret /\ 0 \in 0..MaxTries
    BY DvlaAssumption
  <2> QED BY <2>1 DEF DvlaInit, DvlaTypeOK, NoChange
<1>3. PasswordInv /\ DvlaTypeOK /\ [DvlaNext]_dvlaVars /\ PasswordInv' => DvlaTypeOK'
  BY CacheStep
<1> QED
  BY <1>1, <1>2, <1>3, InvImpliesNotLost, PTL DEF DvlaSpec

-----------------------------------------------------------------------------
(* ReportRequests.                                                         *)

RunType == [pc : {"free", "read", "fetch", "finish", "store"}, of : ReportIds \cup {"none"},
            last : Notes \cup {NoNote}, csv : SUBSET Notes, twice : BOOLEAN,
            ends : SUBSET Notes, cut : BOOLEAN, due : SUBSET Notes]
RequestType == [status : Statuses, age : 0..DeleteAfter, quiet : 0..Timeout]

Made == {n \in Notes : createdAt[n] > 0}

\* What is due and not in the file was made at the moment of an end of a full page, or is
\* older than the last row of the page before.
TakenDownTo(run) ==
  \A n \in run.due \ run.csv :
    \/ \E e \in run.ends : createdAt[e] = createdAt[n]
    \/ run.last = NoNote
    \/ createdAt[n] < createdAt[run.last]

\* While a run pages, its file holds the rows of what is due down to the last row of
\* the page before, and nothing older.
Paging(run) ==
  /\ ~run.twice
  /\ run.due \subseteq matches
  /\ run.csv \cup run.ends \subseteq Made
  /\ run.last = NoNote => run.csv = {}
  /\ run.last # NoNote => run.last \in Made
  /\ \A n \in run.csv : createdAt[n] >= createdAt[run.last]
  /\ TakenDownTo(run)

Finished(run) ==
  /\ ~run.twice
  /\ run.due \cup run.csv \cup run.ends \subseteq Made
  /\ run.cut => run.last \in Made
  /\ \A n \in run.due \ run.csv :
       \/ \E e \in run.ends : createdAt[e] = createdAt[n]
       \/ (run.cut /\ createdAt[n] < createdAt[run.last])

RunRight(run) ==
  /\ run.pc = "read" =>
       ~run.twice /\ run.csv = {} /\ run.ends = {} /\ run.last = NoNote
  /\ run.pc = "fetch" => Paging(run)
  /\ run.pc \in {"finish", "store"} => Finished(run)
  /\ run.pc # "free" => run.of \in ReportIds
  /\ run.pc = "store" => run.of \in files

\* The inductive invariant of the reports.
NotesRight == /\ createdAt \in [Notes -> 0..LastMoment]
              /\ matches \subseteq inTable /\ inTable \subseteq Made
RequestsRight == /\ files \subseteq ReportIds /\ queued \subseteq ReportIds
                 /\ asking \subseteq ReportIds
                 /\ requests \in [ReportIds -> RequestType]
                 /\ StoredHasFile
ReportRight ==
  /\ NotesRight /\ RequestsRight
  /\ runs \in [Runs -> RunType]
  /\ \A w \in Runs : RunRight(runs[w])

LEMMA NoRunType ==
  ReportAssumption => NoRun \in RunType /\ NoRun.pc = "free" /\ RunRight(NoRun)
BY DEF NoRun, RunType, RunRight

LEMMA ReportStarts == ReportAssumption /\ ReportInit => ReportRight
<1> SUFFICES ASSUME ReportAssumption, ReportInit PROVE ReportRight
  OBVIOUS
<1>1. NotesRight
  BY DEF ReportInit, NotesRight, Made, ReportAssumption
<1>2. RequestsRight
  BY DEF ReportInit, RequestsRight, NoRequest, StoredHasFile, RequestType, Statuses,
         ReportAssumption
<1>3. runs \in [Runs -> RunType] /\ \A w \in Runs : runs[w] = NoRun
  BY NoRunType DEF ReportInit
<1> QED BY <1>1, <1>2, <1>3, NoRunType DEF ReportRight

LEMMA RunAt ==
  ASSUME ReportRight, NEW w \in Runs
  PROVE  runs[w] \in RunType /\ RunRight(runs[w])
BY DEF ReportRight

\* A step of one run that leaves the notifications alone.
LEMMA RunSteps ==
  ASSUME ReportAssumption, ReportRight, NEW w \in Runs, NEW run \in RunType,
         runs' = [runs EXCEPT ![w] = run], UNCHANGED noteVars,
         RequestsRight', files \subseteq files',
         run.pc = "store" => run.of \in files',
         run.pc # "free" => run.of \in ReportIds,
         run.pc = "read" =>
           ~run.twice /\ run.csv = {} /\ run.ends = {} /\ run.last = NoNote,
         run.pc = "fetch" => Paging(run),
         run.pc \in {"finish", "store"} => Finished(run)
  PROVE  ReportRight'
<1>1. runs' \in [Runs -> RunType] /\ runs'[w] = run
      /\ \A v \in Runs \ {w} : runs'[v] = runs[v]
  BY DEF ReportRight
<1>2. UNCHANGED <<createdAt, inTable, matches>>
  BY DEF noteVars
<1>3. ASSUME NEW any
      PROVE  (Paging(any)' <=> Paging(any)) /\ (Finished(any)' <=> Finished(any))
  BY <1>2 DEF Paging, Finished, TakenDownTo, Made
<1>4. RunRight(run)'
  BY <1>3 DEF RunRight
<1>5. \A v \in Runs \ {w} : RunRight(runs[v])'
  <2> SUFFICES ASSUME NEW v \in Runs \ {w}, NEW any, any = runs[v], RunRight(any)
               PROVE  RunRight(any)'
    BY <1>1, RunAt
  <2> QED BY <1>3 DEF RunRight
<1>6. NotesRight'
  BY <1>2 DEF ReportRight, NotesRight, Made
<1>7. \A v \in Runs : RunRight(runs[v])'
  BY <1>1, <1>4, <1>5
<1> QED BY <1>1, <1>6, <1>7 DEF ReportRight

LEMMA RequestTyped ==
  ASSUME ReportAssumption, NEW q \in RequestType, NEW s \in Statuses
  PROVE  /\ [q EXCEPT !.status = s, !.quiet = 0] \in RequestType
         /\ [q EXCEPT !.status = s, !.quiet = 0].status = s
         /\ [q EXCEPT !.age = IF @ < DeleteAfter THEN @ + 1 ELSE @,
                      !.quiet = IF @ < Timeout THEN @ + 1 ELSE @] \in RequestType
<1>1. 0 \in 0..Timeout
  BY DEF ReportAssumption
<1>2. /\ [q EXCEPT !.status = s, !.quiet = 0] \in RequestType
      /\ [q EXCEPT !.status = s, !.quiet = 0].status = s
  BY <1>1 DEF RequestType
<1> DEFINE a == IF q.age < DeleteAfter THEN q.age + 1 ELSE q.age
           b == IF q.quiet < Timeout THEN q.quiet + 1 ELSE q.quiet
<1>3. q.age \in 0..DeleteAfter /\ q.quiet \in 0..Timeout
  BY DEF RequestType
<1>4. a \in 0..DeleteAfter /\ b \in 0..Timeout
  BY <1>3 DEF ReportAssumption
<1> HIDE DEF a, b
<1>5. [q EXCEPT !.age = a, !.quiet = b] \in RequestType
  BY <1>4 DEF RequestType
<1> QED BY <1>2, <1>5 DEF a, b

\* A status that is not "stored", or that is while the file is there.
LEMMA StatusSet ==
  ASSUME ReportAssumption, RequestsRight, NEW r \in ReportIds, NEW s \in Statuses,
         SetStatus(r, s), files' = files, asking' = asking, queued' \subseteq queued,
         s = "stored" => r \in files
  PROVE  RequestsRight'
<1>1. requests \in [ReportIds -> RequestType] /\ StoredHasFile
  BY DEF RequestsRight
<1>2. requests' \in [ReportIds -> RequestType] /\ requests'[r].status = s
      /\ \A q \in ReportIds \ {r} : requests'[q] = requests[q]
  <2>1. requests' = [requests EXCEPT ![r] = [requests[r] EXCEPT !.status = s, !.quiet = 0]]
    BY DEF SetStatus
  <2>2. requests[r] \in RequestType
    BY <1>1
  <2> QED BY <1>1, <2>1, <2>2, RequestTyped
<1>3. StoredHasFile'
  BY <1>1, <1>2 DEF StoredHasFile
<1> QED BY <1>2, <1>3 DEF RequestsRight

\* A notification that is made leaves those there are alone.
LEMMA ArrivalStep ==
  ASSUME ReportAssumption, ReportRight, NEW n \in Notes, Arrives(n)
  PROVE  ReportRight'
<1>1. /\ createdAt \in [Notes -> 0..LastMoment] /\ createdAt[n] = 0
      /\ matches \subseteq inTable /\ inTable \subseteq Made
      /\ UNCHANGED <<asking, requests, queued, runs, files>>
      /\ inTable' = inTable \cup {n} /\ matches' = matches \cup {n}
  BY DEF Arrives, ReportRight, NotesRight
<1>2. PICK moment \in 1..LastMoment : createdAt' = [createdAt EXCEPT ![n] = moment]
  BY DEF Arrives
<1>3. /\ createdAt' \in [Notes -> 0..LastMoment] /\ createdAt'[n] = moment /\ moment > 0
      /\ \A m \in Notes \ {n} : createdAt'[m] = createdAt[m]
  BY <1>1, <1>2 DEF ReportAssumption
<1>4. /\ n \notin Made /\ Made' = Made \cup {n}
      /\ \A m \in Made : m \in Notes /\ createdAt'[m] = createdAt[m]
  BY <1>1, <1>3 DEF Made
<1>5. NotesRight'
  BY <1>1, <1>3, <1>4 DEF NotesRight
<1>6. ASSUME NEW run \in RunType, RunRight(run)
      PROVE  RunRight(run)'
  <2>1. CASE run.pc = "fetch"
    <3>1. Paging(run)
      BY <1>6, <2>1 DEF RunRight
    <3>2. /\ run.due \subseteq matches' /\ run.csv \cup run.ends \subseteq Made'
          /\ run.last # NoNote => run.last \in Made'
      BY <1>1, <1>4, <3>1 DEF Paging
    <3>3. \A m \in run.csv : createdAt'[m] >= createdAt'[run.last]
      <4> SUFFICES ASSUME NEW m \in run.csv
                   PROVE  createdAt'[m] >= createdAt'[run.last]
        OBVIOUS
      <4>1. run.last \in Made /\ m \in Made /\ createdAt[m] >= createdAt[run.last]
        BY <3>1 DEF Paging
      <4> QED BY <1>4, <4>1
    <3>4. TakenDownTo(run)'
      <4> SUFFICES ASSUME NEW m \in run.due \ run.csv, run.last # NoNote,
                          ~(createdAt'[m] < createdAt'[run.last])
                   PROVE  \E e \in run.ends : createdAt'[e] = createdAt'[m]
        BY DEF TakenDownTo
      <4>1. m \in Made /\ run.last \in Made /\ run.ends \subseteq Made
        BY <1>1, <3>1 DEF Paging
      <4>2. ~(createdAt[m] < createdAt[run.last])
        BY <1>4, <4>1
      <4>3. PICK e \in run.ends : createdAt[e] = createdAt[m]
        BY <3>1, <4>2 DEF Paging, TakenDownTo
      <4> QED BY <1>4, <4>1, <4>3
    <3>5. Paging(run)'
      BY <3>1, <3>2, <3>3, <3>4 DEF Paging
    <3> QED BY <1>1, <1>6, <2>1, <3>5 DEF RunRight
  <2>2. CASE run.pc \in {"finish", "store"}
    <3>1. Finished(run)
      BY <1>6, <2>2 DEF RunRight
    <3>2. ASSUME NEW m \in run.due \ run.csv
          PROVE  \/ \E e \in run.ends : createdAt'[e] = createdAt'[m]
                 \/ (run.cut /\ createdAt'[m] < createdAt'[run.last])
      <4>1. m \in Made /\ run.ends \subseteq Made /\ (run.cut => run.last \in Made)
        BY <3>1 DEF Finished
      <4>2. CASE \E e \in run.ends : createdAt[e] = createdAt[m]
        BY <1>4, <4>1, <4>2
      <4>3. CASE run.cut /\ createdAt[m] < createdAt[run.last]
        BY <1>4, <4>1, <4>3
      <4> QED BY <3>1, <4>2, <4>3 DEF Finished
    <3>3. Finished(run)'
      BY <1>4, <3>1, <3>2 DEF Finished
    <3> QED BY <1>1, <1>6, <2>2, <3>3 DEF RunRight
  <2>3. CASE run.pc \notin {"fetch", "finish", "store"}
    BY <1>1, <1>6, <2>3 DEF RunRight
  <2> QED BY <2>1, <2>2, <2>3
<1>7. runs' \in [Runs -> RunType] /\ \A w \in Runs : RunRight(runs[w])'
  <2> SUFFICES ASSUME NEW w \in Runs, NEW run, run = runs[w] PROVE RunRight(run)'
    BY <1>1 DEF ReportRight
  <2> QED BY <1>6, RunAt
<1>8. RequestsRight'
  BY <1>1 DEF ReportRight, RequestsRight, StoredHasFile
<1> QED BY <1>5, <1>7, <1>8 DEF ReportRight

\* A row that changes or goes is not due any more.
LEMMA ChangeStep ==
  ASSUME ReportAssumption, ReportRight, NEW n \in Notes, ChangesStatus(n) \/ RowGone(n)
  PROVE  ReportRight'
<1>1. /\ UNCHANGED <<createdAt, asking, requests, queued, files>> /\ NotDue(n)
      /\ matches \ {n} \subseteq matches' /\ matches' \subseteq inTable'
      /\ inTable' \subseteq Made /\ inTable \subseteq Made
  <2>1. matches \subseteq inTable /\ inTable \subseteq Made
    BY DEF ReportRight, NotesRight
  <2>2. CASE ChangesStatus(n)
    BY <2>1, <2>2 DEF ChangesStatus
  <2>3. CASE RowGone(n)
    BY <2>1, <2>3 DEF RowGone
  <2> QED BY <2>2, <2>3
<1>2. Made' = Made /\ NotesRight'
  BY <1>1 DEF ReportRight, NotesRight, Made
<1>3. ASSUME NEW w \in Runs PROVE runs'[w] \in RunType /\ RunRight(runs[w])'
  <2>1. PICK old \in RunType : old = runs[w]
    BY RunAt
  <2> DEFINE run == [old EXCEPT !.due = @ \ {n}]
  <2>2. runs'[w] = run
    BY <1>1, <2>1 DEF NotDue
  <2>3. /\ run \in RunType /\ run.pc = old.pc /\ run.of = old.of /\ run.last = old.last
        /\ run.csv = old.csv /\ run.twice = old.twice /\ run.ends = old.ends
        /\ run.cut = old.cut /\ run.due = old.due \ {n}
    BY DEF RunType
  <2> HIDE DEF run
  <2>4. PICK new \in RunType : new = run
    BY <2>3
  <2>5. RunRight(old)
    BY <2>1, RunAt
  <2>6. CASE old.pc = "fetch"
    <3>1. Paging(old)
      BY <2>5, <2>6 DEF RunRight
    <3>2. Paging(new)'
      BY <1>1, <1>2, <2>3, <2>4, <3>1 DEF Paging, TakenDownTo
    <3> QED BY <1>1, <2>2, <2>3, <2>4, <2>5, <2>6, <3>2 DEF RunRight
  <2>7. CASE old.pc \in {"finish", "store"}
    <3>1. Finished(old)
      BY <2>5, <2>7 DEF RunRight
    <3>2. Finished(new)'
      BY <1>1, <1>2, <2>3, <2>4, <3>1 DEF Finished
    <3> QED BY <1>1, <2>2, <2>3, <2>4, <2>5, <2>7, <3>2 DEF RunRight
  <2>8. CASE old.pc \notin {"fetch", "finish", "store"}
    BY <1>1, <2>2, <2>3, <2>4, <2>5, <2>8 DEF RunRight
  <2> QED BY <2>2, <2>3, <2>6, <2>7, <2>8
<1>4. runs' \in [Runs -> RunType]
  BY <1>1, <1>3 DEF NotDue
<1>5. RequestsRight'
  BY <1>1 DEF ReportRight, RequestsRight, StoredHasFile
<1> QED BY <1>2, <1>3, <1>4, <1>5 DEF ReportRight

LEMMA RequestsStep ==
  ASSUME ReportAssumption, ReportRight,
         \/ \E r \in ReportIds : CheckOngoing(r) \/ CreateReportRequest(r)
         \/ DeleteReports \/ TimePasses
  PROVE  ReportRight'
<1>1. /\ UNCHANGED <<noteVars, runs, files>> /\ queued' \subseteq ReportIds
      /\ asking' \subseteq ReportIds
  BY DEF CheckOngoing, CreateReportRequest, DeleteReports, TimePasses, ReportRight, RequestsRight
<1>0. requests \in [ReportIds -> RequestType] /\ StoredHasFile
  BY DEF ReportRight, RequestsRight
<1>2. requests' \in [ReportIds -> RequestType]
  <2>1. ASSUME NEW r \in ReportIds, CreateReportRequest(r) \/ CheckOngoing(r)
        PROVE  requests' \in [ReportIds -> RequestType]
    BY <1>0, <2>1 DEF CreateReportRequest, CheckOngoing, NoRequest, RequestType, Statuses,
                      ReportAssumption
  <2>2. CASE DeleteReports
    <3>1. "deleted" \in Statuses
      BY DEF Statuses
    <3> QED BY <1>0, <2>2, <3>1, RequestTyped DEF DeleteReports
  <2>3. CASE TimePasses
    <3>1. ASSUME NEW r \in ReportIds PROVE requests'[r] \in RequestType
      <4>1. requests[r] \in RequestType /\ requests[r].status \in Statuses
        BY <1>0 DEF RequestType
      <4> DEFINE later == [requests[r] EXCEPT
                             !.age = IF @ < DeleteAfter THEN @ + 1 ELSE @,
                             !.quiet = IF @ < Timeout THEN @ + 1 ELSE @]
      <4>2. later \in RequestType
        BY <4>1, RequestTyped
      <4>3. requests'[r] = IF requests[r].status = "none" THEN requests[r] ELSE later
        BY <2>3 DEF TimePasses
      <4> HIDE DEF later
      <4> QED BY <4>1, <4>2, <4>3
    <3> QED BY <2>3, <3>1 DEF TimePasses
  <2> QED BY <2>1, <2>2, <2>3
<1>3. StoredHasFile'
  <2> SUFFICES ASSUME NEW q \in ReportIds, requests'[q].status = "stored"
               PROVE  requests[q].status = "stored"
    BY <1>0, <1>1 DEF StoredHasFile
  <2>1. ASSUME NEW r \in ReportIds, CreateReportRequest(r) \/ CheckOngoing(r)
        PROVE  requests[q].status = "stored"
    BY <1>0, <2>1 DEF CreateReportRequest, CheckOngoing, NoRequest
  <2>2. CASE DeleteReports
    BY <1>0, <2>2 DEF DeleteReports, RequestType
  <2>3. CASE TimePasses
    BY <1>0, <2>3 DEF TimePasses, RequestType
  <2> QED BY <2>1, <2>2, <2>3
<1>4. RequestsRight'
  BY <1>1, <1>2, <1>3 DEF RequestsRight, ReportRight
<1>5. NotesRight' /\ \A w \in Runs : RunRight(runs[w])'
  BY <1>1 DEF noteVars, ReportRight, NotesRight, Made, RunRight, Paging, Finished, TakenDownTo
<1> QED BY <1>1, <1>4, <1>5 DEF ReportRight

\* A page that is not full has all that there is, so only one that has nothing is empty.
LEMMA ShortPage ==
  ASSUME ReportAssumption, ReportRight, NEW w \in Runs, NEW page \in SUBSET Notes, IsPage(page, w)
  PROVE  /\ page \subseteq Older(w) /\ Older(w) \subseteq matches
         /\ page = {} => Older(w) = {}
         /\ \A n \in page, m \in Older(w) \ page :
              Cardinality(page) = PageSize /\ createdAt[n] >= createdAt[m]
<1>1. page \subseteq Older(w) /\ Older(w) \subseteq matches
  BY DEF IsPage, Older
<1>2. IsFiniteSet(page) /\ Cardinality(page) \in Nat /\ PageSize \in Nat \ {0}
  BY FS_Subset, FS_CardinalityType DEF ReportAssumption
<1>3. ASSUME page # Older(w) PROVE Cardinality(page) = PageSize
  <2>1. Cardinality(page) <= PageSize /\ ~(Cardinality(page) < PageSize)
    BY <1>3 DEF IsPage
  <2> QED BY <1>2, <2>1
<1>4. page = {} => Older(w) = {}
  <2>1. Cardinality({}) = 0
    BY FS_EmptySet
  <2> QED BY <1>2, <1>3, <2>1
<1> QED BY <1>1, <1>3, <1>4 DEF IsPage

LEMMA PageStep ==
  ASSUME ReportAssumption, ReportRight, NEW w \in Runs, FetchPage(w)
  PROVE  ReportRight'
<1>1. PICK old \in RunType : old = runs[w] /\ old.pc = "fetch" /\ old.of \in ReportIds /\ Paging(old)
  BY RunAt DEF FetchPage, RunRight
<1>2. /\ matches \subseteq inTable /\ inTable \subseteq Made
      /\ createdAt \in [Notes -> Int] /\ Made \subseteq Notes /\ NoNote \notin Made
  BY DEF ReportRight, NotesRight, Made, ReportAssumption
<1>3. PICK page \in SUBSET Notes :
        /\ IsPage(page, w)
        /\ \/ /\ page = {}
              /\ runs' = [runs EXCEPT ![w].pc = "finish",
                            ![w].cut = runs[w].last \notin inTable \cup {NoNote}]
           \/ \E last \in page : /\ \A n \in page : createdAt[n] >= createdAt[last]
                                 /\ runs' = [runs EXCEPT ![w] = NextPage(runs[w], page, last)]
  BY DEF FetchPage
<1>4. /\ page \subseteq Older(w) /\ Older(w) \subseteq matches
      /\ page = {} => Older(w) = {}
      /\ \A n \in page, m \in Older(w) \ page :
           Cardinality(page) = PageSize /\ createdAt[n] >= createdAt[m]
  BY <1>3, ShortPage
<1>5. \A n \in matches :
        n \in Older(w) <=>
          (old.last = NoNote \/ (old.last \in inTable /\ createdAt[n] < createdAt[old.last]))
  BY <1>1 DEF Older
<1>6. UNCHANGED noteVars /\ files' = files /\ RequestsRight'
  BY DEF FetchPage, ReportRight, RequestsRight, StoredHasFile
<1>7. /\ old.twice = FALSE /\ old.due \subseteq matches /\ old.csv \cup old.ends \subseteq Made
      /\ old.last = NoNote => old.csv = {}
      /\ old.last # NoNote => old.last \in Made
      /\ \A n \in old.csv : createdAt[n] >= createdAt[old.last]
      /\ TakenDownTo(old)
  BY <1>1 DEF Paging, RunType
<1>8. CASE page = {} /\ runs' = [runs EXCEPT ![w].pc = "finish",
                                   ![w].cut = runs[w].last \notin inTable \cup {NoNote}]
  <2> DEFINE gone == old.last \notin inTable \cup {NoNote}
             run == [old EXCEPT !.pc = "finish", !.cut = gone]
  <2>1. runs' = [runs EXCEPT ![w] = run]
    BY <1>1, <1>8
  <2>2. gone \in BOOLEAN
    OBVIOUS
  <2>g. gone <=> old.last \notin inTable \cup {NoNote}
    OBVIOUS
  <2> HIDE DEF gone
  <2>3. /\ run \in RunType /\ run.pc = "finish" /\ run.of = old.of /\ run.twice = FALSE
        /\ run.due = old.due /\ run.csv = old.csv /\ run.ends = old.ends
        /\ run.last = old.last /\ run.cut = gone
    BY <1>7, <2>2 DEF RunType
  <2> HIDE DEF run
  <2>4. ASSUME NEW n \in old.due \ old.csv
        PROVE  \/ \E e \in old.ends : createdAt[e] = createdAt[n]
               \/ (gone /\ createdAt[n] < createdAt[old.last])
    <3>1. n \in matches /\ n \notin Older(w)
      BY <1>4, <1>7, <1>8
    <3>2. old.last # NoNote /\ ~(old.last \in inTable /\ createdAt[n] < createdAt[old.last])
      BY <1>5, <3>1
    <3>3. \/ \E e \in old.ends : createdAt[e] = createdAt[n]
          \/ createdAt[n] < createdAt[old.last]
      BY <1>7, <3>2 DEF TakenDownTo
    <3> QED BY <2>g, <3>2, <3>3
  <2>5. Finished(run)
    <3>1. run.due \cup run.csv \cup run.ends \subseteq Made
      BY <1>2, <1>7, <2>3
    <3>2. run.cut => run.last \in Made
      BY <1>7, <2>g, <2>3
    <3>3. \A n \in run.due \ run.csv :
            \/ \E e \in run.ends : createdAt[e] = createdAt[n]
            \/ (run.cut /\ createdAt[n] < createdAt[run.last])
      BY <2>3, <2>4
    <3> QED BY <2>3, <3>1, <3>2, <3>3 DEF Finished
  <2> QED BY <1>1, <1>6, <2>1, <2>3, <2>5, RunSteps
<1>9. ASSUME NEW last \in page, \A n \in page : createdAt[n] >= createdAt[last],
             runs' = [runs EXCEPT ![w] = NextPage(runs[w], page, last)]
      PROVE  ReportRight'
  <2>1. page \subseteq matches /\ page \subseteq Made /\ last \in Made /\ last # NoNote
    BY <1>2, <1>4, <1>9
  <2>2. ASSUME NEW n \in page, old.last # NoNote
        PROVE  old.last \in Made /\ createdAt[n] < createdAt[old.last]
    BY <1>4, <1>5, <1>7, <2>2
  <2>3. old.csv \cap page = {}
    <3> SUFFICES ASSUME NEW n \in old.csv \cap page PROVE FALSE
      OBVIOUS
    <3>1. old.last # NoNote
      BY <1>7
    <3>2. createdAt[n] >= createdAt[old.last] /\ createdAt[n] < createdAt[old.last]
      BY <1>7, <2>2, <3>1
    <3>3. createdAt[n] \in Int /\ createdAt[old.last] \in Int
      BY <1>2, <2>1, <2>2, <3>1
    <3> QED BY <3>2, <3>3
  <2> DEFINE ends == IF Cardinality(page) = PageSize THEN old.ends \cup {last} ELSE old.ends
             run == [old EXCEPT !.last = last, !.csv = @ \cup page, !.twice = FALSE,
                                !.ends = ends]
  <2>4. runs' = [runs EXCEPT ![w] = run]
    <3>1. NextPage(old, page, last) = [old EXCEPT !.last = last, !.csv = @ \cup page,
                                         !.twice = @ \/ old.csv \cap page # {}, !.ends = ends]
      BY DEF NextPage
    <3>2. (old.twice \/ old.csv \cap page # {}) = FALSE
      BY <1>7, <2>3
    <3> HIDE DEF ends
    <3> QED BY <1>1, <1>9, <3>1, <3>2
  <2>5. /\ ends \subseteq Made /\ old.ends \subseteq ends
        /\ Cardinality(page) = PageSize => last \in ends
    BY <1>7, <2>1
  <2> HIDE DEF ends
  <2>6. /\ run \in RunType /\ run.pc = "fetch" /\ run.of = old.of /\ run.twice = FALSE
        /\ run.due = old.due /\ run.csv = old.csv \cup page /\ run.ends = ends
        /\ run.last = last
    BY <1>1, <1>2, <2>1, <2>5 DEF RunType
  <2> HIDE DEF run
  <2>7. ASSUME NEW n \in old.csv \cup page PROVE createdAt[n] >= createdAt[last]
    <3>1. CASE n \in page
      BY <1>9, <3>1
    <3>2. CASE n \in old.csv
      <4>1. old.last # NoNote
        BY <1>7, <3>2
      <4>2. createdAt[n] >= createdAt[old.last] /\ createdAt[last] < createdAt[old.last]
        BY <1>7, <2>2, <3>2, <4>1
      <4>3. createdAt[n] \in Int /\ createdAt[old.last] \in Int /\ createdAt[last] \in Int
        BY <1>2, <1>7, <2>1, <3>2, <4>1
      <4> QED BY <4>2, <4>3
    <3> QED BY <3>1, <3>2
  <2>8. ASSUME NEW n \in old.due \ (old.csv \cup page)
        PROVE  (\E e \in ends : createdAt[e] = createdAt[n]) \/ createdAt[n] < createdAt[last]
    <3>1. n \in matches /\ createdAt[n] \in Int /\ createdAt[last] \in Int
      BY <1>2, <1>7, <2>1
    <3>2. CASE n \in Older(w)
      <4>1. Cardinality(page) = PageSize /\ createdAt[last] >= createdAt[n]
        BY <1>4, <1>9, <3>2
      <4> QED BY <2>5, <3>1, <4>1
    <3>3. CASE n \notin Older(w)
      <4>1. old.last # NoNote /\ old.last \in inTable
        <5>1. last \in Older(w) /\ last \in matches
          BY <1>4
        <5> QED BY <1>5, <3>1, <3>3, <5>1
      <4>2. ~(createdAt[n] < createdAt[old.last])
        BY <1>5, <3>1, <3>3, <4>1
      <4> QED BY <1>7, <2>5, <4>1, <4>2 DEF TakenDownTo
    <3> QED BY <3>2, <3>3
  <2>9. Paging(run)
    <3>1. run.due \subseteq matches /\ run.csv \cup run.ends \subseteq Made
      BY <1>7, <2>1, <2>5, <2>6
    <3>2. TakenDownTo(run)
      BY <2>6, <2>8 DEF TakenDownTo
    <3> QED BY <2>1, <2>6, <2>7, <3>1, <3>2 DEF Paging
  <2> QED BY <1>1, <1>6, <2>4, <2>6, <2>9, RunSteps
<1> QED BY <1>3, <1>8, <1>9

LEMMA RunStep ==
  ASSUME ReportAssumption, ReportRight, NEW w \in Runs,
         \/ \E r \in ReportIds : ReadRequest(w, r)
         \/ StartReport(w) \/ FinishUpload(w) \/ StoreReport(w) \/ FailReport(w)
         \/ CrashReport(w)
  PROVE  ReportRight'
<1>1. PICK old \in RunType : old = runs[w] /\ RunRight(old)
  BY RunAt
<1>2. NoRun \in RunType /\ NoRun.pc = "free"
  BY NoRunType
<1>3. RequestsRight /\ matches \subseteq Notes /\ files \subseteq ReportIds
  BY DEF ReportRight, RequestsRight, NotesRight, Made
<1>4. ASSUME NEW r \in ReportIds, ReadRequest(w, r) PROVE ReportRight'
  <2>1. UNCHANGED <<noteVars, asking, requests, files>> /\ queued' \subseteq queued
    BY <1>4 DEF ReadRequest
  <2>2. RequestsRight'
    BY <1>3, <2>1 DEF RequestsRight, StoredHasFile
  <2>3. CASE runs' = runs
    BY <2>1, <2>2, <2>3
       DEF noteVars, ReportRight, NotesRight, Made, RunRight, Paging, Finished, TakenDownTo
  <2> DEFINE run == [NoRun EXCEPT !.pc = "read", !.of = r]
  <2>4. CASE runs' = [runs EXCEPT ![w] = run]
    <3>1. /\ run \in RunType /\ run.pc = "read" /\ run.of = r /\ run.csv = {} /\ ~run.twice
          /\ run.ends = {} /\ run.last = NoNote
      BY <1>2 DEF RunType, NoRun
    <3> HIDE DEF run
    <3> QED BY <2>1, <2>2, <2>4, <3>1, RunSteps
  <2> QED BY <1>4, <2>3, <2>4 DEF ReadRequest
<1>5. CASE StartReport(w)
  <2> DEFINE run == [old EXCEPT !.pc = "fetch", !.due = matches]
  <2>0. /\ old.csv = {} /\ old.twice = FALSE /\ old.of \in ReportIds /\ old.ends = {}
        /\ old.last = NoNote
    BY <1>1, <1>5 DEF StartReport, RunRight, RunType
  <2>1. /\ run \in RunType /\ run.pc = "fetch" /\ run.of = old.of /\ run.due = matches
        /\ run.csv = {} /\ run.twice = FALSE /\ run.ends = {} /\ run.last = NoNote
    BY <1>3, <2>0 DEF RunType
  <2>2. SetStatus(old.of, "in_progress") /\ UNCHANGED <<noteVars, asking, queued, files>>
        /\ runs' = [runs EXCEPT ![w] = run]
    BY <1>1, <1>5 DEF StartReport
  <2>3. RequestsRight'
    BY <1>3, <2>0, <2>2, StatusSet DEF Statuses
  <2> HIDE DEF run
  <2>4. Paging(run)
    BY <2>1 DEF Paging, TakenDownTo
  <2> QED BY <2>0, <2>1, <2>2, <2>3, <2>4, RunSteps
<1>6. CASE FinishUpload(w)
  <2> DEFINE run == [old EXCEPT !.pc = "store"]
  <2>1. old.pc = "finish" /\ old.of \in ReportIds /\ Finished(old)
    BY <1>1, <1>6 DEF FinishUpload, RunRight
  <2>2. /\ run \in RunType /\ run.pc = "store" /\ run.of = old.of
        /\ run.due = old.due /\ run.csv = old.csv /\ run.twice = old.twice
        /\ run.ends = old.ends /\ run.cut = old.cut /\ run.last = old.last
    BY DEF RunType
  <2>3. UNCHANGED <<noteVars, asking, requests, queued>> /\ files' = files \cup {old.of}
        /\ runs' = [runs EXCEPT ![w] = run]
    BY <1>1, <1>6 DEF FinishUpload
  <2>4. RequestsRight'
    BY <1>3, <2>1, <2>3 DEF RequestsRight, StoredHasFile
  <2> HIDE DEF run
  <2>5. Finished(run)
    BY <2>1, <2>2 DEF Finished
  <2> QED BY <2>1, <2>2, <2>3, <2>4, <2>5, RunSteps
<1>7. CASE StoreReport(w) \/ FailReport(w)
  <2>1. PICK s \in {"stored", "failed"} :
          /\ SetStatus(old.of, s) /\ (s = "stored" => old.pc = "store")
          /\ queued' \subseteq queued /\ UNCHANGED <<noteVars, asking, files>>
          /\ runs' = [runs EXCEPT ![w] = NoRun] /\ old.pc # "free"
    BY <1>1, <1>7 DEF StoreReport, FailReport
  <2>2. s \in Statuses /\ old.of \in ReportIds /\ (s = "stored" => old.of \in files)
    BY <1>1, <2>1 DEF Statuses, RunRight
  <2>3. RequestsRight'
    BY <1>3, <2>1, <2>2, StatusSet
  <2> QED BY <1>2, <2>1, <2>3, RunSteps
<1>8. CASE CrashReport(w)
  <2>1. UNCHANGED <<noteVars, asking, requests, queued, files>>
        /\ runs' = [runs EXCEPT ![w] = NoRun]
    BY <1>8 DEF CrashReport
  <2>2. RequestsRight'
    BY <1>3, <2>1 DEF RequestsRight, StoredHasFile
  <2> QED BY <1>2, <2>1, <2>2, RunSteps
<1> QED BY <1>4, <1>5, <1>6, <1>7, <1>8

LEMMA ReportSteps == ReportAssumption /\ ReportRight /\ [ReportNext]_reportVars => ReportRight'
<1> SUFFICES ASSUME ReportAssumption, ReportRight, [ReportNext]_reportVars PROVE ReportRight'
  OBVIOUS
<1>1. CASE UNCHANGED reportVars
  BY <1>1 DEF reportVars, noteVars, ReportRight, NotesRight, RequestsRight, Made, RunRight,
              Paging, Finished, TakenDownTo, StoredHasFile
<1>2. ASSUME NEW n \in Notes, Arrives(n) \/ ChangesStatus(n) \/ RowGone(n) PROVE ReportRight'
  BY <1>2, ArrivalStep, ChangeStep
<1>3. CASE \/ \E r \in ReportIds : CheckOngoing(r) \/ CreateReportRequest(r)
           \/ DeleteReports \/ TimePasses
  BY <1>3, RequestsStep
<1>4. ASSUME NEW w \in Runs, FetchPage(w) PROVE ReportRight'
  BY <1>4, PageStep
<1>5. ASSUME NEW w \in Runs,
             \/ \E r \in ReportIds : ReadRequest(w, r)
             \/ StartReport(w) \/ FinishUpload(w) \/ StoreReport(w) \/ FailReport(w)
             \/ CrashReport(w)
      PROVE  ReportRight'
  BY <1>5, RunStep
<1> QED BY <1>1, <1>2, <1>3, <1>4, <1>5 DEF ReportNext

LEMMA ReportRightSuffices ==
  ReportAssumption /\ ReportRight => ReportIsComplete /\ StoredHasFile /\ ReportTypeOK
<1> SUFFICES ASSUME ReportAssumption, ReportRight
             PROVE  ReportIsComplete /\ StoredHasFile /\ ReportTypeOK
  OBVIOUS
<1>1. ReportIsComplete
  BY DEF ReportRight, RunRight, Finished, ReportIsComplete, MayMiss
<1>2. \A w \in Runs : runs[w] \in RunType
  BY DEF ReportRight
<1>3. \A w \in Runs : /\ runs[w].pc \in {"free", "read", "fetch", "finish", "store"}
                      /\ runs[w].csv \cup runs[w].due \cup runs[w].ends \subseteq Notes
                      /\ runs[w].last \in Notes \cup {NoNote}
  BY <1>2 DEF RunType
<1>4. StoredHasFile /\ queued \cup files \cup asking \subseteq ReportIds
  BY DEF ReportRight, RequestsRight
<1> QED BY <1>1, <1>3, <1>4
        DEF ReportRight, RequestsRight, NotesRight, Made, RequestType, ReportTypeOK

\* For any notifications, made at whatever moments, any number of workers and any page
\* size: a finished report has none twice, and all that matched while it was written but
\* those made at the moment of a page's last row and those older than a last row that was
\* gone; with it, a request that is stored has its file
\* (process_report_request, get_notifications_for_service).
THEOREM ReportsComplete == ReportSpec => [](ReportIsComplete /\ StoredHasFile /\ ReportTypeOK)
<1>1. ReportInit => ReportRight
  BY ReportAssumption, ReportStarts
<1>2. ReportRight /\ [ReportNext]_reportVars => ReportRight'
  BY ReportAssumption, ReportSteps
<1>3. ReportRight => ReportIsComplete /\ StoredHasFile /\ ReportTypeOK
  BY ReportAssumption, ReportRightSuffices
<1> QED BY <1>1, <1>2, <1>3, PTL DEF ReportSpec

-----------------------------------------------------------------------------
(* Unsubscribes.                                                           *)

UnsubRefs == {0} \cup UnsubReports
UnsubRowType == [of : Emails \cup {"none"}, home : {"none", "live", "history"},
                 report : UnsubRefs, copy : UnsubRefs, day : 0..LastNight]
UnsubReportType == [made : BOOLEAN, done : BOOLEAN, day : 0..LastNight]
ViewType == [pc : {"none", "read", "made"}, from : 0..MaxRows, to : 0..MaxRows,
             report : UnsubRefs]

\* The service had time for the request as it was read, or as it is.
Offered(r) ==
  IF r.copy # 0 THEN night - report[r.copy].day > BatchDays
  ELSE night - r.day > OldDays

UnsubTyped ==
  /\ unsub \in [RowIds -> UnsubRowType] /\ report \in [UnsubReports -> UnsubReportType]
  /\ click \in [Clicks -> {"idle"} \cup Emails] /\ view \in [ReportMakers -> ViewType]
  /\ sweep \in [Sweeps -> SUBSET RowIds] /\ night \in 0..LastNight

\* What a row, or what an admin is about to write into one, refers to.
RefersToMade(r) == /\ r.report # 0 => report[r.report].made
                   /\ r.copy # 0 => report[r.copy].made

RowIsRight(i) ==
  /\ RefersToMade(unsub[i])
  /\ unsub[i].home = "history" => Offered(unsub[i])
  /\ \A s \in Sweeps : i \in sweep[s] => unsub[i].home # "none" /\ Offered(unsub[i])

\* The inductive invariant of the unsubscribe requests.
UnsubRight ==
  /\ UnsubTyped
  /\ \A i \in RowIds : RowIsRight(i)
  /\ \A a \in ReportMakers : view[a].pc = "made" =>
       view[a].report \in UnsubReports /\ report[view[a].report].made

LEMMA UnsubNumbers ==
  ASSUME UnsubAssumption
  PROVE  /\ BatchDays \in Nat /\ OldDays \in Nat /\ MaxRows \in Nat /\ MaxReports \in Nat
         /\ LastNight \in Nat /\ 0 \in 0..LastNight /\ 0 \in 0..MaxRows
         /\ 0 \notin UnsubReports /\ \A i \in RowIds : i \in Nat /\ i \in 0..MaxRows
BY DEF UnsubAssumption, UnsubReports, RowIds

LEMMA UnsubStarts == UnsubAssumption /\ UnsubInit => UnsubRight
<1> SUFFICES ASSUME UnsubAssumption, UnsubInit PROVE UnsubRight
  OBVIOUS
<1>1. NoRow \in UnsubRowType /\ NoRow.report = 0 /\ NoRow.copy = 0 /\ NoRow.home = "none"
  BY UnsubNumbers DEF NoRow, UnsubRowType, UnsubRefs
<1>2. NoReport \in UnsubReportType /\ NoView \in ViewType /\ NoView.pc = "none"
  BY UnsubNumbers DEF NoReport, NoView, UnsubReportType, ViewType, UnsubRefs
<1>3. UnsubTyped
  BY <1>1, <1>2, UnsubNumbers DEF UnsubInit, UnsubTyped
<1>4. \A i \in RowIds : RowIsRight(i)
  BY <1>1 DEF UnsubInit, RowIsRight, RefersToMade
<1>5. \A a \in ReportMakers : view[a].pc = "none"
  BY <1>2 DEF UnsubInit
<1> QED BY <1>3, <1>4, <1>5 DEF UnsubRight

LEMMA RowAt ==
  ASSUME UnsubRight, NEW i \in RowIds
  PROVE  unsub[i] \in UnsubRowType /\ RowIsRight(i)
BY DEF UnsubRight, UnsubTyped

\* Steps that leave the rows, the reports and what is selected alone.
LEMMA RowsStay ==
  ASSUME UnsubRight, UNCHANGED <<unsub, report, sweep, night>>, UnsubTyped',
         \A a \in ReportMakers : view'[a].pc = "made" =>
           view'[a].report \in UnsubReports /\ report[view'[a].report].made
  PROVE  UnsubRight'
<1>1. ASSUME NEW i \in RowIds PROVE RowIsRight(i)'
  <2>1. RowIsRight(i)
    BY RowAt
  <2> QED BY <2>1 DEF RowIsRight, RefersToMade, Offered
<1> QED BY <1>1 DEF UnsubRight

LEMMA ClickStep ==
  ASSUME UnsubAssumption, UnsubRight, NEW c \in Clicks, NEW e \in Emails, ClickLink(c, e)
  PROVE  UnsubRight'
<1>1. UNCHANGED <<unsub, report, view, sweep, night>> /\ click' = [click EXCEPT ![c] = e]
  BY DEF ClickLink
<1>2. UnsubTyped'
  BY <1>1 DEF UnsubRight, UnsubTyped
<1> QED BY <1>1, <1>2, RowsStay DEF UnsubRight

LEMMA SummaryStep ==
  ASSUME UnsubAssumption, UnsubRight, NEW a \in ReportMakers, ReadSummary(a)
  PROVE  UnsubRight'
<1>1. UNCHANGED <<unsub, report, click, sweep, night>> /\ Unbatched # {}
      /\ view' = [view EXCEPT ![a] = [pc |-> "read", from |-> Min(Unbatched),
                                      to |-> Max(Unbatched), report |-> 0]]
  BY DEF ReadSummary
<1>2. Unbatched \in SUBSET Nat /\ Unbatched \in SUBSET (0..MaxRows)
  BY UnsubNumbers DEF Unbatched
<1>3. Min(Unbatched) \in 0..MaxRows /\ Max(Unbatched) \in 0..MaxRows
  BY <1>1, <1>2, MinOf, MaxOf, UnsubNumbers
<1> DEFINE new == [pc |-> "read", from |-> Min(Unbatched), to |-> Max(Unbatched), report |-> 0]
<1>4. new \in ViewType /\ new.pc = "read"
  BY <1>3 DEF ViewType, UnsubRefs
<1>5. view' = [view EXCEPT ![a] = new]
  BY <1>1
<1> HIDE DEF new
<1>6. UnsubTyped'
  BY <1>1, <1>4, <1>5 DEF UnsubRight, UnsubTyped
<1>7. \A b \in ReportMakers : view'[b].pc = "made" => view'[b] = view[b]
  BY <1>4, <1>5 DEF UnsubRight, UnsubTyped
<1> QED BY <1>1, <1>6, <1>7, RowsStay DEF UnsubRight

LEMMA RequestMade ==
  ASSUME UnsubAssumption, UnsubRight, NEW c \in Clicks, CreateRequest(c)
  PROVE  UnsubRight'
<1> DEFINE new == [NoRow EXCEPT !.of = click[c], !.home = "live", !.day = night]
<1>1. PICK i \in NextFree : unsub' = [unsub EXCEPT ![i] = new]
  BY DEF CreateRequest
<1>2. UNCHANGED <<report, view, sweep, night>> /\ click' = [click EXCEPT ![c] = "idle"]
      /\ click[c] \in Emails
  BY DEF CreateRequest, UnsubRight, UnsubTyped
<1>3. i \in RowIds /\ unsub[i].home = "none"
  BY DEF NextFree
<1>4. new \in UnsubRowType /\ new.report = 0 /\ new.copy = 0 /\ new.home = "live"
  BY <1>2 DEF NoRow, UnsubRowType, UnsubRefs, UnsubRight, UnsubTyped
<1> HIDE DEF new
<1>5. UnsubTyped'
  BY <1>1, <1>2, <1>3, <1>4 DEF UnsubRight, UnsubTyped
<1>6. unsub'[i] = new /\ \A j \in RowIds \ {i} : unsub'[j] = unsub[j]
  BY <1>1, <1>3 DEF UnsubRight, UnsubTyped
<1>7. ASSUME NEW j \in RowIds PROVE RowIsRight(j)'
  <2>1. RowIsRight(j)
    BY RowAt
  <2>2. CASE j # i
    BY <1>2, <1>6, <2>1, <2>2 DEF RowIsRight, RefersToMade, Offered
  <2>3. CASE j = i
    <3>1. \A s \in Sweeps : i \notin sweep[s]
      BY <1>3, <2>1, <2>3 DEF RowIsRight
    <3> QED BY <1>2, <1>4, <1>6, <2>3, <3>1 DEF RowIsRight, RefersToMade
  <2> QED BY <2>2, <2>3
<1> QED BY <1>2, <1>5, <1>7 DEF UnsubRight

\* A report is made, or its mark changes: the day of one that is made stays.
LEMMA ReportsStep ==
  ASSUME UnsubAssumption, UnsubRight, UNCHANGED <<unsub, sweep, night>>, UnsubTyped',
         \A r \in UnsubReports : report[r].made =>
           report'[r].made /\ report'[r].day = report[r].day,
         \A a \in ReportMakers : view'[a].pc = "made" =>
           view'[a].report \in UnsubReports /\ report'[view'[a].report].made
  PROVE  UnsubRight'
<1>1. ASSUME NEW i \in RowIds PROVE RowIsRight(i)'
  <2>1. RowIsRight(i) /\ unsub[i] \in UnsubRowType
    BY RowAt
  <2>2. /\ unsub[i].report # 0 => unsub[i].report \in UnsubReports
        /\ unsub[i].copy # 0 => unsub[i].copy \in UnsubReports
    BY <2>1 DEF UnsubRowType, UnsubRefs
  <2> QED BY <2>1, <2>2 DEF RowIsRight, RefersToMade, Offered
<1> QED BY <1>1 DEF UnsubRight

LEMMA CreateReportStep ==
  ASSUME UnsubAssumption, UnsubRight, NEW a \in ReportMakers, CreateReport(a)
  PROVE  UnsubRight'
<1> DEFINE fresh == [made |-> TRUE, done |-> FALSE, day |-> night]
<1>1. PICK r \in UnsubReports :
        /\ ~report[r].made /\ report' = [report EXCEPT ![r] = fresh]
        /\ view' = [view EXCEPT ![a].pc = "made", ![a].report = r]
  BY DEF CreateReport
<1>2. UNCHANGED <<unsub, click, sweep, night>>
  BY DEF CreateReport
<1> DEFINE seen == [view[a] EXCEPT !.pc = "made", !.report = r]
<1>3. seen \in ViewType /\ seen.pc = "made" /\ seen.report = r
  <2>1. view[a] \in ViewType /\ r \in UnsubRefs
    BY DEF UnsubRight, UnsubTyped, UnsubRefs
  <2> QED BY <2>1 DEF ViewType
<1>4. view' = [view EXCEPT ![a] = seen]
  BY <1>1
<1>5. fresh \in UnsubReportType /\ fresh.made
  BY DEF UnsubRight, UnsubTyped, UnsubReportType
<1> HIDE DEF seen, fresh
<1>6. UnsubTyped'
  BY <1>1, <1>2, <1>3, <1>4, <1>5 DEF UnsubRight, UnsubTyped
<1>7. report'[r].made /\ \A q \in UnsubReports \ {r} : report'[q] = report[q]
  BY <1>1, <1>5 DEF UnsubRight, UnsubTyped
<1>8. view'[a] = seen /\ \A b \in ReportMakers \ {a} : view'[b] = view[b]
  BY <1>4 DEF UnsubRight, UnsubTyped
<1>9. \A q \in UnsubReports : report[q].made => report'[q].made /\ report'[q].day = report[q].day
  BY <1>1, <1>7
<1>10. ASSUME NEW b \in ReportMakers, view'[b].pc = "made"
       PROVE  view'[b].report \in UnsubReports /\ report'[view'[b].report].made
  BY <1>3, <1>7, <1>8, <1>9, <1>10 DEF UnsubRight
<1> QED BY <1>2, <1>6, <1>9, <1>10, ReportsStep

LEMMA ProcessStep ==
  ASSUME UnsubAssumption, UnsubRight, NEW r \in UnsubReports, NEW done \in BOOLEAN,
         ProcessReport(r, done)
  PROVE  UnsubRight'
<1>1. report' = [report EXCEPT ![r] = [report[r] EXCEPT !.done = done]]
      /\ UNCHANGED <<unsub, click, view, sweep, night>>
  BY DEF ProcessReport
<1> DEFINE new == [report[r] EXCEPT !.done = done]
<1>2. new \in UnsubReportType /\ new.made = report[r].made /\ new.day = report[r].day
  <2>1. report[r] \in UnsubReportType
    BY DEF UnsubRight, UnsubTyped
  <2> QED BY <2>1 DEF UnsubReportType
<1>3. report' = [report EXCEPT ![r] = new]
  BY <1>1
<1> HIDE DEF new
<1>4. UnsubTyped'
  BY <1>1, <1>2, <1>3 DEF UnsubRight, UnsubTyped
<1>5. report'[r] = new /\ \A q \in UnsubReports \ {r} : report'[q] = report[q]
  BY <1>3 DEF UnsubRight, UnsubTyped
<1>6. \A q \in UnsubReports : report'[q].made = report[q].made /\ report'[q].day = report[q].day
  BY <1>2, <1>5
<1>7. \A a \in ReportMakers : view'[a].pc = "made" =>
         view'[a].report \in UnsubReports /\ report'[view'[a].report].made
  BY <1>1, <1>6 DEF UnsubRight
<1> QED BY <1>1, <1>4, <1>6, <1>7, ReportsStep

LEMMA AssignStep ==
  ASSUME UnsubAssumption, UnsubRight, NEW a \in ReportMakers, AssignRequests(a)
  PROVE  UnsubRight'
<1>1. UNCHANGED <<report, click, sweep, night>> /\ view' = [view EXCEPT ![a] = NoView]
      /\ view[a].pc = "made"
  BY DEF AssignRequests
<1>2. view[a].report \in UnsubReports /\ report[view[a].report].made
  BY <1>1 DEF UnsubRight
<1>3. NoView \in ViewType /\ NoView.pc = "none"
  BY UnsubNumbers DEF NoView, ViewType, UnsubRefs
<1>4. ASSUME NEW i \in RowIds
      PROVE  /\ unsub'[i] \in UnsubRowType
             /\ unsub'[i].home = unsub[i].home /\ unsub'[i].copy = unsub[i].copy
             /\ unsub'[i].day = unsub[i].day
             /\ unsub'[i].report \in {unsub[i].report, view[a].report}
  <2>1. unsub[i] \in UnsubRowType
    BY RowAt
  <2>2. unsub'[i] = unsub[i] \/ unsub'[i] = [unsub[i] EXCEPT !.report = view[a].report]
    BY DEF AssignRequests
  <2> QED BY <1>2, <2>1, <2>2 DEF UnsubRowType, UnsubRefs
<1>5. UnsubTyped'
  <2>1. unsub' \in [RowIds -> UnsubRowType]
    BY <1>4 DEF AssignRequests
  <2> QED BY <1>1, <1>3, <2>1 DEF UnsubRight, UnsubTyped
<1>6. ASSUME NEW i \in RowIds PROVE RowIsRight(i)'
  <2>1. RowIsRight(i)
    BY RowAt
  <2> QED BY <1>1, <1>2, <1>4, <2>1 DEF RowIsRight, RefersToMade, Offered
<1>7. \A b \in ReportMakers : view'[b].pc = "made" => view'[b] = view[b]
  BY <1>1, <1>3 DEF UnsubRight, UnsubTyped
<1> QED BY <1>1, <1>5, <1>6, <1>7 DEF UnsubRight

LEMMA SelectStep ==
  ASSUME UnsubAssumption, UnsubRight, NEW s \in Sweeps, SelectExpired(s)
  PROVE  UnsubRight'
<1> DEFINE chosen == IF s = "batched" THEN BatchedRows ELSE OldRows
<1>1. UNCHANGED <<report, click, view, night>> /\ sweep' = [sweep EXCEPT ![s] = chosen]
  BY DEF SelectExpired
<1>2. chosen \in SUBSET RowIds
  BY DEF BatchedRows, OldRows, Unbatched
<1>3. sweep'[s] = chosen /\ \A q \in Sweeps \ {s} : sweep'[q] = sweep[q]
  BY <1>1 DEF UnsubRight, UnsubTyped
<1>4. ASSUME NEW i \in RowIds
      PROVE  /\ unsub'[i] \in UnsubRowType
             /\ unsub'[i].home = unsub[i].home /\ unsub'[i].report = unsub[i].report
             /\ unsub'[i].day = unsub[i].day
             /\ i \in chosen => unsub'[i].copy = unsub[i].report
             /\ i \notin chosen => unsub'[i].copy = unsub[i].copy
  <2>1. unsub[i] \in UnsubRowType
    BY RowAt
  <2>2. unsub'[i] = IF i \in chosen THEN [unsub[i] EXCEPT !.copy = unsub[i].report]
                    ELSE unsub[i]
    BY <1>3 DEF SelectExpired
  <2> HIDE DEF chosen
  <2> QED BY <2>1, <2>2 DEF UnsubRowType
<1>5. ASSUME NEW i \in chosen
      PROVE  /\ unsub[i].home = "live"
             /\ IF unsub[i].report # 0 THEN night - report[unsub[i].report].day > BatchDays
                ELSE night - unsub[i].day > OldDays
  BY DEF BatchedRows, OldRows, Unbatched
<1> HIDE DEF chosen
<1>6. UnsubTyped'
  <2>1. unsub' \in [RowIds -> UnsubRowType]
    BY <1>4 DEF SelectExpired
  <2> QED BY <1>1, <1>2, <2>1 DEF UnsubRight, UnsubTyped
<1>7. ASSUME NEW i \in RowIds PROVE RowIsRight(i)'
  <2>1. RowIsRight(i)
    BY RowAt
  <2>2. CASE i \in chosen
    BY <1>1, <1>4, <1>5, <2>1, <2>2 DEF RowIsRight, RefersToMade, Offered
  <2>3. CASE i \notin chosen
    BY <1>1, <1>3, <1>4, <2>1, <2>3 DEF RowIsRight, RefersToMade, Offered
  <2> QED BY <2>2, <2>3
<1> QED BY <1>1, <1>6, <1>7 DEF UnsubRight

LEMMA MoveStep ==
  ASSUME UnsubAssumption, UnsubRight, NEW s \in Sweeps, MoveExpired(s)
  PROVE  UnsubRight'
<1>1. UNCHANGED <<report, click, view, night>> /\ sweep' = [sweep EXCEPT ![s] = {}]
  BY DEF MoveExpired
<1>2. \A q \in Sweeps : sweep'[q] \subseteq sweep[q]
  BY <1>1 DEF UnsubRight, UnsubTyped
<1>3. ASSUME NEW i \in RowIds
      PROVE  /\ unsub'[i] \in UnsubRowType /\ unsub'[i].report = unsub[i].report
             /\ unsub'[i].copy = unsub[i].copy /\ unsub'[i].day = unsub[i].day
             /\ \/ unsub'[i].home = unsub[i].home
                \/ unsub'[i].home = "history" /\ i \in sweep[s]
  <2>1. unsub[i] \in UnsubRowType
    BY RowAt
  <2>2. \/ unsub'[i] = unsub[i]
        \/ i \in sweep[s] /\ unsub'[i] = [unsub[i] EXCEPT !.home = "history"]
    <3>1. CASE \E j \in sweep[s] : unsub[j].home = "history"
      BY <3>1 DEF MoveExpired
    <3>2. CASE ~ \E j \in sweep[s] : unsub[j].home = "history"
      BY <3>2 DEF MoveExpired
    <3> QED BY <3>1, <3>2
  <2> QED BY <2>1, <2>2 DEF UnsubRowType
<1>4. UnsubTyped'
  <2>1. unsub' \in [RowIds -> UnsubRowType]
    <3>1. unsub' = [i \in RowIds |-> unsub'[i]]
      BY DEF MoveExpired, UnsubRight, UnsubTyped
    <3> QED BY <1>3, <3>1
  <2> QED BY <1>1, <2>1 DEF UnsubRight, UnsubTyped
<1>5. ASSUME NEW i \in RowIds PROVE RowIsRight(i)'
  <2>1. RowIsRight(i)
    BY RowAt
  <2> QED BY <1>1, <1>2, <1>3, <2>1 DEF RowIsRight, RefersToMade, Offered
<1> QED BY <1>1, <1>4, <1>5 DEF UnsubRight

LEMMA NightStep ==
  ASSUME UnsubAssumption, UnsubRight, NextNight
  PROVE  UnsubRight'
<1>1. UNCHANGED <<unsub, report, click, view, sweep>> /\ night' = night + 1
      /\ night' \in 0..LastNight /\ night \in Nat
  BY UnsubNumbers DEF NextNight, UnsubRight, UnsubTyped
<1>2. UnsubTyped'
  BY <1>1 DEF UnsubRight, UnsubTyped
<1>3. ASSUME NEW i \in RowIds PROVE RowIsRight(i)'
  <2>1. RowIsRight(i) /\ unsub[i] \in UnsubRowType
    BY RowAt
  <2>2. unsub[i].day \in Nat /\ (unsub[i].copy # 0 => report[unsub[i].copy].day \in Nat)
    BY <2>1 DEF UnsubRowType, UnsubRefs, UnsubRight, UnsubTyped, UnsubReportType
  <2>3. Offered(unsub[i]) => Offered(unsub[i])'
    BY <1>1, <2>2, UnsubNumbers DEF Offered
  <2> QED BY <1>1, <2>1, <2>3 DEF RowIsRight, RefersToMade
<1> QED BY <1>1, <1>2, <1>3 DEF UnsubRight

LEMMA UnsubSteps == UnsubAssumption /\ UnsubRight /\ [UnsubNext]_unsubVars => UnsubRight'
<1> SUFFICES ASSUME UnsubAssumption, UnsubRight, [UnsubNext]_unsubVars PROVE UnsubRight'
  OBVIOUS
<1>1. CASE UNCHANGED unsubVars
  BY <1>1, RowsStay DEF unsubVars, UnsubRight, UnsubTyped
<1>2. ASSUME NEW c \in Clicks, (\E e \in Emails : ClickLink(c, e)) \/ CreateRequest(c)
      PROVE  UnsubRight'
  BY <1>2, ClickStep, RequestMade
<1>3. ASSUME NEW a \in ReportMakers, ReadSummary(a) \/ CreateReport(a) \/ AssignRequests(a)
      PROVE  UnsubRight'
  BY <1>3, SummaryStep, CreateReportStep, AssignStep
<1>4. ASSUME NEW r \in UnsubReports, NEW done \in BOOLEAN, ProcessReport(r, done)
      PROVE  UnsubRight'
  BY <1>4, ProcessStep
<1>5. ASSUME NEW s \in Sweeps, SelectExpired(s) \/ MoveExpired(s) PROVE UnsubRight'
  BY <1>5, SelectStep, MoveStep
<1>6. CASE NextNight
  BY <1>6, NightStep
<1> QED BY <1>1, <1>2, <1>3, <1>4, <1>5, <1>6 DEF UnsubNext

LEMMA UnsubRightSuffices == UnsubRight => ArchivedWasOffered /\ UnsubTypeOK
<1> SUFFICES ASSUME UnsubRight PROVE ArchivedWasOffered /\ UnsubTypeOK
  OBVIOUS
<1>1. \A i \in RowIds : unsub[i] \in UnsubRowType /\ RowIsRight(i)
  BY RowAt
<1>2. ArchivedWasOffered
  BY <1>1 DEF RowIsRight, Offered, ArchivedWasOffered
<1>3. \A i \in RowIds : /\ unsub[i].of \in Emails \cup {"none"}
                        /\ unsub[i].home \in {"none", "live", "history"}
                        /\ {unsub[i].report, unsub[i].copy} \subseteq {0} \cup UnsubReports
  BY <1>1 DEF UnsubRowType, UnsubRefs
<1> QED BY <1>2, <1>3 DEF UnsubTypeOK, UnsubRight, UnsubTyped, UnsubReportType, ViewType,
                          UnsubRefs

\* A request to unsubscribe reaches the history only after its service had time for it,
\* although admins assign it to reports between the reading and the moving of a nightly
\* task (archive_unsubscribe_requests_from_query).
THEOREM OfferedBeforeArchived == UnsubSpec => [](ArchivedWasOffered /\ UnsubTypeOK)
<1>1. UnsubInit => UnsubRight
  BY UnsubAssumption, UnsubStarts
<1>2. UnsubRight /\ [UnsubNext]_unsubVars => UnsubRight'
  BY UnsubAssumption, UnsubSteps
<1> QED BY <1>1, <1>2, UnsubRightSuffices, PTL DEF UnsubSpec

-----------------------------------------------------------------------------
(* Sums over the requests that may be in flight, as sets of pairs.         *)

\* The sum of a function of the requests, as the number of pairs under it.
Sum(f) == Cardinality({p \in Requests \X (1..JobSize) : p[2] <= f[p[1]]})

LEMMA PairsFinite ==
  ASSUME LimitAssumption
  PROVE  IsFiniteSet(Requests \X (1..JobSize))
<1>1. IsFiniteSet(1..JobSize)
  BY FS_Interval DEF LimitAssumption
<1>2. IsFiniteSet(Requests)
  BY DEF LimitAssumption
<1> QED BY <1>1, <1>2, FS_Product

LEMMA SumAt ==
  ASSUME LimitAssumption, NEW f \in [Requests -> 0..JobSize], NEW g \in [Requests -> 0..JobSize],
         NEW r \in Requests, \A q \in Requests \ {r} : g[q] = f[q]
  PROVE  Sum(f) \in Nat /\ Sum(g) \in Nat /\ Sum(g) = Sum(f) + g[r] - f[r]
<1> DEFINE Rest == {p \in Requests \X (1..JobSize) : p[1] # r /\ p[2] <= f[p[1]]}
<1>1. IsFiniteSet(Requests \X (1..JobSize))
  BY PairsFinite
<1>2. IsFiniteSet(Rest) /\ Cardinality(Rest) \in Nat
  BY <1>1, FS_Subset, FS_CardinalityType
<1>3. ASSUME NEW h \in [Requests -> 0..JobSize], \A q \in Requests \ {r} : h[q] = f[q]
      PROVE  Sum(h) = Cardinality(Rest) + h[r] /\ Sum(h) \in Nat
  <2> DEFINE Own == {r} \X (1..h[r])
  <2>1. h[r] \in 0..JobSize /\ JobSize \in Nat
    BY DEF LimitAssumption
  <2>2. IsFiniteSet(Own) /\ Cardinality(Own) = h[r]
    <3>1. IsFiniteSet({r}) /\ Cardinality({r}) = 1
      BY FS_Singleton
    <3>2. IsFiniteSet(1..h[r]) /\ Cardinality(1..h[r]) = h[r]
      BY <2>1, FS_Interval
    <3>3. IsFiniteSet(Own) /\ Cardinality(Own) = 1 * h[r]
      BY <3>1, <3>2, FS_Product
    <3> QED BY <2>1, <3>3
  <2>3. Rest \cap Own = {}
    OBVIOUS
  <2>4. {p \in Requests \X (1..JobSize) : p[2] <= h[p[1]]} = Rest \cup Own
    <3>1. ASSUME NEW p \in Requests \X (1..JobSize)
          PROVE  p[2] <= h[p[1]] <=> p \in Rest \cup Own
      BY <1>3, <2>1, <3>1
    <3>2. \A p \in Own : p \in Requests \X (1..JobSize)
      BY <2>1
    <3> QED BY <3>1, <3>2
  <2> HIDE DEF Rest, Own
  <2>5. Cardinality(Rest \cup Own) = Cardinality(Rest) + h[r] - Cardinality({})
    BY <1>2, <2>2, <2>3, FS_Union
  <2>6. Sum(h) = Cardinality(Rest) + h[r]
    BY <1>2, <2>1, <2>4, <2>5, FS_EmptySet DEF Sum
  <2> QED BY <1>2, <2>1, <2>6
<1> HIDE DEF Rest
<1>4. Sum(f) = Cardinality(Rest) + f[r] /\ Sum(g) = Cardinality(Rest) + g[r]
      /\ Sum(f) \in Nat /\ Sum(g) \in Nat
  BY <1>3
<1>5. f[r] \in Int /\ g[r] \in Int
  BY DEF LimitAssumption
<1> QED BY <1>2, <1>4, <1>5

LEMMA SumUpTo ==
  ASSUME LimitAssumption, NEW f \in [Requests -> 0..JobSize], NEW g \in [Requests -> 0..JobSize],
         \A q \in Requests : f[q] <= g[q]
  PROVE  Sum(f) <= Sum(g)
<1> DEFINE F == {p \in Requests \X (1..JobSize) : p[2] <= f[p[1]]}
           G == {p \in Requests \X (1..JobSize) : p[2] <= g[p[1]]}
<1>0. G \subseteq Requests \X (1..JobSize)
  OBVIOUS
<1>1. IsFiniteSet(G)
  BY <1>0, PairsFinite, FS_Subset
<1>2. F \subseteq G
  BY DEF LimitAssumption
<1> QED BY <1>1, <1>2, FS_Subset DEF Sum

\* The most that the requests may hold, when one of them holds no more than n.
LEMMA SumLimit ==
  ASSUME LimitAssumption, NEW f \in [Requests -> 0..JobSize],
         NEW r \in Requests, NEW n \in 0..JobSize, f[r] <= n
  PROVE  /\ Sum(f) \in Nat
         /\ Sum(f) <= n + (Cardinality(Requests) - 1) * JobSize
<1> DEFINE g == [q \in Requests |-> JobSize]
           h == [q \in Requests |-> IF q = r THEN n ELSE JobSize]
<1>1. JobSize \in Nat /\ Cardinality(Requests) \in Nat
  BY FS_CardinalityType DEF LimitAssumption
<1>2. g \in [Requests -> 0..JobSize] /\ h \in [Requests -> 0..JobSize]
      /\ g[r] = JobSize /\ h[r] = n /\ \A q \in Requests \ {r} : h[q] = g[q]
  BY <1>1
<1>3. Sum(g) = Cardinality(Requests) * JobSize
  <2>1. {p \in Requests \X (1..JobSize) : p[2] <= g[p[1]]} = Requests \X (1..JobSize)
    BY <1>1
  <2>2. Cardinality(1..JobSize) = JobSize /\ IsFiniteSet(1..JobSize)
    BY <1>1, FS_Interval
  <2> QED BY <2>1, <2>2, FS_Product DEF Sum, LimitAssumption
<1>4. \A q \in Requests : f[q] <= h[q]
  BY <1>1
<1> HIDE DEF g, h
<1>5. Sum(h) = Sum(g) + n - JobSize
  BY <1>2, SumAt
<1>6. Sum(f) <= Sum(h) /\ Sum(f) \in Nat /\ Sum(h) \in Nat
  BY <1>2, <1>4, SumUpTo, SumAt
<1>7. \A k, j \in Nat : k * j - j = (k - 1) * j
  OBVIOUS
<1>8. Cardinality(Requests) * JobSize - JobSize = (Cardinality(Requests) - 1) * JobSize
  BY <1>1, <1>7
<1>9. \A k \in Nat, j \in Nat : k * j \in Nat /\ (k - 1) * j \in Int
  OBVIOUS
<1> QED BY <1>1, <1>3, <1>5, <1>6, <1>8, <1>9

\* A set that a step changes at one element.
LEMMA CountAt ==
  ASSUME NEW S, NEW T, IsFiniteSet(S), IsFiniteSet(T), NEW r, S \ {r} = T \ {r}
  PROVE  /\ Cardinality(S) \in Nat /\ Cardinality(T) \in Nat
         /\ Cardinality(T) = Cardinality(S) + (IF r \in T THEN 1 ELSE 0) - (IF r \in S THEN 1 ELSE 0)
<1>1. Cardinality(S) \in Nat /\ Cardinality(T) \in Nat
  BY FS_CardinalityType
<1>2. /\ Cardinality(S \ {r}) = IF r \in S THEN Cardinality(S) - 1 ELSE Cardinality(S)
      /\ Cardinality(T \ {r}) = IF r \in T THEN Cardinality(T) - 1 ELSE Cardinality(T)
  BY FS_RemoveElement
<1> QED BY <1>1, <1>2

-----------------------------------------------------------------------------
(* The daily limit.  What a request in flight holds: letters whose         *)
(* cancellation is to be counted, rows it may still save, and the row it   *)
(* has saved and not yet counted.                                          *)

Entry == [pc : Pcs, n : 0..JobSize, on : Dates]
CancelOf(e, d) == IF e.pc \in {"adjust", "decr"} /\ e.on = d THEN e.n ELSE 0
ReservedOf(e) == IF e.pc \in {"zero", "save", "get", "one", "incr"} THEN e.n ELSE 0
PendingOf(e, d) == IF e.pc \in {"get", "incr", "one"} /\ e.on = d THEN 1 ELSE 0
ClaimOf(e, d) == ReservedOf(e) + PendingOf(e, d)

Cancelling(d) == Sum([r \in Requests |-> CancelOf(request[r], d)])
Reserved == Sum([r \in Requests |-> ReservedOf(request[r])])
Claimed(d) == Sum([r \in Requests |-> ClaimOf(request[r], d)])
Total(d) == (IF counter[d] = NoKey THEN 0 ELSE counter[d]) + missed[d]
Spare == (Cardinality(Requests) - 1) * JobSize
Room == Limit + Spare

RequestRight(r) ==
  LET e == request[r] IN
  /\ e.on <= date
  /\ e.pc = "zero" => e.n = Size(r)
  /\ e.pc \in {"save", "adjust", "decr"} => e.n \in 1..Size(r)
  /\ e.pc \in {"get", "one", "incr"} => e.n < Size(r)
  /\ e.pc \in {"incr", "decr"} => counter[e.on] # NoKey

KeyRight(d) ==
  d > date => counter[d] = NoKey /\ made[d] = 0 /\ missed[d] = 0

\* The rows of the day are counted, are being counted, or were missed; those that
\* requests may still save are within what they have claimed; and both together are
\* within what one accepted request and all the others may add.
NowRight(d) ==
  /\ made[d] + Cancelling(d) <= Total(d) + RowsPending(d)
  /\ made[d] + Cancelling(d) + Reserved <= Total(d) + Claimed(d)
  /\ made[d] + Reserved <= Room + missed[d]
PastRight(d) ==
  /\ made[d] + Cancelling(d) <= Total(d) + Cardinality(Requests)
  /\ made[d] <= Room + missed[d]
DayRight(d) == (d = date => NowRight(d)) /\ (d < date => PastRight(d))

\* A limit below every request lets nothing in.
Barred == \A r \in Requests : Size(r) > Limit
NothingIn ==
  /\ \A r \in Requests : request[r].pc \in {"free", "zero"}
  /\ \A d \in Dates : made[d] = 0 /\ counter[d] \in {NoKey, 0} /\ missed[d] = 0

LimitHeld ==
  /\ LimitTypeOK
  /\ \A d \in Dates : KeyRight(d)
  /\ \A r \in Requests : RequestRight(r)
  /\ IF Barred THEN NothingIn ELSE \A d \in Dates : DayRight(d)

Fits(e) == e.pc \in {"get", "one", "incr"} => e.n < JobSize

LEMMA SizeType ==
  ASSUME LimitAssumption, NEW r \in Requests
  PROVE  Size(r) \in 1..JobSize /\ JobSize \in Nat /\ Limit \in Nat
BY DEF LimitAssumption, Size

LEMMA EntryShares ==
  ASSUME LimitAssumption, NEW e \in Entry, Fits(e), NEW d
  PROVE  /\ CancelOf(e, d) \in 0..JobSize
         /\ ReservedOf(e) \in 0..JobSize
         /\ PendingOf(e, d) \in 0..1
         /\ ClaimOf(e, d) \in 0..JobSize
BY DEF LimitAssumption, Entry, Fits, CancelOf, ReservedOf, PendingOf, ClaimOf

LEMMA AllFit ==
  ASSUME LimitAssumption, LimitTypeOK, \A r \in Requests : RequestRight(r), NEW r \in Requests
  PROVE  request[r] \in Entry /\ Fits(request[r])
BY SizeType DEF LimitTypeOK, RequestRight, Entry, Fits

\* What the sums are, and what a step of one request changes in them.
LEMMA SharesMove ==
  ASSUME LimitAssumption, request \in [Requests -> Entry], \A q \in Requests : Fits(request[q]),
         NEW r \in Requests, NEW e \in Entry, Fits(e),
         request' = [request EXCEPT ![r] = e], NEW d
  PROVE  /\ Cancelling(d)' = Cancelling(d) + CancelOf(e, d) - CancelOf(request[r], d)
         /\ Reserved' = Reserved + ReservedOf(e) - ReservedOf(request[r])
         /\ Claimed(d)' = Claimed(d) + ClaimOf(e, d) - ClaimOf(request[r], d)
         /\ RowsPending(d)' = RowsPending(d) + PendingOf(e, d) - PendingOf(request[r], d)
<1>1. \A q \in Requests : request[q] \in Entry /\ Fits(request[q])
  OBVIOUS
<1>2. /\ request'[r] = e /\ \A q \in Requests \ {r} : request'[q] = request[q]
      /\ \A q \in Requests : request'[q] \in Entry /\ Fits(request'[q])
  BY <1>1
<1>3. Cancelling(d)' = Cancelling(d) + CancelOf(e, d) - CancelOf(request[r], d)
  <2> DEFINE f == [q \in Requests |-> CancelOf(request[q], d)]
             g == [q \in Requests |-> CancelOf(request'[q], d)]
  <2>1. /\ f \in [Requests -> 0..JobSize] /\ g \in [Requests -> 0..JobSize]
        /\ f[r] = CancelOf(request[r], d) /\ g[r] = CancelOf(e, d)
        /\ \A q \in Requests \ {r} : g[q] = f[q]
    BY <1>1, <1>2, EntryShares
  <2>2. Cancelling(d) = Sum(f) /\ Cancelling(d)' = Sum(g)
    BY DEF Cancelling
  <2> HIDE DEF f, g
  <2>3. Sum(g) = Sum(f) + g[r] - f[r]
    BY <2>1, SumAt
  <2> QED BY <2>1, <2>2, <2>3
<1>4. Reserved' = Reserved + ReservedOf(e) - ReservedOf(request[r])
  <2> DEFINE f == [q \in Requests |-> ReservedOf(request[q])]
             g == [q \in Requests |-> ReservedOf(request'[q])]
  <2>1. /\ f \in [Requests -> 0..JobSize] /\ g \in [Requests -> 0..JobSize]
        /\ f[r] = ReservedOf(request[r]) /\ g[r] = ReservedOf(e)
        /\ \A q \in Requests \ {r} : g[q] = f[q]
    BY <1>1, <1>2, EntryShares
  <2>2. Reserved = Sum(f) /\ Reserved' = Sum(g)
    BY DEF Reserved
  <2> HIDE DEF f, g
  <2>3. Sum(g) = Sum(f) + g[r] - f[r]
    BY <2>1, SumAt
  <2> QED BY <2>1, <2>2, <2>3
<1>5. Claimed(d)' = Claimed(d) + ClaimOf(e, d) - ClaimOf(request[r], d)
  <2> DEFINE f == [q \in Requests |-> ClaimOf(request[q], d)]
             g == [q \in Requests |-> ClaimOf(request'[q], d)]
  <2>1. /\ f \in [Requests -> 0..JobSize] /\ g \in [Requests -> 0..JobSize]
        /\ f[r] = ClaimOf(request[r], d) /\ g[r] = ClaimOf(e, d)
        /\ \A q \in Requests \ {r} : g[q] = f[q]
    BY <1>1, <1>2, EntryShares
  <2>2. Claimed(d) = Sum(f) /\ Claimed(d)' = Sum(g)
    BY DEF Claimed
  <2> HIDE DEF f, g
  <2>3. Sum(g) = Sum(f) + g[r] - f[r]
    BY <2>1, SumAt
  <2> QED BY <2>1, <2>2, <2>3
<1>6. RowsPending(d)' = RowsPending(d) + PendingOf(e, d) - PendingOf(request[r], d)
  <2> DEFINE S == {q \in Requests : request[q].pc \in {"get", "incr", "one"} /\ request[q].on = d}
             T == {q \in Requests : request'[q].pc \in {"get", "incr", "one"} /\ request'[q].on = d}
  <2>1. IsFiniteSet(S) /\ IsFiniteSet(T)
    BY FS_Subset DEF LimitAssumption
  <2>2. S \ {r} = T \ {r}
    BY <1>2
  <2>3. /\ PendingOf(request[r], d) = IF r \in S THEN 1 ELSE 0
        /\ PendingOf(e, d) = IF r \in T THEN 1 ELSE 0
    BY <1>2 DEF PendingOf
  <2>4. RowsPending(d) = Cardinality(S) /\ RowsPending(d)' = Cardinality(T)
    BY DEF RowsPending
  <2> HIDE DEF S, T
  <2> QED BY <2>1, <2>2, <2>3, <2>4, CountAt
<1> QED BY <1>3, <1>4, <1>5, <1>6

\* Their bounds.
LEMMA SharesBounded ==
  ASSUME LimitAssumption, request \in [Requests -> Entry], \A q \in Requests : Fits(request[q]), NEW d
  PROVE  /\ Cancelling(d) \in Nat /\ Reserved \in Nat /\ Claimed(d) \in Nat
         /\ RowsPending(d) \in 0..Cardinality(Requests)
         /\ CancelsPending(d) \in Nat /\ CancelsPending(d) <= Cancelling(d)
         /\ Spare \in Nat /\ Cardinality(Requests) \in 1..(Spare + 1)
         /\ \A r \in Requests : \A n \in 0..JobSize :
              /\ ReservedOf(request[r]) <= n => Reserved <= n + Spare
              /\ ClaimOf(request[r], d) <= n => Claimed(d) <= n + Spare
<1>1. \A q \in Requests : request[q] \in Entry /\ Fits(request[q])
  OBVIOUS
<1>2. PICK r0 \in Requests : TRUE
  BY DEF LimitAssumption
<1>3. JobSize \in Nat \ {0} /\ JobSize \in 0..JobSize
  BY DEF LimitAssumption
<1>4. Spare \in Nat /\ Cardinality(Requests) \in 1..(Spare + 1)
  <2>1. Cardinality(Requests) \in Nat /\ Cardinality(Requests) # 0
    BY FS_CardinalityType, FS_EmptySet DEF LimitAssumption
  <2>2. \A k \in Nat \ {0}, j \in Nat \ {0} : (k - 1) * j \in Nat /\ k <= (k - 1) * j + 1
    <3> SUFFICES ASSUME NEW k \in Nat \ {0}, NEW j \in Nat \ {0}
                 PROVE  (k - 1) * j \in Nat /\ k <= (k - 1) * j + 1
      OBVIOUS
    <3>1. (k - 1) * j = (k - 1) * (j - 1) + (k - 1)
      OBVIOUS
    <3>2. k - 1 \in Nat /\ j - 1 \in Nat
      OBVIOUS
    <3>3. (k - 1) * (j - 1) \in Nat
      BY <3>2
    <3> QED BY <3>1, <3>2, <3>3
  <2> QED BY <1>3, <2>1, <2>2 DEF Spare
<1>5. Cancelling(d) \in Nat /\ CancelsPending(d) \in Nat /\ CancelsPending(d) <= Cancelling(d)
  <2> DEFINE f == [q \in Requests |-> CancelOf(request[q], d)]
             F == {p \in Requests \X (1..JobSize) : p[2] <= f[p[1]]}
             G == {p \in Requests \X (1..JobSize) :
                     LET e == request[p[1]] IN e.pc = "decr" /\ e.on = d /\ p[2] <= e.n}
  <2>1. f \in [Requests -> 0..JobSize]
    BY <1>1, EntryShares
  <2>2. Cancelling(d) = Sum(f) /\ CancelsPending(d) = Cardinality(G)
    BY DEF Cancelling, CancelsPending
  <2>3. G \subseteq F
    BY DEF CancelOf
  <2>4. F \subseteq Requests \X (1..JobSize)
    OBVIOUS
  <2>5. IsFiniteSet(F)
    BY <2>4, PairsFinite, FS_Subset
  <2>6. Sum(f) = Cardinality(F)
    BY DEF Sum
  <2> HIDE DEF f, F, G
  <2>7. IsFiniteSet(G) /\ Cardinality(G) <= Cardinality(F)
    BY <2>3, <2>5, FS_Subset
  <2>8. Cardinality(G) \in Nat /\ Cardinality(F) \in Nat
    BY <2>5, <2>7, FS_CardinalityType
  <2> QED BY <2>2, <2>6, <2>7, <2>8
<1>6. RowsPending(d) \in 0..Cardinality(Requests)
  <2> DEFINE S == {q \in Requests : request[q].pc \in {"get", "incr", "one"} /\ request[q].on = d}
  <2>1. IsFiniteSet(Requests) /\ S \subseteq Requests
    BY DEF LimitAssumption
  <2>2. IsFiniteSet(S) /\ Cardinality(S) <= Cardinality(Requests)
    BY <2>1, FS_Subset
  <2>3. Cardinality(S) \in Nat /\ Cardinality(Requests) \in Nat
    BY <2>1, <2>2, FS_CardinalityType
  <2> QED BY <2>2, <2>3 DEF RowsPending
<1>7. /\ Reserved \in Nat
      /\ \A r \in Requests : \A n \in 0..JobSize :
           ReservedOf(request[r]) <= n => Reserved <= n + Spare
  <2> DEFINE f == [q \in Requests |-> ReservedOf(request[q])]
  <2>1. f \in [Requests -> 0..JobSize] /\ \A q \in Requests : f[q] = ReservedOf(request[q])
    BY <1>1, EntryShares
  <2>2. Reserved = Sum(f)
    BY DEF Reserved
  <2> HIDE DEF f
  <2>3. \A r \in Requests : \A n \in 0..JobSize :
          f[r] <= n => Sum(f) \in Nat /\ Sum(f) <= n + Spare
    BY <2>1, SumLimit DEF Spare
  <2>4. f[r0] <= JobSize
    BY <1>3, <2>1
  <2> QED BY <1>2, <1>3, <2>1, <2>2, <2>3, <2>4
<1>8. /\ Claimed(d) \in Nat
      /\ \A r \in Requests : \A n \in 0..JobSize :
           ClaimOf(request[r], d) <= n => Claimed(d) <= n + Spare
  <2> DEFINE f == [q \in Requests |-> ClaimOf(request[q], d)]
  <2>1. f \in [Requests -> 0..JobSize] /\ \A q \in Requests : f[q] = ClaimOf(request[q], d)
    BY <1>1, EntryShares
  <2>2. Claimed(d) = Sum(f)
    BY DEF Claimed
  <2> HIDE DEF f
  <2>3. \A r \in Requests : \A n \in 0..JobSize :
          f[r] <= n => Sum(f) \in Nat /\ Sum(f) <= n + Spare
    BY <2>1, SumLimit DEF Spare
  <2>4. f[r0] <= JobSize
    BY <1>3, <2>1
  <2> QED BY <1>2, <1>3, <2>1, <2>2, <2>3, <2>4
<1> QED BY <1>4, <1>5, <1>6, <1>7, <1>8

\* What is left to show of a step that moves one request.
LEMMA LimitFrame ==
  ASSUME LimitAssumption, LimitHeld, NEW r \in Requests, NEW e \in Entry,
         request' = [request EXCEPT ![r] = e], date' = date,
         counter' \in [Dates -> {NoKey} \cup Int], made' \in [Dates -> Nat], missed' \in [Dates -> Int],
         \A d \in Dates : counter[d] # NoKey => counter'[d] # NoKey,
         RequestRight(r)', \A d \in Dates : KeyRight(d)',
         Barred => NothingIn', ~Barred => \A d \in Dates : DayRight(d)'
  PROVE  LimitHeld'
<1>1. LimitTypeOK /\ LimitTypeOK'
  BY DEF LimitHeld, LimitTypeOK, Entry
<1>2. ASSUME NEW q \in Requests PROVE RequestRight(q)'
  <2>1. CASE q = r
    BY <2>1
  <2>2. CASE q # r
    <3>1. request'[q] = request[q] /\ RequestRight(q) /\ request[q].on \in Dates
      BY <1>1, <2>2 DEF LimitHeld, LimitTypeOK
    <3> QED BY <3>1 DEF RequestRight
  <2> QED BY <2>1, <2>2
<1>3. Barred' <=> Barred
  BY DEF Barred, Size
<1> QED BY <1>1, <1>2, <1>3 DEF LimitHeld

\* What is known of the day of a date before such a step.
LEMMA LimitFacts ==
  ASSUME LimitAssumption, LimitHeld
  PROVE  /\ LimitTypeOK
         /\ request \in [Requests -> Entry]
         /\ \A r \in Requests : RequestRight(r) /\ request[r] \in Entry /\ Fits(request[r])
         /\ \A d \in Dates : KeyRight(d)
         /\ Barred => NothingIn
         /\ ~Barred => \A d \in Dates : DayRight(d)
<1>1. LimitTypeOK /\ \A r \in Requests : RequestRight(r)
  BY DEF LimitHeld
<1>2. \A r \in Requests : request[r] \in Entry /\ Fits(request[r])
  BY <1>1, AllFit
<1>3. request \in [Requests -> Entry]
  BY <1>1 DEF LimitTypeOK, Entry
<1> QED BY <1>1, <1>2, <1>3 DEF LimitHeld

\* With some request within the limit, what all may claim is within the room.
LEMMA RoomForAll ==
  ASSUME LimitAssumption, LimitHeld, ~Barred, NEW d \in Dates
  PROVE  /\ Cancelling(d) \in Nat /\ Reserved \in Nat /\ Claimed(d) \in Nat
         /\ RowsPending(d) \in 0..Cardinality(Requests)
         /\ Spare \in Nat /\ Room \in Nat /\ Cardinality(Requests) \in 1..Room
         /\ Reserved <= Room /\ Claimed(d) <= Room
         /\ Total(d) \in Int /\ made[d] \in Nat /\ missed[d] \in Int
<1>0. /\ LimitTypeOK /\ request \in [Requests -> Entry]
      /\ \A r \in Requests : RequestRight(r) /\ request[r] \in Entry /\ Fits(request[r])
  BY LimitFacts
<1>1. PICK r \in Requests : ~(Size(r) > Limit)
  BY DEF Barred
<1>2. Size(r) \in 1..JobSize /\ JobSize \in Nat /\ Limit \in Nat /\ Size(r) <= Limit
  BY <1>1, SizeType
<1>3. ReservedOf(request[r]) <= Size(r) /\ ClaimOf(request[r], d) <= Size(r)
  BY <1>0, <1>2 DEF RequestRight, Entry, ReservedOf, ClaimOf, PendingOf
<1>4. /\ Cancelling(d) \in Nat /\ Reserved \in Nat /\ Claimed(d) \in Nat
      /\ RowsPending(d) \in 0..Cardinality(Requests)
      /\ Spare \in Nat /\ Cardinality(Requests) \in 1..(Spare + 1)
      /\ \A q \in Requests : \A n \in 0..JobSize :
           /\ ReservedOf(request[q]) <= n => Reserved <= n + Spare
           /\ ClaimOf(request[q], d) <= n => Claimed(d) <= n + Spare
  BY <1>0, SharesBounded
<1>5. Reserved <= Size(r) + Spare /\ Claimed(d) <= Size(r) + Spare
  BY <1>2, <1>3, <1>4
<1>6. Room \in Nat /\ Reserved <= Room /\ Claimed(d) <= Room /\ Cardinality(Requests) \in 1..Room
  BY <1>2, <1>4, <1>5 DEF Room
<1>7. Total(d) \in Int /\ made[d] \in Nat /\ missed[d] \in Int
  BY <1>0 DEF LimitTypeOK, Total
<1> QED BY <1>4, <1>6, <1>7

\* ... and after a step of a request that claims no more than its size.
LEMMA RoomAfter ==
  ASSUME LimitAssumption, LimitHeld, ~Barred, NEW d \in Dates,
         NEW r \in Requests, NEW e \in Entry, Fits(e),
         request' = [request EXCEPT ![r] = e], ClaimOf(e, d) <= Size(r)
  PROVE  Claimed(d)' \in Nat /\ Claimed(d)' <= Room
<1>0. /\ request \in [Requests -> Entry]
      /\ \A q \in Requests : RequestRight(q) /\ request[q] \in Entry /\ Fits(request[q])
  BY LimitFacts
<1>1. PICK r0 \in Requests : ~(Size(r0) > Limit)
  BY DEF Barred
<1>2. Size(r0) \in 1..JobSize /\ JobSize \in Nat /\ Limit \in Nat /\ Size(r0) <= Limit
  BY <1>1, SizeType
<1>3. ClaimOf(request[r0], d) <= Size(r0)
  BY <1>0, <1>2 DEF RequestRight, Entry, ReservedOf, ClaimOf, PendingOf
<1> DEFINE f == [q \in Requests |-> ClaimOf(request'[q], d)]
<1>4. \A q \in Requests : request'[q] = IF q = r THEN e ELSE request[q]
  BY <1>0
<1>5. f \in [Requests -> 0..JobSize] /\ f[r0] <= Size(r0)
  BY <1>0, <1>3, <1>4, EntryShares
<1>6. Claimed(d)' = Sum(f)
  BY DEF Claimed
<1> HIDE DEF f
<1>7. Sum(f) \in Nat /\ Sum(f) <= Size(r0) + Spare
  BY <1>2, <1>5, SumLimit DEF Spare
<1>8. Spare \in Nat
  BY <1>0, SharesBounded
<1> QED BY <1>2, <1>6, <1>7, <1>8 DEF Room

\* The day of a date after a step of one request, from what the step does to the
\* rows and to the counter.
LEMMA DayAfter ==
  ASSUME LimitAssumption, LimitHeld, ~Barred, NEW d \in Dates, date \in Dates, date' = date,
         NEW r \in Requests, NEW e \in Entry, Fits(e), request' = [request EXCEPT ![r] = e],
         made'[d] \in Nat, missed'[d] \in Int, Total(d)' \in Int,
         d = date =>
           /\ made'[d] - made[d] + CancelOf(e, d) - CancelOf(request[r], d)
                <= Total(d)' - Total(d) + PendingOf(e, d) - PendingOf(request[r], d)
           /\ made'[d] + Reserved' <= Room + missed'[d],
         d < date =>
           /\ made'[d] - made[d] + CancelOf(e, d) - CancelOf(request[r], d) <= Total(d)' - Total(d)
           /\ made'[d] <= Room + missed'[d]
  PROVE  DayRight(d)'
<1>0. /\ request \in [Requests -> Entry]
      /\ \A q \in Requests : RequestRight(q) /\ request[q] \in Entry /\ Fits(request[q])
      /\ DayRight(d)
  BY LimitFacts
<1>1. /\ Cancelling(d) \in Nat /\ Reserved \in Nat /\ Claimed(d) \in Nat
      /\ RowsPending(d) \in 0..Cardinality(Requests)
      /\ Spare \in Nat /\ Room \in Nat /\ Cardinality(Requests) \in 1..Room
      /\ Reserved <= Room /\ Claimed(d) <= Room
      /\ Total(d) \in Int /\ made[d] \in Nat /\ missed[d] \in Int
  BY RoomForAll
<1>2. /\ Cancelling(d)' = Cancelling(d) + CancelOf(e, d) - CancelOf(request[r], d)
      /\ Reserved' = Reserved + ReservedOf(e) - ReservedOf(request[r])
      /\ Claimed(d)' = Claimed(d) + ClaimOf(e, d) - ClaimOf(request[r], d)
      /\ RowsPending(d)' = RowsPending(d) + PendingOf(e, d) - PendingOf(request[r], d)
  BY <1>0, SharesMove
<1>3. /\ CancelOf(e, d) \in 0..JobSize /\ ReservedOf(e) \in 0..JobSize /\ PendingOf(e, d) \in 0..1
      /\ CancelOf(request[r], d) \in 0..JobSize /\ ReservedOf(request[r]) \in 0..JobSize
      /\ PendingOf(request[r], d) \in 0..1 /\ JobSize \in Nat
      /\ ClaimOf(e, d) = ReservedOf(e) + PendingOf(e, d)
      /\ ClaimOf(request[r], d) = ReservedOf(request[r]) + PendingOf(request[r], d)
  BY <1>0, EntryShares DEF ClaimOf, LimitAssumption
<1>4. d \in Int /\ date \in Int /\ Room' = Room
  BY DEF Dates, Room, Spare
<1>5. ASSUME d = date PROVE NowRight(d)'
  <2>1. /\ made[d] + Cancelling(d) <= Total(d) + RowsPending(d)
        /\ made[d] + Cancelling(d) + Reserved <= Total(d) + Claimed(d)
    BY <1>0, <1>5 DEF DayRight, NowRight
  <2>2. made'[d] + Cancelling(d)' <= Total(d)' + RowsPending(d)'
    BY <1>1, <1>2, <1>3, <1>5, <2>1
  <2>3. made'[d] + Cancelling(d)' + Reserved' <= Total(d)' + Claimed(d)'
    BY <1>1, <1>2, <1>3, <1>5, <2>1
  <2> QED BY <1>4, <1>5, <2>2, <2>3 DEF NowRight
<1>6. ASSUME d < date PROVE PastRight(d)'
  <2>1. made[d] + Cancelling(d) <= Total(d) + Cardinality(Requests)
    BY <1>0, <1>6 DEF DayRight, PastRight
  <2>2. made'[d] + Cancelling(d)' <= Total(d)' + Cardinality(Requests)
    BY <1>1, <1>2, <1>3, <1>6, <2>1
  <2> QED BY <1>4, <1>6, <2>2 DEF PastRight
<1> QED BY <1>4, <1>5, <1>6 DEF DayRight

LEMMA CheckLimitKeeps ==
  ASSUME LimitAssumption, LimitHeld, NEW r \in Requests, CheckLimit(r, Size(r))
  PROVE  LimitHeld'
<1>0. /\ LimitTypeOK /\ request \in [Requests -> Entry]
      /\ \A q \in Requests : RequestRight(q) /\ request[q] \in Entry /\ Fits(request[q])
      /\ \A d \in Dates : KeyRight(d)
      /\ Barred => NothingIn
      /\ ~Barred => \A d \in Dates : DayRight(d)
  BY LimitFacts
<1>1. /\ request[r].pc = "free"
      /\ counter' = counter /\ made' = made /\ date' = date /\ missed' = missed
  BY DEF CheckLimit
<1>2. /\ Size(r) \in 1..JobSize /\ JobSize \in Nat /\ Limit \in Nat
      /\ date \in Dates /\ 0 \in Dates /\ 0 <= date /\ date \in Int
  BY <1>0, SizeType DEF LimitTypeOK, Dates, LimitAssumption
<1>3. PICK e \in Entry :
        /\ request' = [request EXCEPT ![r] = e] /\ Fits(e)
        /\ \/ counter[date] = NoKey /\ e = [pc |-> "zero", n |-> Size(r), on |-> date]
           \/ e = [pc |-> "free", n |-> 0, on |-> 0]
           \/ /\ counter[date] # NoKey /\ ~(counter[date] + Size(r) > Limit)
              /\ e = [pc |-> "save", n |-> Size(r), on |-> 0]
  <2> DEFINE E == IF counter[date] = NoKey THEN [pc |-> "zero", n |-> Size(r), on |-> date]
                  ELSE IF OverLimit(counter[date], Size(r)) THEN FreeRequest ELSE Accepted(Size(r))
  <2>1. request' = [request EXCEPT ![r] = E]
    BY DEF CheckLimit
  <2>2. E \in Entry /\ Fits(E)
    BY <1>2 DEF Entry, Fits, Pcs, FreeRequest, Accepted
  <2>3. \/ counter[date] = NoKey /\ E = [pc |-> "zero", n |-> Size(r), on |-> date]
        \/ E = [pc |-> "free", n |-> 0, on |-> 0]
        \/ /\ counter[date] # NoKey /\ ~(counter[date] + Size(r) > Limit)
           /\ E = [pc |-> "save", n |-> Size(r), on |-> 0]
    BY DEF FreeRequest, Accepted, OverLimit
  <2> HIDE DEF E
  <2> QED BY <2>1, <2>2, <2>3
<1>4. request'[r] = e
  BY <1>0, <1>3
<1>5. RequestRight(r)'
  BY <1>1, <1>2, <1>3, <1>4 DEF RequestRight
<1>6. \A d \in Dates : KeyRight(d)'
  BY <1>0, <1>1 DEF KeyRight
<1>7. ASSUME Barred PROVE NothingIn'
  <2>1. NothingIn /\ Size(r) > Limit
    BY <1>0, <1>7 DEF Barred
  <2>2. counter[date] \in {NoKey, 0}
    BY <1>2, <2>1 DEF NothingIn
  <2>3. e.pc \in {"free", "zero"}
    BY <1>2, <1>3, <2>1, <2>2
  <2>4. \A q \in Requests : request'[q].pc \in {"free", "zero"}
    BY <1>0, <1>3, <2>1, <2>3 DEF NothingIn
  <2> QED BY <1>1, <2>1, <2>4 DEF NothingIn
<1>8. ASSUME ~Barred, NEW d \in Dates PROVE DayRight(d)'
  <2>1. DayRight(d) /\ KeyRight(d)
    BY <1>0, <1>8
  <2>2. /\ Cancelling(d) \in Nat /\ Reserved \in Nat /\ Claimed(d) \in Nat
        /\ Spare \in Nat /\ Room \in Nat
        /\ Total(d) \in Int /\ made[d] \in Nat /\ missed[d] \in Int
    BY <1>8, RoomForAll
  <2>3. /\ Reserved' = Reserved + ReservedOf(e) - ReservedOf(request[r])
        /\ Claimed(d)' = Claimed(d) + ClaimOf(e, d) - ClaimOf(request[r], d)
    BY <1>0, <1>3, SharesMove
  <2>4. /\ CancelOf(request[r], d) = 0 /\ ReservedOf(request[r]) = 0
        /\ ClaimOf(request[r], d) = 0 /\ PendingOf(request[r], d) = 0
    BY <1>1 DEF CancelOf, ReservedOf, ClaimOf, PendingOf
  <2>5. /\ CancelOf(e, d) = 0 /\ PendingOf(e, d) = 0
        /\ ClaimOf(e, d) = ReservedOf(e) /\ ReservedOf(e) \in 0..Size(r)
    BY <1>2, <1>3 DEF CancelOf, ReservedOf, ClaimOf, PendingOf
  <2>6. Claimed(d) <= Spare
    BY <1>0, <1>2, <2>2, <2>4, SharesBounded
  <2>7. Total(d)' = Total(d) /\ made'[d] = made[d] /\ missed'[d] = missed[d]
    BY <1>1 DEF Total
  <2>8. ASSUME d = date PROVE made'[d] + Reserved' <= Room + missed'[d]
    <3>1. /\ made[d] + Cancelling(d) + Reserved <= Total(d) + Claimed(d)
          /\ made[d] + Reserved <= Room + missed[d]
      BY <2>1, <2>8 DEF DayRight, NowRight
    <3>2. CASE e.pc = "free"
      <4>1. ReservedOf(e) = 0
        BY <3>2 DEF ReservedOf
      <4> QED BY <2>2, <2>3, <2>4, <2>7, <3>1, <4>1
    <3>3. CASE e.pc = "save"
      <4>1. counter[d] \in Int /\ counter[d] + Size(r) <= Limit /\ ReservedOf(e) = Size(r)
        BY <1>0, <1>2, <1>3, <2>8, <3>3 DEF LimitTypeOK, ReservedOf
      <4>2. Total(d) + Size(r) <= Limit + missed[d]
        BY <1>2, <2>2, <4>1 DEF Total, LimitAssumption
      <4> QED BY <1>2, <2>2, <2>3, <2>4, <2>6, <2>7, <3>1, <4>1, <4>2 DEF Room
    <3>4. CASE e.pc = "zero"
      <4>1. Total(d) = missed[d]
        BY <1>3, <2>2, <2>8, <3>4 DEF Total
      <4>2. Claimed(d)' \in Nat /\ Claimed(d)' <= Room
        <5>1. ClaimOf(e, d) <= Size(r)
          BY <1>2, <2>5
        <5> QED BY <1>3, <1>8, <5>1, RoomAfter
      <4> QED BY <1>2, <2>2, <2>3, <2>4, <2>5, <2>7, <3>1, <4>1, <4>2
    <3> QED BY <1>3, <3>2, <3>3, <3>4
  <2>9. d < date => made'[d] <= Room + missed'[d]
    BY <2>1, <2>7 DEF DayRight, PastRight
  <2>10. /\ made'[d] - made[d] + CancelOf(e, d) - CancelOf(request[r], d) <= Total(d)' - Total(d)
         /\ made'[d] - made[d] + CancelOf(e, d) - CancelOf(request[r], d)
              <= Total(d)' - Total(d) + PendingOf(e, d) - PendingOf(request[r], d)
    BY <2>2, <2>4, <2>5, <2>7
  <2> QED BY <1>1, <1>2, <1>3, <1>8, <2>2, <2>7, <2>8, <2>9, <2>10, DayAfter
<1>9. /\ counter' \in [Dates -> {NoKey} \cup Int] /\ made' \in [Dates -> Nat] /\ missed' \in [Dates -> Int]
      /\ \A d \in Dates : counter[d] # NoKey => counter'[d] # NoKey
  BY <1>0, <1>1 DEF LimitTypeOK
<1> QED BY <1>1, <1>3, <1>5, <1>6, <1>7, <1>8, <1>9, LimitFrame

LEMMA SetZeroKeeps ==
  ASSUME LimitAssumption, LimitHeld, NEW r \in Requests, SetZero(r)
  PROVE  LimitHeld'
<1>0. /\ LimitTypeOK /\ request \in [Requests -> Entry]
      /\ \A q \in Requests : RequestRight(q) /\ request[q] \in Entry /\ Fits(request[q])
      /\ \A d \in Dates : KeyRight(d)
      /\ Barred => NothingIn
      /\ ~Barred => \A d \in Dates : DayRight(d)
  BY LimitFacts
<1>1. PICK on \in Dates, n \in 0..JobSize : on = request[r].on /\ n = request[r].n
  BY <1>0 DEF Entry
<1>2. /\ request[r].pc = "zero" /\ made' = made /\ date' = date
      /\ counter' = [counter EXCEPT ![on] = 0]
      /\ missed' = [missed EXCEPT ![on] = IF counter[on] = NoKey THEN missed[on] ELSE missed[on] + counter[on]]
  BY <1>0, <1>1 DEF SetZero, SetKey, LimitTypeOK
<1>3. /\ Size(r) \in 1..JobSize /\ JobSize \in Nat /\ Limit \in Nat /\ n = Size(r)
      /\ date \in Dates /\ 0 \in Dates /\ 0 <= date /\ date \in Int /\ on \in Int /\ on <= date
  <2>1. Size(r) \in 1..JobSize /\ JobSize \in Nat /\ Limit \in Nat
    BY SizeType
  <2>2. n = Size(r) /\ on <= date
    BY <1>0, <1>1, <1>2, <2>1 DEF RequestRight
  <2> QED BY <1>0, <2>1, <2>2 DEF LimitTypeOK, Dates, LimitAssumption
<1>4. PICK e \in Entry :
        /\ request' = [request EXCEPT ![r] = e] /\ Fits(e)
        /\ \/ e = [pc |-> "free", n |-> 0, on |-> 0]
           \/ ~(n > Limit) /\ e = [pc |-> "save", n |-> n, on |-> 0]
  <2> DEFINE E == IF OverLimit(0, n) THEN FreeRequest ELSE Accepted(n)
  <2>1. request' = [request EXCEPT ![r] = E]
    BY <1>0, <1>1 DEF SetZero
  <2>2. E \in Entry /\ Fits(E)
    BY <1>3 DEF Entry, Fits, Pcs, FreeRequest, Accepted
  <2>3. \/ E = [pc |-> "free", n |-> 0, on |-> 0]
        \/ ~(n > Limit) /\ E = [pc |-> "save", n |-> n, on |-> 0]
    BY <1>3 DEF FreeRequest, Accepted, OverLimit
  <2> HIDE DEF E
  <2> QED BY <2>1, <2>2, <2>3
<1>5. request'[r] = e
  BY <1>0, <1>4
<1>6. RequestRight(r)'
  BY <1>2, <1>3, <1>4, <1>5 DEF RequestRight
<1>7. /\ counter'[on] = 0 /\ missed'[on] = Total(on) /\ Total(on)' = Total(on)
      /\ \A d \in Dates \ {on} : counter'[d] = counter[d] /\ missed'[d] = missed[d] /\ Total(d)' = Total(d)
  <2>1. counter'[on] = 0 /\ \A d \in Dates \ {on} : counter'[d] = counter[d] /\ missed'[d] = missed[d]
    BY <1>0, <1>2 DEF LimitTypeOK
  <2>2. missed'[on] = IF counter[on] = NoKey THEN missed[on] ELSE missed[on] + counter[on]
    BY <1>0, <1>2 DEF LimitTypeOK
  <2>3. missed'[on] = Total(on) /\ Total(on) \in Int
    BY <1>0, <2>2 DEF Total, LimitTypeOK
  <2> QED BY <2>1, <2>3 DEF Total, LimitAssumption
<1>8. /\ counter' \in [Dates -> {NoKey} \cup Int] /\ made' \in [Dates -> Nat] /\ missed' \in [Dates -> Int]
      /\ \A d \in Dates : counter[d] # NoKey => counter'[d] # NoKey
  <2>1. missed' \in [Dates -> Int] /\ counter' \in [Dates -> {NoKey} \cup Int]
    BY <1>0, <1>2 DEF LimitTypeOK
  <2> QED BY <1>0, <1>2, <1>7, <2>1 DEF LimitTypeOK, LimitAssumption
<1>9. ASSUME NEW d \in Dates PROVE KeyRight(d)'
  <2>1. KeyRight(d) /\ d \in Int
    BY <1>0 DEF Dates
  <2> QED BY <1>2, <1>3, <1>7, <2>1 DEF KeyRight, LimitAssumption
<1>10. ASSUME Barred PROVE NothingIn'
  <2>1. NothingIn /\ Size(r) > Limit
    BY <1>0, <1>10 DEF Barred
  <2>2. e.pc = "free" /\ Total(on) = 0
    BY <1>3, <1>4, <2>1 DEF NothingIn, Total
  <2>3. \A d \in Dates : made'[d] = 0 /\ counter'[d] \in {NoKey, 0} /\ missed'[d] = 0
    BY <1>2, <1>7, <2>1, <2>2 DEF NothingIn
  <2>4. \A q \in Requests : request'[q].pc \in {"free", "zero"}
    BY <1>0, <1>4, <2>1, <2>2 DEF NothingIn
  <2> QED BY <2>3, <2>4 DEF NothingIn
<1>11. ASSUME ~Barred, NEW d \in Dates PROVE DayRight(d)'
  <2>1. DayRight(d)
    BY <1>0, <1>11
  <2>2. /\ Cancelling(d) \in Nat /\ Reserved \in Nat /\ Claimed(d) \in Nat
        /\ Spare \in Nat /\ Room \in Nat /\ Cardinality(Requests) \in 1..Room /\ Claimed(d) <= Room
        /\ Total(d) \in Int /\ made[d] \in Nat /\ missed[d] \in Int
    BY <1>11, RoomForAll
  <2>3. Reserved' = Reserved + ReservedOf(e) - ReservedOf(request[r])
    BY <1>0, <1>4, SharesMove
  <2>4. /\ CancelOf(request[r], d) = 0 /\ ReservedOf(request[r]) = n /\ PendingOf(request[r], d) = 0
        /\ CancelOf(e, d) = 0 /\ ReservedOf(e) \in 0..n /\ PendingOf(e, d) = 0
    BY <1>1, <1>2, <1>3, <1>4 DEF CancelOf, ReservedOf, PendingOf
  <2>5. Total(d)' = Total(d) /\ made'[d] = made[d] /\ missed'[d] \in Int
        /\ missed'[d] = IF d = on THEN Total(d) ELSE missed[d]
    BY <1>2, <1>7, <1>8
  <2>6. ASSUME d = date PROVE made'[d] + Reserved' <= Room + missed'[d]
    <3>1. /\ made[d] + Cancelling(d) + Reserved <= Total(d) + Claimed(d)
          /\ made[d] + Reserved <= Room + missed[d]
      BY <2>1, <2>6 DEF DayRight, NowRight
    <3> QED BY <1>3, <2>2, <2>3, <2>4, <2>5, <3>1
  <2>7. ASSUME d < date PROVE made'[d] <= Room + missed'[d]
    <3>1. made[d] + Cancelling(d) <= Total(d) + Cardinality(Requests) /\ made[d] <= Room + missed[d]
      BY <2>1, <2>7 DEF DayRight, PastRight
    <3> QED BY <2>2, <2>5, <3>1
  <2>8. /\ made'[d] - made[d] + CancelOf(e, d) - CancelOf(request[r], d) <= Total(d)' - Total(d)
        /\ made'[d] - made[d] + CancelOf(e, d) - CancelOf(request[r], d)
             <= Total(d)' - Total(d) + PendingOf(e, d) - PendingOf(request[r], d)
    BY <2>2, <2>4, <2>5
  <2>9. made'[d] \in Nat /\ Total(d)' \in Int
    BY <2>2, <2>5
  <2> QED BY <1>2, <1>3, <1>4, <1>11, <2>5, <2>6, <2>7, <2>8, <2>9, DayAfter
<1> QED BY <1>2, <1>4, <1>6, <1>8, <1>9, <1>10, <1>11, LimitFrame

LEMMA SaveRequestKeeps ==
  ASSUME LimitAssumption, LimitHeld, NEW r \in Requests, SaveRequest(r)
  PROVE  LimitHeld'
<1>0. /\ LimitTypeOK /\ request \in [Requests -> Entry]
      /\ \A q \in Requests : RequestRight(q) /\ request[q] \in Entry /\ Fits(request[q])
      /\ \A d \in Dates : KeyRight(d)
      /\ Barred => NothingIn
      /\ ~Barred => \A d \in Dates : DayRight(d)
  BY LimitFacts
<1>1. PICK on \in Dates, n \in 0..JobSize : on = request[r].on /\ n = request[r].n
  BY <1>0 DEF Entry
<1>2. /\ request[r].pc = "save" /\ counter' = counter /\ date' = date /\ missed' = missed
      /\ made' = [made EXCEPT ![date] = made[date] + 1]
  BY <1>0 DEF SaveRequest, LimitTypeOK
<1>3. /\ Size(r) \in 1..JobSize /\ JobSize \in Nat /\ Limit \in Nat /\ n \in 1..Size(r)
      /\ date \in Dates /\ 0 \in Dates /\ 0 <= date /\ date \in Int /\ on \in Int /\ on <= date
  <2>1. Size(r) \in 1..JobSize /\ JobSize \in Nat /\ Limit \in Nat
    BY SizeType
  <2>2. n \in 1..Size(r) /\ on <= date
    BY <1>0, <1>1, <1>2, <2>1 DEF RequestRight
  <2> QED BY <1>0, <2>1, <2>2 DEF LimitTypeOK, Dates, LimitAssumption
<1>4. PICK e \in Entry :
        request' = [request EXCEPT ![r] = e] /\ Fits(e) /\ e = [pc |-> "get", n |-> n - 1, on |-> date]
  <2> DEFINE E == [pc |-> "get", n |-> n - 1, on |-> date]
  <2>1. request' = [request EXCEPT ![r] = E]
    BY <1>0, <1>1 DEF SaveRequest
  <2>2. E \in Entry /\ Fits(E)
    BY <1>3 DEF Entry, Fits, Pcs
  <2> QED BY <2>1, <2>2
<1>5. request'[r] = e
  BY <1>0, <1>4
<1>6. RequestRight(r)'
  BY <1>2, <1>3, <1>4, <1>5 DEF RequestRight
<1>7. made'[date] = made[date] + 1 /\ \A d \in Dates \ {date} : made'[d] = made[d]
  BY <1>0, <1>2 DEF LimitTypeOK
<1>8. /\ counter' \in [Dates -> {NoKey} \cup Int] /\ made' \in [Dates -> Nat] /\ missed' \in [Dates -> Int]
      /\ \A d \in Dates : counter[d] # NoKey => counter'[d] # NoKey
  BY <1>0, <1>2 DEF LimitTypeOK
<1>9. ASSUME NEW d \in Dates PROVE KeyRight(d)'
  <2>1. KeyRight(d) /\ d \in Int
    BY <1>0 DEF Dates
  <2> QED BY <1>0, <1>2, <1>3, <1>7, <2>1 DEF KeyRight, LimitAssumption, LimitTypeOK
<1>10. ~Barred
  <2>1. NothingIn => request[r].pc \in {"free", "zero"}
    BY DEF NothingIn
  <2> QED BY <1>0, <1>2, <2>1
<1>11. ASSUME NEW d \in Dates PROVE DayRight(d)'
  <2>1. DayRight(d)
    BY <1>0, <1>10
  <2>2. /\ Cancelling(d) \in Nat /\ Reserved \in Nat /\ Claimed(d) \in Nat
        /\ Spare \in Nat /\ Room \in Nat /\ Cardinality(Requests) \in 1..Room /\ Claimed(d) <= Room
        /\ Total(d) \in Int /\ made[d] \in Nat /\ missed[d] \in Int
    BY <1>10, RoomForAll
  <2>3. Reserved' = Reserved + ReservedOf(e) - ReservedOf(request[r])
    BY <1>0, <1>4, SharesMove
  <2>4. /\ CancelOf(request[r], d) = 0 /\ ReservedOf(request[r]) = n /\ PendingOf(request[r], d) = 0
        /\ CancelOf(e, d) = 0 /\ ReservedOf(e) = n - 1
        /\ PendingOf(e, d) = IF d = date THEN 1 ELSE 0
    BY <1>1, <1>2, <1>3, <1>4 DEF CancelOf, ReservedOf, PendingOf
  <2>5. /\ Total(d)' = Total(d) /\ missed'[d] = missed[d] /\ missed'[d] \in Int
        /\ made'[d] = IF d = date THEN made[d] + 1 ELSE made[d]
    BY <1>0, <1>2, <1>3, <1>7, <1>8 DEF LimitTypeOK, Total
  <2>6. ASSUME d = date PROVE made'[d] + Reserved' <= Room + missed'[d]
    <3>1. /\ made[d] + Cancelling(d) + Reserved <= Total(d) + Claimed(d)
          /\ made[d] + Reserved <= Room + missed[d]
      BY <2>1, <2>6 DEF DayRight, NowRight
    <3> QED BY <1>3, <2>2, <2>3, <2>4, <2>5, <2>6, <3>1
  <2>7. ASSUME d < date PROVE made'[d] <= Room + missed'[d]
    <3>1. made[d] + Cancelling(d) <= Total(d) + Cardinality(Requests) /\ made[d] <= Room + missed[d]
      BY <2>1, <2>7 DEF DayRight, PastRight
    <3> QED BY <1>3, <2>2, <2>5, <2>7, <3>1
  <2>8. d = date =>
          made'[d] - made[d] + CancelOf(e, d) - CancelOf(request[r], d)
            <= Total(d)' - Total(d) + PendingOf(e, d) - PendingOf(request[r], d)
    BY <1>3, <2>2, <2>4, <2>5
  <2>9. d < date =>
          made'[d] - made[d] + CancelOf(e, d) - CancelOf(request[r], d) <= Total(d)' - Total(d)
    BY <1>3, <2>2, <2>4, <2>5
  <2>10. made'[d] \in Nat /\ Total(d)' \in Int
    BY <1>3, <2>2, <2>5
  <2> QED BY <1>2, <1>3, <1>4, <1>10, <2>5, <2>6, <2>7, <2>8, <2>9, <2>10, DayAfter
<1> QED BY <1>2, <1>4, <1>6, <1>8, <1>9, <1>10, <1>11, LimitFrame

LEMMA GetKeyKeeps ==
  ASSUME LimitAssumption, LimitHeld, NEW r \in Requests, GetKey(r)
  PROVE  LimitHeld'
<1>0. /\ LimitTypeOK /\ request \in [Requests -> Entry]
      /\ \A q \in Requests : RequestRight(q) /\ request[q] \in Entry /\ Fits(request[q])
      /\ \A d \in Dates : KeyRight(d)
      /\ Barred => NothingIn
      /\ ~Barred => \A d \in Dates : DayRight(d)
  BY LimitFacts
<1>1. PICK on \in Dates, n \in 0..JobSize : on = request[r].on /\ n = request[r].n
  BY <1>0 DEF Entry
<1>2. /\ request[r].pc = "get"
      /\ counter' = counter /\ made' = made /\ date' = date /\ missed' = missed
  BY DEF GetKey
<1>3. /\ Size(r) \in 1..JobSize /\ JobSize \in Nat /\ Limit \in Nat /\ n < Size(r)
      /\ date \in Dates /\ 0 \in Dates /\ 0 <= date /\ date \in Int /\ on \in Int /\ on <= date
  <2>1. Size(r) \in 1..JobSize /\ JobSize \in Nat /\ Limit \in Nat
    BY SizeType
  <2>2. n < Size(r) /\ on <= date
    BY <1>0, <1>1, <1>2, <2>1 DEF RequestRight
  <2> QED BY <1>0, <2>1, <2>2 DEF LimitTypeOK, Dates, LimitAssumption
<1>4. PICK e \in Entry :
        /\ request' = [request EXCEPT ![r] = e] /\ Fits(e) /\ e.n = n /\ e.on = date
        /\ e.pc \in {"one", "incr"} /\ (e.pc = "incr" => counter[date] # NoKey)
  <2> DEFINE E == [pc |-> IF counter[date] = NoKey THEN "one" ELSE "incr", n |-> n, on |-> date]
  <2>1. request' = [request EXCEPT ![r] = E]
    BY <1>0, <1>1 DEF GetKey, Entry
  <2>2. E \in Entry /\ Fits(E) /\ E.n = n /\ E.on = date
        /\ E.pc \in {"one", "incr"} /\ (E.pc = "incr" => counter[date] # NoKey)
    BY <1>3 DEF Entry, Fits, Pcs
  <2> HIDE DEF E
  <2> QED BY <2>1, <2>2
<1>5. request'[r] = e
  BY <1>0, <1>4
<1>6. RequestRight(r)'
  BY <1>2, <1>3, <1>4, <1>5 DEF RequestRight
<1>8. /\ counter' \in [Dates -> {NoKey} \cup Int] /\ made' \in [Dates -> Nat] /\ missed' \in [Dates -> Int]
      /\ \A d \in Dates : counter[d] # NoKey => counter'[d] # NoKey
  BY <1>0, <1>2 DEF LimitTypeOK
<1>9. \A d \in Dates : KeyRight(d)'
  BY <1>0, <1>2 DEF KeyRight
<1>10. ~Barred
  <2>1. NothingIn => request[r].pc \in {"free", "zero"}
    BY DEF NothingIn
  <2> QED BY <1>0, <1>2, <2>1
<1>11. ASSUME NEW d \in Dates PROVE DayRight(d)'
  <2>1. DayRight(d)
    BY <1>0, <1>10
  <2>2. /\ Cancelling(d) \in Nat /\ Reserved \in Nat /\ Claimed(d) \in Nat
        /\ Spare \in Nat /\ Room \in Nat /\ Cardinality(Requests) \in 1..Room /\ Claimed(d) <= Room
        /\ Total(d) \in Int /\ made[d] \in Nat /\ missed[d] \in Int
    BY <1>10, RoomForAll
  <2>3. Reserved' = Reserved + ReservedOf(e) - ReservedOf(request[r])
    BY <1>0, <1>4, SharesMove
  <2>4. /\ CancelOf(request[r], d) = 0 /\ ReservedOf(request[r]) = n /\ PendingOf(request[r], d) \in 0..1
        /\ CancelOf(e, d) = 0 /\ ReservedOf(e) = n
        /\ PendingOf(e, d) = IF d = date THEN 1 ELSE 0
    BY <1>1, <1>2, <1>3, <1>4 DEF CancelOf, ReservedOf, PendingOf
  <2>5. /\ Total(d)' = Total(d) /\ missed'[d] = missed[d] /\ missed'[d] \in Int /\ made'[d] = made[d]
    BY <1>0, <1>2, <1>3, <1>8 DEF LimitTypeOK, Total
  <2>6. ASSUME d = date PROVE made'[d] + Reserved' <= Room + missed'[d]
    <3>1. /\ made[d] + Cancelling(d) + Reserved <= Total(d) + Claimed(d)
          /\ made[d] + Reserved <= Room + missed[d]
      BY <2>1, <2>6 DEF DayRight, NowRight
    <3> QED BY <1>3, <2>2, <2>3, <2>4, <2>5, <2>6, <3>1
  <2>7. ASSUME d < date PROVE made'[d] <= Room + missed'[d]
    <3>1. made[d] + Cancelling(d) <= Total(d) + Cardinality(Requests) /\ made[d] <= Room + missed[d]
      BY <2>1, <2>7 DEF DayRight, PastRight
    <3> QED BY <1>3, <2>2, <2>5, <2>7, <3>1
  <2>8. d = date =>
          made'[d] - made[d] + CancelOf(e, d) - CancelOf(request[r], d)
            <= Total(d)' - Total(d) + PendingOf(e, d) - PendingOf(request[r], d)
    BY <1>3, <2>2, <2>4, <2>5
  <2>9. d < date =>
          made'[d] - made[d] + CancelOf(e, d) - CancelOf(request[r], d) <= Total(d)' - Total(d)
    BY <1>3, <2>2, <2>4, <2>5
  <2>10. made'[d] \in Nat /\ Total(d)' \in Int
    BY <1>3, <2>2, <2>5
  <2> QED BY <1>2, <1>3, <1>4, <1>10, <2>5, <2>6, <2>7, <2>8, <2>9, <2>10, DayAfter
<1> QED BY <1>2, <1>4, <1>6, <1>8, <1>9, <1>10, <1>11, LimitFrame

LEMMA SetOneKeeps ==
  ASSUME LimitAssumption, LimitHeld, NEW r \in Requests, SetOne(r)
  PROVE  LimitHeld'
<1>0. /\ LimitTypeOK /\ request \in [Requests -> Entry]
      /\ \A q \in Requests : RequestRight(q) /\ request[q] \in Entry /\ Fits(request[q])
      /\ \A d \in Dates : KeyRight(d)
      /\ Barred => NothingIn
      /\ ~Barred => \A d \in Dates : DayRight(d)
  BY LimitFacts
<1>1. PICK on \in Dates, n \in 0..JobSize : on = request[r].on /\ n = request[r].n
  BY <1>0 DEF Entry
<1>2. /\ request[r].pc = "one" /\ made' = made /\ date' = date
      /\ counter' = [counter EXCEPT ![on] = 1]
      /\ missed' = [missed EXCEPT ![on] = IF counter[on] = NoKey THEN missed[on] ELSE missed[on] + counter[on]]
  BY <1>0, <1>1 DEF SetOne, SetKey, LimitTypeOK
<1>3. /\ Size(r) \in 1..JobSize /\ JobSize \in Nat /\ Limit \in Nat /\ n < Size(r)
      /\ date \in Dates /\ 0 \in Dates /\ 0 <= date /\ date \in Int /\ on \in Int /\ on <= date
  <2>1. Size(r) \in 1..JobSize /\ JobSize \in Nat /\ Limit \in Nat
    BY SizeType
  <2>2. n < Size(r) /\ on <= date
    BY <1>0, <1>1, <1>2, <2>1 DEF RequestRight
  <2> QED BY <1>0, <2>1, <2>2 DEF LimitTypeOK, Dates, LimitAssumption
<1>4. PICK e \in Entry :
        /\ request' = [request EXCEPT ![r] = e] /\ Fits(e)
        /\ \/ n = 0 /\ e = [pc |-> "free", n |-> 0, on |-> 0]
           \/ n # 0 /\ e = [pc |-> "save", n |-> n, on |-> 0]
  <2> DEFINE E == IF n = 0 THEN FreeRequest ELSE Accepted(n)
  <2>1. request' = [request EXCEPT ![r] = E]
    BY <1>0, <1>1 DEF SetOne, RequestCounted
  <2>2. E \in Entry /\ Fits(E)
    BY <1>3 DEF Entry, Fits, Pcs, FreeRequest, Accepted
  <2>3. \/ n = 0 /\ E = [pc |-> "free", n |-> 0, on |-> 0]
        \/ n # 0 /\ E = [pc |-> "save", n |-> n, on |-> 0]
    BY DEF FreeRequest, Accepted
  <2> HIDE DEF E
  <2> QED BY <2>1, <2>2, <2>3
<1>5. request'[r] = e
  BY <1>0, <1>4
<1>6. RequestRight(r)'
  BY <1>2, <1>3, <1>4, <1>5 DEF RequestRight
<1>7. /\ counter'[on] = 1 /\ missed'[on] = Total(on) /\ Total(on)' = Total(on) + 1
      /\ \A d \in Dates \ {on} : counter'[d] = counter[d] /\ missed'[d] = missed[d] /\ Total(d)' = Total(d)
  <2>1. counter'[on] = 1 /\ \A d \in Dates \ {on} : counter'[d] = counter[d] /\ missed'[d] = missed[d]
    BY <1>0, <1>2 DEF LimitTypeOK
  <2>2. missed'[on] = IF counter[on] = NoKey THEN missed[on] ELSE missed[on] + counter[on]
    BY <1>0, <1>2 DEF LimitTypeOK
  <2>3. missed'[on] = Total(on) /\ Total(on) \in Int
    BY <1>0, <2>2 DEF Total, LimitTypeOK
  <2> QED BY <2>1, <2>3 DEF Total, LimitAssumption
<1>8. /\ counter' \in [Dates -> {NoKey} \cup Int] /\ made' \in [Dates -> Nat] /\ missed' \in [Dates -> Int]
      /\ \A d \in Dates : counter[d] # NoKey => counter'[d] # NoKey
  <2>1. missed' \in [Dates -> Int] /\ counter' \in [Dates -> {NoKey} \cup Int]
    BY <1>0, <1>2 DEF LimitTypeOK
  <2> QED BY <1>0, <1>2, <1>7, <2>1 DEF LimitTypeOK, LimitAssumption
<1>9. ASSUME NEW d \in Dates PROVE KeyRight(d)'
  <2>1. KeyRight(d) /\ d \in Int
    BY <1>0 DEF Dates
  <2> QED BY <1>0, <1>2, <1>3, <1>7, <2>1 DEF KeyRight, LimitAssumption, LimitTypeOK
<1>10. ~Barred
  <2>1. NothingIn => request[r].pc \in {"free", "zero"}
    BY DEF NothingIn
  <2> QED BY <1>0, <1>2, <2>1
<1>11. ASSUME NEW d \in Dates PROVE DayRight(d)'
  <2>1. DayRight(d)
    BY <1>0, <1>10
  <2>2. /\ Cancelling(d) \in Nat /\ Reserved \in Nat /\ Claimed(d) \in Nat
        /\ Spare \in Nat /\ Room \in Nat /\ Cardinality(Requests) \in 1..Room /\ Claimed(d) <= Room
        /\ Total(d) \in Int /\ made[d] \in Nat /\ missed[d] \in Int
    BY <1>10, RoomForAll
  <2>3. Reserved' = Reserved + ReservedOf(e) - ReservedOf(request[r])
    BY <1>0, <1>4, SharesMove
  <2>4. /\ CancelOf(request[r], d) = 0 /\ ReservedOf(request[r]) = n
        /\ PendingOf(request[r], d) = IF d = on THEN 1 ELSE 0
        /\ CancelOf(e, d) = 0 /\ ReservedOf(e) = n /\ PendingOf(e, d) = 0
    BY <1>1, <1>2, <1>3, <1>4 DEF CancelOf, ReservedOf, PendingOf
  <2>5. /\ Total(d)' = IF d = on THEN Total(d) + 1 ELSE Total(d)
        /\ missed'[d] = IF d = on THEN Total(d) ELSE missed[d]
        /\ made'[d] = made[d] /\ missed'[d] \in Int
    BY <1>0, <1>2, <1>3, <1>7, <1>8 DEF LimitTypeOK
  <2>6. ASSUME d = date PROVE made'[d] + Reserved' <= Room + missed'[d]
    <3>1. /\ made[d] + Cancelling(d) + Reserved <= Total(d) + Claimed(d)
          /\ made[d] + Reserved <= Room + missed[d]
      BY <2>1, <2>6 DEF DayRight, NowRight
    <3> QED BY <1>3, <2>2, <2>3, <2>4, <2>5, <2>6, <3>1
  <2>7. ASSUME d < date PROVE made'[d] <= Room + missed'[d]
    <3>1. made[d] + Cancelling(d) <= Total(d) + Cardinality(Requests) /\ made[d] <= Room + missed[d]
      BY <2>1, <2>7 DEF DayRight, PastRight
    <3> QED BY <1>3, <2>2, <2>5, <2>7, <3>1
  <2>8. d = date =>
          made'[d] - made[d] + CancelOf(e, d) - CancelOf(request[r], d)
            <= Total(d)' - Total(d) + PendingOf(e, d) - PendingOf(request[r], d)
    BY <1>3, <2>2, <2>4, <2>5
  <2>9. d < date =>
          made'[d] - made[d] + CancelOf(e, d) - CancelOf(request[r], d) <= Total(d)' - Total(d)
    BY <1>3, <2>2, <2>4, <2>5
  <2>10. made'[d] \in Nat /\ Total(d)' \in Int
    BY <1>3, <2>2, <2>5
  <2> QED BY <1>2, <1>3, <1>4, <1>10, <2>5, <2>6, <2>7, <2>8, <2>9, <2>10, DayAfter
<1> QED BY <1>2, <1>4, <1>6, <1>8, <1>9, <1>10, <1>11, LimitFrame

LEMMA IncrKeeps ==
  ASSUME LimitAssumption, LimitHeld, NEW r \in Requests, Incr(r)
  PROVE  LimitHeld'
<1>0. /\ LimitTypeOK /\ request \in [Requests -> Entry]
      /\ \A q \in Requests : RequestRight(q) /\ request[q] \in Entry /\ Fits(request[q])
      /\ \A d \in Dates : KeyRight(d)
      /\ Barred => NothingIn
      /\ ~Barred => \A d \in Dates : DayRight(d)
  BY LimitFacts
<1>1. PICK on \in Dates, n \in 0..JobSize : on = request[r].on /\ n = request[r].n
  BY <1>0 DEF Entry
<1>2. /\ request[r].pc = "incr" /\ made' = made /\ date' = date /\ missed' = missed
      /\ counter' = [counter EXCEPT ![on] = counter[on] + 1]
  BY <1>0, <1>1 DEF Incr, LimitTypeOK
<1>3. /\ Size(r) \in 1..JobSize /\ JobSize \in Nat /\ Limit \in Nat /\ n < Size(r)
      /\ date \in Dates /\ 0 \in Dates /\ 0 <= date /\ date \in Int /\ on \in Int /\ on <= date
      /\ counter[on] \in Int /\ counter[on] # NoKey
  <2>1. Size(r) \in 1..JobSize /\ JobSize \in Nat /\ Limit \in Nat
    BY SizeType
  <2>2. n < Size(r) /\ on <= date /\ counter[on] # NoKey
    BY <1>0, <1>1, <1>2, <2>1 DEF RequestRight
  <2> QED BY <1>0, <2>1, <2>2 DEF LimitTypeOK, Dates, LimitAssumption
<1>4. PICK e \in Entry :
        /\ request' = [request EXCEPT ![r] = e] /\ Fits(e)
        /\ \/ n = 0 /\ e = [pc |-> "free", n |-> 0, on |-> 0]
           \/ n # 0 /\ e = [pc |-> "save", n |-> n, on |-> 0]
  <2> DEFINE E == IF n = 0 THEN FreeRequest ELSE Accepted(n)
  <2>1. request' = [request EXCEPT ![r] = E]
    BY <1>0, <1>1 DEF Incr, RequestCounted
  <2>2. E \in Entry /\ Fits(E)
    BY <1>3 DEF Entry, Fits, Pcs, FreeRequest, Accepted
  <2>3. \/ n = 0 /\ E = [pc |-> "free", n |-> 0, on |-> 0]
        \/ n # 0 /\ E = [pc |-> "save", n |-> n, on |-> 0]
    BY DEF FreeRequest, Accepted
  <2> HIDE DEF E
  <2> QED BY <2>1, <2>2, <2>3
<1>5. request'[r] = e
  BY <1>0, <1>4
<1>6. RequestRight(r)'
  BY <1>2, <1>3, <1>4, <1>5 DEF RequestRight
<1>7. /\ counter'[on] = counter[on] + 1 /\ Total(on)' = Total(on) + 1
      /\ \A d \in Dates \ {on} : counter'[d] = counter[d] /\ Total(d)' = Total(d)
  <2>1. /\ counter'[on] = counter[on] + 1 /\ \A d \in Dates \ {on} : counter'[d] = counter[d]
        /\ missed[on] \in Int
    BY <1>0, <1>2 DEF LimitTypeOK
  <2> QED BY <1>2, <1>3, <2>1 DEF Total, LimitAssumption
<1>8. /\ counter' \in [Dates -> {NoKey} \cup Int] /\ made' \in [Dates -> Nat] /\ missed' \in [Dates -> Int]
      /\ \A d \in Dates : counter[d] # NoKey => counter'[d] # NoKey
  <2>1. counter' \in [Dates -> {NoKey} \cup Int]
    BY <1>0, <1>2, <1>3 DEF LimitTypeOK
  <2>2. counter'[on] # NoKey
    BY <1>3, <1>7 DEF LimitAssumption
  <2> QED BY <1>0, <1>2, <1>7, <2>1, <2>2 DEF LimitTypeOK
<1>9. ASSUME NEW d \in Dates PROVE KeyRight(d)'
  <2>1. KeyRight(d) /\ d \in Int
    BY <1>0 DEF Dates
  <2> QED BY <1>0, <1>2, <1>3, <1>7, <2>1 DEF KeyRight, LimitAssumption, LimitTypeOK
<1>10. ~Barred
  <2>1. NothingIn => request[r].pc \in {"free", "zero"}
    BY DEF NothingIn
  <2> QED BY <1>0, <1>2, <2>1
<1>11. ASSUME NEW d \in Dates PROVE DayRight(d)'
  <2>1. DayRight(d)
    BY <1>0, <1>10
  <2>2. /\ Cancelling(d) \in Nat /\ Reserved \in Nat /\ Claimed(d) \in Nat
        /\ Spare \in Nat /\ Room \in Nat /\ Cardinality(Requests) \in 1..Room /\ Claimed(d) <= Room
        /\ Total(d) \in Int /\ made[d] \in Nat /\ missed[d] \in Int
    BY <1>10, RoomForAll
  <2>3. Reserved' = Reserved + ReservedOf(e) - ReservedOf(request[r])
    BY <1>0, <1>4, SharesMove
  <2>4. /\ CancelOf(request[r], d) = 0 /\ ReservedOf(request[r]) = n
        /\ PendingOf(request[r], d) = IF d = on THEN 1 ELSE 0
        /\ CancelOf(e, d) = 0 /\ ReservedOf(e) = n /\ PendingOf(e, d) = 0
    BY <1>1, <1>2, <1>3, <1>4 DEF CancelOf, ReservedOf, PendingOf
  <2>5. /\ Total(d)' = IF d = on THEN Total(d) + 1 ELSE Total(d)
        /\ missed'[d] = missed[d] /\ made'[d] = made[d] /\ missed'[d] \in Int
    BY <1>0, <1>2, <1>3, <1>7, <1>8 DEF LimitTypeOK
  <2>6. ASSUME d = date PROVE made'[d] + Reserved' <= Room + missed'[d]
    <3>1. /\ made[d] + Cancelling(d) + Reserved <= Total(d) + Claimed(d)
          /\ made[d] + Reserved <= Room + missed[d]
      BY <2>1, <2>6 DEF DayRight, NowRight
    <3> QED BY <1>3, <2>2, <2>3, <2>4, <2>5, <2>6, <3>1
  <2>7. ASSUME d < date PROVE made'[d] <= Room + missed'[d]
    <3>1. made[d] + Cancelling(d) <= Total(d) + Cardinality(Requests) /\ made[d] <= Room + missed[d]
      BY <2>1, <2>7 DEF DayRight, PastRight
    <3> QED BY <1>3, <2>2, <2>5, <2>7, <3>1
  <2>8. d = date =>
          made'[d] - made[d] + CancelOf(e, d) - CancelOf(request[r], d)
            <= Total(d)' - Total(d) + PendingOf(e, d) - PendingOf(request[r], d)
    BY <1>3, <2>2, <2>4, <2>5
  <2>9. d < date =>
          made'[d] - made[d] + CancelOf(e, d) - CancelOf(request[r], d) <= Total(d)' - Total(d)
    BY <1>3, <2>2, <2>4, <2>5
  <2>10. made'[d] \in Nat /\ Total(d)' \in Int
    BY <1>3, <2>2, <2>5
  <2> QED BY <1>2, <1>3, <1>4, <1>10, <2>5, <2>6, <2>7, <2>8, <2>9, <2>10, DayAfter
<1> QED BY <1>2, <1>4, <1>6, <1>8, <1>9, <1>10, <1>11, LimitFrame

LEMMA LoseCountKeeps ==
  ASSUME LimitAssumption, LimitHeld, NEW r \in Requests, LoseCount(r)
  PROVE  LimitHeld'
<1>0. /\ LimitTypeOK /\ request \in [Requests -> Entry]
      /\ \A q \in Requests : RequestRight(q) /\ request[q] \in Entry /\ Fits(request[q])
      /\ \A d \in Dates : KeyRight(d)
      /\ Barred => NothingIn
      /\ ~Barred => \A d \in Dates : DayRight(d)
  BY LimitFacts
<1>1. PICK on \in Dates, n \in 0..JobSize : on = request[r].on /\ n = request[r].n
  BY <1>0 DEF Entry
<1>2. /\ request[r].pc \in {"get", "one", "incr"}
      /\ counter' = counter /\ made' = made /\ date' = date
      /\ missed' = [missed EXCEPT ![on] = missed[on] + 1]
  BY <1>0, <1>1 DEF LoseCount, LimitTypeOK
<1>3. /\ Size(r) \in 1..JobSize /\ JobSize \in Nat /\ Limit \in Nat /\ n < Size(r)
      /\ date \in Dates /\ 0 \in Dates /\ 0 <= date /\ date \in Int /\ on \in Int /\ on <= date
  <2>1. Size(r) \in 1..JobSize /\ JobSize \in Nat /\ Limit \in Nat
    BY SizeType
  <2>2. n < Size(r) /\ on <= date
    BY <1>0, <1>1, <1>2, <2>1 DEF RequestRight
  <2> QED BY <1>0, <2>1, <2>2 DEF LimitTypeOK, Dates, LimitAssumption
<1>4. PICK e \in Entry :
        /\ request' = [request EXCEPT ![r] = e] /\ Fits(e)
        /\ \/ e = [pc |-> "free", n |-> 0, on |-> 0]
           \/ n # 0 /\ e = [pc |-> "save", n |-> n, on |-> 0]
  <2>1. PICK E \in {FreeRequest, RequestCounted(r)} : request' = [request EXCEPT ![r] = E]
    BY DEF LoseCount
  <2>2. \/ E = [pc |-> "free", n |-> 0, on |-> 0]
        \/ n # 0 /\ E = [pc |-> "save", n |-> n, on |-> 0]
    BY <1>1 DEF FreeRequest, Accepted, RequestCounted
  <2>3. E \in Entry /\ Fits(E)
    BY <1>3, <2>2 DEF Entry, Fits, Pcs
  <2> QED BY <2>1, <2>2, <2>3
<1>5. request'[r] = e
  BY <1>0, <1>4
<1>6. RequestRight(r)'
  BY <1>2, <1>3, <1>4, <1>5 DEF RequestRight
<1>7. /\ missed'[on] = missed[on] + 1 /\ Total(on)' = Total(on) + 1 /\ missed[on] \in Int
      /\ \A d \in Dates \ {on} : missed'[d] = missed[d] /\ Total(d)' = Total(d)
  <2>1. missed'[on] = missed[on] + 1 /\ missed[on] \in Int /\ \A d \in Dates \ {on} : missed'[d] = missed[d]
    BY <1>0, <1>2 DEF LimitTypeOK
  <2>2. counter[on] = NoKey \/ counter[on] \in Int
    BY <1>0 DEF LimitTypeOK
  <2> QED BY <1>2, <2>1, <2>2 DEF Total, LimitAssumption
<1>8. /\ counter' \in [Dates -> {NoKey} \cup Int] /\ made' \in [Dates -> Nat] /\ missed' \in [Dates -> Int]
      /\ \A d \in Dates : counter[d] # NoKey => counter'[d] # NoKey
  BY <1>0, <1>2 DEF LimitTypeOK
<1>9. ASSUME NEW d \in Dates PROVE KeyRight(d)'
  <2>1. KeyRight(d) /\ d \in Int
    BY <1>0 DEF Dates
  <2> QED BY <1>0, <1>2, <1>3, <1>7, <2>1 DEF KeyRight, LimitAssumption, LimitTypeOK
<1>10. ~Barred
  <2>1. NothingIn => request[r].pc \in {"free", "zero"}
    BY DEF NothingIn
  <2> QED BY <1>0, <1>2, <2>1
<1>11. ASSUME NEW d \in Dates PROVE DayRight(d)'
  <2>1. DayRight(d)
    BY <1>0, <1>10
  <2>2. /\ Cancelling(d) \in Nat /\ Reserved \in Nat /\ Claimed(d) \in Nat
        /\ Spare \in Nat /\ Room \in Nat /\ Cardinality(Requests) \in 1..Room /\ Claimed(d) <= Room
        /\ Total(d) \in Int /\ made[d] \in Nat /\ missed[d] \in Int
    BY <1>10, RoomForAll
  <2>3. Reserved' = Reserved + ReservedOf(e) - ReservedOf(request[r])
    BY <1>0, <1>4, SharesMove
  <2>4. /\ CancelOf(request[r], d) = 0 /\ ReservedOf(request[r]) = n
        /\ PendingOf(request[r], d) = IF d = on THEN 1 ELSE 0
        /\ CancelOf(e, d) = 0 /\ ReservedOf(e) \in 0..n /\ PendingOf(e, d) = 0
    BY <1>1, <1>2, <1>3, <1>4 DEF CancelOf, ReservedOf, PendingOf
  <2>5. /\ Total(d)' = IF d = on THEN Total(d) + 1 ELSE Total(d)
        /\ missed'[d] = (IF d = on THEN missed[d] + 1 ELSE missed[d])
        /\ made'[d] = made[d] /\ missed'[d] \in Int
    BY <1>0, <1>2, <1>3, <1>7, <1>8 DEF LimitTypeOK
  <2>6. ASSUME d = date PROVE made'[d] + Reserved' <= Room + missed'[d]
    <3>1. /\ made[d] + Cancelling(d) + Reserved <= Total(d) + Claimed(d)
          /\ made[d] + Reserved <= Room + missed[d]
      BY <2>1, <2>6 DEF DayRight, NowRight
    <3> QED BY <1>3, <2>2, <2>3, <2>4, <2>5, <2>6, <3>1
  <2>7. ASSUME d < date PROVE made'[d] <= Room + missed'[d]
    <3>1. made[d] + Cancelling(d) <= Total(d) + Cardinality(Requests) /\ made[d] <= Room + missed[d]
      BY <2>1, <2>7 DEF DayRight, PastRight
    <3> QED BY <1>3, <2>2, <2>5, <2>7, <3>1
  <2>8. d = date =>
          made'[d] - made[d] + CancelOf(e, d) - CancelOf(request[r], d)
            <= Total(d)' - Total(d) + PendingOf(e, d) - PendingOf(request[r], d)
    BY <1>3, <2>2, <2>4, <2>5
  <2>9. d < date =>
          made'[d] - made[d] + CancelOf(e, d) - CancelOf(request[r], d) <= Total(d)' - Total(d)
    BY <1>3, <2>2, <2>4, <2>5
  <2>10. made'[d] \in Nat /\ Total(d)' \in Int
    BY <1>3, <2>2, <2>5
  <2> QED BY <1>2, <1>3, <1>4, <1>10, <2>5, <2>6, <2>7, <2>8, <2>9, <2>10, DayAfter
<1> QED BY <1>2, <1>4, <1>6, <1>8, <1>9, <1>10, <1>11, LimitFrame

LEMMA CancelLettersKeeps ==
  ASSUME LimitAssumption, LimitHeld, NEW r \in Requests, NEW on \in Dates,
         CancelLetters(r, on, Size(r))
  PROVE  LimitHeld'
<1>0. /\ LimitTypeOK /\ request \in [Requests -> Entry]
      /\ \A q \in Requests : RequestRight(q) /\ request[q] \in Entry /\ Fits(request[q])
      /\ \A d \in Dates : KeyRight(d)
      /\ Barred => NothingIn
      /\ ~Barred => \A d \in Dates : DayRight(d)
  BY LimitFacts
<1>1. PICK n \in 1..JobSize : n = Size(r)
  BY SizeType
<1>2. /\ request[r].pc = "free" /\ counter' = counter /\ date' = date /\ missed' = missed
      /\ made[on] >= n /\ made' = [made EXCEPT ![on] = made[on] - n]
  BY <1>0, <1>1 DEF CancelLetters, LimitTypeOK
<1>3. /\ JobSize \in Nat /\ Limit \in Nat
      /\ date \in Dates /\ 0 \in Dates /\ 0 <= date /\ date \in Int /\ on \in Int /\ on <= date
  <2>1. JobSize \in Nat /\ Limit \in Nat
    BY SizeType
  <2>2. date \in Int /\ on \in Int /\ date \in Dates /\ 0 \in Dates /\ 0 <= date
    BY <1>0 DEF LimitTypeOK, Dates, LimitAssumption
  <2>3. made[on] # 0 /\ KeyRight(on)
    BY <1>0, <1>1, <1>2 DEF LimitTypeOK
  <2> QED BY <2>1, <2>2, <2>3 DEF KeyRight
<1>4. PICK e \in Entry :
        request' = [request EXCEPT ![r] = e] /\ Fits(e) /\ e = [pc |-> "adjust", n |-> n, on |-> on]
  <2> DEFINE E == [pc |-> "adjust", n |-> n, on |-> on]
  <2>1. request' = [request EXCEPT ![r] = E]
    BY <1>1 DEF CancelLetters
  <2>2. E \in Entry /\ Fits(E)
    BY <1>1, <1>3 DEF Entry, Fits, Pcs
  <2> QED BY <2>1, <2>2
<1>5. request'[r] = e
  BY <1>0, <1>4
<1>6. RequestRight(r)'
  BY <1>1, <1>2, <1>3, <1>4, <1>5 DEF RequestRight
<1>7. made'[on] = made[on] - n /\ \A d \in Dates \ {on} : made'[d] = made[d]
  BY <1>0, <1>2 DEF LimitTypeOK
<1>8. /\ counter' \in [Dates -> {NoKey} \cup Int] /\ made' \in [Dates -> Nat] /\ missed' \in [Dates -> Int]
      /\ \A d \in Dates : counter[d] # NoKey => counter'[d] # NoKey
  <2>1. made[on] - n \in Nat
    BY <1>0, <1>1, <1>2 DEF LimitTypeOK
  <2> QED BY <1>0, <1>2, <2>1 DEF LimitTypeOK
<1>9. ASSUME NEW d \in Dates PROVE KeyRight(d)'
  <2>1. KeyRight(d) /\ d \in Int
    BY <1>0 DEF Dates
  <2> QED BY <1>0, <1>2, <1>3, <1>7, <2>1 DEF KeyRight, LimitAssumption, LimitTypeOK
<1>10. ~Barred
  <2>1. NothingIn => made[on] = 0
    BY DEF NothingIn
  <2> QED BY <1>0, <1>1, <1>2, <2>1
<1>11. ASSUME NEW d \in Dates PROVE DayRight(d)'
  <2>1. DayRight(d)
    BY <1>0, <1>10
  <2>2. /\ Cancelling(d) \in Nat /\ Reserved \in Nat /\ Claimed(d) \in Nat
        /\ Spare \in Nat /\ Room \in Nat /\ Cardinality(Requests) \in 1..Room /\ Claimed(d) <= Room
        /\ Total(d) \in Int /\ made[d] \in Nat /\ missed[d] \in Int
    BY <1>10, RoomForAll
  <2>3. Reserved' = Reserved + ReservedOf(e) - ReservedOf(request[r])
    BY <1>0, <1>4, SharesMove
  <2>4. /\ CancelOf(request[r], d) = 0 /\ ReservedOf(request[r]) = 0 /\ PendingOf(request[r], d) = 0
        /\ CancelOf(e, d) = (IF d = on THEN n ELSE 0) /\ ReservedOf(e) = 0 /\ PendingOf(e, d) = 0
    BY <1>1, <1>2, <1>3, <1>4 DEF CancelOf, ReservedOf, PendingOf
  <2>5. /\ Total(d)' = Total(d) /\ missed'[d] = missed[d] /\ missed'[d] \in Int
        /\ made'[d] = IF d = on THEN made[d] - n ELSE made[d]
    BY <1>0, <1>2, <1>3, <1>7, <1>8 DEF LimitTypeOK, Total
  <2>6. ASSUME d = date PROVE made'[d] + Reserved' <= Room + missed'[d]
    <3>1. /\ made[d] + Cancelling(d) + Reserved <= Total(d) + Claimed(d)
          /\ made[d] + Reserved <= Room + missed[d]
      BY <2>1, <2>6 DEF DayRight, NowRight
    <3> QED BY <1>3, <2>2, <2>3, <2>4, <2>5, <2>6, <3>1
  <2>7. ASSUME d < date PROVE made'[d] <= Room + missed'[d]
    <3>1. made[d] + Cancelling(d) <= Total(d) + Cardinality(Requests) /\ made[d] <= Room + missed[d]
      BY <2>1, <2>7 DEF DayRight, PastRight
    <3> QED BY <1>3, <2>2, <2>5, <2>7, <3>1
  <2>8. d = date =>
          made'[d] - made[d] + CancelOf(e, d) - CancelOf(request[r], d)
            <= Total(d)' - Total(d) + PendingOf(e, d) - PendingOf(request[r], d)
    BY <1>3, <2>2, <2>4, <2>5
  <2>9. d < date =>
          made'[d] - made[d] + CancelOf(e, d) - CancelOf(request[r], d) <= Total(d)' - Total(d)
    BY <1>3, <2>2, <2>4, <2>5
  <2>10. made'[d] \in Nat /\ Total(d)' \in Int
    BY <1>8, <2>2, <2>5
  <2> QED BY <1>2, <1>3, <1>4, <1>10, <2>5, <2>6, <2>7, <2>8, <2>9, <2>10, DayAfter
<1> QED BY <1>2, <1>4, <1>6, <1>8, <1>9, <1>10, <1>11, LimitFrame

LEMMA AdjustLimitKeeps ==
  ASSUME LimitAssumption, LimitHeld, NEW r \in Requests, AdjustLimit(r)
  PROVE  LimitHeld'
<1>0. /\ LimitTypeOK /\ request \in [Requests -> Entry]
      /\ \A q \in Requests : RequestRight(q) /\ request[q] \in Entry /\ Fits(request[q])
      /\ \A d \in Dates : KeyRight(d)
      /\ Barred => NothingIn
      /\ ~Barred => \A d \in Dates : DayRight(d)
  BY LimitFacts
<1>1. PICK on \in Dates, n \in 0..JobSize : on = request[r].on /\ n = request[r].n
  BY <1>0 DEF Entry
<1>2. /\ request[r].pc = "adjust"
      /\ counter' = counter /\ made' = made /\ date' = date /\ missed' = missed
  BY DEF AdjustLimit
<1>3. /\ Size(r) \in 1..JobSize /\ JobSize \in Nat /\ Limit \in Nat /\ n \in 1..Size(r)
      /\ date \in Dates /\ 0 \in Dates /\ 0 <= date /\ date \in Int /\ on \in Int /\ on <= date
  <2>1. Size(r) \in 1..JobSize /\ JobSize \in Nat /\ Limit \in Nat
    BY SizeType
  <2>2. n \in 1..Size(r) /\ on <= date
    BY <1>0, <1>1, <1>2, <2>1 DEF RequestRight
  <2> QED BY <1>0, <2>1, <2>2 DEF LimitTypeOK, Dates, LimitAssumption
<1>4. PICK e \in Entry :
        /\ request' = [request EXCEPT ![r] = e] /\ Fits(e)
        /\ \/ e = [pc |-> "free", n |-> 0, on |-> 0]
           \/ on = date /\ counter[on] # NoKey /\ e = [pc |-> "decr", n |-> n, on |-> on]
  <2> DEFINE E == IF MayAdjust(on, n) THEN [pc |-> "decr", n |-> n, on |-> date] ELSE FreeRequest
  <2>1. request' = [request EXCEPT ![r] = E]
    BY <1>0, <1>1 DEF AdjustLimit
  <2>2. E \in Entry /\ Fits(E)
    BY <1>3 DEF Entry, Fits, Pcs, FreeRequest
  <2>3. \/ E = [pc |-> "free", n |-> 0, on |-> 0]
        \/ on = date /\ counter[on] # NoKey /\ E = [pc |-> "decr", n |-> n, on |-> on]
    BY DEF FreeRequest, MayAdjust
  <2> HIDE DEF E
  <2> QED BY <2>1, <2>2, <2>3
<1>5. request'[r] = e
  BY <1>0, <1>4
<1>6. RequestRight(r)'
  BY <1>2, <1>3, <1>4, <1>5 DEF RequestRight
<1>8. /\ counter' \in [Dates -> {NoKey} \cup Int] /\ made' \in [Dates -> Nat] /\ missed' \in [Dates -> Int]
      /\ \A d \in Dates : counter[d] # NoKey => counter'[d] # NoKey
  BY <1>0, <1>2 DEF LimitTypeOK
<1>9. \A d \in Dates : KeyRight(d)'
  BY <1>0, <1>2 DEF KeyRight
<1>10. ~Barred
  <2>1. NothingIn => request[r].pc \in {"free", "zero"}
    BY DEF NothingIn
  <2> QED BY <1>0, <1>2, <2>1
<1>11. ASSUME NEW d \in Dates PROVE DayRight(d)'
  <2>1. DayRight(d)
    BY <1>0, <1>10
  <2>2. /\ Cancelling(d) \in Nat /\ Reserved \in Nat /\ Claimed(d) \in Nat
        /\ Spare \in Nat /\ Room \in Nat /\ Cardinality(Requests) \in 1..Room /\ Claimed(d) <= Room
        /\ Total(d) \in Int /\ made[d] \in Nat /\ missed[d] \in Int
    BY <1>10, RoomForAll
  <2>3. Reserved' = Reserved + ReservedOf(e) - ReservedOf(request[r])
    BY <1>0, <1>4, SharesMove
  <2>4. /\ CancelOf(request[r], d) = (IF d = on THEN n ELSE 0) /\ ReservedOf(request[r]) = 0
        /\ PendingOf(request[r], d) = 0
        /\ CancelOf(e, d) \in {0, CancelOf(request[r], d)} /\ ReservedOf(e) = 0 /\ PendingOf(e, d) = 0
    BY <1>1, <1>2, <1>3, <1>4 DEF CancelOf, ReservedOf, PendingOf
  <2>5. /\ Total(d)' = Total(d) /\ missed'[d] = missed[d] /\ missed'[d] \in Int /\ made'[d] = made[d]
    BY <1>0, <1>2, <1>3, <1>8 DEF LimitTypeOK, Total
  <2>6. ASSUME d = date PROVE made'[d] + Reserved' <= Room + missed'[d]
    <3>1. /\ made[d] + Cancelling(d) + Reserved <= Total(d) + Claimed(d)
          /\ made[d] + Reserved <= Room + missed[d]
      BY <2>1, <2>6 DEF DayRight, NowRight
    <3> QED BY <1>3, <2>2, <2>3, <2>4, <2>5, <2>6, <3>1
  <2>7. ASSUME d < date PROVE made'[d] <= Room + missed'[d]
    <3>1. made[d] + Cancelling(d) <= Total(d) + Cardinality(Requests) /\ made[d] <= Room + missed[d]
      BY <2>1, <2>7 DEF DayRight, PastRight
    <3> QED BY <1>3, <2>2, <2>5, <2>7, <3>1
  <2>8. d = date =>
          made'[d] - made[d] + CancelOf(e, d) - CancelOf(request[r], d)
            <= Total(d)' - Total(d) + PendingOf(e, d) - PendingOf(request[r], d)
    BY <1>3, <2>2, <2>4, <2>5
  <2>9. d < date =>
          made'[d] - made[d] + CancelOf(e, d) - CancelOf(request[r], d) <= Total(d)' - Total(d)
    BY <1>3, <2>2, <2>4, <2>5
  <2>10. made'[d] \in Nat /\ Total(d)' \in Int
    BY <1>3, <2>2, <2>5
  <2> QED BY <1>2, <1>3, <1>4, <1>10, <2>5, <2>6, <2>7, <2>8, <2>9, <2>10, DayAfter
<1> QED BY <1>2, <1>4, <1>6, <1>8, <1>9, <1>10, <1>11, LimitFrame

LEMMA DecrByKeeps ==
  ASSUME LimitAssumption, LimitHeld, NEW r \in Requests, DecrBy(r)
  PROVE  LimitHeld'
<1>0. /\ LimitTypeOK /\ request \in [Requests -> Entry]
      /\ \A q \in Requests : RequestRight(q) /\ request[q] \in Entry /\ Fits(request[q])
      /\ \A d \in Dates : KeyRight(d)
      /\ Barred => NothingIn
      /\ ~Barred => \A d \in Dates : DayRight(d)
  BY LimitFacts
<1>1. PICK on \in Dates, n \in 0..JobSize : on = request[r].on /\ n = request[r].n
  BY <1>0 DEF Entry
<1>2. /\ request[r].pc = "decr" /\ made' = made /\ date' = date /\ missed' = missed
      /\ counter' = [counter EXCEPT ![on] = counter[on] - n]
  BY <1>0, <1>1 DEF DecrBy, LimitTypeOK
<1>3. /\ Size(r) \in 1..JobSize /\ JobSize \in Nat /\ Limit \in Nat /\ n \in 1..Size(r)
      /\ date \in Dates /\ 0 \in Dates /\ 0 <= date /\ date \in Int /\ on \in Int /\ on <= date
      /\ counter[on] \in Int /\ counter[on] # NoKey
  <2>1. Size(r) \in 1..JobSize /\ JobSize \in Nat /\ Limit \in Nat
    BY SizeType
  <2>2. n \in 1..Size(r) /\ on <= date /\ counter[on] # NoKey
    BY <1>0, <1>1, <1>2, <2>1 DEF RequestRight
  <2> QED BY <1>0, <2>1, <2>2 DEF LimitTypeOK, Dates, LimitAssumption
<1>4. PICK e \in Entry :
        request' = [request EXCEPT ![r] = e] /\ Fits(e) /\ e = [pc |-> "free", n |-> 0, on |-> 0]
  <2>1. FreeRequest \in Entry /\ Fits(FreeRequest)
    BY <1>3 DEF Entry, Fits, Pcs, FreeRequest
  <2> QED BY <2>1 DEF DecrBy, FreeRequest
<1>5. request'[r] = e
  BY <1>0, <1>4
<1>6. RequestRight(r)'
  BY <1>2, <1>3, <1>4, <1>5 DEF RequestRight
<1>7. /\ counter'[on] = counter[on] - n /\ Total(on)' = Total(on) - n
      /\ \A d \in Dates \ {on} : counter'[d] = counter[d] /\ Total(d)' = Total(d)
  <2>1. /\ counter'[on] = counter[on] - n /\ \A d \in Dates \ {on} : counter'[d] = counter[d]
        /\ missed[on] \in Int
    BY <1>0, <1>2 DEF LimitTypeOK
  <2> QED BY <1>2, <1>3, <2>1 DEF Total, LimitAssumption
<1>8. /\ counter' \in [Dates -> {NoKey} \cup Int] /\ made' \in [Dates -> Nat] /\ missed' \in [Dates -> Int]
      /\ \A d \in Dates : counter[d] # NoKey => counter'[d] # NoKey
  <2>1. counter' \in [Dates -> {NoKey} \cup Int]
    BY <1>0, <1>2, <1>3 DEF LimitTypeOK
  <2>2. counter'[on] # NoKey
    BY <1>3, <1>7 DEF LimitAssumption
  <2> QED BY <1>0, <1>2, <1>7, <2>1, <2>2 DEF LimitTypeOK
<1>9. ASSUME NEW d \in Dates PROVE KeyRight(d)'
  <2>1. KeyRight(d) /\ d \in Int
    BY <1>0 DEF Dates
  <2> QED BY <1>0, <1>2, <1>3, <1>7, <2>1 DEF KeyRight, LimitAssumption, LimitTypeOK
<1>10. ~Barred
  <2>1. NothingIn => request[r].pc \in {"free", "zero"}
    BY DEF NothingIn
  <2> QED BY <1>0, <1>2, <2>1
<1>11. ASSUME NEW d \in Dates PROVE DayRight(d)'
  <2>1. DayRight(d)
    BY <1>0, <1>10
  <2>2. /\ Cancelling(d) \in Nat /\ Reserved \in Nat /\ Claimed(d) \in Nat
        /\ Spare \in Nat /\ Room \in Nat /\ Cardinality(Requests) \in 1..Room /\ Claimed(d) <= Room
        /\ Total(d) \in Int /\ made[d] \in Nat /\ missed[d] \in Int
    BY <1>10, RoomForAll
  <2>3. Reserved' = Reserved + ReservedOf(e) - ReservedOf(request[r])
    BY <1>0, <1>4, SharesMove
  <2>4. /\ CancelOf(request[r], d) = (IF d = on THEN n ELSE 0) /\ ReservedOf(request[r]) = 0
        /\ PendingOf(request[r], d) = 0
        /\ CancelOf(e, d) = 0 /\ ReservedOf(e) = 0 /\ PendingOf(e, d) = 0
    BY <1>1, <1>2, <1>3, <1>4 DEF CancelOf, ReservedOf, PendingOf
  <2>5. /\ Total(d)' = IF d = on THEN Total(d) - n ELSE Total(d)
        /\ missed'[d] = missed[d] /\ made'[d] = made[d] /\ missed'[d] \in Int
    BY <1>0, <1>2, <1>3, <1>7, <1>8 DEF LimitTypeOK
  <2>6. ASSUME d = date PROVE made'[d] + Reserved' <= Room + missed'[d]
    <3>1. /\ made[d] + Cancelling(d) + Reserved <= Total(d) + Claimed(d)
          /\ made[d] + Reserved <= Room + missed[d]
      BY <2>1, <2>6 DEF DayRight, NowRight
    <3> QED BY <1>3, <2>2, <2>3, <2>4, <2>5, <2>6, <3>1
  <2>7. ASSUME d < date PROVE made'[d] <= Room + missed'[d]
    <3>1. made[d] + Cancelling(d) <= Total(d) + Cardinality(Requests) /\ made[d] <= Room + missed[d]
      BY <2>1, <2>7 DEF DayRight, PastRight
    <3> QED BY <1>3, <2>2, <2>5, <2>7, <3>1
  <2>8. d = date =>
          made'[d] - made[d] + CancelOf(e, d) - CancelOf(request[r], d)
            <= Total(d)' - Total(d) + PendingOf(e, d) - PendingOf(request[r], d)
    BY <1>3, <2>2, <2>4, <2>5
  <2>9. d < date =>
          made'[d] - made[d] + CancelOf(e, d) - CancelOf(request[r], d) <= Total(d)' - Total(d)
    BY <1>3, <2>2, <2>4, <2>5
  <2>10. made'[d] \in Nat /\ Total(d)' \in Int
    BY <1>3, <2>2, <2>5
  <2> QED BY <1>2, <1>3, <1>4, <1>10, <2>5, <2>6, <2>7, <2>8, <2>9, <2>10, DayAfter
<1> QED BY <1>2, <1>4, <1>6, <1>8, <1>9, <1>10, <1>11, LimitFrame

LEMMA MidnightKeeps ==
  ASSUME LimitAssumption, LimitHeld, Midnight
  PROVE  LimitHeld'
<1>0. /\ LimitTypeOK /\ request \in [Requests -> Entry]
      /\ \A q \in Requests : RequestRight(q) /\ request[q] \in Entry /\ Fits(request[q])
      /\ \A d \in Dates : KeyRight(d)
      /\ Barred => NothingIn
      /\ ~Barred => \A d \in Dates : DayRight(d)
  BY LimitFacts
<1>1. /\ counter' = counter /\ made' = made /\ request' = request /\ missed' = missed
      /\ date' = date + 1 /\ date \in Int /\ date' \in Dates
  BY <1>0 DEF Midnight, LimitTypeOK, Dates, LimitAssumption
<1>2. LimitTypeOK'
  BY <1>0, <1>1 DEF LimitTypeOK
<1>3. ASSUME NEW d \in Dates PROVE KeyRight(d)' /\ d \in Int
  BY <1>0, <1>1 DEF KeyRight, Dates
<1>4. ASSUME NEW r \in Requests PROVE RequestRight(r)'
  <2>1. RequestRight(r) /\ request[r].on \in Int
    BY <1>0 DEF Entry, Dates
  <2> QED BY <1>1, <2>1 DEF RequestRight
<1>5. Barred => NothingIn'
  BY <1>0, <1>1 DEF NothingIn
<1>6. ASSUME ~Barred, NEW d \in Dates PROVE DayRight(d)'
  <2>1. /\ Cancelling(d) \in Nat /\ Reserved \in Nat /\ Claimed(d) \in Nat
        /\ RowsPending(d) \in 0..Cardinality(Requests) /\ Cardinality(Requests) \in 1..Room
        /\ Room \in Nat /\ Reserved <= Room
        /\ Total(d) \in Int /\ made[d] \in Nat /\ missed[d] \in Int
    BY <1>6, RoomForAll
  <2>2. /\ Cancelling(d)' = Cancelling(d) /\ Reserved' = Reserved /\ Claimed(d)' = Claimed(d)
        /\ RowsPending(d)' = RowsPending(d) /\ Total(d)' = Total(d) /\ Room' = Room
        /\ made'[d] = made[d] /\ missed'[d] = missed[d]
    BY <1>1 DEF Cancelling, Reserved, Claimed, RowsPending, Total, Room, Spare
  <2>3. DayRight(d) /\ KeyRight(d) /\ d \in Int
    BY <1>0, <1>3, <1>6
  <2>4. ASSUME d = date + 1 PROVE NowRight(d)'
    <3>1. made[d] = 0 /\ Total(d) = 0 /\ missed[d] = 0
      BY <1>1, <2>1, <2>3, <2>4 DEF KeyRight, Total
    <3> DEFINE c == [q \in Requests |-> CancelOf(request[q], d)]
               z == [q \in Requests |-> 0]
               s == [q \in Requests |-> ReservedOf(request[q])]
               f == [q \in Requests |-> ClaimOf(request[q], d)]
    <3>2. \A q \in Requests : CancelOf(request[q], d) = 0
      <4> SUFFICES ASSUME NEW q \in Requests PROVE CancelOf(request[q], d) = 0
        OBVIOUS
      <4>1. request[q].on <= date
        BY <1>0 DEF RequestRight
      <4> QED BY <1>1, <2>4, <4>1 DEF CancelOf
    <3>3. Cancelling(d) = 0
      <4>1. {p \in Requests \X (1..JobSize) : p[2] <= c[p[1]]} = {}
        BY <3>2
      <4>2. Sum(c) = 0
        BY <4>1, FS_EmptySet DEF Sum
      <4> QED BY <4>2 DEF Cancelling
    <3>4. /\ s \in [Requests -> 0..JobSize] /\ f \in [Requests -> 0..JobSize]
          /\ \A q \in Requests : s[q] <= f[q]
      <4>1. \A q \in Requests : /\ ReservedOf(request[q]) \in 0..JobSize
                                /\ ClaimOf(request[q], d) \in 0..JobSize
                                /\ PendingOf(request[q], d) \in 0..1
        BY <1>0, EntryShares
      <4> QED BY <4>1 DEF ClaimOf
    <3>5. Reserved = Sum(s) /\ Claimed(d) = Sum(f)
      BY DEF Reserved, Claimed
    <3> HIDE DEF s, f
    <3>6. Reserved <= Claimed(d)
      BY <3>4, <3>5, SumUpTo
    <3> QED BY <2>1, <2>2, <3>1, <3>3, <3>6 DEF NowRight
  <2>5. ASSUME d = date PROVE PastRight(d)'
    <3>1. /\ made[d] + Cancelling(d) <= Total(d) + RowsPending(d)
          /\ made[d] + Reserved <= Room + missed[d]
      BY <2>3, <2>5 DEF DayRight, NowRight
    <3> QED BY <2>1, <2>2, <3>1 DEF PastRight
  <2>6. ASSUME d < date PROVE PastRight(d)'
    <3>1. /\ made[d] + Cancelling(d) <= Total(d) + Cardinality(Requests)
          /\ made[d] <= Room + missed[d]
      BY <2>3, <2>6 DEF DayRight, PastRight
    <3> QED BY <2>1, <2>2, <3>1 DEF PastRight
  <2> QED BY <1>1, <2>3, <2>4, <2>5, <2>6 DEF DayRight
<1>7. Barred' <=> Barred
  BY DEF Barred, Size
<1> QED BY <1>2, <1>3, <1>4, <1>5, <1>6, <1>7 DEF LimitHeld

LEMMA LimitStart ==
  ASSUME LimitAssumption, LimitInit
  PROVE  LimitHeld
<1>1. LimitTypeOK /\ date = 0
  BY DEF LimitInit, LimitTypeOK, Dates, FreeRequest, Pcs, LimitAssumption
<1>2. ASSUME NEW d \in Dates PROVE KeyRight(d) /\ d \in Nat
  BY DEF LimitInit, KeyRight, Dates
<1>3. ASSUME NEW r \in Requests PROVE RequestRight(r) /\ request[r].pc = "free"
  BY DEF LimitInit, RequestRight, FreeRequest
<1>4. NothingIn
  BY <1>3 DEF LimitInit, NothingIn
<1>5. ASSUME NEW d \in Dates PROVE DayRight(d)
  <2>1. \A r \in Requests : request[r] \in Entry /\ Fits(request[r])
    BY <1>1, <1>3, AllFit
  <2>2. request \in [Requests -> Entry]
    BY <1>1 DEF LimitTypeOK, Entry
  <2>3. /\ Cancelling(d) \in Nat /\ Reserved \in Nat /\ Claimed(d) \in Nat
        /\ RowsPending(d) \in 0..Cardinality(Requests) /\ Spare \in Nat
    BY <2>1, <2>2, SharesBounded
  <2>4. /\ \A q \in Requests : CancelOf(request[q], d) = 0 /\ ReservedOf(request[q]) = 0
    BY <1>3 DEF CancelOf, ReservedOf
  <2>5. Cancelling(d) = 0 /\ Reserved = 0
    <3> DEFINE c == [q \in Requests |-> CancelOf(request[q], d)]
               s == [q \in Requests |-> ReservedOf(request[q])]
    <3>1. /\ {p \in Requests \X (1..JobSize) : p[2] <= c[p[1]]} = {}
          /\ {p \in Requests \X (1..JobSize) : p[2] <= s[p[1]]} = {}
      BY <2>4
    <3>2. Sum(c) = 0 /\ Sum(s) = 0
      BY <3>1, FS_EmptySet DEF Sum
    <3> QED BY <3>2 DEF Cancelling, Reserved
  <2>6. made[d] = 0 /\ missed[d] = 0 /\ Total(d) = 0
    BY DEF LimitInit, Total
  <2>7. Room \in Nat
    BY <2>3 DEF Room, LimitAssumption
  <2>8. NowRight(d)
    BY <2>3, <2>5, <2>6, <2>7 DEF NowRight
  <2> QED BY <1>1, <1>2, <2>8 DEF DayRight
<1> QED BY <1>1, <1>2, <1>3, <1>4, <1>5 DEF LimitHeld

LEMMA LimitStep ==
  ASSUME LimitAssumption, LimitHeld, [LimitNext]_limitVars
  PROVE  LimitHeld'
<1>1. CASE UNCHANGED limitVars
  <2>1. /\ counter' = counter /\ made' = made /\ request' = request /\ date' = date /\ missed' = missed
    BY <1>1 DEF limitVars
  <2>2. LimitTypeOK' <=> LimitTypeOK
    BY <2>1 DEF LimitTypeOK
  <2>3. \A d \in Dates : KeyRight(d)' <=> KeyRight(d)
    BY <2>1 DEF KeyRight
  <2>4. \A r \in Requests : RequestRight(r)' <=> RequestRight(r)
    BY <2>1 DEF RequestRight
  <2>5. (Barred' <=> Barred) /\ (NothingIn' <=> NothingIn)
    BY <2>1 DEF Barred, Size, NothingIn
  <2>6. ASSUME NEW d \in Dates PROVE DayRight(d)' <=> DayRight(d)
    <3>1. /\ Cancelling(d)' = Cancelling(d) /\ Reserved' = Reserved /\ Claimed(d)' = Claimed(d)
          /\ RowsPending(d)' = RowsPending(d) /\ Total(d)' = Total(d) /\ Room' = Room
      BY <2>1 DEF Cancelling, Reserved, Claimed, RowsPending, Total, Room, Spare
    <3>2. (NowRight(d)' <=> NowRight(d)) /\ (PastRight(d)' <=> PastRight(d))
      BY <2>1, <3>1 DEF NowRight, PastRight
    <3> QED BY <2>1, <3>2 DEF DayRight
  <2> QED BY <2>2, <2>3, <2>4, <2>5, <2>6 DEF LimitHeld
<1>2. ASSUME NEW r \in Requests,
             \/ CheckLimit(r, Size(r))
             \/ SetZero(r) \/ SaveRequest(r) \/ GetKey(r) \/ SetOne(r) \/ Incr(r)
             \/ LoseCount(r)
             \/ \E d \in Dates : CancelLetters(r, d, Size(r))
             \/ AdjustLimit(r) \/ DecrBy(r)
      PROVE  LimitHeld'
  BY <1>2, CheckLimitKeeps, SetZeroKeeps, SaveRequestKeeps, GetKeyKeeps, SetOneKeeps, IncrKeeps,
     LoseCountKeeps, CancelLettersKeeps, AdjustLimitKeeps, DecrByKeeps
<1>3. CASE Midnight
  BY <1>3, MidnightKeeps
<1> QED BY <1>1, <1>2, <1>3 DEF LimitNext

LEMMA LimitFollows ==
  ASSUME LimitAssumption, LimitHeld
  PROVE  LimitInv
<1>0. /\ LimitTypeOK /\ request \in [Requests -> Entry]
      /\ \A q \in Requests : RequestRight(q) /\ request[q] \in Entry /\ Fits(request[q])
      /\ \A d \in Dates : KeyRight(d)
      /\ Barred => NothingIn
      /\ ~Barred => \A d \in Dates : DayRight(d)
  BY LimitFacts
<1>1. ASSUME NEW d \in Dates
      PROVE  /\ Cancelling(d) \in Nat /\ Reserved \in Nat /\ RowsPending(d) \in Nat
             /\ CancelsPending(d) \in Nat /\ CancelsPending(d) <= Cancelling(d)
             /\ Spare \in Nat /\ Room \in Nat /\ Limit \in Nat
             /\ Total(d) \in Int /\ made[d] \in Nat /\ missed[d] \in Int
             /\ d \in Int /\ date \in Int /\ (d > date => made[d] = 0 /\ missed[d] = 0)
  <2>1. /\ Cancelling(d) \in Nat /\ Reserved \in Nat
        /\ RowsPending(d) \in 0..Cardinality(Requests)
        /\ CancelsPending(d) \in Nat /\ CancelsPending(d) <= Cancelling(d)
        /\ Spare \in Nat
    BY <1>0, SharesBounded
  <2>2. Limit \in Nat /\ Room \in Nat
    BY <2>1 DEF LimitAssumption, Room
  <2>3. Total(d) \in Int /\ made[d] \in Nat /\ missed[d] \in Int /\ d \in Int /\ date \in Int
    BY <1>0 DEF LimitTypeOK, Dates, Total
  <2>4. d > date => made[d] = 0 /\ missed[d] = 0
    BY <1>0 DEF KeyRight
  <2> QED BY <2>1, <2>2, <2>3, <2>4
<1>2. ASSUME NEW d \in Dates PROVE made[d] <= Room + missed[d]
  <2>1. CASE Barred
    <3>1. made[d] = 0 /\ missed[d] = 0
      BY <1>0, <2>1 DEF NothingIn
    <3> QED BY <1>1, <3>1
  <2>2. CASE ~Barred /\ d = date
    <3>1. made[d] + Reserved <= Room + missed[d]
      BY <1>0, <2>2 DEF DayRight, NowRight
    <3> QED BY <1>1, <3>1
  <2>3. CASE ~Barred /\ d < date
    BY <1>0, <2>3 DEF DayRight, PastRight
  <2>4. CASE d > date
    BY <1>1, <2>4
  <2> QED BY <1>1, <2>1, <2>2, <2>3, <2>4
<1>3. LimitHolds
  BY <1>2 DEF LimitHolds, Room, Spare
<1>4. ASSUME NEW d \in Dates, d = date
      PROVE  made[d] <= Total(d) + RowsPending(d) - CancelsPending(d)
  <2>1. CASE Barred
    <3>1. made[d] = 0 /\ Total(d) = 0
      BY <1>0, <2>1 DEF NothingIn, Total
    <3>2. \A q \in Requests : request[q].pc # "decr"
      BY <1>0, <2>1 DEF NothingIn
    <3>3. CancelsPending(d) = 0
      <4>1. {p \in Requests \X (1..JobSize) :
               LET e == request[p[1]] IN e.pc = "decr" /\ e.on = d /\ p[2] <= e.n} = {}
        BY <3>2
      <4> QED BY <4>1, FS_EmptySet DEF CancelsPending
    <3> QED BY <1>1, <3>1, <3>3
  <2>2. CASE ~Barred
    <3>1. made[d] + Cancelling(d) <= Total(d) + RowsPending(d)
      BY <1>0, <1>4, <2>2 DEF DayRight, NowRight
    <3> QED BY <1>1, <3>1
  <2> QED BY <2>1, <2>2
<1>5. RowsAreCounted
  BY <1>4 DEF RowsAreCounted, Total
<1> QED BY <1>3, <1>5 DEF LimitInv

\* For any requests, jobs and limit: the rows of a day exceed the service's limit by no
\* more than what the other requests in flight were let in for and the counts that were lost, and
\* the counter of today misses only what is being counted or was lost
\* (check_service_over_daily_message_limit, increment_daily_limit_cache,
\* adjust_daily_service_limits_for_cancelled_letters).
THEOREM LimitKept == LimitSpec => [](LimitInv /\ LimitTypeOK)
<1>1. LimitInit => LimitHeld
  BY LimitAssumption, LimitStart
<1>2. LimitHeld /\ [LimitNext]_limitVars => LimitHeld'
  BY LimitAssumption, LimitStep
<1>3. LimitHeld => LimitInv /\ LimitTypeOK
  BY LimitAssumption, LimitFollows DEF LimitHeld
<1> QED BY <1>1, <1>2, <1>3, PTL DEF LimitSpec
=============================================================================
