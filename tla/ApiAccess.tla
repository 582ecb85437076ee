----------------------------- MODULE ApiAccess -----------------------------
(***************************************************************************)
(* How an API process knows a service and its keys: Redis holds the        *)
(* service, and every process has two memory caches with a time to live,   *)
(* one of service objects and one of collections of API keys; a service    *)
(* object keeps the collection it was first asked for.                     *)
(***************************************************************************)
EXTENDS Integers

CONSTANTS Procs,        \* API processes
          ApiKeys,      \* API keys of the service
          Ttl,          \* ttl of the memory caches, in ticks
          Nothing       \* no cached value

ASSUME AccessAssumption == Ttl \in Nat \ {0}

VARIABLES active,       \* Service.active
          keyState,     \* each key in the database: none, usable or expired
          redis,        \* Service.active under "service-{id}", or Nothing
          memory,       \* the memory caches of each process
          endedFor,     \* auxiliary: ticks since the key was expired
          closedFor     \* auxiliary: ticks since the service with this key closed

accessVars == <<active, keyState, redis, memory, endedFor, closedFor>>

EmptyMemory == [service |-> Nothing, serviceAge |-> 0, attached |-> Nothing,
                keys |-> Nothing, keysAge |-> 0]
Unending == 0..(2 * Ttl + 1)

AccessTypeOK ==
  /\ active \in BOOLEAN
  /\ keyState \in [ApiKeys -> {"none", "usable", "expired"}]
  /\ redis \in {Nothing, TRUE, FALSE}
  /\ \A p \in Procs : /\ memory[p].service \in {Nothing, TRUE, FALSE}
                      /\ memory[p].keys \in {Nothing} \cup SUBSET ApiKeys
                      /\ memory[p].attached \in {Nothing} \cup SUBSET ApiKeys
                      /\ {memory[p].serviceAge, memory[p].keysAge} \subseteq 0..(Ttl - 1)
  /\ endedFor \in [ApiKeys -> Unending] /\ closedFor \in [ApiKeys -> Unending]

AccessInit ==
  /\ active = TRUE
  /\ keyState = [k \in ApiKeys |-> "none"]
  /\ redis = Nothing
  /\ memory = [p \in Procs |-> EmptyMemory]
  /\ endedFor = [k \in ApiKeys |-> 0] /\ closedFor = [k \in ApiKeys |-> 0]

\* create_api_key does not ask whether the service is active.
CreateKey(k) ==
  /\ keyState[k] = "none"
  /\ keyState' = [keyState EXCEPT ![k] = "usable"]
  /\ UNCHANGED <<active, redis, memory, endedFor, closedFor>>

RevokeKey(k) ==
  /\ keyState[k] = "usable"
  /\ keyState' = [keyState EXCEPT ![k] = "expired"]
  /\ UNCHANGED <<active, redis, memory, endedFor, closedFor>>

ExpireNone(k) == keyState[k]                                            \* mutant
\* archive_service, dao_archive_service: the service and its keys in one transaction.
Expire(k) == IF keyState[k] = "usable" THEN "expired" ELSE keyState[k]

ArchiveService ==
  /\ active
  /\ active' = FALSE
  /\ keyState' = [k \in ApiKeys |-> Expire(k)]
  /\ closedFor' = [k \in ApiKeys |-> IF keyState[k] = "none" THEN 0 ELSE 1]
  /\ UNCHANGED <<redis, memory, endedFor>>

\* The admin app deletes the cached service after it has changed it (external).
InvalidateService ==
  /\ redis # Nothing
  /\ redis' = Nothing
  /\ UNCHANGED <<active, keyState, memory, endedFor, closedFor>>

\* SerialisedService.from_id: the memory cache, else Redis, else the database.  What
\* was read from the database is SET in Redis some time later: it may be `late', from
\* before a change that others have committed and invalidated since.
LoadService(p, late) ==
  /\ memory[p].service = Nothing
  /\ LET found == CASE redis # Nothing -> redis
                    [] redis = Nothing /\ late -> TRUE
                    [] OTHER -> active
     IN /\ redis' = found
        /\ memory' = [memory EXCEPT ![p].service = found, ![p].serviceAge = 0,
                                    ![p].attached = Nothing]
  /\ UNCHANGED <<active, keyState, endedFor, closedFor>>

\* get_model_api_keys also returns keys that expired in the last week, for a better
\* error message: requires_auth refuses them.
Usable == {k \in ApiKeys : keyState[k] = "usable"}

\* service.api_keys: the keys kept with the service object, else the memory cache
\* of SerialisedAPIKeyCollection.from_service_id, else the database.
AttachKeys(p) ==
  /\ memory[p].service # Nothing /\ memory[p].attached = Nothing
  /\ memory' = [memory EXCEPT
       ![p].attached = IF memory[p].keys # Nothing THEN memory[p].keys ELSE Usable,
       ![p].keys = IF @ # Nothing THEN @ ELSE Usable,
       ![p].keysAge = IF memory[p].keys # Nothing THEN @ ELSE 0]
  /\ UNCHANGED <<active, keyState, redis, endedFor, closedFor>>

\* requires_auth accepts a request that is signed with k.
Accepts(p, k) ==
  /\ memory[p].service = TRUE
  /\ memory[p].attached # Nothing
  /\ k \in memory[p].attached

\* cachetools.TTLCache
Fresh(age) == age < Ttl

\* An entry past its time to live leaves its cache, a service object with the keys
\* it holds.
Aged(m) ==
  LET s == m.service # Nothing /\ Fresh(m.serviceAge + 1)
      c == m.keys # Nothing /\ Fresh(m.keysAge + 1)
  IN [service |-> IF s THEN m.service ELSE Nothing,
      serviceAge |-> IF s THEN m.serviceAge + 1 ELSE 0,
      attached |-> IF s THEN m.attached ELSE Nothing,
      keys |-> IF c THEN m.keys ELSE Nothing,
      keysAge |-> IF c THEN m.keysAge + 1 ELSE 0]

Longer(n) == IF n <= 2 * Ttl THEN n + 1 ELSE n

Second ==
  /\ memory' = [p \in Procs |-> Aged(memory[p])]
  /\ endedFor' = [k \in ApiKeys |-> IF keyState[k] = "expired" THEN Longer(endedFor[k])
                                    ELSE 0]
  /\ closedFor' = [k \in ApiKeys |-> IF closedFor[k] > 0 THEN Longer(closedFor[k])
                                     ELSE 0]
  /\ UNCHANGED <<active, keyState, redis>>

AccessNext ==
  \/ \E k \in ApiKeys : CreateKey(k) \/ RevokeKey(k)
  \/ ArchiveService \/ InvalidateService
  \/ \E p \in Procs :
       \/ \E late \in BOOLEAN : LoadService(p, late)
       \/ AttachKeys(p)
  \/ Second

AccessSpec == AccessInit /\ [][AccessNext]_accessVars

-----------------------------------------------------------------------------
\* A revoked key, and every key that a service had when it was archived, is refused
\* by every process within twice the time to live of the memory caches: the keys may
\* be attached to a new service object when they are about to leave their own cache,
\* and stay with it.  It does not matter how stale the service in Redis is, since
\* archiving expires the keys too (requires_auth, dao_archive_service).
EndedSoonRefused ==
  \A p \in Procs, k \in ApiKeys : Accepts(p, k) =>
    endedFor[k] < 2 * Ttl /\ closedFor[k] <= 2 * Ttl
=============================================================================
