---------------------------- MODULE DvlaPassword ----------------------------
(***************************************************************************)
(* The password of the letter printing API: change_dvla_password changes   *)
(* it at DVLA and then in the SSM parameter store, under a Redis lock that *)
(* expires, while workers that send letters authenticate with the copy     *)
(* their process has cached.  change_dvla_api_key works in the same way.   *)
(***************************************************************************)
EXTENDS Integers

CONSTANTS Changers,     \* runs of change_dvla_password
          Clients,      \* processes that send letters
          MaxTries,     \* 1 + max_retries
          MaxSecret,    \* bound on passwords, numbered in order
          NoValue       \* SSMParameter._value is None

ASSUME DvlaAssumption == MaxSecret \in Nat /\ MaxTries \in Nat

VARIABLES atDvla,       \* the password that DVLA accepts (external)
          inSsm,        \* the value in the parameter store
          lock,         \* who holds the Redis lock, or NoValue
          changer,      \* the runs
          cached,       \* the value each client has cached
          broken        \* auxiliary: a change was made at DVLA and could not be saved

dvlaVars == <<atDvla, inSsm, lock, changer, cached, broken>>

NoChange == [pc |-> "idle", old |-> NoValue, tries |-> 0]

DvlaTypeOK ==
  /\ atDvla \in 0..MaxSecret /\ inSsm \in 0..MaxSecret
  /\ lock \in Changers \cup {NoValue}
  /\ \A c \in Changers : /\ changer[c].pc \in {"idle", "locked", "post", "save"}
                         /\ changer[c].old \in {NoValue} \cup 0..MaxSecret
                         /\ changer[c].tries \in 0..MaxTries
  /\ cached \in [Clients -> {NoValue} \cup 0..MaxSecret]
  /\ broken \in BOOLEAN

DvlaInit ==
  /\ atDvla = 0 /\ inSsm = 0 /\ lock = NoValue /\ broken = FALSE
  /\ changer = [c \in Changers |-> NoChange]
  /\ cached = [p \in Clients |-> NoValue]

Release(c) == lock' = IF lock = c THEN NoValue ELSE lock

\* The lock is taken or, held by another run, the task quietly exits.
TakeLock(c) ==
  /\ changer[c].pc = "idle" /\ changer[c].tries < MaxTries /\ lock = NoValue
  /\ lock' = c
  /\ changer' = [changer EXCEPT ![c].pc = "locked", ![c].tries = @ + 1]
  /\ UNCHANGED <<atDvla, inSsm, cached, broken>>

\* clear and get: the value of the parameter store.
ReadPassword(c) ==
  /\ changer[c].pc = "locked"
  /\ changer' = [changer EXCEPT ![c].pc = "post", ![c].old = inSsm]
  /\ UNCHANGED <<atDvla, inSsm, lock, cached, broken>>

\* DVLA changes the password when the old one is right, and answers.
PostPassword(c) ==
  /\ changer[c].pc = "post" /\ changer[c].old = atDvla /\ atDvla < MaxSecret
  /\ atDvla' = atDvla + 1
  /\ changer' = [changer EXCEPT ![c].pc = "save", ![c].old = atDvla + 1]
  /\ UNCHANGED <<inSsm, lock, cached, broken>>

SaveAnyway(c) == /\ inSsm' = (IF changer[c].old < MaxSecret THEN changer[c].old + 1
                              ELSE changer[c].old)                      \* mutant
\* DvlaNonRetryableException: a 401 leaves the parameter as it is.
LeavePassword(c) == inSsm' = inSsm

PostRefused(c) ==
  /\ changer[c].pc = "post" /\ changer[c].old # atDvla
  /\ changer' = [changer EXCEPT ![c] = [NoChange EXCEPT !.tries = MaxTries]]
  /\ LeavePassword(c)
  /\ Release(c)
  /\ UNCHANGED <<atDvla, cached, broken>>

\* A timeout or a server error, after (made) or before DVLA changed the password: the
\* task is retried.
PostFails(c, made) ==
  /\ changer[c].pc = "post"
  /\ made => changer[c].old = atDvla /\ atDvla < MaxSecret
  /\ atDvla' = IF made THEN atDvla + 1 ELSE atDvla
  /\ broken' = (broken \/ made)
  /\ changer' = [changer EXCEPT ![c].pc = "idle", ![c].old = NoValue]
  /\ Release(c)
  /\ UNCHANGED <<inSsm, cached>>

\* self.dvla_password.set(new_password)
SavePassword(c) ==
  /\ changer[c].pc = "save"
  /\ inSsm' = changer[c].old
  /\ changer' = [changer EXCEPT ![c] = [NoChange EXCEPT !.tries = MaxTries]]
  /\ Release(c)
  /\ UNCHANGED <<atDvla, cached, broken>>

\* A worker dies; the lock stays until it expires.
CrashChange(c) ==
  /\ changer[c].pc # "idle"
  /\ broken' = (broken \/ changer[c].pc = "save")
  /\ changer' = [changer EXCEPT ![c] = [NoChange EXCEPT !.tries = MaxTries]]
  /\ UNCHANGED <<atDvla, inSsm, lock, cached>>

\* Sixty seconds, however far the holder is.
LockExpires ==
  /\ lock # NoValue
  /\ lock' = NoValue
  /\ UNCHANGED <<atDvla, inSsm, changer, cached, broken>>

\* authenticate: the cached value, else the store; a 401 clears the cache.
Authenticate(p) ==
  LET value == IF cached[p] = NoValue THEN inSsm ELSE cached[p] IN
  /\ cached' = [cached EXCEPT ![p] = IF value = atDvla THEN value ELSE NoValue]
  /\ UNCHANGED <<atDvla, inSsm, lock, changer, broken>>

DvlaNext ==
  \/ \E c \in Changers : \/ TakeLock(c) \/ ReadPassword(c) \/ PostPassword(c)
                         \/ PostRefused(c) \/ (\E made \in BOOLEAN : PostFails(c, made))
                         \/ SavePassword(c) \/ CrashChange(c)
  \/ LockExpires
  \/ \E p \in Clients : Authenticate(p)

DvlaSpec == DvlaInit /\ [][DvlaNext]_dvlaVars

-----------------------------------------------------------------------------
\* Overlapping runs, a lock that expires under its holder and refused changes never
\* lose the password: the store has the one DVLA accepts, or exactly one run is about
\* to save it, unless an answer of DVLA was lost or the worker died before it saved
\* (change_password: "at which point we need to manually reset it").
PasswordNotLost ==
  ~broken => \/ inSsm = atDvla /\ \A c \in Changers : changer[c].pc # "save"
             \/ \E c \in Changers : /\ changer[c].pc = "save" /\ changer[c].old = atDvla
                                    /\ \A d \in Changers \ {c} : changer[d].pc # "save"
=============================================================================
