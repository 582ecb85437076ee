---------------------------- MODULE DailyLimits ----------------------------
(***************************************************************************)
(* The daily message limit of a service, kept in Redis: one counter per    *)
(* channel and day, checked before a message (or a job of several) is      *)
(* accepted, incremented after each row is saved and decremented when      *)
(* letters are cancelled.  Each access to Redis or to the database is a    *)
(* step of its own; nothing locks the counter between them.                *)
(***************************************************************************)
EXTENDS Integers, FiniteSets

CONSTANTS Requests,   \* requests and jobs that may be in flight at once
          JobSlots,   \* those of them that are jobs
          Limit,      \* service.letter_message_limit
          JobSize,    \* rows of a job
          LastDate,   \* bound: the dates are 0..LastDate
          MaxLost,    \* bound: rows are lost while no counter lacks as many
          NoKey       \* GET of a key that does not exist

ASSUME LimitAssumption ==
  /\ IsFiniteSet(Requests) /\ Requests # {} /\ JobSlots \subseteq Requests
  /\ Limit \in Nat /\ JobSize \in Nat \ {0} /\ LastDate \in Nat
  /\ NoKey \notin Int

VARIABLES counter,    \* the key of each date: a number, or NoKey
          made,       \* rows that stand (made and not cancelled), by creation date
          request,    \* where each request is
          date,       \* the date of the servers' clock
          missed      \* auxiliary: counts lost, to SETs over an existing key or before INCR

limitVars == <<counter, made, request, date, missed>>

Dates == 0..LastDate
Size(r) == IF r \in JobSlots THEN JobSize ELSE 1
FreeRequest == [pc |-> "free", n |-> 0, on |-> 0]
Accepted(n) == [pc |-> "save", n |-> n, on |-> 0]   \* n rows to be saved
Pcs == {"free", "zero", "save", "get", "one", "incr", "adjust", "decr"}

LimitTypeOK ==
  /\ counter \in [Dates -> {NoKey} \cup Int]
  /\ made \in [Dates -> Nat]
  /\ request \in [Requests -> [pc : Pcs, n : 0..JobSize, on : Dates]]
  /\ date \in Dates
  /\ missed \in [Dates -> Int]

LimitInit ==
  /\ counter = [d \in Dates |-> NoKey]
  /\ made = [d \in Dates |-> 0]
  /\ request = [r \in Requests |-> FreeRequest]
  /\ date = 0
  /\ missed = [d \in Dates |-> 0]

\* SET key: replaces whatever is there.
SetKey(d, v) ==
  /\ counter' = [counter EXCEPT ![d] = v]
  /\ missed' = [missed EXCEPT ![d] = IF counter[d] = NoKey THEN @ ELSE @ + counter[d]]

OverLimitLate(stats, n) == stats > Limit                           \* mutant
OverLimit(stats, n) == stats + n > Limit

\* check_service_over_daily_message_limit: the read ...
CheckLimit(r, n) ==
  /\ request[r].pc = "free"
  /\ request' = [request EXCEPT ![r] =
       IF counter[date] = NoKey
       THEN [pc |-> "zero", n |-> n, on |-> date]
       ELSE IF OverLimit(counter[date], n) THEN FreeRequest
       ELSE Accepted(n)]
  /\ UNCHANGED <<counter, made, date, missed>>

\* ... and, for the first message of the day, the SET.
SetZero(r) ==
  /\ request[r].pc = "zero"
  /\ SetKey(request[r].on, 0)
  /\ request' = [request EXCEPT ![r] =
       IF OverLimit(0, @.n) THEN FreeRequest ELSE Accepted(@.n)]
  /\ UNCHANGED <<made, date>>

\* persist_notification saves a row.
SaveRequest(r) ==
  /\ request[r].pc = "save"
  /\ made' = [made EXCEPT ![date] = @ + 1]
  /\ request' = [request EXCEPT ![r] = [pc |-> "get", n |-> @.n - 1, on |-> date]]
  /\ UNCHANGED <<counter, date, missed>>

\* increment_daily_limit_cache: GET ...
GetKey(r) ==
  /\ request[r].pc = "get"
  /\ request' = [request EXCEPT ![r].on = date,
                   ![r].pc = IF counter[date] = NoKey THEN "one" ELSE "incr"]
  /\ UNCHANGED <<counter, made, date, missed>>

RequestCounted(r) == IF request[r].n = 0 THEN FreeRequest ELSE Accepted(request[r].n)

\* ... then SET 1 when there is no key ...
SetOne(r) ==
  /\ request[r].pc = "one"
  /\ SetKey(request[r].on, 1)
  /\ request' = [request EXCEPT ![r] = RequestCounted(r)]
  /\ UNCHANGED <<made, date>>

\* ... and INCR, atomic in Redis, when there is one.
Incr(r) ==
  /\ request[r].pc = "incr"
  /\ counter' = [counter EXCEPT ![request[r].on] = @ + 1]
  /\ request' = [request EXCEPT ![r] = RequestCounted(r)]
  /\ UNCHANGED <<made, date, missed>>

\* The process dies after the commit of the row, or Redis does not answer and the request
\* goes on: the row is not counted.
LoseCount(r) ==
  /\ request[r].pc \in {"get", "one", "incr"}
  /\ \A d \in Dates : missed[d] < MaxLost
  /\ missed' = [missed EXCEPT ![request[r].on] = @ + 1]
  /\ \E e \in {FreeRequest, RequestCounted(r)} : request' = [request EXCEPT ![r] = e]
  /\ UNCHANGED <<counter, made, date>>

\* cancel_letter_job and cancel_notification_for_service commit the cancellation of
\* n letters made on date d.
CancelLetters(r, d, n) ==
  /\ request[r].pc = "free" /\ made[d] >= n
  /\ made' = [made EXCEPT ![d] = @ - n]
  /\ request' = [request EXCEPT ![r] = [pc |-> "adjust", n |-> n, on |-> d]]
  /\ UNCHANGED <<counter, date, missed>>

\* adjust_daily_service_limits_for_cancelled_letters: today's letters only, and only
\* when the counter it reads would not turn negative.
MayAdjust(d, n) == d = date /\ counter[d] # NoKey /\ counter[d] - n >= 0

AdjustLimit(r) ==
  /\ request[r].pc = "adjust"
  /\ request' = [request EXCEPT ![r] =
       IF MayAdjust(@.on, @.n) THEN [pc |-> "decr", n |-> @.n, on |-> date]
       ELSE FreeRequest]
  /\ UNCHANGED <<counter, made, date, missed>>

DecrBy(r) ==
  /\ request[r].pc = "decr"
  /\ counter' = [counter EXCEPT ![request[r].on] = @ - request[r].n]
  /\ request' = [request EXCEPT ![r] = FreeRequest]
  /\ UNCHANGED <<made, date, missed>>

\* The key names the date, so a new day has a new key.
Midnight ==
  /\ date < LastDate
  /\ date' = date + 1
  /\ UNCHANGED <<counter, made, request, missed>>

LimitNext ==
  \/ \E r \in Requests :
       \/ CheckLimit(r, Size(r))
       \/ SetZero(r) \/ SaveRequest(r) \/ GetKey(r) \/ SetOne(r) \/ Incr(r)
       \/ LoseCount(r)
       \/ \E d \in Dates : CancelLetters(r, d, Size(r))
       \/ AdjustLimit(r) \/ DecrBy(r)
  \/ Midnight

LimitSpec == LimitInit /\ [][LimitNext]_limitVars

-----------------------------------------------------------------------------
\* Rows of a day that are saved and not yet counted, and letters whose cancellation is
\* about to be taken from its counter: the i-th of request r, for every i up to its n.
RowsPending(d) ==
  Cardinality({r \in Requests : request[r].pc \in {"get", "incr", "one"} /\ request[r].on = d})
CancelsPending(d) ==
  Cardinality({p \in Requests \X (1..JobSize) :
                 LET e == request[p[1]] IN e.pc = "decr" /\ e.on = d /\ p[2] <= e.n})

\* Every row of a day is in its counter, about to be counted, or was lost when a
\* slow "first message of the day" SET the key that others had begun to count on, or
\* its process or Redis failed (validators.py, increment_daily_limit_cache):
\* cancellations, however they overlap with counting and with midnight, take away no
\* more than they cancelled.
RowsAreCounted ==
  \A d \in Dates :
    LET count == IF counter[d] = NoKey THEN 0 ELSE counter[d] IN
    d = date => made[d] <= count + missed[d] + RowsPending(d) - CancelsPending(d)

\* A service exceeds its limit of a day by no more than the other requests in
\* flight were accepted for, and by the counts that were lost: checking and counting in
\* separate calls costs at most the overlap.
LimitHolds ==
  \A d \in Dates :
    made[d] <= Limit + (Cardinality(Requests) - 1) * JobSize + missed[d]

\* The limit holds and the counter it is checked against is right, both up to
\* the counts that were lost.
LimitInv == LimitHolds /\ RowsAreCounted
=============================================================================
