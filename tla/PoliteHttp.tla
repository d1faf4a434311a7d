----------------------------- MODULE PoliteHttp -----------------------------
(***************************************************************************)
(* toolkits/url_crawl/polite_http.py: the requests of one client to one    *)
(* domain.  A request takes a permit of the domain's semaphore, then a     *)
(* token of its bucket, passes the circuit breaker and runs; it may be     *)
(* tried again after a delay, or be cancelled at any await.                *)
(*                                                                         *)
(* A step is the code between two awaits: the locks of the bucket and of   *)
(* the breaker are never held across one.  Time is counted in units of     *)
(* 1/rps, in which the bucket gains one token.                             *)
(***************************************************************************)
EXTENDS Naturals, Sequences, FiniteSets

CONSTANTS Requests,
          Concurrent,   \* RateLimit.concurrent
          Burst,        \* RateLimit.burst
          MaxRetries,
          Threshold,    \* circuit_breaker_threshold
          HalfOpenMax,  \* circuit_breaker_half_open_max
          ResetTime     \* circuit_breaker_reset_sec

ASSUME HttpAssumption ==
    /\ Concurrent \in Nat \ {0} /\ Burst \in Nat \ {0}
    /\ MaxRetries \in Nat
    /\ Threshold \in Nat \ {0} /\ HalfOpenMax \in Nat \ {0}
    /\ ResetTime \in Nat

VARIABLES
    at,         \* where each request stands
    attempt,    \* the attempt of its loop it is in
    due,        \* has the sleep of a request ended?
    queue,      \* the requests that wait for the semaphore, in their order
    permits,    \* the value of the semaphore
    lost,       \* the requests that ended without giving back their permit
    tokens,     \* tokens of the bucket
    breaker,    \* the breaker's state
    failures,
    successes,
    cool        \* time since last_failure_time, as far as ResetTime

httpVars == <<at, attempt, due, queue, permits, lost, tokens, breaker, failures,
              successes, cool>>
breakerVars == <<breaker, failures, successes, cool>>

Finished == {"done", "failed", "gone"}
Holding == {"token", "call"}   \* has a permit

HttpTypeOK ==
    /\ at \in [Requests -> {"new", "queue", "backoff"} \cup Holding \cup Finished]
    /\ attempt \in [Requests -> 0 .. MaxRetries]
    /\ due \in [Requests -> BOOLEAN]
    /\ queue \in Seq(Requests)
    /\ permits \in 0 .. Concurrent
    /\ lost \in SUBSET Requests
    /\ tokens \in 0 .. Burst
    /\ breaker \in {"closed", "open", "half_open"}
    /\ failures \in Nat /\ successes \in Nat
    /\ cool \in 0 .. ResetTime

HttpInit ==
    /\ at = [r \in Requests |-> "new"]
    /\ attempt = [r \in Requests |-> 0]
    /\ due = [r \in Requests |-> FALSE]
    /\ queue = <<>>
    /\ permits = Concurrent
    /\ lost = {}
    /\ tokens = Burst
    /\ breaker = "closed"
    /\ failures = 0 /\ successes = 0
    /\ cool = 0

Moves(r, where) == at' = [at EXCEPT ![r] = where]
-----------------------------------------------------------------------------
(* DomainRateLimiter and TokenBucket                                       *)

\* semaphore.acquire: first come, first served.
Enqueue(r) ==
    /\ at[r] = "new" \/ (at[r] = "backoff" /\ due[r])
    /\ queue' = Append(queue, r)
    /\ attempt' = [attempt EXCEPT ![r] = IF at[r] = "backoff" THEN @ + 1 ELSE @]
    /\ due' = [due EXCEPT ![r] = FALSE]
    /\ Moves(r, "queue")
    /\ UNCHANGED <<permits, lost, tokens, breakerVars>>

MayEnter == queue # <<>> /\ permits > 0

\* CircuitBreaker.call up to the await of the request; an open breaker
\* refuses it, which is no failure of its own.
Cooled == breaker = "open" /\ cool >= ResetTime
Refused == breaker = "open" /\ ~Cooled

EnterBreaker(r, free) ==
    /\ IF Refused
       THEN Moves(r, "failed") /\ permits' = free + 1
       ELSE Moves(r, "call") /\ permits' = free
    /\ breaker' = IF Cooled THEN "half_open" ELSE breaker
    /\ successes' = IF Cooled THEN 0 ELSE successes
    /\ UNCHANGED <<failures, cool>>

\* A permit and a token at once.
Enter(r) ==
    /\ MayEnter /\ r = Head(queue)
    /\ tokens > 0
    /\ queue' = Tail(queue)
    /\ tokens' = tokens - 1
    /\ EnterBreaker(r, permits - 1)
    /\ UNCHANGED <<attempt, due, lost>>

\* Mutant of Throttle: it hands its permit back while it sleeps.
ThrottleEager(r) ==
    /\ MayEnter /\ r = Head(queue)
    /\ tokens = 0
    /\ queue' = Tail(queue)
    /\ Moves(r, "token")
    /\ UNCHANGED <<attempt, due, lost, permits, tokens, breakerVars>>

\* The bucket is empty: the request sleeps with its permit for the time one
\* token takes, whoever else sleeps for the same token.
Throttle(r) ==
    /\ MayEnter /\ r = Head(queue)
    /\ tokens = 0
    /\ queue' = Tail(queue)
    /\ permits' = permits - 1
    /\ Moves(r, "token")
    /\ UNCHANGED <<attempt, due, lost, tokens, breakerVars>>

TokenDue(r) ==
    /\ at[r] = "token" /\ due[r]
    /\ due' = [due EXCEPT ![r] = FALSE]
    /\ EnterBreaker(r, permits)
    /\ UNCHANGED <<attempt, queue, lost, tokens>>

-----------------------------------------------------------------------------
(* CircuitBreaker and PoliteHTTPClient.request                             *)

\* Mutant of OnSuccess: the failures of the past stay when the breaker closes.
OnSuccessKeeps ==
    IF breaker = "half_open"
    THEN /\ successes' = IF successes + 1 >= HalfOpenMax THEN 0 ELSE successes + 1
         /\ breaker' = IF successes + 1 >= HalfOpenMax THEN "closed" ELSE breaker
         /\ UNCHANGED failures
    ELSE /\ failures' = IF failures > 0 THEN failures - 1 ELSE 0
         /\ UNCHANGED <<successes, breaker>>

\* A success counts in whatever state the breaker is by now.
OnSuccess ==
    IF breaker = "half_open"
    THEN IF successes + 1 >= HalfOpenMax
         THEN breaker' = "closed" /\ failures' = 0 /\ successes' = 0
         ELSE successes' = successes + 1 /\ UNCHANGED <<breaker, failures>>
    ELSE /\ failures' = IF failures > 0 THEN failures - 1 ELSE 0
         /\ UNCHANGED <<successes, breaker>>

OnFailure ==
    /\ failures' = failures + 1
    /\ cool' = 0
    /\ breaker' = IF breaker = "half_open" \/ failures + 1 >= Threshold
                  THEN "open" ELSE breaker
    /\ UNCHANGED successes

Return(r) ==
    /\ at[r] = "call"
    /\ OnSuccess
    /\ Moves(r, "done")
    /\ permits' = permits + 1
    /\ UNCHANGED <<attempt, due, queue, lost, tokens, cool>>

\* A retryable error, with attempts left.
Retry(r) ==
    /\ at[r] = "call"
    /\ attempt[r] < MaxRetries
    /\ OnFailure
    /\ Moves(r, "backoff")
    /\ permits' = permits + 1
    /\ UNCHANGED <<attempt, due, queue, lost, tokens>>

\* Mutant of Fail: the error leaves without passing through the finally.
FailHolding(r) ==
    /\ at[r] = "call"
    /\ OnFailure
    /\ Moves(r, "failed")
    /\ UNCHANGED <<attempt, due, queue, permits, lost, tokens>>

\* The last attempt, or an error that is not retried.
Fail(r) ==
    /\ at[r] = "call"
    /\ OnFailure
    /\ Moves(r, "failed")
    /\ permits' = permits + 1
    /\ UNCHANGED <<attempt, due, queue, lost, tokens>>

\* The queue without r, which waits in it.
Without(r) ==
    LET k == CHOOSE i \in 1 .. Len(queue) : queue[i] = r
    IN  [i \in 1 .. Len(queue) - 1 |-> queue[IF i < k THEN i ELSE i + 1]]

\* Cancelled: a request gives its permit back in the finally around the
\* call; in the sleep for a token only "except Exception" would do it.
CancelRequest(r) ==
    /\ at[r] \in {"queue", "backoff"} \cup Holding
    /\ Moves(r, "gone")
    /\ queue' = IF at[r] = "queue" THEN Without(r) ELSE queue
    /\ permits' = IF at[r] = "call" THEN permits + 1 ELSE permits
    /\ lost' = IF at[r] = "token" THEN lost \cup {r} ELSE lost
    /\ due' = [due EXCEPT ![r] = FALSE]
    /\ UNCHANGED <<attempt, tokens, breakerVars>>

\* One unit of time: a token for the bucket, and sleeps end.
Sleeping(r) == at[r] \in {"token", "backoff"} /\ ~due[r]
Elapse ==
    /\ tokens < Burst \/ (cool < ResetTime /\ breaker = "open") \/ \E r \in Requests : Sleeping(r)
    /\ tokens' = IF tokens < Burst THEN tokens + 1 ELSE tokens
    /\ due' = [r \in Requests |-> due[r] \/ Sleeping(r)]
    /\ cool' = IF cool < ResetTime THEN cool + 1 ELSE cool
    /\ UNCHANGED <<at, attempt, queue, permits, lost, breaker, failures, successes>>

Progress(r) == Enter(r) \/ Throttle(r) \/ TokenDue(r) \/ Return(r) \/ Retry(r) \/ Fail(r)

HttpNext == \/ \E r \in Requests : Enqueue(r) \/ Progress(r) \/ CancelRequest(r)
            \/ Elapse

HttpSpec == HttpInit /\ [][HttpNext]_httpVars

\* Time passes, sleepers go on, and requests return or raise (they carry a
\* time limit of their own).
HttpFairness ==
    /\ WF_httpVars(Elapse)
    /\ \A r \in Requests : WF_httpVars(Progress(r)) /\ WF_httpVars(Enqueue(r) /\ at[r] = "backoff")

HttpFairSpec == HttpSpec /\ HttpFairness
-----------------------------------------------------------------------------
(* Properties *)

\* HttpPermits: every permit is free, held by a request that waits for its
\* token or runs, or was lost with one that was cancelled in its sleep: none
\* is given back twice, whichever way a request ends.
HttpPermits ==
    permits + Cardinality({r \in Requests : at[r] \in Holding}) + Cardinality(lost)
        = Concurrent

\* BreakerSound: a closed breaker is below its threshold and a half-open one
\* below the successes that close it, although calls that were let through
\* in an earlier state report in a later one.
BreakerSound ==
    /\ breaker = "closed" => failures < Threshold
    /\ breaker = "half_open" => successes < HalfOpenMax

\* HttpSound: the state that the requests of a domain share stays sound,
\* however their returns, retries and cancellations mix.
HttpSound == HttpPermits /\ BreakerSound

\* RequestsEnd: no request waits for ever, unless all permits are lost.
RequestsEnd ==
    []<>((\A r \in Requests : at[r] \in {"new"} \cup Finished) \/ Cardinality(lost) = Concurrent)
=============================================================================
