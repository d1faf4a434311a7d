---------------------------- MODULE ServicesProofs --------------------------
(***************************************************************************)
(* Proofs about the components that MCServices checks together.            *)
(***************************************************************************)
EXTENDS MCServices, McpRegistryProofs, FiniteSetTheorems, SequenceTheorems

-----------------------------------------------------------------------------
(* PersistentRetry                                                         *)

\* The delay of a backoff is cut to what the ceiling leaves.
LEMMA DelayFits ==
    ASSUME NEW c \in LlmCalls, RetryTypeOK
    PROVE  Delay(c) \in 0 .. TotalCap - elapsed[c]
  BY RetryAssumption DEF RetryTypeOK, Delay, Shorter

RetryInv == RetryTypeOK /\ CeilingKept /\ BackoffsPaid

LEMMA RetryInitially == RetryInit => RetryInv
  <1> SUFFICES ASSUME RetryInit PROVE RetryInv
    OBVIOUS
  <1>1. RetryTypeOK
    <2>1. 0 \in 0 .. TotalCap /\ 0 \in Nat
      BY RetryAssumption
    <2> QED  BY <2>1 DEF RetryInit, RetryTypeOK, Models
  <1>2. CeilingKept /\ BackoffsPaid
    BY DEF RetryInit, CeilingKept, BackoffsPaid
  <1> QED  BY <1>1, <1>2 DEF RetryInv

\* What a failed attempt does with the call: it sleeps, or raises.
LEMMA BackoffKeeps ==
    ASSUME RetryInv, NEW c \in LlmCalls, Backoff(c), UNCHANGED <<backoffs, elapsed>>
    PROVE  /\ stage' \in [LlmCalls -> {"idle"} \cup Running \cup Over]
           /\ left' \in [LlmCalls -> 0 .. TotalCap]
           /\ CeilingKept' /\ BackoffsPaid'
  <1> USE RetryAssumption DEF RetryInv, RetryTypeOK, CeilingKept, BackoffsPaid, Running, Over
  <1>1. Delay(c) \in 0 .. TotalCap - elapsed[c]
    BY DelayFits
  <1>2. CASE Delay(c) = 0
    BY <1>2 DEF Backoff, End
  <1>3. CASE Delay(c) # 0
    <2>1. /\ stage' = [stage EXCEPT ![c] = "sleep"]
          /\ left' = [left EXCEPT ![c] = Delay(c)]
      BY <1>3 DEF Backoff, End
    <2>2. Delay(c) \in 1 .. TotalCap - elapsed[c]
      BY <1>1, <1>3
    <2> QED  BY <2>1, <2>2
  <1> QED  BY <1>2, <1>3

LEMMA RetryStep == RetryInv /\ [RetryNext]_retryVars => RetryInv'
  <1> SUFFICES ASSUME RetryInv, [RetryNext]_retryVars PROVE RetryInv'
    OBVIOUS
  <1> USE RetryAssumption DEF RetryInv, RetryTypeOK, CeilingKept, BackoffsPaid, Running, Over, runnerVars
  <1>0. CASE UNCHANGED retryVars
    BY <1>0 DEF retryVars
  <1>1. ASSUME NEW c \in LlmCalls, StartCall(c) \/ Succeed(c) \/ GiveUp(c) \/ CancelCall(c)
        PROVE  RetryInv'
    BY <1>1 DEF StartCall, Succeed, GiveUp, CancelCall, LoopTop, End
  <1>2. ASSUME NEW c \in LlmCalls, RetriableError(c) \/ CapacityError(c) PROVE RetryInv'
    <2>1. Backoff(c) /\ UNCHANGED <<backoffs, elapsed>>
      BY <1>2 DEF RetriableError, CapacityError
    <2>2. noKeepAlive' \in SUBSET Models
      BY <1>2 DEF RetriableError, CapacityError, MaybeStale
    <2> QED  BY <1>2, <2>1, <2>2, BackoffKeeps DEF RetriableError, CapacityError
  <1>3. ASSUME NEW c \in LlmCalls, FallBack(c) PROVE RetryInv'
    BY <1>3 DEF FallBack, LoopTop, End, Models
  <1>4. ASSUME NEW c \in LlmCalls, WakeUp(c) PROVE RetryInv'
    BY <1>4 DEF WakeUp, LoopTop, End
  <1>5. CASE Passes
    <2>1. \A c \in LlmCalls :
             /\ elapsed'[c] \in 0 .. TotalCap /\ left'[c] \in 0 .. TotalCap
             /\ elapsed'[c] >= elapsed[c]
             /\ stage[c] = "sleep" => /\ elapsed'[c] + left'[c] >= elapsed[c] + left[c]
                                      /\ elapsed'[c] + left'[c] <= TotalCap
      BY <1>5 DEF Passes, Shorter
    <2>2. elapsed' \in [LlmCalls -> 0 .. TotalCap] /\ left' \in [LlmCalls -> 0 .. TotalCap]
      BY <1>5, <2>1 DEF Passes
    <2> QED  BY <1>5, <2>1, <2>2 DEF Passes
  <1> QED  BY <1>0, <1>1, <1>2, <1>3, <1>4, <1>5 DEF RetryNext, Answer

\* RetryBounded: however many calls share the runner and its counters, no sleep
\* goes beyond the ceiling and every backoff takes time.
THEOREM RetriesBounded == RetrySpec => []RetryBounded
  <1>1. RetryInv => RetryBounded
    BY DEF RetryInv, RetryBounded
  <1> QED  BY <1>1, RetryInitially, RetryStep, PTL DEF RetrySpec

\* RetryTypeOK: every variable keeps its type; the attempts of a call are
\* bounded by its ceiling, as each backoff takes time.
THEOREM RetryTyping == RetrySpec => []RetryTypeOK
  <1>1. RetryInv => RetryTypeOK
    BY DEF RetryInv
  <1> QED  BY <1>1, RetryInitially, RetryStep, PTL DEF RetrySpec

-----------------------------------------------------------------------------
(* PoliteHttp: the queue of the semaphore                                  *)

\* q holds the requests of S, each once.
Queues(q, S) ==
    /\ q \in Seq(Requests)
    /\ \A i, j \in 1 .. Len(q) : q[i] = q[j] => i = j
    /\ \A r \in Requests : r \in S <=> \E i \in 1 .. Len(q) : q[i] = r

LEMMA AppendQueues ==
    ASSUME NEW q, NEW S \in SUBSET Requests, Queues(q, S), NEW r \in Requests \ S
    PROVE  Queues(Append(q, r), S \cup {r})
  BY DEF Queues

LEMMA TailQueues ==
    ASSUME NEW q, NEW S \in SUBSET Requests, Queues(q, S), q # <<>>
    PROVE  Head(q) \in S /\ Queues(Tail(q), S \ {Head(q)})
  <1>1. /\ q \in Seq(Requests) /\ Len(q) \in Nat /\ Len(q) > 0
        /\ Head(q) = q[1] /\ Head(q) \in Requests
        /\ Tail(q) \in Seq(Requests) /\ Len(Tail(q)) = Len(q) - 1
        /\ \A i \in 1 .. Len(q) - 1 : Tail(q)[i] = q[i + 1]
    BY DEF Queues
  <1>2. \A i, j \in 1 .. Len(Tail(q)) : Tail(q)[i] = Tail(q)[j] => i = j
    BY <1>1 DEF Queues
  <1>3. \A r \in Requests :
           r \in S \ {Head(q)} <=> \E i \in 1 .. Len(q) : q[i] = r /\ i # 1
    BY <1>1 DEF Queues
  <1>4. ASSUME NEW r \in Requests
        PROVE  (\E i \in 1 .. Len(q) : q[i] = r /\ i # 1)
                   <=> \E i \in 1 .. Len(Tail(q)) : Tail(q)[i] = r
    <2>1. ASSUME NEW i \in 1 .. Len(q), q[i] = r, i # 1
          PROVE  i - 1 \in 1 .. Len(Tail(q)) /\ Tail(q)[i - 1] = r
      BY <1>1, <2>1
    <2>2. ASSUME NEW i \in 1 .. Len(Tail(q)), Tail(q)[i] = r
          PROVE  i + 1 \in 1 .. Len(q) /\ q[i + 1] = r /\ i + 1 # 1
      BY <1>1, <2>2
    <2> QED  BY <2>1, <2>2
  <1> QED  BY <1>1, <1>2, <1>3, <1>4 DEF Queues

LEMMA WithoutQueues ==
    ASSUME NEW S \in SUBSET Requests, Queues(queue, S), NEW r \in S
    PROVE  Queues(Without(r), S \ {r})
  <1> DEFINE n == Len(queue)
             k == CHOOSE i \in 1 .. n : queue[i] = r
             old(i) == IF i < k THEN i ELSE i + 1
  <1>1. queue \in Seq(Requests) /\ n \in Nat
    BY DEF Queues
  <1>2. k \in 1 .. n /\ queue[k] = r
    BY DEF Queues
  <1>3. Without(r) = [i \in 1 .. n - 1 |-> queue[old(i)]]
    BY DEF Without
  <1> HIDE DEF k
  <1>4. \A i \in 1 .. n - 1 : old(i) \in 1 .. n \ {k}
    BY <1>1, <1>2
  <1>5. Without(r) \in Seq(Requests) /\ Len(Without(r)) = n - 1
    <2>1. n - 1 \in Nat
      BY <1>1, <1>2
    <2>2. \A i \in 1 .. n - 1 : queue[old(i)] \in Requests
      BY <1>1, <1>4
    <2> HIDE DEF n, old
    <2> QED  BY <1>3, <2>1, <2>2, SeqDef
  <1>6. \A i, j \in 1 .. n - 1 : old(i) = old(j) => i = j
    BY <1>1, <1>2
  <1>7. \A i, j \in 1 .. n - 1 : Without(r)[i] = Without(r)[j] => i = j
    BY <1>3, <1>4, <1>6 DEF Queues
  <1>8. ASSUME NEW u \in Requests
        PROVE  u \in S \ {r} <=> \E i \in 1 .. n - 1 : Without(r)[i] = u
    <2>1. u \in S \ {r} <=> \E i \in 1 .. n : i # k /\ queue[i] = u
      BY <1>2 DEF Queues
    <2>2. ASSUME NEW i \in 1 .. n, i # k, queue[i] = u
          PROVE  \E j \in 1 .. n - 1 : Without(r)[j] = u
      <3>1. CASE i < k
        <4>1. i \in 1 .. n - 1 /\ old(i) = i
          BY <1>1, <1>2, <3>1
        <4> QED  BY <1>3, <2>2, <4>1
      <3>2. CASE ~(i < k)
        <4>1. i - 1 \in 1 .. n - 1 /\ old(i - 1) = i
          BY <1>1, <1>2, <2>2, <3>2
        <4> QED  BY <1>3, <2>2, <4>1
      <3> QED  BY <3>1, <3>2
    <2>3. ASSUME NEW j \in 1 .. n - 1, Without(r)[j] = u
          PROVE  \E i \in 1 .. n : i # k /\ queue[i] = u
      BY <1>3, <1>4, <2>3
    <2> QED  BY <2>1, <2>2, <2>3
  <1> QED  BY <1>5, <1>7, <1>8 DEF Queues
-----------------------------------------------------------------------------
(* PoliteHttp: the permits, the attempts and the breaker                   *)

Waiting == {r \in Requests : at[r] = "queue"}
Holders == {r \in Requests : at[r] \in Holding}

\* The types without the range of permits, which is a matter of counting.
HttpTypes ==
    /\ at \in [Requests -> {"new", "queue", "backoff"} \cup Holding \cup Finished]
    /\ attempt \in [Requests -> 0 .. MaxRetries]
    /\ due \in [Requests -> BOOLEAN]
    /\ permits \in Nat
    /\ tokens \in 0 .. Burst
    /\ breaker \in {"closed", "open", "half_open"}
    /\ failures \in Nat /\ successes \in Nat
    /\ cool \in 0 .. ResetTime
    /\ \A r \in Requests : at[r] = "backoff" => attempt[r] < MaxRetries

PermitsCounted ==
    /\ IsFiniteSet(Holders) /\ IsFiniteSet(lost)
    /\ \A r \in lost : r \in Requests /\ at[r] = "gone"
    /\ permits + Cardinality(Holders) + Cardinality(lost) = Concurrent

HttpInv == HttpTypes /\ Queues(queue, Waiting) /\ PermitsCounted /\ BreakerSound

LEMMA HttpInitially == HttpInit => HttpInv
  <1> SUFFICES ASSUME HttpInit PROVE HttpInv
    OBVIOUS
  <1>1. Waiting = {} /\ Holders = {}
    BY DEF HttpInit, Waiting, Holders, Holding
  <1>2. HttpTypes /\ BreakerSound
    BY HttpAssumption DEF HttpInit, HttpTypes, BreakerSound
  <1>3. Queues(queue, Waiting)
    BY <1>1 DEF HttpInit, Queues
  <1>4. PermitsCounted
    BY <1>1, HttpAssumption, FS_EmptySet DEF HttpInit, PermitsCounted
  <1> QED  BY <1>2, <1>3, <1>4 DEF HttpInv

\* The request that is let in is the one that has waited longest.
LEMMA FirstWaits ==
    ASSUME HttpInv, queue # <<>>
    PROVE  Head(queue) \in Waiting
  BY TailQueues DEF HttpInv, Waiting

LEMMA HttpTypesStep == HttpInv /\ [HttpNext]_httpVars => HttpTypes' /\ BreakerSound'
  <1> SUFFICES ASSUME HttpInv, [HttpNext]_httpVars PROVE HttpTypes' /\ BreakerSound'
    OBVIOUS
  <1> USE HttpAssumption
      DEF HttpInv, HttpTypes, BreakerSound, Moves, Holding, Finished, breakerVars
  <1>1. ASSUME NEW r \in Requests, Enqueue(r) PROVE HttpTypes' /\ BreakerSound'
    BY <1>1 DEF Enqueue
  <1>2. ASSUME NEW r \in Requests, Enter(r) PROVE HttpTypes' /\ BreakerSound'
    <2>1. /\ r = Head(queue) /\ at[r] = "queue"
          /\ permits > 0 /\ tokens > 0 /\ tokens' = tokens - 1
          /\ EnterBreaker(r, permits - 1)
          /\ UNCHANGED <<attempt, due>>
      BY <1>2, FirstWaits DEF Enter, MayEnter, Waiting
    <2>2. BreakerSound' /\ breaker' \in {"closed", "open", "half_open"}
      BY <2>1 DEF EnterBreaker, Cooled
    <2>3. HttpTypes'
      BY <2>1, <2>2 DEF EnterBreaker
    <2> QED  BY <2>2, <2>3
  <1>3. ASSUME NEW r \in Requests, Throttle(r) PROVE HttpTypes' /\ BreakerSound'
    BY <1>3 DEF Throttle, MayEnter
  <1>4. ASSUME NEW r \in Requests, TokenDue(r) PROVE HttpTypes' /\ BreakerSound'
    BY <1>4 DEF TokenDue, EnterBreaker, Refused, Cooled
  <1>5. ASSUME NEW r \in Requests, Return(r) PROVE HttpTypes' /\ BreakerSound'
    BY <1>5 DEF Return, OnSuccess
  <1>6. ASSUME NEW r \in Requests, Retry(r) \/ Fail(r) PROVE HttpTypes' /\ BreakerSound'
    <2>1. BreakerSound'
      BY <1>6 DEF Retry, Fail, OnFailure
    <2>2. HttpTypes'
      BY <1>6 DEF Retry, Fail, OnFailure
    <2> QED  BY <2>1, <2>2
  <1>7. ASSUME NEW r \in Requests, CancelRequest(r) PROVE HttpTypes' /\ BreakerSound'
    BY <1>7 DEF CancelRequest
  <1>8. CASE Elapse
    BY <1>8 DEF Elapse
  <1>9. CASE UNCHANGED httpVars
    BY <1>9 DEF httpVars
  <1> QED
    BY <1>1, <1>2, <1>3, <1>4, <1>5, <1>6, <1>7, <1>8, <1>9 DEF HttpNext, Progress

LEMMA QueueStep == HttpInv /\ [HttpNext]_httpVars => Queues(queue, Waiting)'
  <1> SUFFICES ASSUME HttpInv, [HttpNext]_httpVars PROVE Queues(queue', Waiting')
    BY DEF Queues
  <1>0. Queues(queue, Waiting) /\ Waiting \in SUBSET Requests
    BY DEF HttpInv, Waiting
  <1> USE DEF HttpInv, HttpTypes, Moves, Holding, Finished
  <1>1. ASSUME NEW r \in Requests, Enqueue(r) PROVE Queues(queue', Waiting')
    <2>1. r \notin Waiting /\ Waiting' = Waiting \cup {r} /\ queue' = Append(queue, r)
      BY <1>1 DEF Enqueue, Waiting
    <2> QED  BY ONLY <1>0, <2>1, r \in Requests, AppendQueues
  <1>2. ASSUME NEW r \in Requests, Enter(r) \/ Throttle(r) PROVE Queues(queue', Waiting')
    <2>1. queue # <<>> /\ queue' = Tail(queue) /\ r = Head(queue)
      BY <1>2 DEF Enter, Throttle, MayEnter
    <2>2. Waiting' = Waiting \ {Head(queue)}
      BY <1>2, <2>1 DEF Enter, Throttle, EnterBreaker, Waiting
    <2> QED  BY ONLY <1>0, <2>1, <2>2, TailQueues
  <1>3. ASSUME UNCHANGED queue, Waiting' = Waiting PROVE Queues(queue', Waiting')
    BY ONLY <1>0, <1>3
  <1>4. ASSUME NEW r \in Requests, TokenDue(r) \/ Return(r) \/ Retry(r) \/ Fail(r)
        PROVE  Queues(queue', Waiting')
    BY <1>3, <1>4 DEF TokenDue, Return, Retry, Fail, EnterBreaker, Waiting
  <1>5. ASSUME NEW r \in Requests, CancelRequest(r) PROVE Queues(queue', Waiting')
    <2>1. CASE r \in Waiting
      <3>1. queue' = Without(r) /\ Waiting' = Waiting \ {r}
        BY <1>5, <2>1 DEF CancelRequest, Waiting
      <3> QED  BY ONLY <1>0, <2>1, <3>1, WithoutQueues
    <2>2. CASE r \notin Waiting
      BY <1>3, <1>5, <2>2 DEF CancelRequest, Waiting
    <2> QED  BY <2>1, <2>2
  <1>6. CASE Elapse \/ UNCHANGED httpVars
    BY <1>3, <1>6 DEF Elapse, httpVars, Waiting
  <1> QED
    BY <1>1, <1>2, <1>4, <1>5, <1>6 DEF HttpNext, Progress

\* A permit that is taken, given back, or lost.
LEMMA PermitTaken ==
    ASSUME HttpInv, NEW r \in Requests \ Holders,
           Holders' = Holders \cup {r}, permits' = permits - 1, UNCHANGED lost,
           \A u \in lost : at'[u] = "gone"
    PROVE  PermitsCounted'
  <1>1. IsFiniteSet(Holders) /\ Cardinality(Holders) \in Nat /\ Cardinality(lost) \in Nat
    BY FS_CardinalityType DEF HttpInv, PermitsCounted
  <1>2. IsFiniteSet(Holders') /\ Cardinality(Holders') = Cardinality(Holders) + 1
    BY <1>1, FS_AddElement
  <1> QED  BY <1>1, <1>2, HttpAssumption DEF HttpInv, HttpTypes, PermitsCounted

LEMMA PermitGiven ==
    ASSUME HttpInv, NEW r \in Holders,
           Holders' = Holders \ {r},
           \/ permits' = permits + 1 /\ UNCHANGED lost
           \/ UNCHANGED permits /\ lost' = lost \cup {r} /\ r \notin lost,
           \A u \in lost' : u \in Requests /\ at'[u] = "gone"
    PROVE  PermitsCounted'
  <1>1. /\ IsFiniteSet(Holders) /\ Cardinality(Holders) \in Nat
        /\ IsFiniteSet(lost) /\ Cardinality(lost) \in Nat
    BY FS_CardinalityType DEF HttpInv, PermitsCounted
  <1>2. IsFiniteSet(Holders') /\ Cardinality(Holders') = Cardinality(Holders) - 1
    BY <1>1, FS_RemoveElement
  <1>3. CASE permits' = permits + 1 /\ UNCHANGED lost
    BY <1>1, <1>2, <1>3, HttpAssumption DEF HttpInv, HttpTypes, PermitsCounted
  <1>4. CASE UNCHANGED permits /\ lost' = lost \cup {r} /\ r \notin lost
    <2>1. IsFiniteSet(lost') /\ Cardinality(lost') = Cardinality(lost) + 1
      BY <1>1, <1>4, FS_AddElement
    <2> QED  BY <1>1, <1>2, <1>4, <2>1, HttpAssumption DEF HttpInv, HttpTypes, PermitsCounted
  <1> QED  BY <1>3, <1>4

LEMMA PermitsStep == HttpInv /\ [HttpNext]_httpVars => PermitsCounted'
  <1> SUFFICES ASSUME HttpInv, [HttpNext]_httpVars PROVE PermitsCounted'
    OBVIOUS
  <1>0. /\ at \in [Requests -> {"new", "queue", "backoff"} \cup Holding \cup Finished]
        /\ permits \in Nat
        /\ \A u \in lost : u \in Requests /\ at[u] = "gone"
    BY DEF HttpInv, HttpTypes, PermitsCounted
  <1>1. ASSUME Holders' = Holders, UNCHANGED <<permits, lost>>,
               \A u \in lost : at'[u] = "gone"
        PROVE  PermitsCounted'
    BY <1>0, <1>1 DEF HttpInv, PermitsCounted
  <1> USE DEF Moves, Holding, Finished
  <1>2. ASSUME NEW r \in Requests, Enqueue(r) PROVE PermitsCounted'
    BY <1>0, <1>1, <1>2 DEF Enqueue, Holders
  <1>3. ASSUME NEW r \in Requests, Enter(r) \/ Throttle(r) PROVE PermitsCounted'
    <2>1. at[r] = "queue"
      BY <1>3, FirstWaits DEF Enter, Throttle, MayEnter, Waiting
    <2>2. CASE Enter(r) /\ Refused
      <3>1. Holders' = Holders /\ UNCHANGED <<permits, lost>> /\ \A u \in lost : at'[u] = "gone"
        BY <1>0, <2>1, <2>2 DEF Enter, EnterBreaker, Holders
      <3> QED  BY <1>1, <3>1
    <2>3. CASE ~(Enter(r) /\ Refused)
      <3>1. /\ r \notin Holders /\ Holders' = Holders \cup {r}
            /\ permits' = permits - 1 /\ UNCHANGED lost /\ \A u \in lost : at'[u] = "gone"
        BY <1>0, <1>3, <2>1, <2>3 DEF Enter, Throttle, EnterBreaker, Holders
      <3> QED  BY <3>1, PermitTaken
    <2> QED  BY <2>2, <2>3
  <1>4. ASSUME NEW r \in Requests, TokenDue(r) PROVE PermitsCounted'
    <2>1. CASE Refused
      <3>1. /\ r \in Holders /\ Holders' = Holders \ {r}
            /\ permits' = permits + 1 /\ UNCHANGED lost
            /\ \A u \in lost : u \in Requests /\ at'[u] = "gone"
        BY <1>0, <1>4, <2>1 DEF TokenDue, EnterBreaker, Holders
      <3> QED  BY <3>1, PermitGiven
    <2>2. CASE ~Refused
      <3>1. Holders' = Holders /\ UNCHANGED <<permits, lost>> /\ \A u \in lost : at'[u] = "gone"
        BY <1>0, <1>4, <2>2 DEF TokenDue, EnterBreaker, Holders
      <3> QED  BY <1>1, <3>1
    <2> QED  BY <2>1, <2>2
  <1>5. ASSUME NEW r \in Requests, Return(r) \/ Retry(r) \/ Fail(r) PROVE PermitsCounted'
    <2>1. /\ r \in Holders /\ Holders' = Holders \ {r}
          /\ permits' = permits + 1 /\ UNCHANGED lost
          /\ \A u \in lost : u \in Requests /\ at'[u] = "gone"
      BY <1>0, <1>5 DEF Return, Retry, Fail, Holders
    <2> QED  BY <2>1, PermitGiven
  <1>6. ASSUME NEW r \in Requests, CancelRequest(r) PROVE PermitsCounted'
    <2>1. CASE at[r] \in {"queue", "backoff"}
      <3>1. Holders' = Holders /\ UNCHANGED <<permits, lost>> /\ \A u \in lost : at'[u] = "gone"
        BY <1>0, <1>6, <2>1 DEF CancelRequest, Holders
      <3> QED  BY <1>1, <3>1
    <2>2. CASE at[r] \in Holding
      <3>1. /\ r \in Holders /\ Holders' = Holders \ {r}
            /\ \/ permits' = permits + 1 /\ UNCHANGED lost
               \/ UNCHANGED permits /\ lost' = lost \cup {r} /\ r \notin lost
            /\ \A u \in lost' : u \in Requests /\ at'[u] = "gone"
        BY <1>0, <1>6, <2>2 DEF CancelRequest, Holders
      <3> QED  BY <3>1, PermitGiven
    <2> QED  BY <1>6, <2>1, <2>2 DEF CancelRequest
  <1>7. CASE Elapse \/ UNCHANGED httpVars
    BY <1>0, <1>1, <1>7 DEF Elapse, httpVars, Holders
  <1> QED
    BY <1>2, <1>3, <1>4, <1>5, <1>6, <1>7 DEF HttpNext, Progress

LEMMA HttpStep == HttpInv /\ [HttpNext]_httpVars => HttpInv'
  BY HttpTypesStep, QueueStep, PermitsStep DEF HttpInv

\* HttpSound: however requests return, are retried, refused or cancelled, no
\* permit of a domain is given back twice, and the breaker's counts fit its
\* state.
THEOREM RequestsSound == HttpSpec => []HttpSound
  <1>1. HttpInv => HttpSound
    BY DEF HttpInv, HttpSound, HttpPermits, PermitsCounted, Holders
  <1> QED  BY <1>1, HttpInitially, HttpStep, PTL DEF HttpSpec

\* HttpTypeOK: every variable keeps its type; a request that backs off has an
\* attempt left, and there are never more permits than the domain allows.
THEOREM RequestsTyping == HttpSpec => []HttpTypeOK
  <1>1. HttpInv => HttpTypeOK
    <2> SUFFICES ASSUME HttpInv PROVE HttpTypeOK
      OBVIOUS
    <2>1. permits \in 0 .. Concurrent
      BY HttpAssumption, FS_CardinalityType DEF HttpInv, HttpTypes, PermitsCounted
    <2> QED  BY <2>1 DEF HttpInv, HttpTypes, HttpTypeOK, Queues, PermitsCounted
  <1> QED  BY <1>1, HttpInitially, HttpStep, PTL DEF HttpSpec
-----------------------------------------------------------------------------
(* DeepResearch and PlanEngine                                             *)

\* The searches of n rounds after the first.
Rounds(n) == n * FollowUps

LEMMA RoundsGrow ==
    /\ Rounds(0) = 0
    /\ \A n \in Nat : Rounds(n) \in Nat /\ Rounds(n + 1) = Rounds(n) + FollowUps
    /\ \A n, m \in Nat : n <= m => Rounds(n) <= Rounds(m)
  <1>1. Rounds(0) = 0 /\ \A n \in Nat : Rounds(n) \in Nat /\ Rounds(n + 1) = Rounds(n) + FollowUps
    BY ResearchAssumption DEF Rounds
  <1>2. ASSUME NEW n \in Nat, NEW m \in Nat, n <= m PROVE Rounds(n) <= Rounds(m)
    <2>1. PICK k \in Nat : m = n + k
      <3>1. m - n \in Nat /\ m = n + (m - n)
        BY <1>2
      <3> QED  BY <3>1
    <2>2. Rounds(m) = Rounds(n) + Rounds(k) /\ Rounds(k) \in Nat /\ Rounds(n) \in Nat
      BY <2>1, ResearchAssumption DEF Rounds
    <2> QED  BY <2>2
  <1> QED  BY <1>1, <1>2

\* The rounds before this one have each had their searches.
ResearchInv ==
    /\ node \in {"plan_research", "gather", "reflect", "route", "synthesize", "answered", "raised"}
    /\ maxLoops \in Nat /\ loops \in Nat /\ asked \in Nat
    /\ node = "plan_research" => asked = 0 /\ loops = 0
    /\ node \in {"gather", "reflect"} => /\ asked <= InitialQueries + Rounds(loops)
                                         /\ loops = 0 \/ loops < maxLoops
    /\ node \in {"route", "synthesize", "answered"} =>
          /\ loops >= 1 /\ loops <= (IF maxLoops = 0 THEN 1 ELSE maxLoops)
          /\ asked <= InitialQueries + Rounds(loops - 1)
    /\ node = "raised" => ResearchBounded

LEMMA ResearchWithin == ResearchInv => ResearchBounded
  <1> SUFFICES ASSUME ResearchInv, node # "raised" PROVE ResearchBounded
    BY DEF ResearchInv
  <1> DEFINE most == IF maxLoops = 0 THEN 0 ELSE maxLoops - 1
             sofar == IF node \in {"gather", "reflect"} THEN loops ELSE IF loops = 0 THEN 0 ELSE loops - 1
  <1>1. most \in Nat /\ sofar \in Nat /\ sofar <= most
    BY DEF ResearchInv
  <1>2. Rounds(sofar) <= Rounds(most) /\ Rounds(sofar) \in Nat /\ Rounds(most) \in Nat /\ Rounds(0) = 0
    BY <1>1, RoundsGrow
  <1>3. asked <= InitialQueries + Rounds(sofar)
    BY <1>2, ResearchAssumption DEF ResearchInv
  <1>4. asked <= InitialQueries + Rounds(most)
    BY <1>2, <1>3, ResearchAssumption DEF ResearchInv
  <1>5. Rounds(most) = IF maxLoops = 0 THEN 0 ELSE (maxLoops - 1) * FollowUps
    BY <1>2 DEF Rounds
  <1> QED  BY <1>4, <1>5 DEF ResearchBounded, ResearchInv

\* The steps that end a run with an exception.
Raises == PlanRaises \/ GatherRaises \/ FollowUpRaises \/ SynthesizeRaises

LEMMA ResearchStep == ResearchInv /\ [ResearchNext]_researchVars => ResearchInv'
  <1> SUFFICES ASSUME ResearchInv, [ResearchNext]_researchVars PROVE ResearchInv'
    OBVIOUS
  <1>0. /\ InitialQueries \in Nat /\ FollowUps \in Nat
        /\ Rounds(loops) \in Nat /\ Rounds(0) = 0
    BY ResearchAssumption, RoundsGrow DEF ResearchInv
  <1> USE DEF ResearchInv, Launch
  <1>1. CASE PlanResearch
    BY <1>0, <1>1 DEF PlanResearch
  <1>2. CASE Gather \/ Summarize
    BY <1>2 DEF Gather, Summarize
  <1>3. CASE Reflect
    <2>1. /\ node = "reflect" /\ node' \in {"route", "synthesize"}
          /\ loops' = loops + 1 /\ UNCHANGED <<maxLoops, asked>>
      BY <1>3 DEF Reflect
    <2> QED  BY <2>1
  <1>4. CASE FollowUp
    <2>1. PICK n \in 1 .. FollowUps : asked' = asked + n
      BY <1>4 DEF FollowUp
    <2>2. Rounds(loops) = Rounds(loops - 1) + FollowUps /\ Rounds(loops - 1) \in Nat
      <3>1. loops - 1 \in Nat /\ (loops - 1) + 1 = loops
        BY <1>4 DEF FollowUp
      <3> QED  BY <3>1, RoundsGrow
    <2> QED  BY <1>0, <1>4, <2>1, <2>2 DEF FollowUp, MoreLoops
  <1>5. CASE Stop \/ Synthesize
    BY <1>5 DEF Stop, Synthesize
  <1>6. CASE UNCHANGED researchVars
    BY <1>6 DEF researchVars, ResearchBounded
  <1>7. CASE Raises
    <2>1. node' = "raised" /\ UNCHANGED <<maxLoops, loops, asked>>
      BY <1>7 DEF Raises, PlanRaises, GatherRaises, FollowUpRaises, SynthesizeRaises, Raise
    <2>2. ResearchBounded
      BY ResearchWithin
    <2> QED  BY <2>1, <2>2 DEF ResearchBounded
  <1> QED  BY <1>1, <1>2, <1>3, <1>4, <1>5, <1>6, <1>7 DEF ResearchNext, Raises

\* ResearchBounded: whatever the model answers, a run stays within the
\* searches that its profile and its loop limit allow.
THEOREM ResearchStaysBounded == ResearchSpec => []ResearchBounded
  <1>1. ResearchInit => ResearchInv
    BY ResearchAssumption DEF ResearchInit, ResearchInv
  <1> QED  BY <1>1, ResearchWithin, ResearchStep, PTL DEF ResearchSpec

\* ResearchTypeOK: every variable keeps its type; the limit stays one of those
\* allowed.
THEOREM ResearchTyping == ResearchSpec => []ResearchTypeOK
  <1>1. ResearchInit => ResearchTypeOK
    BY ResearchAssumption DEF ResearchInit, ResearchTypeOK
  <1>2. ResearchTypeOK /\ [ResearchNext]_researchVars => ResearchTypeOK'
    <2> SUFFICES ASSUME ResearchTypeOK, [ResearchNext]_researchVars PROVE ResearchTypeOK'
      OBVIOUS
    <2> USE ResearchAssumption DEF ResearchTypeOK, Launch
    <2>1. CASE Gather
      <3>1. PICK found \in {{}, {"web_search"}, SourceKinds}, more \in 0 .. 1 :
               /\ references' = IF found = {} THEN references
                                ELSE Least(references + Cardinality(found) + more, RefLimit)
               /\ kinds' = kinds \cup found
        BY <2>1 DEF Gather
      <3>2. IsFiniteSet(found)
        <4>1. SourceKinds = {"web_search"} \cup {"url_crawl"} /\ IsFiniteSet({"url_crawl"})
          BY FS_Singleton DEF SourceKinds
        <4>2. IsFiniteSet({}) /\ IsFiniteSet({"web_search"}) /\ IsFiniteSet(SourceKinds)
          BY <4>1, FS_EmptySet, FS_Singleton, FS_Union
        <4> QED  BY <4>2
      <3>3. Cardinality(found) \in Nat
        BY <3>2, FS_CardinalityType
      <3>4. references' \in 0 .. RefLimit
        BY <3>1, <3>3 DEF Least
      <3>5. kinds' \in SUBSET SourceKinds
        BY <3>1 DEF SourceKinds
      <3> QED  BY <2>1, <3>4, <3>5 DEF Gather
    <2>2. CASE PlanResearch \/ FollowUp
      BY <2>2 DEF PlanResearch, FollowUp
    <2>3. CASE Summarize \/ Reflect \/ Stop \/ Synthesize
      BY <2>3 DEF Summarize, Reflect, Stop, Synthesize
    <2>4. CASE UNCHANGED researchVars
      BY <2>4 DEF researchVars
    <2>5. CASE Raises
      BY <2>5 DEF Raises, PlanRaises, GatherRaises, FollowUpRaises, SynthesizeRaises, Raise
    <2> QED  BY <2>1, <2>2, <2>3, <2>4, <2>5 DEF ResearchNext, Raises
  <1> QED  BY <1>1, <1>2, PTL DEF ResearchSpec

\* Each finding and each model call is of a round.
PlanInv ==
    /\ PlanTypeOK
    /\ calls = recon + drafts
    /\ findings + (IF planAt = "recon_tools" THEN 1 ELSE 0) <= recon
    /\ recon <= MaxRecon /\ drafts <= MaxPlan
    /\ planAt = "ingest" => recon = 0
    /\ planAt \in {"ingest", "recon_model", "recon_tools"} => drafts = 0
    /\ planAt = "recon_model" => recon < MaxRecon
    /\ planAt = "plan_iteration" => drafts < MaxPlan

LEMMA PlanInitially == PlanInit => PlanInv
  BY PlanAssumption DEF PlanInit, PlanInv, PlanTypeOK

LEMMA PlanStep == PlanInv /\ [PlanNext]_planVars => PlanInv'
  <1> SUFFICES ASSUME PlanInv, [PlanNext]_planVars PROVE PlanInv'
    OBVIOUS
  <1> USE PlanAssumption DEF PlanInv, PlanTypeOK
  <1>1. CASE Ingest \/ ReconEnds \/ ReconCalls
    BY <1>1 DEF Ingest, ReconEnds, ReconCalls
  <1>2. CASE Collect \/ ToolsRaise \/ EmitFinal
    BY <1>2 DEF Collect, ToolsRaise, EmitFinal, ReconDone
  <1>3. CASE Draft
    BY <1>3 DEF Draft
  <1>4. CASE UNCHANGED planVars
    BY <1>4 DEF planVars
  <1> QED  BY <1>1, <1>2, <1>3, <1>4 DEF PlanNext

\* PlanBounded: whatever the model answers, a planning run makes at most
\* MaxRecon + MaxPlan model calls.
THEOREM PlanStaysBounded == PlanSpec => []PlanBounded
  <1>1. PlanInv => PlanBounded
    BY PlanAssumption DEF PlanInv, PlanTypeOK, PlanBounded
  <1> QED  BY <1>1, PlanInitially, PlanStep, PTL DEF PlanSpec

\* PlanTypeOK: every variable keeps its type.
THEOREM PlanTyping == PlanSpec => []PlanTypeOK
  <1>1. PlanInv => PlanTypeOK
    BY DEF PlanInv
  <1> QED  BY <1>1, PlanInitially, PlanStep, PTL DEF PlanSpec

-----------------------------------------------------------------------------
(* ShellCommand                                                            *)

\* Every character printed is in the pipe, with the thread, in the queue or
\* collected, unless the output was cut off; and the call is where its outcome
\* says.  A thread that is done has met the end of the pipe, which stays.
ShellInv ==
    /\ ShellTypeOK
    /\ queued + held + inPipe <= written
    /\ outcome # "cut" => taken + queued + held + inPipe = written
    /\ CutAtLimit
    /\ caller = "start" <=> shell = "none"
    /\ reader = "done" => held = 0 /\ Eof
    /\ caller \in {"start", "top", "get", "poll", "quiet", "wait"} => outcome = "none"
    /\ caller \in {"kill", "group"} => outcome \in {"cut", "timeout"}
    /\ caller = "group" => shell = "zombie" \/ (shell = "reaped" /\ endedFirst)
    /\ GroupEnded

LEMMA ShellInitially == ShellInit => ShellInv
  <1> SUFFICES ASSUME ShellInit PROVE ShellInv
    OBVIOUS
  <1>1. 0 \in 0 .. MaxOut /\ 0 \in 0 .. Block /\ 0 \in 0 .. OutCap
    BY ShellAssumption
  <1>2. ShellTypeOK
    BY <1>1 DEF ShellInit, ShellTypeOK
  <1>3. 0 + 0 + 0 <= 0 /\ 0 + 0 + 0 + 0 = 0
    OBVIOUS
  <1> QED  BY <1>2, <1>3 DEF ShellInit, ShellInv, CutAtLimit, GroupEnded

\* What the processes do changes nothing that has been read.
LEMMA CommandKeeps ==
    ASSUME ShellInv, Spawn \/ CommandStep PROVE ShellInv'
  <1> USE ShellAssumption DEF ShellInv, ShellTypeOK, CutAtLimit, GroupEnded, Eof, Alive,
                              readerVars, callVars
  <1>1. CASE Spawn
    BY <1>1 DEF Spawn
  <1>2. CASE Print1
    BY <1>2 DEF Print1
  <1>3. CASE Forks \/ ChildEnds
    BY <1>3 DEF Forks, ChildEnds
  <1>4. CASE ShellEnds
    BY <1>4 DEF ShellEnds
  <1> QED  BY <1>1, <1>2, <1>3, <1>4 DEF CommandStep

\* The thread moves characters on and loses none.
LEMMA ReaderKeeps ==
    ASSUME ShellInv, ReaderStep PROVE ShellInv'
  <1> USE ShellAssumption DEF ShellInv, ShellTypeOK, CutAtLimit, GroupEnded, Eof, Alive,
                              commandVars, callVars
  <1>1. CASE Fill
    BY <1>1 DEF Fill
  <1>2. CASE PutChunk
    BY <1>2 DEF PutChunk
  <1>3. CASE PutEnd
    BY <1>3 DEF PutEnd
  <1>4. CASE ReaderFails
    BY <1>4 DEF ReaderFails
  <1> QED  BY <1>1, <1>2, <1>3, <1>4 DEF ReaderStep

\* The chunk that would pass the limit is the proof that more was printed.
LEMMA ChunkKeeps ==
    ASSUME ShellInv, GetChunk PROVE ShellInv'
  <1> USE ShellAssumption DEF ShellInv, ShellTypeOK, CutAtLimit, GroupEnded, Eof, Alive,
                              commandVars, GetChunk
  <1>1. ChunkSize \in 0 .. queued
    BY DEF ChunkSize
  <1>2. CASE taken + ChunkSize > OutCap
    BY <1>1, <1>2
  <1>3. CASE ~(taken + ChunkSize > OutCap)
    BY <1>1, <1>3
  <1> QED  BY <1>2, <1>3

\* The rest of the call ends the group or finds its shell dead.
LEMMA CallKeeps ==
    ASSUME ShellInv, CallStep \/ DeadlinePasses PROVE ShellInv'
  <1> USE ShellAssumption DEF ShellInv, ShellTypeOK, CutAtLimit, GroupEnded, Eof, Alive,
                              commandVars, readerVars
  <1>1. CASE RaiseError \/ TopOfLoop
    BY <1>1 DEF RaiseError, TopOfLoop
  <1>6. CASE GetEnd \/ GetNothing
    BY <1>6 DEF GetEnd, GetNothing
  <1>7. CASE Quiet
    BY <1>7 DEF Quiet
  <1>8. CASE DeadlinePasses
    BY <1>8 DEF DeadlinePasses
  <1>2. CASE Poll
    BY <1>2 DEF Poll
  <1>3. CASE WaitForShell \/ WaitTooLong
    BY <1>3 DEF WaitForShell, WaitTooLong
  <1>4. CASE KillShell
    BY <1>4 DEF KillShell
  <1>5. CASE KillGroup
    BY <1>5 DEF KillGroup
  <1> QED  BY <1>1, <1>2, <1>3, <1>4, <1>5, <1>6, <1>7, <1>8, ChunkKeeps DEF CallStep

LEMMA ShellStep == ShellInv /\ [ShellNext]_shellVars => ShellInv'
  <1> SUFFICES ASSUME ShellInv, [ShellNext]_shellVars PROVE ShellInv'
    OBVIOUS
  <1>1. CASE ShellNext
    BY <1>1, CommandKeeps, ReaderKeeps, CallKeeps DEF ShellNext
  <1>2. CASE UNCHANGED shellVars
    BY <1>2 DEF shellVars, commandVars, readerVars, callVars, ShellInv, ShellTypeOK,
                CutAtLimit, GroupEnded, Eof, Alive
  <1> QED  BY <1>1, <1>2

\* CommandSound: whatever a command prints and leaves behind, for any limit
\* and size of a block, what is returned after the end of the output is all of
\* it, only what passes the limit is cut, and a command that is stopped leaves
\* no process behind unless its shell was dead already.
THEOREM CommandStaysSound == ShellSpec => []CommandSound
  <1>1. ShellInv => CommandSound
    BY DEF ShellInv, ShellTypeOK, CommandSound, WholeUnlessQuiet, Eof
  <1> QED  BY <1>1, ShellInitially, ShellStep, PTL DEF ShellSpec

\* ShellTypeOK: the variables of a command keep their types.
THEOREM CommandTyping == ShellSpec => []ShellTypeOK
  <1>1. ShellInv => ShellTypeOK
    BY DEF ShellInv
  <1> QED  BY <1>1, ShellInitially, ShellStep, PTL DEF ShellSpec

-----------------------------------------------------------------------------
(* That calls end needs fairness and stays with TLC; what each step does   *)
(* for it is proved.                                                       *)

\* How far a model call has come: the time it has used, its backoffs, and
\* where it stands.
CallRank(c) ==
    IF stage[c] \in Over THEN 3 * TotalCap + 3
    ELSE elapsed[c] + 2 * backoffs[c]
         + (IF stage[c] = "idle" THEN 0 ELSE IF stage[c] = "invoke" THEN 1 ELSE 2)

\* A step takes some model call further, or is the runner's one change to the
\* fallback model, and takes none back.
RetryMoves ==
    /\ \A c \in LlmCalls : CallRank(c) <= CallRank(c)'
    /\ fallbackActive => fallbackActive'
    /\ \/ \E c \in LlmCalls : CallRank(c) < CallRank(c)'
       \/ ~fallbackActive /\ fallbackActive'

\* Time is left to sleep only for a call that sleeps, or was cancelled then.
Awake == \A c \in LlmCalls : stage[c] \in {"idle", "invoke"} => left[c] = 0

\* How far a web request has come, through all of its attempts.
HttpPlaces == [new |-> 0, queue |-> 1, token |-> 2, call |-> 3, backoff |-> 4]
HttpRank(r) ==
    IF at[r] \in Finished THEN 6 * MaxRetries + 6 ELSE 6 * attempt[r] + HttpPlaces[at[r]]

\* A step takes one request further, or time goes on: a token is added, the
\* breaker cools or a sleep ends.
HttpMoves ==
    \/ \E r \in Requests : /\ HttpRank(r) < HttpRank(r)'
                           /\ \A q \in Requests \ {r} : HttpRank(q)' = HttpRank(q)
    \/ /\ \A r \in Requests : HttpRank(r)' = HttpRank(r)
       /\ tokens <= tokens' /\ cool <= cool' /\ \A r \in Requests : due[r] => due'[r]
       /\ tokens < tokens' \/ cool < cool' \/ \E r \in Requests : ~due[r] /\ due'[r]

\* What a request needs for its next step: an answer, the end of its sleep, or
\* a permit when it is the first in the queue.
HttpCanMove(r) ==
    \/ at[r] \in {"token", "backoff", "call"}
    \/ at[r] = "queue" /\ MayEnter /\ Head(queue) = r

\* HttpNeverStuck: while requests are under way one of them can go on, unless
\* every permit was lost with a request that was cancelled in its sleep.
HttpNeverStuck ==
    (\E r \in Requests : at[r] \notin {"new"} \cup Finished) =>
        (\E r \in Requests : HttpCanMove(r)) \/ Cardinality(lost) = Concurrent

\* What a research run has left: its rounds, then the nodes of this round,
\* then the searches of this node.
NodePlaces == [plan_research |-> 4, route |-> 4, gather |-> 3, reflect |-> 2, synthesize |-> 1,
               answered |-> 0, raised |-> 0]
RoundsLeft == (IF maxLoops = 0 THEN 1 ELSE maxLoops) - loops

\* Every node leaves less of them, and they are numbers.
ResearchMoves ==
    \/ RoundsLeft' < RoundsLeft
    \/ RoundsLeft' = RoundsLeft /\ NodePlaces[node'] < NodePlaces[node]
    \/ RoundsLeft' = RoundsLeft /\ node' = node /\ searches' < searches

\* What a planning run has left: its model calls, then nodes between them.
PlanPlaces == [ingest |-> 2, recon_model |-> 1, recon_tools |-> 2, plan_iteration |-> 1,
               emit_final |-> 1, reported |-> 0, raised |-> 0]
CallsLeft == MaxRecon + MaxPlan - calls
PlanMoves ==
    \/ CallsLeft' < CallsLeft
    \/ CallsLeft' = CallsLeft /\ PlanPlaces[planAt'] < PlanPlaces[planAt]

\* The steps that run_command has left once its deadline has passed.
CallerPlaces == [start |-> 8, get |-> 7, poll |-> 6, quiet |-> 5, top |-> 4, wait |-> 4,
                 kill |-> 2, group |-> 1, ended |-> 0]

\* Once the deadline has passed it stays so, and each step of the call leaves
\* it fewer of them, while the command and the thread change nothing of it.
CommandMoves ==
    late => /\ late'
            /\ IF CallStep THEN CallerPlaces[caller'] < CallerPlaces[caller]
                           ELSE caller' = caller
LateBegun == late => caller # "start"

LEMMA AwakeStep == RetryInv /\ Awake /\ [RetryNext]_retryVars => Awake'
  <1> SUFFICES ASSUME RetryInv, Awake, [RetryNext]_retryVars PROVE Awake'
    OBVIOUS
  <1> USE DEF RetryInv, RetryTypeOK, Awake, Running, Over, runnerVars
  <1>0. CASE UNCHANGED retryVars
    BY <1>0 DEF retryVars
  <1>1. ASSUME NEW c \in LlmCalls, \/ StartCall(c) \/ Succeed(c) \/ GiveUp(c) \/ CancelCall(c)
                                   \/ FallBack(c) \/ WakeUp(c)
        PROVE  Awake'
    BY <1>1 DEF StartCall, Succeed, GiveUp, CancelCall, FallBack, WakeUp, LoopTop, End
  <1>2. ASSUME NEW c \in LlmCalls, RetriableError(c) \/ CapacityError(c) PROVE Awake'
    BY <1>2 DEF RetriableError, CapacityError, Backoff, End
  <1>3. CASE Passes
    BY <1>3 DEF Passes
  <1> QED  BY <1>0, <1>1, <1>2, <1>3 DEF RetryNext, Answer

LEMMA CallRankBound ==
    ASSUME RetryInv, NEW c \in LlmCalls
    PROVE  CallRank(c) \in 0 .. 3 * TotalCap + 3
  <1>1. /\ elapsed[c] \in 0 .. TotalCap /\ backoffs[c] \in 0 .. elapsed[c] /\ TotalCap \in Nat
    BY RetryAssumption DEF RetryInv, RetryTypeOK, BackoffsPaid
  <1> QED  BY <1>1 DEF CallRank

\* A step of one call alone.
LEMMA CallRises ==
    ASSUME RetryInv, NEW c \in LlmCalls, CallRank(c) < CallRank(c)', CallRank(c)' \in Int,
           fallbackActive' = fallbackActive,
           \A d \in LlmCalls \ {c} :
              /\ stage'[d] = stage[d] /\ elapsed'[d] = elapsed[d] /\ backoffs'[d] = backoffs[d]
    PROVE  RetryMoves
  <1>1. \A d \in LlmCalls \ {c} : CallRank(d)' = CallRank(d) /\ CallRank(d) \in Int
    BY CallRankBound DEF CallRank
  <1>2. CallRank(c) \in Int
    BY CallRankBound
  <1> HIDE DEF CallRank
  <1>3. \A d \in LlmCalls : CallRank(d) <= CallRank(d)'
    BY <1>1, <1>2
  <1> QED  BY <1>3 DEF RetryMoves

LEMMA RetryMovesOn == RetryInv /\ Awake /\ RetryInv' /\ RetryNext => RetryMoves
  <1> SUFFICES ASSUME RetryInv, Awake, RetryInv', RetryNext PROVE RetryMoves
    OBVIOUS
  <1>0. /\ RetryTypeOK /\ TotalCap \in Nat
        /\ \A c \in LlmCalls : /\ elapsed[c] \in 0 .. TotalCap /\ backoffs[c] \in 0 .. elapsed[c]
                               /\ stage[c] = "sleep" => elapsed[c] + left[c] <= TotalCap
    BY RetryAssumption DEF RetryInv, RetryTypeOK, BackoffsPaid, CeilingKept
  <1> USE DEF Running, Over, runnerVars
  <1>1. ASSUME NEW c \in LlmCalls, StartCall(c) \/ Succeed(c) \/ GiveUp(c) \/ CancelCall(c)
        PROVE  RetryMoves
    <2>1. CallRank(c) < CallRank(c)' /\ CallRank(c)' \in Int
      BY <1>0, <1>1 DEF RetryTypeOK, StartCall, Succeed, GiveUp, CancelCall, LoopTop, End, CallRank
    <2> QED  BY <1>0, <1>1, <2>1, CallRises
             DEF RetryTypeOK, StartCall, Succeed, GiveUp, CancelCall, LoopTop, End
  <1>2. ASSUME NEW c \in LlmCalls, RetriableError(c) \/ CapacityError(c) PROVE RetryMoves
    <2>1. /\ stage[c] = "invoke" /\ \E s \in {"raised", "sleep"} : stage' = [stage EXCEPT ![c] = s]
          /\ UNCHANGED <<fallbackActive, elapsed, backoffs>>
      BY <1>2 DEF RetriableError, CapacityError, Backoff, End
    <2>2. CallRank(c) < CallRank(c)' /\ CallRank(c)' \in Int
      BY <1>0, <2>1 DEF RetryTypeOK, CallRank
    <2> QED  BY <1>0, <2>1, <2>2, CallRises DEF RetryTypeOK
  <1>3. ASSUME NEW c \in LlmCalls, WakeUp(c) PROVE RetryMoves
    <2>1. /\ stage[c] = "sleep" /\ \E s \in {"raised", "invoke"} : stage' = [stage EXCEPT ![c] = s]
          /\ backoffs' = [backoffs EXCEPT ![c] = backoffs[c] + 1]
          /\ UNCHANGED <<fallbackActive, elapsed>>
      BY <1>3 DEF WakeUp, LoopTop, End
    <2>2. CallRank(c) < CallRank(c)' /\ CallRank(c)' \in Int
      BY <1>0, <2>1 DEF RetryTypeOK, CallRank
    <2> QED  BY <1>0, <2>1, <2>2, CallRises DEF RetryTypeOK
  <1>4. ASSUME NEW c \in LlmCalls, FallBack(c) PROVE RetryMoves
    <2>1. /\ stage[c] = "invoke" /\ \E s \in {"raised", "invoke"} : stage' = [stage EXCEPT ![c] = s]
          /\ ~fallbackActive /\ fallbackActive'
          /\ UNCHANGED <<elapsed, backoffs>>
      BY <1>4 DEF FallBack, FallbackDue, LoopTop, End
    <2>2. \A d \in LlmCalls : CallRank(d) <= CallRank(d)'
      BY <1>0, <2>1 DEF RetryTypeOK, CallRank
    <2> QED  BY <2>1, <2>2 DEF RetryMoves
  <1>5. CASE Passes
    <2>1. /\ UNCHANGED <<stage, backoffs, fallbackActive>>
          /\ \A c \in LlmCalls : elapsed'[c] = IF stage[c] \in Running
                                               THEN Shorter(elapsed[c] + 1, TotalCap) ELSE elapsed[c]
      BY <1>5 DEF Passes
    <2>2. \A c \in LlmCalls : CallRank(c) <= CallRank(c)'
      BY <1>0, <2>1 DEF CallRank, Shorter
    <2>3. PICK c \in LlmCalls : stage[c] \in Running /\ elapsed[c] < TotalCap
      <3>1. PICK c \in LlmCalls : stage[c] \in Running /\ (left[c] > 0 \/ elapsed[c] < TotalCap)
        BY <1>5 DEF Passes
      <3>2. left[c] > 0 => elapsed[c] < TotalCap
        BY <1>0, <3>1 DEF Awake, RetryTypeOK
      <3> QED  BY <3>1, <3>2
    <2>4. CallRank(c) < CallRank(c)'
      BY <1>0, <2>1, <2>3 DEF CallRank, Shorter
    <2> QED  BY <2>1, <2>2, <2>4 DEF RetryMoves
  <1> QED  BY <1>1, <1>2, <1>3, <1>4, <1>5 DEF RetryNext, Answer

\* RetryMoves: time, backoffs and answers only take a model call towards its
\* end, in at most 3 * TotalCap + 3 steps, and only once does an error give a
\* call of the runner another attempt at no cost, on the fallback model.
THEOREM RetriesMoveOn ==
    RetrySpec => /\ [][RetryMoves]_retryVars
                 /\ [](\A c \in LlmCalls : CallRank(c) \in 0 .. 3 * TotalCap + 3)
  <1>1. RetryInit => Awake
    BY DEF RetryInit, Awake
  <1>2. RetryInv /\ Awake /\ RetryInv' /\ [RetryNext]_retryVars => [RetryMoves]_retryVars
    BY RetryMovesOn
  <1>3. RetryInv => \A c \in LlmCalls : CallRank(c) \in 0 .. 3 * TotalCap + 3
    BY CallRankBound
  <1> QED  BY <1>1, <1>2, <1>3, RetryInitially, RetryStep, AwakeStep, PTL DEF RetrySpec

-----------------------------------------------------------------------------
(* PoliteHttp                                                              *)

LEMMA HttpRankBound ==
    ASSUME HttpTypes, NEW r \in Requests
    PROVE  /\ HttpRank(r) \in 0 .. 6 * MaxRetries + 6
           /\ at[r] \notin Finished => HttpRank(r) = 6 * attempt[r] + HttpPlaces[at[r]]
           /\ at[r] \notin Finished => HttpRank(r) < 6 * MaxRetries + 6
  <1>1. attempt[r] \in 0 .. MaxRetries /\ MaxRetries \in Nat
    BY HttpAssumption DEF HttpTypes
  <1>2. at[r] \in {"new", "queue", "token", "call", "backoff"} \cup Finished
    BY DEF HttpTypes, Holding
  <1> QED  BY <1>1, <1>2 DEF HttpRank, HttpPlaces, Finished

\* A request that goes on, within its attempt or to the next.
LEMMA RequestRises ==
    ASSUME HttpTypes, NEW r \in Requests, at[r] \notin Finished,
           NEW to \in {"queue", "token", "call", "backoff"} \cup Finished, Moves(r, to),
           \/ to \in Finished /\ attempt'[r] = attempt[r]
           \/ /\ to \notin Finished /\ attempt'[r] = attempt[r]
              /\ HttpPlaces[at[r]] < HttpPlaces[to]
           \/ to = "queue" /\ at[r] = "backoff" /\ attempt'[r] = attempt[r] + 1,
           \A q \in Requests \ {r} : attempt'[q] = attempt[q]
    PROVE  HttpMoves
  <1>1. /\ attempt[r] \in 0 .. MaxRetries /\ MaxRetries \in Nat
        /\ at[r] \in {"new", "queue", "token", "call", "backoff"}
        /\ at'[r] = to /\ \A q \in Requests \ {r} : at'[q] = at[q]
    BY HttpAssumption DEF HttpTypes, Holding, Moves
  <1>2. \A q \in Requests \ {r} : HttpRank(q)' = HttpRank(q)
    BY <1>1 DEF HttpRank
  <1>3. HttpRank(r) < HttpRank(r)'
    BY <1>1 DEF HttpRank, HttpPlaces, Finished
  <1> QED  BY <1>2, <1>3 DEF HttpMoves

LEMMA HttpMovesOn == HttpInv /\ HttpNext => HttpMoves
  <1> SUFFICES ASSUME HttpInv, HttpNext PROVE HttpMoves
    OBVIOUS
  <1>0. HttpTypes /\ attempt \in [Requests -> 0 .. MaxRetries]
    BY DEF HttpInv, HttpTypes
  <1>1. ASSUME NEW r \in Requests, Enqueue(r) PROVE HttpMoves
    <2>1. at[r] \in {"new", "backoff"} /\ Moves(r, "queue")
      BY <1>1 DEF Enqueue
    <2>2. /\ attempt'[r] = IF at[r] = "backoff" THEN attempt[r] + 1 ELSE attempt[r]
          /\ \A q \in Requests \ {r} : attempt'[q] = attempt[q]
      BY <1>0, <1>1 DEF Enqueue
    <2> QED  BY <1>0, <2>1, <2>2, RequestRises DEF Finished, HttpPlaces
  <1>2. ASSUME NEW r \in Requests, Enter(r) \/ Throttle(r) PROVE HttpMoves
    <2>1. at[r] = "queue" /\ attempt' = attempt
      BY <1>2, FirstWaits DEF Enter, Throttle, MayEnter, Waiting
    <2>2. \E to \in {"token", "call", "failed"} : Moves(r, to)
      BY <1>2 DEF Enter, Throttle, EnterBreaker
    <2> QED  BY <1>0, <2>1, <2>2, RequestRises DEF Finished, HttpPlaces
  <1>3. ASSUME NEW r \in Requests, TokenDue(r) PROVE HttpMoves
    <2>1. at[r] = "token" /\ attempt' = attempt /\ \E to \in {"call", "failed"} : Moves(r, to)
      BY <1>3 DEF TokenDue, EnterBreaker
    <2> QED  BY <1>0, <2>1, RequestRises DEF Finished, HttpPlaces
  <1>4. ASSUME NEW r \in Requests, Return(r) \/ Retry(r) \/ Fail(r) PROVE HttpMoves
    <2>1. /\ at[r] = "call" /\ attempt' = attempt
          /\ \E to \in {"done", "backoff", "failed"} : Moves(r, to)
      BY <1>4 DEF Return, Retry, Fail
    <2> QED  BY <1>0, <2>1, RequestRises DEF Finished, HttpPlaces
  <1>5. ASSUME NEW r \in Requests, CancelRequest(r) PROVE HttpMoves
    <2>1. at[r] \in {"queue", "backoff", "token", "call"} /\ attempt' = attempt /\ Moves(r, "gone")
      BY <1>5 DEF CancelRequest, Holding
    <2> QED  BY <1>0, <2>1, RequestRises DEF Finished
  <1>6. CASE Elapse
    <2>1. \A r \in Requests : HttpRank(r)' = HttpRank(r)
      BY <1>6 DEF Elapse, HttpRank
    <2>2. /\ tokens \in Nat /\ tokens' = IF tokens < Burst THEN tokens + 1 ELSE tokens
          /\ cool \in Nat /\ cool' = IF cool < ResetTime THEN cool + 1 ELSE cool
          /\ \A r \in Requests : due'[r] = (due[r] \/ Sleeping(r))
      BY <1>0, <1>6, HttpAssumption DEF HttpTypes, Elapse
    <2>3. tokens < Burst \/ cool < ResetTime \/ \E r \in Requests : Sleeping(r)
      BY <1>6 DEF Elapse
    <2>4. tokens <= tokens' /\ cool <= cool' /\ \A r \in Requests : due[r] => due'[r]
      <3>1. tokens <= tokens' /\ cool <= cool'
        BY <2>2
      <3>2. \A r \in Requests : due[r] => due'[r]
        BY <2>2, Zenon
      <3> QED  BY <3>1, <3>2
    <2>5. tokens < tokens' \/ cool < cool' \/ \E r \in Requests : ~due[r] /\ due'[r]
      <3>1. CASE tokens < Burst \/ cool < ResetTime
        BY <2>2, <3>1
      <3>2. CASE \E r \in Requests : Sleeping(r)
        BY <2>2, <3>2 DEF Sleeping
      <3> QED  BY <2>3, <3>1, <3>2
    <2> QED  BY <2>1, <2>4, <2>5 DEF HttpMoves
  <1> QED  BY <1>1, <1>2, <1>3, <1>4, <1>5, <1>6 DEF HttpNext, Progress

\* HttpMoves: every step takes a request further through its attempts, or is
\* one of time, of which there are finitely many before the next.
THEOREM RequestsMoveOn ==
    HttpSpec => /\ [][HttpMoves]_httpVars
                /\ [](\A r \in Requests : HttpRank(r) \in 0 .. 6 * MaxRetries + 6)
  <1>1. HttpInv /\ [HttpNext]_httpVars => [HttpMoves]_httpVars
    BY HttpMovesOn
  <1>2. HttpInv => \A r \in Requests : HttpRank(r) \in 0 .. 6 * MaxRetries + 6
    BY HttpRankBound DEF HttpInv
  <1> QED  BY <1>1, <1>2, HttpInitially, HttpStep, PTL DEF HttpSpec

\* HttpNeverStuck: retries, refusals and cancellations leave no request
\* waiting for a permit that nobody will give back, but for lost ones.
THEOREM RequestsFreeOfDeadlock == HttpSpec => []HttpNeverStuck
  <1>1. ASSUME HttpInv PROVE HttpNeverStuck
    <2> SUFFICES ASSUME NEW r \in Requests, at[r] \notin {"new"} \cup Finished,
                        Cardinality(lost) # Concurrent
                 PROVE  \E q \in Requests : HttpCanMove(q)
      BY DEF HttpNeverStuck
    <2>1. at[r] \in {"queue", "token", "backoff", "call"}
      BY <1>1 DEF HttpInv, HttpTypes, Holding
    <2>2. CASE at[r] # "queue"
      BY <2>1, <2>2 DEF HttpCanMove
    <2>3. CASE at[r] = "queue" /\ permits > 0
      <3>1. queue # <<>>
        BY <1>1, <2>3 DEF HttpInv, Queues, Waiting
      <3>2. Head(queue) \in Waiting
        BY <1>1, <3>1, FirstWaits
      <3> QED  BY <2>3, <3>1, <3>2 DEF HttpCanMove, MayEnter, Waiting
    <2>4. CASE permits = 0
      <3>1. Cardinality(Holders) # 0
        BY <1>1, <2>4, FS_CardinalityType, HttpAssumption DEF HttpInv, PermitsCounted
      <3>2. PICK q \in Requests : at[q] \in Holding
        BY <3>1, FS_EmptySet DEF Holders
      <3> QED  BY <3>2 DEF HttpCanMove, Holding
    <2> QED  BY <1>1, <2>1, <2>2, <2>3, <2>4 DEF HttpInv, HttpTypes
  <1>2. HttpInv => HttpNeverStuck
    BY <1>1
  <1> QED  BY <1>2, HttpInitially, HttpStep, PTL DEF HttpSpec

-----------------------------------------------------------------------------
(* DeepResearch, PlanEngine and ShellCommand                               *)

\* ResearchMoves: every node of a run leaves it fewer rounds, or fewer nodes of
\* this round, or fewer searches of this node, whatever the model answers.
THEOREM ResearchMovesOn ==
    ResearchSpec => [][ResearchMoves]_researchVars /\ [](RoundsLeft \in Nat /\ searches \in Nat)
  <1>1. ResearchInv /\ ResearchTypeOK => RoundsLeft \in Nat /\ searches \in Nat
    BY ResearchWithin DEF ResearchInv, ResearchTypeOK, RoundsLeft, ResearchBounded
  <1>2. ASSUME ResearchInv, ResearchTypeOK, ResearchNext PROVE ResearchMoves
    <2> USE <1>2 DEF ResearchTypeOK, ResearchMoves, NodePlaces, RoundsLeft
    <2>0. maxLoops \in Nat /\ loops \in Nat /\ searches \in Nat
      BY DEF ResearchInv
    <2>1. CASE PlanResearch \/ FollowUp
      <3>1. /\ node \in {"plan_research", "route"} /\ node' = "gather"
            /\ UNCHANGED <<maxLoops, loops>>
        BY <2>1 DEF PlanResearch, FollowUp, Launch
      <3> QED  BY <2>0, <3>1
    <2>2. CASE Gather
      BY <2>0, <2>2 DEF Gather
    <2>3. CASE Summarize \/ Stop \/ Synthesize
      BY <2>0, <2>3 DEF Summarize, Stop, Synthesize
    <2>4. CASE Reflect
      <3>1. loops' = loops + 1 /\ maxLoops' = maxLoops
        BY <2>4 DEF Reflect
      <3> QED  BY <2>0, <3>1
    <2>5. CASE Raises
      <3>1. /\ node \in {"plan_research", "gather", "route", "synthesize"} /\ node' = "raised"
            /\ UNCHANGED <<maxLoops, loops>>
        BY <2>5 DEF Raises, PlanRaises, GatherRaises, FollowUpRaises, SynthesizeRaises, Raise
      <3> QED  BY <2>0, <3>1
    <2> QED  BY <2>1, <2>2, <2>3, <2>4, <2>5 DEF ResearchNext, Raises
  <1>3. ResearchInv /\ ResearchTypeOK /\ [ResearchNext]_researchVars => [ResearchMoves]_researchVars
    BY <1>2
  <1>4. ResearchInit => ResearchInv
    BY ResearchAssumption DEF ResearchInit, ResearchInv
  <1> QED  BY <1>1, <1>3, <1>4, ResearchStep, ResearchTyping, PTL DEF ResearchSpec

\* PlanMoves: every node of a planning run leaves it fewer model calls, or
\* fewer nodes before the next.
THEOREM PlanMovesOn == PlanSpec => [][PlanMoves]_planVars /\ [](CallsLeft \in Nat)
  <1>1. PlanInv => CallsLeft \in Nat
    BY PlanAssumption DEF PlanInv, PlanTypeOK, CallsLeft
  <1>2. ASSUME PlanInv, PlanNext PROVE PlanMoves
    <2>0. /\ MaxRecon \in Nat /\ MaxPlan \in Nat /\ calls \in Nat
      BY <1>2, PlanAssumption DEF PlanInv, PlanTypeOK
    <2> USE DEF PlanMoves, PlanPlaces, CallsLeft
    <2>1. CASE ReconEnds \/ ReconCalls \/ Draft
      <3>1. calls' = calls + 1
        BY <2>1 DEF ReconEnds, ReconCalls, Draft
      <3> QED  BY <2>0, <3>1
    <2>2. CASE Ingest \/ Collect \/ ToolsRaise \/ EmitFinal
      BY <2>0, <2>2 DEF Ingest, Collect, ToolsRaise, EmitFinal
    <2> QED  BY <1>2, <2>1, <2>2 DEF PlanNext
  <1>3. PlanInv /\ [PlanNext]_planVars => [PlanMoves]_planVars
    BY <1>2
  <1> QED  BY <1>1, <1>3, PlanInitially, PlanStep, PTL DEF PlanSpec

LEMMA CallShortens ==
    ASSUME CallStep, late
    PROVE  CallerPlaces[caller'] < CallerPlaces[caller]
  <1>1. \/ caller = "top" /\ caller' \in {"ended", "kill"}
        \/ caller = "get" /\ caller' \in {"kill", "top", "wait", "poll"}
        \/ caller = "poll" /\ caller' \in {"top", "quiet"}
        \/ caller = "quiet" /\ caller' \in {"wait", "top"}
        \/ caller = "wait" /\ caller' \in {"ended", "kill"}
        \/ caller = "kill" /\ caller' = "group"
        \/ caller = "group" /\ caller' = "ended"
    <2>1. CASE RaiseError \/ TopOfLoop
      BY <2>1 DEF RaiseError, TopOfLoop
    <2>2. CASE GetChunk \/ GetEnd \/ GetNothing
      BY <2>2 DEF GetChunk, GetEnd, GetNothing
    <2>3. CASE Poll \/ Quiet
      BY <2>3 DEF Poll, Quiet
    <2>4. CASE WaitForShell \/ WaitTooLong
      BY <2>4 DEF WaitForShell, WaitTooLong
    <2>5. CASE KillShell \/ KillGroup
      BY <2>5 DEF KillShell, KillGroup
    <2> QED  BY <2>1, <2>2, <2>3, <2>4, <2>5 DEF CallStep
  <1>2. /\ CallerPlaces["get"] = 7 /\ CallerPlaces["poll"] = 6 /\ CallerPlaces["quiet"] = 5
        /\ CallerPlaces["top"] = 4 /\ CallerPlaces["wait"] = 4 /\ CallerPlaces["kill"] = 2
        /\ CallerPlaces["group"] = 1 /\ CallerPlaces["ended"] = 0
    BY DEF CallerPlaces
  <1> QED  BY <1>1, <1>2

\* CommandMoves: after its deadline run_command takes at most seven more steps,
\* whatever the command, its children and the thread do meanwhile.
THEOREM CommandMovesOn == ShellSpec => [][CommandMoves]_shellVars
  <1>1. ShellInit => LateBegun
    BY DEF ShellInit, LateBegun
  <1>2. ASSUME LateBegun, late, ShellNext
        PROVE  late' /\ (CallStep \/ caller' = caller) /\ caller' # "start"
    <2>1. CASE Spawn
      BY <1>2, <2>1 DEF Spawn, LateBegun
    <2>2. CASE CommandStep
      BY <1>2, <2>2 DEF CommandStep, Print1, Forks, ShellEnds, ChildEnds, callVars, LateBegun
    <2>3. CASE ReaderStep
      BY <1>2, <2>3 DEF ReaderStep, Fill, PutChunk, PutEnd, ReaderFails, callVars, LateBegun
    <2>4. CASE CallStep
      <3>1. late' = late
        BY <2>4 DEF CallStep, RaiseError, TopOfLoop, GetChunk, GetEnd, GetNothing, Poll, Quiet,
                    WaitForShell, WaitTooLong, KillShell, KillGroup
      <3>2. caller' # "start"
        BY <2>4 DEF CallStep, RaiseError, TopOfLoop, GetChunk, GetEnd, GetNothing, Poll, Quiet,
                    WaitForShell, WaitTooLong, KillShell, KillGroup
      <3> QED  BY <1>2, <2>4, <3>1, <3>2
    <2>5. CASE DeadlinePasses
      BY <1>2, <2>5 DEF DeadlinePasses
    <2> QED  BY <1>2, <2>1, <2>2, <2>3, <2>4, <2>5 DEF ShellNext
  <1>3. LateBegun /\ [ShellNext]_shellVars => LateBegun'
    <2> SUFFICES ASSUME LateBegun, [ShellNext]_shellVars PROVE LateBegun'
      OBVIOUS
    <2>1. CASE ShellNext /\ late
      BY <1>2, <2>1 DEF LateBegun
    <2>2. CASE ShellNext /\ ~late
      <3>1. ASSUME late' PROVE DeadlinePasses
        BY <2>2, <3>1
           DEF ShellNext, Spawn, CommandStep, Print1, Forks, ShellEnds, ChildEnds, callVars,
               ReaderStep, Fill, PutChunk, PutEnd, ReaderFails, CallStep, RaiseError, TopOfLoop,
               GetChunk, GetEnd, GetNothing, Poll, Quiet, WaitForShell, WaitTooLong, KillShell,
               KillGroup
      <3> QED  BY <3>1 DEF DeadlinePasses, LateBegun
    <2>3. CASE UNCHANGED shellVars
      BY <2>3 DEF shellVars, callVars, LateBegun
    <2> QED  BY <2>1, <2>2, <2>3
  <1>4. LateBegun /\ [ShellNext]_shellVars => [CommandMoves]_shellVars
    BY <1>2, CallShortens DEF CommandMoves
  <1> QED  BY <1>1, <1>3, <1>4, PTL DEF ShellSpec

-----------------------------------------------------------------------------
(* All six, as the run checks them                                         *)

\* A behaviour of the composition is one of each component, so that what is
\* proved of a component alone holds where the run checks it.
THEOREM ServicesCompose ==
    ServicesSpec => /\ Spec /\ RetrySpec /\ HttpSpec
                    /\ ResearchSpec /\ PlanSpec /\ ShellSpec
  <1>1. ServicesInit => /\ Init /\ RetryInit /\ HttpInit
                        /\ ResearchInit /\ PlanInit /\ ShellInit
    BY DEF ServicesInit
  <1>2. [ServicesNext]_servicesVars =>
            /\ [Next]_vars /\ [RetryNext]_retryVars /\ [HttpNext]_httpVars
            /\ [ResearchNext]_researchVars
            /\ [PlanNext]_planVars /\ [ShellNext]_shellVars
    BY DEF ServicesNext, servicesVars
  <1> QED
    BY <1>1, <1>2, PTL
       DEF ServicesSpec, Spec, RetrySpec, HttpSpec, ResearchSpec, PlanSpec, ShellSpec

\* ServicesTypeOK: the variables of the six components keep their types.
THEOREM ServicesTyping == ServicesSpec => []ServicesTypeOK
  <1>1. ServicesSpec => [](part \in ServicesParts)
    <2>1. ServicesInit => part \in ServicesParts
      BY DEF ServicesInit
    <2>2. part \in ServicesParts /\ [ServicesNext]_servicesVars => (part \in ServicesParts)'
      BY DEF ServicesNext, servicesVars
    <2> QED  BY <2>1, <2>2, PTL DEF ServicesSpec
  <1> QED
    BY <1>1, ServicesCompose, McpTyping, RetryTyping, RequestsTyping,
       ResearchTyping, PlanTyping, CommandTyping, PTL
       DEF ServicesTypeOK

\* LoopsBounded: whatever the model answers, for any limits, neither subagent
\* makes more calls than they allow.
THEOREM SubagentsBounded == ServicesSpec => []LoopsBounded
  BY ServicesCompose, ResearchStaysBounded, PlanStaysBounded, PTL DEF LoopsBounded

\* What each step of the six does for its end: a model call, a request, a
\* command past its deadline, a research run and a planning run only ever come
\* closer to it, whatever providers, servers, processes and models do; and no
\* request, and no task of an MCP registry, waits for one that waits for it.
THEOREM ServicesMoveOn ==
    ServicesSpec => /\ [][RetryMoves]_retryVars /\ [][HttpMoves]_httpVars
                    /\ [][CommandMoves]_shellVars
                    /\ [][ResearchMoves]_researchVars /\ [][PlanMoves]_planVars
                    /\ []HttpNeverStuck /\ []McpNeverStuck
  BY ServicesCompose, RetriesMoveOn, RequestsMoveOn, CommandMovesOn, ResearchMovesOn, PlanMovesOn,
     RequestsFreeOfDeadlock, McpFreeOfDeadlock, PTL
=============================================================================
