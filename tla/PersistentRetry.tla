--------------------------- MODULE PersistentRetry --------------------------
(***************************************************************************)
(* llm/invoke_policy.py, PersistentRetryRunner: one instance serves every  *)
(* model call of an agent.  A call repeats its request with exponential    *)
(* backoff until it succeeds, fails for good or has used up its time, and  *)
(* moves to the fallback model when capacity errors pile up.               *)
(*                                                                         *)
(* A step is the code between two awaits; the request itself, with the     *)
(* limits of run_llm_call_with_policy around it, is external and may end   *)
(* in any way.  Time is counted in units of the backoff base.              *)
(***************************************************************************)
EXTENDS Naturals, FiniteSets

CONSTANTS LlmCalls,
          Background,    \* the calls whose source is "compact" or "summary"
          Discriminates, \* query_source_discrimination
          FallbackAfter, \* fallback_model_threshold
          MaxBackoff,    \* persistent_retry_max_backoff_seconds
          TotalCap       \* persistent_retry_total_cap_seconds

ASSUME RetryAssumption ==
    /\ Background \subseteq LlmCalls
    /\ Discriminates \in BOOLEAN
    /\ FallbackAfter \in Nat \ {0}
    /\ MaxBackoff \in Nat \ {0}
    /\ TotalCap \in Nat \ {0}

VARIABLES
    stage,           \* where each call stands in awrap_model_call
    model,           \* the model of its current_request
    backoffs,        \* attempt: how often it has backed off
    elapsed,         \* time since its start, as far as TotalCap
    left,            \* what remains of its sleep
    capacityErrors,  \* _consecutive_capacity_errors, of the runner
    fallbackActive,  \* _fallback_active, of the runner
    noKeepAlive      \* models whose keep_alive has been switched off

retryVars == <<stage, model, backoffs, elapsed, left, capacityErrors,
               fallbackActive, noKeepAlive>>
runnerVars == <<capacityErrors, fallbackActive, noKeepAlive>>

Models == {"primary", "fallback"}
Over == {"ok", "raised", "cancelled"}
Running == {"invoke", "sleep"}

RetryTypeOK ==
    /\ stage \in [LlmCalls -> {"idle"} \cup Running \cup Over]
    /\ model \in [LlmCalls -> Models]
    /\ backoffs \in [LlmCalls -> 0 .. TotalCap]
    /\ elapsed \in [LlmCalls -> 0 .. TotalCap]
    /\ left \in [LlmCalls -> 0 .. TotalCap]
    /\ capacityErrors \in Nat
    /\ fallbackActive \in BOOLEAN
    /\ noKeepAlive \in SUBSET Models

RetryInit ==
    /\ stage = [c \in LlmCalls |-> "idle"]
    /\ model = [c \in LlmCalls |-> "primary"]
    /\ backoffs = [c \in LlmCalls |-> 0]
    /\ elapsed = [c \in LlmCalls |-> 0]
    /\ left = [c \in LlmCalls |-> 0]
    /\ capacityErrors = 0
    /\ fallbackActive = FALSE
    /\ noKeepAlive = {}

-----------------------------------------------------------------------------
(* awrap_model_call                                                        *)

End(c, how) == stage' = [stage EXCEPT ![c] = how]

\* The top of the loop: the ceiling is looked at before each attempt.
LoopTop(c) == End(c, IF elapsed[c] >= TotalCap THEN "raised" ELSE "invoke")

StartCall(c) ==
    /\ stage[c] = "idle"
    /\ LoopTop(c)
    /\ UNCHANGED <<runnerVars, model, backoffs, elapsed, left>>

Shorter(a, b) == IF a < b THEN a ELSE b
Doubled(n) == 2 ^ n

\* Mutant of Delay: the backoff is not cut to the time that remains.
DelayUncut(c) == IF Doubled(backoffs[c]) <= MaxBackoff THEN Doubled(backoffs[c]) ELSE MaxBackoff

\* _calc_persistent_backoff, never beyond the ceiling.
Delay(c) ==
    LET most == Shorter(MaxBackoff, TotalCap - elapsed[c])
    IN  IF Doubled(backoffs[c]) \in 0 .. most THEN Doubled(backoffs[c]) ELSE most

\* Sleep, or re-raise when no time is left.
Backoff(c) ==
    IF Delay(c) = 0
    THEN End(c, "raised") /\ UNCHANGED left
    ELSE End(c, "sleep") /\ left' = [left EXCEPT ![c] = Delay(c)]

Succeed(c) ==
    /\ stage[c] = "invoke"
    /\ End(c, "ok")
    /\ capacityErrors' = 0
    /\ UNCHANGED <<fallbackActive, noKeepAlive, model, backoffs, elapsed, left>>

\* Not retriable, or a capacity error of a background source.
GiveUp(c) ==
    /\ stage[c] = "invoke"
    /\ End(c, "raised")
    /\ UNCHANGED <<runnerVars, model, backoffs, elapsed, left>>

\* _disable_keepalive_for_retry writes into the model object, which other
\* calls use as well.
MaybeStale(c) == noKeepAlive' \in {noKeepAlive, noKeepAlive \cup {model[c]}}

RetriableError(c) ==
    /\ stage[c] = "invoke"
    /\ capacityErrors' = 0
    /\ MaybeStale(c)
    /\ Backoff(c)
    /\ UNCHANGED <<fallbackActive, model, backoffs, elapsed>>

Bails(c) == Discriminates /\ c \in Background

FallbackDue == ~fallbackActive /\ capacityErrors + 1 >= FallbackAfter

\* The count reaches the threshold: this request goes to the fallback model,
\* and straight to the top of the loop.
FallBack(c) ==
    /\ stage[c] = "invoke"
    /\ ~Bails(c)
    /\ FallbackDue
    /\ fallbackActive' = TRUE
    /\ model' = [model EXCEPT ![c] = "fallback"]
    /\ capacityErrors' = 0
    /\ LoopTop(c)
    /\ UNCHANGED <<noKeepAlive, backoffs, elapsed, left>>

\* Too few yet, another call has fallen back, or the fallback model cannot
\* be made.
CapacityError(c) ==
    /\ stage[c] = "invoke"
    /\ ~Bails(c)
    /\ capacityErrors' = capacityErrors + 1
    /\ MaybeStale(c)
    /\ Backoff(c)
    /\ UNCHANGED <<fallbackActive, model, backoffs, elapsed>>

WakeUp(c) ==
    /\ stage[c] = "sleep"
    /\ left[c] = 0
    /\ backoffs' = [backoffs EXCEPT ![c] = @ + 1]
    /\ LoopTop(c)
    /\ UNCHANGED <<runnerVars, model, elapsed, left>>

CancelCall(c) ==
    /\ stage[c] \in Running
    /\ End(c, "cancelled")
    /\ UNCHANGED <<runnerVars, model, backoffs, elapsed, left>>

\* Time passes for every call under way.
Passes ==
    /\ \E c \in LlmCalls : stage[c] \in Running /\ (left[c] > 0 \/ elapsed[c] < TotalCap)
    /\ elapsed' = [c \in LlmCalls |-> IF stage[c] \in Running
                                      THEN Shorter(elapsed[c] + 1, TotalCap) ELSE elapsed[c]]
    /\ left' = [c \in LlmCalls |-> IF left[c] > 0 THEN left[c] - 1 ELSE 0]
    /\ UNCHANGED <<runnerVars, stage, model, backoffs>>

Answer(c) == Succeed(c) \/ GiveUp(c) \/ RetriableError(c) \/ FallBack(c) \/ CapacityError(c)

RetryNext == \/ \E c \in LlmCalls : StartCall(c) \/ Answer(c) \/ WakeUp(c) \/ CancelCall(c)
             \/ Passes

RetrySpec == RetryInit /\ [][RetryNext]_retryVars

\* Requests are answered (run_llm_call_with_policy has its own time limit),
\* sleepers wake and time passes.  Which answer comes is left open.
RetryFairness ==
    /\ WF_retryVars(Passes)
    /\ \A c \in LlmCalls : WF_retryVars(Answer(c)) /\ WF_retryVars(WakeUp(c))

RetryFairSpec == RetrySpec /\ RetryFairness
-----------------------------------------------------------------------------
(* Properties *)

\* CeilingKept: a sleep ends no later than the ceiling, so that whoever
\* sleeps still has the time it sleeps for ("a hard ceiling at
\* persistent_retry_total_cap_seconds total").
CeilingKept == \A c \in LlmCalls : stage[c] = "sleep" => elapsed[c] + left[c] <= TotalCap

\* BackoffsPaid: every backoff of a call has taken time: so far those before
\* the one it sleeps for, and that one when its sleep is over.
BackoffsPaid ==
    \A c \in LlmCalls :
        /\ backoffs[c] <= elapsed[c]
        /\ stage[c] = "sleep" => backoffs[c] + 1 <= elapsed[c] + left[c]

\* RetryBounded: whatever the calls that share the runner do to its counters and
\* its model, no sleep of a call goes beyond its ceiling and none of its
\* backoffs is free, so that the ceiling bounds its attempts as well.
RetryBounded == CeilingKept /\ BackoffsPaid

\* FallbackLasts: once the runner has fallen back, whatever it sends goes to the
\* fallback model ("switches to a configured fallback model for the remainder
\* of the step/goal").
FallbackLasts ==
    [][\A c \in LlmCalls :
          (fallbackActive /\ stage[c] # "invoke" /\ stage'[c] = "invoke") => model'[c] = "fallback"]_retryVars

\* CallsEnd: whatever the provider answers, a model call returns or raises: time
\* and again none is under way.
CallsEnd == []<>(\A c \in LlmCalls : stage[c] \notin Running)
=============================================================================
