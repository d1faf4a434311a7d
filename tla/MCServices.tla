----------------------------- MODULE MCServices -----------------------------
(***************************************************************************)
(* What an agent calls outside: models, MCP servers, web pages, shell      *)
(* commands, and the two subagents that loop over them, for TLC.           *)
(* They share no state: a behaviour exercises one of them (part) and leaves*)
(* the others as they begin, so that the states of the run are those of    *)
(* each component.                                                         *)
(***************************************************************************)
EXTENDS McpRegistry, PersistentRetry, PoliteHttp, DeepResearch, PlanEngine, ShellCommand

VARIABLE part

ServicesParts == {"mcp", "model calls", "http", "research", "plan", "shell"}

\* ServicesTypeOK: the variables of each component keep their types.
ServicesTypeOK ==
    /\ part \in ServicesParts
    /\ TypeOK
    /\ RetryTypeOK
    /\ HttpTypeOK
    /\ ResearchTypeOK
    /\ PlanTypeOK
    /\ ShellTypeOK

ServicesInit ==
    /\ part \in ServicesParts
    /\ Init
    /\ RetryInit
    /\ HttpInit
    /\ ResearchInit
    /\ PlanInit
    /\ ShellInit
    /\ part # "research" => maxLoops = (CHOOSE n \in LoopLimits : TRUE)

ServicesNext ==
    \/ part = "mcp" /\ Next
       /\ UNCHANGED <<part, retryVars, httpVars, researchVars, planVars, shellVars>>
    \/ part = "model calls" /\ RetryNext
       /\ UNCHANGED <<part, vars, httpVars, researchVars, planVars, shellVars>>
    \/ part = "http" /\ HttpNext
       /\ UNCHANGED <<part, vars, retryVars, researchVars, planVars, shellVars>>
    \/ part = "research" /\ ResearchNext
       /\ UNCHANGED <<part, vars, retryVars, httpVars, planVars, shellVars>>
    \/ part = "plan" /\ PlanNext
       /\ UNCHANGED <<part, vars, retryVars, httpVars, researchVars, shellVars>>
    \/ part = "shell" /\ ShellNext
       /\ UNCHANGED <<part, vars, retryVars, httpVars, researchVars, planVars>>

servicesVars ==
    <<part, vars, retryVars, httpVars, researchVars, planVars, shellVars>>

\* The fairness of each component, which asks nothing of one at rest.
ServicesSpec == ServicesInit /\ [][ServicesNext]_servicesVars
               /\ Fairness
               /\ RetryFairness
               /\ HttpFairness
               /\ ResearchFairness
               /\ PlanFairness
               /\ ShellFairness

\* LoopsBounded: neither subagent makes more calls than its limits allow,
\* whatever the model answers.
LoopsBounded == ResearchBounded /\ PlanBounded

\* ServicesEnd: model calls, web requests, shell commands and the start of an
\* MCP registry end, whatever the other side does, and every research run and
\* every planning run ends, with a result or with an exception.
ServicesEnd ==
    /\ CallsEnd /\ RequestsEnd /\ CommandEnds /\ InitializeReturns
    /\ ResearchEnds /\ PlanReports
=============================================================================
