----------------------------- MODULE DeepResearch ---------------------------
(***************************************************************************)
(* subagents/deep_research/engine.py and termination.py: one run of the    *)
(* research graph.  It plans, searches the web with several queries at     *)
(* once, joins, reflects, and searches again or writes its report.         *)
(*                                                                         *)
(* A step is a node of the graph; the searches of a round are nodes that   *)
(* run in parallel and are joined.  Models and web are external: a model   *)
(* call or a search that fails or times out is replaced by a fallback in   *)
(* the node, but a crawl that raises, and an answer of the model that has  *)
(* not the shape the prompt asks for, end the run with an exception.  The  *)
(* references are counted as far as RefLimit (a bound of the model).       *)
(***************************************************************************)
EXTENDS Naturals, FiniteSets

CONSTANTS InitialQueries,  \* max_initial_queries of the effort's profile
          FollowUps,       \* max_follow_up_queries
          LoopLimits,      \* the values max_loops may have
          MinResults,      \* min_results_for_termination
          MinDiversity,    \* min_source_diversity
          RefLimit

ASSUME ResearchAssumption ==
    /\ InitialQueries \in Nat \ {0} /\ FollowUps \in Nat
    /\ LoopLimits \subseteq Nat /\ LoopLimits # {}
    /\ MinResults \in Nat \ {0} /\ MinDiversity \in Nat \ {0}
    /\ RefLimit \in Nat /\ RefLimit >= MinResults

VARIABLES
    node,        \* the node the run comes to
    maxLoops,    \* max_loops
    loops,       \* loop_count
    searches,    \* the searches of this round that are still under way
    references,  \* how many references_gathered there are
    kinds,       \* their source names
    asked        \* history: the searches made

researchVars == <<node, maxLoops, loops, searches, references, kinds, asked>>

SourceKinds == {"web_search", "url_crawl"}

ResearchTypeOK ==
    /\ node \in {"plan_research", "gather", "reflect", "route", "synthesize", "answered", "raised"}
    /\ maxLoops \in LoopLimits
    /\ loops \in Nat /\ searches \in Nat /\ asked \in Nat
    /\ references \in 0 .. RefLimit
    /\ kinds \in SUBSET SourceKinds

ResearchInit ==
    /\ node = "plan_research"
    /\ maxLoops \in LoopLimits
    /\ loops = 0 /\ searches = 0 /\ asked = 0
    /\ references = 0
    /\ kinds = {}

\* route_to_gather and route_after_reflection: one Send for each query.
Launch(n) ==
    /\ node' = "gather"
    /\ searches' = n
    /\ asked' = asked + n

\* plan_research_node: the planned queries, capped, or fallback queries.
PlanResearch ==
    /\ node = "plan_research"
    /\ \E n \in 1 .. InitialQueries : Launch(n)
    /\ UNCHANGED <<maxLoops, loops, references, kinds>>

\* A node or a route raises: LangGraph drops what else runs in the superstep
\* and the run ends with the exception.
Raise ==
    /\ node' = "raised"
    /\ UNCHANGED <<maxLoops, loops, searches, references, kinds, asked>>

\* Sub-questions or queries that are no list cannot be cut to the limit, and a
\* query that is no text cannot be shortened.
PlanRaises == node = "plan_research" /\ Raise

Least(a, b) == IF a < b THEN a ELSE b

\* gather_node: search results, with or without pages crawled behind them,
\* or nothing at all.
Gather ==
    /\ node = "gather" /\ searches > 0
    /\ searches' = searches - 1
    /\ \E found \in {{}, {"web_search"}, SourceKinds}, more \in 0 .. 1 :
          /\ references' = IF found = {} THEN references
                           ELSE Least(references + Cardinality(found) + more, RefLimit)
          /\ kinds' = kinds \cup found
    /\ UNCHANGED <<node, maxLoops, loops, asked>>

\* Only the search is guarded: the crawl behind it (which _run_async may run a
\* second time) or a reference made of its result may raise.
GatherRaises == node = "gather" /\ searches > 0 /\ Raise

\* summarize_node joins the searches; it only rewrites text.
Summarize ==
    /\ node = "gather" /\ searches = 0
    /\ node' = "reflect"
    /\ UNCHANGED <<maxLoops, loops, searches, references, kinds, asked>>

\* check_termination is given the last references gathered so far as the
\* current results.  Every one of their sources is an earlier source then,
\* and their content is a query, too short for the check of the quality, so
\* that "no_new_sources" is the one reason it ever stops for.
Current == Least(references, 10)
EarlyEnd ==
    /\ loops >= 2
    /\ references + Current >= MinResults
    /\ Cardinality(kinds) >= MinDiversity

\* Mutant of Reflect: only a stop by the heuristics counts as a loop.
ReflectUncounted ==
    /\ node = "reflect"
    /\ loops' = IF EarlyEnd THEN loops + 1 ELSE loops
    /\ node' \in (IF EarlyEnd THEN {"synthesize"} ELSE {"route", "synthesize"})
    /\ UNCHANGED <<maxLoops, searches, references, kinds, asked>>

\* reflect_node: the heuristics end the run, or the model says whether what
\* there is suffices; an answer it cannot read counts as yes.
Reflect ==
    /\ node = "reflect"
    /\ loops' = loops + 1
    /\ node' \in (IF EarlyEnd THEN {"synthesize"} ELSE {"route", "synthesize"})
    /\ UNCHANGED <<maxLoops, searches, references, kinds, asked>>

\* Mutant of MoreLoops: one loop too many.
MoreLoopsOff == loops <= maxLoops

MoreLoops == loops < maxLoops

\* route_after_reflection when it did not suffice: the follow-ups, capped.
FollowUp ==
    /\ node = "route" /\ MoreLoops
    /\ \E n \in 1 .. FollowUps : Launch(n)
    /\ UNCHANGED <<maxLoops, loops, references, kinds>>

\* The follow-ups are null, or no list, or one of them is no text.  With a
\* limit of zero they are not looked at.
FollowUpRaises == node = "route" /\ MoreLoops /\ FollowUps > 0 /\ Raise

\* No loop is left, or the model named an empty list of follow-ups.
Stop ==
    /\ node = "route"
    /\ node' = "synthesize"
    /\ UNCHANGED <<maxLoops, loops, searches, references, kinds, asked>>

\* synthesize_node: the report, or what was found, if the model fails.
Synthesize ==
    /\ node = "synthesize"
    /\ node' = "answered"
    /\ UNCHANGED <<maxLoops, loops, searches, references, kinds, asked>>

\* The model is guarded; merging the references and saving the report are not.
SynthesizeRaises == node = "synthesize" /\ Raise

ResearchNext == \/ PlanResearch \/ Gather \/ Summarize \/ Reflect \/ FollowUp \/ Stop \/ Synthesize
                \/ PlanRaises \/ GatherRaises \/ FollowUpRaises \/ SynthesizeRaises

ResearchSpec == ResearchInit /\ [][ResearchNext]_researchVars

\* LangGraph runs the next node; every call in a node has a time limit.
ResearchFairness == WF_researchVars(ResearchNext /\ node # "plan_research")
ResearchFairSpec == ResearchSpec /\ ResearchFairness
-----------------------------------------------------------------------------
(* Properties *)

\* ResearchBounded: a run makes no more searches than its profile and its
\* loop limit allow, whatever the model answers when it reflects, and even
\* for a loop limit of zero it reflects once at most.
ResearchBounded ==
    /\ asked <= InitialQueries + (IF maxLoops = 0 THEN 0 ELSE (maxLoops - 1) * FollowUps)
    /\ loops <= (IF maxLoops = 0 THEN 1 ELSE maxLoops)

\* ResearchEnds: every run that has begun ends, with an answer or with the
\* exception of a node, however often the model asks for more.
ResearchEnds == node # "plan_research" ~> node \in {"answered", "raised"}
=============================================================================
