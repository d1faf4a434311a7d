------------------------------ MODULE PlanEngine ----------------------------
(***************************************************************************)
(* subagents/plan/engine.py: one run of the planner's graph.  It looks at  *)
(* the workspace with read-only tools for some rounds, drafts its report   *)
(* for some rounds and emits the last draft.                               *)
(*                                                                         *)
(* A step is a node of the graph.  Models and tools are external.          *)
(***************************************************************************)
EXTENDS Naturals

CONSTANTS MaxRecon,  \* max_recon_rounds
          MaxPlan,   \* max_plan_rounds
          HasTools   \* enable_recon, and there are tools

ASSUME PlanAssumption ==
    /\ MaxRecon \in Nat /\ MaxPlan \in Nat \ {0}
    /\ HasTools \in BOOLEAN /\ (HasTools => MaxRecon > 0)

VARIABLES
    planAt,     \* the node the run comes to
    recon,      \* recon_round
    drafts,     \* plan_round
    findings,   \* how many findings there are
    draft,      \* plan_markdown
    calls       \* history: the model calls made

planVars == <<planAt, recon, drafts, findings, draft, calls>>

PlanTypeOK ==
    /\ planAt \in {"ingest", "recon_model", "recon_tools", "plan_iteration", "emit_final", "reported", "raised"}
    /\ recon \in Nat /\ drafts \in Nat /\ findings \in Nat /\ calls \in Nat
    /\ draft \in {"empty", "written", "fallback"}

PlanInit ==
    /\ planAt = "ingest"
    /\ recon = 0 /\ drafts = 0 /\ findings = 0 /\ calls = 0
    /\ draft = "empty"

Ingest ==
    /\ planAt = "ingest"
    /\ planAt' = IF HasTools THEN "recon_model" ELSE "plan_iteration"
    /\ UNCHANGED <<recon, drafts, findings, draft, calls>>

\* recon_model: the model fails, or calls no tool and may summarize; either
\* ends the reconnaissance.
ReconEnds ==
    /\ planAt = "recon_model"
    /\ planAt' = "plan_iteration"
    /\ recon' = recon + 1 /\ calls' = calls + 1
    /\ findings' \in {findings, findings + 1}
    /\ UNCHANGED <<drafts, draft>>

\* It calls tools.
ReconCalls ==
    /\ planAt = "recon_model"
    /\ planAt' = "recon_tools"
    /\ recon' = recon + 1 /\ calls' = calls + 1
    /\ UNCHANGED <<drafts, findings, draft>>

\* Mutant of ReconDone: one round too many.
ReconDoneLate == recon > MaxRecon

ReconDone == recon >= MaxRecon

\* The tool node and recon_collect: what the tools said, good or bad.
Collect ==
    /\ planAt = "recon_tools"
    /\ planAt' = IF ReconDone THEN "plan_iteration" ELSE "recon_model"
    /\ findings' = findings + 1
    /\ UNCHANGED <<recon, drafts, draft, calls>>

\* An error the tool node does not turn into a message ends the run.
ToolsRaise ==
    /\ planAt = "recon_tools"
    /\ planAt' = "raised"
    /\ UNCHANGED <<recon, drafts, findings, draft, calls>>

\* plan_iteration: a draft, which may be empty and takes the place of the one
\* before it; a failure ends the planning with a fallback report.
Draft ==
    /\ planAt = "plan_iteration"
    /\ drafts' = drafts + 1 /\ calls' = calls + 1
    /\ \E text \in {"empty", "written", "fallback"}, finish \in BOOLEAN :
          /\ text = "fallback" => finish
          /\ draft' = text
          /\ planAt' = IF finish \/ drafts + 1 >= MaxPlan THEN "emit_final" ELSE "plan_iteration"
    /\ UNCHANGED <<recon, findings>>

EmitFinal ==
    /\ planAt = "emit_final"
    /\ planAt' = "reported"
    /\ UNCHANGED <<recon, drafts, findings, draft, calls>>

PlanNext == Ingest \/ ReconEnds \/ ReconCalls \/ Collect \/ ToolsRaise \/ Draft \/ EmitFinal

PlanSpec == PlanInit /\ [][PlanNext]_planVars

\* LangGraph runs the next node; calls have time limits.
PlanFairness == WF_planVars(PlanNext /\ planAt # "ingest")
PlanFairSpec == PlanSpec /\ PlanFairness
-----------------------------------------------------------------------------
(* Properties *)

\* PlanBounded: whatever the model answers, its calls stay within the two
\* limits, and a finding takes a round of its own.
PlanBounded ==
    /\ calls <= MaxRecon + MaxPlan
    /\ findings <= recon

\* PlanReports: every run ends with a report, or with the error of a tool.
PlanReports == planAt # "ingest" ~> planAt \in {"reported", "raised"}
=============================================================================
