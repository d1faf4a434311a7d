------------------------------ MODULE MCAgents ------------------------------
(***************************************************************************)
(* The edits, the plugins and the MCP servers of agents, for TLC.  They    *)
(* share no state: a behaviour exercises one of them (part) and leaves the *)
(* others as they begin, so that the states of the run are those of each   *)
(* component.                                                              *)
(*                                                                         *)
(* Plugins are a part twice.  With one shutdown, two calls of load_plugins *)
(* and the shutdown may overlap in any way.  With two, the behaviour ends  *)
(* when a call begins to load beside another call (calm): what is said of  *)
(* plugins after that is their types, which hold for any number of calls   *)
(* (PluginTyping).                                                         *)
(***************************************************************************)
EXTENDS EditCoalescing, PluginLifecycle, TLC

CONSTANTS a1, a2, b1, b2, sA, sB, fileF, d1,
          Registries, Servers, Remote, Hosted, Loops, NoLoop, NoJob

VARIABLES
    part,
    phase, conn, active, pc, job, awaits, doomed, fresh, last   \* McpRegistry's

Mcp == INSTANCE McpRegistry
mcpVars == <<phase, conn, active, pc, job, awaits, doomed, fresh, last>>

\* Two scopes editing the same file.
StringKind == [c \in {a1, a2, b1, b2} |-> "string"]
TwoScopes == (a1 :> sA) @@ (a2 :> sA) @@ (b1 :> sB) @@ (b2 :> sB)
OneFile == [c \in {a1, a2, b1, b2} |-> fileF]

AgentsParts == {"edits", "mcp", "one shutdown", "two shutdowns"}

\* AgentsTypeOK: the variables of each component keep their types.
AgentsTypeOK ==
    /\ part \in AgentsParts
    /\ TypeOK
    /\ PlugTypeOK
    /\ Mcp!TypeOK

AgentsInit ==
    /\ part \in AgentsParts
    /\ Init
    /\ PlugInit
    /\ Mcp!Init

AgentsNext ==
    \/ part = "edits" /\ Next
       /\ UNCHANGED <<part, plugVars, mcpVars>>
    \/ part = "mcp" /\ Mcp!Next
       /\ UNCHANGED <<part, vars, plugVars>>
    \/ /\ \/ part = "one shutdown" /\ PlugNext /\ \A d \in Downs \ {d1} : downAt'[d] = "new"
          \/ part = "two shutdowns" /\ calm /\ PlugNext
       /\ UNCHANGED <<part, vars, mcpVars>>

AgentsSpec == AgentsInit /\ [][AgentsNext]_<<part, vars, plugVars, mcpVars>>

\* StatusTrue: what a registry says of a remote server is true: "connected" only
\* if the last that was heard of it is an attempt that succeeded, although loops
\* write that late; "reconnecting" only while the registry that says so is
\* reconnecting it, through cancellation and self-cancellation.
StatusTrue == Mcp!StatusEarned /\ Mcp!RetryAlive
=============================================================================
