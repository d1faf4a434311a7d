---------------------------- MODULE McpRegistry ----------------------------
(***************************************************************************)
(* mcp/mcp_registry.py and mcp/reconnect.py: the registries of a process   *)
(* (one per agent) connect their MCP servers.  A failed attempt on a       *)
(* remote server schedules a retry loop and awaits it; loops are kept in   *)
(* one table of the process, by server name, and a new one cancels the     *)
(* loop it finds there.                                                    *)
(*                                                                         *)
(* One event loop: a step ends at an await.  Cancellation follows asyncio: *)
(* it is delivered at the next await, before any result; a task that       *)
(* cancels itself passes it on to the task it awaits next, so a loop whose *)
(* attempt fails dooms the loop it has just made.  _connect_server turns   *)
(* every exception into "failed", so an attempt always returns to its loop *)
(* as a success: the code after it for later attempts and for the terminal *)
(* failure cannot be reached and is not modelled.                          *)
(***************************************************************************)
EXTENDS FiniteSets

CONSTANTS Registries, Servers,
          Remote,     \* servers whose transport is not stdio
          Hosted,     \* registries whose host reports disconnects, reconnects
          Loops,      \* reconnect_loop tasks
          NoLoop, NoJob

ASSUME McpAssumption ==
    /\ Remote \subseteq Servers
    /\ Hosted \subseteq Registries
    /\ NoLoop \notin Loops
    /\ NoJob \notin Registries \X Servers
    /\ Loops \cap (Registries \X Servers \X {"init", "host"}) = {}

VARIABLES
    phase,    \* each registry: "down", "starting" (in initialize), "up"
    conn,     \* the status of _connections[name], "none" when there is none
    active,   \* _active_reconnects, one table for the whole process
    pc,       \* where each task stands
    job,      \* the registry and server of a loop
    awaits,   \* the loop a task awaits in schedule_reconnect
    doomed,   \* the tasks whose cancellation is pending
    fresh,    \* loops whose captured connection is still the registry's
    last      \* history: what a registry has last heard of a server: how an
              \* attempt ended, or that the connection is lost

mcpVars == <<phase, conn, active, last>>
vars == <<phase, conn, active, pc, job, awaits, doomed, fresh, last>>

\* Who attempts a connection: initialize, a host that calls
\* handle_reconnect_success, or a loop.
Callers == Registries \X Servers \X {"init", "host"}
McpTasks == Callers \cup Loops
Job(t) == IF t \in Loops THEN job[t] ELSE <<t[1], t[2]>>

Statuses == {"none", "connected", "connect_failed", "reconnecting", "disconnected"}
\* "new", "backoff": a loop that has not run yet, that sleeps; "open": an
\* attempt is under way; "close": it has succeeded and leaves its session;
\* "await": the task awaits a loop.
Steps == {"idle", "new", "backoff", "open", "close", "await", "done"}

TypeOK ==
    /\ phase \in [Registries -> {"down", "starting", "up"}]
    /\ conn \in [Registries \X Servers -> Statuses]
    /\ active \in [Servers -> Loops \cup {NoLoop}]
    /\ pc \in [McpTasks -> Steps]
    /\ job \in [Loops -> (Registries \X Servers) \cup {NoJob}]
    /\ awaits \in [McpTasks -> Loops \cup {NoLoop}]
    /\ doomed \in SUBSET Loops
    /\ fresh \in SUBSET Loops
    /\ last \in [Registries \X Servers -> {"none", "ok", "failed", "lost"}]

Init ==
    /\ phase = [r \in Registries |-> "down"]
    /\ conn = [j \in Registries \X Servers |-> "none"]
    /\ active = [s \in Servers |-> NoLoop]
    /\ pc = [t \in McpTasks |-> "idle"]
    /\ job = [l \in Loops |-> NoJob]
    /\ awaits = [t \in McpTasks |-> NoLoop]
    /\ doomed = {}
    /\ fresh = {}
    /\ last = [j \in Registries \X Servers |-> "none"]

-----------------------------------------------------------------------------
(* The registry's own operations.                                          *)

InitTasks(r) == {t \in Callers : t[1] = r /\ t[3] = "init"}

\* initialize: an attempt on every server, all at once.
Initialize(r) ==
    /\ phase[r] = "down"
    /\ phase' = [phase EXCEPT ![r] = "starting"]
    /\ pc' = [t \in McpTasks |-> IF t \in InitTasks(r) THEN "open" ELSE pc[t]]
    /\ UNCHANGED <<conn, active, job, awaits, doomed, fresh, last>>

\* gather returns: every attempt has, with the retry loop it awaited.
Initialized(r) ==
    /\ phase[r] = "starting"
    /\ \A t \in InitTasks(r) : pc[t] = "done"
    /\ phase' = [phase EXCEPT ![r] = "up"]
    /\ pc' = [t \in McpTasks |-> IF t \in InitTasks(r) THEN "idle" ELSE pc[t]]
    /\ UNCHANGED <<conn, active, job, awaits, doomed, fresh, last>>

\* shutdown closes sessions; it cancels no loop and leaves statuses alone.
Shutdown(r) ==
    /\ phase[r] = "up"
    /\ phase' = [phase EXCEPT ![r] = "down"]
    /\ UNCHANGED <<conn, active, pc, job, awaits, doomed, fresh, last>>

HandleDisconnect(r, s) ==
    /\ conn[<<r, s>>] # "none"
    /\ conn' = [conn EXCEPT ![<<r, s>>] = "disconnected"]
    /\ last' = [last EXCEPT ![<<r, s>>] = "lost"]
    /\ UNCHANGED <<phase, active, pc, job, awaits, doomed, fresh>>

\* handle_reconnect_success: an attempt of its own.
HandleReconnect(r, s) ==
    LET t == <<r, s, "host">> IN
    /\ phase[r] = "up"
    /\ pc[t] = "idle"
    /\ pc' = [pc EXCEPT ![t] = "open"]
    /\ UNCHANGED <<mcpVars, job, awaits, doomed, fresh>>

-----------------------------------------------------------------------------
(* reconnect_loop                                                          *)

\* The task ends; a host's goes back to its host.
LoopReturns(t) ==
    /\ pc' = [pc EXCEPT ![t] = IF t \in Loops \/ t[3] = "init" THEN "done" ELSE "idle"]
    /\ job' = IF t \in Loops THEN [job EXCEPT ![t] = NoJob] ELSE job

\* The loop starts and captures the connection it will update.
LoopStart(l) ==
    /\ pc[l] = "new"
    /\ l \notin doomed
    /\ pc' = [pc EXCEPT ![l] = "backoff"]
    /\ fresh' = fresh \cup {l}
    /\ UNCHANGED <<mcpVars, job, awaits, doomed>>

\* Backoff is over: the captured connection, which the registry may have
\* replaced, says "reconnecting".
Attempt(l) ==
    /\ pc[l] = "backoff"
    /\ l \notin doomed
    /\ pc' = [pc EXCEPT ![l] = "open"]
    /\ conn' = IF l \in fresh THEN [conn EXCEPT ![job[l]] = "reconnecting"] ELSE conn
    /\ UNCHANGED <<phase, active, job, awaits, doomed, fresh, last>>

\* CancelledError is raised where the loop stands and ends it.
Cancelled(l) ==
    /\ l \in doomed
    /\ doomed' = doomed \ {l}
    /\ LoopReturns(l)
    /\ fresh' = fresh \ {l}
    /\ UNCHANGED <<mcpVars, awaits>>

-----------------------------------------------------------------------------
(* _connect_server and schedule_reconnect                                  *)

\* A new MCPConnection takes the place of the one loops have captured.
Replace(j, status, outcome) ==
    /\ conn' = [conn EXCEPT ![j] = status]
    /\ last' = [last EXCEPT ![j] = outcome]
    /\ fresh' = {l \in fresh : job[l] # j}

Connecting(t) == pc[t] \in {"open", "close"} /\ t \notin doomed

\* The connection is entered while the session is still open.
ConnectOk(t) ==
    /\ Connecting(t)
    /\ pc[t] = "open"
    /\ Replace(Job(t), "connected", "ok")
    /\ pc' = [pc EXCEPT ![t] = "close"]
    /\ UNCHANGED <<phase, active, job, awaits, doomed>>

\* Mutant of MarkConnected: the loop looks the connection up again.
MarkConnectedAnew(t) == conn' = IF t \in Loops THEN [conn EXCEPT ![job[t]] = "connected"] ELSE conn

\* An attempt has returned: its loop writes "connected" into the connection it
\* captured, which is or is not the registry's.
MarkConnected(t) ==
    conn' = IF t \in Loops /\ t \in fresh THEN [conn EXCEPT ![job[t]] = "connected"] ELSE conn

\* The session has been left, and the attempt returns.
SessionClosed(t) ==
    /\ Connecting(t)
    /\ pc[t] = "close"
    /\ MarkConnected(t)
    /\ LoopReturns(t)
    /\ UNCHANGED <<phase, active, awaits, doomed, fresh, last>>

\* The session cannot be opened or left.  A stdio server that fails is not
\* entered and not retried.
ConnectFailStdio(t) ==
    /\ Connecting(t)
    /\ Job(t)[2] \notin Remote
    /\ last' = [last EXCEPT ![Job(t)] = "failed"]
    /\ LoopReturns(t)
    /\ UNCHANGED <<phase, conn, active, awaits, doomed, fresh>>

\* A task object nobody refers to any more is free for reuse.
Unused(l) == /\ pc[l] \in {"idle", "done"}
             /\ \A s \in Servers : active[s] # l
             /\ \A t \in McpTasks : awaits[t] # l

\* Mutant of Cancel: the loop that is found is left to run.
CancelNone(t, old, new) == doomed' = doomed

\* cancel_reconnect, by a task t that is about to await the loop new.
Cancel(t, old, new) ==
    doomed' = IF old = t THEN doomed \cup {new}
              ELSE IF old # NoLoop /\ pc[old] # "done" THEN doomed \cup {old}
              ELSE doomed

\* Mutant of ConnectFailRemote: the connection is not replaced by a new one.
ConnectFailRemoteKeeps(t) ==
    LET s == Job(t)[2] IN
    /\ Connecting(t)
    /\ s \in Remote
    /\ last' = [last EXCEPT ![Job(t)] = "failed"]
    /\ \E l \in Loops :
          /\ Unused(l)
          /\ active' = [active EXCEPT ![s] = l]
          /\ job' = [job EXCEPT ![l] = Job(t)]
          /\ Cancel(t, active[s], l)
          /\ pc' = [pc EXCEPT ![t] = "await", ![l] = "new"]
          /\ awaits' = [awaits EXCEPT ![t] = l]
    /\ UNCHANGED <<phase, conn, fresh>>

\* The failure is entered, and a new loop scheduled and awaited.
ConnectFailRemote(t) ==
    LET s == Job(t)[2] IN
    /\ Connecting(t)
    /\ s \in Remote
    /\ Replace(Job(t), "connect_failed", "failed")
    /\ \E l \in Loops :
          /\ Unused(l)
          /\ active' = [active EXCEPT ![s] = l]
          /\ job' = [job EXCEPT ![l] = Job(t)]
          /\ Cancel(t, active[s], l)
          /\ pc' = [pc EXCEPT ![t] = "await", ![l] = "new"]
          /\ awaits' = [awaits EXCEPT ![t] = l]
    /\ UNCHANGED phase

\* Mutant of Wake: a task is woken by a successful retry only.
WakeOnSuccess(t) ==
    /\ pc[t] = "await"
    /\ pc[awaits[t]] = "done"
    /\ last[Job(t)] = "ok"
    /\ MarkConnected(t)
    /\ LoopReturns(t)
    /\ awaits' = [awaits EXCEPT ![t] = NoLoop]
    /\ UNCHANGED <<phase, active, last, doomed, fresh>>

\* The awaited loop is done or cancelled, which is swallowed; the attempt
\* returns "failed", which a loop takes for a success.
Wake(t) ==
    /\ pc[t] = "await"
    /\ pc[awaits[t]] = "done"
    /\ MarkConnected(t)
    /\ LoopReturns(t)
    /\ awaits' = [awaits EXCEPT ![t] = NoLoop]
    /\ UNCHANGED <<phase, active, last, doomed, fresh>>

-----------------------------------------------------------------------------
Loop(l) == LoopStart(l) \/ Attempt(l) \/ Cancelled(l)

Connect(t) == \/ ConnectOk(t) \/ SessionClosed(t) \/ ConnectFailStdio(t) \/ ConnectFailRemote(t)
              \/ Wake(t)

Next ==
    \/ \E r \in Registries :
          \/ Initialize(r) \/ Initialized(r) \/ Shutdown(r)
    \/ \E r \in Hosted, s \in Servers : HandleDisconnect(r, s) \/ HandleReconnect(r, s)
    \/ \E l \in Loops : Loop(l)
    \/ \E t \in McpTasks : Connect(t)

Spec == Init /\ [][Next]_vars

\* The event loop runs every task and timer; attempts on a server return.
Fairness ==
    /\ \A r \in Registries : WF_vars(Initialized(r))
    /\ \A l \in Loops : WF_vars(Loop(l))
    /\ \A t \in McpTasks : WF_vars(Connect(t))

FairSpec == Spec /\ Fairness
-----------------------------------------------------------------------------
(* Properties *)

\* Trying: a task that will still make an attempt, or is making one.
Trying(t) == pc[t] \in {"new", "backoff", "open", "close"} /\ t \notin doomed

\* Its attempt is still to come, or not decided.
Retrying(l) == Trying(l) /\ pc[l] # "close"

\* OneRetry: at most one loop of the process is trying to reach a server,
\* whoever else connects, fails or disconnects beside it.
OneRetry ==
    \A l, k \in Loops : Trying(l) /\ Trying(k) /\ job[l][2] = job[k][2] => l = k

\* StatusEarned: a remote server is "connected" only if the last that was heard
\* of it is an attempt that succeeded, and no loss or failure since, although
\* each loop, when its attempt has returned, writes "connected" into the
\* connection it captured, also after an attempt that failed or a loss that
\* was reported while the session was left.
StatusEarned ==
    \A j \in Registries \X Remote : conn[j] = "connected" => last[j] = "ok"

\* RetryAlive: a server said to be "reconnecting" is being reconnected by
\* its own registry ("Per-agent registry", mcp_registry.py:1).
RetryAlive ==
    \A j \in Registries \X Servers :
        conn[j] = "reconnecting" => \E l \in Loops : job[l] = j /\ Retrying(l)

\* InitializeReturns: initialize ends, although it awaits the retry loops of
\* its servers, which others may cancel.
InitializeReturns == \A r \in Registries : phase[r] = "starting" ~> phase[r] = "up"

\* RetriedOrTerminal: a remote server that failed is retried until it is
\* marked "connect_failed_terminal" ("Remote transports auto-reconnect",
\* reconnect.py:3; "Exhausted attempts", :111).
RetriedOrTerminal ==
    \A r \in Registries, s \in Remote :
        phase[r] = "up" /\ conn[<<r, s>>] = "connect_failed" =>
            \E t \in McpTasks : Job(t) = <<r, s>> /\ Trying(t)
=============================================================================
