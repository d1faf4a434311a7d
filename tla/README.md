# soothe-nano: a verification project

TLA+ models of the concurrent core of soothe-nano, the configurations that
model-check them, and proofs about them. Paths are relative to
`src/src/soothe_nano/` unless they start with `tests/`.

## 1. The system

soothe-nano assembles a LangGraph agent: a language model calls tools, each
tool call goes through a stack of middlewares, tools work on files, processes
and remote services, and the state of conversations is kept in SQLite or
PostgreSQL. Most of it runs on one asyncio event loop; the databases, files and
shell commands are also used from worker threads, the databases from several
processes.

### Inventory

| Component | State it keeps | Operations | What makes it correct |
|---|---|---|---|
| Edit coalescing (`middleware/edit_coalescing.py`) | queue and staging buffer per scope, window task per scope, a future per call, lock per file | tool call, end of window, batch dispatch | every caller answered once and truthfully; no edit lost |
| Tool call optimization (`middleware/tool_optimization.py`, `_window.py`) | lookup cache and read streak in a ContextVar, search queues | tool call, window, flush | cached answers are fresh and of their scope; every search run once |
| SQLite runtime and its registry (`persistence/sqlite_runtime.py`) | reader pool, semaphore, writer, closed flag; runtime and count per file | read, write, close; acquire, release, shutdown | a connection has one user; permits conserved; nothing written after close; a held runtime is open |
| Shared checkpointer pool (`persistence/shared_checkpointer_pool.py`) | pool, done flag, setup event per process; an advisory lock in the database | get, setup, reset, register, close | one setup at a time; followers neither hang nor run ahead |
| PostgreSQL pools (`persistence/postgres_pool_registry.py`, `shared_metadata_pool.py`) | registries, pools per key, a remembered pool | open, get, close, borrow | one pool per key; an opened registry serves open pools until its own close |
| PostgreSQL store (`backends/persistence/postgres_store.py`) | a pool, a lock | operation with one retry, reset, close | no pool leaked; the retry ends |
| Durability (`backends/durability/base.py`) | thread records and an index of their ids | create, suspend, resume, archive, list | the index leads to records; every thread listed |
| Local filesystem (`filesystem/local.py`) | two locks per file, version stamps | write, edit, line edits, diffs | an edit does not overwrite another |
| LLM invocation policy (`llm/invoke_policy.py`) | capacity error count, fallback flag, elapsed time | model call with retries | bounded retries, no sleep past the ceiling; a fallback that lasts |
| MCP registry and reconnection (`mcp/mcp_registry.py`, `reconnect.py`) | connections and status per agent, process-wide table of retry loops | initialize, shutdown, disconnect, retry | status earned; what "reconnects" is being retried |
| Polite HTTP client (`toolkits/url_crawl/polite_http.py`) | semaphore, token bucket and breaker of a domain | request with retries | permits returned once; breaker within its thresholds |
| Shell commands (`toolkits/shell.py`) | a process group, a pipe, a reading thread, a queue | run_command | output returned, limit and deadline kept, no process left behind |
| Plugins (`plugin/`) | one registry and manager, instances | load, shut down | no initialised plugin outlives its registry; a load exposes plugins of its own; what is returned is filled |
| Deep research and planner (`subagents/deep_research`, `subagents/plan`) | the state of one graph run | the graph's nodes | bounded loops; every run ends |
| Providers, other toolkits and middleware, security, skills, memory, configuration, events, tracing | mostly none | | conversions, text, external services |

### How they interact

- The middlewares form a stack (`middleware/_builder.py`): tool optimization is
  outside edit coalescing, which is outside the error guard. One middleware
  instance serves all graph threads, so queues are keyed by *scope* (thread id
  and checkpoint namespace), while locks are keyed by file.
- A coalescing middleware detaches work from its caller: the caller awaits a
  future, a window task runs the work. A cancelled caller does not stop it.
- Edit coalescing reads and writes through the workspace backend, which has a
  lock registry of its own, with a lock of the event loop and a lock of threads
  for each file.
- Key-value and vector stores hold references to one SQLite runtime per file, or
  a PostgreSQL pool of their own, or one borrowed from the process's registry.
- Runners share the checkpointer pool of their process; the database is shared
  by processes.
- Each agent has an MCP registry; all registries share one table of retry loops.
- Model calls of an agent share one retry runner; requests to a domain share its
  semaphore, bucket and breaker; agents are built in threads of their own, each
  with an event loop, and share the plugin registry.

### Behaviours that are hard

Windows that overlap with the dispatch of the one before; a read, an await and
a write with other writers in between; two locks over one file; time limits
that expire while a write is under way; results that arrive after the cache was
emptied or the breaker has moved on; preempted threads between a check and its
lock; leaders that fail with followers waiting; crashes that leave a session
lock; tasks that cancel each other and themselves; pools closed under those who
borrow them; a queue that is empty for now. `PROJECT.json` lists each at its
line.

## 2. Modules

| Module | Models | Checked in |
|---|---|---|
| `ToolCallLedger` | what a coalescing middleware promises its callers (abstract) | as a property of `EditCoalescing` |
| `EditCoalescing` | edit coalescing | `MCAgents`, `MCMiddleware` (liveness), `MCEditCoalescing` (what is violated) |
| `ToolOptimization` | lookup cache, read streaks, search windows | `MCMiddleware` |
| `SqliteStoreRuntime` | one SQLite runtime and its threads | `MCDatabases` |
| `SqliteRuntimeRegistry` | reference counts and the life of runtimes | `MCDatabases` |
| `SharedCheckpointerPool` | the pool's election, lock, reset, crash | `MCDatabases` |
| `PostgresStore` | a store with a pool of its own | `MCStores` |
| `PostgresPools` | the process's pools and who borrows them | `MCStores` |
| `Durability` | thread records and their index | `MCStores` |
| `LocalFilesystem` | the calls that change one file | `MCStores` |
| `McpRegistry` | registries, connections, retry loops | `MCAgents`, `MCServices` |
| `PersistentRetry` | model calls that share a retry runner | `MCServices` |
| `PoliteHttp` | requests to one domain | `MCServices` |
| `ShellCommand` | one shell command | `MCServices` |
| `PluginLifecycle` | plugins loaded and shut down by several threads at once | `MCAgents` |
| `DeepResearch`, `PlanEngine` | the loops of two subagents | `MCServices` |
| `EditCoalescingProofs`, `ToolOptimizationProofs`, `SharedCheckpointerPoolProofs`, `McpRegistryProofs`, `PluginLifecycleProofs` | theorems about the module of that name | |
| `DatabasesProofs` | about the SQLite runtime, its registry and `MCDatabases` | |
| `StoresProofs` | about the four modules of `MCStores`, and `MCStores` | |
| `ServicesProofs` | about those of `MCServices` but `McpRegistry`, and `MCServices` | |

`MCAgents`, `MCMiddleware`, `MCDatabases`, `MCStores` and `MCServices` put components
that share no state into one run: a variable `part`, chosen at the start, says which
one a behaviour exercises, while the others stay as they begin. The states of such a
run are the sum of those of its components, not the product, and a property of one
component is checked over exactly its own behaviours. Where two modules use the same
names, one is an instance (`Mcp` in `MCAgents`, `Edits` in `MCMiddleware`), and the
properties of it that are checked have a name in the MC module.

Names follow the code: a variable is commented with the attribute it stands
for, an action with the method and, where a method spans several awaits, with
the part of it. `PROJECT.json` maps every definition to its lines.

**Granularity.** In asyncio components everything between two awaits is one
step. A lock that is never held across an await (`ScopeWindowBank._lock`, the
locks of the token bucket and of the breaker) is never found taken and is no
state. In thread components (`SqliteStoreRuntime`, `SqliteRuntimeRegistry`,
`LocalFilesystem`, `ShellCommand`, `PluginLifecycle`) a step is a region under one
lock or the code between two accesses to what is shared; checks made outside a
lock are steps of their own. In `PluginLifecycle` nothing takes a lock, and a step
is a single access to a global variable or a shared dictionary. In `Durability` a step is one load or save; in `DeepResearch` and
`PlanEngine` a node of the graph.

**Data.** A file's content is the set of edits it contains (`EditCoalescing`,
`LocalFilesystem`), or the number of edits made so far (`ToolOptimization`); a
connection, a pool or a task is an identity; a thread record is what its status
says; output is counted. Whether an `old_string` matches, edits overlap, a
connection opens, a server answers or a model wants another round is a free
choice.

**Mutants.** Definitions commented as a mutant are not used by the
specification: each is a plausible wrong version of the definition next to it
that TLC must reject, the evidence that a property can fail.

### EditCoalescing

`Caller` actions are `awrap_tool_call` (submit, stage, reject, evict) and the
cancellation of its caller; `Window` actions the ticks of
`_process_after_window` up to the pop of the queue; `Dispatch` actions the
dispatch per file: a lone edit by its handler, several by one read-modify-write
under the middleware's lock, line edits by one batched call, each with success,
rejection, failure and timeout. External, from its use in the code: the
backend holds its own lock from read to write in single edits and line batches,
`awrite` for the write only. Assumed: an error answer of the backend means
nothing was written, and a cancelled write does not land after the time limit's
step. Not modelled: the path without a backend, the handler fall-back for line
edits, different spellings of one path, the arithmetic of overlaps.

The abstract `ToolCallLedger` says what a caller may rely on; `LedgerSpec`
states that EditCoalescing implements it with `answer <- fut` and
`effect <- written`: answered at most once, "ok" only with the effect, "failed"
never with it.

### ToolOptimization

`Refuse`, `Hit`, `Direct`, `Search` are the four ways through the synchronous
part of `awrap_tool_call`; `Tick`, `WindowOver`, `Look`, `Resolve` are the
window task; `LookupReturns`, `EditReturns`, `Raises` the part after the await.
A lookup's result is the version of the files it saw. A reuse state is an
object handed on by a ContextVar: which calls share one is the constant
`StateOf`, because it depends on where LangGraph copies contexts. Calls of
parallel branches share it if it was set before they were started, as happens
for the calls of a subagent, which run inside the tool call that started it.
Where nothing set it, each call has a state of its own and nothing is reused.

### SqliteStoreRuntime, SqliteRuntimeRegistry

Reads are `ReadStart` (closed check), `PoolReady` or `Refill` (pool lock),
`AcquirePermit`, `LeasePooled` or `LeaseNew`, `ReadEnd`; every opening has a
failing twin. Writes hold the writer lock throughout. `Close` is one step: it
takes both locks in turn, and a thread that stands between them sees either.
The registry's `Release` pops the last runtime under its lock and closes it
later, in `CloseRuntime`. Stores are fully constructed and close once.

### SharedCheckpointerPool

A runner gets the pool, calls `setup_checkpointer` and works; its callers are
outside the repository, so when it resets or leaves is free. Leader actions
follow the code between awaits: connect, advisory lock, setup, unlock, finish.
`Crash` (external) ends a process: its memory and its sessions are gone, what
the database holds remains. A pool identity is used again once nobody
refers to it, so `Pools` bounds the pools in use at a time, not over a whole
behaviour. `SetupOk` is `setup()` returning, or raising what the code takes for a
duplicate-schema error; it then goes on to set the flag either way. Whether all
tables exist after such an error is PostgreSQL's and LangGraph's affair, and no
variable claims it.

### PostgresStore, PostgresPools

`PostgresStore` is one store that makes its pool on demand: an operation opens
it under the store's lock, runs its statement, and after a connection error
resets the pool and runs it once more; `close()` takes the pool away while
operations are under way. Openings and statements fail and callers are
cancelled anywhere. `lostPools` is a history variable: the pools nobody will
close, which the code produces in two ways that the property names.

`PostgresPools` has the singleton registry (`GetInstance`, `OpenPool`,
`CloseAllPools` and the closing of one pool after the other), the shared
metadata pool, which prefers the registry's pool and otherwise makes one, and
the stores that borrow it, bind again when it is found closed, and are closed
themselves (`CloseStore`), which leaves a borrowed pool alone.

### Durability

Each operation is the sequence of its loads and saves. Two clients may run
operations on one thread, and the process may stop between any two steps, which
ends both and keeps what was saved. `overlap` is history: threads whose creation
read the index while another one was updating it.

### LocalFilesystem

A call is one of the code's ways to change a file (`Ops`). `edit_lines`, `apply_diff`
and `write` run in threads under the thread lock; `ainsert_lines` (and
`adelete_lines`) runs the synchronous code on the event loop, and so blocks it while
it waits for the thread lock; `aedit_lines` and `awrite` take the loop's lock,
`aapply_diff` takes that and then the thread lock. `aedit_lines` and the diffs
compare the version stamp before the write and try a second time. Locks, stamps and
the atomic replacement belong to `soothe_deepagents` and are external. A move onto
the file is a copy, a move away a delete. `edit` and `aedit` are left out: what they
lock and read is inside that library.

### McpRegistry

`Connect` actions are `_connect_server` on behalf of a task, `Loop` actions
`reconnect_loop`, `Initialize`, `Shutdown`, `HandleDisconnect` and
`HandleReconnect` the methods of these names. Cancellation follows asyncio:
delivered at the next await, and passed on to the task that is awaited. Since
`_connect_server` turns every exception into "failed", an attempt always
returns to its loop as a success, and the loop's code for later attempts cannot
be reached; it is not modelled. A success has two steps: the connection is entered
while the session is open (`ConnectOk`), and the attempt returns when the session
has been left (`SessionClosed`); a disconnect may be reported in between. When its
attempt has returned, whatever became of it, a loop writes "connected" into the
connection it captured before (`MarkConnected`). `Loops` bounds the retry loops that exist at a
time: a step that needs one more is not taken. With the callbacks of a host
(`Hosted`, in `Agents`) the loops can be used up in long behaviours, which
that run therefore does not follow; without them (`Services`, which checks that
`initialize` returns) four are always enough.

### PersistentRetry, PoliteHttp

`PersistentRetry` is one `PersistentRetryRunner`: calls loop over the request,
the backoff and the switch to the fallback model; the counter of consecutive
capacity errors and the fallback flag are shared by all calls of the runner. A
request with its own limits is one external step that ends in any way. Time
counts in units of the backoff base, and a backoff doubles up to its ceiling.

`PoliteHttp` follows a request from the semaphore over the token and the breaker
to its end or its retry, with a cancellation at each await. Time counts in units
of 1/rps; the bucket's level, the breaker's state and the moment it opened are
shared. What a request reports counts for the breaker's state of that moment,
whichever state let it through.

### ShellCommand

The caller's loop (`TopOfLoop`, `GetChunk`, `GetEnd`, `GetNothing`, `Poll`,
`Quiet`, then `WaitForShell`), the reading thread (`Fill`, `PutChunk`, `PutEnd`,
`ReaderFails`) and the processes (external) interleave anywhere; the deadline may
pass at any time. `KillShell` and `KillGroup` are `_terminate_shell_process`:
`kill()` of a `Popen` polls first, so a shell that is dead is waited for, and its
group can then not be looked up any more. The branch without a limit on the
output has no caller and is left out.

### PluginLifecycle, DeepResearch, PlanEngine

`load_plugins` and `shutdown_plugins` are called from threads that build or end
agents, each with a loop of its own (`agent/builder.py:527`), and take no lock. So the
module goes from access to access: the global registry is looked at (`FindRegistry`,
`FindNone`) and made in different steps; the manager is made for whichever registry
is global by then (`MakeManager`) and published after that; the plugins of one call
are tasks that take turns at awaits only (`Busy`), but their entries in the registry,
the manager's dictionary and the cache (`Expose`, `Store`, `Keep`) are steps between
which other threads run. A shutdown reads the manager twice, iterates over the
dictionary by position (`Iterate` to `DownEnds`, `DownRaises` when its size has
changed), clears it, and resets registry, manager and cache in three more steps. The
cache is asked under a name guessed from the module path and filled under the
manifest's name: `Guessed` are the plugins for which the two agree. A registry and a
manager are named after the load that made them, and an instance after the load and
its plugin, so that "unloaded" speaks of the instance.

`DeepResearch` has the searches of a round as parallel nodes that are joined, and
`check_termination` with the counts it compares; `PlanEngine` has the two loops
of reconnaissance and drafting. Both end by a limit, by the model's choice, or with
an exception: the model may answer with null or an object where a list is asked for
(`PlanRaises`, `FollowUpRaises`), the crawl behind a search is not guarded
(`GatherRaises`), nor is the merging of the references or the saving of the report
(`SynthesizeRaises`).

## 3. Runs

Deadlock is not checked: in every component the system may stop for good
because no call, thread, runner or host has anything to do. What must not stop
is stated as a liveness property.

| Run (cfg) | Shows |
|---|---|
| `Agents` | Edits: two scopes on one file, overlapping windows, eviction, timeouts, cancellations: `EveryCallOwned` (no orphaned caller, one owner per edit), `BoundedStaging`, `FreshSnapshot` (batches see each other's edits), `OnlyBatchesErase`, `LedgerSpec`. MCP of one agent, with remote and stdio servers and a host's callbacks: `StatusTrue` (`StatusEarned` and `RetryAlive`). Plugins: two threads that load and up to two that shut down, an access at a time: `PluginsAccounted` (no initialised plugin outlives its registry; a load, also one after a shutdown, exposes plugins of its own that are not unloaded) |
| `Middleware` | searches of two scopes: none lost, none run twice (`SearchOnce`), each told something (`EveryCallTold`, fair); reads of one path and an edit: the third in a row refused; cached answers fresh and of their scope (`AnswerSound`); every submitted edit of two files, string or line, is answered (`EveryEditAnswered`, fair) |
| `Databases` | SQLite runtime: `ConnectionsSafe` (own, open connection per callback, permits conserved, readers at most twice the pool, nothing written after close), `PermitsComeBack` (fair). Registry: `HeldOpen`, `LastClosed` (fair). Checkpointer: `SetupExclusive`, `FollowersHeard`, `FollowersReturn` (fair) |
| `Stores` | PostgreSQL store: `OwnPoolSound`. Pools: `OnePoolPerKey`, `OpenedServes`. Threads: `IndexSound`. Files: `SharedLockKept`. Operations and file calls end (`StoreCallsEnd`, fair) |
| `Services` | MCP of two agents: `OneRetry`, `StatusEarned`. Model calls: `RetryBounded`. HTTP: `HttpSound`. Shell: `CommandSound`. Subagents: `LoopsBounded`. All that waits for the other side ends (`ServicesEnd`, fair) |
| `EditLostUpdate` | violated: a batch overwrites the lone edit of another scope |
| `EditLongFile` | violated: a batch truncates a file beyond the read limit |
| `McpGiveUp` | violated: only one retry is ever made |
| `CrossLock` | violated: an edit under one of a file's locks erases a finished edit made under the other, the stamp notwithstanding |
| `PluginsReturned` | violated: a second caller gets the registry while the first is still loading into it |
| `FallbackLasts` | violated: after the switch to the fallback model the next call goes to the primary model |
| `CommandOutput` | violated: a command returns without what its shell printed, because the thread that read it waits for a child that holds the pipe |

The violated runs check what a comment, docstring or test says; the findings in
`PROJECT.json` quote it and tell the counterexample.

### What the properties do not promise

Some properties are weaker than their names suggest, because the code permits
the following (each is a step of the model, covered by the runs):

- `AnswerSound` excepts answers seen by a lookup that was in flight when the
  cache was emptied: `Store` writes them into the emptied cache, and a later
  lookup is answered with them, even after an edit or in another scope. An edit
  or a command that raises leaves the cache as it was.
- Two spellings of one path have two locks and two batches in edit coalescing.
- `ConnectionsSafe` allows twice the configured pool: a reader that finds the
  pool empty because its connections are leased fills it again; and one that
  passed its closed check may fill the pool of a closed runtime.
- `HeldOpen` allows two runtimes of one file while the one that was popped by
  the last release is not closed yet.
- `FollowersReturn` says that followers are woken, not that the tables exist:
  a follower returns also when its leader failed, or after its time limit.
- A reset closes the checkpointer pool that is shared at the moment, which may
  be one that another runner has just made.
- `OwnPoolSound` and `OnePoolPerKey` except the pools in `lostPools`,
  `fallback` and `abandoned`: those of cancelled or failed openings, and of a
  `close()` that ends after another pool was made.
- `OpenedServes` says what an opened registry has, not what a store was given: a
  store that borrowed from a registry keeps the closed pool until its next error.
- `IndexSound`: of two creations that update the index at once, one may stay
  unlisted (`overlap`). Concurrent updates of one thread: the last writer wins.
- `SharedLockKept` excepts an edit that was erased under the other lock and
  brought back by a stale write (`restored`): the next call of its own lock may
  erase it again.
- `RetryAlive` is checked for one registry: with two, a failed attempt of one
  cancels the loop of the other, whose server stays "reconnecting".
- `StatusEarned` says "connected" of what a registry has heard; a connection that
  broke without a report stays "connected". That the late write of a loop is
  harmless hangs on a failure replacing the connection object.
- `RetryBounded`: the capacity errors of all calls of a runner add up, so a call
  may fall back for errors of others. How long a fallback lasts is `FallbackLasts`,
  which is violated.
- `HttpSound` counts the permits of requests cancelled in their sleep for a token
  as lost, as they are, and `RequestsEnd` ends where all are lost. The rate is
  not claimed: several requests that sleep for one token all go on.
- `PluginsAccounted` holds as long as no call begins to load beside another one that
  loads or beside a shutdown (`calm`); loads that find a registry and shutdowns that
  overlap may come at any time. Without this, two threads that both find no
  registry leave plugins initialised that nobody will unload, and so does a plugin
  stored between the end of a shutdown's iteration and its `clear()`: nothing in the
  code prevents either. A plugin whose tools cannot be entered is initialised and
  never unloaded ("orphan"), also without any overlap.
- Deep research asks for new sources by comparing references with themselves
  (`termination.py:73`), and so never finds any: from the second loop on, enough
  references of enough kinds end a run. `LoopsBounded` does not rely on it.
- `ServicesEnd` says that subagent runs end, not that they end with an answer: an
  answer of the model in an unexpected shape raises.
- `CommandSound` excepts what a shell that is dead already leaves behind when its
  command is cut off or times out; and a command whose output is no text raises
  and is not stopped at all.

### Bounds and why they are enough

- `EditCoalescing`: with two calls in each of two scopes, one scope's batch
  meets another's batch or lone edits at any step, and a second window of a
  scope opens while the first dispatches; a buffer of one entry is full with
  the second call, so that eviction happens. `Middleware` has three string
  edits of one file and a line edit of another, for a loop over two files with
  a dispatch of each kind, and a buffer of two that rejects the third. Two or
  three tasks are one or two dispatching and one waiting.
- `ToolOptimization`: a search in a flush, one in the next window and one in
  another scope, two of them in windows at once (`SearchOnce` is proved for any
  number of window tasks); three reads make a streak and two reads of the same part of a
  path a cached part, with an edit between any two steps.
- `SqliteStoreRuntime`: with a pool of two, three threads contend for permits
  and find the pool empty because it is leased; five connections are two pools
  and a writer, and a closed connection's identity may be used again.
- `SqliteRuntimeRegistry`: two stores to share, one to arrive during the close.
- `SharedCheckpointerPool`: a leader and a follower in one process, a leader in
  another; two pools are a stale one and its replacement.
- `PostgresStore`: two operations that reset each other's pool and a `close()`;
  four pools are one for each opening the two can ask for, and
  `StoreFreeOfDeadlock` proves that twice the operations always suffice. `PostgresPools`: two
  openers that race for one instance, a shutdown and a borrower; two registries
  are one that is closed and its successor, five pools the two keys of each and
  a fallback.
- `Durability`: two clients on two threads race on a record and on the index.
- `LocalFilesystem`: of three calls, two share a lock and one has the other, or
  brings back what it had read.
- `McpRegistry`: two agents with a server of one name are what a shared table
  needs. In `Agents` three loops are one that runs, the one that replaces and cancels
  it, and one of the next loss; what that run checks is proved for any number.
- `PersistentRetry`: two calls, of which the errors of one count for the other; a
  ceiling of three units cuts the second delay.
- `PoliteHttp`: two permits and three requests, so that one waits for a permit and
  two for a token; two failures open the breaker, one retry returns in a later
  state of it.
- `ShellCommand`: five characters in blocks of two with a limit of three are a
  whole block below the limit, one that passes it and a rest at the end.
- `PluginLifecycle`: two loads, of which the second may find the registry, overlap
  with the first or come after a shutdown; two shutdowns, of which one may clear what
  the other iterates over; one plugin that the cache is asked for. Beside two
  shutdowns a behaviour ends when a call begins to load beside another call; beside
  one it goes on. What is given up is the order of two loads and two shutdowns after
  `PluginsAccounted` has nothing more to say; the types are proved there
  (`PluginTyping`).
- `DeepResearch`: loop limits of 0, 1 and more; references are counted to one past
  what `check_termination` compares with. `PlanEngine`: two rounds of each loop.

Only `EditLostUpdate` and `EditLongFile` use symmetry, of window tasks, which are
interchangeable.

### Fairness

- Window tasks and dispatches (`EditCoalescing`, `ToolOptimization`): weak
  fairness. The event loop runs ready tasks, timers expire, a handler returns
  or raises (the tool-timeout middleware of the host bounds it). Nothing is
  assumed about callers.
- SQLite threads: weak fairness for the end of callbacks and for opening
  connections. That a waiting reader gets a permit is not assumed and not
  claimed: a semaphore that others take again and again may pass it over; the
  property is that permits come back.
- Registry: a thread that popped a runtime closes it.
- Checkpointer: weak fairness for a leader's awaits, strong fairness for the
  advisory lock, which PostgreSQL grants in the order of requests. No
  follower's timeout is assumed: they return without it. Nor does a session
  that waits for the lock break.
- PostgreSQL store: an operation that has begun goes on, a close ends.
- Files: a call that can go on does; threads are scheduled and the loop runs.
- MCP, model calls, HTTP: tasks and timers run, time passes, attempts and
  requests return or fail.
- Shell: the caller's thread runs and time passes; nothing is assumed of the
  command, its children or the reading thread.
- Subagents: a run that has begun executes its next node, whose calls have
  timeouts.

## 4. Proofs

What TLAPS proves holds for all calls, scopes, files, tasks, runners and
processes, under the named assumptions on the constants only.

**EditCoalescing.** `TypeOK` is inductive. The safety properties are not; three
strengthenings carry them:

- `OrphanInv`: a scope's window entry is a live task in a window step, a
  task's edits are those of its step, and every waiting call is reachable from
  one or the other. `NoOrphan` follows; without the first part a call queued
  behind a finished task would be a counterexample to induction.
- `ShareInv` adds who holds which lock in which step, from which
  `FreshSnapshot` and `OnlyBatchesErase` follow: between the read and the write
  of a batch no other batch of the file is in either step.
- `LedgerInv` adds that queues and popped sets are disjoint and unanswered,
  that the buffer and a batch's replacements are among the calls queued or
  popped with them, and that an applied edit is one of them. `EveryCallOwned`,
  `BoundedStaging` and `LedgerSpec` (the refinement of `ToolCallLedger`) follow.

Each is shown for `Init`, then for `Caller`, `Window` and `Dispatch` with a
lemma per group and per helper (`ContinueShape`, `FinishShape`, ...), and the
theorems combine them with one temporal step.

**ToolOptimization.** `BankInv` says that a scope's window is a task that has
not taken its queue, that two scopes never share one, that nothing is queued
without a window and that only flushing tasks have a batch. With it
`SearchOnce` is inductive: a search that arrives in the step after a take
finds no window and opens one, and a queue changes hands as a whole. `SeenInv`
carries the cache: a call in flight that is not late still has its state's
scope, and no edit of the state has returned since it came in; what it saw is
not older than that. `CacheInv` says the same of every entry, and `AnswerSound`
follows; without the history variable `late` neither holds, which is the
exception the property names.

**SharedCheckpointerPool.** `SetupInv` joins `TypeOK`, `LoneLeader` and three strengthenings: `HomeInv` (a process's waiter is of
a runner of its own), `LockInv` (the holder of the advisory lock is exactly the
runner that is past taking it) and `FollowInv` (a runner follows exactly while
it waits, and then a leader of its process). `SetupExclusive` and
`FollowersHeard` follow. That nobody leads once setup is done needs one more
induction on top: only `SetupOk` sets the flag, and then by `LoneLeader` no
other runner of the process can be on its way to setup. It follows that the
second and third reading of the flag in `setup_checkpointer` never find it set,
so those returns are no actions of the model.

**SqliteStoreRuntime, SqliteRuntimeRegistry.** `PoolInv` says of a runtime who
holds the writer lock and the writer (`Shape`), that leased connections are open,
not pooled and different (`Apart`), that free permits and readers on their way add
up (`Counted`), and that as many connections are leased as readers read
(`LeasesCounted`): the last is what bounds the readers' connections by the permits,
and with `Counted` gives twice the pool. `RegInv` says that until the shutdown the
count is the number of stores that hold a runtime, that all of them hold the one in
the table, and that it is open and not being closed; `HeldOpen` follows.

**McpRegistry.** `McpInv` gives the types and that a working loop knows its job.
`OneRetry` needs `Tabled`: a loop that tries is the one in the table for its
server, because whoever put another there has cancelled it. `StatusEarned` needs
`FreshRuns`: a loop whose captured connection is still the registry's has not decided
its attempt, because both outcomes replace that connection (`RemoteJobs` excludes the
failure that does not). So a loop that has an attempt behind it writes where nobody
looks (`MarkedNowhere`), whatever has happened to the server since. `RetryAlive` is proved under the assumption that there
is one registry, and needs `RemoteJobs`: only remote servers have loops, each
under its own name, so that replacing the loop of one server leaves the others.

**MCStores' modules.** `DurInv` adds to `IndexSound` what two creations that
update the index know of each other (`Racing`), what each has read of it
(`Current`) and that the record is saved before its id (`InHand`). `PgInv` says that
the operation that makes a pool has the lock while the store has none, whence one
maker at a time. For the registry's pools, an invariant of the same kind (the lock's
owner alone opens and closes; what a registry, the shared pool or a store has was
opened, or is a fallback) carries `OnePoolPerKey`. `OpenedServes` needs `Apart` as
well: no two registries or keys have one pool, and the one being opened is nobody's;
without it a registry could close what another serves. `FsInv` has which locks a call holds at each of its steps
(`LocksHeld`), that the file and all that was read of it was written (`WasWritten`),
and `ReadBeforeWrite`: a call about to write has read every change of those it shares
a lock with, but for `restored` ones; `SharedLockKept` is its contrapositive.

**MCServices' modules.** Model calls: `BackoffsPaid` (each backoff so far has taken
time) bounds the number of backoffs by the ceiling; with `CeilingKept` and the types
it is inductive. HTTP: `HttpInv` has the queue list each waiting request once,
the permits counted with their holders and the lost ones, and the breaker's
counters below their thresholds. Deep research: the searches asked
for are at most those of the rounds so far, and rounds are below the loop limit.
Planner: each call and each finding belongs to a round. Shell: `ShellInv` accounts
for every character printed, in the pipe, with the thread, in the queue or
collected, unless the output was cut; an end of the pipe that the thread has met
stays; and the call's place determines its outcome. `CommandSound` follows.

**PluginLifecycle.** `PluginsAccounted` is far from inductive. `PlugInv` adds, as long
as `calm` holds, that a call that loads is alone and what it has made is what is
global (`Alone`), that every initialised plugin is on its way into the dictionary of
the global manager or in it (`Held`, `Own`), what a shutdown has behind it at each of
its places although another may have cleared its dictionary (`Shutting`, `Behind`),
that an iteration that will raise leaves the registry to the shutdown that has
changed the dictionary (`Left`), and that the cache and the manager are cleared
before anything is loaded again (`Reset`). `Filled` gives the plugins a finished load
exposes. Each action has its lemma.

**The modules put together.** `DatabasesTyping`, `StoresTyping`, `ServicesTyping`
and `SubagentsBounded` are about the specifications that TLC runs. A behaviour of
`StoresSpec` is one of each of its components (`StoresCompose`, and likewise for
the others): a step of one is a stutter of the rest. So every theorem about a
component carries over.

### What liveness rests on

That something must happen cannot be proved here: the prover has no support for
`ENABLED`, hence none for fairness. What can be proved is the safety part of each
argument, and that is where such an argument would be wrong:

- *Nobody waits for good* (`...FreeOfDeadlock`): whoever waits does so for a
  lock, a permit, a task or a leader that can take a step, or the chain ends at
  one that can. "Can take a step" is written out (`EditCanMove`, `PgCanMove`,
  ...).
- *Every step counts* (`...MoveOn`): a rank, bounded by the constants, rises
  with each step of those under way and is lowered by nobody else's, so none of
  them goes round in a circle.

| | Nobody waits for good | Every step counts |
|---|---|---|
| edit coalescing | `EditFreeOfDeadlock`: the middleware's lock is taken before the backend's, whose holder waits for nothing | `EditMovesOn`: nine steps to a call |
| tool optimization | `LookupsFreeOfDeadlock` | `LookupsMoveOn`: six steps to a call |
| SQLite runtime | `PermitsMoveOn`: permits are all held only if a reader holds one | the same: at most two steps to give it back |
| checkpointer pool | `FollowersFreeOfDeadlock`: behind the advisory lock is a leader that holds it | `LeadersMoveOn`: four steps, and the leader is not replaced |
| PostgreSQL store | `StoreFreeOfDeadlock` | `StoreMovesOn`: ten places, two attempts |
| files | `FilesFreeOfDeadlock`: the call that keeps the loop waits for a thread, never for a call of the loop | `FilesMoveOn`: ten places, two attempts |
| MCP | `McpFreeOfDeadlock`: tasks that await each other are no ring, and what is awaited runs | |
| HTTP | `RequestsFreeOfDeadlock`, but for lost permits | `RequestsMoveOn`: by attempts, then places; time in between is finite |
| model calls | nobody waits for another | `RetriesMoveOn`: time slept and backoffs, below the ceiling |
| shell | nobody waits but for the clock | `CommandMovesOn`: seven steps past the deadline |
| subagents | one run | `ResearchMovesOn`, `PlanMovesOn`: rounds, nodes, searches |

The invariants behind them extend those above: in edit coalescing, that a task
with a file has edits of it (`HoldInv`) and where each call is (`PlaceFacts`); in the
PostgreSQL store, that an attempt makes at most one pool, counted against the
operations; for files, that a call that keeps the loop can wait there for the thread lock only,
and a call of the loop that has this lock keeps the loop (`LoopKept`); in MCP, that
the loop a failed attempt awaits is not one that waits (`NoAwaitRing`). `ServicesMoveOn` states those of
`MCServices` together.

For the constants of the runs TLC has confirmed that each written-out "can move"
implies `ENABLED` of the steps the fairness names (and is implied by it, but where
a time limit or an error is a step as well). For the checkpointer it
showed that fairness once covered too much: a leader that waits for the advisory
lock could also fail, so that fairness to its steps forced a lost session. The
fairness now leaves that step out, and `FollowersReturn` holds without it.

### Assumptions

The theorems rest on the named assumptions of the modules. Three say that sets of
callers are finite (`FsCalls`, `Stores`, `StoreOps`), as they are in any
execution up to a given time; `PgAssumption` also says that `PoolLimit` is at least
twice the number of operations, which is what makes it no bound at all.

### Model-checked only

All liveness properties (`EveryEditAnswered`, `EveryCallTold`, `PermitsComeBack`,
`LastClosed`, `FollowersReturn`, `StoreCallsEnd`, `ServicesEnd`): the step from
the two kinds of theorems above to these needs fairness. `LastClosed` has no such
theorem: its thread waits for nothing. Every invariant and action property of a
passing run is stated by a theorem, `AgentsTypeOK` and `StatusTrue` by those about
their parts. No definition used in a proof is recursive.

## 5. Not modelled

Components with status `not_modelled` and the parts the notes of the others
name. Reasons: language-model calls and external services, whose results the
code does not determine (providers, memory, browser and computer automation);
string work (paths, commands, prompts, formats, conversions: most of
`utils/resolver.py`, `config/`, `security/`, `events/`); code without a caller
(`utils/circuit_breaker.py`, `run_with_retry` of `persistence/retry_utils.py`, whose
`is_duplicate_schema_error` alone is called); declarations of data
(`config/models.py`, `config/settings.py`). They are the greater part of the
package's lines: what keeps state over several steps is the smaller one.

## 6. Plan

Done: the components of section 2. What is left that keeps state:

1. `LocalFilesystem` composed with `EditCoalescing`, in place of the external
   backend lock; batched edits and the overlap of line ranges against a
   reference definition.
2. The rest of `toolkits/shell.py`: background commands and their registry.
3. The locks of skill activation, tool activation per thread.
4. Constructors of the SQLite stores that fail half way, composed with
   `SqliteRuntimeRegistry`.
