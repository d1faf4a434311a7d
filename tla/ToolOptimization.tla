-------------------------- MODULE ToolOptimization --------------------------
(***************************************************************************)
(* middleware/tool_optimization.py and middleware/_window.py: lookups are  *)
(* answered from a cache that edits empty, a run of reads of one path is   *)
(* refused, and searches wait in a detection window to run together.       *)
(*                                                                         *)
(* The cache lives in a reuse state, an object that a ContextVar hands to  *)
(* every call whose context was copied after it was set: the calls of one  *)
(* state may run concurrently and, when a tool runs a subagent, under      *)
(* different scope ids.  The window bank belongs to the middleware and is  *)
(* keyed by scope id only.                                                 *)
(*                                                                         *)
(* One event loop: a step ends at an await.  The bank's lock is never held *)
(* across one, so that it is never found taken.  What a lookup returns is  *)
(* the version of the files it saw, the number of edits made before it.    *)
(* Left out: counters for telemetry, the wording of a cache hit that       *)
(* repeats an empty result, and the calls refused before any state is read *)
(* (empty write_todos, shell searches).                                    *)
(***************************************************************************)
EXTENDS Naturals, Sequences

CONSTANTS Calls,
          Kind,       \* Kind[c]: "search" (grep, glob), "read" or "edit"
          Sig,        \* Sig[c]: a lookup's tool and arguments
          Path,       \* Path[c]: the path a read names
          ScopeOf,    \* ScopeOf[c]: thread id and checkpoint namespace
          StateOf,    \* StateOf[c]: the reuse state c's context holds
          Sigs, Paths, Scopes, States,
          Tasks,      \* window tasks
          NoPath, NoScope, NoTask, NoEntry,
          None, Raised

ASSUME ToolOptimizationAssumption ==
    /\ Kind \in [Calls -> {"search", "read", "edit"}]
    /\ Sig \in [Calls -> Sigs]
    /\ ScopeOf \in [Calls -> Scopes]
    /\ StateOf \in [Calls -> States]
    /\ Path \in [Calls -> Paths]
    /\ NoPath \notin Paths /\ NoScope \notin Scopes /\ NoTask \notin Tasks
    /\ None \notin Nat /\ Raised \notin Nat /\ None # Raised
    /\ NoEntry \notin [at : Nat, by : Calls]

THRESHOLD == 3      \* _DEFAULT_READ_FILE_THRASH_THRESHOLD

VARIABLES
    pc,        \* a call: "new", "window", "handler", "settled", "done"
    got,       \* the version the call's handler saw or made, None or Raised
    answer,    \* what the caller was told: [at |-> version, by |-> call]
    scope,     \* scope_id of a reuse state
    cache,     \* its cache: per signature the version and who put it there
    streak,    \* its recent_read_windows: a path and how many in a row
    pending,   \* the bank's queue of a scope
    window,    \* the bank's task of a scope
    stage,     \* a window task: "idle", "tick", "sleep", "flush"
    batch,     \* the searches a window task has taken
    files,     \* the number of edits that have taken effect
    edited,    \* the version a finished edit of a state is known to have made
    floor,     \* history: edited of its state when the call came in
    late       \* history: calls in flight when their state's cache was emptied

callVars == <<pc, got, answer>>
reuseVars == <<scope, cache, streak>>
bankVars == <<pending, window, stage, batch>>
history == <<edited, floor, late>>
vars == <<callVars, reuseVars, bankVars, files, history>>

Entries == [at : Nat, by : Calls]
Answers == {NoEntry} \cup Entries \cup
           [told : {"waiting", "edited", "refused", "raised", "cancelled"}]
Told(what) == [told |-> what]

\* The calls of state s whose coroutine is between its first and last step.
InFlight(s) == {c \in Calls : StateOf[c] = s /\ pc[c] \notin {"new", "done"}}
Empty == [g \in Sigs |-> NoEntry]
NoStreak == [path |-> NoPath, n |-> 0]

Init ==
    /\ pc = [c \in Calls |-> "new"]
    /\ got = [c \in Calls |-> None]
    /\ answer = [c \in Calls |-> NoEntry]
    /\ scope = [s \in States |-> NoScope]
    /\ cache = [s \in States |-> Empty]
    /\ streak = [s \in States |-> NoStreak]
    /\ pending = [k \in Scopes |-> <<>>]
    /\ window = [k \in Scopes |-> NoTask]
    /\ stage = [w \in Tasks |-> "idle"]
    /\ batch = [w \in Tasks |-> {}]
    /\ files = 0
    /\ edited = [s \in States |-> 0]
    /\ floor = [c \in Calls |-> 0]
    /\ late = {}
-----------------------------------------------------------------------------
(* awrap_tool_call, up to its first await.                                 *)

Moved(c) == scope[StateOf[c]] # ScopeOf[c]

\* Mutant of CacheFor: the cache outlives a change of scope.
CacheForAny(c) == cache[StateOf[c]]

\* _reset_scope_counters: what the state's cache and streak are for c.
CacheFor(c) == IF Moved(c) THEN Empty ELSE cache[StateOf[c]]
StreakFor(c) == IF Moved(c) THEN NoStreak ELSE streak[StateOf[c]]

\* The streak with c added: only reads of one path in a row make it grow.
Grown(c) ==
    IF Kind[c] # "read" THEN NoStreak
    ELSE [path |-> Path[c],
          n |-> IF StreakFor(c).path = Path[c] THEN StreakFor(c).n + 1 ELSE 1]

Thrash(c) == Grown(c).n >= THRESHOLD

Arrive(c, run) ==
    LET s == StateOf[c] IN
    /\ pc[c] = "new"
    /\ scope' = [scope EXCEPT ![s] = ScopeOf[c]]
    /\ cache' = [cache EXCEPT ![s] = CacheFor(c)]
    /\ streak' = [streak EXCEPT ![s] = run]
    /\ floor' = [floor EXCEPT ![c] = edited[s]]
    /\ late' = IF Moved(c) THEN late \cup InFlight(s) ELSE late
    /\ UNCHANGED <<got, files, edited>>

Tell(c, a) == /\ answer' = [answer EXCEPT ![c] = a]
              /\ pc' = [pc EXCEPT ![c] = "done"]

\* Mutant of Refuse: the streak is not forgotten when a read is refused.
RefuseKeeps(c) == /\ Thrash(c)
                  /\ Arrive(c, Grown(c))
                  /\ Tell(c, Told("refused"))
                  /\ UNCHANGED bankVars

\* The third read of a path in a row is refused and the streak forgotten.
Refuse(c) == /\ Thrash(c)
             /\ Arrive(c, NoStreak)
             /\ Tell(c, Told("refused"))
             /\ UNCHANGED bankVars

Cacheable(c) == Kind[c] \in {"search", "read"}
Hits(c) == ~Thrash(c) /\ Cacheable(c) /\ CacheFor(c)[Sig[c]] # NoEntry
Misses(c) == ~Thrash(c) /\ ~Hits(c)

Hit(c) == /\ Hits(c)
          /\ Arrive(c, Grown(c))
          /\ Tell(c, CacheFor(c)[Sig[c]])
          /\ UNCHANGED bankVars

Direct(c) == /\ Misses(c) /\ Kind[c] # "search"
             /\ Arrive(c, Grown(c))
             /\ pc' = [pc EXCEPT ![c] = "handler"]
             /\ answer' = [answer EXCEPT ![c] = Told("waiting")]
             /\ UNCHANGED bankVars

\* A search joins its scope's queue; a window is opened if there is none.
Enqueue(c) ==
    LET k == ScopeOf[c] IN
    /\ pending' = [pending EXCEPT ![k] = Append(@, c)]
    /\ IF window[k] # NoTask
       THEN UNCHANGED <<window, stage>>
       ELSE \E w \in Tasks : /\ stage[w] = "idle"
                             /\ stage' = [stage EXCEPT ![w] = "tick"]
                             /\ window' = [window EXCEPT ![k] = w]
    /\ UNCHANGED batch

Search(c) == /\ Misses(c) /\ Kind[c] = "search"
             /\ Arrive(c, Grown(c))
             /\ pc' = [pc EXCEPT ![c] = "window"]
             /\ answer' = [answer EXCEPT ![c] = Told("waiting")]
             /\ Enqueue(c)
-----------------------------------------------------------------------------
(* ScopeWindowBank._run_window and resolve_pending_results.                *)

Elements(q) == {q[i] : i \in 1..Len(q)}

\* Mutant of Take: the bank still holds the task that has taken the queue.
TakeKeepsTask(w, k) == /\ batch' = [batch EXCEPT ![w] = Elements(pending[k])]
                       /\ pending' = [pending EXCEPT ![k] = <<>>]
                       /\ stage' = [stage EXCEPT ![w] = "flush"]
                       /\ UNCHANGED window

\* Mutant of Take: the queue is copied, not popped.
TakeCopies(w, k) == /\ batch' = [batch EXCEPT ![w] = Elements(pending[k])]
                    /\ window' = [window EXCEPT ![k] = NoTask]
                    /\ stage' = [stage EXCEPT ![w] = "flush"]
                    /\ UNCHANGED pending

\* take: the scope's queue goes to the task, the next search opens a window.
Take(w, k) == /\ batch' = [batch EXCEPT ![w] = Elements(pending[k])]
              /\ pending' = [pending EXCEPT ![k] = <<>>]
              /\ window' = [window EXCEPT ![k] = NoTask]
              /\ stage' = [stage EXCEPT ![w] = "flush"]

\* After one tick: a lone search is flushed at once, others wait for company.
Tick(w) ==
    \E k \in Scopes :
        /\ stage[w] = "tick" /\ window[k] = w
        /\ IF Len(pending[k]) = 1
           THEN Take(w, k)
           ELSE /\ stage' = [stage EXCEPT ![w] = "sleep"]
                /\ UNCHANGED <<pending, window, batch>>
        /\ UNCHANGED <<callVars, reuseVars, files, history>>

WindowOver(w) ==
    \E k \in Scopes :
        /\ stage[w] = "sleep" /\ window[k] = w
        /\ Take(w, k)
        /\ UNCHANGED <<callVars, reuseVars, files, history>>

\* The handler of a search of the batch looks at the files, or raises.
Look(w, c) ==
    /\ stage[w] = "flush" /\ c \in batch[w] /\ got[c] = None
    /\ \E r \in {files, Raised} : got' = [got EXCEPT ![c] = r]
    /\ UNCHANGED <<pc, answer, reuseVars, bankVars, files, history>>

\* Mutant of Resolve: only the futures of handlers that returned are resolved.
ResolveReturned(w) ==
    /\ stage[w] = "flush"
    /\ \A c \in batch[w] : got[c] # None
    /\ pc' = [c \in Calls |-> IF c \in batch[w] /\ pc[c] = "window" /\ got[c] # Raised
                              THEN "settled" ELSE pc[c]]
    /\ batch' = [batch EXCEPT ![w] = {}]
    /\ stage' = [stage EXCEPT ![w] = "idle"]
    /\ UNCHANGED <<got, answer, reuseVars, pending, window, files, history>>

\* gather is over: every future that nobody cancelled is resolved.
Resolve(w) ==
    /\ stage[w] = "flush"
    /\ \A c \in batch[w] : got[c] # None
    /\ pc' = [c \in Calls |-> IF c \in batch[w] /\ pc[c] = "window"
                              THEN "settled" ELSE pc[c]]
    /\ batch' = [batch EXCEPT ![w] = {}]
    /\ stage' = [stage EXCEPT ![w] = "idle"]
    /\ UNCHANGED <<got, answer, reuseVars, pending, window, files, history>>
-----------------------------------------------------------------------------
(* The handlers of reads and edits, and the rest of awrap_tool_call.       *)

Read(c) ==
    /\ pc[c] = "handler" /\ Kind[c] = "read" /\ got[c] = None
    /\ \E r \in {files, Raised} : got' = [got EXCEPT ![c] = r]
    /\ UNCHANGED <<pc, answer, reuseVars, bankVars, files, history>>

\* An edit (or a command) changes the files; it may still raise afterwards.
Effect(c) ==
    /\ pc[c] = "handler" /\ Kind[c] = "edit" /\ got[c] = None
    /\ files' = files + 1
    /\ got' = [got EXCEPT ![c] = files + 1]
    /\ UNCHANGED <<pc, answer, reuseVars, bankVars, history>>

\* A lookup's answer is cached in the state its call found when it came in.
Store(c) == cache' = [cache EXCEPT ![StateOf[c]][Sig[c]] =
                                       [at |-> got[c], by |-> c]]

LookupReturns(c) ==
    /\ Cacheable(c) /\ got[c] \in Nat
    /\ pc[c] = IF Kind[c] = "search" THEN "settled" ELSE "handler"
    /\ Tell(c, [at |-> got[c], by |-> c])
    /\ Store(c)
    /\ UNCHANGED <<got, scope, streak, bankVars, files, history>>

\* Mutant of Invalidate: an edit forgets the entry under its own arguments only.
InvalidateOwn(c) == cache' = [cache EXCEPT ![StateOf[c]][Sig[c]] = NoEntry]

\* An edit that returns, with or without an effect, empties the cache.
Invalidate(c) == cache' = [cache EXCEPT ![StateOf[c]] = Empty]

EditReturns(c) ==
    LET s == StateOf[c] IN
    /\ Kind[c] = "edit" /\ pc[c] = "handler"
    /\ Tell(c, Told("edited"))
    /\ Invalidate(c)
    /\ edited' = IF got[c] \in Nat /\ got[c] > edited[s]
                 THEN [edited EXCEPT ![s] = got[c]] ELSE edited
    /\ late' = late \cup (InFlight(s) \ {c})
    /\ UNCHANGED <<got, scope, streak, bankVars, files, floor>>

\* An exception passes through: nothing is cached, nothing emptied.
Raises(c) ==
    /\ \/ Kind[c] = "edit" /\ pc[c] = "handler"
       \/ got[c] = Raised /\ pc[c] \in {"handler", "settled"}
    /\ Tell(c, Told("raised"))
    /\ UNCHANGED <<got, reuseVars, bankVars, files, history>>

\* The graph cancels a caller; the search it queued is run all the same.
Cancel(c) ==
    /\ pc[c] \in {"window", "handler", "settled"}
    /\ Tell(c, Told("cancelled"))
    /\ UNCHANGED <<got, reuseVars, bankVars, files, history>>

Call(c) == \/ Refuse(c) \/ Hit(c) \/ Direct(c) \/ Search(c)
           \/ Read(c) \/ Effect(c)
           \/ LookupReturns(c) \/ EditReturns(c) \/ Raises(c) \/ Cancel(c)

Window(w) == \/ Tick(w) \/ WindowOver(w) \/ Resolve(w)
             \/ \E c \in Calls : Look(w, c)

Next == \/ \E c \in Calls : Call(c)
        \/ \E w \in Tasks : Window(w)

Spec == Init /\ [][Next]_vars

\* The event loop runs what is ready and handlers come to an end; nothing
\* obliges a call to arrive, an edit to succeed or a caller to be cancelled.
\* Every behaviour is finite, so that no task can be put off for ever by others.
Fairness ==
    /\ WF_vars(\E w \in Tasks : Window(w))
    /\ WF_vars(\E c \in Calls : Read(c) \/ LookupReturns(c) \/ EditReturns(c) \/ Raises(c))

FairSpec == Spec /\ Fairness
-----------------------------------------------------------------------------
(* Properties.                                                             *)

\* Everything is of its type; in particular no streak reaches THRESHOLD.
TypeOK ==
    /\ pc \in [Calls -> {"new", "window", "handler", "settled", "done"}]
    /\ got \in [Calls -> Nat \cup {None, Raised}]
    /\ answer \in [Calls -> Answers]
    /\ scope \in [States -> Scopes \cup {NoScope}]
    /\ cache \in [States -> [Sigs -> Entries \cup {NoEntry}]]
    /\ streak \in [States -> [path : Paths \cup {NoPath}, n : 0..THRESHOLD - 1]]
    /\ pending \in [Scopes -> Seq(Calls)]
    /\ window \in [Scopes -> Tasks \cup {NoTask}]
    /\ stage \in [Tasks -> {"idle", "tick", "sleep", "flush"}]
    /\ batch \in [Tasks -> SUBSET Calls]
    /\ files \in Nat
    /\ edited \in [States -> Nat]
    /\ floor \in [Calls -> Nat]
    /\ late \subseteq Calls

Queued(c, k) == c \in Elements(pending[k]) /\ stage[window[k]] \in {"tick", "sleep"}

\* A search that waits is in the queue of a window that is still open or in
\* a batch that is being flushed: ScopeWindowBank loses none of those that
\* arrive while a window ends.
SearchHeld ==
    \A c \in Calls : pc[c] = "window" =>
        \/ \E k \in Scopes : window[k] # NoTask /\ Queued(c, k)
        \/ \E w \in Tasks : stage[w] = "flush" /\ c \in batch[w]

\* No search is run twice: it is in one batch, or in one queue and no batch.
RunOnce ==
    /\ \A v, w \in Tasks : v # w => batch[v] \cap batch[w] = {}
    /\ \A k \in Scopes, w \in Tasks : Elements(pending[k]) \cap batch[w] = {}
    /\ \A k \in Scopes : \A i, j \in 1..Len(pending[k]) :
           i # j => pending[k][i] # pending[k][j]

\* SearchOnce: a search that waits is flushed, and flushed once, although
\* windows end and begin around it.
SearchOnce == SearchHeld /\ RunOnce

\* A lookup's answer, its own or a cached one, shows every edit of its state
\* that had returned before it came in, and comes from its own scope; unless
\* the lookup that saw it was in flight when the cache was emptied.
AnswerSound ==
    \A c \in Calls : answer[c] \in Entries =>
        \/ answer[c].by \in late
        \/ answer[c].at >= floor[c] /\ ScopeOf[answer[c].by] = ScopeOf[c]

\* Every call that waits is told something in the end, whether its handler
\* returns or raises and whichever windows of its scope come and go: as each
\* call is made once, that is to say that none is left waiting for good.
EveryCallTold == []<>(\A c \in Calls : answer[c] # Told("waiting"))
=============================================================================
