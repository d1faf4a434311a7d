----------------------- MODULE SharedCheckpointerPool -----------------------
(***************************************************************************)
(* persistence/shared_checkpointer_pool.py: the runners of a process share *)
(* one connection pool for checkpoints and run the schema setup through    *)
(* it.  In a process the first runner leads and the others wait for its    *)
(* event; across processes a PostgreSQL advisory lock serializes leaders.  *)
(* Any runner that sees a connection error resets the pool; the daemon     *)
(* closes it, or binds one it opened itself; a process may crash.          *)
(*                                                                         *)
(* Runners are threads with an event loop each: a step is a region under   *)
(* _sync_lock, or what happens between two awaits.  A runner gets the      *)
(* pool, calls setup_checkpointer and works (its callers are outside this  *)
(* repository).  The tables are not modelled: the flag says that setup has *)
(* returned or found some of them there already, not that all of them are. *)
(***************************************************************************)
EXTENDS FiniteSets

CONSTANTS Runners, Processes, ProcOf,
          Pools,      \* identities of AsyncConnectionPool objects
          NoPool, NoRunner

ASSUME CheckpointerAssumption ==
    /\ ProcOf \in [Runners -> Processes]
    /\ NoPool \notin Pools
    /\ NoRunner \notin Runners

VARIABLES
    shared,    \* _shared_checkpointer_pool of each process
    done,      \* _checkpointer_setup_done of each process
    waiter,    \* _setup_waiter, named by the leader that made it
    pc,        \* where each runner stands
    mine,      \* the pool each runner works with
    doomed,    \* the pool a resetting runner is about to close
    follows,   \* the leader whose event a follower waits for
    closed,    \* the pools that are closed
    dblock     \* the runner whose session holds the advisory lock

procVars == <<shared, done, waiter>>
vars == <<shared, done, waiter, pc, mine, doomed, follows, closed, dblock>>

\* "lead": elected; "lock": waits for the advisory lock; "setup": runs setup;
\* "unlock", "abort": setup is over, and worked or raised; "ready":
\* setup_checkpointer has returned; "failed": it raised.
Leading == {"lead", "lock", "setup", "unlock", "abort"}
Steps == Leading \cup {"idle", "got", "follow", "ready", "failed", "reset", "fresh"}

TypeOK ==
    /\ shared \in [Processes -> Pools \cup {NoPool}]
    /\ done \in [Processes -> BOOLEAN]
    /\ waiter \in [Processes -> Runners \cup {NoRunner}]
    /\ pc \in [Runners -> Steps]
    /\ mine \in [Runners -> Pools \cup {NoPool}]
    /\ doomed \in [Runners -> Pools \cup {NoPool}]
    /\ follows \in [Runners -> Runners \cup {NoRunner}]
    /\ closed \in SUBSET Pools
    /\ dblock \in Runners \cup {NoRunner}

Init ==
    /\ shared = [p \in Processes |-> NoPool]
    /\ done = [p \in Processes |-> FALSE]
    /\ waiter = [p \in Processes |-> NoRunner]
    /\ pc = [r \in Runners |-> "idle"]
    /\ mine = [r \in Runners |-> NoPool]
    /\ doomed = [r \in Runners |-> NoPool]
    /\ follows = [r \in Runners |-> NoRunner]
    /\ closed = {}
    /\ dblock = NoRunner

Goto(r, step) == pc' = [pc EXCEPT ![r] = step]

\* A new pool object: an identity nobody refers to.
Fresh(q) ==
    /\ \A p \in Processes : shared[p] # q
    /\ \A r \in Runners : mine[r] # q /\ doomed[r] # q

-----------------------------------------------------------------------------
(* get_or_create_pool, _register_pool, close_shared_instance               *)

\* The shared pool, made when there is none; it is not asked whether it is
\* still open.
GetPool(r) ==
    LET p == ProcOf[r] IN
    /\ pc[r] \in {"idle", "fresh"}
    /\ \E q \in Pools :
          /\ q = shared[p] \/ (shared[p] = NoPool /\ Fresh(q))
          /\ shared' = [shared EXCEPT ![p] = q]
          /\ mine' = [mine EXCEPT ![r] = q]
          /\ closed' = IF q = shared[p] THEN closed ELSE closed \ {q}
    /\ Goto(r, "got")
    /\ UNCHANGED <<done, waiter, doomed, follows, dblock>>

\* The daemon binds a pool it has opened itself.
Register(p) ==
    /\ \E q \in Pools : /\ Fresh(q)
                        /\ shared' = [shared EXCEPT ![p] = q]
                        /\ closed' = closed \ {q}
    /\ UNCHANGED <<done, waiter, pc, mine, doomed, follows, dblock>>

CloseShared(p) ==
    /\ shared' = [shared EXCEPT ![p] = NoPool]
    /\ done' = [done EXCEPT ![p] = FALSE]
    /\ UNCHANGED <<waiter, pc, mine, doomed, follows, closed, dblock>>

-----------------------------------------------------------------------------
(* setup_checkpointer                                                      *)

AlreadyDone(r) ==
    /\ pc[r] = "got"
    /\ done[ProcOf[r]]
    /\ Goto(r, "ready")
    /\ UNCHANGED <<procVars, mine, doomed, follows, closed, dblock>>

Lead(r) ==
    /\ pc[r] = "got"
    /\ ~done[ProcOf[r]]
    /\ waiter[ProcOf[r]] = NoRunner
    /\ waiter' = [waiter EXCEPT ![ProcOf[r]] = r]
    /\ Goto(r, "lead")
    /\ UNCHANGED <<shared, done, mine, doomed, follows, closed, dblock>>

Follow(r) ==
    /\ pc[r] = "got"
    /\ ~done[ProcOf[r]]
    /\ waiter[ProcOf[r]] # NoRunner
    /\ follows' = [follows EXCEPT ![r] = waiter[ProcOf[r]]]
    /\ Goto(r, "follow")
    /\ UNCHANGED <<procVars, mine, doomed, closed, dblock>>

\* waiter.wait(120.0) gives up: a warning, and the caller goes on.
FollowTimeout(r) ==
    /\ pc[r] = "follow"
    /\ follows' = [follows EXCEPT ![r] = NoRunner]
    /\ Goto(r, "ready")
    /\ UNCHANGED <<procVars, mine, doomed, closed, dblock>>

\* Mutant of Finish: the event is set only when setup worked.
FinishSilent(r, end) ==
    /\ waiter' = [waiter EXCEPT ![ProcOf[r]] = NoRunner]
    /\ IF end = "ready"
       THEN /\ pc' = [u \in Runners |-> IF u = r \/ follows[u] = r THEN "ready" ELSE pc[u]]
            /\ follows' = [u \in Runners |-> IF follows[u] = r THEN NoRunner ELSE follows[u]]
       ELSE Goto(r, end) /\ UNCHANGED follows

\* The outer finally: the waiter is taken down, its event set; every follower
\* returns, whatever became of the leader.
Finish(r, end) ==
    /\ waiter' = [waiter EXCEPT ![ProcOf[r]] = NoRunner]
    /\ pc' = [u \in Runners |-> IF u = r THEN end
                                ELSE IF follows[u] = r THEN "ready" ELSE pc[u]]
    /\ follows' = [u \in Runners |-> IF follows[u] = r THEN NoRunner ELSE follows[u]]

\* The flag is read again first; it is never found set (SetupOnce).
Connect(r) ==
    /\ pc[r] = "lead"
    /\ ~done[ProcOf[r]]
    /\ mine[r] \notin closed
    /\ Goto(r, "lock")
    /\ UNCHANGED <<procVars, mine, doomed, follows, closed, dblock>>

\* The pool is closed or has no connection to give, or the session breaks
\* while it waits for the lock.
ConnectFail(r) ==
    /\ pc[r] \in {"lead", "lock"}
    /\ pc[r] = "lead" => ~done[ProcOf[r]]
    /\ Finish(r, "failed")
    /\ UNCHANGED <<shared, done, mine, doomed, closed, dblock>>

\* Mutant of Lock: the advisory lock is not waited for.
LockFree(r) ==
    /\ pc[r] = "lock"
    /\ dblock' = r
    /\ Goto(r, IF done[ProcOf[r]] THEN "unlock" ELSE "setup")
    /\ UNCHANGED <<procVars, mine, doomed, follows, closed>>

\* The flag is read once more under the lock, and again never found set.
Lock(r) ==
    /\ pc[r] = "lock"
    /\ dblock = NoRunner
    /\ dblock' = r
    /\ Goto(r, IF done[ProcOf[r]] THEN "unlock" ELSE "setup")
    /\ UNCHANGED <<procVars, mine, doomed, follows, closed>>

\* setup returns, or raises a duplicate-schema error, which is dropped: either
\* way the flag is set.
SetupOk(r) ==
    /\ pc[r] = "setup"
    /\ done' = [done EXCEPT ![ProcOf[r]] = TRUE]
    /\ Goto(r, "unlock")
    /\ UNCHANGED <<shared, waiter, mine, doomed, follows, closed, dblock>>

\* Mutant of SetupFail: setup raises past the unlock.
SetupFailLocked(r) ==
    /\ pc[r] = "setup"
    /\ Finish(r, "failed")
    /\ UNCHANGED <<shared, done, mine, doomed, closed, dblock>>

\* It raises anything else, or is cancelled.
SetupFail(r) ==
    /\ pc[r] = "setup"
    /\ Goto(r, "abort")
    /\ UNCHANGED <<procVars, mine, doomed, follows, closed, dblock>>

\* pg_advisory_unlock, or the end of the session that held it.
Unlock(r) ==
    /\ pc[r] \in {"unlock", "abort"}
    /\ dblock' = NoRunner
    /\ Finish(r, IF pc[r] = "unlock" THEN "ready" ELSE "failed")
    /\ UNCHANGED <<shared, done, mine, doomed, closed>>

-----------------------------------------------------------------------------
(* reset_shared_instance, in three steps                                   *)

\* Mutant of Reset: the waiter of a setup under way is dropped as well.
ResetAll(r) ==
    LET p == ProcOf[r] IN
    /\ pc[r] \in {"ready", "failed"}
    /\ doomed' = [doomed EXCEPT ![r] = shared[p]]
    /\ shared' = [shared EXCEPT ![p] = NoPool]
    /\ done' = [done EXCEPT ![p] = FALSE]
    /\ waiter' = [waiter EXCEPT ![p] = NoRunner]
    /\ Goto(r, "reset")
    /\ UNCHANGED <<mine, follows, closed, dblock>>

\* r has seen a connection error on its pool.
Reset(r) ==
    LET p == ProcOf[r] IN
    /\ pc[r] \in {"ready", "failed"}
    /\ doomed' = [doomed EXCEPT ![r] = shared[p]]
    /\ shared' = [shared EXCEPT ![p] = NoPool]
    /\ done' = [done EXCEPT ![p] = FALSE]
    /\ Goto(r, "reset")
    /\ UNCHANGED <<waiter, mine, follows, closed, dblock>>

\* Mutant of ClosePool: close does not look whether there was a pool.
ClosePoolBlind(r) ==
    /\ pc[r] = "reset"
    /\ closed' = closed \cup {doomed[r]}
    /\ doomed' = [doomed EXCEPT ![r] = NoPool]
    /\ Goto(r, "fresh")
    /\ UNCHANGED <<procVars, mine, follows, dblock>>

\* The pool is closed outside the lock; closing one that is closed, or none,
\* changes nothing.  Then get_or_create_pool.
ClosePool(r) ==
    /\ pc[r] = "reset"
    /\ closed' = closed \cup ({doomed[r]} \ {NoPool})
    /\ doomed' = [doomed EXCEPT ![r] = NoPool]
    /\ Goto(r, "fresh")
    /\ UNCHANGED <<procVars, mine, follows, dblock>>

\* The runner ends.
Leave(r) ==
    /\ pc[r] \in {"ready", "failed"}
    /\ mine' = [mine EXCEPT ![r] = NoPool]
    /\ Goto(r, "idle")
    /\ UNCHANGED <<procVars, doomed, follows, closed, dblock>>

\* The process dies and starts again; its sessions end, and with them a lock.
Crash(p) ==
    /\ shared' = [shared EXCEPT ![p] = NoPool]
    /\ done' = [done EXCEPT ![p] = FALSE]
    /\ waiter' = [waiter EXCEPT ![p] = NoRunner]
    /\ pc' = [r \in Runners |-> IF ProcOf[r] = p THEN "idle" ELSE pc[r]]
    /\ mine' = [r \in Runners |-> IF ProcOf[r] = p THEN NoPool ELSE mine[r]]
    /\ doomed' = [r \in Runners |-> IF ProcOf[r] = p THEN NoPool ELSE doomed[r]]
    /\ follows' = [r \in Runners |-> IF ProcOf[r] = p THEN NoRunner ELSE follows[r]]
    /\ dblock' = IF \E r \in Runners : ProcOf[r] = p /\ dblock = r THEN NoRunner ELSE dblock
    /\ UNCHANGED closed

-----------------------------------------------------------------------------
Leader(r) == \/ Connect(r) \/ ConnectFail(r)
             \/ SetupOk(r) \/ SetupFail(r) \/ Unlock(r)

Next ==
    \/ \E r \in Runners :
          \/ GetPool(r) \/ AlreadyDone(r) \/ Lead(r) \/ Follow(r) \/ FollowTimeout(r)
          \/ Leader(r) \/ Lock(r)
          \/ Reset(r) \/ ClosePool(r) \/ Leave(r)
    \/ \E p \in Processes : Register(p) \/ CloseShared(p) \/ Crash(p)

Spec == Init /\ [][Next]_vars

\* Every leader's awaits return, and PostgreSQL grants an advisory lock in
\* the order of the requests.  No timeout of a follower is assumed, and no
\* break of a session that waits for the lock.
Fairness == \A r \in Runners : /\ WF_vars(pc[r] # "lock" /\ Leader(r))
                               /\ SF_vars(Lock(r))

FairSpec == Spec /\ Fairness
-----------------------------------------------------------------------------
(* Properties *)

\* LoneLeader: a process has at most one leader, the one its waiter is of,
\* although resets, shutdowns and crashes of the process come in between.
LoneLeader ==
    \A r \in Runners : pc[r] \in Leading <=> waiter[ProcOf[r]] = r

\* SetupSerialized: no two setups run at once, in whatever processes
\* ("Without serialization, PostgreSQL raises UniqueViolation").
SetupSerialized ==
    \A r, u \in Runners : pc[r] = "setup" /\ pc[u] = "setup" => r = u

\* SetupOnce: nobody leads or runs setup once the process has it done ("Run
\* LangGraph checkpointer `setup()` once"), although the flag is read, the
\* leader elected and the flag set in separate steps, and resets clear it.
SetupOnce ==
    \A r \in Runners : pc[r] \in {"lead", "lock", "setup"} => ~done[ProcOf[r]]

\* LockReleased: the advisory lock is only held by a leader that will unlock
\* it: none is left behind by a failure or a crash.
LockReleased == dblock # NoRunner => pc[dblock] \in {"setup", "unlock", "abort"}

\* SetupExclusive: one leader to a process, one setup at a time, once for
\* each process, and the lock is given back: what keeps setups apart.
SetupExclusive == LoneLeader /\ SetupSerialized /\ SetupOnce /\ LockReleased

\* FollowersHeard: a follower waits for a leader of its process that is at
\* work, so it is not left to its timeout.
FollowersHeard ==
    \A r \in Runners : pc[r] = "follow" =>
        ProcOf[follows[r]] = ProcOf[r] /\ pc[follows[r]] \in Leading

\* FollowersReturn: a follower returns without its timeout.
FollowersReturn == \A r \in Runners : pc[r] = "follow" ~> pc[r] # "follow"
=============================================================================
