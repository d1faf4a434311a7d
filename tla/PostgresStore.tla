----------------------------- MODULE PostgresStore --------------------------
(***************************************************************************)
(* backends/persistence/postgres_store.py: a store that owns its pool.  An *)
(* operation makes the pool when there is none, and after a connection     *)
(* error resets it and tries once more; close() drops it.                  *)
(*                                                                         *)
(* All of it runs on one event loop: a step is the code between two        *)
(* awaits.  Pools are numbered as they are made, at most PoolLimit of them *)
(* (a bound of the model, which no behaviour reaches: StoreFreeOfDeadlock).*)
(***************************************************************************)
EXTENDS Naturals, FiniteSets

CONSTANTS StoreOps, Closers, PoolLimit, NoOp

ASSUME PgAssumption ==
    /\ IsFiniteSet(StoreOps)
    /\ PoolLimit \in Nat /\ PoolLimit >= 2 * Cardinality(StoreOps)
    /\ NoOp \notin StoreOps
    /\ StoreOps \cap Closers = {}

VARIABLES
    opAt,       \* where each operation, or call of close(), stands
    tries,      \* attempt of _run_with_pool_recovery
    holds,      \* the pool it has got, makes or closes; 0 is none
    ownPool,    \* _pool
    poolState,  \* of every pool made
    initLock,   \* the operation that has _init_lock
    lostPools   \* history: open pools that nobody will close

pgVars == <<opAt, tries, holds, ownPool, poolState, initLock, lostPools>>

Users == StoreOps \cup Closers
PoolIds == 1 .. PoolLimit
OpOver == {"done", "failed"}

PgTypeOK ==
    /\ opAt \in [Users -> {"new", "ensure", "lock", "open", "run", "reset", "close"} \cup OpOver]
    /\ tries \in [Users -> 1 .. 2]
    /\ holds \in [Users -> 0 .. PoolLimit]
    /\ ownPool \in 0 .. PoolLimit
    /\ poolState \in [PoolIds -> {"none", "made", "open", "closed"}]
    /\ initLock \in StoreOps \cup {NoOp}
    /\ lostPools \in SUBSET PoolIds

PgInit ==
    /\ opAt = [u \in Users |-> "new"]
    /\ tries = [u \in Users |-> 1]
    /\ holds = [u \in Users |-> 0]
    /\ ownPool = 0
    /\ poolState = [p \in PoolIds |-> "none"]
    /\ initLock = NoOp
    /\ lostPools = {}

OpGoes(u, next) == opAt' = [opAt EXCEPT ![u] = next]
Hold(u, p) == holds' = [holds EXCEPT ![u] = p]
Becomes(p, s) == poolState' = [poolState EXCEPT ![p] = s]
-----------------------------------------------------------------------------
(* _ensure_pool                                                            *)

\* The pool there is, open or not: ensure_open skips a closed one.
Ensure(o) ==
    /\ opAt[o] \in {"new", "ensure"}
    /\ IF ownPool # 0 THEN Hold(o, ownPool) /\ OpGoes(o, "run")
                      ELSE OpGoes(o, "lock") /\ UNCHANGED holds
    /\ UNCHANGED <<tries, ownPool, poolState, initLock, lostPools>>

\* Mutant of MakePool: the lock is not taken.
MakePoolFree(o) ==
    /\ opAt[o] = "lock"
    /\ \E p \in PoolIds :
          /\ poolState[p] = "none" /\ \A q \in 1 .. p - 1 : poolState[q] # "none"
          /\ Becomes(p, "made") /\ Hold(o, p)
    /\ OpGoes(o, "open")
    /\ UNCHANGED <<tries, ownPool, initLock, lostPools>>

\* Under the lock: another operation may have made the pool meanwhile.
MakePool(o) ==
    /\ opAt[o] = "lock"
    /\ initLock = NoOp
    /\ IF ownPool # 0
       THEN Hold(o, ownPool) /\ OpGoes(o, "run") /\ UNCHANGED <<poolState, initLock>>
       ELSE /\ \E p \in PoolIds :
                  /\ poolState[p] = "none" /\ \A q \in 1 .. p - 1 : poolState[q] # "none"
                  /\ Becomes(p, "made") /\ Hold(o, p)
            /\ initLock' = o
            /\ OpGoes(o, "open")
    /\ UNCHANGED <<tries, ownPool, lostPools>>

\* pool.open() and the schema, then the pool is the store's.
Opened(o) ==
    /\ opAt[o] = "open"
    /\ Becomes(holds[o], "open")
    /\ ownPool' = holds[o]
    /\ initLock' = NoOp
    /\ OpGoes(o, "run")
    /\ UNCHANGED <<tries, holds, lostPools>>

\* The pool is closed again and the error raised, past the retry.
OpenFails(o) ==
    /\ opAt[o] = "open"
    /\ Becomes(holds[o], "closed")
    /\ initLock' = NoOp
    /\ OpGoes(o, "failed")
    /\ UNCHANGED <<tries, holds, ownPool, lostPools>>

\* Cancelled while it opens or closes a pool: "except Exception" does not
\* see it, and the pool may be open.
OpCancelled(o) ==
    /\ opAt[o] \in {"open", "close"}
    /\ Becomes(holds[o], "open")
    /\ lostPools' = lostPools \cup {holds[o]}
    /\ initLock' = IF initLock = o THEN NoOp ELSE initLock
    /\ OpGoes(o, "failed")
    /\ UNCHANGED <<tries, holds, ownPool>>
-----------------------------------------------------------------------------
(* _run_with_pool_recovery                                                 *)

RunOk(o) ==
    /\ opAt[o] = "run" /\ poolState[holds[o]] = "open"
    /\ OpGoes(o, "done")
    /\ UNCHANGED <<tries, holds, ownPool, poolState, initLock, lostPools>>

\* A lost connection or a closed pool in the first attempt.
RunLost(o) ==
    /\ opAt[o] = "run" /\ tries[o] = 1
    /\ OpGoes(o, "reset")
    /\ UNCHANGED <<tries, holds, ownPool, poolState, initLock, lostPools>>

\* In the second attempt, or any other error.
RunFails(o) ==
    /\ opAt[o] = "run"
    /\ poolState[holds[o]] = "open" \/ tries[o] = 2
    /\ OpGoes(o, "failed")
    /\ UNCHANGED <<tries, holds, ownPool, poolState, initLock, lostPools>>

\* Mutant of ResetPool: the old pool is let go of and left open.
ResetPoolOpen(o) ==
    /\ opAt[o] = "reset" /\ initLock = NoOp
    /\ ownPool' = 0
    /\ tries' = [tries EXCEPT ![o] = 2]
    /\ OpGoes(o, "ensure")
    /\ UNCHANGED <<holds, poolState, initLock, lostPools>>

\* _reset_pool takes whatever pool the store has now, which may be one that
\* another operation has made since this one failed.
ResetPool(o) ==
    /\ opAt[o] = "reset" /\ initLock = NoOp
    /\ Hold(o, ownPool)
    /\ ownPool' = 0
    /\ tries' = [tries EXCEPT ![o] = 2]
    /\ OpGoes(o, IF ownPool = 0 THEN "ensure" ELSE "close")
    /\ UNCHANGED <<poolState, initLock, lostPools>>

ResetClosed(o) ==
    /\ opAt[o] = "close" /\ o \in StoreOps
    /\ Becomes(holds[o], "closed")
    /\ OpGoes(o, "ensure")
    /\ UNCHANGED <<tries, holds, ownPool, initLock, lostPools>>
-----------------------------------------------------------------------------
(* close()                                                                 *)

CloseBegins(k) ==
    /\ opAt[k] = "new"
    /\ IF ownPool = 0 THEN OpGoes(k, "done") /\ UNCHANGED holds
                      ELSE OpGoes(k, "close") /\ Hold(k, ownPool)
    /\ UNCHANGED <<tries, ownPool, poolState, initLock, lostPools>>

\* The reference is dropped after the await, whatever it is by then.
CloseEnds(k) ==
    /\ opAt[k] = "close"
    /\ Becomes(holds[k], "closed")
    /\ ownPool' = 0
    /\ lostPools' = IF ownPool \in {0, holds[k]} THEN lostPools ELSE lostPools \cup {ownPool}
    /\ OpGoes(k, "done")
    /\ UNCHANGED <<tries, holds, initLock>>

OpStep(o) == Ensure(o) \/ MakePool(o) \/ Opened(o) \/ OpenFails(o) \/ OpCancelled(o)
             \/ RunOk(o) \/ RunLost(o) \/ RunFails(o) \/ ResetPool(o) \/ ResetClosed(o)

PgNext == \/ \E o \in StoreOps : OpStep(o)
          \/ \E k \in Closers : CloseBegins(k) \/ CloseEnds(k)

PgSpec == PgInit /\ [][PgNext]_pgVars

\* The loop runs what can run, and the database answers.
PgFairness == /\ \A o \in StoreOps : WF_pgVars(OpStep(o) /\ opAt[o] # "new")
              /\ \A k \in Closers : WF_pgVars(CloseEnds(k))
PgFairSpec == PgSpec /\ PgFairness
-----------------------------------------------------------------------------
(* Properties *)

\* PoolsAccounted: an open pool is the store's, or somebody makes or closes
\* it, or it was lost in one of two ways: a cancellation while it was being
\* opened or closed, or a close() that ended after another pool had been made.
PoolsAccounted ==
    \A p \in PoolIds : poolState[p] = "open" =>
        \/ p = ownPool
        \/ \E u \in Users : opAt[u] \in {"open", "close"} /\ holds[u] = p
        \/ p \in lostPools

\* OneMaker: one pool at a time is being made, and only while there is none.
OneMaker ==
    LET making == {o \in StoreOps : opAt[o] = "open"}
    IN  Cardinality(making) <= 1 /\ (making # {} => ownPool = 0)

\* OwnPoolSound: resets, retries and close() together leak no pool but those,
\* and make none beside one that is there.
OwnPoolSound == PoolsAccounted /\ OneMaker

\* StoreOpsEnd: an operation that has begun returns or raises; the one retry
\* does not become a loop of operations that close each other's pools.
StoreOpsEnd == \A o \in StoreOps : opAt[o] \notin {"new"} \cup OpOver ~> opAt[o] \in OpOver
=============================================================================
