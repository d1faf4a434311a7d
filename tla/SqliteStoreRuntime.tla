------------------------- MODULE SqliteStoreRuntime -------------------------
(***************************************************************************)
(* persistence/sqlite_runtime.py, SqliteStoreRuntime: the connections of   *)
(* one database file, used by worker threads.  Writes share one connection *)
(* under _writer_lock; a read leases a connection under a semaphore; close *)
(* may come at any time, from the last store that releases the file.       *)
(*                                                                         *)
(* Threads are preempted anywhere: a step is a region under one lock, or   *)
(* the code between two of them.  Whatever opens a connection may fail.    *)
(* What a callback does with its connection is left out.                   *)
(***************************************************************************)
EXTENDS Naturals, FiniteSets

CONSTANTS Threads,
          Conns,      \* identities of connections
          PoolSize,   \* SqliteRuntimeConfig.reader_pool_size
          NoThread, NoConn

ASSUME PoolAssumption ==
    /\ PoolSize \in Nat \ {0}
    /\ IsFiniteSet(Conns)
    /\ NoThread \notin Threads
    /\ NoConn \notin Conns

VARIABLES
    runtimeClosed, \* _closed
    writer,        \* _writer_conn
    pool,          \* _reader_pool
    openConns,     \* the connections that are open
    permits,       \* the value of _reader_semaphore
    wlock,         \* the thread that holds _writer_lock
    threadAt,      \* where each thread stands
    lease          \* the connection each reader holds

poolVars == <<runtimeClosed, writer, pool, openConns, permits, wlock, threadAt, lease>>

\* "pool": in run_read, past _ensure_not_closed, about to look at the pool;
\* "wait": about to acquire the semaphore; "permit": has a permit and no
\* connection yet; "read", "write": its callback runs.
ThreadSteps == {"idle", "pool", "wait", "permit", "read", "write"}

PoolTypeOK ==
    /\ runtimeClosed \in BOOLEAN
    /\ writer \in Conns \cup {NoConn}
    /\ pool \in SUBSET Conns
    /\ openConns \in SUBSET Conns
    /\ permits \in 0 .. PoolSize
    /\ wlock \in Threads \cup {NoThread}
    /\ threadAt \in [Threads -> ThreadSteps]
    /\ lease \in [Threads -> Conns \cup {NoConn}]

PoolInit ==
    /\ runtimeClosed = FALSE
    /\ writer = NoConn
    /\ pool = {}
    /\ openConns = {}
    /\ permits = PoolSize
    /\ wlock = NoThread
    /\ threadAt = [t \in Threads |-> "idle"]
    /\ lease = [t \in Threads |-> NoConn]

ThreadGoes(t, step) == threadAt' = [threadAt EXCEPT ![t] = step]

-----------------------------------------------------------------------------
(* run_read_sync                                                           *)

\* _ensure_not_closed looks at _closed under no lock.
ReadStart(t) ==
    /\ threadAt[t] = "idle"
    /\ ~runtimeClosed
    /\ ThreadGoes(t, "pool")
    /\ UNCHANGED <<runtimeClosed, writer, pool, openConns, permits, wlock, lease>>

\* Mutant of NeedsRefill: the pool is topped up whenever it is not full.
NeedsRefillNotFull == Cardinality(pool) < PoolSize

NeedsRefill == pool = {}

PoolReady(t) ==
    /\ threadAt[t] = "pool"
    /\ ~NeedsRefill
    /\ ThreadGoes(t, "wait")
    /\ UNCHANGED <<runtimeClosed, writer, pool, openConns, permits, wlock, lease>>

\* An empty pool is filled, be it new or leased out.
Refill(t) ==
    /\ threadAt[t] = "pool"
    /\ NeedsRefill
    /\ \E S \in SUBSET (Conns \ openConns) :
          /\ Cardinality(S) = PoolSize
          /\ pool' = pool \cup S
          /\ openConns' = openConns \cup S
    /\ ThreadGoes(t, "wait")
    /\ UNCHANGED <<runtimeClosed, writer, permits, wlock, lease>>

\* Mutant of RefillFail: the permit is given back before it was acquired.
RefillFailReleases(t) ==
    /\ threadAt[t] = "pool"
    /\ NeedsRefill
    /\ permits' = permits + 1
    /\ ThreadGoes(t, "idle")
    /\ UNCHANGED <<runtimeClosed, writer, pool, openConns, wlock, lease>>

\* Opening fails: what was opened before stays in the pool, the read raises.
RefillFail(t) ==
    /\ threadAt[t] = "pool"
    /\ NeedsRefill
    /\ \E S \in SUBSET (Conns \ openConns) :
          /\ Cardinality(S) < PoolSize
          /\ pool' = pool \cup S
          /\ openConns' = openConns \cup S
    /\ ThreadGoes(t, "idle")
    /\ UNCHANGED <<runtimeClosed, writer, permits, wlock, lease>>

AcquirePermit(t) ==
    /\ threadAt[t] = "wait"
    /\ permits > 0
    /\ permits' = permits - 1
    /\ ThreadGoes(t, "permit")
    /\ UNCHANGED <<runtimeClosed, writer, pool, openConns, wlock, lease>>

\* Mutant of LeasePooled: the connection is not taken out of the pool.
LeasePooledKeeps(t) ==
    /\ threadAt[t] = "permit"
    /\ \E c \in pool : lease' = [lease EXCEPT ![t] = c]
    /\ ThreadGoes(t, "read")
    /\ UNCHANGED <<runtimeClosed, writer, pool, openConns, permits, wlock>>

LeasePooled(t) ==
    /\ threadAt[t] = "permit"
    /\ \E c \in pool : /\ pool' = pool \ {c}
                       /\ lease' = [lease EXCEPT ![t] = c]
    /\ ThreadGoes(t, "read")
    /\ UNCHANGED <<runtimeClosed, writer, openConns, permits, wlock>>

LeaseNew(t) ==
    /\ threadAt[t] = "permit"
    /\ pool = {}
    /\ \E c \in Conns \ openConns : /\ openConns' = openConns \cup {c}
                               /\ lease' = [lease EXCEPT ![t] = c]
    /\ ThreadGoes(t, "read")
    /\ UNCHANGED <<runtimeClosed, writer, pool, permits, wlock>>

\* Mutant of LeaseFail: the permit is lost when opening fails.
LeaseFailKeeps(t) ==
    /\ threadAt[t] = "permit"
    /\ pool = {}
    /\ ThreadGoes(t, "idle")
    /\ UNCHANGED <<runtimeClosed, writer, pool, openConns, permits, wlock, lease>>

LeaseFail(t) ==
    /\ threadAt[t] = "permit"
    /\ pool = {}
    /\ permits' = permits + 1
    /\ ThreadGoes(t, "idle")
    /\ UNCHANGED <<runtimeClosed, writer, pool, openConns, wlock, lease>>

\* Mutant of ReadEnd: closing the connection skips the semaphore.
ReadEndSkips(t) ==
    /\ threadAt[t] = "read"
    /\ lease' = [lease EXCEPT ![t] = NoConn]
    /\ ThreadGoes(t, "idle")
    /\ IF ~runtimeClosed /\ Cardinality(pool) < PoolSize
       THEN pool' = pool \cup {lease[t]} /\ permits' = permits + 1 /\ UNCHANGED openConns
       ELSE openConns' = openConns \ {lease[t]} /\ UNCHANGED <<pool, permits>>
    /\ UNCHANGED <<runtimeClosed, writer, wlock>>

\* _release_reader, after the callback returned or raised.
ReadEnd(t) ==
    /\ threadAt[t] = "read"
    /\ IF ~runtimeClosed /\ Cardinality(pool) < PoolSize
       THEN pool' = pool \cup {lease[t]} /\ UNCHANGED openConns
       ELSE openConns' = openConns \ {lease[t]} /\ UNCHANGED pool
    /\ lease' = [lease EXCEPT ![t] = NoConn]
    /\ permits' = permits + 1
    /\ ThreadGoes(t, "idle")
    /\ UNCHANGED <<runtimeClosed, writer, wlock>>

-----------------------------------------------------------------------------
(* run_write_sync and close_sync                                           *)

\* _ensure_writer: the writer connection, opened when there is none.
EnsureWriter ==
    /\ writer' \in IF writer = NoConn THEN Conns \ openConns ELSE {writer}
    /\ openConns' = openConns \cup {writer'}

\* Mutant of WriteStart: _closed is not checked once the lock is held.
WriteStartBlind(t) ==
    /\ threadAt[t] = "idle"
    /\ wlock = NoThread
    /\ EnsureWriter
    /\ wlock' = t
    /\ ThreadGoes(t, "write")
    /\ UNCHANGED <<runtimeClosed, pool, permits, lease>>

WriteStart(t) ==
    /\ threadAt[t] = "idle"
    /\ wlock = NoThread
    /\ ~runtimeClosed
    /\ EnsureWriter
    /\ wlock' = t
    /\ ThreadGoes(t, "write")
    /\ UNCHANGED <<runtimeClosed, pool, permits, lease>>

\* BEGIN IMMEDIATE raises (the file is busy): the lock is left at once.
WriteBusy(t) ==
    /\ threadAt[t] = "idle"
    /\ wlock = NoThread
    /\ ~runtimeClosed
    /\ EnsureWriter
    /\ UNCHANGED <<runtimeClosed, pool, permits, wlock, threadAt, lease>>

\* Commit or rollback.
WriteEnd(t) ==
    /\ threadAt[t] = "write"
    /\ wlock' = NoThread
    /\ ThreadGoes(t, "idle")
    /\ UNCHANGED <<runtimeClosed, writer, pool, openConns, permits, lease>>

\* Mutant of Close: the pool is not cleared.
CloseKeepsPool ==
    /\ wlock = NoThread
    /\ runtimeClosed' = TRUE
    /\ openConns' = openConns \ (pool \cup {writer})
    /\ writer' = NoConn
    /\ UNCHANGED <<pool, permits, wlock, threadAt, lease>>

\* close_sync, under both locks: pooled connections and the writer.
Close ==
    /\ wlock = NoThread
    /\ runtimeClosed' = TRUE
    /\ openConns' = openConns \ (pool \cup {writer})
    /\ pool' = {}
    /\ writer' = NoConn
    /\ UNCHANGED <<permits, wlock, threadAt, lease>>

-----------------------------------------------------------------------------
Read(t) == \/ ReadStart(t) \/ PoolReady(t) \/ Refill(t) \/ RefillFail(t)
           \/ AcquirePermit(t) \/ LeasePooled(t) \/ LeaseNew(t) \/ LeaseFail(t)
           \/ ReadEnd(t)

Write(t) == WriteStart(t) \/ WriteBusy(t) \/ WriteEnd(t)

PoolNext == Close \/ \E t \in Threads : Read(t) \/ Write(t)

PoolSpec == PoolInit /\ [][PoolNext]_poolVars

\* The scheduler runs every thread that has its permit, and callbacks return.
\* Nothing is assumed of who gets a permit: Semaphore lets newcomers overtake.
PoolFairness == \A t \in Threads :
    /\ WF_poolVars(LeasePooled(t) \/ LeaseNew(t) \/ LeaseFail(t))
    /\ WF_poolVars(ReadEnd(t))

PoolFairSpec == PoolSpec /\ PoolFairness
-----------------------------------------------------------------------------
(* Properties *)

Readers == {t \in Threads : threadAt[t] = "read"}
Leased == {lease[t] : t \in Readers}

\* OwnConnection: the connection a callback works on is open, its own, and
\* nobody else's: not pooled, not the writer's, not another reader's,
\* although close and refill run at any time beside it.
OwnConnection ==
    /\ \A t \in Readers :
          /\ lease[t] \in openConns \ (pool \cup {writer})
          /\ \A u \in Readers \ {t} : lease[u] # lease[t]
    /\ \A t \in Threads : threadAt[t] = "write" => wlock = t /\ writer \in openConns

\* PooledOpen: a pooled connection is open, so the next lease can use it.
PooledOpen == pool \subseteq openConns /\ writer \notin pool

\* PermitsConserved: every permit is free or held by a reader on its way,
\* whatever fails; a lost one would starve reads for good.
PermitsConserved ==
    permits + Cardinality({t \in Threads : threadAt[t] \in {"permit", "read"}}) = PoolSize

\* BoundedReaders: the pool is filled again while its connections are leased
\* out, but never beyond twice its size.
BoundedReaders == Cardinality(pool \cup Leased) <= 2 * PoolSize

\* ClosedForWrites: once closed, no writer connection is opened again and no
\* write runs (tests/unit/persistence/test_sqlite_runtime.py).
ClosedForWrites ==
    runtimeClosed => writer = NoConn /\ \A t \in Threads : threadAt[t] # "write"

\* ConnectionsSafe: what every run_read and run_write relies on, together.
ConnectionsSafe == OwnConnection /\ PooledOpen /\ PermitsConserved /\ BoundedReaders /\ ClosedForWrites

\* PermitsComeBack: a reader that waits for the semaphore always gets another
\* chance, whatever fails or closes beside it.
PermitsComeBack ==
    \A t \in Threads : threadAt[t] = "wait" ~> (threadAt[t] # "wait" \/ permits > 0)
=============================================================================
