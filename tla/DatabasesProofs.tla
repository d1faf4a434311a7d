-------------------------- MODULE DatabasesProofs --------------------------
(***************************************************************************)
(* Proofs about the connections of a SQLite file, the registry of the      *)
(* files and what MCDatabases puts together, for any threads, connections, *)
(* pool size, stores, runners and processes.                               *)
(***************************************************************************)
EXTENDS MCDatabases, SharedCheckpointerPoolProofs, FiniteSetTheorems

-----------------------------------------------------------------------------
(* SqliteStoreRuntime: the locks                                           *)

\* The writer's connection and the pooled ones are open, and apart.
Shape ==
    /\ PooledOpen
    /\ writer # NoConn => writer \in openConns
    /\ \A t \in Threads : threadAt[t] = "write" <=> wlock = t
    /\ wlock # NoThread => writer # NoConn
    /\ ClosedForWrites

\* What Refill, LeasePooled and LeaseNew, ReadEnd and Close rely on.
Apart ==
    /\ \A t \in Readers :
          /\ lease[t] \in Conns
          /\ lease[t] \in openConns \ (pool \cup {writer})
    /\ \A t, u \in Readers : lease[t] = lease[u] => t = u

\* The permits and connections that are counted.
Holders == {t \in Threads : threadAt[t] \in {"permit", "read"}}

Counted ==
    /\ IsFiniteSet(Holders)
    /\ permits + Cardinality(Holders) = PoolSize
    /\ IsFiniteSet(pool) /\ Cardinality(pool) <= PoolSize

\* No two readers lease one connection, so there are as many of them leased.
LeasesCounted ==
    /\ IsFiniteSet(Readers) /\ IsFiniteSet(Leased)
    /\ Cardinality(Leased) = Cardinality(Readers)

\* The types without the range of permits, which is a matter of counting.
PoolTypes ==
    /\ runtimeClosed \in BOOLEAN
    /\ writer \in Conns \cup {NoConn}
    /\ pool \in SUBSET Conns
    /\ openConns \in SUBSET Conns
    /\ permits \in Nat
    /\ wlock \in Threads \cup {NoThread}
    /\ threadAt \in [Threads -> ThreadSteps]
    /\ lease \in [Threads -> Conns \cup {NoConn}]

PoolInv == PoolTypes /\ Shape /\ Apart /\ Counted /\ LeasesCounted

LEMMA PoolInitially == PoolInit => PoolInv
  <1> SUFFICES ASSUME PoolInit PROVE PoolInv
    OBVIOUS
  <1> USE PoolAssumption DEF PoolInit
  <1>1. PoolTypes
    BY DEF PoolTypes, ThreadSteps
  <1>2. Readers = {} /\ Leased = {} /\ Holders = {}
    BY DEF Readers, Leased, Holders
  <1>3. Shape /\ Apart
    BY <1>2 DEF Shape, Apart, PooledOpen, ClosedForWrites
  <1>4. Counted /\ LeasesCounted
    BY <1>2, FS_EmptySet DEF Counted, LeasesCounted
  <1> QED  BY <1>1, <1>3, <1>4 DEF PoolInv

LEMMA PoolTypesStep == PoolInv /\ [PoolNext]_poolVars => PoolTypes'
  <1> SUFFICES ASSUME PoolInv, [PoolNext]_poolVars PROVE PoolTypes'
    OBVIOUS
  <1> USE PoolAssumption DEF PoolInv, PoolTypes, ThreadGoes, ThreadSteps
  <1>1. ASSUME NEW t \in Threads, Read(t) PROVE PoolTypes'
    <2>1. CASE ReadStart(t) \/ PoolReady(t) \/ Refill(t) \/ RefillFail(t) \/ AcquirePermit(t)
      BY <2>1 DEF ReadStart, PoolReady, Refill, RefillFail, AcquirePermit
    <2>2. CASE LeasePooled(t) \/ LeaseNew(t) \/ LeaseFail(t)
      BY <2>2 DEF LeasePooled, LeaseNew, LeaseFail
    <2>3. CASE ReadEnd(t)
      <3>1. lease[t] \in Conns
        BY <2>3 DEF ReadEnd, Apart, Readers
      <3> QED  BY <2>3, <3>1 DEF ReadEnd
    <2> QED  BY <1>1, <2>1, <2>2, <2>3 DEF Read
  <1>2. ASSUME NEW t \in Threads, Write(t) PROVE PoolTypes'
    BY <1>2 DEF Write, WriteStart, WriteBusy, WriteEnd, EnsureWriter
  <1>3. CASE Close
    BY <1>3 DEF Close
  <1>4. CASE UNCHANGED poolVars
    BY <1>4 DEF poolVars
  <1> QED  BY <1>1, <1>2, <1>3, <1>4 DEF PoolNext

LEMMA ShapeStep == PoolInv /\ [PoolNext]_poolVars => Shape'
  <1> SUFFICES ASSUME PoolInv, [PoolNext]_poolVars PROVE Shape'
    OBVIOUS
  <1> USE PoolAssumption
      DEF PoolInv, PoolTypes, Shape, ThreadGoes, ThreadSteps, PooledOpen, ClosedForWrites
  <1>1. ASSUME NEW t \in Threads, Read(t) PROVE Shape'
    <2>1. CASE ReadStart(t) \/ PoolReady(t) \/ AcquirePermit(t) \/ LeaseFail(t)
      BY <2>1 DEF ReadStart, PoolReady, AcquirePermit, LeaseFail
    <2>2. CASE Refill(t) \/ RefillFail(t)
      BY <2>2 DEF Refill, RefillFail
    <2>3. CASE LeasePooled(t) \/ LeaseNew(t)
      BY <2>3 DEF LeasePooled, LeaseNew
    <2>4. CASE ReadEnd(t)
      <3>1. lease[t] \in openConns \ (pool \cup {writer})
        BY <2>4 DEF ReadEnd, Apart, Readers
      <3> QED  BY <2>4, <3>1 DEF ReadEnd
    <2> QED  BY <1>1, <2>1, <2>2, <2>3, <2>4 DEF Read
  <1>2. ASSUME NEW t \in Threads, Write(t) PROVE Shape'
    <2>1. CASE WriteStart(t)
      BY <2>1 DEF WriteStart, EnsureWriter
    <2>2. CASE WriteBusy(t)
      BY <2>2 DEF WriteBusy, EnsureWriter
    <2>3. CASE WriteEnd(t)
      BY <2>3 DEF WriteEnd
    <2> QED  BY <1>2, <2>1, <2>2, <2>3 DEF Write
  <1>3. CASE Close
    BY <1>3 DEF Close
  <1>4. CASE UNCHANGED poolVars
    BY <1>4 DEF poolVars
  <1> QED  BY <1>1, <1>2, <1>3, <1>4 DEF PoolNext

LEMMA ApartStep == PoolInv /\ [PoolNext]_poolVars => Apart'
  <1> SUFFICES ASSUME PoolInv, [PoolNext]_poolVars PROVE Apart'
    OBVIOUS
  <1> USE PoolAssumption DEF PoolInv, PoolTypes, Apart, Readers, ThreadGoes, ThreadSteps
  <1>1. ASSUME NEW t \in Threads, Read(t) PROVE Apart'
    <2>1. CASE ReadStart(t) \/ PoolReady(t) \/ AcquirePermit(t) \/ LeaseFail(t)
      BY <2>1 DEF ReadStart, PoolReady, AcquirePermit, LeaseFail
    <2>2. CASE Refill(t) \/ RefillFail(t)
      BY <2>2 DEF Refill, RefillFail
    <2>3. CASE LeasePooled(t)
      BY <2>3 DEF LeasePooled, Shape, PooledOpen
    <2>4. CASE LeaseNew(t)
      BY <2>4 DEF LeaseNew, Shape
    <2>5. CASE ReadEnd(t)
      BY <2>5 DEF ReadEnd
    <2> QED  BY <1>1, <2>1, <2>2, <2>3, <2>4, <2>5 DEF Read
  <1>2. ASSUME NEW t \in Threads, Write(t) PROVE Apart'
    <2>1. CASE WriteStart(t)
      BY <2>1 DEF WriteStart, EnsureWriter
    <2>2. CASE WriteBusy(t)
      BY <2>2 DEF WriteBusy, EnsureWriter
    <2>3. CASE WriteEnd(t)
      BY <2>3 DEF WriteEnd
    <2> QED  BY <1>2, <2>1, <2>2, <2>3 DEF Write
  <1>3. CASE Close
    BY <1>3 DEF Close
  <1>4. CASE UNCHANGED poolVars
    BY <1>4 DEF poolVars
  <1> QED  BY <1>1, <1>2, <1>3, <1>4 DEF PoolNext

-----------------------------------------------------------------------------
(* SqliteStoreRuntime: the counts                                          *)

LEMMA CountedStep == PoolInv /\ [PoolNext]_poolVars => Counted'
  <1> SUFFICES ASSUME PoolInv, [PoolNext]_poolVars PROVE Counted'
    OBVIOUS
  <1> USE PoolAssumption DEF PoolInv, PoolTypes, Counted, ThreadGoes, ThreadSteps
  <1>1. /\ IsFiniteSet(Holders) /\ Cardinality(Holders) \in Nat
        /\ IsFiniteSet(pool) /\ Cardinality(pool) \in Nat
    BY FS_CardinalityType
  <1>2. ASSUME NEW t \in Threads, ReadStart(t) \/ PoolReady(t) PROVE Counted'
    BY <1>2 DEF ReadStart, PoolReady, Holders
  <1>3. ASSUME NEW t \in Threads, Refill(t) \/ RefillFail(t) PROVE Counted'
    <2>1. PICK S \in SUBSET Conns : pool' = pool \cup S /\ Cardinality(S) <= PoolSize
      BY <1>3, FS_CardinalityType, FS_Subset DEF Refill, RefillFail
    <2>2. pool' = S
      BY <1>3, <2>1 DEF Refill, RefillFail, NeedsRefill
    <2>3. IsFiniteSet(S)
      BY FS_Subset
    <2> QED  BY <1>3, <2>1, <2>2, <2>3 DEF Refill, RefillFail, Holders
  <1>4. ASSUME NEW t \in Threads, AcquirePermit(t) PROVE Counted'
    <2>1. t \notin Holders /\ Holders' = Holders \cup {t}
      BY <1>4 DEF AcquirePermit, Holders
    <2>2. IsFiniteSet(Holders') /\ Cardinality(Holders') = Cardinality(Holders) + 1
      BY <1>1, <2>1, FS_AddElement
    <2> QED  BY <1>1, <1>4, <2>2 DEF AcquirePermit
  <1>5. ASSUME NEW t \in Threads, LeasePooled(t) PROVE Counted'
    <2>1. Holders' = Holders /\ permits' = permits
      BY <1>5 DEF LeasePooled, Holders
    <2>2. PICK c \in pool : pool' = pool \ {c}
      BY <1>5 DEF LeasePooled
    <2>3. IsFiniteSet(pool') /\ Cardinality(pool') = Cardinality(pool) - 1
      BY <1>1, <2>2, FS_RemoveElement
    <2> QED  BY <1>1, <2>1, <2>3
  <1>6. ASSUME NEW t \in Threads, LeaseNew(t) PROVE Counted'
    BY <1>6 DEF LeaseNew, Holders
  <1>7. ASSUME NEW t \in Threads, LeaseFail(t) PROVE Counted'
    <2>1. t \in Holders /\ Holders' = Holders \ {t}
      BY <1>7 DEF LeaseFail, Holders
    <2>2. IsFiniteSet(Holders') /\ Cardinality(Holders') = Cardinality(Holders) - 1
      BY <1>1, <2>1, FS_RemoveElement
    <2> QED  BY <1>1, <1>7, <2>2 DEF LeaseFail
  <1>8. ASSUME NEW t \in Threads, ReadEnd(t) PROVE Counted'
    <2>1. t \in Holders /\ Holders' = Holders \ {t}
      BY <1>8 DEF ReadEnd, Holders
    <2>2. IsFiniteSet(Holders') /\ Cardinality(Holders') = Cardinality(Holders) - 1
      BY <1>1, <2>1, FS_RemoveElement
    <2>3. IsFiniteSet(pool') /\ Cardinality(pool') <= PoolSize
      <3>1. CASE pool' = pool
        BY <1>1, <3>1
      <3>2. CASE pool' = pool \cup {lease[t]} /\ Cardinality(pool) < PoolSize
        <4>1. lease[t] \notin pool
          BY <1>8 DEF ReadEnd, Apart, Readers
        <4>2. IsFiniteSet(pool') /\ Cardinality(pool') = Cardinality(pool) + 1
          BY <1>1, <3>2, <4>1, FS_AddElement
        <4> QED  BY <1>1, <3>2, <4>2
      <3> QED  BY <1>8, <3>1, <3>2 DEF ReadEnd
    <2>4. permits' = permits + 1
      BY <1>8 DEF ReadEnd
    <2> QED  BY <1>1, <2>2, <2>3, <2>4
  <1>9. ASSUME NEW t \in Threads, Write(t) PROVE Counted'
    BY <1>1, <1>9 DEF Write, WriteStart, WriteBusy, WriteEnd, Holders
  <1>10. CASE Close
    <2>1. pool' = {} /\ Cardinality({}) = 0 /\ IsFiniteSet({})
      BY <1>10, FS_EmptySet DEF Close
    <2> QED  BY <1>1, <1>10, <2>1 DEF Close, Holders
  <1>11. CASE UNCHANGED poolVars
    BY <1>11 DEF poolVars, Holders
  <1> QED
    BY <1>2, <1>3, <1>4, <1>5, <1>6, <1>7, <1>8, <1>9, <1>10, <1>11 DEF PoolNext, Read

LEMMA LeasesStep == PoolInv /\ [PoolNext]_poolVars => LeasesCounted'
  <1> SUFFICES ASSUME PoolInv, [PoolNext]_poolVars PROVE LeasesCounted'
    OBVIOUS
  <1> USE PoolAssumption DEF PoolInv, PoolTypes, LeasesCounted, ThreadGoes, ThreadSteps
  <1>1. ASSUME UNCHANGED lease, Readers' = Readers PROVE LeasesCounted'
    BY <1>1 DEF Leased
  <1>2. ASSUME NEW t \in Threads, LeasePooled(t) \/ LeaseNew(t) PROVE LeasesCounted'
    <2>1. t \notin Readers /\ Readers' = Readers \cup {t}
      BY <1>2 DEF LeasePooled, LeaseNew, Readers
    <2>2. PICK c \in Conns : /\ lease' = [lease EXCEPT ![t] = c]
                             /\ c \in pool \/ c \notin openConns
      BY <1>2 DEF LeasePooled, LeaseNew
    <2>3. c \notin Leased
      BY <2>2 DEF Leased, Apart
    <2>4. Leased' = Leased \cup {c}
      BY <2>1, <2>2 DEF Leased, Readers
    <2>5. /\ IsFiniteSet(Readers') /\ Cardinality(Readers') = Cardinality(Readers) + 1
          /\ IsFiniteSet(Leased') /\ Cardinality(Leased') = Cardinality(Leased) + 1
      BY <2>1, <2>3, <2>4, FS_AddElement
    <2> QED  BY <2>5
  <1>3. ASSUME NEW t \in Threads, ReadEnd(t) PROVE LeasesCounted'
    <2>1. t \in Readers /\ Readers' = Readers \ {t}
      BY <1>3 DEF ReadEnd, Readers
    <2>2. lease[t] \in Leased /\ Leased' = Leased \ {lease[t]}
      BY <1>3, <2>1 DEF ReadEnd, Leased, Readers, Apart
    <2>3. /\ IsFiniteSet(Readers') /\ Cardinality(Readers') = Cardinality(Readers) - 1
          /\ IsFiniteSet(Leased') /\ Cardinality(Leased') = Cardinality(Leased) - 1
      BY <2>1, <2>2, FS_RemoveElement
    <2> QED  BY <2>3
  <1>4. ASSUME NEW t \in Threads,
               ReadStart(t) \/ PoolReady(t) \/ Refill(t) \/ RefillFail(t)
                   \/ AcquirePermit(t) \/ LeaseFail(t) \/ Write(t)
        PROVE  LeasesCounted'
    BY <1>1, <1>4 DEF ReadStart, PoolReady, Refill, RefillFail, AcquirePermit, LeaseFail,
       Write, WriteStart, WriteBusy, WriteEnd, Readers
  <1>5. CASE Close \/ UNCHANGED poolVars
    BY <1>1, <1>5 DEF Close, poolVars, Readers
  <1> QED  BY <1>2, <1>3, <1>4, <1>5 DEF PoolNext, Read

LEMMA PoolStep == PoolInv /\ [PoolNext]_poolVars => PoolInv'
  BY PoolTypesStep, ShapeStep, ApartStep, CountedStep, LeasesStep DEF PoolInv

-----------------------------------------------------------------------------
(* SqliteStoreRuntime: the theorems                                        *)

\* ConnectionsSafe: whatever opens, fails or closes beside it, a callback has
\* an open connection of its own, every permit is accounted for, at most twice
\* PoolSize read connections exist, and a closed runtime writes no more.
THEOREM SqliteConnections == PoolSpec => []ConnectionsSafe
  <1>1. PoolInv => ConnectionsSafe
    <2> SUFFICES ASSUME PoolInv PROVE ConnectionsSafe
      OBVIOUS
    <2> USE PoolAssumption DEF PoolInv
    <2>1. OwnConnection
      BY DEF OwnConnection, Apart, Shape, PoolTypes
    <2>2. PermitsConserved
      BY DEF PermitsConserved, Counted, Holders
    <2>3. BoundedReaders
      <3>1. Readers \subseteq Holders
        BY DEF Readers, Holders
      <3>2. Cardinality(Readers) <= PoolSize
        BY <3>1, FS_Subset, FS_CardinalityType DEF Counted, PoolTypes
      <3>3. /\ Cardinality(pool \cup Leased)
                 = Cardinality(pool) + Cardinality(Leased) - Cardinality(pool \cap Leased)
            /\ IsFiniteSet(pool \cap Leased)
        BY FS_Union, FS_Subset DEF Counted, LeasesCounted
      <3> QED
        BY <3>2, <3>3, FS_CardinalityType DEF BoundedReaders, Counted, LeasesCounted
    <2> QED  BY <2>1, <2>2, <2>3 DEF ConnectionsSafe, Shape
  <1> QED  BY <1>1, PoolInitially, PoolStep, PTL DEF PoolSpec

\* PoolTypeOK: every variable keeps its type, and the semaphore its range.
THEOREM SqlitePoolTyping == PoolSpec => []PoolTypeOK
  <1>1. PoolInv => PoolTypeOK
    <2> SUFFICES ASSUME PoolInv PROVE PoolTypeOK
      OBVIOUS
    <2>1. permits \in 0 .. PoolSize
      BY PoolAssumption, FS_CardinalityType DEF PoolInv, PoolTypes, Counted
    <2> QED  BY <2>1 DEF PoolInv, PoolTypes, PoolTypeOK
  <1> QED  BY <1>1, PoolInitially, PoolStep, PTL DEF PoolSpec

\* The steps PoolFairness asks of a thread can be taken: LeasePooled or, when
\* the pool is empty, LeaseFail; and ReadEnd.
HolderCanMove(t) ==
    threadAt[t] \in {"permit", "read"}

\* A permit is held on the way from "permit" to "read" to "idle" and is given
\* back with the last of these steps; no other thread, and no close, moves it.
HoldersMove ==
    \A t \in Threads : threadAt[t] \in {"permit", "read"} /\ threadAt'[t] # threadAt[t] =>
        \/ threadAt[t] = "permit" /\ threadAt'[t] = "read" /\ permits' = permits
        \/ threadAt'[t] = "idle" /\ permits' = permits + 1

\* WaitersNeverStuck: who waits for the semaphore finds a permit, or a thread
\* that holds one and can go on.
WaitersNeverStuck ==
    \A t \in Threads : threadAt[t] = "wait" =>
        permits > 0 \/ \E u \in Threads : HolderCanMove(u)

\* PermitsMoveOn: reads do not wait for each other for good.  Behind a
\* semaphore with no permit left there is always a reader that can go on, and
\* each of its at most two steps takes it nearer to giving its permit back.
\* PermitsComeBack needs no more than this and that such steps are taken.
THEOREM PermitsMoveOn == PoolSpec => []WaitersNeverStuck /\ [][HoldersMove]_poolVars
  <1>1. PoolInv => WaitersNeverStuck
    <2> SUFFICES ASSUME PoolInv, permits = 0 PROVE \E u \in Threads : HolderCanMove(u)
      BY DEF WaitersNeverStuck, PoolInv, PoolTypes
    <2>1. Cardinality(Holders) = PoolSize
      BY FS_CardinalityType, PoolAssumption DEF PoolInv, Counted
    <2>2. Holders # {}
      BY <2>1, FS_EmptySet, PoolAssumption
    <2> QED  BY <2>2 DEF Holders, HolderCanMove
  <1>2. PoolInv /\ [PoolNext]_poolVars => HoldersMove
    <2> SUFFICES ASSUME PoolInv, [PoolNext]_poolVars PROVE HoldersMove
      OBVIOUS
    <2> USE DEF PoolInv, PoolTypes, HoldersMove, ThreadGoes, ThreadSteps
    <2>1. ASSUME NEW t \in Threads, ReadStart(t) \/ PoolReady(t) \/ Refill(t) \/ RefillFail(t)
          PROVE  HoldersMove
      BY <2>1 DEF ReadStart, PoolReady, Refill, RefillFail
    <2>2. ASSUME NEW t \in Threads,
                 AcquirePermit(t) \/ LeasePooled(t) \/ LeaseNew(t) \/ LeaseFail(t)
          PROVE  HoldersMove
      BY <2>2 DEF AcquirePermit, LeasePooled, LeaseNew, LeaseFail
    <2>3. ASSUME NEW t \in Threads, ReadEnd(t) \/ Write(t) PROVE HoldersMove
      BY <2>3 DEF ReadEnd, Write, WriteStart, WriteBusy, WriteEnd
    <2>4. CASE Close \/ UNCHANGED poolVars
      BY <2>4 DEF Close, poolVars
    <2> QED  BY <2>1, <2>2, <2>3, <2>4 DEF PoolNext, Read
  <1> QED  BY <1>1, <1>2, PoolInitially, PoolStep, PTL DEF PoolSpec

-----------------------------------------------------------------------------
(* SqliteRuntimeRegistry                                                   *)

Users == {st \in Stores : held[st] # NoRuntime}

\* Until the daemon shuts down, the count is that of the stores, the runtime
\* they hold is the one in the table, and it stays open.
RegInv ==
    /\ mapped \in Runtimes \cup {NoRuntime}
    /\ held \in [Stores -> Runtimes \cup {NoRuntime}]
    /\ closing \subseteq used /\ openRuntimes \subseteq used /\ used \subseteq Runtimes
    /\ down \in BOOLEAN
    /\ down => mapped = NoRuntime /\ refs = 0
    /\ mapped # NoRuntime => mapped \in openRuntimes \ closing
    /\ ~down => /\ IsFiniteSet(Users)
                /\ refs = Cardinality(Users)
                /\ \A st \in Users : held[st] = mapped
                /\ Users = {} => mapped = NoRuntime

LEMMA RegInitially == RegInit => RegInv
  <1> SUFFICES ASSUME RegInit PROVE RegInv
    OBVIOUS
  <1>1. Users = {}
    BY DEF RegInit, Users
  <1> QED  BY <1>1, FS_EmptySet DEF RegInit, RegInv

LEMMA RegStep == RegInv /\ [RegNext]_regVars => RegInv'
  <1> SUFFICES ASSUME RegInv, [RegNext]_regVars PROVE RegInv'
    OBVIOUS
  <1> USE NoRuntimeAssumption DEF RegInv
  <1>1. ASSUME NEW st \in Stores, Acquire(st) PROVE RegInv'
    <2>1. PICK r \in Runtimes :
             /\ r = mapped \/ (mapped = NoRuntime /\ r \notin used)
             /\ mapped' = r
             /\ held' = [held EXCEPT ![st] = r]
             /\ openRuntimes' = IF r = mapped THEN openRuntimes ELSE openRuntimes \cup {r}
             /\ used' = used \cup {r}
      BY <1>1 DEF Acquire
    <2>2. st \notin Users /\ Users' = Users \cup {st}
      BY <1>1, <2>1 DEF Acquire, Users
    <2>3. mapped = NoRuntime => Users = {}
      BY <1>1 DEF Acquire, Users
    <2>4. refs' = Cardinality(Users) + 1
      BY <1>1, <2>3, FS_EmptySet DEF Acquire, CountFor
    <2>5. IsFiniteSet(Users') /\ Cardinality(Users') = refs'
      BY <1>1, <2>2, <2>4, FS_AddElement DEF Acquire
    <2>6. \A s \in Users' : held'[s] = mapped'
      BY <1>1, <2>1, <2>2, <2>3 DEF Acquire
    <2> QED  BY <1>1, <2>1, <2>2, <2>5, <2>6 DEF Acquire
  <1>2. ASSUME NEW st \in Stores, Release(st) PROVE RegInv'
    <2>1. st \in Users /\ Users' = Users \ {st}
      BY <1>2 DEF Release, Users
    <2>2. CASE down
      BY <1>2, <2>2 DEF Release
    <2>3. CASE ~down
      <3>1. refs \in Nat /\ refs > 0
        BY <2>1, <2>3, FS_CardinalityType, FS_EmptySet
      <3>2. IsFiniteSet(Users') /\ Cardinality(Users') = refs - 1 /\ refs' = refs - 1
        BY <1>2, <2>1, <2>3, <3>1, FS_RemoveElement DEF Release
      <3>3. Users' = {} <=> refs = 1
        BY <3>1, <3>2, FS_EmptySet
      <3>4. mapped # NoRuntime
        BY <2>1, <2>3 DEF Users
      <3>5. \A s \in Users' : held'[s] = mapped'
        BY <1>2, <2>1, <2>3, <3>1, <3>3 DEF Release
      <3> QED  BY <1>2, <2>3, <3>1, <3>2, <3>3, <3>4, <3>5 DEF Release
    <2> QED  BY <2>2, <2>3
  <1>3. CASE CloseAllRuntimes
    BY <1>3 DEF CloseAllRuntimes
  <1>4. ASSUME NEW r \in Runtimes, CloseRuntime(r) PROVE RegInv'
    BY <1>4 DEF CloseRuntime, Users
  <1>5. CASE UNCHANGED regVars
    BY <1>5 DEF regVars, Users
  <1> QED  BY <1>1, <1>2, <1>3, <1>4, <1>5 DEF RegNext

\* HeldOpen: until the daemon shuts down, for any stores that open and close
\* the file, the runtime a store works with is neither closed nor about to be.
THEOREM SqliteHeldOpen == RegSpec => []HeldOpen
  <1>1. RegInv => HeldOpen
    BY DEF RegInv, HeldOpen, Users
  <1> QED  BY <1>1, RegInitially, RegStep, PTL DEF RegSpec

\* RegTypeOK: every variable keeps its type; no store is counted twice.
THEOREM SqliteRegistryTyping == RegSpec => []RegTypeOK
  <1>1. RegInv => RegTypeOK
    <2> SUFFICES ASSUME RegInv PROVE RegTypeOK
      OBVIOUS
    <2>1. Users \subseteq Stores /\ Cardinality(Stores) \in Nat
      BY NoRuntimeAssumption, FS_CardinalityType DEF Users
    <2>2. refs \in 0 .. Cardinality(Stores)
      BY <2>1, NoRuntimeAssumption, FS_Subset, FS_CardinalityType DEF RegInv
    <2> QED  BY <2>2 DEF RegInv, RegTypeOK
  <1> QED  BY <1>1, RegInitially, RegStep, PTL DEF RegSpec

-----------------------------------------------------------------------------
(* The three together, as the run checks them                              *)

\* A behaviour of the composition is one of each component, so that what is
\* proved of a component alone holds where the run checks it.
THEOREM DatabasesCompose == DatabasesSpec => PoolSpec /\ RegSpec /\ Spec
  <1>1. DatabasesInit => PoolInit /\ RegInit /\ Init
    BY DEF DatabasesInit
  <1>2. [DatabasesNext]_databasesVars => [PoolNext]_poolVars /\ [RegNext]_regVars /\ [Next]_vars
    BY DEF DatabasesNext, databasesVars
  <1> QED  BY <1>1, <1>2, PTL DEF DatabasesSpec, PoolSpec, RegSpec, Spec

\* DatabasesTypeOK: the variables of the SQLite runtime, its registry and the
\* checkpointer pool keep their types.
THEOREM DatabasesTyping == DatabasesSpec => []DatabasesTypeOK
  <1>1. DatabasesSpec => [](part \in DatabasesParts)
    <2>1. DatabasesInit => part \in DatabasesParts
      BY DEF DatabasesInit
    <2>2. part \in DatabasesParts /\ [DatabasesNext]_databasesVars => (part \in DatabasesParts)'
      BY DEF DatabasesNext, databasesVars
    <2> QED  BY <2>1, <2>2, PTL DEF DatabasesSpec
  <1> QED
    BY <1>1, DatabasesCompose, SqlitePoolTyping, SqliteRegistryTyping, SetupTyping, PTL
       DEF DatabasesTypeOK
=============================================================================
