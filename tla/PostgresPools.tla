----------------------------- MODULE PostgresPools --------------------------
(***************************************************************************)
(* persistence/postgres_pool_registry.py, shared_metadata_pool.py and the  *)
(* stores that borrow a pool: the registry opens and closes the pools of   *)
(* the process, the shared metadata pool remembers one of them, or one it  *)
(* has made itself, and a store keeps the pool it was given.               *)
(*                                                                         *)
(* All of it runs on one event loop: a step is the code between two        *)
(* awaits.  Pools and registries are numbered as they are made, at most    *)
(* PgPoolLimit and RegLimit of them (bounds of the model).                 *)
(***************************************************************************)
EXTENDS Naturals, FiniteSets

CONSTANTS Openers, Shutters, Borrowers, UsesVectors, PgPoolLimit, RegLimit, Nobody

ASSUME PoolsAssumption ==
    /\ PgPoolLimit \in Nat /\ RegLimit \in Nat
    /\ UsesVectors \in BOOLEAN
    /\ Nobody \notin Openers \cup Shutters
    /\ Openers \cap Shutters = {} /\ Borrowers \cap (Openers \cup Shutters) = {}

VARIABLES
    stand,      \* where each caller stands
    making,     \* the pool an opener is opening; 0 is none
    poolsLock,  \* who has _async_lock
    regOf,       \* the registry a caller has got
    pools,      \* _pools of every registry; 0 is none
    opened,     \* _opened of every registry
    registered, \* _registry, the process's instance; 0 is none
    registries, \* how many have been made
    sharedMeta,     \* _shared_metadata_pool
    given,      \* the pool of each borrowing store
    pgState,    \* of every pool made
    abandoned,  \* history: pools whose opening failed or was cancelled
    fallback    \* history: pools the shared metadata pool made itself

poolsVars == <<stand, making, poolsLock, regOf, pools, opened, registered, registries,
               sharedMeta, given, pgState, abandoned, fallback>>
instanceVars == <<registered, registries, regOf>>
borrowVars == <<sharedMeta, given, fallback>>

DbKeys == IF UsesVectors THEN {"metadata", "vectors"} ELSE {"metadata"}
Owners == Openers \cup Shutters
Ids == 1 .. PgPoolLimit
Regs == 1 .. RegLimit
IsOpen(p) == p # 0 /\ pgState[p] = "open"

PoolsTypeOK ==
    /\ stand \in [Owners \cup Borrowers -> {"new", "lock", "provision", "open", "close", "first", "second", "served", "error", "shut"}]
    /\ making \in 0 .. PgPoolLimit
    /\ poolsLock \in Owners \cup {Nobody}
    /\ regOf \in [Owners -> 0 .. RegLimit]
    /\ pools \in [Regs -> [DbKeys -> 0 .. PgPoolLimit]]
    /\ opened \in [Regs -> BOOLEAN]
    /\ registered \in 0 .. RegLimit /\ registries \in 0 .. RegLimit
    /\ sharedMeta \in 0 .. PgPoolLimit
    /\ given \in [Borrowers -> 0 .. PgPoolLimit]
    /\ pgState \in [Ids -> {"none", "made", "open", "closed"}]
    /\ abandoned \in SUBSET Ids /\ fallback \in SUBSET Ids

PoolsInit ==
    /\ stand = [u \in Owners \cup Borrowers |-> "new"]
    /\ making = 0
    /\ poolsLock = Nobody
    /\ regOf = [u \in Owners |-> 0]
    /\ pools = [r \in Regs |-> [k \in DbKeys |-> 0]]
    /\ opened = [r \in Regs |-> FALSE]
    /\ registered = 0 /\ registries = 0
    /\ sharedMeta = 0
    /\ given = [b \in Borrowers |-> 0]
    /\ pgState = [p \in Ids |-> "none"]
    /\ abandoned = {} /\ fallback = {}

Gets(u, next) == stand' = [stand EXCEPT ![u] = next]
FreshPools == {p \in Ids : pgState[p] = "none" /\ \A q \in 1 .. p - 1 : pgState[q] # "none"}
UnlockPools(u) == poolsLock' = IF poolsLock = u THEN Nobody ELSE poolsLock
-----------------------------------------------------------------------------
(* get_instance makes the process's registry when there is none.           *)

GetInstance ==
    /\ registries + (IF registered = 0 THEN 1 ELSE 0) <= RegLimit
    /\ registries' = IF registered = 0 THEN registries + 1 ELSE registries
    /\ registered' = IF registered = 0 THEN registries' ELSE registered

\* open_all of the instance, which has to wait for _async_lock.
AskOpen(u) ==
    /\ stand[u] = "new"
    /\ GetInstance
    /\ regOf' = [regOf EXCEPT ![u] = registered']
    /\ Gets(u, "lock")
    /\ UNCHANGED <<making, poolsLock, pools, opened, borrowVars, pgState, abandoned>>

ToOpen(r) == {k \in DbKeys : ~IsOpen(pools[r][k])}

\* All pools it has are open already, or the databases are provisioned.
OpenAll(u) ==
    /\ stand[u] = "lock" /\ poolsLock = Nobody
    /\ IF opened[regOf[u]] /\ \A k \in ToOpen(regOf[u]) : pools[regOf[u]][k] = 0
       THEN Gets(u, "served") /\ UNCHANGED poolsLock
       ELSE Gets(u, "provision") /\ poolsLock' = u
    /\ UNCHANGED <<making, pools, opened, instanceVars, borrowVars, pgState, abandoned>>

\* Mutant of OpenPool: pools that are open are opened again.
OpenPoolAgain(u) ==
    /\ stand[u] = "provision"
    /\ \E p \in FreshPools : pgState' = [pgState EXCEPT ![p] = "made"] /\ making' = p
    /\ Gets(u, "open")
    /\ UNCHANGED <<poolsLock, pools, opened, instanceVars, borrowVars, abandoned>>

\* _open_pool: only a key whose pool is missing or closed.
OpenPool(u) ==
    /\ stand[u] = "provision" /\ ToOpen(regOf[u]) # {}
    /\ \E p \in FreshPools : pgState' = [pgState EXCEPT ![p] = "made"] /\ making' = p
    /\ Gets(u, "open")
    /\ UNCHANGED <<poolsLock, pools, opened, instanceVars, borrowVars, abandoned>>

\* Opened, and its schema initialised: only now it is stored.
PoolOpened(u) ==
    /\ stand[u] = "open"
    /\ LET k == IF "metadata" \in ToOpen(regOf[u]) THEN "metadata" ELSE "vectors"
       IN  pools' = [pools EXCEPT ![regOf[u]][k] = making]
    /\ pgState' = [pgState EXCEPT ![making] = "open"]
    /\ making' = 0
    /\ Gets(u, "provision")
    /\ UNCHANGED <<poolsLock, opened, instanceVars, borrowVars, abandoned>>

AllOpened(u) ==
    /\ stand[u] = "provision" /\ ToOpen(regOf[u]) = {}
    /\ opened' = [opened EXCEPT ![regOf[u]] = TRUE]
    /\ Gets(u, "served") /\ UnlockPools(u)
    /\ UNCHANGED <<making, pools, instanceVars, borrowVars, pgState, abandoned>>

\* Provisioning, opening or the schema fails or is cancelled: a pool that
\* has been opened is neither stored nor closed.
OpenAllFails(u) ==
    /\ stand[u] \in {"provision", "open"}
    /\ IF making # 0
       THEN pgState' = [pgState EXCEPT ![making] = "open"] /\ abandoned' = abandoned \cup {making}
       ELSE UNCHANGED <<pgState, abandoned>>
    /\ making' = 0
    /\ Gets(u, "error") /\ UnlockPools(u)
    /\ UNCHANGED <<pools, opened, instanceVars, borrowVars>>
-----------------------------------------------------------------------------
(* close_all of the instance there is                                      *)

AskClose(u) ==
    /\ stand[u] = "new" /\ registered # 0
    /\ regOf' = [regOf EXCEPT ![u] = registered]
    /\ Gets(u, "lock")
    /\ UNCHANGED <<making, poolsLock, pools, opened, registered, registries, borrowVars, pgState, abandoned>>

CloseAllPools(u) ==
    /\ stand[u] = "lock" /\ poolsLock = Nobody
    /\ poolsLock' = u
    /\ Gets(u, "close")
    /\ UNCHANGED <<making, pools, opened, instanceVars, borrowVars, pgState, abandoned>>

StillOpen(u) == {k \in DbKeys : IsOpen(pools[regOf[u]][k])}

\* One pool after the other.
CloseOnePool(u) ==
    /\ stand[u] = "close"
    /\ \E k \in StillOpen(u) : pgState' = [pgState EXCEPT ![pools[regOf[u]][k]] = "closed"]
    /\ UNCHANGED <<stand, making, poolsLock, pools, opened, instanceVars, borrowVars, abandoned>>

\* An opener may be waiting with this registry, which the process forgets.
AllClosed(u) ==
    /\ stand[u] = "close" /\ StillOpen(u) = {}
    /\ pools' = [pools EXCEPT ![regOf[u]] = [k \in DbKeys |-> 0]]
    /\ opened' = [opened EXCEPT ![regOf[u]] = FALSE]
    /\ registered' = IF registered = regOf[u] THEN 0 ELSE registered
    /\ Gets(u, "served") /\ UnlockPools(u)
    /\ UNCHANGED <<making, regOf, registries, borrowVars, pgState, abandoned>>
-----------------------------------------------------------------------------
(* SharedMetadataPool and the stores that borrow                           *)

\* The open metadata pool of a registry, or 0.
MetadataOf(r) == IF r # 0 /\ IsOpen(pools[r]["metadata"]) THEN pools[r]["metadata"] ELSE 0

\* get_or_create_pool: what is remembered, then the registry's open pool,
\* then a pool of its own, which nobody opens yet.
Borrow(b) ==
    /\ stand[b] = "new"
    /\ IF sharedMeta # 0
       THEN UNCHANGED <<sharedMeta, fallback, registered, registries, pgState>>
       ELSE /\ GetInstance
            /\ IF MetadataOf(registered') # 0
               THEN sharedMeta' = MetadataOf(registered') /\ UNCHANGED <<fallback, pgState>>
               ELSE \E p \in FreshPools : /\ sharedMeta' = p
                                      /\ fallback' = fallback \cup {p}
                                      /\ pgState' = [pgState EXCEPT ![p] = "made"]
    /\ given' = [given EXCEPT ![b] = sharedMeta']
    /\ Gets(b, "first")
    /\ UNCHANGED <<making, poolsLock, regOf, pools, opened, abandoned>>

\* ensure_open opens a pool that has never been open and leaves a closed one.
Prepared(p) == [pgState EXCEPT ![p] = IF @ = "made" THEN "open" ELSE @]

\* The operation of a store in shared mode succeeds in an open pool ...
UsePool(b) ==
    /\ stand[b] \in {"first", "second"}
    /\ pgState[given[b]] # "closed"
    /\ pgState' = Prepared(given[b])
    /\ Gets(b, "served")
    /\ UNCHANGED <<making, poolsLock, pools, opened, instanceVars, borrowVars, abandoned>>

\* ... after an error it takes the registry's pool, if that is open, makes
\* it the shared one, and tries once more; a pool of its own, which it had
\* opened, stays behind.
Rebind(b) ==
    /\ stand[b] = "first"
    /\ LET fresh == MetadataOf(registered)
           p == IF fresh # 0 THEN fresh ELSE given[b]
       IN  /\ given' = [given EXCEPT ![b] = p]
           /\ sharedMeta' = IF fresh # 0 THEN fresh ELSE sharedMeta
    /\ pgState' = Prepared(given[b])
    /\ Gets(b, "second")
    /\ UNCHANGED <<making, poolsLock, pools, opened, instanceVars, fallback, abandoned>>

\* Any error in the second attempt, another one in the first.
UseFails(b) ==
    /\ stand[b] \in {"first", "second"}
    /\ Gets(b, "error")
    /\ UNCHANGED <<making, poolsLock, pools, opened, instanceVars, borrowVars, pgState, abandoned>>

\* Mutant of CloseStore: the store closes the pool it has been given.
CloseStoreOwned(b) ==
    /\ stand[b] \in {"served", "error"}
    /\ pgState' = [pgState EXCEPT ![given[b]] = "closed"]
    /\ Gets(b, "shut")
    /\ UNCHANGED <<making, poolsLock, pools, opened, instanceVars, borrowVars, abandoned>>

\* close() of the store: it does not own a pool it has been given, and closes
\* none.  (During an operation the call changes nothing, and is no step.)
CloseStore(b) ==
    /\ stand[b] \in {"served", "error"}
    /\ Gets(b, "shut")
    /\ UNCHANGED <<making, poolsLock, pools, opened, instanceVars, borrowVars, pgState, abandoned>>

\* close_shared_instance: forgets the pool, closes nothing.
ForgetShared ==
    /\ sharedMeta # 0
    /\ sharedMeta' = 0
    /\ UNCHANGED <<stand, making, poolsLock, pools, opened, instanceVars, given, fallback, pgState, abandoned>>

Opens(u) == AskOpen(u) \/ OpenAll(u) \/ OpenPool(u) \/ PoolOpened(u) \/ AllOpened(u) \/ OpenAllFails(u)
Shuts(u) == AskClose(u) \/ CloseAllPools(u) \/ CloseOnePool(u) \/ AllClosed(u)
Borrows(b) == Borrow(b) \/ UsePool(b) \/ Rebind(b) \/ UseFails(b) \/ CloseStore(b)

PoolsNext == \/ \E u \in Openers : Opens(u)
             \/ \E u \in Shutters : Shuts(u)
             \/ \E b \in Borrowers : Borrows(b)
             \/ ForgetShared

PoolsSpec == PoolsInit /\ [][PoolsNext]_poolsVars
-----------------------------------------------------------------------------
(* Properties *)

\* OpenedServes: from the end of open_all on a registry has an open pool for
\* every key, until a close_all of that same registry is at work.  No other
\* caller of open_all or close_all, no failed opening and no store that
\* recovers, is rebound or is closed takes one of its pools away.
OpenedServes ==
    \A r \in Regs : opened[r] =>
        \/ \A k \in DbKeys : IsOpen(pools[r][k])
        \/ \E u \in Shutters : stand[u] = "close" /\ regOf[u] = r

\* OnePoolPerKey: an open pool is the one a registry has for a key, or the
\* shared metadata pool made it, or its opening failed.
OnePoolPerKey ==
    \A p \in Ids : IsOpen(p) => \/ \E r \in Regs, k \in DbKeys : pools[r][k] = p
                                \/ p \in fallback \cup abandoned
=============================================================================
