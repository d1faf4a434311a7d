----------------------- MODULE SqliteRuntimeRegistry -----------------------
(***************************************************************************)
(* persistence/sqlite_runtime.py, SqliteRuntimeRegistry: the stores of a   *)
(* process that open one database file share a runtime, counted by path    *)
(* and closed with the last of them.  The entry leaves the table under the *)
(* registry's lock, the runtime is closed after it, by close_sync, which   *)
(* SqliteStoreRuntime details.  Files are independent of each other, so    *)
(* one is modelled; a store is closed once (its close has no guard) and no *)
(* store is opened after close_all, the daemon's shutdown.                 *)
(***************************************************************************)
EXTENDS Naturals, FiniteSets

CONSTANTS Stores,
          Runtimes,   \* identities of SqliteStoreRuntime objects
          NoRuntime

ASSUME NoRuntimeAssumption == NoRuntime \notin Runtimes /\ IsFiniteSet(Stores)

VARIABLES
    mapped,     \* _runtimes[path]
    refs,       \* _refcounts[path]
    openRuntimes, \* the runtimes made and not closed yet
    used,       \* every runtime ever made
    closing,    \* popped from the table, close_sync not yet done
    held,       \* the runtime each store works with
    down        \* close_all has been called

regVars == <<mapped, refs, openRuntimes, used, closing, held, down>>

RegTypeOK ==
    /\ mapped \in Runtimes \cup {NoRuntime}
    /\ refs \in 0 .. Cardinality(Stores)
    /\ openRuntimes \in SUBSET used
    /\ used \in SUBSET Runtimes
    /\ closing \in SUBSET Runtimes
    /\ held \in [Stores -> Runtimes \cup {NoRuntime}]
    /\ down \in BOOLEAN

RegInit ==
    /\ mapped = NoRuntime
    /\ refs = 0
    /\ openRuntimes = {}
    /\ used = {}
    /\ closing = {}
    /\ held = [st \in Stores |-> NoRuntime]
    /\ down = FALSE

\* Mutant of CountFor: a store that finds a runtime is not counted.
CountForFirst(found) == IF found THEN refs ELSE 1

\* The count once another store has acquired the runtime.
CountFor(found) == IF found THEN refs + 1 ELSE 1

Acquire(st) ==
    /\ ~down
    /\ held[st] = NoRuntime
    /\ \E r \in Runtimes :
          /\ r = mapped \/ (mapped = NoRuntime /\ r \notin used)
          /\ mapped' = r
          /\ held' = [held EXCEPT ![st] = r]
          /\ openRuntimes' = IF r = mapped THEN openRuntimes ELSE openRuntimes \cup {r}
          /\ used' = used \cup {r}
    /\ refs' = CountFor(mapped # NoRuntime)
    /\ UNCHANGED <<closing, down>>

\* Mutant of Release: the entry is dropped, the runtime is never closed.
ReleaseForgets(st) ==
    /\ held[st] # NoRuntime
    /\ held' = [held EXCEPT ![st] = NoRuntime]
    /\ refs' = IF refs > 0 THEN refs - 1 ELSE 0
    /\ mapped' = IF refs <= 1 THEN NoRuntime ELSE mapped
    /\ UNCHANGED <<openRuntimes, used, closing, down>>

\* Mutant of Release: the count is taken down even when the entry is gone.
ReleaseUnlisted(st) ==
    /\ held[st] # NoRuntime
    /\ held' = [held EXCEPT ![st] = NoRuntime]
    /\ refs' = refs - 1
    /\ closing' = IF refs = 1 THEN closing \cup {mapped} ELSE closing
    /\ mapped' = IF refs = 1 THEN NoRuntime ELSE mapped
    /\ UNCHANGED <<openRuntimes, used, down>>

\* release_sync: the count goes down; at zero the entry is popped.
Release(st) ==
    /\ held[st] # NoRuntime
    /\ held' = [held EXCEPT ![st] = NoRuntime]
    /\ refs' = IF refs > 0 THEN refs - 1 ELSE 0
    /\ mapped' = IF refs <= 1 THEN NoRuntime ELSE mapped
    /\ closing' = IF refs = 1 THEN closing \cup {mapped} ELSE closing
    /\ UNCHANGED <<openRuntimes, used, down>>

CloseAllRuntimes ==
    /\ ~down
    /\ down' = TRUE
    /\ closing' = closing \cup ({mapped} \ {NoRuntime})
    /\ mapped' = NoRuntime
    /\ refs' = 0
    /\ UNCHANGED <<openRuntimes, used, held>>

\* close_sync, outside the registry's lock.
CloseRuntime(r) ==
    /\ r \in closing
    /\ openRuntimes' = openRuntimes \ {r}
    /\ closing' = closing \ {r}
    /\ UNCHANGED <<mapped, refs, used, held, down>>

RegNext == \/ \E st \in Stores : Acquire(st) \/ Release(st)
        \/ CloseAllRuntimes
        \/ \E r \in Runtimes : CloseRuntime(r)

RegSpec == RegInit /\ [][RegNext]_regVars

\* A thread that has popped a runtime goes on to close it.
RegFairness == \A r \in Runtimes : WF_regVars(CloseRuntime(r))

RegFairSpec == RegSpec /\ RegFairness
-----------------------------------------------------------------------------
(* Properties *)

\* HeldOpen: until the daemon shuts down, no store's runtime is closed, or
\* about to be closed, by the release of another.
HeldOpen ==
    ~down => \A st \in Stores : held[st] # NoRuntime =>
        /\ held[st] = mapped
        /\ held[st] \in openRuntimes
        /\ held[st] \notin closing

\* LastClosed: a runtime nobody holds any more is closed in the end.
LastClosed ==
    \A r \in Runtimes :
        (r \in openRuntimes /\ r \notin {held[st] : st \in Stores})
            ~> (r \notin openRuntimes \/ r \in {held[st] : st \in Stores})
=============================================================================
