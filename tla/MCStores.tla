------------------------------ MODULE MCStores ------------------------------
(***************************************************************************)
(* The Postgres store, the Postgres pools, the thread records and the local*)
(* files, for TLC.                                                         *)
(* They share no state: a behaviour exercises one of them (part) and leaves*)
(* the others as they begin, so that the states of the run are those of    *)
(* each component.                                                         *)
(***************************************************************************)
EXTENDS PostgresStore, PostgresPools, Durability, LocalFilesystem

VARIABLE part

StoresParts == {"postgres store", "postgres pools", "durability", "filesystem"}

\* StoresTypeOK: the variables of each component keep their types.
StoresTypeOK ==
    /\ part \in StoresParts
    /\ PgTypeOK
    /\ PoolsTypeOK
    /\ DurTypeOK
    /\ FsTypeOK

StoresInit ==
    /\ part \in StoresParts
    /\ PgInit
    /\ PoolsInit
    /\ DurInit
    /\ FsInit

StoresNext ==
    \/ part = "postgres store" /\ PgNext
       /\ UNCHANGED <<part, poolsVars, durVars, fsVars>>
    \/ part = "postgres pools" /\ PoolsNext
       /\ UNCHANGED <<part, pgVars, durVars, fsVars>>
    \/ part = "durability" /\ DurNext
       /\ UNCHANGED <<part, pgVars, poolsVars, fsVars>>
    \/ part = "filesystem" /\ FsNext
       /\ UNCHANGED <<part, pgVars, poolsVars, durVars>>

storesVars == <<part, pgVars, poolsVars, durVars, fsVars>>

\* The fairness of each component, which asks nothing of one at rest.
StoresSpec == StoresInit /\ [][StoresNext]_storesVars
               /\ PgFairness
               /\ FsFairness

\* StoreCallsEnd: an operation of a Postgres store and a call that changes a
\* file end, although operations close each other's pools and calls wait for
\* two kinds of locks, some of them on the event loop.
StoreCallsEnd == StoreOpsEnd /\ FileCallsEnd
=============================================================================
