---------------------------- MODULE MCDatabases -----------------------------
(***************************************************************************)
(* The SQLite runtime, its registry and the checkpointer pool, for TLC.    *)
(* They share no state: a behaviour exercises one of them (part) and leaves*)
(* the others as they begin, so that the states of the run are those of    *)
(* each component.                                                         *)
(***************************************************************************)
EXTENDS SqliteStoreRuntime, SqliteRuntimeRegistry, SharedCheckpointerPool, TLC

CONSTANTS r1, r2, r3, pA, pB

TwoProcesses == (r1 :> pA) @@ (r2 :> pA) @@ (r3 :> pB)

VARIABLE part

DatabasesParts == {"sqlite pool", "sqlite registry", "checkpointer"}

\* DatabasesTypeOK: the variables of each component keep their types.
DatabasesTypeOK ==
    /\ part \in DatabasesParts
    /\ PoolTypeOK
    /\ RegTypeOK
    /\ TypeOK

DatabasesInit ==
    /\ part \in DatabasesParts
    /\ PoolInit
    /\ RegInit
    /\ Init

DatabasesNext ==
    \/ part = "sqlite pool" /\ PoolNext
       /\ UNCHANGED <<part, regVars, vars>>
    \/ part = "sqlite registry" /\ RegNext
       /\ UNCHANGED <<part, poolVars, vars>>
    \/ part = "checkpointer" /\ Next
       /\ UNCHANGED <<part, poolVars, regVars>>

databasesVars == <<part, poolVars, regVars, vars>>

\* The fairness of each component, which asks nothing of one at rest.
DatabasesSpec == DatabasesInit /\ [][DatabasesNext]_databasesVars
               /\ PoolFairness
               /\ RegFairness
               /\ Fairness
=============================================================================
