------------------------------ MODULE Durability ----------------------------
(***************************************************************************)
(* backends/durability/base.py: the lifecycle of threads over a key-value  *)
(* store, and the index of thread ids that lists and prefixes go through.  *)
(*                                                                         *)
(* Every load and save of the store is awaited and upserts one key, so a   *)
(* step is one of them with the code up to the next.  The process may stop *)
(* between any two.                                                        *)
(***************************************************************************)
EXTENDS Naturals, FiniteSets

CONSTANTS ThreadIds, Clients, NoRecord

Statuses == {"active", "suspended", "archived"}
Records == [status : Statuses, meta : SUBSET Clients]

ASSUME DurabilityAssumption == ThreadIds # {} /\ NoRecord \notin Records

VARIABLES
    doing,     \* the operation of each client
    target,    \* the thread it is about
    where,     \* the store access it comes to next
    record,    \* thread:<id> in the store: status and applied metadata updates
    index,     \* thread_index in the store
    seen,      \* what a client has loaded of a record
    seenIndex, \* what a client has loaded of the index
    found,     \* the threads a scan has found so far
    overlap    \* history: threads whose index updates ran into each other

durVars == <<doing, target, where, record, index, seen, seenIndex, found, overlap>>
storeVars == <<record, index>>

SetStatus == [resume |-> "active", suspend |-> "suspended", archive |-> "archived"]
Operations == {"create", "resume", "suspend", "archive", "update", "list"}
Ended == {"end", "stopped"}

DurTypeOK ==
    /\ doing \in [Clients -> Operations \cup {"none"}]
    /\ target \in [Clients -> ThreadIds]
    /\ where \in [Clients -> {"new", "save", "indexLoad", "indexSave", "load", "scan"} \cup Ended]
    /\ record \in [ThreadIds -> Records \cup {NoRecord}]
    /\ index \in SUBSET ThreadIds
    /\ seen \in [Clients -> Records \cup {NoRecord}]
    /\ seenIndex \in [Clients -> SUBSET ThreadIds]
    /\ found \in [Clients -> SUBSET ThreadIds]
    /\ overlap \in SUBSET ThreadIds

DurInit ==
    /\ doing = [c \in Clients |-> "none"]
    /\ target \in [Clients -> {CHOOSE t \in ThreadIds : TRUE}]
    /\ where = [c \in Clients |-> "new"]
    /\ record = [t \in ThreadIds |-> NoRecord]
    /\ index = {}
    /\ seen = [c \in Clients |-> NoRecord]
    /\ seenIndex = [c \in Clients |-> {}]
    /\ found = [c \in Clients |-> {}]
    /\ overlap = {}

To(c, next) == where' = [where EXCEPT ![c] = next]

\* Mutant of Begin: a thread is indexed before its record is there.
BeginIndexed(c, o, t) ==
    /\ where[c] = "new"
    /\ doing' = [doing EXCEPT ![c] = o]
    /\ target' = [target EXCEPT ![c] = t]
    /\ To(c, IF o \in {"create", "list"} THEN "indexLoad" ELSE "load")
    /\ UNCHANGED <<storeVars, seen, seenIndex, found, overlap>>

\* create_thread starts with a save, the others with a load.  A new id is
\* one nobody has, a draft's own id may come twice.
Begin(c, o, t) ==
    /\ where[c] = "new"
    /\ doing' = [doing EXCEPT ![c] = o]
    /\ target' = [target EXCEPT ![c] = t]
    /\ To(c, IF o = "create" THEN "save" ELSE IF o = "list" THEN "indexLoad" ELSE "load")
    /\ UNCHANGED <<storeVars, seen, seenIndex, found, overlap>>

\* An exact match, or for resume a look at the index for a prefix.
Load(c) ==
    /\ where[c] = "load"
    /\ seen' = [seen EXCEPT ![c] = record[target[c]]]
    /\ To(c, IF record[target[c]] # NoRecord THEN "save"
             ELSE IF doing[c] = "resume" /\ seenIndex[c] = {} THEN "indexLoad" ELSE "end")
    /\ UNCHANGED <<doing, target, storeVars, seenIndex, found, overlap>>

NewRecord(c) ==
    CASE doing[c] = "create" -> [status |-> "active", meta |-> {}]
      [] doing[c] = "update" -> [seen[c] EXCEPT !.meta = @ \cup {c}]
      [] OTHER -> [seen[c] EXCEPT !.status = SetStatus[doing[c]]]

Save(c) ==
    /\ where[c] = "save"
    /\ record' = [record EXCEPT ![target[c]] = NewRecord(c)]
    /\ To(c, IF doing[c] = "create" THEN "indexLoad" ELSE "end")
    /\ UNCHANGED <<doing, target, index, seen, seenIndex, found, overlap>>

Updating(c) == doing[c] = "create" /\ where[c] = "indexSave"

\* _update_thread_index, list_threads and _find_threads_by_prefix begin here.
IndexLoad(c) ==
    /\ where[c] = "indexLoad"
    /\ seenIndex' = [seenIndex EXCEPT ![c] = index]
    /\ To(c, IF doing[c] = "create" THEN "indexSave" ELSE "scan")
    /\ overlap' = IF doing[c] = "create" /\ \E d \in Clients : Updating(d)
                  THEN overlap \cup {target[c]} \cup {target[d] : d \in {e \in Clients : Updating(e)}}
                  ELSE overlap
    /\ UNCHANGED <<doing, target, storeVars, seen, found>>

\* Mutant of IndexSave: the index is started afresh.
IndexSaveAlone(c) ==
    /\ where[c] = "indexSave"
    /\ index' = {target[c]}
    /\ To(c, "end")
    /\ UNCHANGED <<doing, target, record, seen, seenIndex, found, overlap>>

IndexSave(c) ==
    /\ where[c] = "indexSave"
    /\ index' = seenIndex[c] \cup {target[c]}
    /\ To(c, "end")
    /\ UNCHANGED <<doing, target, record, seen, seenIndex, found, overlap>>

\* The records of the ids of the index, for a prefix of those that have it,
\* one load after the other.
Scan(c) ==
    /\ where[c] = "scan"
    /\ \E t \in seenIndex[c], matches \in BOOLEAN :
          /\ seenIndex' = [seenIndex EXCEPT ![c] = @ \ {t}]
          /\ found' = [found EXCEPT ![c] = IF matches /\ record[t] # NoRecord THEN @ \cup {t} ELSE @]
    /\ UNCHANGED <<doing, target, where, storeVars, seen, overlap>>

\* A list is filtered, a resume loads again the match it prefers.
Scanned(c) ==
    /\ where[c] = "scan" /\ seenIndex[c] = {}
    /\ IF doing[c] = "resume" /\ found[c] # {}
       THEN /\ \E t \in found[c] : target' = [target EXCEPT ![c] = t]
            /\ To(c, "load")
       ELSE To(c, "end") /\ UNCHANGED target
    /\ UNCHANGED <<doing, storeVars, seen, seenIndex, found, overlap>>

\* The process stops: what is in the store stays.
Stop ==
    /\ \E c \in Clients : where[c] \notin {"new"} \cup Ended
    /\ where' = [c \in Clients |-> IF where[c] \in {"new", "end"} THEN where[c] ELSE "stopped"]
    /\ UNCHANGED <<doing, target, storeVars, seen, seenIndex, found, overlap>>

DurStep(c) == Load(c) \/ Save(c) \/ IndexLoad(c) \/ IndexSave(c) \/ Scan(c) \/ Scanned(c)

DurNext == \/ \E c \in Clients : DurStep(c) \/ \E o \in Operations, t \in ThreadIds : Begin(c, o, t)
           \/ Stop

DurSpec == DurInit /\ [][DurNext]_durVars
-----------------------------------------------------------------------------
(* Properties *)

\* IndexBacked: every id of the index has its record, also after the process
\* has stopped anywhere, so that a list never drops an id silently.
IndexBacked == \A t \in index : record[t] # NoRecord

\* IndexedUnlessRaced: a thread whose creation has returned is listed, unless
\* another creation read the index while this one was updating it.
IndexedUnlessRaced ==
    \A c \in Clients : (doing[c] = "create" /\ where[c] = "end") =>
        (target[c] \in index \/ target[c] \in overlap)

\* IndexSound: the index and the records it leads to agree, but for two
\* creations that race.
IndexSound == IndexBacked /\ IndexedUnlessRaced
=============================================================================
