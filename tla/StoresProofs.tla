----------------------------- MODULE StoresProofs ---------------------------
(***************************************************************************)
(* Proofs about the components that MCStores checks together.              *)
(***************************************************************************)
EXTENDS MCStores, FiniteSetTheorems, TLAPS

-----------------------------------------------------------------------------
(* Durability                                                              *)

\* Of two creations that update the index at the same time, each is listed
\* among those that overlap, and so is every id only one of the two knows of.
Racing ==
    \A c, d \in Clients : (Updating(c) /\ Updating(d) /\ c # d) =>
        /\ target[c] \in overlap
        /\ seenIndex[c] \ seenIndex[d] \subseteq overlap

\* A creation that updates the index knows it, but for those that overlap.
Current ==
    \A c \in Clients : Updating(c) =>
        /\ index \ seenIndex[c] \subseteq overlap
        /\ seenIndex[c] \ index \subseteq overlap
        /\ \A t \in seenIndex[c] : record[t] # NoRecord

\* What an operation has in hand when it saves a record, and the record that
\* is there before its id goes into the index.
InHand ==
    \A c \in Clients :
        /\ where[c] = "indexSave" => doing[c] = "create"
        /\ where[c] \in {"load", "save"} => doing[c] \in Operations \ {"list"}
        /\ where[c] \in {"load", "scan"} => doing[c] # "create"
        /\ (where[c] = "save" /\ doing[c] # "create") => seen[c] \in Records
        /\ (where[c] \in {"indexLoad", "indexSave"} /\ doing[c] = "create")
               => record[target[c]] # NoRecord

DurInv == DurTypeOK /\ IndexSound /\ Racing /\ Current /\ InHand

LEMMA DurInitially == DurInit => DurInv
  BY DurabilityAssumption
     DEF DurInit, DurInv, DurTypeOK, IndexSound, IndexBacked, IndexedUnlessRaced, Racing,
         Current, InHand, Updating

\* A record that is saved is one.
LEMMA SavedRecord ==
    ASSUME DurInv, NEW c \in Clients, where[c] = "save"
    PROVE  NewRecord(c) \in Records
  <1>1. CASE doing[c] = "create"
    BY <1>1 DEF NewRecord, Records, Statuses
  <1>2. CASE doing[c] = "update"
    BY <1>2 DEF DurInv, InHand, NewRecord, Records
  <1>3. CASE doing[c] \in {"resume", "suspend", "archive"}
    BY <1>3 DEF DurInv, InHand, NewRecord, Records, Statuses, SetStatus
  <1> QED  BY <1>1, <1>2, <1>3 DEF DurInv, InHand, Operations

\* A step that changes neither the index nor what updates have seen of it.
LEMMA IndexKept ==
    ASSUME DurInv, UNCHANGED <<doing, index, seenIndex, overlap>>,
           \A c \in Clients : Updating(c)' => Updating(c) /\ target'[c] = target[c],
           \A c \in Clients : (doing[c] = "create" /\ where'[c] = "end")
               => where[c] = "end" /\ target'[c] = target[c],
           \A t \in ThreadIds : record[t] # NoRecord => record'[t] # NoRecord
    PROVE  IndexSound' /\ Racing' /\ Current'
  <1>1. IndexBacked' /\ Current'
    BY DEF DurInv, DurTypeOK, IndexSound, IndexBacked, Current
  <1>2. Racing' /\ IndexedUnlessRaced'
    BY DEF DurInv, DurTypeOK, IndexSound, IndexedUnlessRaced, Racing
  <1> QED  BY <1>1, <1>2 DEF IndexSound

LEMMA DurOperations ==
    ASSUME DurInv, NEW c \in Clients,
           \/ \E o \in Operations, t \in ThreadIds : Begin(c, o, t)
           \/ Load(c) \/ Save(c) \/ Scan(c) \/ Scanned(c)
    PROVE  DurInv'
  <1> USE DEF To, storeVars, Ended
  <1>0. DurTypeOK /\ InHand
    BY DEF DurInv
  <1>1. ASSUME NEW o \in Operations, NEW t \in ThreadIds, Begin(c, o, t) PROVE DurInv'
    <2>1. DurTypeOK'
      BY <1>0, <1>1 DEF Begin, DurTypeOK
    <2>2. InHand'
      BY <1>0, <1>1 DEF Begin, DurTypeOK, InHand
    <2>3. IndexBacked' /\ Current'
      BY <1>0, <1>1 DEF Begin, DurTypeOK, DurInv, IndexSound, IndexBacked, Current, Updating
    <2>4. IndexedUnlessRaced' /\ Racing'
      BY <1>0, <1>1 DEF Begin, DurTypeOK, DurInv, IndexSound, IndexedUnlessRaced, Racing, Updating
    <2> QED  BY <2>1, <2>2, <2>3, <2>4 DEF DurInv, IndexSound
  <1>2. CASE Load(c)
    <2>1. DurTypeOK' /\ InHand'
      BY <1>0, <1>2 DEF Load, DurTypeOK, InHand, Operations
    <2>2. UNCHANGED <<doing, target, record, index, seenIndex, overlap>>
      BY <1>2 DEF Load
    <2>3. \A d \in Clients : doing[d] = "create" => where'[d] = where[d]
      BY <1>0, <1>2 DEF Load, DurTypeOK, InHand
    <2>4. IndexSound' /\ Racing' /\ Current'
      BY <2>2, <2>3, IndexKept DEF Updating
    <2> QED  BY <2>1, <2>4 DEF DurInv
  <1>3. CASE Save(c)
    <2>1. NewRecord(c) \in Records /\ NoRecord \notin Records
      BY <1>3, SavedRecord, DurabilityAssumption DEF Save
    <2>2. DurTypeOK' /\ InHand'
      BY <1>0, <1>3, <2>1 DEF Save, DurTypeOK, InHand
    <2>3. IndexSound' /\ Racing' /\ Current'
      BY <1>0, <1>3, <2>1, IndexKept DEF Save, DurTypeOK, InHand, Updating
    <2> QED  BY <2>2, <2>3 DEF DurInv
  <1>4. CASE Scanned(c)
    <2>1. DurTypeOK' /\ InHand'
      BY <1>0, <1>4 DEF Scanned, DurTypeOK, InHand, Operations
    <2>2. UNCHANGED <<doing, record, index, seenIndex, overlap>>
      BY <1>4 DEF Scanned
    <2>3. \A d \in Clients : doing[d] = "create" => where'[d] = where[d] /\ target'[d] = target[d]
      BY <1>0, <1>4 DEF Scanned, DurTypeOK, InHand
    <2>4. IndexSound' /\ Racing' /\ Current'
      BY <2>2, <2>3, IndexKept DEF Updating
    <2> QED  BY <2>1, <2>4 DEF DurInv
  <1>5. CASE Scan(c)
    <2>1. DurTypeOK' /\ InHand'
      BY <1>0, <1>5 DEF Scan, DurTypeOK, InHand
    <2>2. \A d \in Clients : Updating(d) => seenIndex'[d] = seenIndex[d]
      BY <1>0, <1>5 DEF Scan, DurTypeOK, Updating
    <2>3. UNCHANGED <<doing, target, where, record, index, overlap>>
      BY <1>5 DEF Scan
    <2>4. Current' /\ IndexBacked'
      BY <2>2, <2>3 DEF DurInv, Current, IndexSound, IndexBacked, Updating
    <2>5. Racing' /\ IndexedUnlessRaced'
      BY <2>2, <2>3 DEF DurInv, Racing, IndexSound, IndexedUnlessRaced, Updating
    <2> QED  BY <2>1, <2>4, <2>5 DEF DurInv, IndexSound
  <1> QED  BY <1>1, <1>2, <1>3, <1>4, <1>5

\* A creation that reads the index is listed with those it overlaps.
LEMMA IndexIsRead ==
    ASSUME DurInv, NEW c \in Clients, IndexLoad(c)
    PROVE  DurInv'
  <1> USE DEF To, storeVars, Ended
  <1>0. DurTypeOK /\ InHand
    BY DEF DurInv
  <1>1. DurTypeOK' /\ InHand'
    BY <1>0 DEF IndexLoad, DurTypeOK, InHand
  <1>2. /\ UNCHANGED <<doing, target, record, index>> /\ overlap \subseteq overlap'
        /\ seenIndex' = [seenIndex EXCEPT ![c] = index]
        /\ \A d \in Clients \ {c} : where'[d] = where[d]
        /\ where[c] = "indexLoad" /\ where'[c] # "end"
        /\ where'[c] = "indexSave" => doing[c] = "create"
    BY <1>0 DEF IndexLoad, DurTypeOK
  <1>3. \A d \in Clients \ {c} : Updating(d)' => Updating(d) /\ seenIndex'[d] = seenIndex[d]
    BY <1>0, <1>2 DEF Updating, DurTypeOK
  <1>4. Updating(c)' => \A d \in Clients \ {c} : Updating(d) => {target[c], target[d]} \subseteq overlap'
    BY <1>2 DEF IndexLoad, Updating
  <1>5. IndexBacked' /\ IndexedUnlessRaced'
    BY <1>0, <1>2 DEF DurInv, IndexSound, IndexBacked, IndexedUnlessRaced
  <1>6. seenIndex'[c] = index /\ \A t \in index : record[t] # NoRecord
    BY <1>0, <1>2 DEF DurTypeOK, DurInv, IndexSound, IndexBacked
  <1>7. Current'
    <2> SUFFICES ASSUME NEW d \in Clients, Updating(d)'
                 PROVE  /\ index' \ seenIndex'[d] \subseteq overlap'
                        /\ seenIndex'[d] \ index' \subseteq overlap'
                        /\ \A t \in seenIndex'[d] : record'[t] # NoRecord
      BY DEF Current
    <2> QED  BY <1>2, <1>3, <1>6 DEF DurInv, Current
  <1>8. Racing'
    <2> SUFFICES ASSUME NEW d \in Clients, NEW e \in Clients, Updating(d)', Updating(e)', d # e
                 PROVE  target'[d] \in overlap' /\ seenIndex'[d] \ seenIndex'[e] \subseteq overlap'
      BY DEF Racing
    <2>1. CASE d # c /\ e # c
      BY <1>2, <1>3, <2>1 DEF DurInv, Racing
    <2>2. CASE d = c
      BY <1>2, <1>3, <1>4, <1>6, <2>2 DEF DurInv, Current
    <2>3. CASE e = c
      BY <1>2, <1>3, <1>4, <1>6, <2>3 DEF DurInv, Current
    <2> QED  BY <2>1, <2>2, <2>3
  <1> QED  BY <1>1, <1>5, <1>7, <1>8 DEF DurInv, IndexSound

\* What a creation writes over was put there by another that it overlaps.
LEMMA IndexIsSaved ==
    ASSUME DurInv, NEW c \in Clients, IndexSave(c)
    PROVE  DurInv'
  <1> USE DEF To, storeVars, Ended
  <1>0. DurTypeOK /\ InHand
    BY DEF DurInv
  <1>1. DurTypeOK' /\ InHand'
    BY <1>0 DEF IndexSave, DurTypeOK, InHand
  <1>2. /\ UNCHANGED <<doing, target, record, seenIndex, overlap>>
        /\ index' = seenIndex[c] \cup {target[c]}
        /\ \A d \in Clients \ {c} : where'[d] = where[d]
        /\ where'[c] = "end"
        /\ Updating(c) /\ record[target[c]] # NoRecord
    BY <1>0 DEF IndexSave, DurTypeOK, Updating, InHand
  <1>3. \A d \in Clients : Updating(d)' => Updating(d) /\ d # c
    BY <1>2 DEF Updating
  <1>4. index \ index' \subseteq overlap
    BY <1>2 DEF DurInv, Current
  <1>5. IndexBacked' /\ IndexedUnlessRaced'
    BY <1>2, <1>4 DEF DurInv, IndexSound, IndexBacked, IndexedUnlessRaced, Current
  <1>6. Racing'
    BY <1>2, <1>3 DEF DurInv, Racing
  <1>7. Current'
    <2> SUFFICES ASSUME NEW d \in Clients, Updating(d)'
                 PROVE  /\ index' \ seenIndex[d] \subseteq overlap
                        /\ seenIndex[d] \ index' \subseteq overlap
                        /\ \A t \in seenIndex[d] : record[t] # NoRecord
      BY <1>2 DEF Current
    <2>1. /\ Updating(d) /\ d # c /\ target[c] \in overlap
          /\ seenIndex[c] \ seenIndex[d] \subseteq overlap
          /\ seenIndex[d] \ seenIndex[c] \subseteq overlap
      BY <1>2, <1>3 DEF DurInv, Racing
    <2> QED  BY <1>2, <2>1 DEF DurInv, Current
  <1> QED  BY <1>1, <1>5, <1>6, <1>7 DEF DurInv, IndexSound

LEMMA DurNextKeeps == DurInv /\ [DurNext]_durVars => DurInv'
  <1> SUFFICES ASSUME DurInv, [DurNext]_durVars PROVE DurInv'
    OBVIOUS
  <1>1. CASE Stop
    <2>1. DurTypeOK' /\ InHand'
      BY <1>1 DEF Stop, DurInv, DurTypeOK, InHand, Ended, storeVars
    <2>2. IndexSound' /\ Racing' /\ Current'
      BY <1>1, IndexKept DEF Stop, DurInv, DurTypeOK, Ended, Updating, storeVars
    <2> QED  BY <2>1, <2>2 DEF DurInv
  <1>2. CASE UNCHANGED durVars
    BY <1>2 DEF durVars, DurInv, DurTypeOK, IndexSound, IndexBacked, IndexedUnlessRaced,
       Racing, Current, InHand, Updating
  <1> QED  BY <1>1, <1>2, DurOperations, IndexIsRead, IndexIsSaved DEF DurNext, DurStep

\* IndexSound: whatever operations run beside it and wherever the process
\* stops, every id of the index has its record, and a thread whose creation
\* has returned is listed, unless two creations raced.
THEOREM ThreadsIndexed == DurSpec => []IndexSound
  <1>1. DurInv => IndexSound
    BY DEF DurInv
  <1> QED  BY <1>1, DurInitially, DurNextKeeps, PTL DEF DurSpec

\* DurTypeOK: every variable keeps its type; what is saved is a record.
THEOREM ThreadsTyping == DurSpec => []DurTypeOK
  <1>1. DurInv => DurTypeOK
    BY DEF DurInv
  <1> QED  BY <1>1, DurInitially, DurNextKeeps, PTL DEF DurSpec

-----------------------------------------------------------------------------
(* PostgresStore                                                           *)

\* The operation that makes a pool is the one with the lock, and the store
\* has no pool meanwhile; whoever makes or closes a pool has it in hand.
MakerLocked ==
    /\ \A o \in StoreOps : opAt[o] = "open" <=> initLock = o
    /\ initLock # NoOp => ownPool = 0
    /\ \A u \in Users : opAt[u] \in {"open", "close"} => holds[u] \in PoolIds
    /\ \A k \in Closers : opAt[k] # "open"

PgInv == PgTypeOK /\ MakerLocked /\ PoolsAccounted

LEMMA PgInitially == PgInit => PgInv
  BY PgAssumption DEF PgInit, PgInv, PgTypeOK, MakerLocked, PoolsAccounted, Users, PoolIds, OpOver

LEMMA OneHasTheLock == PgInv => OwnPoolSound
  <1> SUFFICES ASSUME PgInv PROVE OwnPoolSound
    OBVIOUS
  <1> DEFINE makers == {o \in StoreOps : opAt[o] = "open"}
  <1>1. makers \subseteq {initLock} /\ (makers # {} => ownPool = 0)
    BY PgAssumption DEF PgInv, MakerLocked
  <1>2. makers = {} \/ makers = {initLock}
    BY <1>1
  <1>3. Cardinality(makers) \in {0, 1}
    BY <1>2, FS_EmptySet, FS_Singleton
  <1>4. Cardinality(makers) <= 1
    BY <1>3
  <1> QED  BY <1>1, <1>4 DEF PgInv, OwnPoolSound, OneMaker

LEMMA PgTypingKept == PgInv /\ [PgNext]_pgVars => PgTypeOK'
  <1> SUFFICES ASSUME PgInv, [PgNext]_pgVars PROVE PgTypeOK'
    OBVIOUS
  <1> USE DEF Users, PoolIds, OpOver, OpGoes, Hold, Becomes
  <1>0. PgTypeOK /\ MakerLocked /\ PoolLimit \in Nat /\ NoOp \notin StoreOps
    BY PgAssumption DEF PgInv
  <1>1. ASSUME NEW o \in StoreOps, Ensure(o) \/ RunOk(o) \/ RunLost(o) \/ RunFails(o) PROVE PgTypeOK'
    BY <1>0, <1>1 DEF PgTypeOK, Ensure, RunOk, RunLost, RunFails
  <1>2. ASSUME NEW o \in StoreOps, MakePool(o) PROVE PgTypeOK'
    BY <1>0, <1>2 DEF PgTypeOK, MakePool
  <1>3. ASSUME NEW o \in StoreOps, Opened(o) \/ OpenFails(o) PROVE PgTypeOK'
    <2>1. CASE Opened(o)
      BY <1>0, <2>1 DEF PgTypeOK, MakerLocked, Opened
    <2>2. CASE OpenFails(o)
      BY <1>0, <2>2 DEF PgTypeOK, MakerLocked, OpenFails
    <2> QED  BY <1>3, <2>1, <2>2
  <1>4. ASSUME NEW o \in StoreOps, OpCancelled(o) PROVE PgTypeOK'
    BY <1>0, <1>4 DEF PgTypeOK, MakerLocked, OpCancelled
  <1>5. ASSUME NEW o \in StoreOps, ResetPool(o) \/ ResetClosed(o) PROVE PgTypeOK'
    <2>1. CASE ResetPool(o)
      BY <1>0, <2>1 DEF PgTypeOK, ResetPool
    <2>2. CASE ResetClosed(o)
      BY <1>0, <2>2 DEF PgTypeOK, MakerLocked, ResetClosed
    <2> QED  BY <1>5, <2>1, <2>2
  <1>6. ASSUME NEW k \in Closers, CloseBegins(k) PROVE PgTypeOK'
    BY <1>0, <1>6 DEF PgTypeOK, CloseBegins
  <1>7. ASSUME NEW k \in Closers, CloseEnds(k) PROVE PgTypeOK'
    BY <1>0, <1>7 DEF PgTypeOK, MakerLocked, CloseEnds
  <1>8. CASE UNCHANGED pgVars
    BY <1>0, <1>8 DEF PgTypeOK, pgVars
  <1> QED  BY <1>1, <1>2, <1>3, <1>4, <1>5, <1>6, <1>7, <1>8 DEF PgNext, OpStep

LEMMA MakerKept == PgInv /\ [PgNext]_pgVars => MakerLocked'
  <1> SUFFICES ASSUME PgInv, [PgNext]_pgVars PROVE MakerLocked'
    OBVIOUS
  <1> USE PgAssumption DEF Users, PoolIds, OpOver, OpGoes, Hold, Becomes
  <1>0. PgTypeOK /\ MakerLocked
    BY DEF PgInv
  <1>1. ASSUME NEW o \in StoreOps, Ensure(o) \/ RunOk(o) \/ RunLost(o) \/ RunFails(o) PROVE MakerLocked'
    BY <1>0, <1>1 DEF PgTypeOK, MakerLocked, Ensure, RunOk, RunLost, RunFails
  <1>2. ASSUME NEW o \in StoreOps, MakePool(o) PROVE MakerLocked'
    BY <1>0, <1>2 DEF PgTypeOK, MakerLocked, MakePool
  <1>3. ASSUME NEW o \in StoreOps, Opened(o) \/ OpenFails(o) PROVE MakerLocked'
    BY <1>0, <1>3 DEF PgTypeOK, MakerLocked, Opened, OpenFails
  <1>4. ASSUME NEW o \in StoreOps, OpCancelled(o) PROVE MakerLocked'
    BY <1>0, <1>4 DEF PgTypeOK, MakerLocked, OpCancelled
  <1>5. ASSUME NEW o \in StoreOps, ResetPool(o) \/ ResetClosed(o) PROVE MakerLocked'
    BY <1>0, <1>5 DEF PgTypeOK, MakerLocked, ResetPool, ResetClosed
  <1>6. ASSUME NEW k \in Closers, CloseBegins(k) PROVE MakerLocked'
    BY <1>0, <1>6 DEF PgTypeOK, MakerLocked, CloseBegins
  <1>7. ASSUME NEW k \in Closers, CloseEnds(k) PROVE MakerLocked'
    BY <1>0, <1>7 DEF PgTypeOK, MakerLocked, CloseEnds
  <1>8. CASE UNCHANGED pgVars
    BY <1>0, <1>8 DEF MakerLocked, pgVars
  <1> QED  BY <1>1, <1>2, <1>3, <1>4, <1>5, <1>6, <1>7, <1>8 DEF PgNext, OpStep

LEMMA AccountKept == PgInv /\ [PgNext]_pgVars => PoolsAccounted'
  <1> SUFFICES ASSUME PgInv, [PgNext]_pgVars PROVE PoolsAccounted'
    OBVIOUS
  <1> USE PgAssumption DEF Users, PoolIds, OpOver, OpGoes, Hold, Becomes
  <1>0. PgTypeOK /\ MakerLocked /\ PoolsAccounted
    BY DEF PgInv
  <1>1. ASSUME NEW o \in StoreOps, Ensure(o) \/ RunOk(o) \/ RunLost(o) \/ RunFails(o) PROVE PoolsAccounted'
    BY <1>0, <1>1 DEF PgTypeOK, PoolsAccounted, Ensure, RunOk, RunLost, RunFails
  <1>2. ASSUME NEW o \in StoreOps, MakePool(o) PROVE PoolsAccounted'
    BY <1>0, <1>2 DEF PgTypeOK, PoolsAccounted, MakePool
  <1>3. ASSUME NEW o \in StoreOps, Opened(o) \/ OpenFails(o) PROVE PoolsAccounted'
    BY <1>0, <1>3 DEF PgTypeOK, MakerLocked, PoolsAccounted, Opened, OpenFails
  <1>4. ASSUME NEW o \in StoreOps, OpCancelled(o) PROVE PoolsAccounted'
    BY <1>0, <1>4 DEF PgTypeOK, MakerLocked, PoolsAccounted, OpCancelled
  <1>5. ASSUME NEW o \in StoreOps, ResetPool(o) \/ ResetClosed(o) PROVE PoolsAccounted'
    <2>1. CASE ResetPool(o)
      BY <1>0, <2>1 DEF PgTypeOK, PoolsAccounted, ResetPool
    <2>2. CASE ResetClosed(o)
      BY <1>0, <2>2 DEF PgTypeOK, MakerLocked, PoolsAccounted, ResetClosed
    <2> QED  BY <1>5, <2>1, <2>2
  <1>6. ASSUME NEW k \in Closers, CloseBegins(k) PROVE PoolsAccounted'
    BY <1>0, <1>6 DEF PgTypeOK, PoolsAccounted, CloseBegins
  <1>7. ASSUME NEW k \in Closers, CloseEnds(k) PROVE PoolsAccounted'
    BY <1>0, <1>7 DEF PgTypeOK, MakerLocked, PoolsAccounted, CloseEnds
  <1>8. CASE UNCHANGED pgVars
    BY <1>0, <1>8 DEF PoolsAccounted, pgVars
  <1> QED  BY <1>1, <1>2, <1>3, <1>4, <1>5, <1>6, <1>7, <1>8 DEF PgNext, OpStep

LEMMA PgInductive == PgInv /\ [PgNext]_pgVars => PgInv'
  BY PgTypingKept, MakerKept, AccountKept DEF PgInv

\* OwnPoolSound: for any number of operations and calls of close() of a store
\* that owns its pool, one pool at a time is made, never beside another, and
\* every open pool is the store's, in somebody's hand, or lost as described.
THEOREM StorePoolSound == PgSpec => []OwnPoolSound
  BY PgInitially, PgInductive, OneHasTheLock, PTL DEF PgSpec

\* PgTypeOK: every variable of a store and its operations keeps its type.
THEOREM StoreTyping == PgSpec => []PgTypeOK
  <1>1. PgInv => PgTypeOK
    BY DEF PgInv
  <1> QED  BY <1>1, PgInitially, PgInductive, PTL DEF PgSpec

-----------------------------------------------------------------------------
(* PostgresStore: operations end                                           *)

\* How far an operation, or a call of close(), has come.  The second attempt
\* of an operation lies behind the reset of the first.
PgPlaces == [new |-> 0, lock |-> 1, open |-> 2, run |-> 3, reset |-> 4, close |-> 5,
             ensure |-> 6, done |-> 10, failed |-> 10]
PgRank(u) == PgPlaces[opAt[u]]
             + (IF tries[u] = 2 /\ opAt[u] \in {"lock", "open", "run"} THEN 6 ELSE 0)

\* A step takes one of them further and leaves the others where they are.
PgMoves == \E u \in Users :
              /\ PgRank(u) < PgRank(u)'
              /\ \A v \in Users \ {u} : PgRank(v)' = PgRank(v)

\* What an operation needs for its next step: when it resets or makes a pool the
\* lock, and a number for the pool it makes.
PgCanMove(o) ==
    \/ opAt[o] \in {"ensure", "open", "run", "close"}
    \/ opAt[o] = "reset" /\ initLock = NoOp
    \/ /\ opAt[o] = "lock" /\ initLock = NoOp
       /\ \/ ownPool # 0
          \/ \E p \in PoolIds : poolState[p] = "none" /\ \A q \in 1 .. p - 1 : poolState[q] # "none"

\* StoreNeverStuck: an operation under way can go on, or waits for the lock of
\* one that can; and there is always a number for the pool it has to make.
StoreNeverStuck ==
    \A o \in StoreOps : opAt[o] \notin {"new"} \cup OpOver =>
        \/ PgCanMove(o)
        \/ initLock \in StoreOps /\ opAt[initLock] = "open"

\* Who comes back to _ensure_pool, or closes a pool for that, has had its first
\* attempt.
SecondTry == \A o \in StoreOps : opAt[o] \in {"ensure", "close"} => tries[o] = 2

\* The pools made have the first numbers; whoever has one in hand has one of
\* them; and there are no more than attempts that have made one.
Made == {p \in PoolIds : poolState[p] # "none"}
Attempts == StoreOps \X (1 .. 2)
MadeOne == {a \in Attempts : PgRank(a[1]) >= (IF a[2] = 1 THEN 2 ELSE 8)}
PoolsNumbered ==
    /\ \E n \in 0 .. PoolLimit : Made = 1 .. n
    /\ \A u \in Users : holds[u] # 0 => holds[u] \in Made
    /\ ownPool # 0 => ownPool \in Made
    /\ Cardinality(Made) <= Cardinality(MadeOne)

PgEnds == PgInv /\ SecondTry /\ PoolsNumbered

LEMMA PgEndsInitially == PgInit => PgEnds
  <1> SUFFICES ASSUME PgInit PROVE PgEnds
    OBVIOUS
  <1>1. PgInv
    BY PgInitially
  <1>2. SecondTry
    BY DEF PgInit, SecondTry, Users
  <1>3. Made = {} /\ 1 .. 0 = {}
    BY DEF PgInit, Made
  <1>4. MadeOne = {}
    BY DEF PgInit, MadeOne, Attempts, PgRank, PgPlaces, Users
  <1>5. \E n \in 0 .. PoolLimit : Made = 1 .. n
    <2>1. 0 \in 0 .. PoolLimit
      BY PgAssumption
    <2> QED  BY <1>3, <2>1
  <1>6. PoolsNumbered
    BY <1>3, <1>4, <1>5, FS_EmptySet DEF PgInit, PoolsNumbered
  <1> QED  BY <1>1, <1>2, <1>6 DEF PgEnds

LEMMA PgRankBound ==
    ASSUME PgTypeOK, NEW u \in Users
    PROVE  PgRank(u) \in 0 .. 10
  <1>1. /\ opAt[u] \in {"new", "ensure", "lock", "open", "run", "reset", "close", "done", "failed"}
        /\ tries[u] \in 1 .. 2
    BY DEF PgTypeOK, OpOver
  <1> QED  BY <1>1 DEF PgRank, PgPlaces

\* A rank is a number, and at a step that moves somebody none falls.
LEMMA RanksRise ==
    ASSUME PgInv, PgTypeOK', PgMoves
    PROVE  \A v \in Users : PgRank(v) \in Int /\ PgRank(v)' \in Int /\ PgRank(v) <= PgRank(v)'
  <1> SUFFICES ASSUME NEW v \in Users
               PROVE  PgRank(v) \in Int /\ PgRank(v)' \in Int /\ PgRank(v) <= PgRank(v)'
    OBVIOUS
  <1>1. PgRank(v) \in 0 .. 10
    BY PgRankBound DEF PgInv
  <1>2. PgRank(v)' \in 0 .. 10
    <2>1. /\ opAt'[v] \in {"new", "ensure", "lock", "open", "run", "reset", "close", "done", "failed"}
          /\ tries'[v] \in 1 .. 2
      BY DEF PgTypeOK, OpOver
    <2> QED  BY <2>1 DEF PgRank, PgPlaces
  <1> QED  BY <1>1, <1>2 DEF PgMoves

\* Every step is one of a single operation or call, which goes on or ends.
LEMMA PgMovesOn ==
    ASSUME PgInv, SecondTry, PgNext
    PROVE  PgMoves
  <1> USE DEF PgRank, PgPlaces, OpOver, OpGoes, Users, PgMoves
  <1>0. PgTypeOK
    BY DEF PgInv
  <1>1. ASSUME NEW o \in StoreOps, Ensure(o) PROVE PgMoves
    BY <1>0, <1>1 DEF PgTypeOK, SecondTry, Ensure
  <1>2. ASSUME NEW o \in StoreOps, MakePool(o) PROVE PgMoves
    BY <1>0, <1>2 DEF PgTypeOK, MakePool
  <1>3. ASSUME NEW o \in StoreOps, Opened(o) \/ OpenFails(o) \/ OpCancelled(o) PROVE PgMoves
    BY <1>0, <1>3 DEF PgTypeOK, Opened, OpenFails, OpCancelled
  <1>4. ASSUME NEW o \in StoreOps, RunOk(o) \/ RunLost(o) \/ RunFails(o) PROVE PgMoves
    BY <1>0, <1>4 DEF PgTypeOK, RunOk, RunLost, RunFails
  <1>5. ASSUME NEW o \in StoreOps, ResetPool(o) \/ ResetClosed(o) PROVE PgMoves
    BY <1>0, <1>5 DEF PgTypeOK, ResetPool, ResetClosed
  <1>6. ASSUME NEW k \in Closers, CloseBegins(k) \/ CloseEnds(k) PROVE PgMoves
    BY <1>0, <1>6 DEF PgTypeOK, CloseBegins, CloseEnds
  <1> HIDE DEF PgMoves
  <1> QED  BY <1>1, <1>2, <1>3, <1>4, <1>5, <1>6 DEF PgNext, OpStep

LEMMA SecondTryKept ==
    ASSUME PgInv, SecondTry, [PgNext]_pgVars
    PROVE  SecondTry'
  <1> USE DEF SecondTry, OpGoes, Users
  <1>0. PgTypeOK
    BY DEF PgInv
  <1>1. ASSUME NEW o \in StoreOps, \/ Ensure(o) \/ MakePool(o) \/ Opened(o) \/ OpenFails(o)
                                   \/ OpCancelled(o) \/ RunOk(o) \/ RunLost(o) \/ RunFails(o)
        PROVE  SecondTry'
    BY <1>0, <1>1 DEF PgTypeOK, Ensure, MakePool, Opened, OpenFails, OpCancelled, RunOk,
                      RunLost, RunFails
  <1>2. ASSUME NEW o \in StoreOps, ResetPool(o) \/ ResetClosed(o) PROVE SecondTry'
    BY <1>0, <1>2 DEF PgTypeOK, ResetPool, ResetClosed
  <1>3. ASSUME NEW k \in Closers, CloseBegins(k) \/ CloseEnds(k) PROVE SecondTry'
    BY <1>0, <1>3, PgAssumption DEF PgTypeOK, CloseBegins, CloseEnds
  <1>4. CASE UNCHANGED pgVars
    BY <1>4 DEF pgVars
  <1> QED  BY <1>1, <1>2, <1>3, <1>4 DEF PgNext, OpStep

\* Two attempts for each operation.
LEMMA AttemptsCounted == IsFiniteSet(Attempts) /\ Cardinality(Attempts) = 2 * Cardinality(StoreOps)
  <1>1. IsFiniteSet(1 .. 2) /\ Cardinality(1 .. 2) = 2
    <2>1. /\ IsFiniteSet(1 .. 2)
          /\ Cardinality(1 .. 2) = IF 1 > 2 THEN 0 ELSE 2 - 1 + 1
      BY FS_Interval, 1 \in Int, 2 \in Int
    <2> QED  BY <2>1
  <1>2. Cardinality(StoreOps) \in Nat
    BY PgAssumption, FS_CardinalityType
  <1>3. IsFiniteSet(Attempts) /\ Cardinality(Attempts) = Cardinality(StoreOps) * Cardinality(1 .. 2)
    BY <1>1, PgAssumption, FS_Product DEF Attempts
  <1> QED  BY <1>1, <1>2, <1>3

\* What is true of the numbers at a step that makes no pool.
LEMMA NoneMade ==
    ASSUME PgInv, PoolsNumbered, PgMoves, PgTypeOK',
           NEW u \in Users, NEW p \in PoolIds \cup {0},
           p = holds[u], p # 0 => p \in Made,
           poolState' = poolState \/ (p \in PoolIds /\ \E s \in {"open", "closed"} : Becomes(p, s)),
           ownPool' \in {ownPool, p, 0},
           \A v \in Users : holds'[v] \in {holds[v], ownPool}
    PROVE  PoolsNumbered'
  <1>1. Made' = Made
    <2>1. CASE poolState' = poolState
      BY <2>1 DEF Made
    <2>2. ASSUME p \in PoolIds, NEW s \in {"open", "closed"}, Becomes(p, s) PROVE Made' = Made
      <3>1. p \in Made
        BY <2>2 DEF PoolIds
      <3> QED  BY <2>2, <3>1 DEF PgInv, PgTypeOK, Made, Becomes
    <2> QED  BY <2>1, <2>2
  <1>2. \A v \in Users : holds'[v] # 0 => holds'[v] \in Made'
    BY <1>1 DEF PoolsNumbered
  <1>3. ownPool' # 0 => ownPool' \in Made'
    BY <1>1 DEF PoolsNumbered
  <1>4. MadeOne \subseteq MadeOne' /\ MadeOne' \subseteq Attempts
    <2>1. \A v \in Users : PgRank(v) \in Int /\ PgRank(v)' \in Int /\ PgRank(v) <= PgRank(v)'
      BY RanksRise
    <2> QED  BY <2>1 DEF MadeOne, Attempts, Users
  <1>5. Cardinality(MadeOne) <= Cardinality(MadeOne')
        /\ Cardinality(MadeOne) \in Nat /\ Cardinality(MadeOne') \in Nat
    <2>1. IsFiniteSet(MadeOne')
      BY <1>4, AttemptsCounted, FS_Subset
    <2>2. IsFiniteSet(MadeOne) /\ Cardinality(MadeOne) <= Cardinality(MadeOne')
      BY <1>4, <2>1, FS_Subset
    <2> QED  BY <2>1, <2>2, FS_CardinalityType
  <1>6. Cardinality(Made) \in Nat
    <2>1. PICK n \in 0 .. PoolLimit : Made = 1 .. n
      BY DEF PoolsNumbered
    <2>2. IsFiniteSet(Made)
      BY <2>1, FS_Interval, PgAssumption
    <2> QED  BY <2>2, FS_CardinalityType
  <1> QED  BY <1>1, <1>2, <1>3, <1>5, <1>6 DEF PoolsNumbered

\* A pool is made in an attempt that had made none.
LEMMA OneMade ==
    ASSUME PgInv, PoolsNumbered, PgTypeOK', PgMoves, NEW o \in StoreOps, MakePool(o), ownPool = 0
    PROVE  PoolsNumbered'
  <1> USE PgAssumption
  <1>1. PICK p \in PoolIds :
           /\ poolState[p] = "none" /\ \A q \in 1 .. p - 1 : poolState[q] # "none"
           /\ poolState' = [poolState EXCEPT ![p] = "made"] /\ holds' = [holds EXCEPT ![o] = p]
    BY DEF MakePool, Becomes, Hold
  <1>2. /\ opAt[o] = "lock" /\ opAt' = [opAt EXCEPT ![o] = "open"]
        /\ UNCHANGED <<tries, ownPool>>
    BY DEF MakePool, OpGoes
  <1>3. PICK n \in 0 .. PoolLimit : Made = 1 .. n
    BY DEF PoolsNumbered
  <1>4. n \in Nat /\ n < PoolLimit /\ p = n + 1
    <2>1. p \notin 1 .. n /\ \A q \in 1 .. p - 1 : q \in 1 .. n
      BY <1>1, <1>3 DEF Made, PoolIds
    <2>2. n + 1 \notin 1 .. p - 1
      BY <2>1, <1>3
    <2> QED  BY <1>3, <2>1, <2>2 DEF PoolIds
  <1>5. Made' = Made \cup {p}
    BY <1>1 DEF PgInv, PgTypeOK, Made
  <1>6. Made' = 1 .. n + 1 /\ n + 1 \in 0 .. PoolLimit
    BY <1>3, <1>4, <1>5
  <1>7. Cardinality(Made) = n /\ Cardinality(Made') = n + 1
    BY <1>3, <1>4, <1>6, FS_Interval
  <1>8. \A v \in Users : holds'[v] # 0 => holds'[v] \in Made'
    BY <1>1, <1>5 DEF PgInv, PgTypeOK, PoolsNumbered
  <1> DEFINE a == <<o, tries[o]>>
  <1>9. a \in Attempts /\ a \notin MadeOne /\ a \in MadeOne'
    <2>1. tries[o] \in 1 .. 2 /\ o \in Users /\ tries'[o] = tries[o] /\ opAt'[o] = "open"
      BY <1>2 DEF PgInv, PgTypeOK, Users
    <2>2. PgRank(o) = IF tries[o] = 1 THEN 1 ELSE 7
      BY <1>2, <2>1 DEF PgRank, PgPlaces
    <2>3. PgRank(o)' = IF tries[o] = 1 THEN 2 ELSE 8
      BY <2>1 DEF PgRank, PgPlaces
    <2> QED  BY <2>1, <2>2, <2>3 DEF MadeOne, Attempts
  <1>10. MadeOne \cup {a} \subseteq MadeOne' /\ MadeOne' \subseteq Attempts
    <2>1. \A v \in Users : PgRank(v) \in Int /\ PgRank(v)' \in Int /\ PgRank(v) <= PgRank(v)'
      BY RanksRise
    <2> QED  BY <1>9, <2>1 DEF MadeOne, Attempts, Users
  <1>11. /\ IsFiniteSet(MadeOne) /\ Cardinality(MadeOne \cup {a}) = Cardinality(MadeOne) + 1
         /\ Cardinality(MadeOne) \in Nat
    <2>1. IsFiniteSet(MadeOne)
      BY AttemptsCounted, FS_Subset DEF MadeOne
    <2> QED  BY <1>9, <2>1, FS_AddElement, FS_CardinalityType
  <1>12. /\ IsFiniteSet(MadeOne') /\ Cardinality(MadeOne') \in Nat
         /\ Cardinality(MadeOne \cup {a}) <= Cardinality(MadeOne')
    <2>1. IsFiniteSet(MadeOne')
      BY <1>10, AttemptsCounted, FS_Subset
    <2> QED  BY <1>10, <2>1, FS_Subset, FS_CardinalityType
  <1>13. Cardinality(Made') <= Cardinality(MadeOne')
    BY <1>4, <1>7, <1>11, <1>12 DEF PoolsNumbered
  <1> QED  BY <1>2, <1>6, <1>8, <1>13 DEF PoolsNumbered

LEMMA NumbersKept ==
    ASSUME PgInv, SecondTry, PoolsNumbered, [PgNext]_pgVars
    PROVE  PoolsNumbered'
  <1> USE DEF Users, OpGoes, Hold
  <1>0. PgTypeOK /\ PgTypeOK' /\ MakerLocked
    BY PgInductive DEF PgInv
  <1>1. ASSUME PgNext PROVE PgMoves
    BY <1>1, PgMovesOn
  <1>2. CASE UNCHANGED pgVars
    BY <1>2 DEF pgVars, PoolsNumbered, Made, MadeOne, PgRank
  <1>3. ASSUME NEW o \in StoreOps, OpStep(o) PROVE PgMoves
    BY <1>1, <1>3 DEF PgNext
  <1>4. ASSUME NEW u \in Users
        PROVE  holds[u] \in PoolIds \cup {0} /\ (holds[u] # 0 => holds[u] \in Made)
    BY <1>0 DEF PgTypeOK, PoolIds, PoolsNumbered
  <1>5. ASSUME NEW o \in StoreOps, \/ Ensure(o) \/ RunOk(o) \/ RunLost(o) \/ RunFails(o)
                                   \/ (MakePool(o) /\ ownPool # 0) \/ ResetPool(o)
        PROVE  PoolsNumbered'
    <2>1. OpStep(o) /\ poolState' = poolState /\ ownPool' \in {ownPool, 0}
      BY <1>5 DEF OpStep, Ensure, RunOk, RunLost, RunFails, MakePool, ResetPool
    <2>2. \A v \in Users : holds'[v] \in {holds[v], ownPool}
      BY <1>0, <1>5 DEF PgTypeOK, Ensure, RunOk, RunLost, RunFails, MakePool, ResetPool
    <2> QED  BY <1>0, <1>3, <1>4, <2>1, <2>2, NoneMade
  <1>6. ASSUME NEW o \in StoreOps, Opened(o) \/ OpenFails(o) \/ OpCancelled(o) \/ ResetClosed(o)
        PROVE  PoolsNumbered'
    <2>1. /\ OpStep(o) /\ \E s \in {"open", "closed"} : Becomes(holds[o], s)
          /\ ownPool' \in {ownPool, holds[o]} /\ holds' = holds /\ holds[o] \in PoolIds
      BY <1>0, <1>6 DEF OpStep, Opened, OpenFails, OpCancelled, ResetClosed, MakerLocked
    <2> QED  BY <1>0, <1>3, <1>4, <2>1, NoneMade
  <1>7. ASSUME NEW o \in StoreOps, MakePool(o), ownPool = 0 PROVE PoolsNumbered'
    BY <1>0, <1>3, <1>7, OneMade DEF OpStep
  <1>8. ASSUME NEW k \in Closers, CloseBegins(k) PROVE PoolsNumbered'
    <2>1. PgMoves /\ poolState' = poolState /\ ownPool' = ownPool
      BY <1>1, <1>8 DEF PgNext, CloseBegins
    <2>2. \A v \in Users : holds'[v] \in {holds[v], ownPool}
      BY <1>0, <1>8 DEF PgTypeOK, CloseBegins
    <2> QED  BY <1>0, <1>4, <2>1, <2>2, NoneMade
  <1>9. ASSUME NEW k \in Closers, CloseEnds(k) PROVE PoolsNumbered'
    <2>1. /\ PgMoves /\ \E s \in {"open", "closed"} : Becomes(holds[k], s)
          /\ ownPool' = 0 /\ holds' = holds /\ holds[k] \in PoolIds
      BY <1>0, <1>1, <1>9 DEF PgNext, CloseEnds, MakerLocked
    <2> QED  BY <1>0, <1>4, <2>1, NoneMade
  <1> QED  BY <1>2, <1>5, <1>6, <1>7, <1>8, <1>9 DEF PgNext, OpStep

LEMMA PgEndsInductive == PgEnds /\ [PgNext]_pgVars => PgEnds'
  BY PgInductive, SecondTryKept, NumbersKept DEF PgEnds

\* PgMoves: every step takes an operation, or a call of close(), forward,
\* through at most ten places and two attempts: resets and retries of
\* operations that close each other's pools come to an end.
THEOREM StoreMovesOn == PgSpec => [][PgMoves]_pgVars /\ [](\A u \in Users : PgRank(u) \in 0 .. 10)
  <1>1. PgEnds => \A u \in Users : PgRank(u) \in 0 .. 10
    BY PgRankBound DEF PgEnds, PgInv
  <1>2. PgEnds /\ [PgNext]_pgVars => [PgMoves]_pgVars
    BY PgMovesOn DEF PgEnds
  <1> QED  BY <1>1, <1>2, PgEndsInitially, PgEndsInductive, PTL DEF PgSpec

\* An operation that waits to make a pool has not made the one of its attempt,
\* so there are fewer pools than attempts.
LEMMA NumberLeft ==
    ASSUME PgEnds, NEW o \in StoreOps, opAt[o] = "lock"
    PROVE  \E p \in PoolIds : poolState[p] = "none" /\ \A q \in 1 .. p - 1 : poolState[q] # "none"
  <1> USE PgAssumption
  <1> DEFINE a == <<o, tries[o]>>
  <1>1. a \in Attempts /\ a \notin MadeOne
    <2>1. tries[o] \in 1 .. 2
      BY DEF PgEnds, PgInv, PgTypeOK, Users
    <2>2. PgRank(o) = IF tries[o] = 1 THEN 1 ELSE 7
      BY <2>1 DEF PgRank, PgPlaces
    <2> QED  BY <2>1, <2>2 DEF MadeOne, Attempts
  <1>2. MadeOne \subseteq Attempts
    BY DEF MadeOne
  <1>3. Cardinality(MadeOne) < Cardinality(Attempts) /\ Cardinality(MadeOne) \in Nat
    <2>1. IsFiniteSet(MadeOne) /\ Cardinality(MadeOne) <= Cardinality(Attempts)
          /\ Cardinality(MadeOne) # Cardinality(Attempts)
      BY <1>1, <1>2, AttemptsCounted, FS_Subset
    <2>2. Cardinality(MadeOne) \in Nat /\ Cardinality(Attempts) \in Nat
      BY <2>1, AttemptsCounted, FS_CardinalityType
    <2> QED  BY <2>1, <2>2
  <1>4. PICK n \in 0 .. PoolLimit : Made = 1 .. n
    BY DEF PgEnds, PoolsNumbered
  <1>5. Cardinality(Made) = n
    BY <1>4, FS_Interval
  <1>6. n < 2 * Cardinality(StoreOps) /\ Cardinality(StoreOps) \in Nat
    BY <1>3, <1>4, <1>5, AttemptsCounted, FS_CardinalityType DEF PgEnds, PoolsNumbered
  <1>7. n + 1 \in PoolIds /\ n + 1 \notin Made /\ \A q \in 1 .. (n + 1) - 1 : q \in Made
    BY <1>4, <1>6 DEF PoolIds
  <1> QED  BY <1>7 DEF Made

\* StoreNeverStuck: no operation is left waiting for a lock whose holder has
\* ended, or for a number: the bound PoolLimit cuts off no behaviour.
THEOREM StoreFreeOfDeadlock == PgSpec => []StoreNeverStuck
  <1>1. ASSUME PgEnds PROVE StoreNeverStuck
    <2> SUFFICES ASSUME NEW o \in StoreOps, opAt[o] \notin {"new"} \cup OpOver
                 PROVE  \/ PgCanMove(o)
                        \/ initLock \in StoreOps /\ opAt[initLock] = "open"
      BY DEF StoreNeverStuck
    <2>1. opAt[o] \in {"ensure", "lock", "open", "run", "reset", "close"}
      BY <1>1 DEF PgEnds, PgInv, PgTypeOK, Users
    <2>2. initLock # NoOp => initLock \in StoreOps /\ opAt[initLock] = "open"
      BY <1>1 DEF PgEnds, PgInv, PgTypeOK, MakerLocked
    <2>3. CASE initLock = NoOp /\ opAt[o] = "lock"
      BY <1>1, <2>3, NumberLeft DEF PgCanMove
    <2>4. CASE opAt[o] # "lock" /\ initLock = NoOp
      BY <2>1, <2>4 DEF PgCanMove
    <2> QED  BY <2>2, <2>3, <2>4
  <1>2. PgEnds => StoreNeverStuck
    BY <1>1
  <1> QED  BY <1>2, PgEndsInitially, PgEndsInductive, PTL DEF PgSpec

-----------------------------------------------------------------------------
(* PostgresPools                                                           *)

\* Who opens and closes pools has the lock and a registry to work on; a
\* registry keeps only pools that have been opened, and a store has one of
\* those or one that the shared metadata pool made.
PoolsLocked ==
    /\ \A u \in Owners : stand[u] \in {"provision", "open", "close"} <=> poolsLock = u
    /\ \A u \in Owners : stand[u] \in {"lock", "provision", "open", "close"} => regOf[u] \in Regs

OpeningOne ==
    \A u \in Openers :
        /\ stand[u] \notin {"close", "first", "second"}
        /\ stand[u] = "open" => making \in Ids /\ ToOpen(regOf[u]) # {}

HasOpened(p) == p = 0 \/ pgState[p] \in {"open", "closed"}

PoolsKnown ==
    /\ \A r \in Regs, k \in DbKeys : HasOpened(pools[r][k])
    /\ HasOpened(sharedMeta) \/ sharedMeta \in fallback
    /\ \A b \in Borrowers : HasOpened(given[b]) \/ given[b] \in fallback
    /\ \A u \in Shutters : stand[u] \notin {"provision", "open"}

RegInv == PoolsTypeOK /\ PoolsLocked /\ OpeningOne /\ PoolsKnown /\ OnePoolPerKey

LEMMA PoolsInitially == PoolsInit => RegInv
  BY PoolsAssumption
     DEF PoolsInit, RegInv, PoolsTypeOK, PoolsLocked, OpeningOne, PoolsKnown, HasOpened,
         OnePoolPerKey, IsOpen, Owners, Regs, Ids

\* The key whose pool is opened next is one that has none open.
ToFill(u) == IF "metadata" \in ToOpen(regOf[u]) THEN "metadata" ELSE "vectors"

LEMMA ToFillIsKey ==
    ASSUME NEW u, ToOpen(regOf[u]) # {}
    PROVE  ToFill(u) \in ToOpen(regOf[u]) /\ ToOpen(regOf[u]) \subseteq DbKeys
  BY DEF ToFill, ToOpen, DbKeys

\* ensure_open opens a pool that was only made, and changes no other.
LEMMA PreparedPool ==
    ASSUME PoolsTypeOK, NEW p \in 0 .. PgPoolLimit, pgState' = Prepared(p)
    PROVE  /\ pgState' \in [Ids -> {"none", "made", "open", "closed"}]
           /\ \A q \in Ids : pgState[q] # "made" \/ q # p => pgState'[q] = pgState[q]
           /\ \A q \in Ids : pgState[q] # "none" => pgState'[q] # "none"
  BY PoolsAssumption DEF PoolsTypeOK, Prepared, Ids

\* The metadata pool of a registry, if any, is one that has been opened.
LEMMA MetadataPool ==
    ASSUME PoolsTypeOK, NEW r \in 0 .. RegLimit
    PROVE  MetadataOf(r) \in 0 .. PgPoolLimit /\ HasOpened(MetadataOf(r))
  <1>1. CASE MetadataOf(r) = 0
    BY <1>1, PoolsAssumption DEF HasOpened
  <1>2. CASE MetadataOf(r) # 0
    <2>1. r \in Regs /\ "metadata" \in DbKeys
      BY <1>2, PoolsAssumption DEF MetadataOf, Regs, DbKeys
    <2>2. pools[r]["metadata"] \in 0 .. PgPoolLimit
      BY <2>1 DEF PoolsTypeOK
    <2> QED  BY <1>2, <2>2 DEF MetadataOf, IsOpen, HasOpened
  <1> QED  BY <1>1, <1>2

\* What a registry has to open depends on pools that have been opened alone.
LEMMA SameToOpen ==
    ASSUME RegInv, UNCHANGED pools,
           \A p \in Ids : pgState[p] \in {"open", "closed"} => pgState'[p] = pgState[p],
           NEW r \in Regs
    PROVE  ToOpen(r)' = ToOpen(r)
  BY PoolsAssumption DEF RegInv, PoolsTypeOK, PoolsKnown, HasOpened, ToOpen, IsOpen, Ids, Regs

\* A caller gets the instance there is, or a new one.
LEMMA AskOpenKeeps ==
    ASSUME RegInv, NEW u \in Openers, AskOpen(u)
    PROVE  RegInv'
  <1> USE PoolsAssumption DEF Owners, Regs, Ids, Gets, UnlockPools, instanceVars, borrowVars
  <1>0. PoolsTypeOK /\ PoolsLocked /\ OpeningOne /\ PoolsKnown /\ OnePoolPerKey
    BY DEF RegInv
  <1>a. registered' \in Regs
    BY <1>0 DEF PoolsTypeOK, AskOpen, GetInstance
  <1>1. PoolsTypeOK'
    BY <1>0 DEF PoolsTypeOK, AskOpen, GetInstance
  <1>2. PoolsLocked'
    BY <1>0, <1>a DEF PoolsTypeOK, PoolsLocked, AskOpen
  <1>3. OpeningOne'
    BY <1>0 DEF PoolsTypeOK, PoolsLocked, OpeningOne, ToOpen, IsOpen, AskOpen, GetInstance
  <1>4. PoolsKnown'
    BY <1>0 DEF PoolsTypeOK, PoolsKnown, HasOpened, AskOpen, GetInstance
  <1>5. OnePoolPerKey'
    BY <1>0 DEF PoolsTypeOK, OnePoolPerKey, IsOpen, AskOpen, GetInstance
  <1> QED  BY <1>1, <1>2, <1>3, <1>4, <1>5 DEF RegInv

\* open_all takes the lock, or finds everything open.
LEMMA OpenAllKeeps ==
    ASSUME RegInv, NEW u \in Openers, OpenAll(u)
    PROVE  RegInv'
  <1> USE PoolsAssumption DEF Owners, Regs, Ids, Gets, UnlockPools, instanceVars, borrowVars
  <1>0. PoolsTypeOK /\ PoolsLocked /\ OpeningOne /\ PoolsKnown /\ OnePoolPerKey
    BY DEF RegInv
  <1>1. PoolsTypeOK'
    BY <1>0 DEF PoolsTypeOK, OpenAll
  <1>2. PoolsLocked'
    BY <1>0 DEF PoolsTypeOK, PoolsLocked, OpenAll
  <1>3. OpeningOne'
    BY <1>0 DEF PoolsTypeOK, PoolsLocked, OpeningOne, ToOpen, IsOpen, OpenAll
  <1>4. PoolsKnown'
    BY <1>0 DEF PoolsTypeOK, PoolsKnown, HasOpened, OpenAll
  <1>5. OnePoolPerKey'
    BY <1>0 DEF PoolsTypeOK, OnePoolPerKey, IsOpen, OpenAll
  <1> QED  BY <1>1, <1>2, <1>3, <1>4, <1>5 DEF RegInv

\* A pool is made for a key that has none open.
LEMMA OpenPoolKeeps ==
    ASSUME RegInv, NEW u \in Openers, OpenPool(u)
    PROVE  RegInv'
  <1> USE PoolsAssumption DEF Owners, Regs, Ids, Gets, UnlockPools, instanceVars, borrowVars
  <1>0. PoolsTypeOK /\ PoolsLocked /\ OpeningOne /\ PoolsKnown /\ OnePoolPerKey
    BY DEF RegInv
  <1>1. PoolsTypeOK'
    BY <1>0 DEF PoolsTypeOK, OpenPool, FreshPools
  <1>2. PoolsLocked'
    BY <1>0 DEF PoolsTypeOK, PoolsLocked, OpenPool, FreshPools
  <1>3. OpeningOne'
    BY <1>0 DEF PoolsTypeOK, PoolsLocked, OpeningOne, ToOpen, IsOpen, OpenPool, FreshPools
  <1>4. PoolsKnown'
    BY <1>0 DEF PoolsTypeOK, PoolsKnown, HasOpened, OpenPool, FreshPools
  <1>5. OnePoolPerKey'
    BY <1>0 DEF PoolsTypeOK, OnePoolPerKey, IsOpen, OpenPool, FreshPools
  <1> QED  BY <1>1, <1>2, <1>3, <1>4, <1>5 DEF RegInv

\* The pool is open and takes the place of one that is not.
LEMMA PoolOpenedKeeps ==
    ASSUME RegInv, NEW u \in Openers, PoolOpened(u)
    PROVE  RegInv'
  <1> USE PoolsAssumption DEF Owners, Regs, Ids, Gets, UnlockPools, instanceVars, borrowVars
  <1>0. PoolsTypeOK /\ PoolsLocked /\ OpeningOne /\ PoolsKnown /\ OnePoolPerKey
    BY DEF RegInv
  <1>a. /\ making \in Ids /\ regOf[u] \in Regs
        /\ ToFill(u) \in DbKeys /\ ToFill(u) \in ToOpen(regOf[u])
    BY <1>0, ToFillIsKey DEF PoolsLocked, OpeningOne, PoolOpened
  <1>b. /\ pools' = [pools EXCEPT ![regOf[u]] = [@ EXCEPT ![ToFill(u)] = making]]
        /\ pgState' = [pgState EXCEPT ![making] = "open"]
        /\ UNCHANGED <<fallback, abandoned>>
    BY DEF PoolOpened, ToFill
  <1>c. ~IsOpen(pools[regOf[u]][ToFill(u)])
    BY <1>a DEF ToOpen
  <1>d. pools' \in [Regs -> [DbKeys -> 0 .. PgPoolLimit]]
    <2> DEFINE filled == [pools[regOf[u]] EXCEPT ![ToFill(u)] = making]
    <2>1. filled \in [DbKeys -> 0 .. PgPoolLimit]
      BY <1>0, <1>a DEF PoolsTypeOK
    <2>2. pools' = [pools EXCEPT ![regOf[u]] = filled]
      BY <1>b
    <2> HIDE DEF filled
    <2> QED  BY <1>0, <2>1, <2>2 DEF PoolsTypeOK
  <1>1. PoolsTypeOK'
    BY <1>0, <1>a, <1>d DEF PoolsTypeOK, PoolOpened
  <1>2. PoolsLocked'
    BY <1>0 DEF PoolsTypeOK, PoolsLocked, PoolOpened
  <1>3. OpeningOne'
    BY <1>0 DEF PoolsTypeOK, PoolsLocked, OpeningOne, ToOpen, IsOpen, PoolOpened
  <1>4. PoolsKnown'
    BY <1>0 DEF PoolsTypeOK, PoolsKnown, HasOpened, PoolOpened
  <1>5. OnePoolPerKey'
    BY <1>0, <1>a, <1>b, <1>c DEF PoolsTypeOK, OnePoolPerKey, IsOpen
  <1> QED  BY <1>1, <1>2, <1>3, <1>4, <1>5 DEF RegInv

\* The opener is served and gives the lock back.
LEMMA AllOpenedKeeps ==
    ASSUME RegInv, NEW u \in Openers, AllOpened(u)
    PROVE  RegInv'
  <1> USE PoolsAssumption DEF Owners, Regs, Ids, Gets, UnlockPools, instanceVars, borrowVars
  <1>0. PoolsTypeOK /\ PoolsLocked /\ OpeningOne /\ PoolsKnown /\ OnePoolPerKey
    BY DEF RegInv
  <1>1. PoolsTypeOK'
    BY <1>0 DEF PoolsTypeOK, AllOpened
  <1>2. PoolsLocked'
    BY <1>0 DEF PoolsTypeOK, PoolsLocked, AllOpened
  <1>3. OpeningOne'
    BY <1>0 DEF PoolsTypeOK, PoolsLocked, OpeningOne, ToOpen, IsOpen, AllOpened
  <1>4. PoolsKnown'
    BY <1>0 DEF PoolsTypeOK, PoolsKnown, HasOpened, AllOpened
  <1>5. OnePoolPerKey'
    BY <1>0 DEF PoolsTypeOK, OnePoolPerKey, IsOpen, AllOpened
  <1> QED  BY <1>1, <1>2, <1>3, <1>4, <1>5 DEF RegInv

\* A pool whose opening failed is written off.
LEMMA OpenFailsKeeps ==
    ASSUME RegInv, NEW u \in Openers, OpenAllFails(u)
    PROVE  RegInv'
  <1> USE PoolsAssumption DEF Owners, Regs, Ids, Gets, UnlockPools, instanceVars, borrowVars
  <1>0. PoolsTypeOK /\ PoolsLocked /\ OpeningOne /\ PoolsKnown /\ OnePoolPerKey
    BY DEF RegInv
  <1>a. /\ pgState' \in [Ids -> {"none", "made", "open", "closed"}]
        /\ abandoned' \in SUBSET Ids
    <2>1. CASE making = 0
      BY <1>0, <2>1 DEF PoolsTypeOK, OpenAllFails
    <2>2. CASE making # 0
      <3>1. making \in Ids
        BY <1>0, <2>2 DEF PoolsTypeOK
      <3>2. pgState' = [pgState EXCEPT ![making] = "open"] /\ abandoned' = abandoned \cup {making}
        BY <2>2 DEF OpenAllFails
      <3> QED  BY <1>0, <3>1, <3>2 DEF PoolsTypeOK
    <2> QED  BY <2>1, <2>2
  <1>1. PoolsTypeOK'
    BY <1>0, <1>a DEF PoolsTypeOK, OpenAllFails
  <1>2. PoolsLocked'
    BY <1>0 DEF PoolsTypeOK, PoolsLocked, OpenAllFails
  <1>3. OpeningOne'
    BY <1>0 DEF PoolsTypeOK, PoolsLocked, OpeningOne, ToOpen, IsOpen, OpenAllFails
  <1>4. PoolsKnown'
    BY <1>0 DEF PoolsTypeOK, PoolsKnown, HasOpened, OpenAllFails
  <1>5. OnePoolPerKey'
    BY <1>0 DEF PoolsTypeOK, OnePoolPerKey, IsOpen, OpenAllFails
  <1> QED  BY <1>1, <1>2, <1>3, <1>4, <1>5 DEF RegInv

\* close_all waits for the lock and takes it.
LEMMA AskCloseKeeps ==
    ASSUME RegInv, NEW u \in Shutters, AskClose(u) \/ CloseAllPools(u)
    PROVE  RegInv'
  <1> USE PoolsAssumption DEF Owners, Regs, Ids, Gets, UnlockPools, instanceVars, borrowVars
  <1>0. PoolsTypeOK /\ PoolsLocked /\ OpeningOne /\ PoolsKnown /\ OnePoolPerKey
    BY DEF RegInv
  <1>a. /\ stand' \in [Owners \cup Borrowers -> {"new", "lock", "provision", "open", "close", "first", "second", "served", "error", "shut"}]
        /\ regOf' \in [Owners -> 0 .. RegLimit] /\ poolsLock' \in Owners \cup {Nobody}
    <2>1. CASE AskClose(u)
      BY <1>0, <2>1 DEF PoolsTypeOK, AskClose
    <2>2. CASE CloseAllPools(u)
      BY <1>0, <2>2 DEF PoolsTypeOK, CloseAllPools
    <2> QED  BY <2>1, <2>2
  <1>b. /\ \A v \in Openers : stand'[v] = stand[v] /\ regOf'[v] = regOf[v] /\ ToOpen(regOf[v])' = ToOpen(regOf[v])
        /\ making' = making
    BY <1>0 DEF PoolsTypeOK, AskClose, CloseAllPools, ToOpen, IsOpen
  <1>1. PoolsTypeOK'
    BY <1>0, <1>a DEF PoolsTypeOK, AskClose, CloseAllPools
  <1>2. PoolsLocked'
    BY <1>0 DEF PoolsTypeOK, PoolsLocked, AskClose, CloseAllPools
  <1>3. OpeningOne'
    BY <1>0, <1>b DEF OpeningOne
  <1>4. PoolsKnown'
    BY <1>0 DEF PoolsTypeOK, PoolsKnown, HasOpened, AskClose, CloseAllPools
  <1>5. OnePoolPerKey'
    BY <1>0 DEF PoolsTypeOK, OnePoolPerKey, IsOpen, AskClose, CloseAllPools
  <1> QED  BY <1>1, <1>2, <1>3, <1>4, <1>5 DEF RegInv

\* One pool of the registry is closed.
LEMMA CloseOneKeeps ==
    ASSUME RegInv, NEW u \in Shutters, CloseOnePool(u)
    PROVE  RegInv'
  <1> USE PoolsAssumption DEF Owners, Regs, Ids, Gets, UnlockPools, instanceVars, borrowVars
  <1>0. PoolsTypeOK /\ PoolsLocked /\ OpeningOne /\ PoolsKnown /\ OnePoolPerKey
    BY DEF RegInv
  <1>1. PoolsTypeOK'
    BY <1>0 DEF PoolsTypeOK, CloseOnePool, StillOpen
  <1>2. PoolsLocked'
    BY <1>0 DEF PoolsTypeOK, PoolsLocked, CloseOnePool, StillOpen
  <1>3. OpeningOne'
    BY <1>0 DEF PoolsTypeOK, PoolsLocked, OpeningOne, ToOpen, IsOpen, CloseOnePool, StillOpen
  <1>4. PoolsKnown'
    BY <1>0 DEF PoolsTypeOK, PoolsKnown, HasOpened, CloseOnePool, StillOpen
  <1>5. OnePoolPerKey'
    BY <1>0 DEF PoolsTypeOK, OnePoolPerKey, IsOpen, CloseOnePool, StillOpen
  <1> QED  BY <1>1, <1>2, <1>3, <1>4, <1>5 DEF RegInv

\* The registry forgets pools none of which is open.
LEMMA AllClosedKeeps ==
    ASSUME RegInv, NEW u \in Shutters, AllClosed(u)
    PROVE  RegInv'
  <1> USE PoolsAssumption DEF Owners, Regs, Ids, Gets, UnlockPools, instanceVars, borrowVars
  <1>0. PoolsTypeOK /\ PoolsLocked /\ OpeningOne /\ PoolsKnown /\ OnePoolPerKey
    BY DEF RegInv
  <1>a. /\ pools' \in [Regs -> [DbKeys -> 0 .. PgPoolLimit]]
        /\ opened' \in [Regs -> BOOLEAN] /\ registered' \in 0 .. RegLimit
    <2> DEFINE emptied == [k \in DbKeys |-> 0]
    <2>0. emptied \in [DbKeys -> 0 .. PgPoolLimit] /\ pools' = [pools EXCEPT ![regOf[u]] = emptied]
      BY DEF AllClosed
    <2> HIDE DEF emptied
    <2>1. pools' \in [Regs -> [DbKeys -> 0 .. PgPoolLimit]]
      BY <1>0, <2>0 DEF PoolsTypeOK
    <2>2. opened' \in [Regs -> BOOLEAN]
      BY <1>0 DEF PoolsTypeOK, AllClosed
    <2>3. registered' \in 0 .. RegLimit
      BY <1>0 DEF PoolsTypeOK, AllClosed
    <2> QED  BY <2>1, <2>2, <2>3
  <1>1. PoolsTypeOK'
    BY <1>0, <1>a DEF PoolsTypeOK, AllClosed
  <1>2. PoolsLocked'
    BY <1>0 DEF PoolsTypeOK, PoolsLocked, AllClosed, StillOpen
  <1>3. OpeningOne'
    BY <1>0 DEF PoolsTypeOK, PoolsLocked, OpeningOne, ToOpen, IsOpen, AllClosed, StillOpen
  <1>4. PoolsKnown'
    BY <1>0 DEF PoolsTypeOK, PoolsKnown, HasOpened, AllClosed, StillOpen
  <1>5. OnePoolPerKey'
    BY <1>0 DEF PoolsTypeOK, OnePoolPerKey, IsOpen, AllClosed, StillOpen
  <1> QED  BY <1>1, <1>2, <1>3, <1>4, <1>5 DEF RegInv

\* A store gets the shared pool, the registry's, or one made for it.
LEMMA BorrowKeeps ==
    ASSUME RegInv, NEW b \in Borrowers, Borrow(b)
    PROVE  RegInv'
  <1> USE PoolsAssumption DEF Owners, Regs, Ids, Gets, UnlockPools, instanceVars, borrowVars
  <1>0. PoolsTypeOK /\ PoolsLocked /\ OpeningOne /\ PoolsKnown /\ OnePoolPerKey
    BY DEF RegInv
  <1>a. /\ registered' \in 0 .. RegLimit /\ registries' \in 0 .. RegLimit
        /\ UNCHANGED <<making, poolsLock, regOf, pools, opened, abandoned>>
        /\ stand' \in [Owners \cup Borrowers -> {"new", "lock", "provision", "open", "close", "first", "second", "served", "error", "shut"}]
        /\ \A v \in Owners : stand'[v] = stand[v]
    BY <1>0 DEF PoolsTypeOK, Borrow, GetInstance
  <1>b. /\ pgState' \in [Ids -> {"none", "made", "open", "closed"}]
        /\ fallback' \in SUBSET Ids /\ fallback \subseteq fallback'
        /\ \A p \in Ids : pgState'[p] = pgState[p] \/ (pgState[p] = "none" /\ pgState'[p] = "made")
    <2>1. CASE UNCHANGED <<pgState, fallback>>
      BY <1>0, <2>1 DEF PoolsTypeOK
    <2>2. CASE \E p \in FreshPools : /\ fallback' = fallback \cup {p}
                                   /\ pgState' = [pgState EXCEPT ![p] = "made"]
      BY <1>0, <2>2 DEF PoolsTypeOK, FreshPools
    <2> QED  BY <2>1, <2>2 DEF Borrow
  <1>c. /\ sharedMeta' \in 0 .. PgPoolLimit /\ (sharedMeta' = sharedMeta \/ HasOpened(sharedMeta')  \/ sharedMeta' \in fallback')
        /\ given' = [given EXCEPT ![b] = sharedMeta']
    <2>1. CASE sharedMeta # 0
      BY <1>0, <2>1 DEF Borrow, PoolsTypeOK
    <2>2. CASE sharedMeta = 0 /\ MetadataOf(registered') # 0
      BY <1>0, <1>a, <2>2, MetadataPool DEF Borrow, PoolsTypeOK
    <2>3. CASE sharedMeta = 0 /\ MetadataOf(registered') = 0
      BY <1>0, <2>3 DEF Borrow, PoolsTypeOK, FreshPools
    <2> QED  BY <2>1, <2>2, <2>3
  <1>e. \A p \in 0 .. PgPoolLimit : HasOpened(p) => p = 0 \/ pgState'[p] \in {"open", "closed"}
    BY <1>0, <1>b DEF PoolsTypeOK, HasOpened
  <1>d. \A r \in Regs : ToOpen(r)' = ToOpen(r)
    BY <1>a, <1>b, SameToOpen DEF PoolsTypeOK
  <1>1. PoolsTypeOK'
    BY <1>0, <1>a, <1>b, <1>c DEF PoolsTypeOK
  <1>2. PoolsLocked'
    BY <1>0, <1>a DEF PoolsLocked
  <1>3. OpeningOne'
    BY <1>0, <1>a, <1>d DEF PoolsLocked, OpeningOne
  <1>4. PoolsKnown'
    BY <1>0, <1>a, <1>b, <1>c, <1>e DEF PoolsTypeOK, PoolsKnown, HasOpened
  <1>5. OnePoolPerKey'
    BY <1>0, <1>a, <1>b, <1>c DEF PoolsTypeOK, OnePoolPerKey, IsOpen
  <1> QED  BY <1>1, <1>2, <1>3, <1>4, <1>5 DEF RegInv

\* Using a pool opens it if it was only made; closing the store leaves it.
LEMMA UsePoolKeeps ==
    ASSUME RegInv, NEW b \in Borrowers, UsePool(b) \/ UseFails(b) \/ CloseStore(b)
    PROVE  RegInv'
  <1> USE PoolsAssumption DEF Owners, Regs, Ids, Gets, UnlockPools, instanceVars, borrowVars
  <1>0. PoolsTypeOK /\ PoolsLocked /\ OpeningOne /\ PoolsKnown /\ OnePoolPerKey
    BY DEF RegInv
  <1>a. /\ UNCHANGED <<registered, registries, sharedMeta, given, fallback>>
        /\ UNCHANGED <<making, poolsLock, regOf, pools, opened, abandoned>>
        /\ stand' \in [Owners \cup Borrowers -> {"new", "lock", "provision", "open", "close", "first", "second", "served", "error", "shut"}]
        /\ \A v \in Owners : stand'[v] = stand[v]
    BY <1>0 DEF PoolsTypeOK, UsePool, UseFails, CloseStore
  <1>b. /\ pgState' \in [Ids -> {"none", "made", "open", "closed"}]
        /\ \A p \in Ids : pgState[p] # "made" \/ p # given[b] => pgState'[p] = pgState[p]
    <2>1. given[b] \in 0 .. PgPoolLimit
      BY <1>0 DEF PoolsTypeOK
    <2>2. CASE UsePool(b)
      BY <1>0, <2>1, <2>2, PreparedPool DEF UsePool
    <2>3. CASE UseFails(b) \/ CloseStore(b)
      BY <1>0, <2>3 DEF PoolsTypeOK, UseFails, CloseStore
    <2> QED  BY <2>2, <2>3
  <1>e. \A p \in 0 .. PgPoolLimit : HasOpened(p) => p = 0 \/ pgState'[p] \in {"open", "closed"}
    BY <1>0, <1>b DEF PoolsTypeOK, HasOpened
  <1>d. \A r \in Regs : ToOpen(r)' = ToOpen(r)
    BY <1>a, <1>b, SameToOpen DEF PoolsTypeOK
  <1>1. PoolsTypeOK'
    BY <1>0, <1>a, <1>b DEF PoolsTypeOK
  <1>2. PoolsLocked'
    BY <1>0, <1>a DEF PoolsLocked
  <1>3. OpeningOne'
    BY <1>0, <1>a, <1>d DEF PoolsLocked, OpeningOne
  <1>4. PoolsKnown'
    BY <1>0, <1>a, <1>e DEF PoolsTypeOK, PoolsKnown, HasOpened
  <1>5. OnePoolPerKey'
    <2>1. \A p \in Ids : pgState'[p] = pgState[p] \/ p \in fallback
      <3>1. given[b] = 0 \/ pgState[given[b]] \in {"open", "closed"} \/ given[b] \in fallback
        BY <1>0 DEF PoolsKnown, HasOpened
      <3> QED  BY <1>b, <3>1
    <2> QED  BY <1>0, <1>a, <2>1 DEF PoolsTypeOK, OnePoolPerKey, IsOpen
  <1> QED  BY <1>1, <1>2, <1>3, <1>4, <1>5 DEF RegInv

\* A store goes over to the registry's pool.
LEMMA RebindKeeps ==
    ASSUME RegInv, NEW b \in Borrowers, Rebind(b)
    PROVE  RegInv'
  <1> USE PoolsAssumption DEF Owners, Regs, Ids, Gets, UnlockPools, instanceVars, borrowVars
  <1>0. PoolsTypeOK /\ PoolsLocked /\ OpeningOne /\ PoolsKnown /\ OnePoolPerKey
    BY DEF RegInv
  <1>a. /\ UNCHANGED <<registered, registries, fallback>>
        /\ UNCHANGED <<making, poolsLock, regOf, pools, opened, abandoned>>
        /\ stand' \in [Owners \cup Borrowers -> {"new", "lock", "provision", "open", "close", "first", "second", "served", "error", "shut"}]
        /\ \A v \in Owners : stand'[v] = stand[v]
    BY <1>0 DEF PoolsTypeOK, Rebind
  <1>b. /\ pgState' \in [Ids -> {"none", "made", "open", "closed"}]
        /\ \A p \in Ids : pgState[p] # "made" \/ p # given[b] => pgState'[p] = pgState[p]
    <2>1. given[b] \in 0 .. PgPoolLimit
      BY <1>0 DEF PoolsTypeOK
    <2> QED  BY <1>0, <2>1, PreparedPool DEF Rebind
  <1>c. /\ sharedMeta' \in 0 .. PgPoolLimit /\ (sharedMeta' = sharedMeta \/ HasOpened(sharedMeta'))
        /\ given' \in [Borrowers -> 0 .. PgPoolLimit]
        /\ \A v \in Borrowers : given'[v] = given[v] \/ HasOpened(given'[v])
    <2>1. MetadataOf(registered) \in 0 .. PgPoolLimit /\ HasOpened(MetadataOf(registered))
      BY <1>0, MetadataPool DEF PoolsTypeOK
    <2>2. CASE MetadataOf(registered) = 0
      BY <1>0, <2>1, <2>2 DEF Rebind, PoolsTypeOK
    <2>3. CASE MetadataOf(registered) # 0
      BY <1>0, <2>1, <2>3 DEF Rebind, PoolsTypeOK
    <2> QED  BY <2>2, <2>3
  <1>e. \A p \in 0 .. PgPoolLimit : HasOpened(p) => p = 0 \/ pgState'[p] \in {"open", "closed"}
    BY <1>0, <1>b DEF PoolsTypeOK, HasOpened
  <1>d. \A r \in Regs : ToOpen(r)' = ToOpen(r)
    BY <1>a, <1>b, SameToOpen DEF PoolsTypeOK
  <1>1. PoolsTypeOK'
    BY <1>0, <1>a, <1>b, <1>c DEF PoolsTypeOK
  <1>2. PoolsLocked'
    BY <1>0, <1>a DEF PoolsLocked
  <1>3. OpeningOne'
    BY <1>0, <1>a, <1>d DEF PoolsLocked, OpeningOne
  <1>4. PoolsKnown'
    BY <1>0, <1>a, <1>b, <1>c, <1>e DEF PoolsTypeOK, PoolsKnown, HasOpened
  <1>5. OnePoolPerKey'
    <2>1. \A p \in Ids : pgState'[p] = pgState[p] \/ p \in fallback
      <3>1. given[b] = 0 \/ pgState[given[b]] \in {"open", "closed"} \/ given[b] \in fallback
        BY <1>0 DEF PoolsKnown, HasOpened
      <3> QED  BY <1>b, <3>1
    <2> QED  BY <1>0, <1>a, <2>1 DEF PoolsTypeOK, OnePoolPerKey, IsOpen
  <1> QED  BY <1>1, <1>2, <1>3, <1>4, <1>5 DEF RegInv

\* Forgetting the shared pool changes nothing else.
LEMMA ForgetKeeps ==
    ASSUME RegInv, ForgetShared \/ UNCHANGED poolsVars
    PROVE  RegInv'
  <1> USE PoolsAssumption DEF Owners, Regs, Ids, Gets, UnlockPools, instanceVars, borrowVars
  <1>0. PoolsTypeOK /\ PoolsLocked /\ OpeningOne /\ PoolsKnown /\ OnePoolPerKey
    BY DEF RegInv
  <1>a. /\ UNCHANGED <<stand, making, poolsLock, regOf, pools, opened, registered, registries>>
        /\ UNCHANGED <<given, pgState, abandoned, fallback>>
        /\ sharedMeta' \in {0, sharedMeta}
    BY DEF ForgetShared, poolsVars
  <1>1. PoolsTypeOK'
    BY <1>0, <1>a DEF PoolsTypeOK
  <1>2. PoolsLocked'
    BY <1>0 DEF PoolsTypeOK, PoolsLocked, ForgetShared, poolsVars
  <1>3. OpeningOne'
    BY <1>0, <1>a DEF OpeningOne, ToOpen, IsOpen
  <1>4. PoolsKnown'
    BY <1>0 DEF PoolsTypeOK, PoolsKnown, HasOpened, ForgetShared, poolsVars
  <1>5. OnePoolPerKey'
    BY <1>0 DEF PoolsTypeOK, OnePoolPerKey, IsOpen, ForgetShared, poolsVars
  <1> QED  BY <1>1, <1>2, <1>3, <1>4, <1>5 DEF RegInv

LEMMA PoolsInductive == RegInv /\ [PoolsNext]_poolsVars => RegInv'
  BY AskOpenKeeps, OpenAllKeeps, OpenPoolKeeps, PoolOpenedKeeps, AllOpenedKeeps, OpenFailsKeeps,
     AskCloseKeeps, CloseOneKeeps, AllClosedKeeps, BorrowKeeps, UsePoolKeeps, RebindKeeps,
     ForgetKeeps
     DEF PoolsNext, Opens, Shuts, Borrows

\* The pool that is being opened is nobody's yet, and no pool is kept twice:
\* what one registry closes, no other one serves.
Apart ==
    /\ making # 0 => making \in Ids /\ pgState[making] = "made" /\ making \notin fallback
    /\ \A p \in fallback : pgState[p] # "none"
    /\ \A r, s \in Regs : \A k, l \in DbKeys :
          pools[r][k] = pools[s][l] /\ pools[r][k] # 0 => r = s /\ k = l

ServeInv == RegInv /\ Apart /\ OpenedServes

LEMMA ServeInitially == PoolsInit => ServeInv
  BY PoolsInitially DEF PoolsInit, ServeInv, Apart, OpenedServes, Regs

\* Which pools have been opened, and in which registry, changes in few steps.
LEMMA QuietStep ==
    ASSUME ServeInv, UNCHANGED <<making, pools, opened>>,
           \A p \in Ids : \/ pgState'[p] = pgState[p]
                          \/ pgState[p] = "none"
                          \/ pgState[p] = "made" /\ p \in fallback,
           \A p \in fallback' : pgState'[p] # "none" /\ (p = making => p \in fallback),
           \A v \in Shutters : stand[v] = "close" => stand'[v] = "close" /\ regOf'[v] = regOf[v]
    PROVE  Apart' /\ OpenedServes'
  <1>1. Apart'
    BY DEF ServeInv, Apart
  <1>2. \A r \in Regs, k \in DbKeys : IsOpen(pools[r][k]) => IsOpen(pools[r][k])'
    <2>1. \A r \in Regs, k \in DbKeys : pools[r][k] \in 0 .. PgPoolLimit
      BY DEF ServeInv, RegInv, PoolsTypeOK
    <2>2. \A p \in Ids : pgState[p] = "open" => pgState'[p] = "open"
      OBVIOUS
    <2> QED  BY <2>1, <2>2, PoolsAssumption DEF IsOpen, Ids
  <1>3. OpenedServes'
    BY <1>2 DEF ServeInv, OpenedServes
  <1> QED  BY <1>1, <1>3

LEMMA OpenersServe ==
    ASSUME ServeInv, NEW u \in Openers, Opens(u)
    PROVE  Apart' /\ OpenedServes'
  <1> USE PoolsAssumption DEF Owners, Regs, Ids, Gets
  <1>0. PoolsTypeOK /\ PoolsLocked /\ OpeningOne /\ PoolsKnown /\ Apart /\ OpenedServes
    BY DEF ServeInv, RegInv
  <1>s. \A v \in Shutters : stand'[v] = stand[v] /\ regOf'[v] = regOf[v]
    BY <1>0 DEF PoolsTypeOK, Opens, AskOpen, OpenAll, OpenPool, PoolOpened, AllOpened, OpenAllFails, instanceVars
  <1>1. CASE AskOpen(u) \/ OpenAll(u)
    BY <1>0, <1>1, <1>s, QuietStep DEF AskOpen, OpenAll, borrowVars, Apart
  <1>2. CASE OpenPool(u)
    <2>1. PICK p \in FreshPools : pgState' = [pgState EXCEPT ![p] = "made"] /\ making' = p
      BY <1>2 DEF OpenPool
    <2>2. p \in Ids /\ pgState[p] = "none" /\ p \notin fallback
      BY <1>0, <2>1 DEF FreshPools, Apart
    <2>3. Apart'
      BY <1>0, <1>2, <2>1, <2>2 DEF PoolsTypeOK, Apart, OpenPool, borrowVars
    <2>4. OpenedServes'
      <3>1. \A r \in Regs, k \in DbKeys : IsOpen(pools[r][k]) => IsOpen(pools[r][k])'
        BY <1>0, <1>2, <2>1, <2>2 DEF PoolsTypeOK, IsOpen, OpenPool
      <3> QED  BY <1>0, <1>2, <1>s, <3>1 DEF OpenedServes, OpenPool
    <2> QED  BY <2>3, <2>4
  <1>3. CASE PoolOpened(u)
    <2>1. /\ regOf[u] \in Regs /\ making \in Ids /\ pgState[making] = "made"
          /\ pools' = [pools EXCEPT ![regOf[u]][ToFill(u)] = making] /\ ToFill(u) \in DbKeys
          /\ pgState' = [pgState EXCEPT ![making] = "open"] /\ making' = 0
          /\ fallback' = fallback
      BY <1>0, <1>3, ToFillIsKey DEF borrowVars, PoolsLocked, OpeningOne, Apart, PoolOpened, ToFill
    <2>2. \A r \in Regs, k \in DbKeys : pools[r][k] # making
      BY <1>0, <2>1 DEF PoolsKnown, HasOpened
    <2>3. \A r \in Regs, k \in DbKeys :
             pools'[r][k] = IF r = regOf[u] /\ k = ToFill(u) THEN making ELSE pools[r][k]
      BY <1>0, <2>1 DEF PoolsTypeOK
    <2>4. Apart'
      <3>1. \A r, s \in Regs : \A k, l \in DbKeys :
               pools'[r][k] = pools'[s][l] /\ pools'[r][k] # 0 => r = s /\ k = l
        BY <1>0, <2>2, <2>3 DEF Apart
      <3>2. \A p \in fallback : pgState'[p] # "none"
        BY <1>0, <2>1 DEF Apart, PoolsTypeOK
      <3> QED  BY <2>1, <3>1, <3>2 DEF Apart
    <2>5. \A r \in Regs, k \in DbKeys : IsOpen(pools[r][k]) => IsOpen(pools[r][k])'
      BY <1>0, <2>1, <2>3 DEF PoolsTypeOK, IsOpen
    <2>6. OpenedServes'
      BY <1>0, <1>3, <1>s, <2>5 DEF OpenedServes, PoolOpened
    <2> QED  BY <2>4, <2>6
  <1>4. CASE AllOpened(u)
    <2>1. regOf[u] \in Regs /\ \A k \in DbKeys : IsOpen(pools[regOf[u]][k])
      BY <1>0, <1>4 DEF PoolsLocked, AllOpened, ToOpen
    <2>2. Apart'
      BY <1>0, <1>4 DEF Apart, AllOpened, borrowVars
    <2>3. OpenedServes'
      <3>1. /\ \A r \in Regs : opened'[r] => opened[r] \/ r = regOf[u]
            /\ \A r \in Regs, k \in DbKeys : IsOpen(pools[r][k]) => IsOpen(pools[r][k])'
        BY <1>0, <1>4 DEF PoolsTypeOK, IsOpen, AllOpened
      <3> QED  BY <1>0, <1>s, <2>1, <3>1 DEF OpenedServes
    <2> QED  BY <2>2, <2>3
  <1>5. CASE OpenAllFails(u)
    <2>1. Apart'
      BY <1>0, <1>5 DEF PoolsTypeOK, Apart, OpenAllFails, borrowVars
    <2>2. \A p \in Ids : pgState[p] = "open" => pgState'[p] = "open"
      BY <1>0, <1>5 DEF PoolsTypeOK, OpenAllFails
    <2>3. \A r \in Regs, k \in DbKeys : IsOpen(pools[r][k]) => IsOpen(pools[r][k])'
      BY <1>0, <1>5, <2>2 DEF PoolsTypeOK, IsOpen, OpenAllFails
    <2>4. OpenedServes'
      BY <1>0, <1>5, <1>s, <2>3 DEF OpenedServes, OpenAllFails
    <2> QED  BY <2>1, <2>4
  <1> QED  BY <1>1, <1>2, <1>3, <1>4, <1>5 DEF Opens

LEMMA ShuttersServe ==
    ASSUME ServeInv, NEW u \in Shutters, Shuts(u)
    PROVE  Apart' /\ OpenedServes'
  <1> USE PoolsAssumption DEF Owners, Regs, Ids, Gets
  <1>0. PoolsTypeOK /\ PoolsLocked /\ PoolsKnown /\ Apart /\ OpenedServes
    BY DEF ServeInv, RegInv
  <1>1. CASE AskClose(u) \/ CloseAllPools(u)
    <2>1. \A v \in Shutters : stand[v] = "close" => stand'[v] = "close" /\ regOf'[v] = regOf[v]
      BY <1>0, <1>1 DEF PoolsTypeOK, AskClose, CloseAllPools, instanceVars
    <2> QED  BY <1>0, <1>1, <2>1, QuietStep DEF AskClose, CloseAllPools, borrowVars, Apart
  <1>2. CASE CloseOnePool(u)
    <2>1. PICK k \in StillOpen(u) : pgState' = [pgState EXCEPT ![pools[regOf[u]][k]] = "closed"]
      BY <1>2 DEF CloseOnePool
    <2>2. /\ stand[u] = "close" /\ regOf[u] \in Regs /\ k \in DbKeys
          /\ IsOpen(pools[regOf[u]][k])
      BY <1>0, <1>2, <2>1 DEF PoolsLocked, CloseOnePool, StillOpen
    <2>3. Apart'
      BY <1>0, <1>2, <2>1, <2>2 DEF PoolsTypeOK, Apart, IsOpen, CloseOnePool, borrowVars
    <2>4. \A r \in Regs, l \in DbKeys : r # regOf[u] /\ IsOpen(pools[r][l]) => IsOpen(pools[r][l])'
      BY <1>0, <1>2, <2>1, <2>2 DEF PoolsTypeOK, Apart, IsOpen, CloseOnePool
    <2>5. OpenedServes'
      BY <1>0, <1>2, <2>2, <2>4 DEF OpenedServes, CloseOnePool, instanceVars
    <2> QED  BY <2>3, <2>5
  <1>3. CASE AllClosed(u)
    <2>1. /\ regOf[u] \in Regs /\ opened' = [opened EXCEPT ![regOf[u]] = FALSE]
          /\ UNCHANGED <<regOf, pgState, making, fallback>>
          /\ \A r \in Regs, k \in DbKeys :
               pools'[r][k] = IF r = regOf[u] THEN 0 ELSE pools[r][k]
      <3> DEFINE emptied == [k \in DbKeys |-> 0]
      <3>1. pools' = [pools EXCEPT ![regOf[u]] = emptied] /\ \A k \in DbKeys : emptied[k] = 0
        BY <1>3 DEF AllClosed
      <3>2. regOf[u] \in Regs
        BY <1>0, <1>3 DEF PoolsLocked, AllClosed
      <3> HIDE DEF emptied
      <3> QED  BY <1>0, <1>3, <3>1, <3>2 DEF PoolsTypeOK, AllClosed, borrowVars
    <2>2. Apart'
      BY <1>0, <2>1 DEF Apart
    <2>3. \A v \in Shutters : stand[v] = "close" => v = u
      BY <1>0, <1>3 DEF PoolsLocked, AllClosed
    <2>4. OpenedServes'
      <3>1. /\ \A r \in Regs : opened'[r] => opened[r] /\ r # regOf[u]
            /\ \A v \in Shutters : v # u => stand'[v] = stand[v]
        BY <1>0, <1>3, <2>1 DEF PoolsTypeOK, AllClosed
      <3>2. \A r \in Regs : r # regOf[u] =>
               \A k \in DbKeys : IsOpen(pools[r][k]) => IsOpen(pools[r][k])'
        BY <2>1 DEF IsOpen
      <3>3. SUFFICES ASSUME NEW r \in Regs, opened'[r]
                     PROVE  \A k \in DbKeys : IsOpen(pools[r][k])'
        BY DEF OpenedServes
      <3>4. \A v \in Shutters : stand[v] = "close" => regOf[v] # r
        BY <2>3, <3>1, <3>3
      <3> QED  BY <1>0, <3>1, <3>2, <3>3, <3>4 DEF OpenedServes
    <2> QED  BY <2>2, <2>4
  <1> QED  BY <1>1, <1>2, <1>3 DEF Shuts

LEMMA BorrowersServe ==
    ASSUME ServeInv, NEW b \in Borrowers, Borrows(b)
    PROVE  Apart' /\ OpenedServes'
  <1> USE PoolsAssumption DEF Owners, Regs, Ids, Gets
  <1>0. PoolsTypeOK /\ PoolsKnown /\ Apart
    BY DEF ServeInv, RegInv
  <1>s. \A v \in Shutters : stand'[v] = stand[v] /\ regOf'[v] = regOf[v]
    BY <1>0 DEF PoolsTypeOK, Borrows, Borrow, UsePool, UseFails, CloseStore, Rebind, instanceVars
  <1>t. UNCHANGED <<making, pools, opened>>
    BY DEF Borrows, Borrow, UsePool, UseFails, CloseStore, Rebind
  <1>1. CASE Borrow(b)
    <2>1. \/ UNCHANGED <<pgState, fallback>>
          \/ \E p \in FreshPools : /\ fallback' = fallback \cup {p}
                                   /\ pgState' = [pgState EXCEPT ![p] = "made"]
      BY <1>1 DEF Borrow
    <2>2. \A p \in FreshPools : p \in Ids /\ pgState[p] = "none" /\ p # making
      BY <1>0 DEF FreshPools, Apart
    <2>3. \A p \in fallback' : pgState'[p] # "none" /\ (p = making => p \in fallback)
      BY <1>0, <2>1, <2>2 DEF PoolsTypeOK, Apart
    <2> QED  BY <1>0, <1>s, <1>t, <2>1, <2>2, <2>3, QuietStep DEF PoolsTypeOK
  <1>2. CASE UsePool(b) \/ UseFails(b) \/ CloseStore(b) \/ Rebind(b)
    <2>1. UNCHANGED fallback /\ (pgState' = Prepared(given[b]) \/ pgState' = pgState)
      BY <1>2 DEF UsePool, UseFails, CloseStore, Rebind, borrowVars
    <2>2. given[b] \in 0 .. PgPoolLimit /\ (HasOpened(given[b]) \/ given[b] \in fallback)
      BY <1>0 DEF PoolsTypeOK, PoolsKnown
    <2>3. \A p \in Ids : pgState'[p] = pgState[p] \/ (pgState[p] = "made" /\ p \in fallback)
      BY <1>0, <2>1, <2>2, PreparedPool DEF HasOpened
    <2>4. \A p \in fallback' : pgState'[p] # "none" /\ (p = making => p \in fallback)
      BY <1>0, <2>1, <2>2, PreparedPool DEF PoolsTypeOK, Apart
    <2> QED  BY <1>s, <1>t, <2>1, <2>3, <2>4, QuietStep
  <1> QED  BY <1>1, <1>2 DEF Borrows

LEMMA ServeInductive == ServeInv /\ [PoolsNext]_poolsVars => ServeInv'
  <1> SUFFICES ASSUME ServeInv, [PoolsNext]_poolsVars PROVE ServeInv'
    OBVIOUS
  <1>1. RegInv'
    BY PoolsInductive DEF ServeInv
  <1>2. CASE ForgetShared \/ UNCHANGED poolsVars
    BY <1>1, <1>2, QuietStep DEF ServeInv, Apart, ForgetShared, poolsVars, instanceVars
  <1> QED  BY <1>1, <1>2, OpenersServe, ShuttersServe, BorrowersServe DEF ServeInv, PoolsNext

\* OpenedServes: for any number of openers, stores and calls of close_all, an
\* opened registry keeps its pools open until its own close_all is at work.
THEOREM OpenedPoolsServe == PoolsSpec => []OpenedServes
  <1>1. ServeInv => OpenedServes
    BY DEF ServeInv
  <1> QED  BY <1>1, ServeInitially, ServeInductive, PTL DEF PoolsSpec

\* OnePoolPerKey: for any number of openers, closers and stores, an open pool
\* is the one a registry has for a key, one the shared metadata pool made, or
\* one whose opening failed.
THEOREM PoolsKeptByKey == PoolsSpec => []OnePoolPerKey
  <1>1. RegInv => OnePoolPerKey
    BY DEF RegInv
  <1> QED  BY <1>1, PoolsInitially, PoolsInductive, PTL DEF PoolsSpec

\* PoolsTypeOK: every variable of the pool registries keeps its type.
THEOREM PoolsTyping == PoolsSpec => []PoolsTypeOK
  <1>1. RegInv => PoolsTypeOK
    BY DEF RegInv
  <1> QED  BY <1>1, PoolsInitially, PoolsInductive, PTL DEF PoolsSpec

-----------------------------------------------------------------------------
(* LocalFilesystem                                                         *)

\* What the proof needs of the types.
FsShape ==
    /\ op \in [FsCalls -> Ops \cup {"none"}]
    /\ fsAt \in [FsCalls -> {"new", "lock", "sync", "stamp", "read", "await", "check", "write"} \cup FsOver]
    /\ content \in SUBSET FsCalls
    /\ view \in [FsCalls -> SUBSET FsCalls]

\* Where a call stands tells which locks it has.
LocksHeld ==
    \A c \in FsCalls :
        /\ asyncLock = c <=> op[c] \in AsyncOps /\ fsAt[c] \notin {"new", "lock"} \cup FsOver
        /\ syncLock = c <=> op[c] \in SyncOps /\ fsAt[c] \notin {"new", "lock", "sync"} \cup FsOver
        /\ fsAt[c] = "lock" => op[c] \in AsyncOps
        /\ fsAt[c] = "sync" => op[c] \in SyncOps
        /\ op[c] \in SyncOps \ AsyncOps => fsAt[c] # "lock"
        /\ op[c] \in AsyncOps \ SyncOps => fsAt[c] # "sync"

\* What is in the file, or has been read of it, has been written.
WasWritten ==
    /\ \A c \in content : fsAt[c] = "written"
    /\ \A c \in FsCalls : \A d \in view[c] : fsAt[d] = "written"

\* A call about to write has read every change of those it shares a lock
\* with, but for those that were brought back since.
ReadBeforeWrite ==
    \A w \in FsCalls : (fsAt[w] \in {"check", "write"} /\ ~Replaces(w)) =>
        \A c \in content \ view[w] : ~Shares(w, c) \/ c \in restored

FsInv == FsShape /\ LocksHeld /\ WasWritten /\ ReadBeforeWrite

LEMMA FsInitially == FsInit => FsInv
  BY FsAssumption
     DEF FsInit, FsInv, FsShape, LocksHeld, WasWritten, ReadBeforeWrite, FsOver, AsyncOps, SyncOps

LEMMA FsShapeKept ==
    FsInv /\ [FsNext]_fsVars => FsShape'
  <1> SUFFICES ASSUME FsInv, [FsNext]_fsVars PROVE FsShape'
    OBVIOUS
  <1> USE FsAssumption DEF Goes, Finish, First, FsOver, fileVars
  <1>0. FsShape /\ LocksHeld
    BY DEF FsInv
  <1>1. ASSUME NEW c \in FsCalls, NEW o \in Ops, FsBegin(c, o) PROVE FsShape'
    BY <1>0, <1>1 DEF FsShape, FsBegin
  <1>2. ASSUME NEW c \in FsCalls, LockAsync(c) PROVE FsShape'
    BY <1>0, <1>2 DEF FsShape, LockAsync
  <1>3. ASSUME NEW c \in FsCalls, LockSync(c) PROVE FsShape'
    BY <1>0, <1>3 DEF FsShape, LockSync
  <1>4. ASSUME NEW c \in FsCalls, TakeStamp(c) PROVE FsShape'
    BY <1>0, <1>4 DEF FsShape, TakeStamp
  <1>5. ASSUME NEW c \in FsCalls, AwaitedRead(c) PROVE FsShape'
    BY <1>0, <1>5 DEF FsShape, AwaitedRead
  <1>6. ASSUME NEW c \in FsCalls, Read(c) PROVE FsShape'
    BY <1>0, <1>6 DEF FsShape, Read
  <1>7. ASSUME NEW c \in FsCalls, CheckStamp(c) PROVE FsShape'
    BY <1>0, <1>7 DEF FsShape, CheckStamp
  <1>8. ASSUME NEW c \in FsCalls, Write(c) PROVE FsShape'
    BY <1>0, <1>8 DEF FsShape, Write
  <1>9. ASSUME NEW c \in FsCalls, FsFail(c) PROVE FsShape'
    BY <1>0, <1>9 DEF FsShape, FsFail
  <1>10. ASSUME NEW c \in FsCalls, FsCancel(c) PROVE FsShape'
    BY <1>0, <1>10 DEF FsShape, FsCancel
  <1>11. CASE UNCHANGED fsVars
    BY <1>0, <1>11 DEF FsShape, fsVars
  <1> QED  BY <1>1, <1>2, <1>3, <1>4, <1>5, <1>6, <1>7, <1>8, <1>9, <1>10, <1>11 DEF FsNext, FsStep

LEMMA LocksHeldKept ==
    FsInv /\ [FsNext]_fsVars => LocksHeld'
  <1> SUFFICES ASSUME FsInv, [FsNext]_fsVars PROVE LocksHeld'
    OBVIOUS
  <1> USE FsAssumption DEF Goes, Finish, First, FsOver, fileVars, AsyncOps, SyncOps, Ops, OnLoop, LoopOps, Stamped, Replaces, Creates
  <1>0. FsShape /\ LocksHeld
    BY DEF FsInv
  <1>1. ASSUME NEW c \in FsCalls, NEW o \in Ops, FsBegin(c, o) PROVE LocksHeld'
    BY <1>0, <1>1 DEF FsShape, LocksHeld, FsBegin
  <1>2. ASSUME NEW c \in FsCalls, LockAsync(c) PROVE LocksHeld'
    BY <1>0, <1>2 DEF FsShape, LocksHeld, LockAsync
  <1>3. ASSUME NEW c \in FsCalls, LockSync(c) PROVE LocksHeld'
    BY <1>0, <1>3 DEF FsShape, LocksHeld, LockSync
  <1>4. ASSUME NEW c \in FsCalls, TakeStamp(c) PROVE LocksHeld'
    BY <1>0, <1>4 DEF FsShape, LocksHeld, TakeStamp
  <1>5. ASSUME NEW c \in FsCalls, AwaitedRead(c) PROVE LocksHeld'
    BY <1>0, <1>5 DEF FsShape, LocksHeld, AwaitedRead
  <1>6. ASSUME NEW c \in FsCalls, Read(c) PROVE LocksHeld'
    BY <1>0, <1>6 DEF FsShape, LocksHeld, Read
  <1>7. ASSUME NEW c \in FsCalls, CheckStamp(c) PROVE LocksHeld'
    BY <1>0, <1>7 DEF FsShape, LocksHeld, CheckStamp
  <1>8. ASSUME NEW c \in FsCalls, Write(c) PROVE LocksHeld'
    BY <1>0, <1>8 DEF FsShape, LocksHeld, Write
  <1>9. ASSUME NEW c \in FsCalls, FsFail(c) PROVE LocksHeld'
    BY <1>0, <1>9 DEF FsShape, LocksHeld, FsFail
  <1>10. ASSUME NEW c \in FsCalls, FsCancel(c) PROVE LocksHeld'
    BY <1>0, <1>10 DEF FsShape, LocksHeld, FsCancel
  <1>11. CASE UNCHANGED fsVars
    BY <1>0, <1>11 DEF FsShape, LocksHeld, fsVars
  <1> QED  BY <1>1, <1>2, <1>3, <1>4, <1>5, <1>6, <1>7, <1>8, <1>9, <1>10, <1>11 DEF FsNext, FsStep

LEMMA WasWrittenKept ==
    FsInv /\ [FsNext]_fsVars => WasWritten'
  <1> SUFFICES ASSUME FsInv, [FsNext]_fsVars PROVE WasWritten'
    OBVIOUS
  <1> USE FsAssumption DEF Goes, Finish, First, FsOver, fileVars
  <1>0. FsShape /\ LocksHeld
    BY DEF FsInv
  <1>w. WasWritten
    BY DEF FsInv
  <1>1. ASSUME NEW c \in FsCalls, NEW o \in Ops, FsBegin(c, o) PROVE WasWritten'
    BY <1>0, <1>w, <1>1 DEF FsShape, WasWritten, FsBegin
  <1>2. ASSUME NEW c \in FsCalls, LockAsync(c) PROVE WasWritten'
    BY <1>0, <1>w, <1>2 DEF FsShape, WasWritten, LockAsync
  <1>3. ASSUME NEW c \in FsCalls, LockSync(c) PROVE WasWritten'
    BY <1>0, <1>w, <1>3 DEF FsShape, WasWritten, LockSync
  <1>4. ASSUME NEW c \in FsCalls, TakeStamp(c) PROVE WasWritten'
    BY <1>0, <1>w, <1>4 DEF FsShape, WasWritten, TakeStamp
  <1>5. ASSUME NEW c \in FsCalls, AwaitedRead(c) PROVE WasWritten'
    BY <1>0, <1>w, <1>5 DEF FsShape, WasWritten, AwaitedRead
  <1>6. ASSUME NEW c \in FsCalls, Read(c) PROVE WasWritten'
    BY <1>0, <1>w, <1>6 DEF FsShape, WasWritten, Read
  <1>7. ASSUME NEW c \in FsCalls, CheckStamp(c) PROVE WasWritten'
    BY <1>0, <1>w, <1>7 DEF FsShape, WasWritten, CheckStamp
  <1>8. ASSUME NEW c \in FsCalls, Write(c) PROVE WasWritten'
    BY <1>0, <1>w, <1>8 DEF FsShape, WasWritten, Write
  <1>9. ASSUME NEW c \in FsCalls, FsFail(c) PROVE WasWritten'
    BY <1>0, <1>w, <1>9 DEF FsShape, WasWritten, FsFail
  <1>10. ASSUME NEW c \in FsCalls, FsCancel(c) PROVE WasWritten'
    BY <1>0, <1>w, <1>10 DEF FsShape, WasWritten, FsCancel
  <1>11. CASE UNCHANGED fsVars
    BY <1>0, <1>w, <1>11 DEF FsShape, WasWritten, fsVars
  <1> QED  BY <1>1, <1>2, <1>3, <1>4, <1>5, <1>6, <1>7, <1>8, <1>9, <1>10, <1>11 DEF FsNext, FsStep

\* Two calls that share a lock are not both past it.
LEMMA NotBothPast ==
    ASSUME FsInv, NEW w \in FsCalls, NEW d \in FsCalls, w # d, Shares(w, d),
           fsAt[w] \in {"check", "write"}, fsAt[d] \in {"check", "write"}
    PROVE  FALSE
  <1>1. CASE {op[w], op[d]} \subseteq AsyncOps
    <2>1. asyncLock = w /\ asyncLock = d
      BY <1>1 DEF FsInv, LocksHeld, FsOver
    <2> QED  BY <2>1
  <1>2. CASE {op[w], op[d]} \subseteq SyncOps
    <2>1. syncLock = w /\ syncLock = d
      BY <1>2 DEF FsInv, LocksHeld, FsOver
    <2> QED  BY <2>1
  <1> QED  BY <1>1, <1>2 DEF Shares

\* What another call writes: no change of a call that w shares a lock with,
\* but its own, and the ones it brings back.
LEMMA OtherWrites ==
    ASSUME FsInv, NEW d \in FsCalls, Write(d)
    PROVE  ReadBeforeWrite'
  <1>0. FsShape
    BY DEF FsInv
  <1>1. /\ UNCHANGED <<op, view>>
        /\ fsAt[d] = "write" /\ fsAt' = [fsAt EXCEPT ![d] = "written"]
        /\ restored' = restored \cup (content' \ (content \cup {d}))
    BY DEF Write, Finish, Goes
  <1>2. SUFFICES ASSUME NEW w \in FsCalls, fsAt'[w] \in {"check", "write"}, ~Replaces(w),
                        NEW c \in content' \ view[w], c \notin restored'
                 PROVE  ~Shares(w, c)
    BY <1>1 DEF ReadBeforeWrite, Replaces, Shares
  <1>3. w # d /\ fsAt[w] = fsAt'[w]
    BY <1>0, <1>1, <1>2 DEF FsShape
  <1>4. CASE c = d
    BY <1>1, <1>2, <1>3, <1>4, NotBothPast
  <1>5. CASE c # d
    BY <1>1, <1>2, <1>3, <1>5 DEF FsInv, ReadBeforeWrite
  <1> QED  BY <1>4, <1>5

\* A step that writes nothing: who comes to the check has just read.
LEMMA OthersKeep ==
    ASSUME FsInv, UNCHANGED <<content, restored>>,
           \A w \in FsCalls : fsAt'[w] \in {"check", "write"} /\ ~Replaces(w)' =>
               \/ view'[w] = content
               \/ fsAt[w] \in {"check", "write"} /\ view'[w] = view[w],
           \A c \in FsCalls : fsAt[c] # "new" => op'[c] = op[c],
           \A c \in FsCalls : fsAt'[c] \in {"check", "write"} /\ fsAt[c] = "new" => Replaces(c)'
    PROVE  ReadBeforeWrite'
  <1>1. SUFFICES ASSUME NEW w \in FsCalls, fsAt'[w] \in {"check", "write"}, ~Replaces(w)',
                        NEW c \in content \ view'[w], c \notin restored
                 PROVE  ~Shares(w, c)'
    BY DEF ReadBeforeWrite
  <1>2. fsAt[w] \in {"check", "write"} /\ view'[w] = view[w] /\ op'[w] = op[w] /\ op'[c] = op[c]
    BY <1>1 DEF FsInv, WasWritten, FsShape
  <1>3. ~Replaces(w) /\ c \in content \ view[w]
    BY <1>1, <1>2 DEF Replaces
  <1> QED  BY <1>1, <1>2, <1>3 DEF FsInv, ReadBeforeWrite, Shares

LEMMA ReadBeforeWriteKept == FsInv /\ [FsNext]_fsVars => ReadBeforeWrite'
  <1> SUFFICES ASSUME FsInv, [FsNext]_fsVars PROVE ReadBeforeWrite'
    OBVIOUS
  <1> USE FsAssumption DEF Goes, Finish, First, FsOver, fileVars, Replaces
  <1>0. FsShape /\ LocksHeld
    BY DEF FsInv
  <1>1. ASSUME NEW c \in FsCalls, NEW o \in Ops, FsBegin(c, o) PROVE ReadBeforeWrite'
    <2>1. UNCHANGED <<content, restored, view>> /\ fsAt[c] = "new"
      BY <1>1 DEF FsBegin
    <2>2. \A d \in FsCalls \ {c} : fsAt'[d] = fsAt[d] /\ op'[d] = op[d]
      BY <1>0, <1>1 DEF FsBegin, FsShape
    <2>3. fsAt'[c] \in {"check", "write"} => Replaces(c)'
      BY <1>0, <1>1 DEF FsBegin, FsShape, AsyncOps, SyncOps, Ops, Creates
    <2> QED  BY <2>1, <2>2, <2>3, OthersKeep
  <1>2. ASSUME NEW c \in FsCalls, LockAsync(c) PROVE ReadBeforeWrite'
    BY <1>0, <1>2, OthersKeep DEF FsShape, LocksHeld, LockAsync
  <1>3. ASSUME NEW c \in FsCalls, LockSync(c) PROVE ReadBeforeWrite'
    BY <1>0, <1>3, OthersKeep DEF FsShape, LocksHeld, LockSync
  <1>4. ASSUME NEW c \in FsCalls, TakeStamp(c) PROVE ReadBeforeWrite'
    BY <1>0, <1>4, OthersKeep DEF FsShape, LocksHeld, TakeStamp
  <1>5. ASSUME NEW c \in FsCalls, AwaitedRead(c) PROVE ReadBeforeWrite'
    BY <1>0, <1>5, OthersKeep DEF FsShape, LocksHeld, AwaitedRead
  <1>6. ASSUME NEW c \in FsCalls, Read(c) PROVE ReadBeforeWrite'
    BY <1>0, <1>6, OthersKeep DEF FsShape, LocksHeld, Read
  <1>7. ASSUME NEW c \in FsCalls, CheckStamp(c) PROVE ReadBeforeWrite'
    BY <1>0, <1>7, OthersKeep DEF FsShape, LocksHeld, CheckStamp
  <1>8. ASSUME NEW c \in FsCalls, Write(c) PROVE ReadBeforeWrite'
    BY <1>8, OtherWrites
  <1>9. ASSUME NEW c \in FsCalls, FsFail(c) PROVE ReadBeforeWrite'
    BY <1>0, <1>9, OthersKeep DEF FsShape, LocksHeld, FsFail
  <1>10. ASSUME NEW c \in FsCalls, FsCancel(c) PROVE ReadBeforeWrite'
    BY <1>0, <1>10, OthersKeep DEF FsShape, LocksHeld, FsCancel
  <1>11. CASE UNCHANGED fsVars
    BY <1>0, <1>11, OthersKeep DEF fsVars, FsShape
  <1> QED  BY <1>1, <1>2, <1>3, <1>4, <1>5, <1>6, <1>7, <1>8, <1>9, <1>10, <1>11 DEF FsNext, FsStep

\* SharedLockKept: for any number of calls of any operations, in threads and
\* on the loop, an edit erases no finished edit with which it shares a lock,
\* but for one that was gone and has been brought back.
THEOREM SharedLocksKeep == FsSpec => SharedLockKept
  <1>1. FsInv /\ [FsNext]_fsVars => FsInv'
    BY FsShapeKept, LocksHeldKept, WasWrittenKept, ReadBeforeWriteKept DEF FsInv
  <1>2. ASSUME FsInv, [FsNext]_fsVars, NEW w \in FsCalls, NEW c \in content \ content',
               fsAt[w] = "write", fsAt'[w] = "written", ~Replaces(w)
        PROVE  ~Shares(w, c) \/ c \in restored
    <2>0. FsShape
      BY <1>2 DEF FsInv
    <2>1. Write(w)
      BY <1>2, <2>0 DEF FsNext, FsStep, fsVars, fileVars, FsShape, Goes, Finish, First,
         FsBegin, LockAsync, LockSync, TakeStamp, AwaitedRead, Read, CheckStamp, Write, FsFail, FsCancel
    <2>2. content' = view[w] \cup {w}
      BY <1>2, <2>1 DEF Write, Replaces
    <2> QED  BY <1>2, <2>2 DEF FsInv, ReadBeforeWrite
  <1>3. FsInv /\ [FsNext]_fsVars =>
            [\A w \in FsCalls, c \in content \ content' :
                (fsAt[w] = "write" /\ fsAt'[w] = "written" /\ ~Replaces(w))
                    => ~Shares(w, c) \/ c \in restored]_fsVars
    BY <1>2
  <1> QED  BY <1>1, <1>3, FsInitially, PTL DEF FsSpec, SharedLockKept

\* A file changes once for each call that has written.
WrittenCalls == {c \in FsCalls : fsAt[c] = "written"}
FsCounted == version = Cardinality(WrittenCalls) + 1

FsTyped == FsInv /\ FsTypeOK /\ FsCounted

LEMMA FsTypedInitially == FsInit => FsTyped
  <1> SUFFICES ASSUME FsInit PROVE FsTyped
    OBVIOUS
  <1>1. WrittenCalls = {} /\ Cardinality(WrittenCalls) = 0
    BY FS_EmptySet DEF FsInit, WrittenCalls
  <1>2. Cardinality(FsCalls) \in Nat
    BY FsAssumption, FS_CardinalityType
  <1>3. FsTypeOK /\ FsCounted
    BY <1>1, <1>2 DEF FsInit, FsTypeOK, FsCounted, FsOver
  <1> QED  BY <1>3, FsInitially DEF FsTyped

\* There are no more calls that have written than calls.
LEMMA WrittenBound ==
    ASSUME NEW written \in SUBSET FsCalls
    PROVE  Cardinality(written) + 1 \in 1 .. Cardinality(FsCalls) + 1
  <1>1. /\ Cardinality(written) \in Nat /\ Cardinality(FsCalls) \in Nat
        /\ Cardinality(written) <= Cardinality(FsCalls)
    BY FsAssumption, FS_Subset, FS_CardinalityType
  <1> QED  BY <1>1

\* A call that writes has not written before; no other step counts.
LEMMA FsCountKept ==
    ASSUME FsTyped, [FsNext]_fsVars
    PROVE  FsCounted'
  <1> USE DEF Goes, Finish, First, FsOver, fileVars
  <1>0. FsShape /\ FsCounted
    BY DEF FsTyped, FsInv
  <1>1. ASSUME NEW c \in FsCalls, Write(c) PROVE FsCounted'
    <2>1. WrittenCalls' = WrittenCalls \cup {c} /\ c \notin WrittenCalls /\ version' = version + 1
      BY <1>0, <1>1 DEF FsShape, Write, WrittenCalls
    <2>2. IsFiniteSet(WrittenCalls)
      BY FsAssumption, FS_Subset DEF WrittenCalls
    <2>3. Cardinality(WrittenCalls') = Cardinality(WrittenCalls) + 1 /\ Cardinality(WrittenCalls) \in Nat
      BY <2>1, <2>2, FS_AddElement, FS_CardinalityType
    <2> QED  BY <1>0, <2>1, <2>3 DEF FsCounted
  <1>2. ASSUME version' = version, \A c \in FsCalls : fsAt'[c] = "written" <=> fsAt[c] = "written"
        PROVE  FsCounted'
    BY <1>0, <1>2 DEF FsCounted, WrittenCalls
  <1>3. ASSUME NEW c \in FsCalls, NEW o \in Ops, FsBegin(c, o) PROVE FsCounted'
    BY <1>0, <1>2, <1>3 DEF FsShape, FsBegin
  <1>4. ASSUME NEW c \in FsCalls, LockAsync(c) \/ LockSync(c) \/ TakeStamp(c) PROVE FsCounted'
    BY <1>0, <1>2, <1>4 DEF FsShape, LockAsync, LockSync, TakeStamp
  <1>5. ASSUME NEW c \in FsCalls, AwaitedRead(c) \/ Read(c) \/ CheckStamp(c) PROVE FsCounted'
    BY <1>0, <1>2, <1>5 DEF FsShape, AwaitedRead, Read, CheckStamp
  <1>6. ASSUME NEW c \in FsCalls, FsFail(c) \/ FsCancel(c) PROVE FsCounted'
    BY <1>0, <1>2, <1>6 DEF FsShape, FsFail, FsCancel
  <1>7. CASE UNCHANGED fsVars
    BY <1>2, <1>7 DEF fsVars
  <1> QED  BY <1>1, <1>3, <1>4, <1>5, <1>6, <1>7 DEF FsNext, FsStep

LEMMA FsTypesKept ==
    ASSUME FsTyped, [FsNext]_fsVars
    PROVE  FsTypeOK'
  <1> USE DEF Goes, Finish, First, FsOver, fileVars, LeavesLoop, StaysOnLoop
  <1>0. FsTypeOK /\ FsShape' /\ CurrentStamp \in Nat /\ version' \in 1 .. Cardinality(FsCalls) + 1
    <2>1. WrittenCalls \in SUBSET FsCalls /\ WrittenCalls' \in SUBSET FsCalls
      BY DEF WrittenCalls
    <2>2. Cardinality(WrittenCalls') + 1 \in 1 .. Cardinality(FsCalls) + 1
      BY <2>1, WrittenBound
    <2>3. version \in 1 .. Cardinality(FsCalls) + 1 /\ version' \in 1 .. Cardinality(FsCalls) + 1
      BY <2>2, FsCountKept DEF FsTyped, FsTypeOK, FsCounted
    <2>4. FsTypeOK /\ FsShape' /\ Cardinality(FsCalls) \in Nat
      BY FsShapeKept, FS_CardinalityType, FsAssumption DEF FsTyped
    <2> QED  BY <2>3, <2>4 DEF CurrentStamp
  <1>1. ASSUME /\ loopBusy' \in FsCalls \cup {NoFsCall}
               /\ asyncLock' \in FsCalls \cup {NoFsCall}
               /\ syncLock' \in FsCalls \cup {NoFsCall}
               /\ present' \in BOOLEAN
               /\ stamp' \in [FsCalls -> Nat]
               /\ again' \in SUBSET FsCalls
               /\ restored' \in SUBSET FsCalls
        PROVE  FsTypeOK'
    BY <1>0, <1>1 DEF FsTypeOK, FsShape
  <1>2. ASSUME NEW c \in FsCalls, NEW o \in Ops, FsBegin(c, o) PROVE FsTypeOK'
    BY <1>0, <1>1, <1>2 DEF FsTypeOK, FsBegin
  <1>3. ASSUME NEW c \in FsCalls, LockAsync(c) \/ LockSync(c) \/ TakeStamp(c) PROVE FsTypeOK'
    BY <1>0, <1>1, <1>3 DEF FsTypeOK, LockAsync, LockSync, TakeStamp
  <1>4. ASSUME NEW c \in FsCalls, AwaitedRead(c) \/ Read(c) \/ CheckStamp(c) PROVE FsTypeOK'
    BY <1>0, <1>1, <1>4 DEF FsTypeOK, AwaitedRead, Read, CheckStamp
  <1>5. ASSUME NEW c \in FsCalls, Write(c) PROVE FsTypeOK'
    <2>1. content' \in SUBSET FsCalls
      BY <1>0 DEF FsShape
    <2> QED  BY <1>0, <1>1, <1>5, <2>1 DEF FsTypeOK, Write
  <1>6. ASSUME NEW c \in FsCalls, FsFail(c) \/ FsCancel(c) PROVE FsTypeOK'
    BY <1>0, <1>1, <1>6 DEF FsTypeOK, FsFail, FsCancel
  <1>7. CASE UNCHANGED fsVars
    BY <1>0, <1>1, <1>7 DEF FsTypeOK, fsVars
  <1> QED  BY <1>2, <1>3, <1>4, <1>5, <1>6, <1>7 DEF FsNext, FsStep

LEMMA FsTypedKept == FsTyped /\ [FsNext]_fsVars => FsTyped'
  <1>1. FsInv /\ [FsNext]_fsVars => FsInv'
    BY FsShapeKept, LocksHeldKept, WasWrittenKept, ReadBeforeWriteKept DEF FsInv
  <1> QED  BY <1>1, FsTypesKept, FsCountKept DEF FsTyped

\* FsTypeOK: every variable keeps its type; the file changes no more than once
\* for each call.
THEOREM FilesTyping == FsSpec => []FsTypeOK
  <1>1. FsTyped => FsTypeOK
    BY DEF FsTyped
  <1> QED  BY <1>1, FsTypedInitially, FsTypedKept, PTL DEF FsSpec

-----------------------------------------------------------------------------
(* LocalFilesystem: calls end                                              *)

\* How far a call has come.  The second attempt of one lies between the check
\* of the first and the write.
FsPlaces == [new |-> 0, lock |-> 1, sync |-> 2, stamp |-> 3, await |-> 4, read |-> 4,
             check |-> 5, write |-> 9, written |-> 10, error |-> 10]
FsRank(c) == FsPlaces[fsAt[c]]
             + (IF c \in again /\ fsAt[c] \in {"stamp", "await", "read", "check"} THEN 3 ELSE 0)

\* A step takes one call further and leaves the others where they are.
FsMoves == \E c \in FsCalls :
              /\ FsRank(c) < FsRank(c)'
              /\ \A d \in FsCalls \ {c} : FsRank(d)' = FsRank(d)

LEMMA FsRankBound ==
    ASSUME FsTypeOK, NEW c \in FsCalls
    PROVE  FsRank(c) \in 0 .. 10
  BY DEF FsTypeOK, FsRank, FsPlaces, FsOver

\* What c needs for its next step: the loop, if it runs there and is not in a
\* read that the loop awaits, and the lock it asks for.
FsCanMove(c) ==
    \/ fsAt[c] = "lock" /\ MayRun(c) /\ asyncLock = NoFsCall
    \/ fsAt[c] = "sync" /\ MayRun(c) /\ syncLock = NoFsCall
    \/ fsAt[c] \in {"stamp", "read", "check", "write"} /\ MayRun(c)
    \/ fsAt[c] = "await" /\ (present \/ MayRun(c))

FsUnderWay(c) == fsAt[c] \notin {"new"} \cup FsOver

\* FilesNeverStuck: as long as calls are under way, one of them can go on.
FilesNeverStuck == (\E c \in FsCalls : FsUnderWay(c)) => \E c \in FsCalls : FsCanMove(c)

\* The call the loop is in can only wait for the thread lock there, and one of
\* the loop that has the thread lock does not leave the loop before it ends.
LoopKept ==
    /\ loopBusy # NoFsCall => /\ OnLoop(loopBusy)
                              /\ fsAt[loopBusy] \in {"sync", "stamp", "read", "check", "write"}
    /\ \A c \in FsCalls : /\ fsAt[c] = "await" => op[c] = "aedit_lines"
                          /\ (syncLock = c /\ OnLoop(c)) => loopBusy = c

\* Every step is one of a single call, which goes on or ends.
LEMMA FsMovesOn ==
    ASSUME FsTyped, FsNext
    PROVE  FsMoves
  <1> USE DEF FsRank, FsPlaces, FsOver, Goes, Finish, First, fileVars
  <1>0. /\ FsTypeOK
        /\ \A c \in FsCalls : fsAt[c] = "sync" => op[c] \in SyncOps
    BY DEF FsTyped, FsInv, LocksHeld
  <1>1. ASSUME NEW c \in FsCalls, NEW o \in Ops, FsBegin(c, o) PROVE FsMoves
    BY <1>0, <1>1 DEF FsTypeOK, FsMoves, FsBegin
  <1>2. ASSUME NEW c \in FsCalls, LockAsync(c) \/ LockSync(c) PROVE FsMoves
    BY <1>0, <1>2 DEF FsTypeOK, FsMoves, LockAsync, LockSync
  <1>3. ASSUME NEW c \in FsCalls, TakeStamp(c) \/ AwaitedRead(c) \/ Read(c) PROVE FsMoves
    BY <1>0, <1>3 DEF FsTypeOK, FsMoves, TakeStamp, AwaitedRead, Read
  <1>4. ASSUME NEW c \in FsCalls, CheckStamp(c) PROVE FsMoves
    BY <1>0, <1>4 DEF FsTypeOK, FsMoves, CheckStamp
  <1>5. ASSUME NEW c \in FsCalls, Write(c) \/ FsFail(c) \/ FsCancel(c) PROVE FsMoves
    BY <1>0, <1>5 DEF FsTypeOK, FsMoves, Write, FsFail, FsCancel
  <1> QED  BY <1>1, <1>2, <1>3, <1>4, <1>5 DEF FsNext, FsStep

\* FsMoves: every step takes one of the calls forward, through at most ten
\* places and two attempts, so that no behaviour of theirs is infinite.
THEOREM FilesMoveOn == FsSpec => [][FsMoves]_fsVars /\ [](\A c \in FsCalls : FsRank(c) \in 0 .. 10)
  <1>1. FsTyped => \A c \in FsCalls : FsRank(c) \in 0 .. 10
    BY FsRankBound DEF FsTyped
  <1>2. FsTyped /\ [FsNext]_fsVars => [FsMoves]_fsVars
    BY FsMovesOn
  <1> QED  BY <1>1, <1>2, FsTypedInitially, FsTypedKept, PTL DEF FsSpec

LEMMA LoopKeptStep ==
    ASSUME FsTyped, LoopKept, [FsNext]_fsVars
    PROVE  LoopKept'
  <1> USE FsAssumption DEF OnLoop, MayRun, StaysOnLoop, LeavesLoop, Goes, Finish, First,
          Stamped, Replaces, FsOver, fileVars
  <1>0. FsTypeOK /\ LocksHeld /\ LoopKept
    BY DEF FsTyped, FsInv
  <1>1. ASSUME NEW c \in FsCalls, NEW o \in Ops, FsBegin(c, o) PROVE LoopKept'
    BY <1>0, <1>1 DEF FsTypeOK, LocksHeld, LoopKept, FsBegin, LoopOps, AsyncOps, SyncOps, Creates, Ops
  <1>2. ASSUME NEW c \in FsCalls, LockAsync(c) PROVE LoopKept'
    BY <1>0, <1>2 DEF FsTypeOK, LocksHeld, LoopKept, LockAsync
  <1>3. ASSUME NEW c \in FsCalls, LockSync(c) PROVE LoopKept'
    BY <1>0, <1>3 DEF FsTypeOK, LocksHeld, LoopKept, LockSync
  <1>4. ASSUME NEW c \in FsCalls, TakeStamp(c) PROVE LoopKept'
    BY <1>0, <1>4 DEF FsTypeOK, LocksHeld, LoopKept, TakeStamp, SyncOps
  <1>5. ASSUME NEW c \in FsCalls, AwaitedRead(c) PROVE LoopKept'
    BY <1>0, <1>5 DEF FsTypeOK, LocksHeld, LoopKept, AwaitedRead, SyncOps
  <1>6. ASSUME NEW c \in FsCalls, Read(c) PROVE LoopKept'
    BY <1>0, <1>6 DEF FsTypeOK, LocksHeld, LoopKept, Read
  <1>7. ASSUME NEW c \in FsCalls, CheckStamp(c) PROVE LoopKept'
    BY <1>0, <1>7 DEF FsTypeOK, LocksHeld, LoopKept, CheckStamp
  <1>8. ASSUME NEW c \in FsCalls, Write(c) \/ FsFail(c) \/ FsCancel(c) PROVE LoopKept'
    BY <1>0, <1>8 DEF FsTypeOK, LocksHeld, LoopKept, Write, FsFail, FsCancel
  <1>9. CASE UNCHANGED fsVars
    BY <1>0, <1>9 DEF LoopKept, fsVars
  <1> QED  BY <1>1, <1>2, <1>3, <1>4, <1>5, <1>6, <1>7, <1>8, <1>9 DEF FsNext, FsStep

\* FilesNeverStuck: for any number of calls, threads with the thread lock, a
\* loop that waits for it and calls with the loop's lock never wait for each
\* other in a ring.
THEOREM FilesFreeOfDeadlock == FsSpec => []FilesNeverStuck
  <1>1. FsInit => LoopKept
    BY FsAssumption DEF FsInit, LoopKept
  <1>2. FsTyped /\ LoopKept => FilesNeverStuck
    <2> SUFFICES ASSUME FsTyped, LoopKept, NEW c \in FsCalls, FsUnderWay(c)
                 PROVE  \E d \in FsCalls : FsCanMove(d)
      BY DEF FilesNeverStuck
    <2> USE FsAssumption DEF FsUnderWay, FsOver
    <2>0. FsTypeOK /\ LocksHeld /\ LoopKept
      BY DEF FsTyped, FsInv
    <2>1. ASSUME NEW d \in FsCalls, FsUnderWay(d), fsAt[d] # "lock",
                 loopBusy \in {d, NoFsCall}
          PROVE  \E e \in FsCalls : FsCanMove(e)
      <3>1. CASE fsAt[d] = "sync" /\ syncLock # NoFsCall
        <4> DEFINE h == syncLock
        <4>1. /\ h \in FsCalls /\ h # d
              /\ fsAt[h] \in {"stamp", "read", "check", "write", "await"}
          BY <2>0, <3>1 DEF FsTypeOK, LocksHeld
        <4>2. fsAt[h] # "await" /\ ~OnLoop(h)
          BY <2>0, <2>1, <4>1 DEF LocksHeld, LoopKept, SyncOps
        <4> QED  BY <4>1, <4>2 DEF FsCanMove, MayRun
      <3> QED  BY <2>0, <2>1, <3>1 DEF FsTypeOK, FsCanMove, MayRun
    <2>2. CASE loopBusy # NoFsCall
      BY <2>0, <2>1, <2>2 DEF FsTypeOK, LoopKept
    <2>3. CASE loopBusy = NoFsCall /\ fsAt[c] = "lock" /\ asyncLock # NoFsCall
      BY <2>0, <2>1, <2>3 DEF FsTypeOK, LocksHeld
    <2>4. CASE loopBusy = NoFsCall /\ fsAt[c] = "lock" /\ asyncLock = NoFsCall
      BY <2>4 DEF FsCanMove, MayRun
    <2>5. CASE loopBusy = NoFsCall /\ fsAt[c] # "lock"
      BY <2>1, <2>5
    <2> QED  BY <2>2, <2>3, <2>4, <2>5
  <1> QED  BY <1>1, <1>2, FsTypedInitially, FsTypedKept, LoopKeptStep, PTL DEF FsSpec

-----------------------------------------------------------------------------
(* All four, as the run checks them                                        *)

\* A behaviour of the composition is one of each component, so that what is
\* proved of a component alone holds where the run checks it.
THEOREM StoresCompose == StoresSpec => PgSpec /\ PoolsSpec /\ DurSpec /\ FsSpec
  <1>1. StoresInit => PgInit /\ PoolsInit /\ DurInit /\ FsInit
    BY DEF StoresInit
  <1>2. [StoresNext]_storesVars =>
            [PgNext]_pgVars /\ [PoolsNext]_poolsVars /\ [DurNext]_durVars /\ [FsNext]_fsVars
    BY DEF StoresNext, storesVars
  <1> QED  BY <1>1, <1>2, PTL DEF StoresSpec, PgSpec, PoolsSpec, DurSpec, FsSpec

\* StoresTypeOK: for any operations, openers, clients and calls, the variables
\* of the four components keep their types.
THEOREM StoresTyping == StoresSpec => []StoresTypeOK
  <1>1. StoresSpec => [](part \in StoresParts)
    <2>1. StoresInit => part \in StoresParts
      BY DEF StoresInit
    <2>2. part \in StoresParts /\ [StoresNext]_storesVars => (part \in StoresParts)'
      BY DEF StoresNext, storesVars
    <2> QED  BY <2>1, <2>2, PTL DEF StoresSpec
  <1> QED
    BY <1>1, StoresCompose, StoreTyping, PoolsTyping, ThreadsTyping, FilesTyping, PTL
       DEF StoresTypeOK
=============================================================================
