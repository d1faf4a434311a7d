----------------------- MODULE ToolOptimizationProofs -----------------------
(* Theorems about ToolOptimization, for any calls, signatures, scopes,     *)
(* reuse states and window tasks: no search is lost or run twice, and what *)
(* the cache answers is sound.                                             *)
EXTENDS ToolOptimization, TLAPS

USE ToolOptimizationAssumption

-----------------------------------------------------------------------------
(* The inductive invariants.                                               *)

\* A scope's window is a task that has not taken its queue yet, and that of
\* no other scope; without a window nothing is queued; only flushing tasks
\* have a batch; a call that is queued or in a batch has arrived.
BankInv ==
    /\ \A k \in Scopes : window[k] = NoTask => pending[k] = <<>>
    /\ \A k \in Scopes : window[k] # NoTask => stage[window[k]] \in {"tick", "sleep"}
    /\ \A k, l \in Scopes : window[k] = window[l] /\ window[k] # NoTask => k = l
    /\ \A w \in Tasks : stage[w] # "flush" => batch[w] = {}
    /\ \A k \in Scopes : \A i \in 1..Len(pending[k]) :
          ScopeOf[pending[k][i]] = k /\ pc[pending[k][i]] # "new"
    /\ \A w \in Tasks : \A c \in batch[w] : pc[c] # "new"

Flying == {"window", "handler", "settled"}

\* What a call has seen is not older than the edits that had returned when it
\* came in, and nothing has been emptied under a call that is not late.
SeenInv ==
    /\ \A s \in States : edited[s] <= files
    /\ \A c \in Calls : floor[c] <= edited[StateOf[c]]
    /\ \A c \in Calls : got[c] \in Nat => got[c] <= files
    /\ \A c \in Calls : pc[c] = "new" => got[c] = None
    /\ \A c \in Calls : Cacheable(c) /\ got[c] \in Nat => floor[c] <= got[c]
    /\ \A c \in Calls : pc[c] \in Flying /\ c \notin late =>
          scope[StateOf[c]] = ScopeOf[c] /\ edited[StateOf[c]] = floor[c]

\* A cache entry that no late lookup has made is of the state's scope and not
\* older than the state's last edit.
CacheInv ==
    \A s \in States : \A g \in Sigs : cache[s][g] # NoEntry =>
        \/ cache[s][g].by \in late
        \/ /\ edited[s] <= cache[s][g].at
           /\ ScopeOf[cache[s][g].by] = scope[s]

BankSafe == TypeOK /\ BankInv /\ RunOnce /\ SearchHeld
ReuseSafe == BankSafe /\ SeenInv /\ CacheInv /\ AnswerSound

-----------------------------------------------------------------------------
(* Type correctness.                                                       *)

\* What is not an entry of the cache is told apart from one.
LEMMA ToldIsNoEntry == \A what : Told(what) \notin Entries
  BY DEF Told, Entries

\* The cache and streak a call finds are well formed.
LEMMA ForTypes ==
    ASSUME TypeOK, NEW c \in Calls
    PROVE  /\ CacheFor(c) \in [Sigs -> Entries \cup {NoEntry}]
           /\ StreakFor(c) \in [path : Paths \cup {NoPath}, n : 0..THRESHOLD - 1]
           /\ Grown(c) \in [path : Paths \cup {NoPath}, n : 0..THRESHOLD]
  <1>1. CacheFor(c) \in [Sigs -> Entries \cup {NoEntry}]
    BY DEF CacheFor, Empty, TypeOK, ToolOptimizationAssumption
  <1>2. StreakFor(c) \in [path : Paths \cup {NoPath}, n : 0..THRESHOLD - 1]
    BY DEF StreakFor, NoStreak, TypeOK, THRESHOLD, ToolOptimizationAssumption
  <1>3. Grown(c) \in [path : Paths \cup {NoPath}, n : 0..THRESHOLD]
    BY <1>2 DEF Grown, NoStreak, THRESHOLD, ToolOptimizationAssumption
  <1> QED  BY <1>1, <1>2, <1>3

LEMMA ArriveTypes ==
    ASSUME TypeOK, NEW c \in Calls, NEW run \in [path : Paths \cup {NoPath}, n : 0..THRESHOLD - 1],
           Arrive(c, run)
    PROVE  /\ scope' \in [States -> Scopes \cup {NoScope}]
           /\ cache' \in [States -> [Sigs -> Entries \cup {NoEntry}]]
           /\ streak' \in [States -> [path : Paths \cup {NoPath}, n : 0..THRESHOLD - 1]]
           /\ floor' \in [Calls -> Nat]
           /\ late' \subseteq Calls
           /\ UNCHANGED <<got, files, edited>>
  BY ForTypes DEF Arrive, TypeOK, InFlight, ToolOptimizationAssumption

\* A streak that is kept is too short to be refused.
LEMMA ShortStreak ==
    ASSUME TypeOK, NEW c \in Calls, ~Thrash(c)
    PROVE  Grown(c) \in [path : Paths \cup {NoPath}, n : 0..THRESHOLD - 1]
  BY ForTypes DEF Thrash, THRESHOLD

LEMMA TakeTypes ==
    ASSUME TypeOK, NEW w \in Tasks, NEW k \in Scopes, Take(w, k)
    PROVE  /\ pending' \in [Scopes -> Seq(Calls)]
           /\ window' \in [Scopes -> Tasks \cup {NoTask}]
           /\ stage' \in [Tasks -> {"idle", "tick", "sleep", "flush"}]
           /\ batch' \in [Tasks -> SUBSET Calls]
  <1>1. Elements(pending[k]) \subseteq Calls
    BY DEF Elements, TypeOK
  <1> QED  BY <1>1 DEF Take, TypeOK

LEMMA EnqueueTypes ==
    ASSUME TypeOK, NEW c \in Calls, Enqueue(c)
    PROVE  /\ pending' \in [Scopes -> Seq(Calls)]
           /\ window' \in [Scopes -> Tasks \cup {NoTask}]
           /\ stage' \in [Tasks -> {"idle", "tick", "sleep", "flush"}]
           /\ batch' \in [Tasks -> SUBSET Calls]
  <1> DEFINE k == ScopeOf[c]
  <1>1. k \in Scopes /\ pending' = [pending EXCEPT ![k] = Append(@, c)] /\ batch' = batch
    BY DEF Enqueue, ToolOptimizationAssumption
  <1>2. pending' \in [Scopes -> Seq(Calls)] /\ batch' \in [Tasks -> SUBSET Calls]
    BY <1>1 DEF TypeOK
  <1>3. CASE window[k] # NoTask
    BY <1>2, <1>3 DEF Enqueue, TypeOK
  <1>4. CASE window[k] = NoTask
    <2>1. PICK w \in Tasks : /\ stage' = [stage EXCEPT ![w] = "tick"]
                             /\ window' = [window EXCEPT ![k] = w]
      BY <1>4 DEF Enqueue
    <2> QED  BY <1>2, <2>1 DEF TypeOK
  <1> QED  BY <1>3, <1>4

LEMMA TellTypes ==
    ASSUME TypeOK, NEW c \in Calls, NEW a \in Answers, Tell(c, a)
    PROVE  answer' \in [Calls -> Answers] /\ pc' \in [Calls -> Flying \cup {"new", "done"}]
  BY DEF Tell, TypeOK, Flying

LEMMA TypeInit == Init => TypeOK
  BY DEF Init, TypeOK, Answers, Empty, NoStreak, THRESHOLD, ToolOptimizationAssumption

LEMMA TypeCall ==
    ASSUME TypeOK, NEW c \in Calls, Call(c)
    PROVE  TypeOK'
  <1>1. CASE Refuse(c)
    <2>1. NoStreak \in [path : Paths \cup {NoPath}, n : 0..THRESHOLD - 1]
      BY DEF NoStreak, THRESHOLD
    <2>2. answer' \in [Calls -> Answers] /\ pc' \in [Calls -> Flying \cup {"new", "done"}]
      BY <1>1 DEF Refuse, Tell, Told, Answers, TypeOK, Flying
    <2> QED  BY <1>1, <2>1, <2>2, ArriveTypes DEF Refuse, bankVars, TypeOK, Flying
  <1>2. CASE Hit(c)
    <2>1. CacheFor(c)[Sig[c]] \in Answers
      BY ForTypes DEF Answers, ToolOptimizationAssumption
    <2>2. answer' \in [Calls -> Answers] /\ pc' \in [Calls -> Flying \cup {"new", "done"}]
      BY <1>2, <2>1 DEF Hit, Tell, TypeOK, Flying
    <2>3. ~Thrash(c)
      BY <1>2 DEF Hit, Hits
    <2> QED  BY <1>2, <2>2, <2>3, ShortStreak, ArriveTypes DEF Hit, bankVars, TypeOK, Flying
  <1>3. CASE Direct(c)
    <2>1. answer' \in [Calls -> Answers] /\ pc' \in [Calls -> Flying \cup {"new", "done"}]
      BY <1>3 DEF Direct, Told, Answers, TypeOK, Flying
    <2>2. ~Thrash(c)
      BY <1>3 DEF Direct, Misses
    <2>3. Arrive(c, Grown(c)) /\ UNCHANGED <<pending, window, stage, batch>>
      BY <1>3 DEF Direct, bankVars
    <2> QED  BY <2>1, <2>2, <2>3, ShortStreak, ArriveTypes DEF TypeOK, Flying
  <1>4. CASE Search(c)
    <2>1. answer' \in [Calls -> Answers] /\ pc' \in [Calls -> Flying \cup {"new", "done"}]
      BY <1>4 DEF Search, Told, Answers, TypeOK, Flying
    <2>2. ~Thrash(c)
      BY <1>4 DEF Search, Misses
    <2>3. Arrive(c, Grown(c)) /\ Enqueue(c)
      BY <1>4 DEF Search
    <2> QED  BY <2>1, <2>2, <2>3, ShortStreak, ArriveTypes, EnqueueTypes DEF TypeOK, Flying
  <1>5. CASE Read(c)
    BY <1>5 DEF Read, reuseVars, bankVars, history, TypeOK
  <1>6. CASE Effect(c)
    BY <1>6 DEF Effect, reuseVars, bankVars, history, TypeOK
  <1>7. CASE LookupReturns(c)
    <2>1. [at |-> got[c], by |-> c] \in Entries
      BY <1>7 DEF LookupReturns, Entries
    <2>2. cache' \in [States -> [Sigs -> Entries \cup {NoEntry}]]
      BY <1>7, <2>1 DEF LookupReturns, Store, TypeOK, ToolOptimizationAssumption
    <2>3. answer' \in [Calls -> Answers] /\ pc' \in [Calls -> Flying \cup {"new", "done"}]
      BY <1>7, <2>1 DEF LookupReturns, Tell, Answers, TypeOK, Flying
    <2> QED  BY <1>7, <2>2, <2>3 DEF LookupReturns, bankVars, history, TypeOK, Flying
  <1>8. CASE EditReturns(c)
    <2>1. cache' \in [States -> [Sigs -> Entries \cup {NoEntry}]]
      BY <1>8 DEF EditReturns, Invalidate, Empty, TypeOK
    <2>2. answer' \in [Calls -> Answers] /\ pc' \in [Calls -> Flying \cup {"new", "done"}]
      BY <1>8 DEF EditReturns, Tell, Told, Answers, TypeOK, Flying
    <2>3. edited' \in [States -> Nat]
      BY <1>8 DEF EditReturns, TypeOK, ToolOptimizationAssumption
    <2>4. late' \subseteq Calls
      BY <1>8 DEF EditReturns, InFlight, TypeOK
    <2> QED  BY <1>8, <2>1, <2>2, <2>3, <2>4 DEF EditReturns, bankVars, TypeOK, Flying
  <1>9. CASE Raises(c) \/ Cancel(c)
    <2>1. Tell(c, Told("raised")) \/ Tell(c, Told("cancelled"))
      BY <1>9 DEF Raises, Cancel
    <2>2. Told("raised") \in Answers /\ Told("cancelled") \in Answers
      BY DEF Told, Answers
    <2>3. answer' \in [Calls -> Answers] /\ pc' \in [Calls -> Flying \cup {"new", "done"}]
      BY <2>1, <2>2, TellTypes
    <2>4. UNCHANGED <<got, reuseVars, bankVars, files, history>>
      BY <1>9 DEF Raises, Cancel
    <2> QED  BY <2>3, <2>4 DEF reuseVars, bankVars, history, TypeOK, Flying
  <1> QED  BY <1>1, <1>2, <1>3, <1>4, <1>5, <1>6, <1>7, <1>8, <1>9 DEF Call

LEMMA TypeWindow ==
    ASSUME TypeOK, NEW w \in Tasks, Window(w)
    PROVE  TypeOK'
  <1>1. CASE Tick(w)
    <2>1. PICK k \in Scopes :
             /\ IF Len(pending[k]) = 1
                THEN Take(w, k)
                ELSE /\ stage' = [stage EXCEPT ![w] = "sleep"]
                     /\ UNCHANGED <<pending, window, batch>>
             /\ UNCHANGED <<callVars, reuseVars, files, history>>
      BY <1>1 DEF Tick
    <2>2. CASE Len(pending[k]) = 1
      BY <2>1, <2>2, TakeTypes DEF callVars, reuseVars, history, TypeOK
    <2>3. CASE Len(pending[k]) # 1
      BY <2>1, <2>3 DEF callVars, reuseVars, history, TypeOK
    <2> QED  BY <2>2, <2>3
  <1>2. CASE WindowOver(w)
    BY <1>2, TakeTypes DEF WindowOver, callVars, reuseVars, history, TypeOK
  <1>3. CASE Resolve(w)
    BY <1>3 DEF Resolve, reuseVars, history, TypeOK
  <1>4. ASSUME NEW c \in Calls, Look(w, c) PROVE TypeOK'
    BY <1>4 DEF Look, reuseVars, bankVars, history, TypeOK
  <1> QED  BY <1>1, <1>2, <1>3, <1>4 DEF Window

LEMMA TypeStep == TypeOK /\ [Next]_vars => TypeOK'
  <1> SUFFICES ASSUME TypeOK, [Next]_vars PROVE TypeOK'
    OBVIOUS
  <1>1. CASE UNCHANGED vars
    BY <1>1 DEF vars, callVars, reuseVars, bankVars, history, TypeOK
  <1> QED  BY <1>1, TypeCall, TypeWindow DEF Next

\* Every variable keeps its type; in particular a streak of reads is refused
\* before it reaches THRESHOLD, for any calls and any sharing of states.
THEOREM OptimizationTyping == Spec => []TypeOK
  BY TypeInit, TypeStep, PTL DEF Spec

-----------------------------------------------------------------------------
(* The window bank.                                                        *)

LEMMA AppendElements ==
    ASSUME NEW q \in Seq(Calls), NEW c \in Calls
    PROVE  Elements(Append(q, c)) = Elements(q) \cup {c}
  <1>1. \A i \in 1..Len(q) : Append(q, c)[i] = q[i]
    OBVIOUS
  <1>2. Append(q, c)[Len(q) + 1] = c /\ Len(Append(q, c)) = Len(q) + 1
    OBVIOUS
  <1>3. 1..(Len(q) + 1) = (1..Len(q)) \cup {Len(q) + 1}
    OBVIOUS
  <1> QED  BY <1>1, <1>2, <1>3 DEF Elements

LEMMA BankInit == Init => BankSafe
  <1> SUFFICES ASSUME Init PROVE BankSafe
    OBVIOUS
  <1>1. TypeOK
    BY TypeInit
  <1>2. BankInv /\ SearchHeld
    BY DEF Init, BankInv, SearchHeld
  <1>3. RunOnce
    BY DEF Init, RunOnce, Elements
  <1> QED  BY <1>1, <1>2, <1>3 DEF BankSafe

\* Steps that leave the bank alone and let no call wait that did not before.
LEMMA BankQuiet ==
    ASSUME BankSafe, UNCHANGED <<pending, window, stage, batch>>,
           \A c \in Calls : pc'[c] = "window" => pc[c] = "window",
           \A c \in Calls : pc'[c] = "new" => pc[c] = "new"
    PROVE  BankInv' /\ RunOnce' /\ SearchHeld'
  <1>1. BankInv'
    BY DEF BankSafe, BankInv, TypeOK
  <1>2. RunOnce'
    BY DEF BankSafe, RunOnce, Elements
  <1>3. SearchHeld'
    BY DEF BankSafe, SearchHeld, Queued, Elements
  <1> QED  BY <1>1, <1>2, <1>3

\* A task takes its scope's queue: every search of it changes hands once.
LEMMA BankTake ==
    ASSUME BankSafe, NEW w \in Tasks, NEW k \in Scopes, window[k] = w,
           stage[w] \in {"tick", "sleep"}, Take(w, k), UNCHANGED pc
    PROVE  BankInv' /\ RunOnce' /\ SearchHeld'
  <1> DEFINE Q == Elements(pending[k])
  <1>1. /\ batch' = [batch EXCEPT ![w] = Q]
        /\ pending' = [pending EXCEPT ![k] = <<>>]
        /\ window' = [window EXCEPT ![k] = NoTask]
        /\ stage' = [stage EXCEPT ![w] = "flush"]
    BY DEF Take
  <1>2. \A l \in Scopes \ {k} : window[l] # w
    BY DEF BankSafe, BankInv, TypeOK, ToolOptimizationAssumption
  <1>3. /\ \A l \in Scopes \ {k} : pending'[l] = pending[l] /\ window'[l] = window[l]
        /\ pending'[k] = <<>> /\ window'[k] = NoTask
        /\ \A v \in Tasks \ {w} : batch'[v] = batch[v] /\ stage'[v] = stage[v]
        /\ batch'[w] = Q /\ stage'[w] = "flush"
    BY <1>1 DEF BankSafe, TypeOK
  <1>4. \A c \in Q : ScopeOf[c] = k /\ pc[c] # "new"
    BY DEF Elements, BankSafe, BankInv
  <1>5. BankInv'
    <2>1. \A l \in Scopes : window'[l] = NoTask => pending'[l] = <<>>
      BY <1>3 DEF BankSafe, BankInv
    <2>2. \A l \in Scopes : window'[l] # NoTask => stage'[window'[l]] \in {"tick", "sleep"}
      <3>1. ASSUME NEW l \in Scopes \ {k}, window[l] # NoTask
            PROVE  stage'[window[l]] \in {"tick", "sleep"}
        <4>1. window[l] \in Tasks \ {w}
          BY <3>1, <1>2 DEF BankSafe, TypeOK
        <4> QED  BY <3>1, <4>1, <1>3 DEF BankSafe, BankInv
      <3> QED  BY <3>1, <1>3
    <2>3. \A l, m \in Scopes : window'[l] = window'[m] /\ window'[l] # NoTask => l = m
      BY <1>3 DEF BankSafe, BankInv
    <2>4. \A v \in Tasks : stage'[v] # "flush" => batch'[v] = {}
      BY <1>3 DEF BankSafe, BankInv
    <2>5. \A l \in Scopes : \A i \in 1..Len(pending'[l]) :
             ScopeOf[pending'[l][i]] = l /\ pc'[pending'[l][i]] # "new"
      BY <1>3 DEF BankSafe, BankInv
    <2>6. \A v \in Tasks : \A c \in batch'[v] : pc'[c] # "new"
      BY <1>3, <1>4 DEF BankSafe, BankInv
    <2> QED  BY <2>1, <2>2, <2>3, <2>4, <2>5, <2>6 DEF BankInv
  <1>6. RunOnce'
    <2>1. \A v \in Tasks : batch[v] \cap Q = {}
      BY DEF BankSafe, RunOnce
    <2>2. \A u, v \in Tasks : u # v => batch'[u] \cap batch'[v] = {}
      BY <1>3, <2>1 DEF BankSafe, RunOnce
    <2>3. \A l \in Scopes \ {k} : Elements(pending[l]) \cap Q = {}
      BY <1>4 DEF Elements, BankSafe, BankInv
    <2>4. \A l \in Scopes, v \in Tasks : Elements(pending'[l]) \cap batch'[v] = {}
      <3>1. Elements(<<>>) = {}
        BY DEF Elements
      <3> QED  BY <1>3, <2>3, <3>1 DEF BankSafe, RunOnce
    <2>5. \A l \in Scopes : \A i, j \in 1..Len(pending'[l]) :
             i # j => pending'[l][i] # pending'[l][j]
      BY <1>3 DEF BankSafe, RunOnce
    <2> QED  BY <2>2, <2>4, <2>5 DEF RunOnce
  <1>7. SearchHeld'
    <2>1. ASSUME NEW c \in Calls, pc'[c] = "window"
          PROVE  \/ \E l \in Scopes : window'[l] # NoTask /\ Queued(c, l)'
                 \/ \E v \in Tasks : stage'[v] = "flush" /\ c \in batch'[v]
      <3>1. CASE \E l \in Scopes : window[l] # NoTask /\ Queued(c, l)
        <4>1. PICK l \in Scopes : window[l] # NoTask /\ Queued(c, l)
          BY <3>1
        <4>2. CASE l = k
          BY <4>1, <4>2, <1>3 DEF Queued
        <4>3. CASE l # k
          <5>1. /\ window'[l] = window[l] /\ pending'[l] = pending[l]
                /\ window[l] \in Tasks \ {w}
            BY <4>1, <4>3, <1>2, <1>3 DEF BankSafe, TypeOK
          <5> QED  BY <4>1, <5>1, <1>3 DEF Queued, Elements
        <4> QED  BY <4>2, <4>3
      <3>2. CASE \E v \in Tasks : stage[v] = "flush" /\ c \in batch[v]
        BY <3>2, <1>3
      <3> QED  BY <2>1, <3>1, <3>2 DEF BankSafe, SearchHeld
    <2> QED  BY <2>1 DEF SearchHeld
  <1> QED  BY <1>5, <1>6, <1>7

\* A search joins its scope's queue behind a window that is open or opened.
LEMMA BankSearch ==
    ASSUME BankSafe, NEW c \in Calls, Enqueue(c), pc[c] = "new",
           pc' = [pc EXCEPT ![c] = "window"]
    PROVE  BankInv' /\ RunOnce' /\ SearchHeld'
  <1> DEFINE k == ScopeOf[c]
  <1>1. /\ k \in Scopes /\ batch' = batch
        /\ pending' = [pending EXCEPT ![k] = Append(pending[k], c)]
    BY DEF Enqueue, ToolOptimizationAssumption
  <1>2. /\ pending'[k] = Append(pending[k], c)
        /\ \A l \in Scopes \ {k} : pending'[l] = pending[l]
        /\ pending \in [Scopes -> Seq(Calls)] /\ stage \in [Tasks -> {"idle", "tick", "sleep", "flush"}]
        /\ window \in [Scopes -> Tasks \cup {NoTask}]
        /\ pc' = [pc EXCEPT ![c] = "window"] /\ pc \in [Calls -> Flying \cup {"new", "done"}]
        /\ batch \in [Tasks -> SUBSET Calls]
    BY <1>1 DEF BankSafe, TypeOK, Flying
  <1>3. /\ \A l \in Scopes : c \notin Elements(pending[l])
        /\ \A v \in Tasks : c \notin batch[v]
    BY DEF Elements, BankSafe, BankInv
  \* The window of k is open afterwards, all others are what they were.
  <1>4. /\ window' \in [Scopes -> Tasks \cup {NoTask}]
        /\ window'[k] # NoTask
        /\ stage'[window'[k]] \in {"tick", "sleep"}
        /\ \A l \in Scopes \ {k} : window'[l] = window[l] /\ window[l] # window'[k]
        /\ \A v \in Tasks : v # window'[k] => stage'[v] = stage[v]
        /\ \A v \in Tasks : stage[v] = "flush" => stage'[v] = "flush"
        /\ \A v \in Tasks : stage'[v] = "flush" => stage[v] = "flush"
    <2>1. CASE window[k] # NoTask
      <3>1. UNCHANGED <<window, stage>>
        BY <2>1 DEF Enqueue
      <3>2. \A l \in Scopes \ {k} : window[l] # window[k]
        BY <2>1, <1>1 DEF BankSafe, BankInv
      <3> QED  BY <2>1, <3>1, <3>2, <1>1, <1>2 DEF BankSafe, BankInv
    <2>2. CASE window[k] = NoTask
      <3>1. PICK w \in Tasks : /\ stage[w] = "idle"
                               /\ stage' = [stage EXCEPT ![w] = "tick"]
                               /\ window' = [window EXCEPT ![k] = w]
        BY <2>2 DEF Enqueue
      <3>2. window'[k] = w /\ w # NoTask /\ stage'[w] = "tick"
        BY <1>1, <1>2, <3>1 DEF ToolOptimizationAssumption
      <3>3. \A l \in Scopes \ {k} : window[l] # w
        BY <3>1, <3>2 DEF BankSafe, BankInv
      <3> QED  BY <1>1, <1>2, <3>1, <3>2, <3>3
    <2> QED  BY <2>1, <2>2
  <1>5. BankInv'
    <2>1. \A l \in Scopes : window'[l] = NoTask => pending'[l] = <<>>
      BY <1>2, <1>4 DEF BankSafe, BankInv
    <2>2. \A l \in Scopes : window'[l] # NoTask => stage'[window'[l]] \in {"tick", "sleep"}
      <3>1. ASSUME NEW l \in Scopes \ {k}, window[l] # NoTask
            PROVE  stage'[window[l]] \in {"tick", "sleep"}
        <4>1. window[l] \in Tasks /\ window[l] # window'[k]
          BY <3>1, <1>2, <1>4
        <4> QED  BY <3>1, <4>1, <1>4 DEF BankSafe, BankInv
      <3> QED  BY <3>1, <1>4
    <2>3. \A l, m \in Scopes : window'[l] = window'[m] /\ window'[l] # NoTask => l = m
      BY <1>4 DEF BankSafe, BankInv
    <2>4. \A v \in Tasks : stage'[v] # "flush" => batch'[v] = {}
      BY <1>1, <1>4 DEF BankSafe, BankInv
    <2>5. \A l \in Scopes : \A i \in 1..Len(pending'[l]) :
             ScopeOf[pending'[l][i]] = l /\ pc'[pending'[l][i]] # "new"
      <3>1. ASSUME NEW l \in Scopes \ {k}, NEW i \in 1..Len(pending[l])
            PROVE  ScopeOf[pending[l][i]] = l /\ pc'[pending[l][i]] # "new"
        BY <1>2 DEF BankSafe, BankInv
      <3>2. ASSUME NEW i \in 1..Len(pending[k])
            PROVE  ScopeOf[pending[k][i]] = k /\ pc'[pending[k][i]] # "new"
        BY <1>1, <1>2 DEF BankSafe, BankInv
      <3>3. ASSUME NEW i \in 1..Len(pending'[k])
            PROVE  ScopeOf[pending'[k][i]] = k /\ pc'[pending'[k][i]] # "new"
        <4>1. CASE i = Len(pending[k]) + 1
          BY <4>1, <1>1, <1>2
        <4>2. CASE i # Len(pending[k]) + 1
          <5>1. i \in 1..Len(pending[k]) /\ pending'[k][i] = pending[k][i]
            BY <4>2, <1>1, <1>2
          <5> QED  BY <5>1, <3>2
        <4> QED  BY <4>1, <4>2
      <3>4. ASSUME NEW l \in Scopes, NEW i \in 1..Len(pending'[l])
            PROVE  ScopeOf[pending'[l][i]] = l /\ pc'[pending'[l][i]] # "new"
        <4>1. CASE l = k
          BY <4>1, <3>3
        <4>2. CASE l # k
          <5>1. pending'[l] = pending[l] /\ l \in Scopes \ {k}
            BY <4>2, <1>2
          <5> QED  BY <5>1, <3>1
        <4> QED  BY <4>1, <4>2
      <3> QED  BY <3>4
    <2>6. \A v \in Tasks : \A d \in batch'[v] : pc'[d] # "new"
      BY <1>1, <1>2 DEF BankSafe, BankInv
    <2> QED  BY <2>1, <2>2, <2>3, <2>4, <2>5, <2>6 DEF BankInv
  <1>6. Elements(pending'[k]) = Elements(pending[k]) \cup {c}
    BY <1>1, <1>2, AppendElements
  <1>7. RunOnce'
    <2>1. \A u, v \in Tasks : u # v => batch'[u] \cap batch'[v] = {}
      BY <1>1 DEF BankSafe, RunOnce
    <2>2. \A l \in Scopes, v \in Tasks : Elements(pending'[l]) \cap batch'[v] = {}
      BY <1>1, <1>2, <1>3, <1>6 DEF BankSafe, RunOnce
    <2>3. \A i, j \in 1..Len(pending'[k]) : i # j => pending'[k][i] # pending'[k][j]
      <3>1. \A i \in 1..Len(pending[k]) : pending'[k][i] = pending[k][i] /\ pending[k][i] # c
        BY <1>1, <1>2, <1>3 DEF Elements
      <3>2. /\ pending'[k][Len(pending[k]) + 1] = c
            /\ Len(pending'[k]) = Len(pending[k]) + 1
            /\ Len(pending[k]) \in Nat
        BY <1>1, <1>2
      <3>3. \A i \in 1..Len(pending'[k]) : i \in 1..Len(pending[k]) \/ i = Len(pending[k]) + 1
        BY <3>2
      <3>4. \A i, j \in 1..Len(pending[k]) : i # j => pending[k][i] # pending[k][j]
        BY <1>1 DEF BankSafe, RunOnce
      <3> QED  BY <3>1, <3>2, <3>3, <3>4
    <2>4. \A l \in Scopes \ {k} : \A i, j \in 1..Len(pending'[l]) :
             i # j => pending'[l][i] # pending'[l][j]
      BY <1>2 DEF BankSafe, RunOnce
    <2> QED  BY <2>1, <2>2, <2>3, <2>4 DEF RunOnce
  <1>8. SearchHeld'
    <2>1. ASSUME NEW d \in Calls, pc'[d] = "window"
          PROVE  \/ \E l \in Scopes : window'[l] # NoTask /\ Queued(d, l)'
                 \/ \E v \in Tasks : stage'[v] = "flush" /\ d \in batch'[v]
      <3>1. CASE d = c
        BY <3>1, <1>1, <1>4, <1>6 DEF Queued
      <3>2. CASE d # c /\ \E l \in Scopes : window[l] # NoTask /\ Queued(d, l)
        <4>1. PICK l \in Scopes : window[l] # NoTask /\ Queued(d, l)
          BY <3>2
        <4>2. CASE l = k
          BY <4>1, <4>2, <1>4, <1>6 DEF Queued
        <4>3. CASE l # k
          <5>1. window'[l] = window[l] /\ pending'[l] = pending[l] /\ stage'[window[l]] = stage[window[l]]
            BY <4>1, <4>3, <1>2, <1>4
          <5> QED  BY <4>1, <5>1 DEF Queued, Elements
        <4> QED  BY <4>2, <4>3
      <3>3. CASE d # c /\ \E v \in Tasks : stage[v] = "flush" /\ d \in batch[v]
        BY <3>3, <1>1, <1>4
      <3>4. d # c => pc[d] = "window"
        BY <2>1, <1>2
      <3> QED  BY <3>1, <3>2, <3>3, <3>4 DEF BankSafe, SearchHeld
    <2> QED  BY <2>1 DEF SearchHeld
  <1> QED  BY <1>5, <1>7, <1>8

\* A flush ends: the searches of the batch that still wait are settled.
LEMMA BankResolve ==
    ASSUME BankSafe, NEW w \in Tasks, Resolve(w)
    PROVE  BankInv' /\ RunOnce' /\ SearchHeld'
  <1>1. /\ UNCHANGED <<pending, window>>
        /\ batch' = [batch EXCEPT ![w] = {}] /\ stage' = [stage EXCEPT ![w] = "idle"]
        /\ stage[w] = "flush"
        /\ pc' = [c \in Calls |-> IF c \in batch[w] /\ pc[c] = "window"
                                  THEN "settled" ELSE pc[c]]
    BY DEF Resolve
  <1>2. /\ \A v \in Tasks \ {w} : batch'[v] = batch[v] /\ stage'[v] = stage[v]
        /\ batch'[w] = {} /\ stage'[w] = "idle"
        /\ \A k \in Scopes : window[k] # NoTask => window[k] \in Tasks \ {w}
    <2>1. /\ \A v \in Tasks \ {w} : batch'[v] = batch[v] /\ stage'[v] = stage[v]
          /\ batch'[w] = {} /\ stage'[w] = "idle"
      BY <1>1 DEF BankSafe, TypeOK
    <2>2. ASSUME NEW k \in Scopes, window[k] # NoTask PROVE window[k] \in Tasks \ {w}
      <3>1. window[k] \in Tasks
        BY <2>2 DEF BankSafe, TypeOK
      <3>2. stage[window[k]] # "flush"
        BY <2>2 DEF BankSafe, BankInv
      <3> QED  BY <3>1, <3>2, <1>1
    <2> QED  BY <2>1, <2>2
  <1>3. /\ \A c \in Calls : pc'[c] = "new" => pc[c] = "new"
        /\ \A c \in Calls : pc'[c] = "window" => pc[c] = "window" /\ c \notin batch[w]
    BY <1>1
  <1>4. BankInv'
    <2>1. \A k \in Scopes : window'[k] = NoTask => pending'[k] = <<>>
      BY <1>1 DEF BankSafe, BankInv
    <2>2. \A k \in Scopes : window'[k] # NoTask => stage'[window'[k]] \in {"tick", "sleep"}
      BY <1>1, <1>2 DEF BankSafe, BankInv
    <2>3. \A k, l \in Scopes : window'[k] = window'[l] /\ window'[k] # NoTask => k = l
      BY <1>1 DEF BankSafe, BankInv
    <2>4. \A v \in Tasks : stage'[v] # "flush" => batch'[v] = {}
      BY <1>2 DEF BankSafe, BankInv
    <2>5. \A k \in Scopes : \A i \in 1..Len(pending'[k]) :
             ScopeOf[pending'[k][i]] = k /\ pc'[pending'[k][i]] # "new"
      <3>1. ASSUME NEW k \in Scopes, NEW i \in 1..Len(pending[k])
            PROVE  ScopeOf[pending[k][i]] = k /\ pc'[pending[k][i]] # "new"
        <4>1. pending[k][i] \in Calls
          BY DEF BankSafe, TypeOK
        <4> QED  BY <4>1, <1>3 DEF BankSafe, BankInv
      <3> QED  BY <3>1, <1>1
    <2>6. \A v \in Tasks : \A c \in batch'[v] : pc'[c] # "new"
      <3>1. ASSUME NEW v \in Tasks \ {w}, NEW c \in batch[v] PROVE pc'[c] # "new"
        <4>1. c \in Calls
          BY DEF BankSafe, TypeOK
        <4> QED  BY <4>1, <1>3 DEF BankSafe, BankInv
      <3> QED  BY <3>1, <1>2
    <2> QED  BY <2>1, <2>2, <2>3, <2>4, <2>5, <2>6 DEF BankInv
  <1>5. RunOnce'
    <2>1. \A u, v \in Tasks : u # v => batch'[u] \cap batch'[v] = {}
      BY <1>2 DEF BankSafe, RunOnce
    <2>2. \A k \in Scopes, v \in Tasks : Elements(pending'[k]) \cap batch'[v] = {}
      BY <1>1, <1>2 DEF BankSafe, RunOnce
    <2>3. \A k \in Scopes : \A i, j \in 1..Len(pending'[k]) :
             i # j => pending'[k][i] # pending'[k][j]
      BY <1>1 DEF BankSafe, RunOnce
    <2> QED  BY <2>1, <2>2, <2>3 DEF RunOnce
  <1>6. SearchHeld'
    <2>1. ASSUME NEW c \in Calls, pc'[c] = "window"
          PROVE  \/ \E k \in Scopes : window'[k] # NoTask /\ Queued(c, k)'
                 \/ \E v \in Tasks : stage'[v] = "flush" /\ c \in batch'[v]
      <3>1. pc[c] = "window" /\ c \notin batch[w]
        BY <2>1, <1>3
      <3>2. CASE \E k \in Scopes : window[k] # NoTask /\ Queued(c, k)
        <4>1. PICK k \in Scopes : window[k] # NoTask /\ Queued(c, k)
          BY <3>2
        <4>2. window'[k] = window[k] /\ pending'[k] = pending[k] /\ stage'[window[k]] = stage[window[k]]
          BY <4>1, <1>1, <1>2
        <4> QED  BY <4>1, <4>2 DEF Queued, Elements
      <3>3. CASE \E v \in Tasks : stage[v] = "flush" /\ c \in batch[v]
        BY <3>1, <3>3, <1>2
      <3> QED  BY <3>1, <3>2, <3>3 DEF BankSafe, SearchHeld
    <2> QED  BY <2>1 DEF SearchHeld
  <1> QED  BY <1>4, <1>5, <1>6

\* A window that has company goes to sleep.
LEMMA BankSleep ==
    ASSUME BankSafe, NEW w \in Tasks, stage[w] = "tick",
           stage' = [stage EXCEPT ![w] = "sleep"], UNCHANGED <<pending, window, batch, pc>>
    PROVE  BankInv' /\ RunOnce' /\ SearchHeld'
  <1>1. \A v \in Tasks : /\ v # w => stage'[v] = stage[v]
                         /\ stage[v] \in {"tick", "sleep"} => stage'[v] \in {"tick", "sleep"}
                         /\ stage'[v] = "flush" <=> stage[v] = "flush"
    BY DEF BankSafe, TypeOK
  <1>2. BankInv'
    <2>1. \A k \in Scopes : window[k] # NoTask => stage'[window[k]] \in {"tick", "sleep"}
      BY <1>1 DEF BankSafe, BankInv, TypeOK
    <2>2. \A v \in Tasks : stage'[v] # "flush" => batch[v] = {}
      BY <1>1 DEF BankSafe, BankInv
    <2> QED  BY <2>1, <2>2 DEF BankSafe, BankInv
  <1>3. RunOnce'
    BY DEF BankSafe, RunOnce, Elements
  <1>4. SearchHeld'
    <2>1. \A k \in Scopes : window[k] # NoTask => window[k] \in Tasks
      BY DEF BankSafe, TypeOK
    <2>2. ASSUME NEW c \in Calls, NEW k \in Scopes, window[k] # NoTask, Queued(c, k)
          PROVE  window'[k] # NoTask /\ Queued(c, k)'
      BY <2>1, <2>2, <1>1 DEF Queued, Elements
    <2>3. ASSUME NEW c \in Calls, NEW v \in Tasks, stage[v] = "flush", c \in batch[v]
          PROVE  stage'[v] = "flush" /\ c \in batch'[v]
      BY <2>3, <1>1
    <2> QED  BY <2>2, <2>3 DEF BankSafe, SearchHeld
  <1> QED  BY <1>2, <1>3, <1>4

\* Every step of a call.
LEMMA BankCall ==
    ASSUME BankSafe, NEW c \in Calls, Call(c)
    PROVE  BankSafe'
  <1>1. TypeOK'
    BY TypeCall DEF BankSafe
  <1>2. CASE Search(c)
    BY <1>1, <1>2, BankSearch DEF Search, Arrive, BankSafe
  <1>3. CASE Refuse(c) \/ Hit(c) \/ Direct(c) \/ Read(c) \/ Effect(c)
             \/ LookupReturns(c) \/ EditReturns(c) \/ Raises(c) \/ Cancel(c)
    <2>1. UNCHANGED <<pending, window, stage, batch>>
      BY <1>3 DEF Refuse, Hit, Direct, Read, Effect, LookupReturns, EditReturns, Raises,
                  Cancel, bankVars
    <2>2. \/ UNCHANGED pc
          \/ pc' = [pc EXCEPT ![c] = "done"]
          \/ pc' = [pc EXCEPT ![c] = "handler"]
      BY <1>3 DEF Refuse, Hit, Direct, Read, Effect, LookupReturns, EditReturns, Raises,
                  Cancel, Tell
    <2>3. \A d \in Calls : /\ pc'[d] = "window" => pc[d] = "window"
                           /\ pc'[d] = "new" => pc[d] = "new"
      BY <2>2 DEF BankSafe, TypeOK
    <2>4. BankInv' /\ RunOnce' /\ SearchHeld'
      BY <2>1, <2>3, BankQuiet
    <2> QED  BY <1>1, <2>4 DEF BankSafe
  <1> QED  BY <1>2, <1>3 DEF Call

\* Every step of a window task.
LEMMA BankWindow ==
    ASSUME BankSafe, NEW w \in Tasks, Window(w)
    PROVE  BankSafe'
  <1>1. TypeOK'
    BY TypeWindow DEF BankSafe
  <1>2. CASE Tick(w)
    <2>1. PICK k \in Scopes :
             /\ stage[w] = "tick" /\ window[k] = w
             /\ IF Len(pending[k]) = 1
                THEN Take(w, k)
                ELSE /\ stage' = [stage EXCEPT ![w] = "sleep"]
                     /\ UNCHANGED <<pending, window, batch>>
             /\ UNCHANGED pc
      BY <1>2 DEF Tick, callVars
    <2>2. CASE Len(pending[k]) = 1
      BY <2>1, <2>2, <1>1, BankTake DEF BankSafe
    <2>3. CASE Len(pending[k]) # 1
      BY <2>1, <2>3, <1>1, BankSleep DEF BankSafe
    <2> QED  BY <2>2, <2>3
  <1>3. CASE WindowOver(w)
    BY <1>1, <1>3, BankTake DEF WindowOver, callVars, BankSafe
  <1>4. CASE Resolve(w)
    BY <1>1, <1>4, BankResolve DEF BankSafe
  <1>5. ASSUME NEW c \in Calls, Look(w, c) PROVE BankSafe'
    BY <1>1, <1>5, BankQuiet DEF Look, bankVars, BankSafe
  <1> QED  BY <1>2, <1>3, <1>4, <1>5 DEF Window

LEMMA BankStep == BankSafe /\ [Next]_vars => BankSafe'
  <1> SUFFICES ASSUME BankSafe, [Next]_vars PROVE BankSafe'
    OBVIOUS
  <1>1. CASE UNCHANGED vars
    <2>1. TypeOK'
      BY <1>1, TypeStep DEF BankSafe
    <2> QED  BY <1>1, <2>1, BankQuiet DEF vars, callVars, bankVars, BankSafe
  <1> QED  BY <1>1, BankCall, BankWindow DEF Next

\* The bank's invariant holds of every behaviour.
THEOREM BankInvariance == Spec => []BankSafe
  BY BankInit, BankStep, PTL DEF Spec

\* No waiting search is lost: it is behind an open window or in a flush.
THEOREM BankSearchHeld == Spec => []SearchHeld
  <1>1. BankSafe => SearchHeld  BY DEF BankSafe
  <1> QED  BY <1>1, BankInvariance, PTL

\* No search is run twice, whatever windows of whatever scopes overlap.
THEOREM BankRunOnce == Spec => []RunOnce
  <1>1. BankSafe => RunOnce  BY DEF BankSafe
  <1> QED  BY <1>1, BankInvariance, PTL

\* SearchOnce: a search that waits is flushed, and flushed once.
THEOREM BankSearchOnce == Spec => []SearchOnce
  BY BankSearchHeld, BankRunOnce, PTL DEF SearchOnce

-----------------------------------------------------------------------------
(* The lookup cache.                                                       *)

LEMMA ReuseInit == Init => ReuseSafe
  <1> SUFFICES ASSUME Init PROVE ReuseSafe
    OBVIOUS
  <1>1. SeenInv
    BY DEF Init, SeenInv, Flying, ToolOptimizationAssumption
  <1>2. CacheInv
    BY DEF Init, CacheInv, Empty
  <1>3. AnswerSound
    BY DEF Init, AnswerSound, Entries, ToolOptimizationAssumption
  <1> QED  BY <1>1, <1>2, <1>3, BankInit DEF ReuseSafe

\* Steps that leave the reuse states and what calls have seen alone, and start
\* no call; an answer they give is no lookup's.
LEMMA ReuseQuiet ==
    ASSUME ReuseSafe, UNCHANGED <<got, scope, cache, files, edited, floor, late>>,
           \A c \in Calls : pc'[c] = "new" => pc[c] = "new",
           \A c \in Calls : pc'[c] \in Flying => pc[c] \in Flying,
           \A c \in Calls : answer'[c] = answer[c] \/ answer'[c] \notin Entries
    PROVE  SeenInv' /\ CacheInv' /\ AnswerSound'
  <1>1. SeenInv'
    BY DEF ReuseSafe, SeenInv, Cacheable
  <1>2. CacheInv'
    BY DEF ReuseSafe, CacheInv
  <1>3. AnswerSound'
    BY DEF ReuseSafe, AnswerSound
  <1> QED  BY <1>1, <1>2, <1>3

\* A call comes in and moves, or does not move, its reuse state to its scope:
\* where it moves, all others in flight are late from now on.
LEMMA ReuseArrive ==
    ASSUME ReuseSafe, NEW c \in Calls, NEW run, Arrive(c, run),
           \E place \in Flying \cup {"done"} : pc' = [pc EXCEPT ![c] = place]
    PROVE  SeenInv' /\ CacheInv'
  <1> DEFINE s == StateOf[c]
  <1>1. /\ s \in States /\ pc[c] = "new"
        /\ scope' = [scope EXCEPT ![s] = ScopeOf[c]]
        /\ cache' = [cache EXCEPT ![s] = CacheFor(c)]
        /\ floor' = [floor EXCEPT ![c] = edited[s]]
        /\ late' = IF Moved(c) THEN late \cup InFlight(s) ELSE late
        /\ UNCHANGED <<got, files, edited>>
    BY DEF Arrive, ToolOptimizationAssumption
  <1>2. /\ scope'[s] = ScopeOf[c] /\ cache'[s] = CacheFor(c) /\ floor'[c] = edited[s]
        /\ \A t \in States \ {s} : scope'[t] = scope[t] /\ cache'[t] = cache[t]
        /\ \A d \in Calls \ {c} : floor'[d] = floor[d] /\ pc'[d] = pc[d]
        /\ pc'[c] # "new"
        /\ late \subseteq late'
    BY <1>1 DEF ReuseSafe, BankSafe, TypeOK, Flying
  <1>3. got[c] = None
    BY <1>1 DEF ReuseSafe, SeenInv
  <1>4. SeenInv'
    <2>1. \A t \in States : edited'[t] <= files'
      BY <1>1 DEF ReuseSafe, SeenInv
    <2>2. \A d \in Calls : floor'[d] <= edited'[StateOf[d]]
      BY <1>1, <1>2 DEF ReuseSafe, SeenInv, BankSafe, TypeOK
    <2>3. \A d \in Calls : got'[d] \in Nat => got'[d] <= files'
      BY <1>1 DEF ReuseSafe, SeenInv
    <2>4. \A d \in Calls : pc'[d] = "new" => got'[d] = None
      BY <1>1, <1>2 DEF ReuseSafe, SeenInv
    <2>5. \A d \in Calls : Cacheable(d) /\ got'[d] \in Nat => floor'[d] <= got'[d]
      BY <1>1, <1>2, <1>3 DEF ReuseSafe, SeenInv, ToolOptimizationAssumption
    <2>6. ASSUME NEW d \in Calls, pc'[d] \in Flying, d \notin late'
          PROVE  scope'[StateOf[d]] = ScopeOf[d] /\ edited'[StateOf[d]] = floor'[d]
      <3>1. CASE d = c
        BY <3>1, <1>1, <1>2
      <3>2. CASE d # c /\ StateOf[d] = s
        <4>1. pc[d] \in Flying /\ d \notin late /\ floor'[d] = floor[d]
          BY <2>6, <3>2, <1>2
        <4>2. ~Moved(c)
          BY <2>6, <3>2, <4>1, <1>1 DEF InFlight, Flying
        <4> QED  BY <3>2, <4>1, <4>2, <1>1, <1>2 DEF Moved, ReuseSafe, SeenInv
      <3>3. CASE d # c /\ StateOf[d] # s
        <4>1. StateOf[d] \in States \ {s} /\ pc[d] \in Flying /\ d \notin late
          BY <2>6, <3>3, <1>2 DEF ToolOptimizationAssumption
        <4> QED  BY <3>3, <4>1, <1>1, <1>2 DEF ReuseSafe, SeenInv
      <3> QED  BY <3>1, <3>2, <3>3
    <2> QED  BY <2>1, <2>2, <2>3, <2>4, <2>5, <2>6 DEF SeenInv, Cacheable
  <1>5. CacheInv'
    <2>1. ASSUME NEW t \in States, NEW g \in Sigs, cache'[t][g] # NoEntry
          PROVE  \/ cache'[t][g].by \in late'
                 \/ /\ edited'[t] <= cache'[t][g].at
                    /\ ScopeOf[cache'[t][g].by] = scope'[t]
      <3>1. CASE t = s
        <4>1. ~Moved(c) /\ cache'[s][g] = cache[s][g]
          BY <2>1, <3>1, <1>2 DEF CacheFor, Empty
        <4>2. scope'[s] = scope[s]
          BY <4>1, <1>2 DEF Moved
        <4> QED  BY <2>1, <3>1, <4>1, <4>2, <1>1, <1>2 DEF ReuseSafe, CacheInv
      <3>2. CASE t # s
        BY <2>1, <3>2, <1>1, <1>2 DEF ReuseSafe, CacheInv
      <3> QED  BY <3>1, <3>2
    <2> QED  BY <2>1 DEF CacheInv
  <1> QED  BY <1>4, <1>5

\* What the cache answers a call that comes in is sound.
LEMMA ReuseHit ==
    ASSUME ReuseSafe, NEW c \in Calls, Hit(c)
    PROVE  AnswerSound'
  <1> DEFINE s == StateOf[c]
             e == CacheFor(c)[Sig[c]]
  <1>1. /\ s \in States /\ Sig[c] \in Sigs
        /\ e # NoEntry
        /\ answer' = [answer EXCEPT ![c] = e]
        /\ floor' = [floor EXCEPT ![c] = edited[s]]
        /\ late \subseteq late'
    BY DEF Hit, Hits, Tell, Arrive, ToolOptimizationAssumption
  <1>2. ~Moved(c) /\ e = cache[s][Sig[c]]
    BY <1>1 DEF CacheFor, Empty
  <1>3. e.by \in late \/ (edited[s] <= e.at /\ ScopeOf[e.by] = ScopeOf[c])
    BY <1>1, <1>2 DEF Moved, ReuseSafe, CacheInv
  <1>4. e \in Entries
    BY <1>1, ForTypes DEF ReuseSafe, BankSafe
  <1>5. /\ answer'[c] = e /\ floor'[c] = edited[s]
        /\ \A d \in Calls \ {c} : answer'[d] = answer[d] /\ floor'[d] = floor[d]
    BY <1>1 DEF ReuseSafe, BankSafe, TypeOK
  <1>6. edited[s] \in Nat /\ e.at \in Nat
    BY <1>1, <1>4 DEF Entries, ReuseSafe, BankSafe, TypeOK
  <1> HIDE DEF e, s
  <1>7. e.by \in late' \/ (e.at >= floor'[c] /\ ScopeOf[e.by] = ScopeOf[c])
    BY <1>1, <1>3, <1>5, <1>6
  <1> QED  BY <1>1, <1>5, <1>7 DEF ReuseSafe, AnswerSound

\* Calls that come in without an answer from the cache.
LEMMA ReuseMiss ==
    ASSUME ReuseSafe, NEW c \in Calls, Refuse(c) \/ Direct(c) \/ Search(c)
    PROVE  AnswerSound'
  <1>1. /\ \E what \in {"refused", "waiting"} : answer' = [answer EXCEPT ![c] = Told(what)]
        /\ late \subseteq late'
        /\ \A d \in Calls \ {c} : floor'[d] = floor[d]
    BY DEF Refuse, Direct, Search, Tell, Arrive, ReuseSafe, BankSafe, TypeOK
  <1>2. /\ answer'[c] \notin Entries
        /\ \A d \in Calls \ {c} : answer'[d] = answer[d]
    BY <1>1, ToldIsNoEntry DEF ReuseSafe, BankSafe, TypeOK
  <1> QED  BY <1>1, <1>2 DEF ReuseSafe, AnswerSound

\* A handler looks at the files: it sees every edit that has returned.
LEMMA ReuseLook ==
    ASSUME ReuseSafe, NEW c \in Calls, pc[c] # "new",
           \E r \in {files, Raised} : got' = [got EXCEPT ![c] = r],
           UNCHANGED <<pc, answer, scope, cache, files, edited, floor, late>>
    PROVE  SeenInv' /\ CacheInv' /\ AnswerSound'
  <1>1. PICK r \in {files, Raised} : got' = [got EXCEPT ![c] = r]
    OBVIOUS
  <1>2. got'[c] = r /\ \A d \in Calls \ {c} : got'[d] = got[d]
    BY <1>1 DEF ReuseSafe, BankSafe, TypeOK
  <1>3. files \in Nat /\ floor[c] \in Nat /\ floor[c] <= files
    <2>1. /\ floor[c] <= edited[StateOf[c]] /\ edited[StateOf[c]] <= files
          /\ floor[c] \in Nat /\ edited[StateOf[c]] \in Nat /\ files \in Nat
      BY DEF ReuseSafe, BankSafe, TypeOK, SeenInv, ToolOptimizationAssumption
    <2> QED  BY <2>1
  <1>4. SeenInv'
    <2>1. \A d \in Calls : got'[d] \in Nat => got'[d] <= files
      BY <1>2, <1>3 DEF ReuseSafe, SeenInv, ToolOptimizationAssumption
    <2>2. \A d \in Calls : pc[d] = "new" => got'[d] = None
      BY <1>2 DEF ReuseSafe, SeenInv
    <2>3. \A d \in Calls : Cacheable(d) /\ got'[d] \in Nat => floor[d] <= got'[d]
      BY <1>2, <1>3 DEF ReuseSafe, SeenInv, ToolOptimizationAssumption
    <2> QED  BY <2>1, <2>2, <2>3 DEF ReuseSafe, SeenInv, Cacheable
  <1>5. CacheInv' /\ AnswerSound'
    BY DEF ReuseSafe, CacheInv, AnswerSound
  <1> QED  BY <1>4, <1>5

\* An edit takes effect: what calls have seen stays true of the past.
LEMMA ReuseEffect ==
    ASSUME ReuseSafe, NEW c \in Calls, Effect(c)
    PROVE  SeenInv' /\ CacheInv' /\ AnswerSound'
  <1>1. /\ pc[c] = "handler" /\ ~Cacheable(c)
        /\ files' = files + 1
        /\ got' = [got EXCEPT ![c] = files + 1]
        /\ UNCHANGED <<pc, answer, scope, cache, edited, floor, late>>
    BY DEF Effect, Cacheable, reuseVars, history
  <1>2. /\ got'[c] = files + 1 /\ \A d \in Calls \ {c} : got'[d] = got[d]
        /\ files \in Nat /\ \A t \in States : edited[t] \in Nat
    BY <1>1 DEF ReuseSafe, BankSafe, TypeOK
  <1>3. SeenInv'
    <2>1. \A t \in States : edited[t] <= files + 1
      BY <1>2 DEF ReuseSafe, SeenInv
    <2>2. \A d \in Calls : got'[d] \in Nat => got'[d] <= files + 1
      BY <1>2 DEF ReuseSafe, SeenInv
    <2>3. \A d \in Calls : pc[d] = "new" => got'[d] = None
      BY <1>1, <1>2 DEF ReuseSafe, SeenInv
    <2>4. \A d \in Calls : Cacheable(d) /\ got'[d] \in Nat => floor[d] <= got'[d]
      BY <1>1, <1>2 DEF ReuseSafe, SeenInv
    <2> QED  BY <1>1, <2>1, <2>2, <2>3, <2>4 DEF ReuseSafe, SeenInv, Cacheable
  <1>4. CacheInv' /\ AnswerSound'
    BY <1>1 DEF ReuseSafe, CacheInv, AnswerSound
  <1> QED  BY <1>3, <1>4

\* A lookup returns: its answer, and the entry it leaves, are what it saw.
LEMMA ReuseLookup ==
    ASSUME ReuseSafe, NEW c \in Calls, LookupReturns(c)
    PROVE  SeenInv' /\ CacheInv' /\ AnswerSound'
  <1> DEFINE s == StateOf[c]
             e == [at |-> got[c], by |-> c]
  <1>1. /\ s \in States /\ Sig[c] \in Sigs
        /\ Cacheable(c) /\ got[c] \in Nat /\ pc[c] \in Flying
        /\ answer' = [answer EXCEPT ![c] = e]
        /\ pc' = [pc EXCEPT ![c] = "done"]
        /\ cache' = [cache EXCEPT ![s][Sig[c]] = e]
        /\ UNCHANGED <<got, scope, files, edited, floor, late>>
    BY DEF LookupReturns, Tell, Store, history, Flying, ToolOptimizationAssumption
  <1>2. e.at = got[c] /\ e.by = c
    OBVIOUS
  <1> HIDE DEF e
  <1>3. /\ cache'[s][Sig[c]] = e
        /\ \A g \in Sigs \ {Sig[c]} : cache'[s][g] = cache[s][g]
        /\ \A t \in States \ {s} : cache'[t] = cache[t]
        /\ answer'[c] = e /\ \A d \in Calls \ {c} : answer'[d] = answer[d]
        /\ pc'[c] = "done" /\ \A d \in Calls \ {c} : pc'[d] = pc[d]
    BY <1>1 DEF ReuseSafe, BankSafe, TypeOK
  <1>4. SeenInv'
    <2>1. \A d \in Calls : /\ pc'[d] = "new" => pc[d] = "new"
                           /\ pc'[d] \in Flying => pc[d] \in Flying
      BY <1>1, <1>3
    <2> QED  BY <1>1, <2>1 DEF ReuseSafe, SeenInv, Cacheable
  <1>5. floor[c] <= got[c]
    BY <1>1 DEF ReuseSafe, SeenInv
  <1>6. CacheInv'
    <2>1. e.by \in late \/ (edited[s] <= e.at /\ ScopeOf[e.by] = scope[s])
      BY <1>1, <1>2, <1>5 DEF ReuseSafe, SeenInv
    <2>2. ASSUME NEW t \in States, NEW g \in Sigs, cache'[t][g] # NoEntry
          PROVE  \/ cache'[t][g].by \in late
                 \/ /\ edited[t] <= cache'[t][g].at
                    /\ ScopeOf[cache'[t][g].by] = scope[t]
      <3>1. CASE t = s /\ g = Sig[c]
        BY <3>1, <1>3, <2>1
      <3>2. CASE ~(t = s /\ g = Sig[c])
        <4>1. cache'[t][g] = cache[t][g]
          BY <3>2, <1>3
        <4> QED  BY <2>2, <4>1 DEF ReuseSafe, CacheInv
      <3> QED  BY <3>1, <3>2
    <2> QED  BY <2>2, <1>1 DEF CacheInv
  <1>7. AnswerSound'
    <2>1. floor[c] \in Nat
      BY DEF ReuseSafe, BankSafe, TypeOK
    <2>2. e.at >= floor[c] /\ ScopeOf[e.by] = ScopeOf[c]
      BY <1>1, <1>2, <1>5, <2>1
    <2> QED  BY <1>1, <1>3, <2>2 DEF ReuseSafe, AnswerSound
  <1> QED  BY <1>4, <1>6, <1>7

\* An edit returns and empties the cache: all others in flight are late.
LEMMA ReuseEdit ==
    ASSUME ReuseSafe, NEW c \in Calls, EditReturns(c)
    PROVE  SeenInv' /\ CacheInv' /\ AnswerSound'
  <1> DEFINE s == StateOf[c]
  <1>1. /\ s \in States
        /\ answer' = [answer EXCEPT ![c] = Told("edited")]
        /\ pc' = [pc EXCEPT ![c] = "done"]
        /\ cache' = [cache EXCEPT ![s] = Empty]
        /\ edited' = IF got[c] \in Nat /\ got[c] > edited[s]
                     THEN [edited EXCEPT ![s] = got[c]] ELSE edited
        /\ late' = late \cup (InFlight(s) \ {c})
        /\ UNCHANGED <<got, scope, files, floor>>
    BY DEF EditReturns, Tell, Invalidate, ToolOptimizationAssumption
  <1>2. /\ cache'[s] = Empty /\ \A t \in States \ {s} : cache'[t] = cache[t]
        /\ \A t \in States \ {s} : edited'[t] = edited[t]
        /\ edited[s] \in Nat /\ edited'[s] \in Nat
        /\ edited[s] <= edited'[s] /\ edited'[s] <= files
        /\ answer'[c] = Told("edited") /\ \A d \in Calls \ {c} : answer'[d] = answer[d]
        /\ pc'[c] = "done" /\ \A d \in Calls \ {c} : pc'[d] = pc[d]
        /\ late \subseteq late'
    <2>1. edited[s] \in Nat /\ edited[s] <= files /\ edited \in [States -> Nat]
      BY <1>1 DEF ReuseSafe, BankSafe, TypeOK, SeenInv
    <2>2. CASE got[c] \in Nat /\ got[c] > edited[s]
      <3>1. edited' = [edited EXCEPT ![s] = got[c]] /\ got[c] <= files
        BY <1>1, <2>2 DEF ReuseSafe, SeenInv
      <3> QED  BY <1>1, <2>1, <2>2, <3>1 DEF ReuseSafe, BankSafe, TypeOK
    <2>3. CASE ~(got[c] \in Nat /\ got[c] > edited[s])
      BY <1>1, <2>1, <2>3 DEF ReuseSafe, BankSafe, TypeOK
    <2> QED  BY <2>2, <2>3
  <1>3. SeenInv'
    <2>1. \A t \in States : edited'[t] <= files
      BY <1>2 DEF ReuseSafe, SeenInv
    <2>2. ASSUME NEW d \in Calls PROVE floor[d] <= edited'[StateOf[d]]
      <3>1. /\ StateOf[d] \in States /\ floor[d] \in Nat /\ edited[StateOf[d]] \in Nat
            /\ floor[d] <= edited[StateOf[d]]
        BY DEF ReuseSafe, BankSafe, TypeOK, SeenInv, ToolOptimizationAssumption
      <3>2. CASE StateOf[d] = s
        BY <3>1, <3>2, <1>2
      <3>3. CASE StateOf[d] # s
        BY <3>1, <3>3, <1>2
      <3> QED  BY <3>2, <3>3
    <2>3. \A d \in Calls : pc'[d] = "new" => pc[d] = "new"
      BY <1>2
    <2>4. ASSUME NEW d \in Calls, pc'[d] \in Flying, d \notin late'
          PROVE  scope[StateOf[d]] = ScopeOf[d] /\ edited'[StateOf[d]] = floor[d]
      <3>1. d # c /\ pc[d] \in Flying /\ d \notin late
        BY <2>4, <1>2 DEF Flying
      <3>2. StateOf[d] # s
        BY <2>4, <3>1, <1>1 DEF InFlight, Flying
      <3>3. StateOf[d] \in States \ {s}
        BY <3>2 DEF ToolOptimizationAssumption
      <3> QED  BY <3>1, <3>3, <1>2 DEF ReuseSafe, SeenInv
    <2> QED  BY <1>1, <2>1, <2>2, <2>3, <2>4 DEF ReuseSafe, SeenInv, Cacheable
  <1>4. CacheInv'
    <2>1. ASSUME NEW t \in States, NEW g \in Sigs, cache'[t][g] # NoEntry
          PROVE  \/ cache'[t][g].by \in late'
                 \/ /\ edited'[t] <= cache'[t][g].at
                    /\ ScopeOf[cache'[t][g].by] = scope'[t]
      <3>1. t # s
        BY <2>1, <1>2 DEF Empty
      <3>2. cache'[t] = cache[t] /\ edited'[t] = edited[t]
        BY <3>1, <1>2
      <3> QED  BY <2>1, <3>2, <1>1, <1>2 DEF ReuseSafe, CacheInv
    <2> QED  BY <2>1 DEF CacheInv
  <1>5. AnswerSound'
    BY <1>1, <1>2, ToldIsNoEntry DEF ReuseSafe, AnswerSound
  <1> QED  BY <1>3, <1>4, <1>5

LEMMA ReuseStep == ReuseSafe /\ [Next]_vars => ReuseSafe'
  <1> SUFFICES ASSUME ReuseSafe, [Next]_vars PROVE ReuseSafe'
    OBVIOUS
  <1>1. BankSafe'
    BY BankStep DEF ReuseSafe
  <1>2. CASE UNCHANGED vars
    <2>1. SeenInv' /\ CacheInv' /\ AnswerSound'
      BY <1>2, ReuseQuiet DEF vars, callVars, reuseVars, history
    <2> QED  BY <1>1, <2>1 DEF ReuseSafe
  <1>3. ASSUME NEW c \in Calls, Refuse(c) \/ Direct(c) \/ Search(c) \/ Hit(c)
        PROVE  ReuseSafe'
    <2>1. /\ \E run : Arrive(c, run)
          /\ \E place \in Flying \cup {"done"} : pc' = [pc EXCEPT ![c] = place]
      BY <1>3 DEF Refuse, Direct, Search, Hit, Tell, Flying
    <2>2. SeenInv' /\ CacheInv'
      BY <2>1, ReuseArrive
    <2>3. AnswerSound'
      BY <1>3, ReuseMiss, ReuseHit
    <2> QED  BY <1>1, <2>2, <2>3 DEF ReuseSafe
  <1>4. ASSUME NEW c \in Calls, Read(c) PROVE ReuseSafe'
    <2>1. SeenInv' /\ CacheInv' /\ AnswerSound'
      BY <1>4, ReuseLook DEF Read, reuseVars, history
    <2> QED  BY <1>1, <2>1 DEF ReuseSafe
  <1>5. ASSUME NEW c \in Calls, Effect(c) \/ LookupReturns(c) \/ EditReturns(c)
        PROVE  ReuseSafe'
    BY <1>1, <1>5, ReuseEffect, ReuseLookup, ReuseEdit DEF ReuseSafe
  <1>6. ASSUME NEW c \in Calls, Raises(c) \/ Cancel(c) PROVE ReuseSafe'
    <2>1. /\ \E what \in {"raised", "cancelled"} : answer' = [answer EXCEPT ![c] = Told(what)]
          /\ pc' = [pc EXCEPT ![c] = "done"]
          /\ UNCHANGED <<got, scope, cache, files, edited, floor, late>>
      BY <1>6 DEF Raises, Cancel, Tell, reuseVars, history
    <2>2. \A d \in Calls : /\ pc'[d] = "new" => pc[d] = "new"
                           /\ pc'[d] \in Flying => pc[d] \in Flying
                           /\ answer'[d] = answer[d] \/ answer'[d] \notin Entries
      BY <2>1, ToldIsNoEntry DEF ReuseSafe, BankSafe, TypeOK, Flying
    <2>3. SeenInv' /\ CacheInv' /\ AnswerSound'
      BY <2>1, <2>2, ReuseQuiet
    <2> QED  BY <1>1, <2>3 DEF ReuseSafe
  <1>7. ASSUME NEW w \in Tasks, Tick(w) \/ WindowOver(w) \/ Resolve(w) PROVE ReuseSafe'
    <2>1. UNCHANGED <<got, answer, scope, cache, files, edited, floor, late>>
      BY <1>7 DEF Tick, WindowOver, Resolve, callVars, reuseVars, history
    <2>2. \A d \in Calls : /\ pc'[d] = "new" => pc[d] = "new"
                           /\ pc'[d] \in Flying => pc[d] \in Flying
      BY <1>7 DEF Tick, WindowOver, Resolve, callVars, Flying
    <2>3. SeenInv' /\ CacheInv' /\ AnswerSound'
      BY <2>1, <2>2, ReuseQuiet
    <2> QED  BY <1>1, <2>3 DEF ReuseSafe
  <1>8. ASSUME NEW w \in Tasks, NEW c \in Calls, Look(w, c) PROVE ReuseSafe'
    <2>1. pc[c] # "new"
      BY <1>8 DEF Look, ReuseSafe, BankSafe, BankInv
    <2>2. SeenInv' /\ CacheInv' /\ AnswerSound'
      BY <1>8, <2>1, ReuseLook DEF Look, reuseVars, history
    <2> QED  BY <1>1, <2>2 DEF ReuseSafe
  <1> QED  BY <1>2, <1>3, <1>4, <1>5, <1>6, <1>7, <1>8 DEF Next, Call, Window

\* A lookup's answer shows every edit of its state that had returned before it
\* came in and is of its own scope, unless it was seen by a lookup in flight
\* when the cache was emptied: for any calls, signatures, scopes and sharing
\* of reuse states.
THEOREM ReuseAnswerSound == Spec => []AnswerSound
  <1>1. ReuseSafe => AnswerSound  BY DEF ReuseSafe
  <1> QED  BY <1>1, ReuseInit, ReuseStep, PTL DEF Spec

-----------------------------------------------------------------------------
(* Liveness needs fairness and stays with TLC; its safety part is proved.  *)

\* A window is open for searches and a flush has some; a search is never in
\* a handler of its own, and settled only when its result is there.
Banked(c) == Kind[c] = "search" /\ pc[c] \in {"window", "done"}
WaitInv ==
    /\ \A k \in Scopes : window[k] # NoTask => Elements(pending[k]) # {}
    /\ \A w \in Tasks : stage[w] = "flush" => batch[w] # {}
    /\ \A k \in Scopes : \A c \in Elements(pending[k]) : Banked(c)
    /\ \A w \in Tasks : \A c \in batch[w] : Banked(c)
    /\ \A c \in Calls : pc[c] = "settled" => Kind[c] = "search" /\ got[c] # None
    /\ \A c \in Calls : pc[c] = "handler" => Kind[c] # "search"

\* The coroutine of the call has a step to take.
CallCanMove(c) ==
    \/ pc[c] = "handler" /\ Kind[c] \in {"read", "edit"}
    \/ pc[c] = "settled" /\ Kind[c] = "search" /\ got[c] # None

\* The window task has a step to take.
WindowCanMove(w) ==
    \/ stage[w] = "flush"
    \/ stage[w] \in {"tick", "sleep"} /\ \E k \in Scopes : window[k] = w

\* LookupsNeverStuck: a call in flight goes on by itself, or its search is
\* with a window task that goes on: windows that overlap, and callers that
\* are cancelled in one, leave no search with a task that has ended.
LookupsNeverStuck ==
    \A c \in Calls :
        /\ pc[c] \in {"handler", "settled"} => CallCanMove(c)
        /\ pc[c] = "window" =>
              \E w \in Tasks :
                 /\ WindowCanMove(w)
                 /\ \/ c \in batch[w]
                    \/ \E k \in Scopes : window[k] = w /\ c \in Elements(pending[k])

\* How far a call has come: new, queued, queued in a window that sleeps, in a
\* flush or a handler before and after its look at the files, and out of both.
Place(c) ==
    CASE pc[c] = "new" -> 0
      [] pc[c] # "new" /\ c \in Elements(pending[ScopeOf[c]]) ->
            IF stage[window[ScopeOf[c]]] = "tick" THEN 1 ELSE 2
      [] /\ pc[c] # "new" /\ c \notin Elements(pending[ScopeOf[c]])
         /\ pc[c] = "handler" \/ \E w \in Tasks : c \in batch[w] ->
            IF got[c] = None THEN 3 ELSE 4
      [] OTHER -> 5

\* A call that was told, or cancelled, while its search goes on counts one more.
Progress(c) == IF pc[c] = "done" THEN Place(c) + 1 ELSE Place(c)

\* LookupsMove: every step takes a call forward and none back; a call can be
\* taken forward six times, so that every behaviour comes to an end.
LookupsMove ==
    /\ \E c \in Calls : Progress(c)' > Progress(c)
    /\ \A c \in Calls : Progress(c)' >= Progress(c)

LEMMA NoElements == Elements(<<>>) = {}
  BY DEF Elements

LEMMA ElementsAreCalls ==
    ASSUME TypeOK, NEW k \in Scopes
    PROVE  Elements(pending[k]) \subseteq Calls
  BY DEF TypeOK, Elements

\* Steps that leave the bank alone and only move a call of their own.
LEMMA WaitQuiet ==
    ASSUME BankSafe, WaitInv, UNCHANGED <<pending, window, stage, batch>>, NEW c \in Calls,
           \A d \in Calls \ {c} : pc'[d] = pc[d] /\ got'[d] = got[d],
           pc'[c] # pc[c] => pc'[c] = "done" \/ (pc'[c] = "handler" /\ Kind[c] # "search"),
           pc'[c] = "handler" /\ pc[c] # "handler" => pc[c] = "new",
           got'[c] # got[c] => got'[c] # None
    PROVE  WaitInv'
  <1>1. \A d \in Calls : Banked(d) /\ (d # c \/ pc'[c] # "handler" \/ pc[c] = "handler") => Banked(d)'
    BY DEF Banked
  <1>2. \A d \in Calls : Banked(d) => Banked(d)'
    BY <1>1 DEF Banked
  <1>3. \A k \in Scopes : \A d \in Elements(pending'[k]) : Banked(d)'
    BY <1>2, ElementsAreCalls DEF BankSafe, WaitInv
  <1>4. \A w \in Tasks : \A d \in batch'[w] : Banked(d)'
    BY <1>2 DEF BankSafe, TypeOK, WaitInv
  <1>5. \A d \in Calls : pc'[d] = "settled" => Kind[d] = "search" /\ got'[d] # None
    BY DEF WaitInv
  <1>6. \A d \in Calls : pc'[d] = "handler" => Kind[d] # "search"
    BY DEF WaitInv
  <1> QED  BY <1>3, <1>4, <1>5, <1>6 DEF WaitInv

\* What the steps of a call other than a search that is queued do.
LEMMA CallQuiet ==
    ASSUME BankSafe, WaitInv, NEW c \in Calls, Call(c), ~Search(c)
    PROVE  /\ UNCHANGED <<pending, window, stage, batch>>
           /\ \A d \in Calls \ {c} : pc'[d] = pc[d] /\ got'[d] = got[d]
           /\ \/ /\ pc[c] = "new" /\ pc'[c] = "handler" /\ Kind[c] # "search"
                 /\ UNCHANGED got
              \/ pc[c] # "done" /\ pc'[c] = "done" /\ UNCHANGED got
              \/ UNCHANGED pc /\ pc[c] = "handler" /\ got[c] = None /\ got'[c] # None
  <1> USE DEF BankSafe, TypeOK
  <1>1. CASE Refuse(c) \/ Hit(c)
    BY <1>1 DEF Refuse, Hit, Arrive, Tell, bankVars
  <1>2. CASE Direct(c)
    BY <1>2 DEF Direct, Arrive, bankVars
  <1>3. CASE Read(c)
    BY <1>3 DEF Read, bankVars
  <1>4. CASE Effect(c)
    BY <1>4 DEF Effect, bankVars
  <1>5. CASE LookupReturns(c) \/ EditReturns(c) \/ Raises(c) \/ Cancel(c)
    BY <1>5 DEF LookupReturns, EditReturns, Raises, Cancel, Tell, bankVars
  <1> QED  BY <1>1, <1>2, <1>3, <1>4, <1>5 DEF Call

\* What the step of a search that is queued does.
LEMMA SearchShape ==
    ASSUME BankSafe, NEW c \in Calls, Search(c)
    PROVE  /\ pc[c] = "new" /\ Kind[c] = "search" /\ pc'[c] = "window"
           /\ \A d \in Calls \ {c} : pc'[d] = pc[d]
           /\ UNCHANGED <<got, batch>>
           /\ Elements(pending'[ScopeOf[c]]) = Elements(pending[ScopeOf[c]]) \cup {c}
           /\ \A k \in Scopes \ {ScopeOf[c]} :
                 pending'[k] = pending[k] /\ window'[k] = window[k]
           /\ \A k \in Scopes : window[k] # NoTask =>
                 window'[k] = window[k] /\ stage'[window[k]] = stage[window[k]]
           /\ \A w \in Tasks : stage'[w] = "flush" <=> stage[w] = "flush"
  <1> USE DEF BankSafe, TypeOK
  <1>1. /\ pc[c] = "new" /\ Kind[c] = "search" /\ pc'[c] = "window"
        /\ \A d \in Calls \ {c} : pc'[d] = pc[d]
        /\ UNCHANGED <<got, batch>>
        /\ Enqueue(c)
    BY DEF Search, Arrive, Enqueue
  <1>2. pending' = [pending EXCEPT ![ScopeOf[c]] = Append(@, c)]
    BY <1>1 DEF Enqueue
  <1>3. /\ Elements(pending'[ScopeOf[c]]) = Elements(pending[ScopeOf[c]]) \cup {c}
        /\ \A k \in Scopes \ {ScopeOf[c]} : pending'[k] = pending[k]
    BY <1>2, AppendElements
  <1>4. CASE window[ScopeOf[c]] # NoTask
    BY <1>1, <1>3, <1>4 DEF Enqueue
  <1>5. CASE window[ScopeOf[c]] = NoTask
    <2>1. PICK w \in Tasks : /\ stage[w] = "idle" /\ stage' = [stage EXCEPT ![w] = "tick"]
                             /\ window' = [window EXCEPT ![ScopeOf[c]] = w]
      BY <1>1, <1>5 DEF Enqueue
    <2>2. \A k \in Scopes : window[k] # NoTask => window[k] # w /\ k # ScopeOf[c]
      BY <1>5, <2>1 DEF BankInv
    <2> QED  BY <1>1, <1>3, <2>1, <2>2
  <1> QED  BY <1>4, <1>5

LEMMA WaitSearch == ASSUME BankSafe, WaitInv, NEW c \in Calls, Search(c) PROVE WaitInv'
  <1> DEFINE s == ScopeOf[c]
  <1>1. /\ pc[c] = "new" /\ Kind[c] = "search" /\ pc'[c] = "window"
        /\ \A d \in Calls \ {c} : pc'[d] = pc[d]
        /\ UNCHANGED <<got, batch>>
        /\ Elements(pending'[s]) = Elements(pending[s]) \cup {c}
        /\ \A k \in Scopes \ {s} : pending'[k] = pending[k] /\ window'[k] = window[k]
        /\ \A w \in Tasks : stage'[w] = "flush" <=> stage[w] = "flush"
    BY SearchShape
  <1>2. \A d \in Calls : Banked(d) => Banked(d)'
    BY <1>1 DEF Banked
  <1>3. Banked(c)'
    BY <1>1 DEF Banked
  <1> HIDE DEF s
  <1>4. \A k \in Scopes : window'[k] # NoTask => Elements(pending'[k]) # {}
    BY <1>1 DEF WaitInv
  <1>5. \A k \in Scopes : \A d \in Elements(pending'[k]) : Banked(d)'
    <2> SUFFICES ASSUME NEW k \in Scopes, NEW d \in Elements(pending'[k]) PROVE Banked(d)'
      OBVIOUS
    <2>1. CASE d = c
      BY <1>3, <2>1
    <2>2. CASE d # c
      <3>1. d \in Elements(pending[k])
        BY <1>1, <2>2
      <3> QED  BY <1>2, <3>1, ElementsAreCalls DEF BankSafe, WaitInv
    <2> QED  BY <2>1, <2>2
  <1>6. \A w \in Tasks : \A d \in batch'[w] : Banked(d)'
    BY <1>1, <1>2 DEF BankSafe, TypeOK, WaitInv
  <1> QED  BY <1>1, <1>4, <1>5, <1>6 DEF WaitInv

\* The three ways of a window task that are no look at the files.
LEMMA WindowWays ==
    ASSUME BankSafe, NEW w \in Tasks, Window(w)
    PROVE  \/ \E k \in Scopes :
                 /\ window[k] = w /\ stage[w] \in {"tick", "sleep"}
                 /\ Take(w, k) /\ UNCHANGED <<pc, got>>
           \/ \E k \in Scopes :
                 /\ window[k] = w /\ stage[w] = "tick"
                 /\ stage' = [stage EXCEPT ![w] = "sleep"]
                 /\ UNCHANGED <<pending, window, batch, pc, got>>
           \/ Resolve(w)
           \/ \E c \in Calls : Look(w, c)
  <1>1. CASE Tick(w)
    BY <1>1 DEF Tick, callVars
  <1>2. CASE WindowOver(w)
    BY <1>2 DEF WindowOver, callVars
  <1> QED  BY <1>1, <1>2 DEF Window

LEMMA WaitTake ==
    ASSUME BankSafe, WaitInv, NEW w \in Tasks, NEW k \in Scopes, window[k] = w,
           stage[w] \in {"tick", "sleep"}, Take(w, k), UNCHANGED <<pc, got>>
    PROVE  /\ WaitInv'
           /\ batch'[w] = Elements(pending[k]) /\ batch'[w] # {} /\ batch[w] = {}
           /\ stage'[w] = "flush"
           /\ Elements(pending'[k]) = {}
           /\ \A l \in Scopes \ {k} :
                 /\ pending'[l] = pending[l] /\ window'[l] = window[l]
                 /\ window[l] # NoTask => stage'[window[l]] = stage[window[l]]
           /\ \A v \in Tasks \ {w} : batch'[v] = batch[v] /\ stage'[v] = stage[v]
  <1> USE DEF BankSafe, TypeOK
  <1>1. /\ pending'[k] = <<>> /\ window'[k] = NoTask
        /\ \A l \in Scopes \ {k} : pending'[l] = pending[l] /\ window'[l] = window[l]
        /\ batch'[w] = Elements(pending[k]) /\ stage'[w] = "flush"
        /\ \A v \in Tasks \ {w} : batch'[v] = batch[v] /\ stage'[v] = stage[v]
    BY DEF Take
  <1>2. Elements(pending[k]) # {} /\ batch[w] = {}
    BY DEF WaitInv, BankInv
  <1>3. \A l \in Scopes \ {k} : window[l] # NoTask => window[l] # w
    BY DEF BankInv
  <1>4. \A d : Banked(d)' <=> Banked(d)
    BY DEF Banked
  <1>5. WaitInv'
    <2>1. \A l \in Scopes : window'[l] # NoTask => Elements(pending'[l]) # {}
      <3> SUFFICES ASSUME NEW l \in Scopes, window'[l] # NoTask PROVE Elements(pending'[l]) # {}
        OBVIOUS
      <3>1. l # k
        BY <1>1
      <3>2. pending'[l] = pending[l] /\ window[l] # NoTask
        BY <1>1, <3>1
      <3>3. Elements(pending[l]) # {}
        BY <3>2 DEF WaitInv
      <3> QED  BY <3>2, <3>3
    <2>2. \A v \in Tasks : stage'[v] = "flush" => batch'[v] # {}
      <3> SUFFICES ASSUME NEW v \in Tasks, stage'[v] = "flush" PROVE batch'[v] # {}
        OBVIOUS
      <3>1. CASE v = w
        BY <1>1, <1>2, <3>1
      <3>2. CASE v # w
        <4>1. stage[v] = "flush" /\ batch'[v] = batch[v]
          BY <1>1, <3>2
        <4> QED  BY <4>1 DEF WaitInv
      <3> QED  BY <3>1, <3>2
    <2>3. \A l \in Scopes : \A d \in Elements(pending'[l]) : Banked(d)'
      <3>1. Elements(pending'[k]) = {}
        BY <1>1, NoElements
      <3>2. \A l \in Scopes \ {k} : Elements(pending'[l]) = Elements(pending[l])
        BY <1>1
      <3> QED  BY <1>4, <3>1, <3>2 DEF WaitInv
    <2>4. \A v \in Tasks : \A d \in batch'[v] : Banked(d)'
      <3> SUFFICES ASSUME NEW v \in Tasks, NEW d \in batch'[v] PROVE Banked(d)'
        OBVIOUS
      <3>1. CASE v = w
        <4>1. d \in Elements(pending[k])
          BY <1>1, <3>1
        <4> QED  BY <1>4, <4>1 DEF WaitInv
      <3>2. CASE v # w
        <4>1. d \in batch[v]
          BY <1>1, <3>2
        <4> QED  BY <1>4, <4>1 DEF WaitInv
      <3> QED  BY <3>1, <3>2
    <2> QED  BY <2>1, <2>2, <2>3, <2>4 DEF WaitInv
  <1> QED  BY <1>1, <1>2, <1>3, <1>5, NoElements

LEMMA WaitStep == BankSafe /\ WaitInv /\ [Next]_vars => WaitInv'
  <1> SUFFICES ASSUME BankSafe, WaitInv, [Next]_vars PROVE WaitInv'
    OBVIOUS
  <1>1. CASE UNCHANGED vars
    BY <1>1 DEF vars, callVars, bankVars, WaitInv, Banked
  <1>2. ASSUME NEW c \in Calls, Call(c) PROVE WaitInv'
    <2>1. CASE Search(c)
      BY <2>1, WaitSearch
    <2>2. CASE ~Search(c)
      BY <1>2, <2>2, CallQuiet, WaitQuiet
    <2> QED  BY <2>1, <2>2
  <1>3. ASSUME NEW w \in Tasks, Window(w) PROVE WaitInv'
    <2>1. CASE \E k \in Scopes : /\ window[k] = w /\ stage[w] \in {"tick", "sleep"}
                                 /\ Take(w, k) /\ UNCHANGED <<pc, got>>
      BY <2>1, WaitTake
    <2>2. CASE /\ stage[w] = "tick" /\ stage' = [stage EXCEPT ![w] = "sleep"]
               /\ UNCHANGED <<pending, window, batch, pc, got>>
      BY <2>2 DEF WaitInv, Banked, BankSafe, TypeOK
    <2>3. CASE Resolve(w)
      <3>1. /\ \A c \in batch[w] : got[c] # None
            /\ \A c \in Calls : pc'[c] = IF c \in batch[w] /\ pc[c] = "window" THEN "settled" ELSE pc[c]
            /\ batch'[w] = {} /\ stage'[w] = "idle"
            /\ \A v \in Tasks \ {w} : batch'[v] = batch[v] /\ stage'[v] = stage[v]
            /\ UNCHANGED <<got, pending, window>>
        BY <2>3 DEF Resolve, BankSafe, TypeOK
      <3>2. \A d \in Calls : d \notin batch[w] /\ Banked(d) => Banked(d)'
        BY <3>1 DEF Banked
      <3>3. \A k \in Scopes : \A d \in Elements(pending[k]) : d \in Calls /\ d \notin batch[w]
        BY ElementsAreCalls DEF BankSafe, RunOnce
      <3>4. \A v \in Tasks \ {w} : \A d \in batch[v] : d \in Calls /\ d \notin batch[w]
        BY DEF BankSafe, TypeOK, RunOnce
      <3>5. \A c \in Calls : c \in batch[w] => Kind[c] = "search"
        BY DEF WaitInv, Banked
      <3>6. /\ \A c \in Calls : pc'[c] = "settled" => Kind[c] = "search" /\ got'[c] # None
            /\ \A c \in Calls : pc'[c] = "handler" => Kind[c] # "search"
        BY <3>1, <3>5 DEF WaitInv
      <3>7. /\ \A k \in Scopes : \A d \in Elements(pending'[k]) : Banked(d)'
            /\ \A v \in Tasks : \A d \in batch'[v] : Banked(d)'
        BY <3>1, <3>2, <3>3, <3>4 DEF WaitInv
      <3> QED  BY <3>1, <3>6, <3>7 DEF WaitInv
    <2>4. ASSUME NEW c \in Calls, Look(w, c) PROVE WaitInv'
      <3>1. /\ UNCHANGED <<pc, pending, window, stage, batch>>
            /\ \A d \in Calls : got[d] # None => got'[d] # None
        BY <2>4 DEF Look, bankVars, BankSafe, TypeOK
      <3> QED  BY <3>1 DEF WaitInv, Banked
    <2> QED  BY <1>3, <2>1, <2>2, <2>3, <2>4, WindowWays
  <1> QED  BY <1>1, <1>2, <1>3 DEF Next

LEMMA WaitInductive == Spec => [](BankSafe /\ WaitInv)
  <1>1. Init => WaitInv
    BY NoElements DEF Init, WaitInv
  <1> QED  BY <1>1, WaitStep, BankInvariance, PTL DEF Spec

\* LookupsNeverStuck, for any calls, scopes, states and window tasks.
THEOREM LookupsFreeOfDeadlock == Spec => []LookupsNeverStuck
  <1>1. BankSafe /\ WaitInv => LookupsNeverStuck
    <2> SUFFICES ASSUME BankSafe, WaitInv, NEW c \in Calls
                 PROVE  /\ pc[c] \in {"handler", "settled"} => CallCanMove(c)
                        /\ pc[c] = "window" =>
                              \E w \in Tasks :
                                 /\ WindowCanMove(w)
                                 /\ \/ c \in batch[w]
                                    \/ \E k \in Scopes : window[k] = w /\ c \in Elements(pending[k])
      BY DEF LookupsNeverStuck
    <2>1. pc[c] \in {"handler", "settled"} => CallCanMove(c)
      BY DEF WaitInv, CallCanMove
    <2>2. ASSUME NEW k \in Scopes, window[k] # NoTask, Queued(c, k)
          PROVE  window[k] \in Tasks /\ WindowCanMove(window[k]) /\ c \in Elements(pending[k])
      BY <2>2 DEF BankSafe, TypeOK, Queued, WindowCanMove
    <2> QED  BY <2>1, <2>2 DEF BankSafe, SearchHeld, WindowCanMove
  <1> QED  BY <1>1, WaitInductive, PTL

\* Where a call is tells its place.
PlaceFacts ==
    /\ \A c \in Calls : pc[c] = "new" => Place(c) = 0
    /\ \A k \in Scopes : \A c \in Elements(pending[k]) :
          Place(c) = IF stage[window[k]] = "tick" THEN 1 ELSE 2
    /\ \A w \in Tasks : \A c \in batch[w] : Place(c) = IF got[c] = None THEN 3 ELSE 4
    /\ \A c \in Calls : pc[c] = "handler" => Place(c) = IF got[c] = None THEN 3 ELSE 4
    /\ \A c \in Calls : /\ pc[c] \in {"settled", "done"}
                        /\ \A k \in Scopes : c \notin Elements(pending[k])
                        /\ \A w \in Tasks : c \notin batch[w]
                        => Place(c) = 5
    /\ \A c \in Calls : Place(c) \in 0 .. 5

LEMMA PlaceIsRight == BankSafe /\ WaitInv => PlaceFacts
  <1> SUFFICES ASSUME BankSafe, WaitInv PROVE PlaceFacts
    OBVIOUS
  <1>1. \A c \in Calls : Place(c) \in 0 .. 5
    BY DEF Place
  <1>2. \A c \in Calls : pc[c] = "new" => Place(c) = 0
    BY DEF Place
  <1>3. ASSUME NEW k \in Scopes, NEW c \in Elements(pending[k])
        PROVE  Place(c) = IF stage[window[k]] = "tick" THEN 1 ELSE 2
    <2>1. ScopeOf[c] = k /\ pc[c] # "new"
      BY DEF BankSafe, BankInv, Elements
    <2> QED  BY <2>1 DEF Place
  <1>4. ASSUME NEW w \in Tasks, NEW c \in batch[w]
        PROVE  Place(c) = IF got[c] = None THEN 3 ELSE 4
    <2>1. /\ c \in Calls /\ pc[c] # "new"
          /\ c \notin Elements(pending[ScopeOf[c]])
      BY DEF BankSafe, TypeOK, BankInv, RunOnce
    <2> QED  BY <2>1 DEF Place
  <1>5. ASSUME NEW c \in Calls, pc[c] = "handler"
        PROVE  Place(c) = IF got[c] = None THEN 3 ELSE 4
    <2>1. c \notin Elements(pending[ScopeOf[c]])
      BY <1>5 DEF WaitInv, Banked
    <2> QED  BY <1>5, <2>1 DEF Place
  <1>6. ASSUME NEW c \in Calls, pc[c] \in {"settled", "done"},
               \A k \in Scopes : c \notin Elements(pending[k]),
               \A w \in Tasks : c \notin batch[w]
        PROVE  Place(c) = 5
    BY <1>6 DEF Place
  <1> QED  BY <1>1, <1>2, <1>3, <1>4, <1>5, <1>6 DEF PlaceFacts

LEMMA ProgressOf ==
    ASSUME NEW c \in Calls, Place(c) \in 0 .. 5, Place(c)' \in 0 .. 5, Place(c)' >= Place(c),
           pc[c] = "done" => pc'[c] = "done"
    PROVE  /\ Progress(c)' >= Progress(c)
           /\ Place(c)' > Place(c) => Progress(c)' > Progress(c)
           /\ pc[c] # "done" /\ pc'[c] = "done" => Progress(c)' > Progress(c)
  BY DEF Progress

\* Nothing moves a call that no step of the bank and none of its own touches.
LEMMA PlaceStays ==
    ASSUME BankSafe, WaitInv, PlaceFacts, PlaceFacts', NEW d \in Calls,
           pc'[d] = pc[d], got'[d] = got[d],
           \A k \in Scopes : (d \in Elements(pending'[k])) <=> (d \in Elements(pending[k])),
           \A k \in Scopes : d \in Elements(pending[k]) => stage'[window'[k]] = stage[window[k]],
           \A w \in Tasks : (d \in batch'[w]) <=> (d \in batch[w])
    PROVE  Place(d)' = Place(d)
  <1>1. CASE pc[d] = "new"
    BY <1>1 DEF PlaceFacts
  <1>2. CASE \E k \in Scopes : d \in Elements(pending[k])
    BY <1>2 DEF PlaceFacts
  <1>3. CASE \E w \in Tasks : d \in batch[w]
    BY <1>3 DEF PlaceFacts
  <1>4. CASE pc[d] = "handler"
    BY <1>4 DEF PlaceFacts
  <1>5. CASE /\ pc[d] \in {"settled", "done"}
             /\ \A k \in Scopes : d \notin Elements(pending[k])
             /\ \A w \in Tasks : d \notin batch[w]
    BY <1>5 DEF PlaceFacts
  <1>6. pc[d] = "window" =>
           (\E k \in Scopes : d \in Elements(pending[k])) \/ (\E w \in Tasks : d \in batch[w])
    BY DEF BankSafe, SearchHeld, Queued
  <1>7. pc[d] \in {"new", "window", "handler", "settled", "done"}
    BY DEF BankSafe, TypeOK
  <1> QED  BY <1>1, <1>2, <1>3, <1>4, <1>5, <1>6, <1>7

LEMMA CallMoves ==
    ASSUME BankSafe, WaitInv, WaitInv', PlaceFacts, PlaceFacts', NEW c \in Calls, Call(c)
    PROVE  LookupsMove
  <1>0. \A d \in Calls : Place(d) \in 0 .. 5 /\ Place(d)' \in 0 .. 5
    BY DEF PlaceFacts
  <1>1. CASE Search(c)
    <2> DEFINE s == ScopeOf[c]
    <2>1. /\ pc[c] = "new" /\ pc'[c] = "window" /\ \A d \in Calls \ {c} : pc'[d] = pc[d]
          /\ UNCHANGED <<got, batch>>
          /\ Elements(pending'[s]) = Elements(pending[s]) \cup {c}
          /\ \A k \in Scopes \ {s} : pending'[k] = pending[k] /\ window'[k] = window[k]
          /\ \A k \in Scopes : window[k] # NoTask =>
                window'[k] = window[k] /\ stage'[window[k]] = stage[window[k]]
      BY <1>1, SearchShape
    <2>2. s \in Scopes
      OBVIOUS
    <2> HIDE DEF s
    <2>3. \A k \in Scopes : Elements(pending[k]) # {} => window[k] # NoTask
      BY NoElements DEF BankSafe, BankInv
    <2>4. Place(c) = 0 /\ Place(c)' > 0
      <3>1. c \in Elements(pending'[s])
        BY <2>1
      <3> QED  BY <2>1, <2>2, <3>1 DEF PlaceFacts
    <2>5. ASSUME NEW d \in Calls \ {c} PROVE Place(d)' = Place(d)
      <3>1. /\ \A k \in Scopes : (d \in Elements(pending'[k])) <=> (d \in Elements(pending[k]))
            /\ \A k \in Scopes : d \in Elements(pending[k]) => stage'[window'[k]] = stage[window[k]]
        BY <2>1, <2>3
      <3> QED  BY <2>1, <3>1, PlaceStays
    <2>6. Progress(c)' > Progress(c) /\ Progress(c)' >= Progress(c)
      BY <1>0, <2>1, <2>4, ProgressOf
    <2>7. \A d \in Calls \ {c} : Progress(d)' >= Progress(d)
      BY <1>0, <2>1, <2>5, ProgressOf
    <2> QED  BY <2>6, <2>7 DEF LookupsMove
  <1>2. CASE ~Search(c)
    <2>1. /\ UNCHANGED <<pending, window, stage, batch>>
          /\ \A d \in Calls \ {c} : pc'[d] = pc[d] /\ got'[d] = got[d]
      BY <1>2, CallQuiet
    <2>2. ASSUME NEW d \in Calls \ {c} PROVE Place(d)' = Place(d)
      BY <2>1, PlaceStays
    <2>3. CASE UNCHANGED pc /\ pc[c] = "handler" /\ got[c] = None /\ got'[c] # None
      <3>1. Place(c)' > Place(c)
        BY <2>3 DEF PlaceFacts
      <3> QED  BY <1>0, <2>1, <2>2, <2>3, <3>1, ProgressOf DEF LookupsMove
    <2>4. CASE pc[c] = "new" /\ pc'[c] = "handler" /\ UNCHANGED got
      <3>1. Place(c)' > Place(c)
        BY <2>4 DEF PlaceFacts
      <3> QED  BY <1>0, <2>1, <2>2, <2>4, <3>1, ProgressOf DEF LookupsMove
    <2>5. CASE pc[c] # "done" /\ pc'[c] = "done" /\ UNCHANGED got
      <3>1. Place(c)' >= Place(c)
        <4>1. CASE \E k \in Scopes : c \in Elements(pending[k])
          BY <1>0, <2>1, <4>1 DEF PlaceFacts
        <4>2. CASE \E w \in Tasks : c \in batch[w]
          BY <1>0, <2>1, <2>5, <4>2 DEF PlaceFacts
        <4>3. CASE (\A k \in Scopes : c \notin Elements(pending[k])) /\ \A w \in Tasks : c \notin batch[w]
          <5>1. Place(c)' = 5
            BY <2>1, <2>5, <4>3 DEF PlaceFacts
          <5> QED  BY <1>0, <5>1
        <4> QED  BY <4>1, <4>2, <4>3
      <3> QED  BY <1>0, <2>1, <2>2, <2>5, <3>1, ProgressOf DEF LookupsMove
    <2> QED  BY <1>2, <2>3, <2>4, <2>5, CallQuiet
  <1> QED  BY <1>1, <1>2

LEMMA WindowMoves ==
    ASSUME BankSafe, WaitInv, WaitInv', PlaceFacts, PlaceFacts', NEW w \in Tasks, Window(w)
    PROVE  LookupsMove
  <1>0. \A d \in Calls : Place(d) \in 0 .. 5 /\ Place(d)' \in 0 .. 5
    BY DEF PlaceFacts
  <1> DEFINE Moves(S) == /\ S # {} /\ S \subseteq Calls
                         /\ \A d \in S : Place(d)' > Place(d)
                         /\ \A d \in Calls \ S : Place(d)' = Place(d)
                         /\ \A d \in Calls : pc[d] = "done" => pc'[d] = "done"
  <1>1. ASSUME NEW S, Moves(S) PROVE LookupsMove
    <2>1. PICK c \in Calls : c \in S
      BY <1>1
    <2>2. Progress(c)' > Progress(c)
      BY <1>0, <1>1, <2>1, ProgressOf
    <2>3. ASSUME NEW d \in Calls PROVE Progress(d)' >= Progress(d)
      <3>1. Place(d)' >= Place(d)
        BY <1>0, <1>1
      <3> QED  BY <1>0, <1>1, <3>1, ProgressOf
    <2> QED  BY <2>2, <2>3 DEF LookupsMove
  <1>2. ASSUME NEW k \in Scopes, window[k] = w, stage[w] \in {"tick", "sleep"}, Take(w, k),
               UNCHANGED <<pc, got>>
        PROVE  Moves(Elements(pending[k]))
    <2>1. /\ batch'[w] = Elements(pending[k]) /\ batch'[w] # {} /\ batch[w] = {}
          /\ Elements(pending'[k]) = {}
          /\ \A l \in Scopes \ {k} :
                /\ pending'[l] = pending[l] /\ window'[l] = window[l]
                /\ window[l] # NoTask => stage'[window[l]] = stage[window[l]]
          /\ \A v \in Tasks \ {w} : batch'[v] = batch[v]
      BY <1>2, WaitTake
    <2>2. ASSUME NEW d \in Elements(pending[k]) PROVE Place(d)' > Place(d)
      <3>1. Place(d) \in {1, 2}
        BY DEF PlaceFacts
      <3>2. Place(d)' \in {3, 4}
        BY <2>1 DEF PlaceFacts
      <3> QED  BY <3>1, <3>2
    <2>3. ASSUME NEW d \in Calls, d \notin Elements(pending[k]) PROVE Place(d)' = Place(d)
      <3>1. \A l \in Scopes : Elements(pending[l]) # {} => window[l] # NoTask
        BY NoElements DEF BankSafe, BankInv
      <3>2. /\ \A l \in Scopes : (d \in Elements(pending'[l])) <=> (d \in Elements(pending[l]))
            /\ \A l \in Scopes : d \in Elements(pending[l]) => stage'[window'[l]] = stage[window[l]]
        BY <2>1, <2>3, <3>1
      <3>3. \A v \in Tasks : (d \in batch'[v]) <=> (d \in batch[v])
        BY <2>1, <2>3
      <3> QED  BY <1>2, <3>2, <3>3, PlaceStays
    <2> QED  BY <1>2, <2>1, <2>2, <2>3, ElementsAreCalls DEF BankSafe
  <1>3. ASSUME NEW k \in Scopes, window[k] = w, stage[w] = "tick",
               stage' = [stage EXCEPT ![w] = "sleep"],
               UNCHANGED <<pending, window, batch, pc, got>>
        PROVE  Moves(Elements(pending[k]))
    <2>1. stage'[w] = "sleep" /\ \A v \in Tasks \ {w} : stage'[v] = stage[v]
      BY <1>3 DEF BankSafe, TypeOK
    <2>2. \A l \in Scopes \ {k} : Elements(pending[l]) # {} => window[l] \in Tasks \ {w}
      BY <1>3, NoElements DEF BankSafe, BankInv, TypeOK
    <2>3. ASSUME NEW d \in Elements(pending[k]) PROVE Place(d)' > Place(d)
      <3>1. Place(d) = 1
        BY <1>3 DEF PlaceFacts
      <3>2. Place(d)' = 2
        BY <1>3, <2>1 DEF PlaceFacts
      <3> QED  BY <3>1, <3>2
    <2>4. ASSUME NEW d \in Calls, d \notin Elements(pending[k]) PROVE Place(d)' = Place(d)
      <3>1. \A l \in Scopes : d \in Elements(pending[l]) => stage'[window[l]] = stage[window[l]]
        BY <2>1, <2>2, <2>4
      <3> QED  BY <1>3, <3>1, PlaceStays
    <2>5. Elements(pending[k]) # {}
      BY <1>3 DEF WaitInv, BankSafe, TypeOK
    <2> QED  BY <1>3, <2>3, <2>4, <2>5, ElementsAreCalls DEF BankSafe
  <1>4. ASSUME Resolve(w) PROVE Moves(batch[w])
    <2>1. /\ stage[w] = "flush" /\ batch[w] \subseteq Calls
          /\ \A c \in batch[w] : got[c] # None
          /\ \A c \in Calls : pc'[c] = IF c \in batch[w] /\ pc[c] = "window" THEN "settled" ELSE pc[c]
          /\ batch'[w] = {} /\ stage'[w] = "idle"
          /\ \A v \in Tasks \ {w} : batch'[v] = batch[v] /\ stage'[v] = stage[v]
          /\ UNCHANGED <<got, pending, window>>
      BY <1>4 DEF Resolve, BankSafe, TypeOK
    <2>2. ASSUME NEW d \in batch[w] PROVE Place(d)' > Place(d)
      <3>1. Place(d) = 4
        BY <2>1 DEF PlaceFacts
      <3>2. /\ \A k \in Scopes : d \notin Elements(pending'[k])
            /\ \A v \in Tasks : d \notin batch'[v]
        BY <2>1 DEF BankSafe, RunOnce
      <3>3. pc'[d] \in {"settled", "done"}
        BY <2>1 DEF WaitInv, Banked
      <3>4. Place(d)' = 5
        BY <2>1, <3>2, <3>3 DEF PlaceFacts
      <3> QED  BY <3>1, <3>4
    <2>3. ASSUME NEW d \in Calls, d \notin batch[w] PROVE Place(d)' = Place(d)
      <3>1. \A l \in Scopes : d \in Elements(pending[l]) => stage'[window'[l]] = stage[window[l]]
        <4>1. \A l \in Scopes : Elements(pending[l]) # {} => window[l] \in Tasks \ {w}
          <5> SUFFICES ASSUME NEW l \in Scopes, Elements(pending[l]) # {}
                       PROVE  window[l] \in Tasks \ {w}
            OBVIOUS
          <5>1. pending[l] # <<>>
            BY NoElements
          <5>2. window[l] # NoTask
            BY <5>1 DEF BankSafe, BankInv
          <5>3. window[l] \in Tasks /\ stage[window[l]] \in {"tick", "sleep"}
            BY <5>2 DEF BankSafe, BankInv, TypeOK
          <5> QED  BY <2>1, <5>3
        <4> QED  BY <2>1, <4>1
      <3>2. \A v \in Tasks : (d \in batch'[v]) <=> (d \in batch[v])
        BY <2>1, <2>3
      <3> QED  BY <2>1, <2>3, <3>1, <3>2, PlaceStays
    <2> QED  BY <2>1, <2>2, <2>3 DEF WaitInv
  <1>5. ASSUME NEW c \in Calls, Look(w, c) PROVE Moves({c})
    <2>1. /\ c \in batch[w] /\ got[c] = None /\ got'[c] # None
          /\ \A d \in Calls \ {c} : got'[d] = got[d]
          /\ UNCHANGED <<pc, pending, window, stage, batch>>
      BY <1>5 DEF Look, bankVars, BankSafe, TypeOK
    <2>2. Place(c) = 3 /\ Place(c)' = 4
      BY <2>1 DEF PlaceFacts
    <2>3. \A d \in Calls \ {c} : Place(d)' = Place(d)
      BY <2>1, PlaceStays
    <2> QED  BY <2>1, <2>2, <2>3
  <1> HIDE DEF Moves
  <1> QED  BY <1>1, <1>2, <1>3, <1>4, <1>5, WindowWays

\* LookupsMove: every step takes some call forward and none back, and no call
\* has more than six steps to go.  So every behaviour is finite, which is why
\* Fairness needs no clause for each task and each call.
THEOREM LookupsMoveOn == Spec => /\ [][LookupsMove]_vars
                                 /\ [](\A c \in Calls : Progress(c) \in 0 .. 6)
  <1>1. PlaceFacts => \A c \in Calls : Progress(c) \in 0 .. 6
    <2> SUFFICES ASSUME PlaceFacts, NEW c \in Calls PROVE Progress(c) \in 0 .. 6
      OBVIOUS
    <2>1. Place(c) \in 0 .. 5
      BY DEF PlaceFacts
    <2> QED  BY <2>1 DEF Progress
  <1>2. BankSafe /\ WaitInv /\ WaitInv' /\ PlaceFacts /\ PlaceFacts' /\ [Next]_vars => [LookupsMove]_vars
    <2> SUFFICES ASSUME BankSafe, WaitInv, WaitInv', PlaceFacts, PlaceFacts', Next PROVE LookupsMove
      OBVIOUS
    <2> QED  BY CallMoves, WindowMoves DEF Next
  <1> QED  BY <1>1, <1>2, WaitInductive, PlaceIsRight, PTL DEF Spec
=============================================================================
