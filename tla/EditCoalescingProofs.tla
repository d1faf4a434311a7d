------------------------ MODULE EditCoalescingProofs ------------------------
(* Theorems about EditCoalescing, for any calls, scopes, files and tasks.  *)
EXTENDS EditCoalescing, TLAPS

USE CallsAssumption, BufferAssumption, NamesAssumption

-----------------------------------------------------------------------------
(* Type correctness.                                                       *)

LEMMA StageType ==
    ASSUME NEW b \in Seq(Calls), NEW c \in Calls
    PROVE  Stage(b, c) \in Seq(Calls)
  <1>1. CASE Full(b)
    <2>1. b # <<>>  BY <1>1 DEF Full
    <2>2. Tail(b) \in Seq(Calls)  BY <2>1
    <2> QED  BY <2>2, <1>1 DEF Stage
  <1>2. CASE ~Full(b)
    BY <1>2 DEF Stage
  <1> QED  BY <1>1, <1>2

LEMMA EntriesType ==
    ASSUME NEW b \in Seq(Calls)
    PROVE  Entries(b) \subseteq Calls
  BY DEF Entries

LEMMA EntryType == \A S, f : Entry(S, f) \in Steps
  BY DEF Entry, Steps

LEMMA StartWindowType ==
    ASSUME TypeOK, NEW s \in Scopes, StartWindow(s)
    PROVE  /\ window' \in [Scopes -> Tasks \cup {NoTask}]
           /\ step' \in [Tasks -> Steps]
  <1>1. CASE NeedsWindow(s)
    <2>1. PICK t \in Tasks : /\ window' = [window EXCEPT ![s] = t]
                             /\ step' = [step EXCEPT ![t] = "armed"]
      BY <1>1 DEF StartWindow
    <2> QED  BY <2>1 DEF TypeOK, Steps
  <1>2. CASE ~NeedsWindow(s)
    BY <1>2 DEF TypeOK, StartWindow
  <1> QED  BY <1>1, <1>2

LEMMA ContinueType ==
    ASSUME TypeOK, NEW t \in Tasks, NEW S \in SUBSET Calls, Continue(t, S)
    PROVE  /\ edits' \in [Tasks -> SUBSET Calls]
           /\ cur' \in [Tasks -> Files \cup {NoFile}]
           /\ step' \in [Tasks -> Steps]
           /\ staged' \in [Tasks -> [Files -> SUBSET Calls]]
  <1>1. CASE S = {}
    <2>1. /\ edits' = [edits EXCEPT ![t] = S]
          /\ cur' = [cur EXCEPT ![t] = NoFile]
          /\ step' = [step EXCEPT ![t] = "free"]
          /\ staged' = [staged EXCEPT ![t] = [f \in Files |-> {}]]
      BY <1>1 DEF Continue
    <2> QED  BY <2>1 DEF TypeOK, Steps
  <1>2. CASE S # {}
    <2>1. PICK f \in {FileOf[c] : c \in S} :
                 /\ cur' = [cur EXCEPT ![t] = f]
                 /\ step' = [step EXCEPT ![t] = Entry(S, f)]
      BY <1>2 DEF Continue
    <2>2. /\ edits' = [edits EXCEPT ![t] = S]
          /\ staged' = staged
      BY <1>2 DEF Continue
    <2>3. f \in Files
      BY <2>1
    <2> QED  BY <2>1, <2>2, <2>3, EntryType DEF TypeOK
  <1> QED  BY <1>1, <1>2

LEMMA AfterTypes ==
    ASSUME TypeOK, NEW t \in Tasks, AfterStrings(t) \/ AfterFile(t)
    PROVE  /\ edits' \in [Tasks -> SUBSET Calls]
           /\ cur' \in [Tasks -> Files \cup {NoFile}]
           /\ step' \in [Tasks -> Steps]
           /\ staged' \in [Tasks -> [Files -> SUBSET Calls]]
           /\ snap' \in [Tasks -> SUBSET (Calls \X Ways)]
           /\ applied' \in [Tasks -> SUBSET Calls]
  <1> DEFINE rest == edits[t] \ CurFile(t)
  <1>1. rest \in SUBSET Calls
    BY DEF TypeOK
  <1>2. Forget(t)
    BY DEF AfterStrings, AfterFile
  <1>3. /\ snap' \in [Tasks -> SUBSET (Calls \X Ways)]
        /\ applied' \in [Tasks -> SUBSET Calls]
    BY <1>2 DEF TypeOK, Forget
  <1>4. CASE Continue(t, rest)
    BY <1>1, <1>3, <1>4, ContinueType
  <1>5. CASE ~Continue(t, rest)
    <2>1. /\ edits' = [edits EXCEPT ![t] = @ \ CurStrings(t)]
          /\ step' = [step EXCEPT ![t] = "lines"]
          /\ UNCHANGED <<cur, staged>>
      BY <1>5 DEF AfterStrings, AfterFile
    <2> QED  BY <2>1, <1>3 DEF TypeOK, Steps
  <1> QED  BY <1>4, <1>5

LEMMA ResolveType ==
    ASSUME TypeOK, NEW S, NEW oks, NEW bad \in Futures, Resolve(S, oks, bad)
    PROVE  fut' \in [Calls -> Futures]
  BY DEF TypeOK, Resolve, Futures

LEMMA ReleaseType ==
    ASSUME NEW lock \in [Files -> Tasks \cup {NoTask}], NEW t \in Tasks
    PROVE  Release(lock, t) \in [Files -> Tasks \cup {NoTask}]
  BY DEF Release

LEMMA PutType ==
    ASSUME TypeOK, NEW t \in Tasks, NEW way \in Ways, Put(t, way)
    PROVE  /\ file' \in [Files -> SUBSET (Calls \X Ways)]
           /\ written' \in SUBSET Calls
  BY DEF TypeOK, Put

LEMMA CallerType == ASSUME TypeOK, NEW c \in Calls, Caller(c) PROVE TypeOK'
  <1>1. CASE SubmitString(c)
    <2>1. /\ window' \in [Scopes -> Tasks \cup {NoTask}]
          /\ step' \in [Tasks -> Steps]
      BY <1>1, StartWindowType DEF SubmitString, Enqueue
    <2>2. staging' \in [Scopes -> [Files -> Seq(Calls)]]
      <3>1. Stage(staging[ScopeOf[c]][FileOf[c]], c) \in Seq(Calls)
        BY StageType DEF TypeOK
      <3> QED  BY <1>1, <3>1 DEF TypeOK, SubmitString
    <2>3. /\ fut' \in [Calls -> Futures]
          /\ pending' \in [Scopes -> SUBSET Calls]
      BY <1>1 DEF TypeOK, SubmitString, Enqueue, Futures
    <2> QED  BY <1>1, <2>1, <2>2, <2>3
             DEF TypeOK, SubmitString, Enqueue, lockVars, diskVars
  <1>2. CASE SubmitLine(c)
    <2>1. /\ window' \in [Scopes -> Tasks \cup {NoTask}]
          /\ step' \in [Tasks -> Steps]
      BY <1>2, StartWindowType DEF SubmitLine, Enqueue
    <2>2. /\ fut' \in [Calls -> Futures]
          /\ pending' \in [Scopes -> SUBSET Calls]
      BY <1>2 DEF TypeOK, SubmitLine, Enqueue, Futures
    <2> QED  BY <1>2, <2>1, <2>2
             DEF TypeOK, SubmitLine, Enqueue, lockVars, diskVars
  <1>3. CASE RejectString(c) \/ CancelCaller(c)
    <2>1. fut' \in [Calls -> Futures]
      BY <1>3 DEF TypeOK, RejectString, CancelCaller, Futures
    <2> QED  BY <1>3, <2>1 DEF TypeOK, RejectString, CancelCaller, queueVars,
                               jobVars, lockVars, diskVars
  <1> QED  BY <1>1, <1>2, <1>3 DEF Caller

LEMMA WindowType == ASSUME TypeOK, NEW t \in Tasks, Window(t) PROVE TypeOK'
  <1>1. PICK s \in Scopes : TickSolo(s, t) \/ TickMany(s, t) \/ WindowOver(s, t)
    BY DEF Window
  <1>2. CASE CloseWindow(s, t)
    <2>1. /\ pending' \in [Scopes -> SUBSET Calls]
          /\ window' \in [Scopes -> Tasks \cup {NoTask}]
          /\ edits' \in [Tasks -> SUBSET Calls]
      BY <1>2 DEF TypeOK, CloseWindow
    <2>2. staging' \in [Scopes -> [Files -> Seq(Calls)]]
      <3>1. [f \in Files |-> <<>>] \in [Files -> Seq(Calls)]
        OBVIOUS
      <3> QED  BY <1>2, <3>1 DEF TypeOK, CloseWindow
    <2>3. staged' \in [Tasks -> [Files -> SUBSET Calls]]
      <3>1. [f \in Files |-> Entries(staging[s][f])] \in [Files -> SUBSET Calls]
        BY EntriesType DEF TypeOK
      <3> QED  BY <1>2, <3>1 DEF TypeOK, CloseWindow
    <2>4. /\ cur' \in [Tasks -> Files \cup {NoFile}]
          /\ step' \in [Tasks -> Steps]
      <3>1. CASE pending[s] = {}
        BY <1>2, <3>1 DEF TypeOK, CloseWindow, Steps
      <3>2. CASE pending[s] # {}
        <4>1. PICK f \in {FileOf[c] : c \in pending[s]} :
                 /\ cur' = [cur EXCEPT ![t] = f]
                 /\ step' = [step EXCEPT ![t] = Entry(pending[s], f)]
          BY <1>2, <3>2 DEF CloseWindow
        <4>2. f \in Files
          BY <4>1 DEF TypeOK
        <4> QED  BY <4>1, <4>2, EntryType DEF TypeOK
      <3> QED  BY <3>1, <3>2
    <2> QED  BY <1>2, <2>1, <2>2, <2>3, <2>4 DEF TypeOK, CloseWindow, lockVars, diskVars
  <1>3. CASE TickMany(s, t)
    BY <1>3 DEF TypeOK, TickMany, Steps, callVars, queueVars, lockVars, diskVars
  <1> QED  BY <1>1, <1>2, <1>3 DEF TickSolo, WindowOver

LEMMA TakeType ==
    ASSUME NEW lock \in [Files -> Tasks \cup {NoTask}], NEW t \in Tasks
    PROVE  Take(lock, t) \in [Files -> Tasks \cup {NoTask}]
  BY DEF Take

\* The steps that take a lock and read.
LEMMA ReadType ==
    ASSUME TypeOK, NEW t \in Tasks, cur[t] \in Files,
           SoloRead(t) \/ \E A \in SUBSET Calls : BatchRead(t, A) \/ LinesRead(t, A)
    PROVE  TypeOK'
  <1>1. CurStrings(t) \in SUBSET Calls
    BY DEF TypeOK, CurStrings, Strings, CurFile, InFile
  <1>2. CASE SoloRead(t)
    <2>1. fslock' \in [Files -> Tasks \cup {NoTask}]
      BY <1>2, TakeType DEF TypeOK, SoloRead
    <2> QED  BY <1>1, <1>2, <2>1 DEF TypeOK, SoloRead, Steps, callVars, queueVars, diskVars
  <1>3. ASSUME NEW A \in SUBSET Calls, BatchRead(t, A) PROVE TypeOK'
    <2>1. mwlock' \in [Files -> Tasks \cup {NoTask}]
      BY <1>3, TakeType DEF TypeOK, BatchRead
    <2> QED  BY <1>3, <2>1 DEF TypeOK, BatchRead, Steps, callVars, queueVars, diskVars
  <1>4. ASSUME NEW A \in SUBSET Calls, LinesRead(t, A) PROVE TypeOK'
    <2>1. fslock' \in [Files -> Tasks \cup {NoTask}]
      BY <1>4, TakeType DEF TypeOK, LinesRead
    <2> QED  BY <1>4, <2>1 DEF TypeOK, LinesRead, Steps, callVars, queueVars, diskVars
  <1> QED  BY <1>2, <1>3, <1>4

\* The steps that answer: they all resolve some calls, release a lock and go
\* on after the strings or after the file.
Finish(t) ==
    \/ SoloWrite(t) \/ SoloFail(t) \/ BatchReject(t) \/ BatchWrite(t)
    \/ BatchWriteFail(t) \/ BatchTimeout(t) \/ LinesReject(t) \/ LinesWrite(t)
    \/ LinesFail(t) \/ LinesTimeout(t)

LEMMA DispatchSteps ==
    ASSUME NEW t \in Tasks, Dispatch(t)
    PROVE  \/ SoloRead(t) \/ \E A \in SUBSET Calls : BatchRead(t, A) \/ LinesRead(t, A)
           \/ Finish(t)
  BY DEF Dispatch, Finish

LEMMA FinishShape ==
    ASSUME NEW t \in Tasks, Finish(t)
    PROVE  /\ AfterStrings(t) \/ AfterFile(t)
           /\ \E S, oks : \E bad \in {"failed", "unknown"} : Resolve(S, oks, bad)
           /\ mwlock' \in {mwlock, Release(mwlock, t)}
           /\ fslock' \in {fslock, Release(fslock, t)}
           /\ UNCHANGED queueVars
           /\ \/ \E way \in Ways : Put(t, way)
              \/ UNCHANGED <<file, written>>
           /\ \/ UNCHANGED whole
              \/ Truncate(t)
  <1> USE DEF lockVars, diskVars, queueVars, Ways
  <1>1. CASE SoloWrite(t)      BY <1>1 DEF SoloWrite
  <1>2. CASE SoloFail(t)       BY <1>2 DEF SoloFail
  <1>3. CASE BatchReject(t)    BY <1>3 DEF BatchReject
  <1>4. CASE BatchWrite(t)     BY <1>4 DEF BatchWrite
  <1>5. CASE BatchWriteFail(t) BY <1>5 DEF BatchWriteFail
  <1>6. CASE BatchTimeout(t)   BY <1>6 DEF BatchTimeout
  <1>7. CASE LinesReject(t)    BY <1>7 DEF LinesReject
  <1>8. CASE LinesWrite(t)     BY <1>8 DEF LinesWrite
  <1>9. CASE LinesFail(t)      BY <1>9 DEF LinesFail
  <1>10. CASE LinesTimeout(t)  BY <1>10 DEF LinesTimeout
  <1> QED  BY <1>1, <1>2, <1>3, <1>4, <1>5, <1>6, <1>7, <1>8, <1>9, <1>10 DEF Finish

LEMMA FinishType == ASSUME TypeOK, NEW t \in Tasks, Finish(t) PROVE TypeOK'
  <1>1. fut' \in [Calls -> Futures]
    BY FinishShape, ResolveType DEF Futures
  <1>2. /\ mwlock' \in [Files -> Tasks \cup {NoTask}]
        /\ fslock' \in [Files -> Tasks \cup {NoTask}]
    <2>1. /\ mwlock' \in {mwlock, Release(mwlock, t)}
          /\ fslock' \in {fslock, Release(fslock, t)}
      BY FinishShape
    <2>2. /\ Release(mwlock, t) \in [Files -> Tasks \cup {NoTask}]
          /\ Release(fslock, t) \in [Files -> Tasks \cup {NoTask}]
      BY ReleaseType DEF TypeOK
    <2> QED  BY <2>1, <2>2 DEF TypeOK
  <1>3. /\ file' \in [Files -> SUBSET (Calls \X Ways)]
        /\ written' \in SUBSET Calls
    BY FinishShape, PutType DEF TypeOK
  <1>4. whole' \in [Files -> BOOLEAN]
    <2>1. CASE whole' = whole
      BY <2>1 DEF TypeOK
    <2>2. CASE Truncate(t)
      BY <2>2 DEF TypeOK, Truncate
    <2> QED  BY <2>1, <2>2, FinishShape
  <1> QED
    BY <1>1, <1>2, <1>3, <1>4, FinishShape, AfterTypes DEF TypeOK, queueVars

-----------------------------------------------------------------------------
(* No waiting caller is orphaned.  NoOrphan is not inductive: it needs that *)
(* a queue that is not empty has a window task of its own, that a task has *)
(* no popped edits before the pop or after its loop, and that the line     *)
(* edits of a file are only dispatched when its string edits are done.     *)

Idle == {"free", "armed", "sleeping"}

WindowInv ==
    \A s \in Scopes :
        /\ pending[s] # {} => window[s] # NoTask
        /\ window[s] # NoTask => step[window[s]] \in {"armed", "sleeping"}
        /\ \A r \in Scopes : r # s /\ window[s] = window[r] => window[s] = NoTask

JobInv ==
    \A t \in Tasks :
        /\ step[t] \in Idle => edits[t] = {}
        /\ step[t] \notin Idle => cur[t] \in Files
        /\ step[t] \in {"lines", "linesRW"} => CurStrings(t) = {}

Reach ==
    \A c \in Calls : fut[c] = "pending" =>
        c \in pending[ScopeOf[c]] \/ \E t \in Tasks : c \in edits[t]

OrphanInv == TypeOK /\ WindowInv /\ JobInv /\ Reach

LEMMA OrphanInvImplies == OrphanInv => NoOrphan
  <1> SUFFICES ASSUME OrphanInv, NEW c \in Calls, fut[c] = "pending"
               PROVE  Queued(c) \/ InDispatch(c)
    BY DEF NoOrphan
  <1>1. CASE c \in pending[ScopeOf[c]]
    BY <1>1 DEF OrphanInv, TypeOK, WindowInv, Queued, NeedsWindow
  <1>2. CASE \E t \in Tasks : c \in edits[t]
    BY <1>2 DEF OrphanInv, JobInv, InDispatch, Idle
  <1> QED  BY <1>1, <1>2 DEF OrphanInv, Reach

\* What the end of a dispatch step leaves behind.
LEMMA EntryShape ==
    ASSUME NEW S, NEW f
    PROVE  /\ Entry(S, f) \in {"solo", "lock", "lines"}
           /\ Entry(S, f) = "lines" <=> Strings(InFile(S, f)) = {}
  BY DEF Entry

LEMMA ContinueShape ==
    ASSUME TypeOK, NEW t \in Tasks, NEW S \in SUBSET Calls, Continue(t, S)
    PROVE  /\ edits' = [edits EXCEPT ![t] = S]
           /\ \A u \in Tasks \ {t} : step'[u] = step[u] /\ cur'[u] = cur[u] /\ staged'[u] = staged[u]
           /\ step'[t] \in {"free", "solo", "lock", "lines"}
           /\ step'[t] = "free" <=> S = {}
           /\ step'[t] # "free" => /\ cur'[t] \in Files
                                   /\ staged' = staged
                                   /\ step'[t] = "lines" <=> Strings(InFile(S, cur'[t])) = {}
  <1>1. CASE S = {}
    BY <1>1 DEF TypeOK, Continue
  <1>2. CASE S # {}
    <2>1. PICK f \in {FileOf[c] : c \in S} :
                 /\ cur' = [cur EXCEPT ![t] = f]
                 /\ step' = [step EXCEPT ![t] = Entry(S, f)]
      BY <1>2 DEF Continue
    <2>2. f \in Files
      BY <2>1
    <2>3. cur'[t] = f /\ step'[t] = Entry(S, f)
      BY <2>1 DEF TypeOK
    <2> QED  BY <1>2, <2>1, <2>2, <2>3, EntryShape DEF TypeOK, Continue
  <1> QED  BY <1>1, <1>2

LEMMA AfterShape ==
    ASSUME TypeOK, NEW t \in Tasks, AfterStrings(t) \/ AfterFile(t), cur[t] \in Files
    PROVE  /\ \A u \in Tasks \ {t} :
                 /\ edits'[u] = edits[u] /\ step'[u] = step[u] /\ cur'[u] = cur[u]
                 /\ staged'[u] = staged[u] /\ snap'[u] = snap[u] /\ applied'[u] = applied[u]
           /\ edits'[t] \subseteq edits[t]
           /\ AfterStrings(t) => edits'[t] = edits[t] \ CurStrings(t)
           /\ AfterFile(t) => edits'[t] = edits[t] \ CurFile(t)
           /\ applied'[t] = {}
           /\ step'[t] \in {"free", "solo", "lock", "lines"}
           /\ step'[t] = "free" => edits'[t] = {}
           /\ step'[t] # "free" => /\ cur'[t] \in Files
                                   /\ staged'[t] = staged[t]
                                   /\ step'[t] = "lines" <=> CurStrings(t)' = {}
  <1> DEFINE rest == edits[t] \ CurFile(t)
  <1>1. rest \in SUBSET Calls
    BY DEF TypeOK
  <1>2. /\ \A u \in Tasks \ {t} : snap'[u] = snap[u] /\ applied'[u] = applied[u]
        /\ applied'[t] = {}
    BY DEF AfterStrings, AfterFile, Forget, TypeOK
  <1>3. CurStrings(t)' = Strings(InFile(edits'[t], cur'[t]))
    BY DEF CurStrings, CurFile
  <1>4. CurLines(t) = {} => CurFile(t) = CurStrings(t)
    BY DEF CurLines, CurStrings, CurFile, Lines, Strings, InFile, TypeOK
  <1>5. CASE Continue(t, rest) /\ (AfterFile(t) \/ CurLines(t) = {})
    <2>1. edits'[t] = rest
      BY <1>5 DEF Continue, TypeOK
    <2>2. AfterStrings(t) => edits'[t] = edits[t] \ CurStrings(t)
      <3>1. CASE CurLines(t) = {}
        BY <1>4, <2>1, <3>1
      <3>2. CASE CurLines(t) # {}
        BY <3>2 DEF AfterStrings, TypeOK
      <3> QED  BY <3>1, <3>2
    <2>3. /\ \A u \in Tasks \ {t} : /\ edits'[u] = edits[u] /\ step'[u] = step[u]
                                    /\ cur'[u] = cur[u] /\ staged'[u] = staged[u]
          /\ step'[t] \in {"free", "solo", "lock", "lines"}
          /\ step'[t] = "free" => edits'[t] = {}
      <3> HIDE DEF rest
      <3> QED  BY <1>1, <1>5, <2>1, ContinueShape DEF TypeOK
    <2>4. step'[t] # "free" => /\ cur'[t] \in Files
                               /\ staged'[t] = staged[t]
                               /\ step'[t] = "lines" <=> CurStrings(t)' = {}
      <3> HIDE DEF rest
      <3> QED  BY <1>1, <1>3, <1>5, <2>1, ContinueShape DEF TypeOK
    <2> QED  BY <1>2, <2>1, <2>2, <2>3, <2>4
  <1>6. CASE AfterStrings(t) /\ CurLines(t) # {}
    <2>1. /\ edits' = [edits EXCEPT ![t] = @ \ CurStrings(t)]
          /\ step' = [step EXCEPT ![t] = "lines"]
          /\ UNCHANGED <<cur, staged>>
      BY <1>6 DEF AfterStrings
    <2>2. CurStrings(t)' = {}
      BY <1>3, <2>1 DEF CurStrings, CurFile, Strings, InFile, TypeOK
    <2>3. ~AfterFile(t) \/ CurFile(t) = CurStrings(t)
      <3> SUFFICES ASSUME AfterFile(t) PROVE FALSE
        OBVIOUS
      <3>1. edits'[t] = rest
        BY DEF AfterFile, Continue, TypeOK
      <3> QED  BY <1>6, <2>1, <3>1 DEF CurLines, CurStrings, CurFile, Lines, Strings, InFile, TypeOK
    <2> QED  BY <1>2, <2>1, <2>2, <2>3, <1>6 DEF TypeOK
  <1> QED  BY <1>5, <1>6 DEF AfterStrings, AfterFile

\* A dispatch step answers every call it takes out of the popped edits.
LEMMA FinishResolves ==
    ASSUME TypeOK, NEW t \in Tasks, Finish(t), cur[t] \in Files, JobInv
    PROVE  /\ \A c \in edits[t] \ edits'[t] : fut'[c] # "pending"
           /\ \A c \in Calls : fut'[c] = "pending" => fut[c] = "pending"
  <1>1. \A c \in Calls : fut'[c] = "pending" => fut[c] = "pending"
    BY FinishShape DEF Resolve
  <1>2. CASE AfterStrings(t) /\ \E oks : Resolve(CurStrings(t), oks, "failed")
    BY <1>1, <1>2, AfterShape DEF Resolve, TypeOK
  <1>3. CASE AfterFile(t) /\ \E oks, bad : bad # "pending" /\ Resolve(CurFile(t), oks, bad)
    BY <1>1, <1>3, AfterShape DEF Resolve, TypeOK
  <1>4. step[t] \in {"lines", "linesRW"} => CurFile(t) = CurLines(t)
    BY DEF JobInv, CurStrings, CurLines, CurFile, Strings, Lines, InFile, TypeOK
  <1>5. CASE SoloWrite(t) \/ SoloFail(t) \/ BatchReject(t) \/ BatchWrite(t) \/ BatchWriteFail(t)
    BY <1>1, <1>2, <1>5 DEF SoloWrite, SoloFail, BatchReject, BatchWrite, BatchWriteFail
  <1>6. CASE BatchTimeout(t)
    BY <1>1, <1>3, <1>6 DEF BatchTimeout
  <1>7. CASE LinesReject(t)
    BY <1>1, <1>3, <1>4, <1>7 DEF LinesReject
  <1>8. CASE LinesWrite(t)
    BY <1>1, <1>3, <1>4, <1>8 DEF LinesWrite
  <1>9. CASE LinesFail(t)
    BY <1>1, <1>3, <1>4, <1>9 DEF LinesFail
  <1>10. CASE LinesTimeout(t)
    BY <1>1, <1>3, <1>4, <1>10 DEF LinesTimeout
  <1> QED  BY <1>5, <1>6, <1>7, <1>8, <1>9, <1>10 DEF Finish

LEMMA StartWindowShape ==
    ASSUME OrphanInv, NEW s \in Scopes, StartWindow(s)
    PROVE  /\ window'[s] \in Tasks
           /\ step'[window'[s]] \in {"armed", "sleeping"}
           /\ \A r \in Scopes \ {s} : window'[r] = window[r] /\ window[r] # window'[s]
           /\ \A t \in Tasks : step'[t] = step[t] \/ (step[t] = "free" /\ step'[t] = "armed")
           /\ \A r \in Scopes : window[r] # NoTask => step'[window[r]] = step[window[r]]
  <1> USE DEF OrphanInv, WindowInv, TypeOK
  <1>1. CASE NeedsWindow(s)
    <2>1. window[s] = NoTask
      BY <1>1 DEF NeedsWindow
    <2>2. PICK t \in Tasks : /\ step[t] = "free"
                             /\ \A r \in Scopes : window[r] # t
                             /\ window' = [window EXCEPT ![s] = t]
                             /\ step' = [step EXCEPT ![t] = "armed"]
      BY <1>1 DEF StartWindow
    <2> QED  BY <2>1, <2>2
  <1>2. CASE ~NeedsWindow(s)
    BY <1>2 DEF StartWindow, NeedsWindow
  <1> QED  BY <1>1, <1>2

LEMMA EnqueueOrphan ==
    ASSUME OrphanInv, NEW c \in Calls, fut[c] = "none", Enqueue(c), TypeOK'
    PROVE  OrphanInv'
  <1> DEFINE s == ScopeOf[c]
  <1>1. /\ s \in Scopes
        /\ StartWindow(s)
        /\ fut' = [fut EXCEPT ![c] = "pending"]
        /\ pending' = [pending EXCEPT ![s] = @ \cup {c}]
        /\ UNCHANGED <<edits, cur>>
    BY DEF Enqueue
  <1> HIDE DEF s
  <1>2. WindowInv'
    <2>1. /\ window'[s] \in Tasks
          /\ step'[window'[s]] \in {"armed", "sleeping"}
          /\ \A r \in Scopes \ {s} : window'[r] = window[r] /\ window[r] # window'[s]
          /\ \A r \in Scopes : window[r] # NoTask => step'[window[r]] = step[window[r]]
      BY <1>1, StartWindowShape
    <2>2. \A r \in Scopes \ {s} : pending'[r] = pending[r]
      BY <1>1 DEF OrphanInv, TypeOK
    <2>3. \A r \in Scopes \ {s} :
            /\ pending'[r] # {} => window'[r] # NoTask
            /\ window'[r] # NoTask => step'[window'[r]] \in {"armed", "sleeping"}
      BY <2>1, <2>2 DEF OrphanInv, WindowInv
    <2>4. \A q, r \in Scopes : r # q /\ window'[q] = window'[r] => window'[q] = NoTask
      BY <2>1 DEF OrphanInv, WindowInv
    <2> QED  BY <2>1, <2>3, <2>4 DEF WindowInv
  <1>3. JobInv'
    <2>1. \A t \in Tasks : CurStrings(t)' = CurStrings(t)
      BY <1>1 DEF CurStrings, CurFile
    <2> QED  BY <1>1, <2>1, StartWindowShape DEF OrphanInv, JobInv, Idle
  <1>4. Reach'
    BY <1>1 DEF OrphanInv, Reach, TypeOK, s
  <1> QED  BY <1>2, <1>3, <1>4 DEF OrphanInv

LEMMA CallerOrphan == ASSUME OrphanInv, NEW c \in Calls, Caller(c) PROVE OrphanInv'
  <1>0. TypeOK'
    BY CallerType DEF OrphanInv
  <1>1. CASE SubmitString(c) \/ SubmitLine(c)
    BY <1>0, <1>1, EnqueueOrphan DEF SubmitString, SubmitLine
  <1>2. CASE RejectString(c) \/ CancelCaller(c)
    <2>1. /\ UNCHANGED <<queueVars, jobVars>>
          /\ \A d \in Calls : fut'[d] = "pending" => fut[d] = "pending"
      BY <1>2 DEF RejectString, CancelCaller, OrphanInv, TypeOK
    <2>2. WindowInv'
      BY <2>1 DEF OrphanInv, WindowInv, queueVars, jobVars
    <2>3. JobInv'
      BY <2>1 DEF OrphanInv, JobInv, CurStrings, CurFile, queueVars, jobVars
    <2>4. Reach'
      BY <2>1 DEF OrphanInv, Reach, queueVars, jobVars
    <2> QED  BY <1>0, <2>2, <2>3, <2>4 DEF OrphanInv
  <1> QED  BY <1>1, <1>2 DEF Caller

LEMMA CloseWindowShape ==
    ASSUME TypeOK, NEW s \in Scopes, NEW t \in Tasks, CloseWindow(s, t)
    PROVE  /\ \A u \in Tasks \ {t} : step'[u] = step[u] /\ cur'[u] = cur[u]
                                     /\ edits'[u] = edits[u] /\ staged'[u] = staged[u]
           /\ edits'[t] = pending[s]
           /\ pending' = [pending EXCEPT ![s] = {}]
           /\ window' = [window EXCEPT ![s] = NoTask]
           /\ UNCHANGED fut
           /\ step'[t] \in {"free", "solo", "lock", "lines"}
           /\ step'[t] = "free" => pending[s] = {}
           /\ step'[t] # "free" => /\ cur'[t] \in Files
                                   /\ step'[t] = "lines" <=> CurStrings(t)' = {}
  <1>1. CurStrings(t)' = Strings(InFile(edits'[t], cur'[t]))
    BY DEF CurStrings, CurFile
  <1>2. /\ edits'[t] = pending[s]
        /\ \A u \in Tasks \ {t} : edits'[u] = edits[u] /\ staged'[u] = staged[u]
        /\ pending' = [pending EXCEPT ![s] = {}]
        /\ window' = [window EXCEPT ![s] = NoTask]
        /\ UNCHANGED fut
    BY DEF CloseWindow, TypeOK
  <1>3. CASE pending[s] = {}
    BY <1>2, <1>3 DEF TypeOK, CloseWindow
  <1>4. CASE pending[s] # {}
    <2>1. PICK f \in {FileOf[c] : c \in pending[s]} :
             /\ cur' = [cur EXCEPT ![t] = f]
             /\ step' = [step EXCEPT ![t] = Entry(pending[s], f)]
      BY <1>4 DEF CloseWindow
    <2>2. f \in Files
      BY <2>1 DEF TypeOK
    <2>3. cur'[t] = f /\ step'[t] = Entry(pending[s], f)
      BY <2>1 DEF TypeOK
    <2>4. \A u \in Tasks \ {t} : step'[u] = step[u] /\ cur'[u] = cur[u]
      BY <2>1 DEF TypeOK
    <2> QED  BY <1>1, <1>2, <2>2, <2>3, <2>4, EntryShape
  <1> QED  BY <1>3, <1>4

LEMMA WindowOrphan == ASSUME OrphanInv, NEW t \in Tasks, Window(t) PROVE OrphanInv'
  <1>0. TypeOK'
    BY WindowType DEF OrphanInv
  <1>1. PICK s \in Scopes : TickSolo(s, t) \/ TickMany(s, t) \/ WindowOver(s, t)
    BY DEF Window
  <1>2. window[s] = t /\ step[t] \in {"armed", "sleeping"}
    BY <1>1 DEF TickSolo, TickMany, WindowOver
  <1>3. CASE CloseWindow(s, t)
    <2>1. WindowInv'
      <3>1. /\ \A u \in Tasks \ {t} : step'[u] = step[u]
            /\ pending' = [pending EXCEPT ![s] = {}]
            /\ window' = [window EXCEPT ![s] = NoTask]
        BY <1>3, CloseWindowShape DEF OrphanInv
      <3>2. \A r \in Scopes \ {s} : window[r] # t
        BY <1>2 DEF OrphanInv, WindowInv
      <3>3. /\ pending'[s] = {} /\ window'[s] = NoTask
            /\ \A r \in Scopes \ {s} : pending'[r] = pending[r] /\ window'[r] = window[r]
        BY <3>1 DEF OrphanInv, TypeOK
      <3> QED  BY <3>1, <3>2, <3>3 DEF OrphanInv, WindowInv, TypeOK
    <2>2. JobInv'
      <3>1. \A u \in Tasks \ {t} : CurStrings(u)' = CurStrings(u)
        BY <1>3, CloseWindowShape DEF OrphanInv, CurStrings, CurFile
      <3> QED  BY <3>1, <1>3, CloseWindowShape DEF OrphanInv, JobInv, Idle
    <2>3. Reach'
      <3>1. edits[t] = {}
        BY <1>2 DEF OrphanInv, JobInv, Idle
      <3>2. /\ \A u \in Tasks \ {t} : edits'[u] = edits[u]
            /\ edits'[t] = pending[s]
            /\ pending' = [pending EXCEPT ![s] = {}]
            /\ UNCHANGED fut
        BY <1>3, CloseWindowShape DEF OrphanInv
      <3>3. \A r \in Scopes \ {s} : pending'[r] = pending[r]
        BY <3>2 DEF OrphanInv, TypeOK
      <3> QED  BY <3>1, <3>2, <3>3 DEF OrphanInv, Reach
    <2> QED  BY <1>0, <2>1, <2>2, <2>3 DEF OrphanInv
  <1>4. CASE TickMany(s, t)
    <2>1. /\ step' = [step EXCEPT ![t] = "sleeping"]
          /\ UNCHANGED <<fut, pending, window, edits, cur>>
      BY <1>4 DEF TickMany, callVars, queueVars
    <2>2. WindowInv'
      BY <1>2, <2>1 DEF OrphanInv, WindowInv, TypeOK
    <2>3. JobInv'
      <3>1. \A u \in Tasks : CurStrings(u)' = CurStrings(u)
        BY <2>1 DEF CurStrings, CurFile
      <3> QED  BY <1>2, <2>1, <3>1 DEF OrphanInv, JobInv, TypeOK, Idle
    <2>4. Reach'
      BY <2>1 DEF OrphanInv, Reach
    <2> QED  BY <1>0, <2>2, <2>3, <2>4 DEF OrphanInv
  <1> QED  BY <1>1, <1>3, <1>4 DEF TickSolo, WindowOver

\* A task that reads only moves on within the dispatch of its file.
LEMMA ReadShape ==
    ASSUME TypeOK, NEW t \in Tasks,
           SoloRead(t) \/ \E A \in SUBSET Calls : BatchRead(t, A) \/ LinesRead(t, A)
    PROVE  /\ \E at \in {"soloRW", "write", "linesRW"} : step' = [step EXCEPT ![t] = at]
           /\ step[t] \in {"solo", "lock", "lines"}
           /\ step'[t] = "linesRW" <=> step[t] = "lines"
           /\ UNCHANGED <<fut, queueVars, edits, staged, cur, diskVars>>
  BY DEF SoloRead, BatchRead, LinesRead, callVars, TypeOK

LEMMA DispatchOrphan == ASSUME OrphanInv, NEW t \in Tasks, Dispatch(t) PROVE OrphanInv'
  <1>1. CASE SoloRead(t) \/ \E A \in SUBSET Calls : BatchRead(t, A) \/ LinesRead(t, A)
    <2>1. cur[t] \in Files
      BY <1>1, ReadShape DEF OrphanInv, JobInv, Idle
    <2>2. TypeOK'
      BY <1>1, <2>1, ReadType DEF OrphanInv
    <2>3. /\ \E at \in {"soloRW", "write", "linesRW"} : step' = [step EXCEPT ![t] = at]
          /\ step[t] \in {"solo", "lock", "lines"}
          /\ step'[t] = "linesRW" <=> step[t] = "lines"
          /\ UNCHANGED <<fut, pending, window, edits, cur>>
      BY <1>1, ReadShape DEF OrphanInv, queueVars
    <2>4. WindowInv'
      BY <2>3 DEF OrphanInv, WindowInv, TypeOK
    <2>5. JobInv'
      <3>1. \A u \in Tasks : CurStrings(u)' = CurStrings(u)
        BY <2>3 DEF CurStrings, CurFile
      <3> QED  BY <2>3, <3>1 DEF OrphanInv, JobInv, TypeOK, Idle
    <2>6. Reach'
      BY <2>3 DEF OrphanInv, Reach
    <2> QED  BY <2>2, <2>4, <2>5, <2>6 DEF OrphanInv
  <1>2. CASE Finish(t)
    <2>1. step[t] \notin Idle
      BY <1>2 DEF Finish, SoloWrite, SoloFail, BatchReject, BatchWrite, BatchWriteFail,
            BatchTimeout, LinesReject, LinesWrite, LinesFail, LinesTimeout, Idle
    <2>2. cur[t] \in Files
      BY <2>1 DEF OrphanInv, JobInv
    <2>3. TypeOK'
      BY <1>2, FinishType DEF OrphanInv
    <2>4. AfterStrings(t) \/ AfterFile(t)
      BY <1>2, FinishShape
    <2>5. UNCHANGED <<pending, window>>
      BY <1>2, FinishShape DEF queueVars
    <2>6. WindowInv'
      <3>1. \A u \in Tasks \ {t} : step'[u] = step[u]
        BY <2>2, <2>4, AfterShape DEF OrphanInv
      <3>2. \A r \in Scopes : window[r] # t
        BY <2>1 DEF OrphanInv, WindowInv, Idle
      <3>3. \A r \in Scopes : window[r] # NoTask => step'[window[r]] = step[window[r]]
        BY <3>1, <3>2 DEF OrphanInv, TypeOK
      <3> QED  BY <2>5, <3>3 DEF OrphanInv, WindowInv
    <2>7. JobInv'
      <3>1. \A u \in Tasks \ {t} : edits'[u] = edits[u] /\ cur'[u] = cur[u] /\ step'[u] = step[u]
        BY <2>2, <2>4, AfterShape DEF OrphanInv
      <3>2. \A u \in Tasks \ {t} : CurStrings(u)' = CurStrings(u)
        BY <3>1 DEF CurStrings, CurFile
      <3>3. /\ step'[t] \in {"free", "solo", "lock", "lines"}
            /\ step'[t] = "free" => edits'[t] = {}
            /\ step'[t] # "free" => cur'[t] \in Files
            /\ step'[t] = "lines" => CurStrings(t)' = {}
        BY <2>2, <2>4, AfterShape DEF OrphanInv
      <3> QED  BY <3>1, <3>2, <3>3 DEF OrphanInv, JobInv, Idle
    <2>8. Reach'
      <3>1. \A u \in Tasks \ {t} : edits'[u] = edits[u]
        BY <2>2, <2>4, AfterShape DEF OrphanInv
      <3>2. /\ \A c \in edits[t] \ edits'[t] : fut'[c] # "pending"
            /\ \A c \in Calls : fut'[c] = "pending" => fut[c] = "pending"
        BY <1>2, <2>2, FinishResolves DEF OrphanInv
      <3> QED  BY <2>5, <3>1, <3>2 DEF OrphanInv, Reach
    <2> QED  BY <2>3, <2>6, <2>7, <2>8 DEF OrphanInv
  <1> QED  BY <1>1, <1>2, DispatchSteps

\* Every step keeps the types, the windows, the jobs and the reachability of
\* every waiting caller.
LEMMA OrphanInductive == Spec => []OrphanInv
  <1>1. Init => OrphanInv
    <2> SUFFICES ASSUME Init PROVE OrphanInv
      OBVIOUS
    <2>1. TypeOK
      <3>1. [f \in Files |-> <<>>] \in [Files -> Seq(Calls)]
        OBVIOUS
      <3> QED  BY <3>1 DEF Init, TypeOK, Futures, Steps
    <2> QED  BY <2>1 DEF Init, OrphanInv, WindowInv, JobInv, Reach, Idle
  <1>2. OrphanInv /\ [Next]_vars => OrphanInv'
    <2> SUFFICES ASSUME OrphanInv, [Next]_vars PROVE OrphanInv'
      OBVIOUS
    <2>1. ASSUME NEW c \in Calls, Caller(c) PROVE OrphanInv'
      BY <2>1, CallerOrphan
    <2>2. ASSUME NEW t \in Tasks, Window(t) PROVE OrphanInv'
      BY <2>2, WindowOrphan
    <2>3. ASSUME NEW t \in Tasks, Dispatch(t) PROVE OrphanInv'
      BY <2>3, DispatchOrphan
    <2>4. CASE UNCHANGED vars
      BY <2>4 DEF OrphanInv, TypeOK, WindowInv, JobInv, Reach, CurStrings, CurFile, vars
    <2> QED  BY <2>1, <2>2, <2>3, <2>4 DEF Next
  <1> QED  BY <1>1, <1>2, PTL DEF Spec

\* EditTyping: every variable keeps its type, for any set of calls, scopes,
\* files and tasks.
THEOREM EditTyping == Spec => []TypeOK
  BY OrphanInductive, PTL DEF OrphanInv

\* EditNoOrphan: whatever interleaving of submissions, windows, dispatches,
\* timeouts and cancellations, a caller that still waits is queued behind a
\* live window task or being dispatched.
THEOREM EditNoOrphan == Spec => []NoOrphan
  BY OrphanInductive, OrphanInvImplies, PTL

-----------------------------------------------------------------------------
(* String batches never work on a stale copy of each other's edits.        *)

LockInv ==
    \A t \in Tasks :
        /\ step[t] = "write" => mwlock[cur[t]] = t
        /\ step[t] \in {"soloRW", "linesRW"} =>
              fslock[cur[t]] = t /\ snap[t] = file[cur[t]]

ShareInv == OrphanInv /\ LockInv /\ FreshSnapshot

\* A dispatch step leaves the files alone or writes one, in one of two ways.
LEMMA FinishDisk ==
    ASSUME NEW t \in Tasks, Finish(t)
    PROVE  \/ UNCHANGED <<file, written>>
           \/ Put(t, "direct") /\ step[t] \in {"soloRW", "linesRW"}
           \/ Put(t, "batch") /\ step[t] = "write" /\ fslock[cur[t]] = NoTask
  <1> USE DEF diskVars
  <1>1. CASE SoloWrite(t)      BY <1>1 DEF SoloWrite
  <1>2. CASE SoloFail(t)       BY <1>2 DEF SoloFail
  <1>3. CASE BatchReject(t)    BY <1>3 DEF BatchReject
  <1>4. CASE BatchWrite(t)     BY <1>4 DEF BatchWrite
  <1>5. CASE BatchWriteFail(t) BY <1>5 DEF BatchWriteFail
  <1>6. CASE BatchTimeout(t)   BY <1>6 DEF BatchTimeout
  <1>7. CASE LinesReject(t)    BY <1>7 DEF LinesReject
  <1>8. CASE LinesWrite(t)     BY <1>8 DEF LinesWrite
  <1>9. CASE LinesFail(t)      BY <1>9 DEF LinesFail
  <1>10. CASE LinesTimeout(t)  BY <1>10 DEF LinesTimeout
  <1> QED  BY <1>1, <1>2, <1>3, <1>4, <1>5, <1>6, <1>7, <1>8, <1>9, <1>10 DEF Finish

LEMMA FinishActive ==
    ASSUME OrphanInv, NEW t \in Tasks, Finish(t)
    PROVE  /\ step[t] \notin Idle /\ cur[t] \in Files
           /\ AfterStrings(t) \/ AfterFile(t)
           /\ mwlock' \in {mwlock, Release(mwlock, t)}
           /\ fslock' \in {fslock, Release(fslock, t)}
  <1>1. step[t] \notin Idle
    BY DEF Finish, SoloWrite, SoloFail, BatchReject, BatchWrite, BatchWriteFail,
           BatchTimeout, LinesReject, LinesWrite, LinesFail, LinesTimeout, Idle
  <1>2. cur[t] \in Files
    BY <1>1 DEF OrphanInv, JobInv
  <1> QED  BY <1>1, <1>2, FinishShape

LEMMA ShareFinish ==
    ASSUME ShareInv, NEW t \in Tasks, Finish(t)
    PROVE  LockInv' /\ FreshSnapshot'
  <1>1. /\ step[t] \notin Idle /\ cur[t] \in Files
        /\ mwlock' \in {mwlock, Release(mwlock, t)}
        /\ fslock' \in {fslock, Release(fslock, t)}
    BY FinishActive DEF ShareInv
  <1>2. /\ \A u \in Tasks \ {t} : step'[u] = step[u] /\ cur'[u] = cur[u] /\ snap'[u] = snap[u]
        /\ step'[t] \in {"free", "solo", "lock", "lines"}
    BY FinishActive, AfterShape DEF ShareInv, OrphanInv
  <1>3. ASSUME NEW u \in Tasks \ {t}, step[u] \in {"write", "soloRW", "linesRW"}
        PROVE  cur[u] \in Files
    BY <1>3 DEF ShareInv, OrphanInv, JobInv, Idle
  <1>4. ASSUME NEW u \in Tasks \ {t}, step[u] = "write"
        PROVE  /\ mwlock'[cur'[u]] = u
               /\ BatchEdits(cur[u])' \subseteq snap[u]
    <2>1. mwlock[cur[u]] = u /\ cur[u] \in Files
      BY <1>3, <1>4 DEF ShareInv, LockInv
    <2>2. mwlock'[cur'[u]] = u
      BY <1>1, <1>2, <2>1 DEF Release
    <2>3. BatchEdits(cur[u]) \subseteq snap[u]
      BY <1>4 DEF ShareInv, FreshSnapshot
    <2>4. CASE UNCHANGED file
      BY <1>2, <2>2, <2>3, <2>4 DEF BatchEdits
    <2>5. CASE Put(t, "direct") /\ step[t] \in {"soloRW", "linesRW"}
      <3>1. snap[t] = file[cur[t]]
        BY <2>5 DEF ShareInv, LockInv
      <3>2. file' = [file EXCEPT ![cur[t]] = file[cur[t]] \cup (applied[t] \X {"direct"})]
        BY <2>5, <3>1 DEF Put
      <3>3. \A e \in applied[t] \X {"direct"} : e[2] # "batch"
        OBVIOUS
      <3>4. \A e \in file'[cur[u]] : e \in file[cur[u]] \/ e[2] # "batch"
        BY <2>1, <3>2, <3>3 DEF ShareInv, OrphanInv, TypeOK
      <3>5. BatchEdits(cur[u])' \subseteq BatchEdits(cur[u])
        BY <1>2, <3>4 DEF BatchEdits
      <3> QED  BY <2>2, <2>3, <3>5
    <2>6. CASE Put(t, "batch") /\ step[t] = "write"
      <3>1. mwlock[cur[t]] = t
        BY <2>6 DEF ShareInv, LockInv
      <3>2. file'[cur[u]] = file[cur[u]]
        BY <2>1, <2>6, <3>1 DEF Put, ShareInv, OrphanInv, TypeOK
      <3> QED  BY <1>2, <2>2, <2>3, <3>2 DEF BatchEdits
    <2> QED  BY <2>2, <2>4, <2>5, <2>6, FinishDisk
  <1>5. ASSUME NEW u \in Tasks \ {t}, step[u] \in {"soloRW", "linesRW"}
        PROVE  fslock'[cur'[u]] = u /\ snap'[u] = file'[cur'[u]]
    <2>1. fslock[cur[u]] = u /\ cur[u] \in Files /\ snap[u] = file[cur[u]]
      BY <1>3, <1>5 DEF ShareInv, LockInv
    <2>2. fslock'[cur'[u]] = u
      BY <1>1, <1>2, <2>1 DEF Release
    <2>3. CASE UNCHANGED file
      BY <1>2, <2>1, <2>2, <2>3
    <2>4. CASE Put(t, "direct") /\ step[t] \in {"soloRW", "linesRW"}
      <3>1. cur[u] # cur[t]
        BY <2>1, <2>4 DEF ShareInv, LockInv
      <3>2. file'[cur[u]] = file[cur[u]]
        BY <2>1, <2>4, <3>1 DEF Put, ShareInv, OrphanInv, TypeOK
      <3> QED  BY <1>2, <2>1, <2>2, <3>2
    <2>5. CASE Put(t, "batch") /\ fslock[cur[t]] = NoTask
      <3>1. cur[u] # cur[t]
        BY <2>1, <2>5
      <3>2. file'[cur[u]] = file[cur[u]]
        BY <2>1, <2>5, <3>1 DEF Put, ShareInv, OrphanInv, TypeOK
      <3> QED  BY <1>2, <2>1, <2>2, <3>2
    <2> QED  BY <2>3, <2>4, <2>5, FinishDisk
  <1>6. \A u \in Tasks : BatchEdits(cur[u])' = {e \in file'[cur'[u]] : e[2] = "batch"}
    BY DEF BatchEdits
  <1>7. LockInv'
    BY <1>2, <1>4, <1>5 DEF LockInv
  <1>8. FreshSnapshot'
    <2> SUFFICES ASSUME NEW u \in Tasks, step'[u] = "write"
                 PROVE  BatchEdits(cur[u])' \subseteq snap'[u]
      BY DEF FreshSnapshot
    <2>1. u # t /\ step[u] = "write" /\ snap'[u] = snap[u]
      BY <1>2
    <2> QED  BY <1>4, <2>1
  <1> QED  BY <1>7, <1>8

LEMMA ShareRead ==
    ASSUME ShareInv, NEW t \in Tasks,
           SoloRead(t) \/ \E A \in SUBSET Calls : BatchRead(t, A) \/ LinesRead(t, A)
    PROVE  LockInv' /\ FreshSnapshot'
  <1>0. /\ step[t] \notin Idle /\ cur[t] \in Files
        /\ UNCHANGED <<cur, file>>
    BY ReadShape DEF ShareInv, OrphanInv, JobInv, Idle, diskVars
  <1>1. \A u \in Tasks \ {t} : step'[u] = step[u] /\ snap'[u] = snap[u]
    BY DEF SoloRead, BatchRead, LinesRead, ShareInv, OrphanInv, TypeOK
  <1>2. snap'[t] = file[cur[t]]
    BY DEF SoloRead, BatchRead, LinesRead, ShareInv, OrphanInv, TypeOK
  <1>3. \A u \in Tasks \ {t} :
           /\ step[u] = "write" => mwlock[cur[u]] = u /\ cur[u] \in Files
           /\ step[u] \in {"soloRW", "linesRW"} => fslock[cur[u]] = u /\ cur[u] \in Files
    BY DEF ShareInv, LockInv, OrphanInv, JobInv, Idle
  <1>4. FreshSnapshot'
    <2>1. \A u \in Tasks : BatchEdits(cur[u])' = BatchEdits(cur[u])
      BY <1>0 DEF BatchEdits
    <2>2. BatchEdits(cur[t]) \subseteq file[cur[t]]
      BY DEF BatchEdits
    <2> QED  BY <1>1, <1>2, <2>1, <2>2 DEF ShareInv, FreshSnapshot
  <1>5. \A u \in Tasks \ {t} : step[u] \in {"soloRW", "linesRW"} => snap'[u] = file'[cur'[u]]
    BY <1>0, <1>1 DEF ShareInv, LockInv
  <1>6. LockInv'
    <2>1. CASE SoloRead(t) \/ \E A \in SUBSET Calls : LinesRead(t, A)
      <3>1. /\ fslock[cur[t]] = NoTask /\ fslock' = [fslock EXCEPT ![cur[t]] = t]
            /\ UNCHANGED mwlock
            /\ step'[t] \in {"soloRW", "linesRW"}
        BY <2>1 DEF SoloRead, LinesRead, Take, ShareInv, OrphanInv, TypeOK
      <3>2. fslock'[cur[t]] = t /\ \A f \in Files \ {cur[t]} : fslock'[f] = fslock[f]
        BY <1>0, <3>1 DEF ShareInv, OrphanInv, TypeOK
      <3> QED  BY <1>0, <1>1, <1>2, <1>3, <1>5, <3>1, <3>2 DEF LockInv
    <2>2. CASE \E A \in SUBSET Calls : BatchRead(t, A)
      <3>1. /\ mwlock[cur[t]] = NoTask /\ mwlock' = [mwlock EXCEPT ![cur[t]] = t]
            /\ UNCHANGED fslock
            /\ step'[t] = "write"
        BY <2>2 DEF BatchRead, Take, ShareInv, OrphanInv, TypeOK
      <3>2. mwlock'[cur[t]] = t /\ \A f \in Files \ {cur[t]} : mwlock'[f] = mwlock[f]
        BY <1>0, <3>1 DEF ShareInv, OrphanInv, TypeOK
      <3> QED  BY <1>0, <1>1, <1>2, <1>3, <1>5, <3>1, <3>2 DEF LockInv
    <2> QED  BY <2>1, <2>2
  <1> QED  BY <1>4, <1>6

\* Submissions, cancellations and windows touch no file and no lock.
LEMMA ShareOther ==
    ASSUME ShareInv, (\E c \in Calls : Caller(c)) \/ (\E t \in Tasks : Window(t))
    PROVE  LockInv' /\ FreshSnapshot'
  <1> DEFINE Quiet ==
        /\ UNCHANGED <<mwlock, fslock, file, snap>>
        /\ \A u \in Tasks : step'[u] \in {"write", "soloRW", "linesRW"} =>
              step'[u] = step[u] /\ cur'[u] = cur[u]
  <1>1. Quiet
    <2>1. ASSUME NEW c \in Calls, Caller(c) PROVE Quiet
      <3>1. CASE SubmitString(c) \/ SubmitLine(c)
        <4>1. Enqueue(c)
          BY <3>1 DEF SubmitString, SubmitLine
        <4>2. /\ UNCHANGED <<mwlock, fslock, file, snap, cur>>
              /\ StartWindow(ScopeOf[c])
          BY <4>1 DEF Enqueue, lockVars, diskVars
        <4> QED  BY <4>2, StartWindowShape DEF ShareInv
      <3>2. CASE RejectString(c) \/ CancelCaller(c)
        BY <3>2 DEF RejectString, CancelCaller, jobVars, lockVars, diskVars
      <3> QED  BY <2>1, <3>1, <3>2 DEF Caller
    <2>2. ASSUME NEW t \in Tasks, Window(t) PROVE Quiet
      <3>1. PICK s \in Scopes : TickSolo(s, t) \/ TickMany(s, t) \/ WindowOver(s, t)
        BY <2>2 DEF Window
      <3>2. CASE CloseWindow(s, t)
        <4>1. UNCHANGED <<mwlock, fslock, file, snap>>
          BY <3>2 DEF CloseWindow, lockVars, diskVars
        <4> QED  BY <3>2, <4>1, CloseWindowShape DEF ShareInv, OrphanInv
      <3>3. CASE TickMany(s, t)
        BY <3>3 DEF TickMany, lockVars, diskVars, ShareInv, OrphanInv, TypeOK
      <3> QED  BY <3>1, <3>2, <3>3 DEF TickSolo, WindowOver
    <2> QED  BY <2>1, <2>2
  <1>2. LockInv'
    BY <1>1 DEF ShareInv, LockInv
  <1>3. FreshSnapshot'
    <2> SUFFICES ASSUME NEW u \in Tasks, step'[u] = "write"
                 PROVE  BatchEdits(cur[u])' \subseteq snap'[u]
      BY DEF FreshSnapshot
    <2>1. BatchEdits(cur[u])' = BatchEdits(cur[u])
      BY <1>1 DEF BatchEdits
    <2> QED  BY <1>1, <2>1 DEF ShareInv, FreshSnapshot
  <1> QED  BY <1>2, <1>3

LEMMA ShareInductive == Spec => []ShareInv
  <1>1. Init => LockInv /\ FreshSnapshot
    BY DEF Init, LockInv, FreshSnapshot
  <1>2. ShareInv /\ [Next]_vars => LockInv' /\ FreshSnapshot'
    <2> SUFFICES ASSUME ShareInv, [Next]_vars PROVE LockInv' /\ FreshSnapshot'
      OBVIOUS
    <2>1. ASSUME NEW t \in Tasks, Dispatch(t) PROVE LockInv' /\ FreshSnapshot'
      BY <2>1, DispatchSteps, ShareRead, ShareFinish
    <2>2. CASE UNCHANGED vars
      BY <2>2 DEF ShareInv, LockInv, FreshSnapshot, BatchEdits, vars
    <2> QED  BY <2>1, <2>2, ShareOther DEF Next
  <1> QED  BY <1>1, <1>2, OrphanInductive, PTL DEF Spec, ShareInv

\* EditFreshSnapshot: whatever interleaving of scopes, a batch about to write
\* holds every edit the string batches of any scope have put into the file.
THEOREM EditFreshSnapshot == Spec => []FreshSnapshot
  BY ShareInductive, PTL DEF ShareInv

\* EditOnlyBatchesErase: no step takes a string batch's edit out of a file,
\* and no step but the write of a string batch takes out any.
THEOREM EditOnlyBatchesErase == Spec => OnlyBatchesErase
  <1> DEFINE Kept == \A f \in Files : \A e \in file[f] \ file'[f] :
          /\ e[2] = "direct"
          /\ \E t \in Tasks : step[t] = "write" /\ cur[t] = f /\ mwlock[f] = t
  <1>1. ShareInv /\ [Next]_vars => [Kept]_vars
    <2> SUFFICES ASSUME ShareInv, Next, NEW f \in Files, NEW e \in file[f] \ file'[f]
                 PROVE  /\ e[2] = "direct"
                        /\ \E t \in Tasks : step[t] = "write" /\ cur[t] = f /\ mwlock[f] = t
      OBVIOUS
    <2>1. PICK t \in Tasks : Finish(t)
      <3>1. CASE \E c \in Calls : Caller(c)
        BY <3>1 DEF Caller, SubmitString, SubmitLine, Enqueue, RejectString, CancelCaller, diskVars
      <3>2. CASE \E t \in Tasks : Window(t)
        BY <3>2 DEF Window, TickSolo, TickMany, WindowOver, CloseWindow, diskVars
      <3>3. CASE \E t \in Tasks : Dispatch(t)
        BY <3>3, DispatchSteps, ReadShape DEF diskVars, ShareInv, OrphanInv
      <3> QED  BY <3>1, <3>2, <3>3 DEF Next
    <2>2. cur[t] \in Files
      BY <2>1, FinishActive DEF ShareInv
    <2>3. ~(Put(t, "direct") /\ step[t] \in {"soloRW", "linesRW"})
      <3> SUFFICES ASSUME Put(t, "direct"), step[t] \in {"soloRW", "linesRW"} PROVE FALSE
        OBVIOUS
      <3>1. snap[t] = file[cur[t]]
        BY DEF ShareInv, LockInv
      <3>2. file' = [file EXCEPT ![cur[t]] = file[cur[t]] \cup (applied[t] \X {"direct"})]
        BY <3>1 DEF Put
      <3>3. file[f] \subseteq file'[f]
        BY <2>2, <3>2 DEF ShareInv, OrphanInv, TypeOK
      <3> QED  BY <3>3
    <2>4. Put(t, "batch") /\ step[t] = "write"
      BY <2>1, <2>3, FinishDisk
    <2>5. cur[t] = f /\ e \notin snap[t]
      BY <2>2, <2>4 DEF Put, ShareInv, OrphanInv, TypeOK
    <2>6. e[2] # "batch"
      BY <2>4, <2>5 DEF ShareInv, FreshSnapshot, BatchEdits
    <2>7. e[2] \in Ways
      BY DEF ShareInv, OrphanInv, TypeOK
    <2> QED  BY <2>4, <2>5, <2>6, <2>7 DEF Ways, ShareInv, LockInv
  <1> QED  BY <1>1, ShareInductive, PTL DEF Spec, OnlyBatchesErase

-----------------------------------------------------------------------------
(* The ledger: every call is in one place, unanswered and unwritten as     *)
(* long as it is queued or popped, and answered once and truthfully after. *)

Unsettled(c) == fut[c] \in {"pending", "cancelled"} /\ c \notin written

QueueInv ==
    \A s \in Scopes : \A c \in pending[s] : ScopeOf[c] = s /\ Unsettled(c)

PoppedInv ==
    \A t \in Tasks : \A c \in edits[t] :
        /\ Unsettled(c)
        /\ \A s \in Scopes : c \notin pending[s]
        /\ \A u \in Tasks : u # t => c \notin edits[u]

AnswerInv ==
    \A c \in Calls : /\ fut[c] \in {"none", "failed"} => c \notin written
                     /\ fut[c] = "ok" => c \in written

StagingInv ==
    \A s \in Scopes : \A f \in Files :
        /\ Len(staging[s][f]) <= MaxStaged
        /\ Entries(staging[s][f]) \subseteq Strings(InFile(pending[s], f))

\* Needed only as long as the file's string edits are still to be dispatched.
StagedInv ==
    \A t \in Tasks : \A f \in Files :
        Strings(InFile(edits[t], f)) # {} => staged[t][f] \subseteq Strings(InFile(edits[t], f))

AppliedInv ==
    \A t \in Tasks :
        /\ step[t] = "lock" => CurStrings(t) # {}
        /\ step[t] \in {"write", "soloRW"} => applied[t] \subseteq CurStrings(t)
        /\ step[t] = "linesRW" => applied[t] \subseteq CurLines(t)

LedgerInv == OrphanInv /\ QueueInv /\ PoppedInv /\ AnswerInv /\ StagingInv /\ StagedInv /\ AppliedInv

LEMMA StageShape ==
    ASSUME NEW b \in Seq(Calls), NEW c \in Calls, Len(b) <= MaxStaged
    PROVE  /\ Len(Stage(b, c)) <= MaxStaged
           /\ Entries(Stage(b, c)) \subseteq Entries(b) \cup {c}
  <1>1. CASE Full(b)
    <2>1. b # <<>> /\ Len(b) = MaxStaged
      BY <1>1 DEF Full
    <2>2. /\ Tail(b) \in Seq(Calls) /\ Len(Tail(b)) = Len(b) - 1
          /\ \A i \in 1 .. Len(b) - 1 : Tail(b)[i] = b[i + 1]
      BY <2>1
    <2> DEFINE n == Append(Tail(b), c)
    <2>3. /\ n \in Seq(Calls) /\ Len(n) = Len(b)
          /\ \A i \in 1 .. Len(b) : n[i] \in Entries(b) \cup {c}
      BY <2>1, <2>2 DEF Entries
    <2> QED  BY <1>1, <2>1, <2>3 DEF Stage, Entries
  <1>2. CASE ~Full(b)
    BY <1>2 DEF Stage, Full, Entries
  <1> QED  BY <1>1, <1>2

LEMMA SubSets ==
    ASSUME NEW S, NEW T, NEW f, S \subseteq T
    PROVE  Strings(InFile(S, f)) \subseteq Strings(InFile(T, f))
  BY DEF Strings, InFile

LEMMA EnqueueLedger ==
    ASSUME LedgerInv, NEW c \in Calls, fut[c] = "none", Enqueue(c), TypeOK'
    PROVE  QueueInv' /\ PoppedInv' /\ AnswerInv' /\ StagedInv' /\ AppliedInv'
  <1> DEFINE s == ScopeOf[c]
  <1>1. /\ s \in Scopes
        /\ StartWindow(s)
        /\ fut'[c] = "pending" /\ \A d \in Calls \ {c} : fut'[d] = fut[d]
        /\ pending'[s] = pending[s] \cup {c}
        /\ \A r \in Scopes \ {s} : pending'[r] = pending[r]
        /\ UNCHANGED <<edits, staged, cur, applied, written>>
    BY DEF Enqueue, LedgerInv, OrphanInv, TypeOK, diskVars
  <1>2. c \notin written /\ (\A r \in Scopes : c \notin pending[r]) /\ (\A t \in Tasks : c \notin edits[t])
    BY DEF LedgerInv, AnswerInv, QueueInv, PoppedInv, Unsettled
  <1>3. QueueInv'
    <2> SUFFICES ASSUME NEW r \in Scopes, NEW d \in pending'[r]
                 PROVE  ScopeOf[d] = r /\ fut'[d] \in {"pending", "cancelled"} /\ d \notin written'
      BY DEF QueueInv, Unsettled
    <2>1. CASE d = c
      BY <1>1, <1>2, <2>1
    <2>2. CASE d # c
      <3>1. d \in pending[r]
        <4>1. CASE r = s
          BY <1>1, <2>2, <4>1
        <4>2. CASE r # s
          BY <1>1, <4>2
        <4> QED  BY <4>1, <4>2
      <3>2. d \in Calls
        BY <3>1 DEF LedgerInv, OrphanInv, TypeOK
      <3> QED  BY <1>1, <2>2, <3>1, <3>2 DEF LedgerInv, QueueInv, Unsettled
    <2> QED  BY <2>1, <2>2
  <1> HIDE DEF s
  <1>4. PoppedInv'
    <2> SUFFICES ASSUME NEW t \in Tasks, NEW d \in edits'[t]
                 PROVE  /\ fut'[d] \in {"pending", "cancelled"} /\ d \notin written'
                        /\ \A r \in Scopes : d \notin pending'[r]
                        /\ \A u \in Tasks : u # t => d \notin edits'[u]
      BY DEF PoppedInv, Unsettled
    <2>1. d \in edits[t] /\ d \in Calls /\ d # c
      BY <1>1, <1>2 DEF LedgerInv, OrphanInv, TypeOK
    <2>2. \A r \in Scopes : d \notin pending'[r]
      BY <1>1, <2>1 DEF LedgerInv, PoppedInv
    <2> QED  BY <1>1, <2>1, <2>2 DEF LedgerInv, PoppedInv, Unsettled
  <1>5. AnswerInv'
    BY <1>1, <1>2 DEF LedgerInv, AnswerInv
  <1>6. StagedInv'
    BY <1>1 DEF LedgerInv, StagedInv
  <1>7. AppliedInv'
    <2>1. \A t \in Tasks : CurStrings(t)' = CurStrings(t) /\ CurLines(t)' = CurLines(t)
      BY <1>1 DEF CurStrings, CurLines, CurFile
    <2>2. \A t \in Tasks : step'[t] = step[t] \/ step'[t] = "armed"
      BY <1>1, StartWindowShape DEF LedgerInv
    <2> QED  BY <1>1, <2>1, <2>2 DEF LedgerInv, AppliedInv
  <1> QED  BY <1>3, <1>4, <1>5, <1>6, <1>7

LEMMA CallerLedger ==
    ASSUME LedgerInv, NEW c \in Calls, Caller(c)
    PROVE  QueueInv' /\ PoppedInv' /\ AnswerInv' /\ StagingInv' /\ StagedInv' /\ AppliedInv'
  <1>0. TypeOK'
    BY CallerType DEF LedgerInv, OrphanInv
  <1>1. CASE SubmitString(c)
    <2>1. /\ Enqueue(c) /\ fut[c] = "none" /\ Kind[c] = "string"
          /\ ScopeOf[c] \in Scopes /\ FileOf[c] \in Files
      BY <1>1 DEF SubmitString
    <2>2. /\ pending'[ScopeOf[c]] = pending[ScopeOf[c]] \cup {c}
          /\ \A r \in Scopes \ {ScopeOf[c]} : pending'[r] = pending[r]
      BY <2>1 DEF Enqueue, LedgerInv, OrphanInv, TypeOK
    <2>3. /\ staging'[ScopeOf[c]][FileOf[c]] = Stage(staging[ScopeOf[c]][FileOf[c]], c)
          /\ \A s \in Scopes, f \in Files :
                ~(s = ScopeOf[c] /\ f = FileOf[c]) => staging'[s][f] = staging[s][f]
      BY <1>1, <2>1 DEF SubmitString, LedgerInv, OrphanInv, TypeOK
    <2>4. /\ Len(staging'[ScopeOf[c]][FileOf[c]]) <= MaxStaged
          /\ Entries(staging'[ScopeOf[c]][FileOf[c]]) \subseteq
                Entries(staging[ScopeOf[c]][FileOf[c]]) \cup {c}
      BY <2>1, <2>3, StageShape DEF LedgerInv, StagingInv, OrphanInv, TypeOK
    <2>5. c \in Strings(InFile(pending'[ScopeOf[c]], FileOf[c]))
      BY <2>1, <2>2 DEF Strings, InFile
    <2>6. \A s \in Scopes, f \in Files :
            Strings(InFile(pending[s], f)) \subseteq Strings(InFile(pending'[s], f))
      BY <2>2, SubSets
    <2>7. StagingInv'
      <3> SUFFICES ASSUME NEW s \in Scopes, NEW f \in Files
                   PROVE  /\ Len(staging'[s][f]) <= MaxStaged
                          /\ Entries(staging'[s][f]) \subseteq Strings(InFile(pending'[s], f))
        BY DEF StagingInv, Entries, Strings, InFile
      <3>1. CASE s = ScopeOf[c] /\ f = FileOf[c]
        BY <2>4, <2>5, <2>6, <3>1 DEF LedgerInv, StagingInv
      <3>2. CASE ~(s = ScopeOf[c] /\ f = FileOf[c])
        BY <2>3, <2>6, <3>2 DEF LedgerInv, StagingInv
      <3> QED  BY <3>1, <3>2
    <2> QED  BY <1>0, <2>1, <2>7, EnqueueLedger
  <1>2. CASE SubmitLine(c)
    <2>1. Enqueue(c) /\ fut[c] = "none" /\ UNCHANGED staging
      BY <1>2 DEF SubmitLine
    <2>2. \A s \in Scopes : pending[s] \subseteq pending'[s]
      BY <2>1 DEF Enqueue, LedgerInv, OrphanInv, TypeOK
    <2>3. \A s \in Scopes, f \in Files :
            Strings(InFile(pending[s], f)) \subseteq Strings(InFile(pending'[s], f))
      BY <2>2, SubSets
    <2>4. StagingInv'
      <3> SUFFICES ASSUME NEW s \in Scopes, NEW f \in Files
                   PROVE  /\ Len(staging'[s][f]) <= MaxStaged
                          /\ Entries(staging'[s][f]) \subseteq Strings(InFile(pending'[s], f))
        BY DEF StagingInv, Entries, Strings, InFile
      <3> QED  BY <2>1, <2>3 DEF LedgerInv, StagingInv
    <2> QED  BY <1>0, <2>1, <2>4, EnqueueLedger
  <1>3. CASE RejectString(c) \/ CancelCaller(c)
    <2>1. /\ UNCHANGED <<pending, staging, step, edits, staged, cur, applied, written>>
          /\ \A d \in Calls \ {c} : fut'[d] = fut[d]
          /\ \/ fut[c] = "none" /\ fut'[c] = "failed"
             \/ fut[c] = "pending" /\ fut'[c] = "cancelled"
      BY <1>3 DEF RejectString, CancelCaller, LedgerInv, OrphanInv, TypeOK, queueVars, jobVars, diskVars
    <2>2. QueueInv' /\ PoppedInv'
      <3>1. \A d \in Calls : Unsettled(d) => Unsettled(d)'
        BY <2>1 DEF Unsettled
      <3>2. QueueInv'
        BY <2>1, <3>1 DEF LedgerInv, OrphanInv, TypeOK, QueueInv
      <3>3. PoppedInv'
        BY <2>1, <3>1 DEF LedgerInv, OrphanInv, TypeOK, PoppedInv
      <3> QED  BY <3>2, <3>3
    <2>3. AnswerInv'
      BY <2>1 DEF LedgerInv, AnswerInv
    <2>4. StagingInv' /\ StagedInv' /\ AppliedInv'
      BY <2>1 DEF LedgerInv, StagingInv, StagedInv, AppliedInv, CurStrings, CurLines, CurFile
    <2> QED  BY <2>2, <2>3, <2>4
  <1> QED  BY <1>1, <1>2, <1>3 DEF Caller

LEMMA WindowLedger ==
    ASSUME LedgerInv, NEW t \in Tasks, Window(t)
    PROVE  QueueInv' /\ PoppedInv' /\ AnswerInv' /\ StagingInv' /\ StagedInv' /\ AppliedInv'
  <1>1. PICK s \in Scopes : TickSolo(s, t) \/ TickMany(s, t) \/ WindowOver(s, t)
    BY DEF Window
  <1>2. edits[t] = {}
    BY <1>1 DEF TickSolo, TickMany, WindowOver, LedgerInv, OrphanInv, JobInv, Idle
  <1>3. CASE CloseWindow(s, t)
    <2>1. /\ \A u \in Tasks \ {t} : /\ step'[u] = step[u] /\ cur'[u] = cur[u]
                                    /\ edits'[u] = edits[u] /\ staged'[u] = staged[u]
          /\ edits'[t] = pending[s]
          /\ pending' = [pending EXCEPT ![s] = {}]
          /\ UNCHANGED fut
          /\ step'[t] \in {"free", "solo", "lock", "lines"}
          /\ step'[t] = "lock" => CurStrings(t)' # {}
      BY <1>3, CloseWindowShape DEF LedgerInv, OrphanInv
    <2>2. /\ pending'[s] = {} /\ \A r \in Scopes \ {s} : pending'[r] = pending[r]
      BY <2>1 DEF LedgerInv, OrphanInv, TypeOK
    <2>3. /\ staging' = [staging EXCEPT ![s] = [f \in Files |-> <<>>]]
          /\ staged'[t] = [f \in Files |-> Entries(staging[s][f])]
          /\ UNCHANGED <<applied, written>>
      BY <1>3 DEF CloseWindow, LedgerInv, OrphanInv, TypeOK, diskVars
    <2>4. QueueInv'
      BY <2>1, <2>2, <2>3 DEF LedgerInv, QueueInv, Unsettled
    <2>5. PoppedInv'
      BY <1>2, <2>1, <2>2, <2>3 DEF LedgerInv, QueueInv, PoppedInv, Unsettled
    <2>6. AnswerInv'
      BY <2>1, <2>3 DEF LedgerInv, AnswerInv
    <2>7. StagingInv'
      <3>1. /\ \A f \in Files : staging'[s][f] = <<>>
            /\ \A r \in Scopes \ {s} : staging'[r] = staging[r]
        BY <2>3 DEF LedgerInv, OrphanInv, TypeOK
      <3>2. Len(<<>>) = 0 /\ Entries(<<>>) = {} /\ 0 <= MaxStaged
        BY DEF Entries
      <3> SUFFICES ASSUME NEW r \in Scopes, NEW f \in Files
                   PROVE  /\ Len(staging'[r][f]) <= MaxStaged
                          /\ Entries(staging'[r][f]) \subseteq Strings(InFile(pending'[r], f))
        BY DEF StagingInv, Entries, Strings, InFile
      <3>3. CASE r = s
        BY <3>1, <3>2, <3>3
      <3>4. CASE r # s
        BY <2>2, <3>1, <3>4 DEF LedgerInv, StagingInv
      <3> QED  BY <3>3, <3>4
    <2>8. StagedInv'
      <3> SUFFICES ASSUME NEW u \in Tasks, NEW f \in Files, Strings(InFile(edits'[u], f)) # {}
                   PROVE  staged'[u][f] \subseteq Strings(InFile(edits'[u], f))
        BY DEF StagedInv, Strings, InFile
      <3>1. CASE u = t
        BY <2>1, <2>3, <3>1 DEF LedgerInv, StagingInv
      <3>2. CASE u # t
        BY <2>1, <3>2 DEF LedgerInv, StagedInv
      <3> QED  BY <3>1, <3>2
    <2>9. AppliedInv'
      <3>1. \A u \in Tasks \ {t} : CurStrings(u)' = CurStrings(u) /\ CurLines(u)' = CurLines(u)
        BY <2>1 DEF CurStrings, CurLines, CurFile
      <3> QED  BY <2>1, <2>3, <3>1 DEF LedgerInv, AppliedInv
    <2> QED  BY <2>4, <2>5, <2>6, <2>7, <2>8, <2>9
  <1>4. CASE TickMany(s, t)
    <2>1. /\ step' = [step EXCEPT ![t] = "sleeping"]
          /\ UNCHANGED <<fut, pending, staging, edits, staged, cur, applied, written>>
      BY <1>4 DEF TickMany, callVars, queueVars, diskVars
    <2>2. QueueInv' /\ PoppedInv' /\ AnswerInv' /\ StagingInv' /\ StagedInv'
      BY <2>1 DEF LedgerInv, QueueInv, PoppedInv, AnswerInv, StagingInv, StagedInv, Unsettled
    <2>3. AppliedInv'
      <3>1. \A u \in Tasks : CurStrings(u)' = CurStrings(u) /\ CurLines(u)' = CurLines(u)
        BY <2>1 DEF CurStrings, CurLines, CurFile
      <3> QED  BY <2>1, <3>1 DEF LedgerInv, OrphanInv, TypeOK, AppliedInv
    <2> QED  BY <2>2, <2>3
  <1> QED  BY <1>1, <1>3, <1>4 DEF TickSolo, WindowOver

\* What a task applies is chosen among the edits it still has to answer.
LEMMA ReadLedger ==
    ASSUME LedgerInv, NEW t \in Tasks,
           SoloRead(t) \/ \E A \in SUBSET Calls : BatchRead(t, A) \/ LinesRead(t, A)
    PROVE  QueueInv' /\ PoppedInv' /\ AnswerInv' /\ StagingInv' /\ StagedInv' /\ AppliedInv'
  <1>1. /\ UNCHANGED <<fut, pending, staging, edits, staged, cur, written>>
        /\ step[t] \in {"solo", "lock", "lines"}
    BY ReadShape DEF LedgerInv, OrphanInv, queueVars, diskVars
  <1>2. /\ \A c : Unsettled(c) => Unsettled(c)'
        /\ \A u \in Tasks : CurStrings(u)' = CurStrings(u) /\ CurLines(u)' = CurLines(u)
    BY <1>1 DEF Unsettled, CurStrings, CurLines, CurFile
  <1>3. QueueInv' /\ PoppedInv' /\ AnswerInv' /\ StagingInv' /\ StagedInv'
    BY <1>1, <1>2 DEF LedgerInv, QueueInv, PoppedInv, AnswerInv, StagingInv, StagedInv
  <1>4. \A u \in Tasks \ {t} : step'[u] = step[u] /\ applied'[u] = applied[u]
    BY DEF SoloRead, BatchRead, LinesRead, LedgerInv, OrphanInv, TypeOK
  <1>5. /\ step'[t] \in {"write", "soloRW"} => applied'[t] \subseteq CurStrings(t)
        /\ step'[t] = "linesRW" => applied'[t] \subseteq CurLines(t)
        /\ step'[t] # "lock"
    <2>1. CASE SoloRead(t)
      BY <2>1 DEF SoloRead, LedgerInv, OrphanInv, TypeOK
    <2>2. ASSUME NEW A \in SUBSET Calls, BatchRead(t, A)
          PROVE  step'[t] = "write" /\ applied'[t] \subseteq CurStrings(t)
      <3>1. step'[t] = "write" /\ applied'[t] = A /\ A \subseteq staged[t][cur[t]]
        BY <2>2 DEF BatchRead, LedgerInv, OrphanInv, TypeOK
      <3>2. cur[t] \in Files /\ CurStrings(t) # {}
        BY <2>2 DEF BatchRead, LedgerInv, OrphanInv, JobInv, Idle, AppliedInv
      <3>3. staged[t][cur[t]] \subseteq CurStrings(t)
        BY <3>2 DEF LedgerInv, StagedInv, CurStrings, CurFile
      <3> QED  BY <3>1, <3>3
    <2>3. ASSUME NEW A \in SUBSET Calls, LinesRead(t, A)
          PROVE  step'[t] = "linesRW" /\ applied'[t] \subseteq CurLines(t)
      BY <2>3 DEF LinesRead, LedgerInv, OrphanInv, TypeOK
    <2> QED  BY <2>1, <2>2, <2>3
  <1>6. AppliedInv'
    BY <1>2, <1>4, <1>5 DEF LedgerInv, AppliedInv
  <1> QED  BY <1>3, <1>6

\* A step that answers takes the edits S out of the popped ones, answers all
\* of them that still wait, and says "failed" of none it has written.
Answers(t, S, oks, bad) ==
    /\ bad \in {"failed", "unknown"}
    /\ Resolve(S, oks, bad)
    /\ S \subseteq edits[t] /\ edits'[t] = edits[t] \ S
    /\ oks \subseteq written'
    /\ \/ written' = written
       \/ written' = written \cup applied[t] /\ applied[t] \subseteq S
    /\ bad = "failed" => written' \subseteq written \cup oks

LEMMA FinishAnswers ==
    ASSUME LedgerInv, NEW t \in Tasks, Finish(t)
    PROVE  \E S, oks, bad : Answers(t, S, oks, bad)
  <1>1. cur[t] \in Files
    BY FinishActive DEF LedgerInv
  <1>2. /\ CurStrings(t) \subseteq edits[t] /\ CurLines(t) \subseteq edits[t]
        /\ CurFile(t) \subseteq edits[t] /\ CurStrings(t) \subseteq CurFile(t)
    BY DEF CurStrings, CurLines, CurFile, Strings, Lines, InFile
  <1>3. step[t] \in {"lines", "linesRW"} => CurFile(t) = CurLines(t)
    BY DEF LedgerInv, OrphanInv, JobInv, CurStrings, CurLines, CurFile, Strings, Lines, InFile, TypeOK
  <1>4. /\ AfterStrings(t) => edits'[t] = edits[t] \ CurStrings(t)
        /\ AfterFile(t) => edits'[t] = edits[t] \ CurFile(t)
    BY <1>1, AfterShape DEF LedgerInv, OrphanInv
  <1>5. /\ step[t] \in {"write", "soloRW"} => applied[t] \subseteq CurStrings(t)
        /\ step[t] = "linesRW" => applied[t] \subseteq CurLines(t)
    BY DEF LedgerInv, AppliedInv
  <1>6. CASE SoloWrite(t) \/ BatchWrite(t)
    <2>1. Answers(t, CurStrings(t), applied[t], "failed")
      BY <1>2, <1>4, <1>5, <1>6 DEF SoloWrite, BatchWrite, Put, Answers
    <2> QED  BY <2>1
  <1>7. CASE SoloFail(t) \/ BatchReject(t) \/ BatchWriteFail(t)
    <2>1. Answers(t, CurStrings(t), {}, "failed")
      BY <1>2, <1>4, <1>7 DEF SoloFail, BatchReject, BatchWriteFail, diskVars, Answers
    <2> QED  BY <2>1
  <1>8. CASE BatchTimeout(t)
    <2>1. Answers(t, CurFile(t), {}, "unknown")
      BY <1>2, <1>4, <1>5, <1>8 DEF BatchTimeout, Put, diskVars, Answers
    <2> QED  BY <2>1
  <1>9. CASE LinesWrite(t)
    <2>1. Answers(t, CurLines(t), applied[t], "failed")
      BY <1>2, <1>3, <1>4, <1>5, <1>9 DEF LinesWrite, Put, Answers
    <2> QED  BY <2>1
  <1>10. CASE LinesReject(t) \/ LinesFail(t)
    <2>1. PICK bad \in {"failed", "unknown"} : Resolve(CurLines(t), {}, bad)
      BY <1>10 DEF LinesReject, LinesFail
    <2>2. Answers(t, CurLines(t), {}, bad)
      BY <1>2, <1>3, <1>4, <1>10, <2>1 DEF LinesReject, LinesFail, diskVars, Answers
    <2> QED  BY <2>2
  <1>11. CASE LinesTimeout(t)
    <2>1. Answers(t, CurLines(t), {}, "unknown")
      BY <1>2, <1>3, <1>4, <1>5, <1>11 DEF LinesTimeout, Put, diskVars, Answers
    <2> QED  BY <2>1
  <1> QED  BY <1>6, <1>7, <1>8, <1>9, <1>10, <1>11 DEF Finish

\* A finishing step in terms of single calls.
LEMMA FinishCalls ==
    ASSUME LedgerInv, NEW t \in Tasks, Finish(t)
    PROVE  /\ \A c \in Calls :
                 fut'[c] = fut[c]
                 \/ /\ fut[c] = "pending" /\ c \in edits[t] /\ c \notin edits'[t]
                    /\ fut'[c] \in {"ok", "failed", "unknown"}
                    /\ fut'[c] = "ok" => c \in written'
                    /\ fut'[c] = "failed" => c \notin written'
           /\ edits'[t] \subseteq edits[t]
           /\ written \subseteq written'
           /\ \A c \in written' \ written : c \in edits[t] /\ c \notin edits'[t]
  <1>1. PICK S, oks, bad : Answers(t, S, oks, bad)
    BY FinishAnswers
  <1>2. /\ bad \in {"failed", "unknown"}
        /\ S \subseteq edits[t] /\ edits'[t] = edits[t] \ S
        /\ oks \subseteq written' /\ written \subseteq written'
        /\ written' \ written \subseteq S
        /\ bad = "failed" => written' \subseteq written \cup oks
    BY <1>1 DEF Answers
  <1>3. \A c \in Calls :
           fut'[c] = IF c \in S /\ fut[c] = "pending"
                     THEN IF c \in oks THEN "ok" ELSE bad ELSE fut[c]
    BY <1>1 DEF Answers, Resolve
  <1>4. \A c \in edits[t] : c \notin written
    BY DEF LedgerInv, PoppedInv, Unsettled
  <1>5. ASSUME NEW c \in Calls, fut'[c] # fut[c]
        PROVE  /\ fut[c] = "pending" /\ c \in edits[t] /\ c \notin edits'[t]
               /\ fut'[c] \in {"ok", "failed", "unknown"}
               /\ fut'[c] = "ok" => c \in written'
               /\ fut'[c] = "failed" => c \notin written'
    <2>1. c \in S /\ fut[c] = "pending" /\ fut'[c] = IF c \in oks THEN "ok" ELSE bad
      BY <1>3, <1>5
    <2> QED  BY <1>2, <1>4, <2>1
  <1> QED  BY <1>2, <1>5

LEMMA FinishLedger ==
    ASSUME LedgerInv, NEW t \in Tasks, Finish(t)
    PROVE  QueueInv' /\ PoppedInv' /\ AnswerInv' /\ StagingInv' /\ StagedInv' /\ AppliedInv'
  <1>1. /\ cur[t] \in Files
        /\ AfterStrings(t) \/ AfterFile(t)
        /\ UNCHANGED <<pending, staging>>
    BY FinishActive, FinishShape DEF LedgerInv, queueVars
  <1>2. \A u \in Tasks \ {t} : /\ edits'[u] = edits[u] /\ step'[u] = step[u] /\ cur'[u] = cur[u]
                               /\ staged'[u] = staged[u] /\ applied'[u] = applied[u]
    BY <1>1, AfterShape DEF LedgerInv, OrphanInv
  <1>3. /\ edits'[t] \subseteq edits[t]
        /\ edits'[t] \in {edits[t] \ CurStrings(t), edits[t] \ CurFile(t)}
        /\ applied'[t] = {}
        /\ step'[t] \in {"free", "solo", "lock", "lines"}
        /\ step'[t] = "lock" => CurStrings(t)' # {}
        /\ step'[t] = "free" => edits'[t] = {}
        /\ step'[t] # "free" => staged'[t] = staged[t]
    BY <1>1, AfterShape DEF LedgerInv, OrphanInv
  <1>4. ASSUME NEW c \in Calls, Unsettled(c), c \notin edits[t] \/ c \in edits'[t]
        PROVE  Unsettled(c)'
    BY <1>4, FinishCalls DEF Unsettled
  <1>5. QueueInv'
    <2>1. ASSUME NEW s \in Scopes, NEW c \in pending[s]
          PROVE  c \in Calls /\ Unsettled(c) /\ c \notin edits[t] /\ ScopeOf[c] = s
      BY DEF LedgerInv, OrphanInv, TypeOK, QueueInv, PoppedInv
    <2> QED  BY <1>1, <1>4, <2>1 DEF QueueInv
  <1>6. PoppedInv'
    <2>1. ASSUME NEW u \in Tasks, NEW c \in edits'[u]
          PROVE  /\ c \in Calls /\ c \in edits[u] /\ Unsettled(c)
                 /\ u # t => c \notin edits[t]
      BY <1>2, <1>3 DEF LedgerInv, OrphanInv, TypeOK, PoppedInv
    <2>2. ASSUME NEW u \in Tasks, NEW c \in edits'[u] PROVE Unsettled(c)'
      BY <1>4, <2>1
    <2>3. ASSUME NEW u \in Tasks, NEW c \in edits'[u]
          PROVE  /\ \A s \in Scopes : c \notin pending'[s]
                 /\ \A v \in Tasks : v # u => c \notin edits'[v]
      BY <1>1, <1>2, <1>3, <2>1 DEF LedgerInv, PoppedInv
    <2> QED  BY <2>2, <2>3 DEF PoppedInv
  <1>7. AnswerInv'
    <2> SUFFICES ASSUME NEW c \in Calls
                 PROVE  /\ fut'[c] \in {"none", "failed"} => c \notin written'
                        /\ fut'[c] = "ok" => c \in written'
      BY DEF AnswerInv
    <2>1. CASE fut'[c] = fut[c]
      <3>1. c \in written' \ written => fut[c] \in {"pending", "cancelled"}
        BY FinishCalls DEF LedgerInv, PoppedInv, Unsettled
      <3> QED  BY <2>1, <3>1, FinishCalls DEF LedgerInv, AnswerInv
    <2>2. CASE fut'[c] # fut[c]
      BY <2>2, FinishCalls
    <2> QED  BY <2>1, <2>2
  <1>8. StagingInv'
    BY <1>1 DEF LedgerInv, StagingInv
  <1>9. StagedInv'
    <2> SUFFICES ASSUME NEW u \in Tasks, NEW f \in Files, Strings(InFile(edits'[u], f)) # {}
                 PROVE  staged'[u][f] \subseteq Strings(InFile(edits'[u], f))
      BY DEF StagedInv, Strings, InFile
    <2>1. CASE u = t
      <3>1. step'[t] # "free" /\ staged'[t] = staged[t]
        BY <1>3, <2>1 DEF Strings, InFile
      <3>2. f # cur[t]
        BY <1>3, <2>1 DEF Strings, InFile, CurStrings, CurFile
      <3>3. Strings(InFile(edits'[t], f)) = Strings(InFile(edits[t], f))
        BY <1>3, <3>2 DEF Strings, InFile, CurStrings, CurFile
      <3> QED  BY <2>1, <3>1, <3>3 DEF LedgerInv, StagedInv
    <2>2. CASE u # t
      BY <1>2, <2>2 DEF LedgerInv, StagedInv
    <2> QED  BY <2>1, <2>2
  <1>10. AppliedInv'
    <2>1. \A u \in Tasks \ {t} : CurStrings(u)' = CurStrings(u) /\ CurLines(u)' = CurLines(u)
      BY <1>2 DEF CurStrings, CurLines, CurFile
    <2> QED  BY <1>2, <1>3, <2>1 DEF LedgerInv, AppliedInv
  <1> QED  BY <1>5, <1>6, <1>7, <1>8, <1>9, <1>10

LEMMA LedgerInductive == Spec => []LedgerInv
  <1> DEFINE Parts == QueueInv /\ PoppedInv /\ AnswerInv /\ StagingInv /\ StagedInv /\ AppliedInv
  <1>1. Init => Parts
    <2>1. Entries(<<>>) = {} /\ Len(<<>>) = 0 /\ 0 <= MaxStaged
      BY DEF Entries
    <2> QED  BY <2>1 DEF Init, QueueInv, PoppedInv, AnswerInv, StagingInv, StagedInv, AppliedInv,
                Strings, InFile
  <1>2. LedgerInv /\ [Next]_vars => Parts'
    <2> SUFFICES ASSUME LedgerInv, [Next]_vars PROVE Parts'
      OBVIOUS
    <2>1. CASE \E c \in Calls : Caller(c)
      BY <2>1, CallerLedger
    <2>2. CASE \E t \in Tasks : Window(t)
      BY <2>2, WindowLedger
    <2>3. CASE \E t \in Tasks : Dispatch(t)
      BY <2>3, DispatchSteps, ReadLedger, FinishLedger
    <2>4. CASE UNCHANGED vars
      <3>1. /\ \A c : Unsettled(c) => Unsettled(c)'
            /\ \A u \in Tasks : CurStrings(u)' = CurStrings(u) /\ CurLines(u)' = CurLines(u)
        BY <2>4 DEF vars, Unsettled, CurStrings, CurLines, CurFile
      <3>2. QueueInv' /\ PoppedInv' /\ AnswerInv'
        BY <2>4, <3>1 DEF vars, LedgerInv, QueueInv, PoppedInv, AnswerInv
      <3>3. StagingInv' /\ StagedInv' /\ AppliedInv'
        BY <2>4, <3>1 DEF vars, LedgerInv, StagingInv, StagedInv, AppliedInv
      <3> QED  BY <3>2, <3>3
    <2> QED  BY <2>1, <2>2, <2>3, <2>4 DEF Next
  <1> QED  BY <1>1, <1>2, OrphanInductive, PTL DEF Spec, LedgerInv

\* EditOneOwner: no call is ever dispatched twice.
THEOREM EditOneOwner == Spec => []OneOwner
  <1>1. LedgerInv => OneOwner
    BY DEF LedgerInv, OrphanInv, TypeOK, PoppedInv, OneOwner
  <1> QED  BY <1>1, LedgerInductive, PTL

\* EveryCallOwned: both together, a call that waits is in exactly one place
\* from where it will be answered.
THEOREM EditEveryCallOwned == Spec => []EveryCallOwned
  BY EditNoOrphan, EditOneOwner, PTL DEF EveryCallOwned

\* EditBoundedStaging: the staging buffer respects its configured bound and
\* only holds replacements of the calls queued with it.
THEOREM EditBoundedStaging == Spec => []BoundedStaging
  <1>1. LedgerInv => BoundedStaging
    BY DEF LedgerInv, StagingInv, BoundedStaging, Strings
  <1> QED  BY <1>1, LedgerInductive, PTL

\* EditLedger: the middleware implements ToolCallLedger: every caller is
\* answered at most once, "ok" only for an edit that was written, "failed"
\* only for one that was not and never will be.
THEOREM EditLedger == Spec => LedgerSpec
  <1>1. Init => Ledger!LInit
    BY DEF Init, Ledger!LInit
  <1>2. LedgerInv /\ LedgerInv' /\ [Next]_vars => [Ledger!LNext]_<<fut, written>>
    <2> SUFFICES ASSUME LedgerInv, LedgerInv', Next PROVE Ledger!LNext \/ UNCHANGED <<fut, written>>
      BY DEF vars
    <2>1. fut' \in [Calls -> Ledger!Answers]
      BY DEF LedgerInv, OrphanInv, TypeOK, Futures, Ledger!Answers, Ledger!Told
    <2>2. \A c \in Calls : /\ fut'[c] = "ok" => c \in written'
                           /\ fut'[c] = "failed" => c \notin written'
      BY DEF LedgerInv, AnswerInv
    <2>3. CASE \E c \in Calls : Caller(c)
      <3>1. PICK c \in Calls : Caller(c)
        BY <2>3
      <3>2. /\ UNCHANGED written
            /\ \A d \in Calls \ {c} : fut'[d] = fut[d]
            /\ \/ fut[c] = "none" /\ fut'[c] \in {"pending", "failed"}
               \/ fut[c] = "pending" /\ fut'[c] = "cancelled"
        BY <3>1 DEF Caller, SubmitString, SubmitLine, Enqueue, RejectString, CancelCaller,
                    diskVars, LedgerInv, OrphanInv, TypeOK
      <3>3. \A d \in Calls : Ledger!Allowed(d)
        BY <3>2 DEF Ledger!Allowed
      <3>4. written \subseteq written' /\ written' \ written \subseteq Ledger!Open
        BY <3>2
      <3> QED  BY <2>1, <2>2, <3>3, <3>4 DEF Ledger!LNext
    <2>4. CASE \E t \in Tasks : Window(t)
      BY <2>4 DEF Window, TickSolo, TickMany, WindowOver, CloseWindow, callVars, diskVars
    <2>5. CASE \E t \in Tasks : Dispatch(t)
      <3>1. PICK t \in Tasks : Dispatch(t)
        BY <2>5
      <3>2. CASE Finish(t)
        <4>1. \A c \in Calls : Ledger!Allowed(c)
          BY <3>2, FinishCalls DEF Ledger!Allowed, Ledger!Told
        <4>2. written \subseteq written' /\ written' \ written \subseteq Ledger!Open
          BY <3>2, FinishCalls DEF Ledger!Open, LedgerInv, OrphanInv, TypeOK, PoppedInv, Unsettled
        <4> QED  BY <2>1, <2>2, <4>1, <4>2 DEF Ledger!LNext
      <3>3. CASE ~Finish(t)
        BY <3>1, <3>3, DispatchSteps, ReadShape DEF LedgerInv, OrphanInv, diskVars
      <3> QED  BY <3>2, <3>3
    <2> QED  BY <2>3, <2>4, <2>5 DEF Next
  <1> QED  BY <1>1, <1>2, LedgerInductive, PTL DEF Spec, LedgerSpec, Ledger!LSpec, Ledger!lvars

-----------------------------------------------------------------------------
(* Liveness needs fairness and stays with TLC; its safety part is proved:  *)
(* nobody waits for good, and every step takes some call forward.          *)

\* A lock is only held by a task that works under it, a window only stays
\* open for calls, and a task only runs for calls.
HeldRight ==
    \A f \in Files :
       /\ mwlock[f] # NoTask => step[mwlock[f]] = "write" /\ cur[mwlock[f]] = f
       /\ fslock[f] # NoTask => step[fslock[f]] \in {"soloRW", "linesRW"} /\ cur[fslock[f]] = f
OpenForCalls == \A s \in Scopes : window[s] # NoTask => pending[s] # {}
HasWindow(t) == step[t] \in {"armed", "sleeping"} => \E s \in Scopes : window[s] = t
HasWork(t) ==
    /\ step[t] \notin Idle => CurFile(t) # {}
    /\ step[t] \in {"solo", "soloRW", "write"} => CurStrings(t) # {}

HoldInv == HeldRight /\ OpenForCalls /\ \A t \in Tasks : HasWindow(t) /\ HasWork(t)

\* A step of the task is due that needs no error and no timeout: its window
\* is open, or the lock it waits for is free, or it waits for none.
EditCanMove(t) ==
    \/ \E s \in Scopes : window[s] = t /\ step[t] \in {"armed", "sleeping"}
    \/ step[t] \in {"solo", "write", "lines"} /\ fslock[cur[t]] = NoTask
    \/ step[t] = "lock" /\ mwlock[cur[t]] = NoTask
    \/ step[t] \in {"soloRW", "linesRW"}

\* EditNeverStuck: the two lock registries never make tasks wait for each
\* other in a ring (the middleware's lock is taken first, and who holds the
\* backend's waits for nothing): a task that cannot move waits for one that
\* can, and that one works on the same file.  No timeout is needed for it.
EditNeverStuck ==
    /\ \A t \in Tasks : step[t] # "free" =>
          EditCanMove(t) \/ \E u \in Tasks : cur[u] = cur[t] /\ EditCanMove(u)
    /\ (\E c \in Calls : fut[c] = "pending") => \E t \in Tasks : EditCanMove(t)

\* How far a call has come: not made, queued, in the window that sleeps,
\* popped, in the file that is dispatched, read for, answered.
Stage4(at) ==
    CASE at \in {"solo", "lock"} -> 4
      [] at \in {"soloRW", "write"} -> 5
      [] at = "lines" -> 6
      [] OTHER -> 7

Owner(c) == CHOOSE t \in Tasks : c \in edits[t]

Place(c) ==
    CASE fut[c] = "none" -> 0
      [] fut[c] # "none" /\ c \in pending[ScopeOf[c]] ->
            IF step[window[ScopeOf[c]]] = "armed" THEN 1 ELSE 2
      [] fut[c] # "none" /\ c \notin pending[ScopeOf[c]] /\ (\E t \in Tasks : c \in edits[t]) ->
            IF cur[Owner(c)] = FileOf[c] THEN Stage4(step[Owner(c)]) ELSE 3
      [] OTHER -> 8

Progress(c) == IF fut[c] \in {"none", "pending"} THEN Place(c) ELSE Place(c) + 1

\* EditMoves: every step takes a call forward and none back; a call can be
\* taken forward nine times, so the program stops unless calls are made.
EditMoves ==
    /\ \E c \in Calls : Progress(c)' > Progress(c)
    /\ \A c \in Calls : Progress(c)' >= Progress(c)

WorkInv == LedgerInv /\ ShareInv /\ HoldInv

LEMMA WorkFacts ==
    ASSUME WorkInv
    PROVE  TypeOK /\ WindowInv /\ JobInv /\ OrphanInv /\ LedgerInv /\ ShareInv /\ HoldInv
  BY DEF WorkInv, LedgerInv, OrphanInv

\* The file a task turns to has edits of the task.
LEMMA AfterWorks ==
    ASSUME TypeOK, NEW t \in Tasks, AfterStrings(t) \/ AfterFile(t), cur[t] \in Files,
           step'[t] # "free"
    PROVE  /\ CurFile(t)' # {}
           /\ step'[t] \in {"solo", "lock"} => CurStrings(t)' # {}
  <1> DEFINE rest == edits[t] \ CurFile(t)
  <1>1. CurFile(t)' = InFile(edits'[t], cur'[t])
    BY DEF CurFile
  <1>2. CASE Continue(t, rest)
    <2>1. rest # {}
      BY <1>2 DEF Continue, TypeOK
    <2>2. PICK f \in {FileOf[c] : c \in rest} : cur' = [cur EXCEPT ![t] = f]
      BY <1>2, <2>1 DEF Continue
    <2>3. edits'[t] = rest /\ cur'[t] = f
      BY <1>2, <2>2 DEF Continue, TypeOK
    <2>4. CurFile(t)' # {}
      BY <1>1, <2>2, <2>3 DEF InFile
    <2> QED  BY <2>4, AfterShape
  <1>3. CASE ~Continue(t, rest)
    <2>1. /\ CurLines(t) # {} /\ step' = [step EXCEPT ![t] = "lines"]
          /\ edits' = [edits EXCEPT ![t] = @ \ CurStrings(t)] /\ UNCHANGED cur
      BY <1>3 DEF AfterStrings, AfterFile
    <2>2. edits'[t] = edits[t] \ CurStrings(t) /\ cur'[t] = cur[t] /\ step'[t] = "lines"
      BY <2>1 DEF TypeOK
    <2> QED  BY <1>1, <2>1, <2>2 DEF CurLines, CurStrings, CurFile, Lines, Strings, InFile
  <1> QED  BY <1>2, <1>3

LEMMA CloseWorks ==
    ASSUME TypeOK, NEW s \in Scopes, NEW t \in Tasks, CloseWindow(s, t), pending[s] # {}
    PROVE  /\ step'[t] \in {"solo", "lock", "lines"}
           /\ CurFile(t)' # {}
           /\ step'[t] \in {"solo", "lock"} => CurStrings(t)' # {}
  <1>1. PICK f \in {FileOf[c] : c \in pending[s]} : cur' = [cur EXCEPT ![t] = f]
    BY DEF CloseWindow
  <1>2. edits'[t] = pending[s] /\ cur'[t] = f
    BY <1>1, CloseWindowShape DEF TypeOK
  <1>3. CurFile(t)' # {}
    BY <1>1, <1>2 DEF CurFile, InFile
  <1> QED  BY <1>3, CloseWindowShape

\* A task that answers gives back whatever it holds.
LEMMA FinishFrees ==
    ASSUME WorkInv, NEW t \in Tasks, Finish(t), NEW f \in Files
    PROVE  /\ mwlock'[f] # t /\ mwlock'[f] \in {mwlock[f], NoTask}
           /\ fslock'[f] # t /\ fslock'[f] \in {fslock[f], NoTask}
  <1>0. TypeOK /\ HoldInv
    BY WorkFacts
  <1>1. /\ mwlock' \in {mwlock, Release(mwlock, t)}
        /\ fslock' \in {fslock, Release(fslock, t)}
    BY FinishActive, WorkFacts
  <1>2. /\ step[t] = "write" => mwlock' = Release(mwlock, t)
        /\ step[t] \in {"soloRW", "linesRW"} => fslock' = Release(fslock, t)
    BY DEF Finish, SoloWrite, SoloFail, BatchReject, BatchWrite, BatchWriteFail, BatchTimeout,
           LinesReject, LinesWrite, LinesFail, LinesTimeout
  <1>3. /\ mwlock[f] = t => step[t] = "write"
        /\ fslock[f] = t => step[t] \in {"soloRW", "linesRW"}
    BY <1>0 DEF HoldInv, HeldRight
  <1> QED  BY <1>1, <1>2, <1>3 DEF Release

LEMMA FinishHold == ASSUME WorkInv, NEW t \in Tasks, Finish(t) PROVE HoldInv'
  <1>0. /\ TypeOK /\ HeldRight /\ OpenForCalls
        /\ \A u \in Tasks : HasWindow(u) /\ HasWork(u)
    BY WorkFacts DEF HoldInv
  <1>1. /\ step[t] \notin Idle /\ cur[t] \in Files
        /\ AfterStrings(t) \/ AfterFile(t)
        /\ UNCHANGED <<pending, window>>
    BY FinishActive, FinishShape, WorkFacts DEF queueVars
  <1>2. /\ \A u \in Tasks \ {t} : edits'[u] = edits[u] /\ step'[u] = step[u] /\ cur'[u] = cur[u]
        /\ step'[t] \in {"free", "solo", "lock", "lines"}
    BY <1>0, <1>1, AfterShape
  <1>3. HeldRight'
    <2> SUFFICES ASSUME NEW f \in Files
                 PROVE  /\ mwlock'[f] # NoTask => step'[mwlock'[f]] = "write" /\ cur'[mwlock'[f]] = f
                        /\ fslock'[f] # NoTask => /\ step'[fslock'[f]] \in {"soloRW", "linesRW"}
                                                  /\ cur'[fslock'[f]] = f
      BY DEF HeldRight
    <2>1. /\ mwlock'[f] # t /\ mwlock'[f] \in {mwlock[f], NoTask}
          /\ fslock'[f] # t /\ fslock'[f] \in {fslock[f], NoTask}
      BY FinishFrees
    <2>2. mwlock[f] \in Tasks \cup {NoTask} /\ fslock[f] \in Tasks \cup {NoTask}
      BY <1>0 DEF TypeOK
    <2> QED  BY <1>0, <1>2, <2>1, <2>2 DEF HeldRight
  <1>4. OpenForCalls'
    BY <1>0, <1>1 DEF OpenForCalls
  <1>5. \A u \in Tasks : HasWindow(u)'
    BY <1>0, <1>1, <1>2 DEF HasWindow
  <1>6. \A u \in Tasks \ {t} : HasWork(u)'
    BY <1>0, <1>2 DEF HasWork, CurFile, CurStrings
  <1>7. HasWork(t)'
    BY <1>0, <1>1, <1>2, AfterWorks DEF HasWork, Idle
  <1> QED  BY <1>3, <1>4, <1>5, <1>6, <1>7 DEF HoldInv

LEMMA ReadHold ==
    ASSUME WorkInv, NEW t \in Tasks,
           SoloRead(t) \/ \E A \in SUBSET Calls : BatchRead(t, A) \/ LinesRead(t, A)
    PROVE  HoldInv'
  <1>0. /\ TypeOK /\ HeldRight /\ OpenForCalls
        /\ \A u \in Tasks : HasWindow(u) /\ HasWork(u)
    BY WorkFacts DEF HoldInv
  <1>1. /\ step[t] \in {"solo", "lock", "lines"} /\ step'[t] \in {"soloRW", "write", "linesRW"}
        /\ \A u \in Tasks \ {t} : step'[u] = step[u]
        /\ step'[t] = "linesRW" <=> step[t] = "lines"
        /\ UNCHANGED <<pending, window, edits, cur>>
    BY <1>0, ReadShape DEF queueVars, TypeOK
  <1>2. cur[t] \in Files
    BY <1>1, WorkFacts DEF JobInv, Idle
  <1>3. HeldRight'
    <2>1. ASSUME NEW f \in Files
          PROVE  /\ mwlock[f] # t /\ fslock[f] # t
                 /\ mwlock[f] \in Tasks \cup {NoTask} /\ fslock[f] \in Tasks \cup {NoTask}
      <3>1. t # NoTask
        OBVIOUS
      <3>2. mwlock[f] # t
        BY <1>0, <1>1, <3>1 DEF HeldRight
      <3>3. fslock[f] # t
        BY <1>0, <1>1, <3>1 DEF HeldRight
      <3> QED  BY <1>0, <3>2, <3>3 DEF TypeOK
    <2>2. \/ /\ UNCHANGED mwlock /\ fslock' = [fslock EXCEPT ![cur[t]] = t]
             /\ step'[t] \in {"soloRW", "linesRW"}
          \/ /\ UNCHANGED fslock /\ mwlock' = [mwlock EXCEPT ![cur[t]] = t]
             /\ step'[t] = "write"
      BY <1>0 DEF SoloRead, BatchRead, LinesRead, Take, TypeOK
    <2>3. ASSUME NEW f \in Files
          PROVE  /\ mwlock'[f] # mwlock[f] => mwlock'[f] = t /\ f = cur[t] /\ step'[t] = "write"
                 /\ fslock'[f] # fslock[f] => /\ fslock'[f] = t /\ f = cur[t]
                                              /\ step'[t] \in {"soloRW", "linesRW"}
      BY <1>0, <1>2, <2>2 DEF TypeOK
    <2> QED  BY <1>0, <1>1, <2>1, <2>3 DEF HeldRight
  <1>4. OpenForCalls' /\ \A u \in Tasks : HasWindow(u)'
    BY <1>0, <1>1 DEF OpenForCalls, HasWindow
  <1>5. \A u \in Tasks : CurFile(u)' = CurFile(u) /\ CurStrings(u)' = CurStrings(u)
    BY <1>1 DEF CurFile, CurStrings
  <1>6. step[t] = "lock" => CurStrings(t) # {}
    BY WorkFacts DEF LedgerInv, AppliedInv
  <1>7. \A u \in Tasks : HasWork(u)'
    BY <1>0, <1>1, <1>5, <1>6 DEF HasWork, Idle
  <1> QED  BY <1>3, <1>4, <1>7 DEF HoldInv

\* No lock is taken or given back by who queues calls or opens and closes
\* windows, and who holds one is left where it stands.
LEMMA OtherHeld ==
    ASSUME WorkInv, UNCHANGED <<mwlock, fslock>>,
           \A u \in Tasks : step[u] \in {"write", "soloRW", "linesRW"} =>
               step'[u] = step[u] /\ cur'[u] = cur[u]
    PROVE  HeldRight'
  <1>1. TypeOK /\ HeldRight
    BY WorkFacts DEF HoldInv
  <1>2. \A f \in Files : /\ mwlock[f] \in Tasks \cup {NoTask}
                         /\ fslock[f] \in Tasks \cup {NoTask}
    BY <1>1 DEF TypeOK
  <1> QED  BY <1>1, <1>2 DEF HeldRight

LEMMA CallerHold == ASSUME WorkInv, NEW c \in Calls, Caller(c) PROVE HoldInv'
  <1>0. /\ TypeOK /\ WindowInv /\ HeldRight /\ OpenForCalls
        /\ \A u \in Tasks : HasWindow(u) /\ HasWork(u)
    BY WorkFacts DEF HoldInv
  <1>1. CASE SubmitString(c) \/ SubmitLine(c)
    <2> DEFINE s == ScopeOf[c]
    <2>1. /\ s \in Scopes /\ StartWindow(s)
          /\ pending'[s] = pending[s] \cup {c}
          /\ \A r \in Scopes \ {s} : pending'[r] = pending[r]
          /\ UNCHANGED <<edits, cur, mwlock, fslock>>
      BY <1>0, <1>1 DEF SubmitString, SubmitLine, Enqueue, TypeOK, lockVars
    <2> HIDE DEF s
    <2>2. /\ \A r \in Scopes \ {s} : window'[r] = window[r]
          /\ \A u \in Tasks : step'[u] = step[u] \/ (step[u] = "free" /\ step'[u] = "armed")
      BY <2>1, StartWindowShape, WorkFacts
    <2>3. HeldRight'
      BY <2>1, <2>2, OtherHeld
    <2>4. OpenForCalls'
      BY <1>0, <2>1, <2>2 DEF OpenForCalls
    <2>5. \A u \in Tasks : HasWindow(u)'
      <3>1. \A r \in Scopes : window[r] # NoTask => window'[r] = window[r]
        <4>1. CASE NeedsWindow(s)
          <5>1. window[s] = NoTask
            BY <1>0, <2>1, <4>1 DEF NeedsWindow, WindowInv
          <5> QED  BY <2>2, <5>1
        <4>2. CASE ~NeedsWindow(s)
          BY <2>1, <4>2 DEF StartWindow
        <4> QED  BY <4>1, <4>2
      <3>2. \A u \in Tasks : step'[u] # step[u] => window'[s] = u
        BY <1>0, <2>1 DEF StartWindow, TypeOK
      <3> SUFFICES ASSUME NEW u \in Tasks, step'[u] \in {"armed", "sleeping"}
                   PROVE  \E r \in Scopes : window'[r] = u
        BY DEF HasWindow
      <3>3. CASE step'[u] = step[u]
        <4>1. PICK r \in Scopes : window[r] = u
          BY <1>0, <3>3 DEF HasWindow
        <4> QED  BY <3>1, <4>1
      <3> QED  BY <2>1, <3>2, <3>3
    <2>6. \A u \in Tasks : HasWork(u)'
      BY <1>0, <2>1, <2>2 DEF HasWork, CurFile, CurStrings, Idle
    <2> QED  BY <2>3, <2>4, <2>5, <2>6 DEF HoldInv
  <1>2. CASE RejectString(c) \/ CancelCaller(c)
    <2>1. UNCHANGED <<pending, window, step, edits, cur, mwlock, fslock>>
      BY <1>2 DEF RejectString, CancelCaller, queueVars, jobVars, lockVars
    <2> QED  BY <1>0, <2>1 DEF HoldInv, HeldRight, OpenForCalls, HasWindow, HasWork, CurFile, CurStrings
  <1> QED  BY <1>1, <1>2 DEF Caller

LEMMA WindowHold == ASSUME WorkInv, NEW t \in Tasks, Window(t) PROVE HoldInv'
  <1>0. /\ TypeOK /\ WindowInv /\ HeldRight /\ OpenForCalls
        /\ \A u \in Tasks : HasWindow(u) /\ HasWork(u)
    BY WorkFacts DEF HoldInv
  <1>1. PICK s \in Scopes : TickSolo(s, t) \/ TickMany(s, t) \/ WindowOver(s, t)
    BY DEF Window
  <1>2. window[s] = t /\ step[t] \in {"armed", "sleeping"} /\ pending[s] # {}
    BY <1>0, <1>1 DEF TickSolo, TickMany, WindowOver, OpenForCalls
  <1>3. CASE CloseWindow(s, t)
    <2>1. /\ \A u \in Tasks \ {t} : step'[u] = step[u] /\ cur'[u] = cur[u] /\ edits'[u] = edits[u]
          /\ pending' = [pending EXCEPT ![s] = {}]
          /\ window' = [window EXCEPT ![s] = NoTask]
          /\ UNCHANGED <<mwlock, fslock>>
      <3>1. UNCHANGED <<mwlock, fslock>>
        BY <1>3 DEF CloseWindow, lockVars
      <3> QED  BY <1>0, <1>3, <3>1, CloseWindowShape
    <2>2. /\ step'[t] \in {"solo", "lock", "lines"}
          /\ CurFile(t)' # {}
          /\ step'[t] \in {"solo", "lock"} => CurStrings(t)' # {}
      BY <1>0, <1>2, <1>3, CloseWorks
    <2>3. HeldRight'
      BY <1>2, <2>1, OtherHeld
    <2>4. /\ window'[s] = NoTask
          /\ \A r \in Scopes \ {s} : window'[r] = window[r] /\ pending'[r] = pending[r]
      BY <1>0, <2>1 DEF TypeOK
    <2>5. OpenForCalls'
      BY <1>0, <2>4 DEF OpenForCalls
    <2>6. \A u \in Tasks : HasWindow(u)'
      BY <1>0, <1>2, <2>1, <2>2, <2>4 DEF HasWindow
    <2>7. \A u \in Tasks : HasWork(u)'
      BY <1>0, <2>1, <2>2 DEF HasWork, CurFile, CurStrings, Idle
    <2> QED  BY <2>3, <2>5, <2>6, <2>7 DEF HoldInv
  <1>4. CASE TickMany(s, t)
    <2>1. /\ step'[t] = "sleeping" /\ \A u \in Tasks \ {t} : step'[u] = step[u]
          /\ UNCHANGED <<pending, window, edits, cur, mwlock, fslock>>
      BY <1>0, <1>4 DEF TickMany, queueVars, lockVars, TypeOK
    <2>2. HeldRight'
      BY <1>2, <2>1, OtherHeld
    <2>3. OpenForCalls' /\ \A u \in Tasks : HasWindow(u)'
      BY <1>0, <1>2, <2>1 DEF OpenForCalls, HasWindow
    <2>4. \A u \in Tasks : HasWork(u)'
      BY <1>0, <2>1 DEF HasWork, CurFile, CurStrings, Idle
    <2> QED  BY <2>2, <2>3, <2>4 DEF HoldInv
  <1> QED  BY <1>1, <1>3, <1>4 DEF TickSolo, WindowOver

LEMMA WorkInductive == Spec => []WorkInv
  <1>1. Init => HoldInv
    BY DEF Init, HoldInv, HeldRight, OpenForCalls, HasWindow, HasWork, Idle
  <1>2. WorkInv /\ [Next]_vars => HoldInv'
    <2> SUFFICES ASSUME WorkInv, [Next]_vars PROVE HoldInv'
      OBVIOUS
    <2>1. CASE \E c \in Calls : Caller(c)
      BY <2>1, CallerHold
    <2>2. CASE \E t \in Tasks : Window(t)
      BY <2>2, WindowHold
    <2>3. CASE \E t \in Tasks : Dispatch(t)
      BY <2>3, DispatchSteps, ReadHold, FinishHold
    <2>4. CASE UNCHANGED vars
      BY <2>4, WorkFacts DEF HoldInv, HeldRight, OpenForCalls, HasWindow, HasWork, CurFile, CurStrings, vars
    <2> QED  BY <2>1, <2>2, <2>3, <2>4 DEF Next
  <1> QED  BY <1>1, <1>2, LedgerInductive, ShareInductive, PTL DEF Spec, WorkInv

\* EditFreeOfDeadlock: no task ever waits for good, and as long as a caller
\* waits some task has a step to take.
THEOREM EditFreeOfDeadlock == Spec => []EditNeverStuck
  <1>1. WorkInv => EditNeverStuck
    <2> SUFFICES ASSUME WorkInv PROVE EditNeverStuck
      OBVIOUS
    <2>0. TypeOK /\ HoldInv /\ JobInv /\ WindowInv
      BY WorkFacts
    <2>1. ASSUME NEW u \in Tasks, step[u] \in {"soloRW", "linesRW"} PROVE EditCanMove(u)
      BY <2>1 DEF EditCanMove
    <2>2. ASSUME NEW u \in Tasks, step[u] \in {"solo", "write", "lines"}
          PROVE  EditCanMove(u) \/ \E v \in Tasks : cur[v] = cur[u] /\ EditCanMove(v)
      <3>1. cur[u] \in Files /\ fslock[cur[u]] \in Tasks \cup {NoTask}
        BY <2>0, <2>2 DEF JobInv, Idle, TypeOK
      <3>2. CASE fslock[cur[u]] = NoTask
        BY <2>2, <3>2 DEF EditCanMove
      <3>3. CASE fslock[cur[u]] # NoTask
        BY <2>0, <2>1, <3>1, <3>3 DEF HoldInv, HeldRight
      <3> QED  BY <3>2, <3>3
    <2>3. ASSUME NEW t \in Tasks, step[t] # "free"
          PROVE  EditCanMove(t) \/ \E u \in Tasks : cur[u] = cur[t] /\ EditCanMove(u)
      <3>1. CASE step[t] \in {"armed", "sleeping"}
        BY <2>0, <3>1 DEF HoldInv, HasWindow, EditCanMove
      <3>2. CASE step[t] = "lock"
        <4>1. cur[t] \in Files /\ mwlock[cur[t]] \in Tasks \cup {NoTask}
          BY <2>0, <3>2 DEF JobInv, Idle, TypeOK
        <4>2. CASE mwlock[cur[t]] = NoTask
          BY <3>2, <4>2 DEF EditCanMove
        <4>3. CASE mwlock[cur[t]] # NoTask
          <5>1. PICK u \in Tasks : step[u] = "write" /\ cur[u] = cur[t]
            BY <2>0, <4>1, <4>3 DEF HoldInv, HeldRight
          <5> QED  BY <2>2, <5>1
        <4> QED  BY <4>2, <4>3
      <3>3. CASE step[t] \in {"solo", "write", "lines", "soloRW", "linesRW"}
        BY <2>1, <2>2, <3>3
      <3>4. step[t] \in Steps
        BY <2>0 DEF TypeOK
      <3> QED  BY <2>3, <3>1, <3>2, <3>3, <3>4 DEF Steps
    <2>4. ASSUME NEW c \in Calls, fut[c] = "pending" PROVE \E t \in Tasks : EditCanMove(t)
      <3>1. CASE c \in pending[ScopeOf[c]]
        <4>1. window[ScopeOf[c]] \in Tasks /\ step[window[ScopeOf[c]]] \in {"armed", "sleeping"}
          BY <2>0, <3>1 DEF WindowInv, TypeOK
        <4> QED  BY <4>1 DEF EditCanMove
      <3>2. CASE \E t \in Tasks : c \in edits[t]
        <4>1. PICK t \in Tasks : c \in edits[t]
          BY <3>2
        <4>2. step[t] # "free"
          BY <2>0, <4>1 DEF JobInv, Idle
        <4> QED  BY <2>3, <4>2
      <3> QED  BY <2>4, <3>1, <3>2, WorkFacts DEF OrphanInv, Reach
    <2> QED  BY <2>3, <2>4 DEF EditNeverStuck
  <1> QED  BY <1>1, WorkInductive, PTL

\* Where a call is tells its place, and the place bounds its progress.
PlaceFacts ==
    /\ \A c \in Calls : fut[c] = "none" =>
          /\ Place(c) = 0
          /\ \A s \in Scopes : c \notin pending[s]
          /\ \A t \in Tasks : c \notin edits[t]
    /\ \A s \in Scopes : \A c \in pending[s] :
          fut[c] # "none" /\ Place(c) = IF step[window[s]] = "armed" THEN 1 ELSE 2
    /\ \A t \in Tasks : \A c \in edits[t] :
          fut[c] # "none" /\ Place(c) = IF cur[t] = FileOf[c] THEN Stage4(step[t]) ELSE 3
    /\ \A c \in Calls :
          fut[c] # "none" /\ c \notin pending[ScopeOf[c]] /\ (\A t \in Tasks : c \notin edits[t])
             => Place(c) = 8
    /\ \A c \in Calls : Place(c) \in 0 .. 8

LEMMA PlaceRange == \A c : Place(c) \in 0 .. 8
  BY DEF Place, Stage4

LEMMA PlaceIsRight == WorkInv => PlaceFacts
  <1> SUFFICES ASSUME WorkInv PROVE PlaceFacts
    OBVIOUS
  <1>0. TypeOK /\ QueueInv /\ PoppedInv
    BY WorkFacts DEF LedgerInv
  <1>1. ASSUME NEW c \in Calls, fut[c] = "none"
        PROVE  /\ Place(c) = 0
               /\ \A s \in Scopes : c \notin pending[s]
               /\ \A t \in Tasks : c \notin edits[t]
    BY <1>0, <1>1 DEF Place, QueueInv, PoppedInv, Unsettled
  <1>2. ASSUME NEW s \in Scopes, NEW c \in pending[s]
        PROVE  fut[c] # "none" /\ Place(c) = IF step[window[s]] = "armed" THEN 1 ELSE 2
    <2>1. fut[c] # "none" /\ ScopeOf[c] = s
      BY <1>0 DEF QueueInv, Unsettled
    <2> QED  BY <2>1 DEF Place
  <1>3. ASSUME NEW t \in Tasks, NEW c \in edits[t]
        PROVE  fut[c] # "none" /\ Place(c) = IF cur[t] = FileOf[c] THEN Stage4(step[t]) ELSE 3
    <2>1. fut[c] # "none" /\ c \notin pending[ScopeOf[c]] /\ \A u \in Tasks : u # t => c \notin edits[u]
      BY <1>0 DEF PoppedInv, Unsettled, TypeOK
    <2>2. Owner(c) = t
      BY <2>1 DEF Owner
    <2> QED  BY <2>1, <2>2 DEF Place
  <1>4. ASSUME NEW c \in Calls, fut[c] # "none", c \notin pending[ScopeOf[c]],
               \A t \in Tasks : c \notin edits[t]
        PROVE  Place(c) = 8
    BY <1>4 DEF Place
  <1> QED  BY <1>1, <1>2, <1>3, <1>4, PlaceRange DEF PlaceFacts

\* A call whose place does not fall has made progress if its place rose or
\* its caller has stopped waiting.
LEMMA ProgressOf ==
    ASSUME NEW c \in Calls, Place(c) \in 0 .. 8, Place(c)' \in 0 .. 8, Place(c)' >= Place(c),
           \/ fut'[c] = fut[c]
           \/ fut[c] = "none" /\ Place(c)' > Place(c)
           \/ fut[c] = "pending" /\ fut'[c] \notin {"none", "pending"}
    PROVE  /\ Progress(c)' >= Progress(c)
           /\ Place(c)' > Place(c) => Progress(c)' > Progress(c)
           /\ fut[c] = "pending" /\ fut'[c] # "pending" => Progress(c)' > Progress(c)
  BY DEF Progress

LEMMA CallerMoves ==
    ASSUME WorkInv, PlaceFacts, PlaceFacts', NEW c \in Calls, Caller(c)
    PROVE  EditMoves
  <1>0. TypeOK /\ WindowInv /\ JobInv /\ \A d \in Calls : Place(d) \in 0 .. 8 /\ Place(d)' \in 0 .. 8
    BY WorkFacts DEF PlaceFacts
  <1>1. CASE SubmitString(c) \/ SubmitLine(c)
    <2> DEFINE s == ScopeOf[c]
    <2>1. /\ s \in Scopes /\ StartWindow(s) /\ fut[c] = "none"
          /\ pending'[s] = pending[s] \cup {c}
          /\ \A r \in Scopes \ {s} : pending'[r] = pending[r]
          /\ fut'[c] = "pending" /\ \A d \in Calls \ {c} : fut'[d] = fut[d]
          /\ UNCHANGED <<edits, cur>>
      BY <1>0, <1>1 DEF SubmitString, SubmitLine, Enqueue, TypeOK
    <2>2. Place(c) = 0 /\ Place(c)' > 0
      BY <2>1 DEF PlaceFacts
    <2>3. ASSUME NEW d \in Calls \ {c} PROVE Place(d)' = Place(d)
      <3>1. CASE fut[d] = "none"
        BY <2>1, <3>1 DEF PlaceFacts
      <3>2. CASE fut[d] # "none" /\ d \in pending[ScopeOf[d]]
        <4> DEFINE r == ScopeOf[d]
        <4>1. /\ d \in pending[r] /\ d \in pending'[r] /\ r \in Scopes
          BY <2>1, <3>2
        <4>2. window[r] # NoTask
          BY <1>0, <4>1 DEF WindowInv
        <4>3. step'[window[r]] = step[window[r]]
          BY <2>1, <4>1, <4>2, StartWindowShape, WorkFacts
        <4>4. window'[r] = window[r]
          <5>1. CASE r = s
            <6>1. ~NeedsWindow(s)
              BY <1>0, <4>1, <4>2, <5>1 DEF NeedsWindow, WindowInv
            <6> QED  BY <2>1, <5>1, <6>1 DEF StartWindow
          <5>2. CASE r # s
            BY <2>1, <4>1, <5>2, StartWindowShape, WorkFacts
          <5> QED  BY <5>1, <5>2
        <4> HIDE DEF r
        <4> QED  BY <4>1, <4>3, <4>4 DEF PlaceFacts
      <3>3. CASE fut[d] # "none" /\ d \notin pending[ScopeOf[d]] /\ \E t \in Tasks : d \in edits[t]
        <4>1. PICK t \in Tasks : d \in edits[t]
          BY <3>3
        <4>2. step[t] \notin Idle
          BY <1>0, <4>1 DEF JobInv
        <4>3. step'[t] = step[t]
          BY <2>1, <4>2, StartWindowShape, WorkFacts DEF Idle
        <4> QED  BY <2>1, <4>1, <4>3 DEF PlaceFacts
      <3>4. CASE fut[d] # "none" /\ d \notin pending[ScopeOf[d]] /\ \A t \in Tasks : d \notin edits[t]
        <4>1. d \notin pending'[ScopeOf[d]]
          BY <2>1, <3>4
        <4> QED  BY <2>1, <3>4, <4>1 DEF PlaceFacts
      <3> QED  BY <3>1, <3>2, <3>3, <3>4
    <2>4. Progress(c)' > Progress(c)
      BY <1>0, <2>1, <2>2, ProgressOf
    <2>5. \A d \in Calls \ {c} : Progress(d)' >= Progress(d)
      BY <1>0, <2>1, <2>3, ProgressOf
    <2>6. Progress(c)' >= Progress(c)
      BY <1>0, <2>1, <2>2, ProgressOf
    <2> QED  BY <2>4, <2>5, <2>6 DEF EditMoves
  <1>2. CASE RejectString(c) \/ CancelCaller(c)
    <2>1. /\ UNCHANGED <<pending, window, step, edits, cur>>
          /\ \A d \in Calls \ {c} : fut'[d] = fut[d]
          /\ \/ fut[c] = "none" /\ fut'[c] = "failed"
             \/ fut[c] = "pending" /\ fut'[c] = "cancelled"
      BY <1>0, <1>2 DEF RejectString, CancelCaller, queueVars, jobVars, TypeOK
    <2>2. \A d \in Calls : fut[d] # "none" => Place(d)' = Place(d)
      BY <2>1 DEF Place, Owner
    <2>3. \A d \in Calls : fut[d] = "none" /\ d # c => Place(d)' = Place(d)
      BY <2>1 DEF PlaceFacts
    <2>4. fut[c] = "none" => Place(c)' > Place(c)
      BY <2>1 DEF PlaceFacts
    <2>5. Progress(c)' > Progress(c) /\ Progress(c)' >= Progress(c)
      BY <1>0, <2>1, <2>2, <2>4, ProgressOf
    <2>6. \A d \in Calls \ {c} : Progress(d)' >= Progress(d)
      BY <1>0, <2>1, <2>2, <2>3, ProgressOf
    <2> QED  BY <2>5, <2>6 DEF EditMoves
  <1> QED  BY <1>1, <1>2 DEF Caller

LEMMA WindowMoves ==
    ASSUME WorkInv, PlaceFacts, PlaceFacts', NEW t \in Tasks, Window(t)
    PROVE  EditMoves
  <1>0. /\ TypeOK /\ WindowInv /\ JobInv /\ OpenForCalls
        /\ \A d \in Calls : Place(d) \in 0 .. 8 /\ Place(d)' \in 0 .. 8
    BY WorkFacts DEF HoldInv, PlaceFacts
  <1>1. PICK s \in Scopes : TickSolo(s, t) \/ TickMany(s, t) \/ WindowOver(s, t)
    BY DEF Window
  <1>2. /\ window[s] = t /\ step[t] \in {"armed", "sleeping"} /\ pending[s] # {}
        /\ edits[t] = {}
    BY <1>0, <1>1 DEF TickSolo, TickMany, WindowOver, OpenForCalls, JobInv, Idle
  <1>3. pending[s] \subseteq Calls
    BY <1>0 DEF TypeOK
  <1>4. \A r \in Scopes \ {s} : window[r] # t
    BY <1>0, <1>2 DEF WindowInv
  <1> DEFINE Popped == /\ \A d \in Calls : fut'[d] = fut[d]
                       /\ \A d \in pending[s] : Place(d)' > Place(d)
                       /\ \A d \in Calls : d \notin pending[s] => Place(d)' = Place(d)
  <1>5. ASSUME Popped PROVE EditMoves
    <2>1. ASSUME NEW d \in Calls, fut'[d] = fut[d], Place(d)' >= Place(d)
          PROVE  Progress(d)' >= Progress(d) /\ (Place(d)' > Place(d) => Progress(d)' > Progress(d))
      BY <1>0, <2>1, ProgressOf
    <2>2. ASSUME NEW d \in Calls
          PROVE  Place(d) \in 0 .. 8 /\ Place(d)' \in 0 .. 8
      BY <1>0
    <2>3. PICK c \in Calls : c \in pending[s]
      BY <1>2, <1>3
    <2>4. \A d \in Calls : Progress(d)' >= Progress(d)
      BY <1>5, <2>1, <2>2
    <2>5. Progress(c)' > Progress(c)
      BY <1>5, <2>1, <2>2, <2>3
    <2> QED  BY <2>4, <2>5 DEF EditMoves
  <1>6. CASE CloseWindow(s, t)
    <2>1. /\ \A u \in Tasks \ {t} : step'[u] = step[u] /\ cur'[u] = cur[u] /\ edits'[u] = edits[u]
          /\ edits'[t] = pending[s]
          /\ step'[t] \in {"solo", "lock", "lines"}
          /\ UNCHANGED fut
      BY <1>0, <1>2, <1>6, CloseWindowShape, CloseWorks
    <2>2. /\ pending'[s] = {} /\ window'[s] = NoTask
          /\ \A r \in Scopes \ {s} : window'[r] = window[r] /\ pending'[r] = pending[r]
      BY <1>0, <1>6, CloseWindowShape DEF TypeOK
    <2>3. ASSUME NEW d \in pending[s] PROVE Place(d)' > Place(d)
      <3>1. Place(d) \in {1, 2}
        BY DEF PlaceFacts
      <3>2. Place(d)' >= 3
        BY <2>1 DEF PlaceFacts, Stage4
      <3> QED  BY <1>0, <1>3, <3>1, <3>2
    <2>4. ASSUME NEW d \in Calls, d \notin pending[s] PROVE Place(d)' = Place(d)
      <3>1. CASE fut[d] = "none"
        BY <2>1, <3>1 DEF PlaceFacts
      <3>2. CASE \E r \in Scopes : d \in pending[r]
        <4>1. PICK r \in Scopes : d \in pending[r]
          BY <3>2
        <4>2. r # s /\ d \in pending'[r] /\ window'[r] = window[r]
          BY <2>2, <2>4, <4>1
        <4>3. step'[window[r]] = step[window[r]]
          BY <1>0, <1>4, <2>1, <4>1, <4>2 DEF WindowInv, TypeOK
        <4> QED  BY <4>1, <4>2, <4>3 DEF PlaceFacts
      <3>3. CASE \E u \in Tasks : d \in edits[u]
        <4>1. PICK u \in Tasks : d \in edits[u]
          BY <3>3
        <4>2. u # t
          BY <1>2, <4>1
        <4> QED  BY <2>1, <4>1, <4>2 DEF PlaceFacts
      <3>4. CASE /\ fut[d] # "none" /\ (\A r \in Scopes : d \notin pending[r])
                 /\ \A u \in Tasks : d \notin edits[u]
        <4>1. \A u \in Tasks : d \notin edits'[u]
          BY <2>1, <2>4, <3>4
        <4>2. \A r \in Scopes : d \notin pending'[r]
          BY <2>2, <3>4
        <4> QED  BY <2>1, <3>4, <4>1, <4>2 DEF PlaceFacts
      <3> QED  BY <3>1, <3>2, <3>3, <3>4
    <2> QED  BY <1>5, <2>1, <2>3, <2>4
  <1>7. CASE TickMany(s, t)
    <2>1. /\ step[t] = "armed" /\ step'[t] = "sleeping"
          /\ \A u \in Tasks \ {t} : step'[u] = step[u]
          /\ UNCHANGED <<fut, pending, window, edits, cur>>
      BY <1>0, <1>7 DEF TickMany, callVars, queueVars, TypeOK
    <2>2. ASSUME NEW d \in pending[s] PROVE Place(d)' > Place(d)
      <3>1. Place(d) = 1
        BY <1>2, <2>1 DEF PlaceFacts
      <3>2. Place(d)' = 2
        BY <1>2, <2>1 DEF PlaceFacts
      <3> QED  BY <3>1, <3>2
    <2>3. ASSUME NEW d \in Calls, d \notin pending[s] PROVE Place(d)' = Place(d)
      <3>1. CASE fut[d] = "none"
        BY <2>1, <3>1 DEF PlaceFacts
      <3>2. CASE \E r \in Scopes : d \in pending[r]
        <4>1. PICK r \in Scopes : d \in pending[r] /\ r # s
          BY <2>3, <3>2
        <4>2. step'[window[r]] = step[window[r]]
          BY <1>0, <1>4, <2>1, <4>1 DEF WindowInv, TypeOK
        <4> QED  BY <2>1, <4>1, <4>2 DEF PlaceFacts
      <3>3. CASE \E u \in Tasks : d \in edits[u]
        <4>1. PICK u \in Tasks : d \in edits[u] /\ u # t
          BY <1>2, <3>3
        <4> QED  BY <2>1, <4>1 DEF PlaceFacts
      <3>4. CASE /\ fut[d] # "none" /\ (\A r \in Scopes : d \notin pending[r])
                 /\ \A u \in Tasks : d \notin edits[u]
        BY <2>1, <3>4 DEF PlaceFacts
      <3> QED  BY <3>1, <3>2, <3>3, <3>4
    <2> QED  BY <1>5, <2>1, <2>2, <2>3
  <1> QED  BY <1>1, <1>6, <1>7 DEF TickSolo, WindowOver

\* In a dispatch step only the edits of the task change places.
LEMMA ElseStays ==
    ASSUME WorkInv, PlaceFacts, PlaceFacts', NEW t \in Tasks, step[t] \notin Idle,
           \A u \in Tasks \ {t} : edits'[u] = edits[u] /\ step'[u] = step[u] /\ cur'[u] = cur[u],
           edits'[t] \subseteq edits[t], UNCHANGED <<pending, window>>,
           NEW d \in Calls, d \notin edits[t], fut'[d] = fut[d]
    PROVE  Place(d)' = Place(d)
  <1>0. TypeOK /\ WindowInv
    BY WorkFacts
  <1>1. CASE fut[d] = "none"
    BY <1>1 DEF PlaceFacts
  <1>2. CASE \E r \in Scopes : d \in pending[r]
    <2>1. PICK r \in Scopes : d \in pending[r]
      BY <1>2
    <2>2. step'[window[r]] = step[window[r]]
      BY <1>0, <2>1 DEF WindowInv, TypeOK, Idle
    <2> QED  BY <2>1, <2>2 DEF PlaceFacts
  <1>3. CASE \E u \in Tasks : d \in edits[u]
    <2>1. PICK u \in Tasks : d \in edits[u] /\ u # t
      BY <1>3
    <2> QED  BY <2>1 DEF PlaceFacts
  <1>4. CASE /\ fut[d] # "none" /\ (\A r \in Scopes : d \notin pending[r])
             /\ \A u \in Tasks : d \notin edits[u]
    BY <1>4 DEF PlaceFacts
  <1> QED  BY <1>1, <1>2, <1>3, <1>4

LEMMA ReadMoves ==
    ASSUME WorkInv, PlaceFacts, PlaceFacts', NEW t \in Tasks,
           SoloRead(t) \/ \E A \in SUBSET Calls : BatchRead(t, A) \/ LinesRead(t, A)
    PROVE  EditMoves
  <1>0. TypeOK /\ HasWork(t) /\ \A d \in Calls : Place(d) \in 0 .. 8 /\ Place(d)' \in 0 .. 8
    BY WorkFacts DEF HoldInv, PlaceFacts
  <1>1. /\ step[t] \in {"solo", "lock", "lines"} /\ step'[t] \in {"soloRW", "write", "linesRW"}
        /\ \A u \in Tasks \ {t} : step'[u] = step[u]
        /\ step'[t] = "linesRW" <=> step[t] = "lines"
        /\ UNCHANGED <<fut, pending, window, edits, cur>>
    BY <1>0, ReadShape DEF queueVars, TypeOK
  <1>2. ASSUME NEW d \in edits[t]
        PROVE  Place(d)' >= Place(d) /\ (FileOf[d] = cur[t] => Place(d)' > Place(d))
    BY <1>1 DEF PlaceFacts, Stage4
  <1>3. ASSUME NEW d \in Calls, d \notin edits[t] PROVE Place(d)' = Place(d)
    BY <1>1, <1>3, ElseStays DEF Idle
  <1>4. PICK c \in Calls : c \in edits[t] /\ FileOf[c] = cur[t]
    BY <1>0, <1>1 DEF HasWork, CurFile, InFile, Idle, TypeOK
  <1>5. Progress(c)' > Progress(c)
    BY <1>0, <1>1, <1>2, <1>4, ProgressOf
  <1>6. ASSUME NEW d \in Calls PROVE Progress(d)' >= Progress(d)
    <2>1. Place(d)' >= Place(d)
      BY <1>0, <1>2, <1>3
    <2> QED  BY <1>0, <1>1, <2>1, ProgressOf
  <1> QED  BY <1>5, <1>6 DEF EditMoves

\* An edit that is left to the task after it has answered belongs to another
\* file, or is a line edit of this one whose turn has come.
LEMMA LeftOver ==
    ASSUME WorkInv, NEW t \in Tasks, Finish(t)
    PROVE  /\ \A d \in edits'[t] : FileOf[d] = cur[t] =>
                 /\ step[t] \in {"solo", "soloRW", "lock", "write"}
                 /\ step'[t] = "lines" /\ cur'[t] = cur[t]
           /\ \E d \in edits[t] : d \notin edits'[t]
  <1>0. TypeOK /\ JobInv /\ HasWork(t) /\ cur[t] \in Files /\ step[t] \notin Idle
    BY WorkFacts, FinishActive DEF HoldInv
  <1>1. AfterStrings(t) \/ AfterFile(t)
    BY FinishShape
  <1>2. CASE edits'[t] = edits[t] \ CurFile(t)
    <2>1. \A d \in edits'[t] : FileOf[d] # cur[t]
      BY <1>2 DEF CurFile, InFile
    <2>2. CurFile(t) # {} /\ CurFile(t) \subseteq edits[t]
      BY <1>0 DEF HasWork, CurFile, InFile
    <2> QED  BY <1>2, <2>1, <2>2
  <1>3. CASE edits'[t] # edits[t] \ CurFile(t)
    <2>1. /\ AfterStrings(t) /\ CurLines(t) # {}
          /\ edits'[t] = edits[t] \ CurStrings(t)
          /\ step'[t] = "lines" /\ cur'[t] = cur[t]
      BY <1>0, <1>1, <1>3 DEF AfterStrings, AfterFile, Continue, TypeOK
    <2>2. step[t] \in {"solo", "soloRW", "lock", "write"}
      <3>1. ASSUME step[t] \in {"lines", "linesRW"} PROVE FALSE
        <4>1. CurStrings(t) = {}
          BY <1>0, <3>1 DEF JobInv
        <4>2. AfterFile(t)
          BY <3>1 DEF Finish, SoloWrite, SoloFail, BatchReject, BatchWrite, BatchWriteFail,
                BatchTimeout, LinesReject, LinesWrite, LinesFail, LinesTimeout
        <4> QED  BY <1>0, <1>3, <4>2 DEF AfterFile, Continue, TypeOK
      <3>2. step[t] \in Steps
        BY <1>0 DEF TypeOK
      <3> QED  BY <1>0, <3>1, <3>2 DEF Steps, Idle
    <2>3. CurStrings(t) # {} /\ CurStrings(t) \subseteq edits[t]
      <3>1. step[t] = "lock" => CurStrings(t) # {}
        BY WorkFacts DEF LedgerInv, AppliedInv
      <3> QED  BY <1>0, <2>2, <3>1 DEF HasWork, CurStrings, CurFile, Strings, InFile
    <2> QED  BY <2>1, <2>2, <2>3
  <1> QED  BY <1>2, <1>3

LEMMA FinishMoves ==
    ASSUME WorkInv, PlaceFacts, PlaceFacts', NEW t \in Tasks, Finish(t)
    PROVE  EditMoves
  <1>0. /\ TypeOK /\ JobInv /\ PoppedInv /\ step[t] \notin Idle
        /\ \A d \in Calls : Place(d) \in 0 .. 8 /\ Place(d)' \in 0 .. 8
    BY WorkFacts, FinishActive DEF LedgerInv, PlaceFacts
  <1>1. /\ \A u \in Tasks \ {t} : edits'[u] = edits[u] /\ step'[u] = step[u] /\ cur'[u] = cur[u]
        /\ edits'[t] \subseteq edits[t]
        /\ step'[t] \in {"free", "solo", "lock", "lines"}
        /\ step'[t] = "free" => edits'[t] = {}
        /\ UNCHANGED <<pending, window>>
    BY <1>0, FinishActive, FinishShape, AfterShape, WorkFacts DEF queueVars
  <1>2. ASSUME NEW d \in Calls
        PROVE  \/ fut'[d] = fut[d]
               \/ fut[d] = "pending" /\ d \in edits[t] /\ fut'[d] \notin {"none", "pending"}
    BY FinishCalls, WorkFacts
  <1>3. ASSUME NEW d \in Calls, d \notin edits[t] PROVE fut'[d] = fut[d] /\ Place(d)' = Place(d)
    <2>1. fut'[d] = fut[d]
      BY <1>2, <1>3
    <2> QED  BY <1>0, <1>1, <1>3, <2>1, ElseStays
  <1>4. ASSUME NEW d \in edits[t], d \notin edits'[t] PROVE Place(d)' > Place(d)
    <2>1. /\ fut[d] # "none" /\ fut'[d] # "none" /\ d \in Calls
          /\ \A s \in Scopes : d \notin pending[s]
          /\ \A u \in Tasks : d \notin edits'[u]
      BY <1>0, <1>1, <1>2, <1>4 DEF PoppedInv, Unsettled, TypeOK
    <2>2. Place(d)' = 8
      BY <1>1, <2>1 DEF PlaceFacts
    <2>3. Place(d) <= 7 /\ Place(d) \in 0 .. 8
      BY <1>0, <2>1 DEF PlaceFacts, Stage4
    <2> QED  BY <2>2, <2>3
  <1>5. ASSUME NEW d \in edits'[t] PROVE Place(d)' >= Place(d)
    <2>1. d \in edits[t] /\ step'[t] \in {"solo", "lock", "lines"}
      BY <1>1
    <2>2. CASE FileOf[d] = cur[t]
      <3>1. step[t] \in {"solo", "soloRW", "lock", "write"} /\ step'[t] = "lines" /\ cur'[t] = cur[t]
        BY <2>2, LeftOver
      <3>2. Place(d) \in {4, 5}
        BY <2>1, <2>2, <3>1 DEF PlaceFacts, Stage4
      <3>3. Place(d)' = 6
        BY <2>2, <3>1 DEF PlaceFacts, Stage4
      <3> QED  BY <3>2, <3>3
    <2>3. CASE FileOf[d] # cur[t]
      <3>1. Place(d) = 3
        BY <2>1, <2>3 DEF PlaceFacts
      <3>2. Place(d)' >= 3
        BY <2>1 DEF PlaceFacts, Stage4
      <3> QED  BY <3>1, <3>2
    <2> QED  BY <2>2, <2>3
  <1>6. PICK c \in Calls : c \in edits[t] /\ c \notin edits'[t]
    BY <1>0, LeftOver DEF TypeOK
  <1>7. ASSUME NEW d \in Calls
        PROVE  Progress(d)' >= Progress(d) /\ (Place(d)' > Place(d) => Progress(d)' > Progress(d))
    <2>1. Place(d)' >= Place(d)
      BY <1>0, <1>3, <1>4, <1>5
    <2>2. \/ fut'[d] = fut[d]
          \/ fut[d] = "pending" /\ fut'[d] \notin {"none", "pending"}
      BY <1>2
    <2> QED  BY <1>0, <2>1, <2>2, ProgressOf
  <1> QED  BY <1>4, <1>6, <1>7 DEF EditMoves

\* EditMovesOn: every step takes some call forward and none back, and no call
\* has more than nine steps to go: with the fairness of the runs, and
\* EditFreeOfDeadlock, this is why every caller is answered.
THEOREM EditMovesOn == Spec => /\ [][EditMoves]_vars
                               /\ [](\A c \in Calls : Progress(c) \in 0 .. 9)
  <1>1. PlaceFacts => \A c \in Calls : Progress(c) \in 0 .. 9
    BY DEF PlaceFacts, Progress
  <1>2. WorkInv /\ PlaceFacts /\ PlaceFacts' /\ [Next]_vars => [EditMoves]_vars
    <2> SUFFICES ASSUME WorkInv, PlaceFacts, PlaceFacts', Next PROVE EditMoves
      OBVIOUS
    <2>1. CASE \E c \in Calls : Caller(c)
      BY <2>1, CallerMoves
    <2>2. CASE \E t \in Tasks : Window(t)
      BY <2>2, WindowMoves
    <2>3. CASE \E t \in Tasks : Dispatch(t)
      BY <2>3, DispatchSteps, ReadMoves, FinishMoves
    <2> QED  BY <2>1, <2>2, <2>3 DEF Next
  <1> QED  BY <1>1, <1>2, WorkInductive, PlaceIsRight, PTL DEF Spec
=============================================================================
