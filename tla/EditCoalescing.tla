--------------------------- MODULE EditCoalescing ---------------------------
(***************************************************************************)
(* middleware/edit_coalescing.py: the edit tool calls that graph threads   *)
(* make in parallel wait in per-scope queues; a window task per scope pops *)
(* the queue when the detection window closes and dispatches the calls     *)
(* file by file.  A lone edit_file call goes to its own handler; several   *)
(* edit_file calls become one read-modify-write under the middleware's     *)
(* per-file lock; line edits become one batched call of the backend.       *)
(*                                                                         *)
(* Everything between two awaits of the event loop is one step.  The file  *)
(* is the set of edits whose text it holds; whether an old_string matches  *)
(* or two edits overlap is a choice of the environment.  Calls have        *)
(* distinct ids.  Modelled with a workspace bound (the direct aiofiles     *)
(* fall-back is not).  The handler of a lone edit and aedit_batched hold   *)
(* the backend's own per-file lock from their read to their write, awrite  *)
(* takes it for the write: that part is soothe_deepagents, external.       *)
(***************************************************************************)
EXTENDS Naturals, Sequences, FiniteSets

CONSTANTS Calls,      \* edit tool calls
          Scopes,     \* thread_id:checkpoint_ns
          Files,
          Tasks,      \* asyncio tasks that run _process_after_window
          Kind,       \* Kind[c]: "string" (edit_file) or "line"
          ScopeOf, FileOf,
          LongFiles,  \* files longer than _DEFAULT_READ_LINE_LIMIT
          MaxStaged,  \* staging_buffer_max_entries
          Policy,     \* staging_buffer_eviction_policy
          NoTask, NoFile

Ways == {"batch", "direct"}     \* which path wrote an edit to the file

ASSUME CallsAssumption ==
    /\ Kind \in [Calls -> {"string", "line"}]
    /\ ScopeOf \in [Calls -> Scopes]
    /\ FileOf \in [Calls -> Files]
ASSUME BufferAssumption ==
    /\ MaxStaged \in Nat \ {0}
    /\ Policy \in {"reject_newest", "evict_oldest"}
ASSUME NamesAssumption ==
    /\ LongFiles \subseteq Files
    /\ NoTask \notin Tasks
    /\ NoFile \notin Files

VARIABLES
    fut,       \* result_future of each call
    pending,   \* _pending_edits[scope]
    staging,   \* _staging_buffer[scope][file]
    window,    \* _window_tasks[scope]
    step,      \* where each window task stands
    edits,     \* the edits a task has popped and not dispatched yet
    staged,    \* the replacements it popped with them
    cur,       \* the file it is dispatching
    snap,      \* the content it read
    applied,   \* the replacements (or line edits) its new content contains
    mwlock,    \* the middleware's FileEditLockRegistry: holder per file
    fslock,    \* the backend's edit_locks: holder per file
    file,      \* the edits each file holds now
    whole,     \* has a file kept its text beyond the read limit?
    written    \* history: every edit that was ever written

callVars == <<fut>>
queueVars == <<pending, staging, window>>
jobVars == <<step, edits, staged, cur, snap, applied>>
lockVars == <<mwlock, fslock>>
diskVars == <<file, whole, written>>
vars == <<fut, pending, staging, window, step, edits, staged, cur, snap,
          applied, mwlock, fslock, file, whole, written>>

Futures == {"none", "pending", "ok", "failed", "unknown", "cancelled"}
Steps == {"free", "armed", "sleeping", "solo", "soloRW", "lock", "write",
          "lines", "linesRW"}

TypeOK ==
    /\ fut \in [Calls -> Futures]
    /\ pending \in [Scopes -> SUBSET Calls]
    /\ staging \in [Scopes -> [Files -> Seq(Calls)]]
    /\ window \in [Scopes -> Tasks \cup {NoTask}]
    /\ step \in [Tasks -> Steps]
    /\ edits \in [Tasks -> SUBSET Calls]
    /\ staged \in [Tasks -> [Files -> SUBSET Calls]]
    /\ cur \in [Tasks -> Files \cup {NoFile}]
    /\ snap \in [Tasks -> SUBSET (Calls \X Ways)]
    /\ applied \in [Tasks -> SUBSET Calls]
    /\ mwlock \in [Files -> Tasks \cup {NoTask}]
    /\ fslock \in [Files -> Tasks \cup {NoTask}]
    /\ file \in [Files -> SUBSET (Calls \X Ways)]
    /\ whole \in [Files -> BOOLEAN]
    /\ written \in SUBSET Calls

Init ==
    /\ fut = [c \in Calls |-> "none"]
    /\ pending = [s \in Scopes |-> {}]
    /\ staging = [s \in Scopes |-> [f \in Files |-> <<>>]]
    /\ window = [s \in Scopes |-> NoTask]
    /\ step = [t \in Tasks |-> "free"]
    /\ edits = [t \in Tasks |-> {}]
    /\ staged = [t \in Tasks |-> [f \in Files |-> {}]]
    /\ cur = [t \in Tasks |-> NoFile]
    /\ snap = [t \in Tasks |-> {}]
    /\ applied = [t \in Tasks |-> {}]
    /\ mwlock = [f \in Files |-> NoTask]
    /\ fslock = [f \in Files |-> NoTask]
    /\ file = [f \in Files |-> {}]
    /\ whole = [f \in Files |-> TRUE]
    /\ written = {}

-----------------------------------------------------------------------------
(* awrap_tool_call: a call joins its scope's queue.                        *)

\* The scope's window task: none, or one that is already done.
NeedsWindow(s) == window[s] = NoTask \/ step[window[s]] = "free"

\* asyncio.create_task(self._process_after_window(scope)) when needed.
StartWindow(s) ==
    IF NeedsWindow(s)
    THEN \E t \in Tasks : /\ step[t] = "free"
                          /\ \A r \in Scopes : window[r] # t
                          /\ window' = [window EXCEPT ![s] = t]
                          /\ step' = [step EXCEPT ![t] = "armed"]
    ELSE UNCHANGED <<window, step>>

\* Mutant of Full: one entry too many.
FullLate(buffer) == Len(buffer) > MaxStaged

Full(buffer) == Len(buffer) >= MaxStaged

\* Mutant of Stage: the buffer is nested in its successor, not extended.
StageNested(buffer, c) == <<buffer, c>>

\* The buffer after one more replacement, the oldest evicted when it is full.
Stage(buffer, c) ==
    IF Full(buffer) THEN Append(Tail(buffer), c) ELSE Append(buffer, c)

Enqueue(c) ==
    LET s == ScopeOf[c] IN
    /\ fut' = [fut EXCEPT ![c] = "pending"]
    /\ pending' = [pending EXCEPT ![s] = @ \cup {c}]
    /\ StartWindow(s)
    /\ UNCHANGED <<edits, staged, cur, snap, applied, lockVars, diskVars>>

SubmitString(c) ==
    LET s == ScopeOf[c]
        f == FileOf[c] IN
    /\ fut[c] = "none"
    /\ Kind[c] = "string"
    /\ Full(staging[s][f]) => Policy = "evict_oldest"
    /\ staging' = [staging EXCEPT ![s][f] = Stage(@, c)]
    /\ Enqueue(c)

\* reject_newest: the caller is answered at once and nothing is queued.
RejectString(c) ==
    /\ fut[c] = "none"
    /\ Kind[c] = "string"
    /\ Full(staging[ScopeOf[c]][FileOf[c]])
    /\ Policy = "reject_newest"
    /\ fut' = [fut EXCEPT ![c] = "failed"]
    /\ UNCHANGED <<queueVars, jobVars, lockVars, diskVars>>

SubmitLine(c) ==
    /\ fut[c] = "none"
    /\ Kind[c] = "line"
    /\ Enqueue(c)
    /\ UNCHANGED staging

\* The awaiting graph node is cancelled, and with it the future it awaits.
CancelCaller(c) ==
    /\ fut[c] = "pending"
    /\ fut' = [fut EXCEPT ![c] = "cancelled"]
    /\ UNCHANGED <<queueVars, jobVars, lockVars, diskVars>>

-----------------------------------------------------------------------------
(* _process_after_window: the window closes, the queue is popped.          *)

Strings(S) == {c \in S : Kind[c] = "string"}
Lines(S) == {c \in S : Kind[c] = "line"}
InFile(S, f) == {c \in S : FileOf[c] = f}
AtMostOne(S) == \A c, d \in S : c = d

\* The first await of the loop body for file f with the edits S left.
Entry(S, f) ==
    LET strings == Strings(InFile(S, f)) IN
    IF strings = {} THEN "lines" ELSE IF AtMostOne(strings) THEN "solo" ELSE "lock"

\* Mutant of Continue: the loop returns after its first file.
ContinueStops(t, S) ==
    /\ edits' = [edits EXCEPT ![t] = {}]
    /\ cur' = [cur EXCEPT ![t] = NoFile]
    /\ step' = [step EXCEPT ![t] = "free"]
    /\ staged' = [staged EXCEPT ![t] = [f \in Files |-> {}]]

\* The for loop over the popped files goes on with the edits S, or ends.
\* (The order of the files, that of their first edit, is left open.)
Continue(t, S) ==
    /\ edits' = [edits EXCEPT ![t] = S]
    /\ IF S = {}
       THEN /\ cur' = [cur EXCEPT ![t] = NoFile]
            /\ step' = [step EXCEPT ![t] = "free"]
            /\ staged' = [staged EXCEPT ![t] = [f \in Files |-> {}]]
       ELSE /\ \E f \in {FileOf[c] : c \in S} :
                 /\ cur' = [cur EXCEPT ![t] = f]
                 /\ step' = [step EXCEPT ![t] = Entry(S, f)]
            /\ UNCHANGED staged

Entries(buffer) == {buffer[i] : i \in DOMAIN buffer}

\* Mutant of CloseWindow: the edits are copied instead of popped.
CloseWindowCopies(s, t) ==
    LET S == pending[s] IN
    /\ UNCHANGED pending
    /\ staging' = [staging EXCEPT ![s] = [f \in Files |-> <<>>]]
    /\ window' = [window EXCEPT ![s] = NoTask]
    /\ staged' = [staged EXCEPT ![t] = [f \in Files |-> Entries(staging[s][f])]]
    /\ edits' = [edits EXCEPT ![t] = S]
    /\ \E f \in {FileOf[c] : c \in S} : /\ cur' = [cur EXCEPT ![t] = f]
                                       /\ step' = [step EXCEPT ![t] = Entry(S, f)]
    /\ UNCHANGED <<fut, snap, applied, lockVars, diskVars>>

\* Mutant of CloseWindow: the scope's window task is not popped.
CloseWindowKeepsTask(s, t) ==
    LET S == pending[s] IN
    /\ pending' = [pending EXCEPT ![s] = {}]
    /\ staging' = [staging EXCEPT ![s] = [f \in Files |-> <<>>]]
    /\ edits' = [edits EXCEPT ![t] = S]
    /\ staged' = [staged EXCEPT ![t] = [f \in Files |-> Entries(staging[s][f])]]
    /\ \E f \in {FileOf[c] : c \in S} : /\ cur' = [cur EXCEPT ![t] = f]
                                       /\ step' = [step EXCEPT ![t] = Entry(S, f)]
    /\ UNCHANGED <<window, fut, snap, applied, lockVars, diskVars>>

\* Pop the scope's edits, replacements and window task; dispatch.
CloseWindow(s, t) ==
    LET S == pending[s] IN
    /\ pending' = [pending EXCEPT ![s] = {}]
    /\ staging' = [staging EXCEPT ![s] = [f \in Files |-> <<>>]]
    /\ window' = [window EXCEPT ![s] = NoTask]
    /\ edits' = [edits EXCEPT ![t] = S]
    /\ staged' = [staged EXCEPT ![t] = [f \in Files |-> Entries(staging[s][f])]]
    /\ IF S = {}
       THEN /\ step' = [step EXCEPT ![t] = "free"]
            /\ UNCHANGED cur
       ELSE \E f \in {FileOf[c] : c \in S} :
              /\ cur' = [cur EXCEPT ![t] = f]
              /\ step' = [step EXCEPT ![t] = Entry(S, f)]
    /\ UNCHANGED <<fut, snap, applied, lockVars, diskVars>>

\* After one event-loop tick: a lone edit goes straight on ...
TickSolo(s, t) ==
    /\ window[s] = t
    /\ step[t] = "armed"
    /\ AtMostOne(pending[s])
    /\ CloseWindow(s, t)

\* ... several sleep for the detection window ...
TickMany(s, t) ==
    /\ window[s] = t
    /\ step[t] = "armed"
    /\ ~AtMostOne(pending[s])
    /\ step' = [step EXCEPT ![t] = "sleeping"]
    /\ UNCHANGED <<callVars, queueVars, edits, staged, cur, snap, applied,
                   lockVars, diskVars>>

\* ... and are popped when it is over.
WindowOver(s, t) ==
    /\ window[s] = t
    /\ step[t] = "sleeping"
    /\ CloseWindow(s, t)

-----------------------------------------------------------------------------
(* Answering: a future that is already done is left alone.                 *)

\* Mutant of Resolve: the future is set although it is done.
ResolveAgain(S, oks, bad) ==
    fut' = [c \in Calls |-> IF c \in S THEN IF c \in oks THEN "ok" ELSE bad ELSE fut[c]]

Resolve(S, oks, bad) ==
    fut' = [c \in Calls |->
              IF c \in S /\ fut[c] = "pending"
              THEN IF c \in oks THEN "ok" ELSE bad
              ELSE fut[c]]

CurFile(t) == InFile(edits[t], cur[t])
CurStrings(t) == Strings(CurFile(t))
CurLines(t) == Lines(CurFile(t))

\* The contents a dispatch worked on are local to it.
Forget(t) ==
    /\ snap' = [snap EXCEPT ![t] = {}]
    /\ applied' = [applied EXCEPT ![t] = {}]

\* The string edits of the file are done: its line edits are next.
AfterStrings(t) ==
    /\ Forget(t)
    /\ IF CurLines(t) # {}
       THEN /\ edits' = [edits EXCEPT ![t] = @ \ CurStrings(t)]
            /\ step' = [step EXCEPT ![t] = "lines"]
            /\ UNCHANGED <<cur, staged>>
       ELSE Continue(t, edits[t] \ CurFile(t))

AfterFile(t) ==
    /\ Forget(t)
    /\ Continue(t, edits[t] \ CurFile(t))

Release(lock, t) == [f \in Files |-> IF lock[f] = t THEN NoTask ELSE lock[f]]
\* Mutant of Take: the file is used without its lock.
TakeNothing(lock, t) == lock

Take(lock, t) == [lock EXCEPT ![cur[t]] = t]

\* The content a task writes: what it read and the edits it applies.
Put(t, way) ==
    /\ file' = [file EXCEPT ![cur[t]] = snap[t] \cup (applied[t] \X {way})]
    /\ written' = written \cup applied[t]

\* aread returned no more than the first _DEFAULT_READ_LINE_LIMIT lines, and
\* what was read is what is written back.
Truncate(t) ==
    whole' = IF cur[t] \in LongFiles THEN [whole EXCEPT ![cur[t]] = FALSE] ELSE whole

-----------------------------------------------------------------------------
(* A lone edit_file call: its own handler, under the backend's lock.       *)

\* Mutant of SoloRead: the content is read before the lock is waited for.
SoloReadEarly(t) ==
    /\ step[t] = "solo"
    /\ fslock' = Take(fslock, t)
    /\ snap' = [snap EXCEPT ![t] = file[cur[t]]]
    /\ applied' = [applied EXCEPT ![t] = CurStrings(t)]
    /\ step' = [step EXCEPT ![t] = "soloRW"]
    /\ UNCHANGED <<callVars, queueVars, edits, staged, cur, mwlock, diskVars>>

SoloRead(t) ==
    /\ step[t] = "solo"
    /\ fslock[cur[t]] = NoTask
    /\ fslock' = Take(fslock, t)
    /\ snap' = [snap EXCEPT ![t] = file[cur[t]]]
    /\ applied' = [applied EXCEPT ![t] = CurStrings(t)]
    /\ step' = [step EXCEPT ![t] = "soloRW"]
    /\ UNCHANGED <<callVars, queueVars, edits, staged, cur, mwlock, diskVars>>

SoloWrite(t) ==
    /\ step[t] = "soloRW"
    /\ Put(t, "direct")
    /\ Resolve(CurStrings(t), applied[t], "failed")
    /\ fslock' = Release(fslock, t)
    /\ AfterStrings(t)
    /\ UNCHANGED <<queueVars, mwlock, whole>>

\* The handler answers with an error or raises: nothing was written.
SoloFail(t) ==
    /\ step[t] \in {"solo", "soloRW"}
    /\ Resolve(CurStrings(t), {}, "failed")
    /\ fslock' = Release(fslock, t)
    /\ AfterStrings(t)
    /\ UNCHANGED <<queueVars, mwlock, diskVars>>

-----------------------------------------------------------------------------
(* _dispatch_string_replacements: several edit_file calls, one write.      *)

\* The lock is taken and the file is read without an await in between (aread
\* reads synchronously), so the replacements A that match are known at once.
BatchRead(t, A) ==
    /\ step[t] = "lock"
    /\ mwlock[cur[t]] = NoTask
    /\ A # {}
    /\ A \subseteq staged[t][cur[t]]
    /\ mwlock' = Take(mwlock, t)
    /\ snap' = [snap EXCEPT ![t] = file[cur[t]]]
    /\ applied' = [applied EXCEPT ![t] = A]
    /\ step' = [step EXCEPT ![t] = "write"]
    /\ UNCHANGED <<callVars, queueVars, edits, staged, cur, fslock, diskVars>>

\* Overlapping replacements, none that matches, or a read error: no write.
BatchReject(t) ==
    /\ step[t] = "lock"
    /\ mwlock[cur[t]] = NoTask
    /\ Resolve(CurStrings(t), {}, "failed")
    /\ AfterStrings(t)
    /\ UNCHANGED <<queueVars, lockVars, diskVars>>

\* awrite takes the backend's lock for the write.
BatchWrite(t) ==
    /\ step[t] = "write"
    /\ fslock[cur[t]] = NoTask
    /\ Put(t, "batch")
    /\ Truncate(t)
    /\ Resolve(CurStrings(t), applied[t], "failed")
    /\ mwlock' = Release(mwlock, t)
    /\ AfterStrings(t)
    /\ UNCHANGED <<queueVars, fslock>>

\* awrite reports an error: every edit of the batch fails.
BatchWriteFail(t) ==
    /\ step[t] = "write"
    /\ fslock[cur[t]] = NoTask
    /\ Resolve(CurStrings(t), {}, "failed")
    /\ mwlock' = Release(mwlock, t)
    /\ AfterStrings(t)
    /\ UNCHANGED <<queueVars, fslock, diskVars>>

\* batch_dispatch_timeout_seconds elapse while the batch waits for a lock or
\* for its write, which may or may not have reached the disk: "file state is
\* unknown".  The file's line edits are not dispatched at all.
BatchTimeout(t) ==
    /\ step[t] \in {"lock", "write"}
    /\ \/ /\ step[t] = "write"
          /\ fslock[cur[t]] = NoTask
          /\ Put(t, "batch")
          /\ Truncate(t)
       \/ UNCHANGED diskVars
    /\ Resolve(CurFile(t), {}, "unknown")
    /\ mwlock' = Release(mwlock, t)
    /\ AfterFile(t)
    /\ UNCHANGED <<queueVars, fslock>>

-----------------------------------------------------------------------------
(* _dispatch_batched_edits: the line edits, one aedit_batched.             *)

\* Overlapping ranges reject the whole batch; a malformed range breaks
\* to_operations outside the try of this function, and the caller's handler
\* answers "file state is unknown".
LinesReject(t) ==
    /\ step[t] = "lines"
    /\ \E bad \in {"failed", "unknown"} : Resolve(CurLines(t), {}, bad)
    /\ AfterFile(t)
    /\ UNCHANGED <<queueVars, lockVars, diskVars>>

\* aedit_batched reads under the backend's lock; A: the operations that fit.
LinesRead(t, A) ==
    /\ step[t] = "lines"
    /\ fslock[cur[t]] = NoTask
    /\ A \subseteq CurLines(t)
    /\ fslock' = Take(fslock, t)
    /\ snap' = [snap EXCEPT ![t] = file[cur[t]]]
    /\ applied' = [applied EXCEPT ![t] = A]
    /\ step' = [step EXCEPT ![t] = "linesRW"]
    /\ UNCHANGED <<callVars, queueVars, edits, staged, cur, mwlock, diskVars>>

LinesWrite(t) ==
    /\ step[t] = "linesRW"
    /\ Put(t, "direct")
    /\ Resolve(CurLines(t), applied[t], "failed")
    /\ fslock' = Release(fslock, t)
    /\ AfterFile(t)
    /\ UNCHANGED <<queueVars, mwlock, whole>>

\* result.error, or an exception of the backend: all edits of the batch fail.
LinesFail(t) ==
    /\ step[t] \in {"lines", "linesRW"}
    /\ Resolve(CurLines(t), {}, "failed")
    /\ fslock' = Release(fslock, t)
    /\ AfterFile(t)
    /\ UNCHANGED <<queueVars, mwlock, diskVars>>

LinesTimeout(t) ==
    /\ step[t] \in {"lines", "linesRW"}
    /\ \/ step[t] = "linesRW" /\ Put(t, "direct") /\ UNCHANGED whole
       \/ UNCHANGED diskVars
    /\ Resolve(CurLines(t), {}, "unknown")
    /\ fslock' = Release(fslock, t)
    /\ AfterFile(t)
    /\ UNCHANGED <<queueVars, mwlock>>

-----------------------------------------------------------------------------
Caller(c) == SubmitString(c) \/ RejectString(c) \/ SubmitLine(c) \/ CancelCaller(c)

Window(t) == \E s \in Scopes : TickSolo(s, t) \/ TickMany(s, t) \/ WindowOver(s, t)

Dispatch(t) ==
    \/ SoloRead(t) \/ SoloWrite(t) \/ SoloFail(t)
    \/ \E A \in SUBSET Calls : BatchRead(t, A)
    \/ BatchReject(t) \/ BatchWrite(t) \/ BatchWriteFail(t) \/ BatchTimeout(t)
    \/ LinesReject(t) \/ LinesWrite(t) \/ LinesFail(t) \/ LinesTimeout(t)
    \/ \E A \in SUBSET Calls : LinesRead(t, A)

Next == \/ \E c \in Calls : Caller(c)
        \/ \E t \in Tasks : Window(t) \/ Dispatch(t)

Spec == Init /\ [][Next]_vars

\* The event loop runs every ready task and timer; a handler and the backend
\* return (the inner tool-timeout middleware bounds the handler).
Fairness == \A t \in Tasks : WF_vars(Window(t)) /\ WF_vars(Dispatch(t))

FairSpec == Spec /\ Fairness
-----------------------------------------------------------------------------
(* Properties *)

\* NoOrphan: a caller that waits is always reachable: its call is queued
\* behind a live window task of its scope, or is among the edits some task
\* has popped and not answered.  (Window start, pop, the for loop and its
\* finally clause together; a call dropped anywhere hangs its graph node.)
Queued(c) == c \in pending[ScopeOf[c]] /\ ~NeedsWindow(ScopeOf[c])
InDispatch(c) == \E t \in Tasks : c \in edits[t] /\ step[t] \notin {"free", "armed", "sleeping"}
NoOrphan == \A c \in Calls : fut[c] = "pending" => Queued(c) \/ InDispatch(c)

\* OneOwner: no call is dispatched twice: it is in one queue or in the edits
\* of one task (a second window of the scope may open while the first is
\* still dispatching).
OneOwner ==
    \A t \in Tasks : \A c \in edits[t] :
        /\ c \notin pending[ScopeOf[c]]
        /\ \A u \in Tasks \ {t} : c \notin edits[u]

\* EveryCallOwned: a call that waits is in exactly one place from where it
\* will be answered.
EveryCallOwned == NoOrphan /\ OneOwner

\* BoundedStaging: the staging buffer never holds more entries than
\* configured, and never a replacement whose call is not pending with it
\* (awrap_tool_call appends to both under one lock, the pop takes both).
BoundedStaging ==
    \A s \in Scopes : \A f \in Files :
        /\ Len(staging[s][f]) <= MaxStaged
        /\ Entries(staging[s][f]) \subseteq InFile(pending[s], f)

\* FreshSnapshot: what a batch is about to write back contains every edit
\* that string batches of any scope have put into the file, although the
\* batch awaits between its read and its write.
BatchEdits(f) == {e \in file[f] : e[2] = "batch"}
FreshSnapshot ==
    \A t \in Tasks : step[t] = "write" => BatchEdits(cur[t]) \subseteq snap[t]

\* OnlyBatchesErase: no step takes the edit of a string batch out of a file,
\* and only the write of a string batch takes out any: the two lock
\* registries do not exclude each other, but each excludes its own kind.
OnlyBatchesErase ==
    [][\A f \in Files : \A e \in file[f] \ file'[f] :
          /\ e[2] = "direct"
          /\ \E t \in Tasks : step[t] = "write" /\ cur[t] = f /\ mwlock[f] = t]_vars

\* Ledger: every caller is answered at most once and truthfully (see
\* ToolCallLedger), whatever is evicted, rejected, cancelled or timed out.
Ledger == INSTANCE ToolCallLedger WITH answer <- fut, effect <- written
LedgerSpec == Ledger!LSpec

\* EveryCallAnswered: no future of a submitted call stays pending forever
\* ("Hard guarantee: every pending future in this file batch is resolved"):
\* again and again there comes a moment when nobody waits. (This implies
\* fut[c] = "pending" ~> fut[c] # "pending" for each call c.)
EveryCallAnswered == []<>(\A c \in Calls : fut[c] # "pending")

\* NoLostUpdate: an edit the caller was told is applied stays in the file.
\* The module docstring says that merging "eliminates race conditions from
\* concurrent edits to the same file"; the batch reads under the middleware's
\* own lock, lone edits and line batches write under the backend's.
NoLostUpdate ==
    \A c \in Calls : fut[c] = "ok" => \E w \in Ways : <<c, w>> \in file[FileOf[c]]

\* WholeFileKept: a string batch leaves the text it does not edit alone: it
\* "merges same-file edits into a single read-modify-write cycle" of the
\* file, but reads through aread, which returns the first 2000 lines.
WholeFileKept == \A f \in Files : whole[f]
=============================================================================
