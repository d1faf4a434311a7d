---------------------------- MODULE LocalFilesystem -------------------------
(***************************************************************************)
(* filesystem/local.py: the calls that change one file.  They lock it with *)
(* the backend's FileEditLockRegistry, which keeps two locks for a path:   *)
(* one of the event loop, one of threads.  The locks, the stamps and the   *)
(* atomic replacement of the file are external (soothe_deepagents).        *)
(*                                                                         *)
(* Synchronous calls run in threads of their own and interleave anywhere.  *)
(* Asynchronous ones share the loop: what they do between two awaits is    *)
(* interleaved with threads but not with each other.                       *)
(***************************************************************************)
EXTENDS Naturals, FiniteSets

CONSTANTS FsCalls, NoFsCall

ASSUME FsAssumption == NoFsCall \notin FsCalls /\ IsFiniteSet(FsCalls)

\* copy stands for acopy and for a move onto the file as well, delete for
\* adelete and for a move away: each is one step that takes no lock, so that it
\* makes no difference whether a thread or the loop makes it.  (copy2 may fill
\* the file in several writes; it is one here.)  edit and aedit are left out:
\* what they lock and read is inside soothe_deepagents.
Ops == {"aedit_lines", "edit_lines", "ainsert_lines", "apply_diff",
        "aapply_diff", "awrite", "write", "copy", "delete"}
Creates == {"awrite", "write", "copy"}   \* need no file

VARIABLES
    op,         \* the operation of each call, once it has begun
    fsAt,       \* where each call stands
    loopBusy,   \* the call the loop is in, between two awaits
    asyncLock,  \* the call that has the file's asyncio lock
    syncLock,   \* the call that has the file's thread lock
    present,    \* does the file exist?
    content,    \* the calls whose change the file contains
    version,    \* grows with each change of the file
    stamp,      \* stamp_before of each call; 0 is the stamp of no file
    view,       \* what each call has read
    again,      \* the calls in their second attempt
    restored    \* history: calls whose change was erased, then brought back
                \* by another that had read it before

fsVars == <<op, fsAt, loopBusy, asyncLock, syncLock, present, content, version,
            stamp, view, again, restored>>
fileVars == <<present, content, version, restored>>

FsOver == {"written", "error"}
LoopOps == {"aedit_lines", "ainsert_lines", "aapply_diff", "awrite"}

\* The locks an operation takes, in this order: the loop's, the threads'.
AsyncOps == {"aedit_lines", "aapply_diff", "awrite"}
SyncOps == {"edit_lines", "ainsert_lines", "apply_diff", "aapply_diff", "write"}

OnLoop(c) == op[c] \in LoopOps
Stamped(c) == op[c] \in {"aedit_lines", "apply_diff", "aapply_diff"}
Replaces(c) == op[c] \in Creates \cup {"delete"}

FsTypeOK ==
    /\ op \in [FsCalls -> Ops \cup {"none"}]
    /\ fsAt \in [FsCalls -> {"new", "lock", "sync", "stamp", "read", "await", "check", "write"} \cup FsOver]
    /\ loopBusy \in FsCalls \cup {NoFsCall}
    /\ asyncLock \in FsCalls \cup {NoFsCall}
    /\ syncLock \in FsCalls \cup {NoFsCall}
    /\ present \in BOOLEAN
    /\ content \in SUBSET FsCalls
    /\ version \in 1 .. Cardinality(FsCalls) + 1
    /\ stamp \in [FsCalls -> Nat]
    /\ view \in [FsCalls -> SUBSET FsCalls]
    /\ again \in SUBSET FsCalls
    /\ restored \in SUBSET FsCalls

FsInit ==
    /\ op = [c \in FsCalls |-> "none"]
    /\ fsAt = [c \in FsCalls |-> "new"]
    /\ loopBusy = NoFsCall
    /\ asyncLock = NoFsCall /\ syncLock = NoFsCall
    /\ present = TRUE
    /\ content = {}
    /\ version = 1
    /\ stamp = [c \in FsCalls |-> 0]
    /\ view = [c \in FsCalls |-> {}]
    /\ again = {}
    /\ restored = {}

\* May c take its next step?  A call of the loop needs the loop.
MayRun(c) == OnLoop(c) => loopBusy \in {c, NoFsCall}
StaysOnLoop(c) == loopBusy' = IF OnLoop(c) THEN c ELSE loopBusy
LeavesLoop(c) == loopBusy' = IF OnLoop(c) THEN NoFsCall ELSE loopBusy
Goes(c, where) == fsAt' = [fsAt EXCEPT ![c] = where]
CurrentStamp == IF present THEN version ELSE 0

\* The end of a call, which gives back its locks (the with blocks).
Finish(c, how) ==
    /\ Goes(c, how)
    /\ LeavesLoop(c)
    /\ asyncLock' = IF asyncLock = c THEN NoFsCall ELSE asyncLock
    /\ syncLock' = IF syncLock = c THEN NoFsCall ELSE syncLock
-----------------------------------------------------------------------------
(* The file must exist, except for a write; then come the locks.           *)
FsBegin(c, o) ==
    /\ fsAt[c] = "new"
    /\ op' = [op EXCEPT ![c] = o]
    /\ LET loop == o \in LoopOps
       IN  /\ loop => loopBusy = NoFsCall
           /\ IF ~present /\ o \notin Creates
              THEN Goes(c, "error") /\ UNCHANGED loopBusy
              ELSE IF o \in AsyncOps
              THEN Goes(c, "lock") /\ UNCHANGED loopBusy
              ELSE /\ Goes(c, IF o \in SyncOps THEN "sync" ELSE "write")
                   /\ loopBusy' = IF loop THEN c ELSE loopBusy
    /\ UNCHANGED <<asyncLock, syncLock, fileVars, stamp, view, again>>

First(c) == IF Replaces(c) THEN "write" ELSE IF Stamped(c) THEN "stamp" ELSE "read"

\* async with edit_locks.acquire(...)
LockAsync(c) ==
    /\ fsAt[c] = "lock" /\ MayRun(c)
    /\ asyncLock = NoFsCall
    /\ asyncLock' = c
    /\ Goes(c, IF op[c] \in SyncOps THEN "sync" ELSE First(c))
    /\ StaysOnLoop(c)
    /\ UNCHANGED <<op, syncLock, fileVars, stamp, view, again>>

\* Mutant of LockSync: the thread lock is not taken.
LockSyncFree(c) ==
    /\ fsAt[c] = "sync" /\ MayRun(c)
    /\ Goes(c, First(c))
    /\ StaysOnLoop(c)
    /\ UNCHANGED <<op, asyncLock, syncLock, fileVars, stamp, view, again>>

\* with edit_locks.acquire_sync(...): a call of the loop waits on the loop.
LockSync(c) ==
    /\ fsAt[c] = "sync" /\ MayRun(c)
    /\ syncLock = NoFsCall
    /\ syncLock' = c
    /\ Goes(c, First(c))
    /\ StaysOnLoop(c)
    /\ UNCHANGED <<op, asyncLock, fileVars, stamp, view, again>>

TakeStamp(c) ==
    /\ fsAt[c] = "stamp" /\ MayRun(c)
    /\ stamp' = [stamp EXCEPT ![c] = CurrentStamp]
    /\ Goes(c, IF op[c] = "aedit_lines" THEN "await" ELSE "read")
    /\ IF op[c] = "aedit_lines" THEN LeavesLoop(c) ELSE StaysOnLoop(c)
    /\ UNCHANGED <<op, asyncLock, syncLock, fileVars, view, again>>

\* aiofiles reads the file in a thread while the loop goes on.
AwaitedRead(c) ==
    /\ fsAt[c] = "await"
    /\ IF present
       THEN view' = [view EXCEPT ![c] = content] /\ Goes(c, "check")
            /\ UNCHANGED <<loopBusy, asyncLock, syncLock>>
       ELSE MayRun(c) /\ Finish(c, "error") /\ UNCHANGED view
    /\ UNCHANGED <<op, fileVars, stamp, again>>

Read(c) ==
    /\ fsAt[c] = "read" /\ MayRun(c)
    /\ IF present
       THEN /\ view' = [view EXCEPT ![c] = content]
            /\ Goes(c, IF Stamped(c) THEN "check" ELSE "write")
            /\ StaysOnLoop(c)
            /\ UNCHANGED <<asyncLock, syncLock>>
       ELSE Finish(c, "error") /\ UNCHANGED view
    /\ UNCHANGED <<op, fileVars, stamp, again>>

\* Mutant of CheckStamp: a call starts over as often as the stamp changes,
\* and awaits nothing on the way.
CheckStampBlind(c) ==
    /\ fsAt[c] = "check" /\ MayRun(c)
    /\ Goes(c, "stamp") /\ StaysOnLoop(c)
    /\ UNCHANGED <<op, again, asyncLock, syncLock, fileVars, stamp, view>>

\* The stamp has changed: once the call starts over, the second time it
\* goes on with what it has read.
CheckStamp(c) ==
    /\ fsAt[c] = "check" /\ MayRun(c)
    /\ StaysOnLoop(c)
    /\ IF stamp[c] # CurrentStamp /\ c \notin again
       THEN again' = again \cup {c} /\ Goes(c, "stamp")
       ELSE Goes(c, "write") /\ UNCHANGED again
    /\ UNCHANGED <<op, asyncLock, syncLock, fileVars, stamp, view>>

\* Mutant of Write: the call does not return after it has written.
WriteOn(c) ==
    /\ fsAt[c] = "write" /\ MayRun(c)
    /\ version' = version + 1
    /\ UNCHANGED <<op, fsAt, loopBusy, asyncLock, syncLock, present, content, stamp, view, again, restored>>

\* _write_atomic, or the replacement, copy or removal of the whole file.
Write(c) ==
    /\ fsAt[c] = "write" /\ MayRun(c)
    /\ Finish(c, "written")
    /\ present' = (op[c] # "delete")
    /\ content' = IF op[c] = "delete" THEN {} ELSE IF Replaces(c) THEN {c} ELSE view[c] \cup {c}
    /\ version' = version + 1
    /\ restored' = restored \cup (content' \ (content \cup {c}))
    /\ UNCHANGED <<op, stamp, view, again>>

\* A line range out of bounds, a patch that does not apply, a failing write.
FsFail(c) ==
    /\ fsAt[c] \in {"check", "write"} /\ MayRun(c)
    /\ Finish(c, "error")
    /\ UNCHANGED <<op, fileVars, stamp, view, again>>

\* Cancelled at an await.
FsCancel(c) ==
    /\ OnLoop(c) /\ fsAt[c] \in {"lock", "await"} /\ MayRun(c)
    /\ Finish(c, "error")
    /\ UNCHANGED <<op, fileVars, stamp, view, again>>

FsStep(c) == LockAsync(c) \/ LockSync(c) \/ TakeStamp(c) \/ AwaitedRead(c)
             \/ Read(c) \/ CheckStamp(c) \/ Write(c)

FsNext == \E c \in FsCalls : (\E o \in Ops : FsBegin(c, o)) \/ FsStep(c) \/ FsFail(c) \/ FsCancel(c)

FsSpec == FsInit /\ [][FsNext]_fsVars

\* The loop and the threads are scheduled.
FsFairness == \A c \in FsCalls : WF_fsVars(FsStep(c))
FsFairSpec == FsSpec /\ FsFairness
-----------------------------------------------------------------------------
(* Properties *)

Shares(c, d) == {op[c], op[d]} \subseteq AsyncOps \/ {op[c], op[d]} \subseteq SyncOps

\* SharedLockKept: an edit erases no finished edit with which it shares a
\* lock, whatever the threads and the loop do around it; but for one that was
\* gone and that a third call, of the other lock, has brought back.
SharedLockKept ==
    [][\A w \in FsCalls, c \in content \ content' :
          (fsAt[w] = "write" /\ fsAt'[w] = "written" /\ ~Replaces(w))
              => ~Shares(w, c) \/ c \in restored]_fsVars

\* FileCallsEnd: threads that hold the thread lock, a loop that waits for it
\* and calls that hold the loop's lock never wait for each other in a ring.
FileCallsEnd == \A c \in FsCalls : fsAt[c] \in {"lock", "sync"} ~> fsAt[c] \in FsOver

\* CrossLockKept: nor does it erase one made through the other lock ("the
\* optimistic-concurrency version stamp catches any cross-type race as a
\* fallback", tests/unit/core/filesystem/test_edit_locks.py).
CrossLockKept ==
    [][\A w \in FsCalls, c \in content \ content' :
          (fsAt[w] = "write" /\ fsAt'[w] = "written" /\ ~Replaces(w)) => Replaces(c)]_fsVars
=============================================================================
