----------------------------- MODULE ShellCommand ---------------------------
(***************************************************************************)
(* toolkits/shell.py: run_command.  The caller starts a shell in a process *)
(* group of its own, a thread reads what comes through the pipe in blocks  *)
(* and queues it, the caller collects it up to a limit until a deadline.   *)
(*                                                                         *)
(* The caller, the thread and the processes interleave anywhere.  The      *)
(* shell may leave a child behind that holds the pipe and stays in the     *)
(* group; what the processes do is external.  Output is counted, not       *)
(* spelled out: MaxOut bounds what one command prints.                     *)
(***************************************************************************)
EXTENDS Naturals

CONSTANTS MaxOut,  \* a bound of the model
          Block,   \* what one read of the thread waits for (4096)
          OutCap   \* max_output_chars

ASSUME ShellAssumption == MaxOut \in Nat /\ Block \in Nat \ {0} /\ OutCap \in Nat \ {0}

VARIABLES
    shell,     \* a process nobody has waited for is a zombie once it is dead
    child,     \* a process of the group that the shell has started
    written,   \* how much the command has printed
    inPipe,    \* and the thread not read
    held,      \* read, but not a whole block yet
    reader,    \* the thread; its error is in reader_errors
    queued,    \* in chunk_queue: whole blocks, then what was left at the end
    closed,    \* the None that ends the queue is in it
    taken,     \* in stdout_parts
    late,      \* the deadline has passed
    caller,    \* where _collect_capped_stdout stands
    outcome,   \* what the call returns or raises
    printed,   \* history: what had been printed when the shell ended
    endedFirst \* history: the shell was dead before the call killed it

commandVars == <<shell, child, written, inPipe, printed>>
readerVars == <<held, reader, queued, closed>>
callVars == <<taken, late, caller, outcome, endedFirst>>
shellVars == <<commandVars, readerVars, callVars>>

ShellTypeOK ==
    /\ shell \in {"none", "running", "zombie", "reaped"}
    /\ child \in {"none", "running", "gone"}
    /\ written \in 0 .. MaxOut /\ inPipe \in 0 .. MaxOut /\ queued \in 0 .. MaxOut
    /\ held \in 0 .. Block
    /\ reader \in {"reading", "failed", "done"}
    /\ closed \in BOOLEAN /\ late \in BOOLEAN /\ endedFirst \in BOOLEAN
    /\ taken \in 0 .. OutCap
    /\ caller \in {"start", "top", "get", "poll", "quiet", "wait", "kill", "group", "ended"}
    /\ outcome \in {"none", "output", "cut", "timeout", "error"}
    /\ printed \in 0 .. MaxOut

ShellInit ==
    /\ shell = "none" /\ child = "none"
    /\ written = 0 /\ inPipe = 0 /\ printed = 0
    /\ held = 0 /\ reader = "reading" /\ queued = 0 /\ closed = FALSE
    /\ taken = 0 /\ late = FALSE /\ caller = "start" /\ outcome = "none"
    /\ endedFirst = FALSE
-----------------------------------------------------------------------------
(* The command                                                             *)

Spawn ==
    /\ caller = "start"
    /\ shell' = "running" /\ caller' = "top"
    /\ UNCHANGED <<child, written, inPipe, printed, readerVars, taken, late, outcome, endedFirst>>

Alive == shell = "running" \/ child = "running"

Print1 ==
    /\ Alive /\ written < MaxOut
    /\ written' = written + 1 /\ inPipe' = inPipe + 1
    /\ UNCHANGED <<shell, child, printed, readerVars, callVars>>

Forks ==
    /\ shell = "running" /\ child = "none"
    /\ child' = "running"
    /\ UNCHANGED <<shell, written, inPipe, printed, readerVars, callVars>>

ShellEnds ==
    /\ shell = "running"
    /\ shell' = "zombie" /\ printed' = written
    /\ UNCHANGED <<child, written, inPipe, readerVars, callVars>>

ChildEnds ==
    /\ child = "running"
    /\ child' = "gone"
    /\ UNCHANGED <<shell, written, inPipe, printed, readerVars, callVars>>
-----------------------------------------------------------------------------
(* _reader                                                                 *)

Eof == inPipe = 0 /\ shell # "none" /\ ~Alive

\* read(4096) of a text stream comes back with a whole block, or at the end.
Fill ==
    /\ reader = "reading" /\ inPipe > 0 /\ held < Block
    /\ inPipe' = inPipe - 1 /\ held' = held + 1
    /\ UNCHANGED <<shell, child, written, printed, reader, queued, closed, callVars>>

PutChunk ==
    /\ reader = "reading" /\ held > 0
    /\ held = Block \/ Eof
    /\ queued' = queued + held /\ held' = 0
    /\ UNCHANGED <<commandVars, reader, closed, callVars>>

PutEnd ==
    /\ reader = "reading" /\ held = 0 /\ Eof
    /\ reader' = "done" /\ closed' = TRUE
    /\ UNCHANGED <<commandVars, held, queued, callVars>>

\* Bytes that are no text: the thread keeps the error and ends the queue.
ReaderFails ==
    /\ reader = "reading" /\ inPipe > 0
    /\ reader' = "failed" /\ closed' = TRUE
    /\ UNCHANGED <<commandVars, held, queued, callVars>>
-----------------------------------------------------------------------------
(* _collect_capped_stdout                                                  *)

DeadlinePasses ==
    /\ ~late /\ caller \notin {"start", "ended"}
    /\ late' = TRUE
    /\ UNCHANGED <<commandVars, readerVars, taken, caller, outcome, endedFirst>>

\* An error of the thread is raised and the processes are left alone.
RaiseError ==
    /\ caller = "top" /\ reader = "failed"
    /\ caller' = "ended" /\ outcome' = "error"
    /\ UNCHANGED <<commandVars, readerVars, taken, late, endedFirst>>

TopOfLoop ==
    /\ caller = "top" /\ reader # "failed"
    /\ IF late THEN caller' = "kill" /\ outcome' = "timeout"
               ELSE caller' = "get" /\ UNCHANGED outcome
    /\ UNCHANGED <<commandVars, readerVars, taken, late, endedFirst>>

ChunkSize == IF queued < Block THEN queued ELSE Block

\* Up to the limit, where the command is cut off.
GetChunk ==
    /\ caller = "get" /\ queued > 0
    /\ queued' = queued - ChunkSize
    /\ IF taken + ChunkSize > OutCap
       THEN taken' = OutCap /\ caller' = "kill" /\ outcome' = "cut"
       ELSE taken' = taken + ChunkSize /\ caller' = "top" /\ UNCHANGED outcome
    /\ UNCHANGED <<commandVars, held, reader, closed, late, endedFirst>>

GetEnd ==
    /\ caller = "get" /\ queued = 0 /\ closed
    /\ caller' = "wait"
    /\ UNCHANGED <<commandVars, readerVars, taken, late, outcome, endedFirst>>

\* Nothing for a while.
GetNothing ==
    /\ caller = "get" /\ queued = 0 /\ ~closed
    /\ caller' = "poll"
    /\ UNCHANGED <<commandVars, readerVars, taken, late, outcome, endedFirst>>

\* poll() waits for a shell that is dead.
Poll ==
    /\ caller = "poll"
    /\ IF shell = "running" THEN caller' = "top" /\ UNCHANGED shell
                            ELSE caller' = "quiet" /\ shell' = "reaped"
    /\ UNCHANGED <<child, written, inPipe, printed, readerVars, taken, late, outcome, endedFirst>>

\* A queue that is empty now is taken for the end.
Quiet ==
    /\ caller = "quiet"
    /\ caller' = IF queued = 0 /\ ~closed THEN "wait" ELSE "top"
    /\ UNCHANGED <<commandVars, readerVars, taken, late, outcome, endedFirst>>

WaitForShell ==
    /\ caller = "wait" /\ shell # "running"
    /\ shell' = "reaped"
    /\ caller' = "ended" /\ outcome' = "output"
    /\ UNCHANGED <<child, written, inPipe, printed, readerVars, taken, late, endedFirst>>

WaitTooLong ==
    /\ caller = "wait" /\ shell = "running" /\ late
    /\ caller' = "kill" /\ outcome' = "timeout"
    /\ UNCHANGED <<commandVars, readerVars, taken, late, endedFirst>>
-----------------------------------------------------------------------------
(* _terminate_shell_process                                                *)

\* proc.kill() polls first: a shell that is dead is waited for, not killed.
KillShell ==
    /\ caller = "kill"
    /\ endedFirst' = (shell # "running")
    /\ shell' = IF shell = "running" THEN "zombie" ELSE "reaped"
    /\ printed' = IF shell = "running" THEN written ELSE printed
    /\ caller' = "group"
    /\ UNCHANGED <<child, written, inPipe, readerVars, taken, late, outcome>>

\* Mutant of KillGroup: the shell alone is killed.
KillGroupNot ==
    /\ caller = "group"
    /\ shell' = "reaped" /\ caller' = "ended"
    /\ UNCHANGED <<child, written, inPipe, printed, readerVars, taken, late, outcome, endedFirst>>

\* The group is looked up by the shell's pid, which is not there any more if
\* the shell has been waited for.  Then communicate() drains the pipe.
KillGroup ==
    /\ caller = "group"
    /\ child' = IF shell = "zombie" /\ child = "running" THEN "gone" ELSE child
    /\ shell' = "reaped" /\ caller' = "ended"
    /\ UNCHANGED <<written, inPipe, printed, readerVars, taken, late, outcome, endedFirst>>

CommandStep == Print1 \/ Forks \/ ShellEnds \/ ChildEnds
ReaderStep == Fill \/ PutChunk \/ PutEnd \/ ReaderFails
CallStep == RaiseError \/ TopOfLoop \/ GetChunk \/ GetEnd \/ GetNothing \/ Poll \/ Quiet
            \/ WaitForShell \/ WaitTooLong \/ KillShell \/ KillGroup

ShellNext == Spawn \/ CommandStep \/ ReaderStep \/ CallStep \/ DeadlinePasses

ShellSpec == ShellInit /\ [][ShellNext]_shellVars

\* The caller's thread is scheduled and time passes; neither the command nor
\* the reading thread need ever do anything.
ShellFairness == WF_shellVars(CallStep) /\ WF_shellVars(DeadlinePasses)
ShellFairSpec == ShellSpec /\ ShellFairness
-----------------------------------------------------------------------------
(* Properties *)

\* GroupEnded: a command that was cut off or ran out of time leaves no process
\* of its group behind, unless its shell was dead already.
GroupEnded ==
    (caller = "ended" /\ outcome \in {"cut", "timeout"}) =>
        shell = "reaped" /\ (child = "running" => endedFirst)

\* WholeUnlessQuiet: what is returned is all that was printed, if the caller
\* has seen the end of the queue and the thread has not failed.
WholeUnlessQuiet ==
    (outcome = "output" /\ reader = "done" /\ queued = 0) => taken = written

\* CutAtLimit: only a command that printed more than the limit is cut, and
\* then nothing below the limit is missing.
CutAtLimit == outcome = "cut" => taken = OutCap /\ written > OutCap

\* CommandSound: caller, thread and processes agree on output and end.
CommandSound == GroupEnded /\ WholeUnlessQuiet /\ CutAtLimit

\* CommandEnds: the call ends, whatever the command and its children do.
CommandEnds == caller # "start" ~> caller = "ended"

\* The thread has read all there is and waits for more of a live process.
ThreadWaits == reader = "reading" /\ inPipe = 0 /\ held < Block /\ Alive

\* OutputReturned: what the shell had printed when it ended is returned, when
\* the thread had read it in time ("Run a shell command synchronously and
\* return stdout+stderr when it finishes", the description of run_command).
OutputReturned ==
    (caller = "ended" /\ outcome = "output" /\ ThreadWaits) => taken >= printed
=============================================================================
