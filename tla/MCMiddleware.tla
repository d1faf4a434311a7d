---------------------------- MODULE MCMiddleware ----------------------------
(***************************************************************************)
(* ToolOptimization, and the liveness of EditCoalescing, for TLC.  They    *)
(* share no state: a behaviour makes searches of one signature, reads of   *)
(* one path, or edits (part), and leaves the other middleware as it begins.*)
(***************************************************************************)
EXTENDS ToolOptimization, TLC

CONSTANTS s1, s2, s3, r1, r2, r3, e1, find, slice, whole, dir, kA, kB, stX,
          a1, a2, a3, b1, sA, fileF, fileG, t1, t2, NoFile

VARIABLES
    part,
    fut, queue, staging, detection, step, edits, staged, cur, snap,
    applied, mwlock, fslock, file, intact, written      \* EditCoalescing's

Parts == {"searches", "reads", "edits"}

\* Searches, the last one in a subagent; reads, two of them of one part of the
\* file; an edit.
MixKind == s1 :> "search" @@ s2 :> "search" @@ s3 :> "search" @@
           r1 :> "read" @@ r2 :> "read" @@ r3 :> "read" @@ e1 :> "edit"
MixSig == [c \in Calls |-> IF Kind[c] = "search" THEN find
                           ELSE IF c \in {r2, r3} THEN slice ELSE whole]
MixScope == [c \in Calls |-> IF c = s3 THEN kB ELSE kA]
AnyPath == [c \in Calls |-> dir]
OneState == [c \in Calls |-> stX]

\* One scope and two files: three edit_file calls of fileF and a line edit of
\* fileG; the staging buffer rejects the newest.
EditCalls == {a1, a2, a3, b1}
EditFiles == {fileF, fileG}
EditTasks == {t1, t2}
EditKind == [c \in EditCalls |-> IF c = b1 THEN "line" ELSE "string"]
OneScope == [c \in EditCalls |-> sA]
TwoFiles == [c \in EditCalls |-> IF c = b1 THEN fileG ELSE fileF]

\* pending and window are names of ToolOptimization as well, whole that of a
\* lookup.
Edits == INSTANCE EditCoalescing WITH
    Calls <- EditCalls, Scopes <- {sA}, Files <- EditFiles, Tasks <- EditTasks,
    Kind <- EditKind, ScopeOf <- OneScope, FileOf <- TwoFiles,
    LongFiles <- {}, MaxStaged <- 2, Policy <- "reject_newest",
    pending <- queue, window <- detection, whole <- intact

editVars == <<fut, queue, staging, detection, step, edits, staged, cur, snap,
              applied, mwlock, fslock, file, intact, written>>

Made == IF part = "searches" THEN {s1, s2, s3} ELSE {r1, r2, r3, e1}

MiddlewareInit == Init /\ Edits!Init /\ part \in Parts

MiddlewareNext ==
    \/ /\ part # "edits"
       /\ (\E c \in Made : Call(c)) \/ (\E w \in Tasks : Window(w))
       /\ UNCHANGED <<part, editVars>>
    \/ part = "edits" /\ Edits!Next /\ UNCHANGED <<part, vars>>

\* The fairness of each middleware, which asks nothing of one at rest.
MiddlewareSpec ==
    /\ MiddlewareInit /\ [][MiddlewareNext]_<<part, vars, editVars>>
    /\ Fairness
    /\ Edits!Fairness

\* EveryEditAnswered: whoever submits an edit is answered in the end, whatever
\* fails, times out, is rejected or cancelled.
EveryEditAnswered == Edits!EveryCallAnswered
=============================================================================
