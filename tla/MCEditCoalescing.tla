-------------------------- MODULE MCEditCoalescing --------------------------
(* Instances of EditCoalescing for TLC, besides those of MCAgents and      *)
(* MCMiddleware.                                                           *)
EXTENDS EditCoalescing, TLC

CONSTANTS a1, a2, a3, b1, b2, sA, sB, fileF, t1, t2, t3

\* One scope: three edit_file calls and a line edit of one file.
OneScopeKind == (a1 :> "string") @@ (a2 :> "string") @@ (a3 :> "string") @@ (b1 :> "line")
OneScope == [c \in {a1, a2, a3, b1} |-> sA]
OneFile == [c \in {a1, a2, a3, b1} |-> fileF]

\* Two scopes editing the same file: a string batch against whatever the
\* other scope sends.
TwoScopesKind == (a1 :> "string") @@ (a2 :> "string") @@ (b1 :> "string") @@ (b2 :> "string")
TwoScopes == (a1 :> sA) @@ (a2 :> sA) @@ (b1 :> sB) @@ (b2 :> sB)
TwoScopesFile == [c \in {a1, a2, b1, b2} |-> fileF]

TaskSymmetry == Permutations({t1, t2, t3})
=============================================================================
