--------------------------- MODULE ToolCallLedger ---------------------------
(***************************************************************************)
(* What a coalescing middleware promises to the graph node that awaits a   *)
(* tool call, whatever batching happens in between: a submitted call is    *)
(* answered at most once; "ok" is only said of a call whose effect took    *)
(* place, "failed" only of a call whose effect did not and never will;     *)
(* "unknown" (a batch that timed out or broke) promises nothing.  A caller *)
(* may stop waiting at any time, which does not withdraw the call.         *)
(*                                                                         *)
(* EditCoalescing implements this specification.                           *)
(***************************************************************************)
CONSTANT Calls

VARIABLES answer,   \* answer[c]: what the future of call c holds
          effect    \* the calls whose effect has taken place

lvars == <<answer, effect>>

Told == {"ok", "failed", "unknown"}
Answers == {"none", "pending", "cancelled"} \cup Told

LInit == /\ answer = [c \in Calls |-> "none"]
         /\ effect = {}

\* An effect can only still happen for a call nobody has been told about.
Open == {c \in Calls : answer[c] \in {"pending", "cancelled"}}

\* The answers one step may give call c.
Allowed(c) ==
    \/ answer'[c] = answer[c]
    \/ answer[c] = "none" /\ answer'[c] \in {"pending", "failed"}
    \/ answer[c] = "pending" /\ answer'[c] \in Told \cup {"cancelled"}

LNext ==
    /\ answer' \in [Calls -> Answers]
    /\ \A c \in Calls : Allowed(c)
    /\ effect \subseteq effect'
    /\ effect' \ effect \subseteq Open
    /\ \A c \in Calls : /\ answer'[c] = "ok" => c \in effect'
                        /\ answer'[c] = "failed" => c \notin effect'

LSpec == LInit /\ [][LNext]_lvars
=============================================================================
