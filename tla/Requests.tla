------------------------------- MODULE Requests -------------------------------
(***************************************************************************)
(* What HttpClient promises its owner: every request it is handed has one  *)
(* result, whatever becomes of the network and however many others are     *)
(* under way; none is taken on once it stops, and it stops when the last   *)
(* one has had its result.                                                 *)
(***************************************************************************)
CONSTANT Request

VARIABLES sent,     \* the requests handed over
          result,   \* of each request: "none", "success" or "error"
          level     \* RUNNING, STOPPING or STOPPED

vars == <<sent, result, level>>

Init == sent = {} /\ result = [r \in Request |-> "none"] /\ level = "RUNNING"

Send(r) ==
    /\ level = "RUNNING" /\ r \notin sent
    /\ sent' = sent \cup {r}
    /\ UNCHANGED <<result, level>>

Answer(r) ==
    /\ level # "STOPPED" /\ r \in sent /\ result[r] = "none"
    /\ \E x \in {"success", "error"} : result' = [result EXCEPT ![r] = x]
    /\ UNCHANGED <<sent, level>>

Stop == level = "RUNNING" /\ level' = "STOPPING" /\ UNCHANGED <<sent, result>>

Stopped ==
    /\ level = "STOPPING" /\ \A r \in sent : result[r] # "none"
    /\ level' = "STOPPED"
    /\ UNCHANGED <<sent, result>>

Next == Stop \/ Stopped \/ \E r \in Request : Send(r) \/ Answer(r)

\* What it never does, and what it does in the end.
Safety == Init /\ [][Next]_vars
Promise ==
    /\ Safety
    /\ \A r \in Request : r \in sent ~> result[r] # "none"
    /\ level = "STOPPING" ~> level = "STOPPED"
=============================================================================
