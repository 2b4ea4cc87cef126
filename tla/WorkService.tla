----------------------------- MODULE WorkService -----------------------------
(***************************************************************************)
(* What ThreadPoolRef and ThreadPool promise together: work handed to the  *)
(* pool completes, on the proactor's thread, in the order it was handed    *)
(* over; a reference stops only when all its work has completed, and the   *)
(* pool after all its references.                                          *)
(***************************************************************************)
EXTENDS Sequences

CONSTANT Refs

VARIABLES outstanding,  \* the references whose work has not completed, oldest first
          level,        \* of each reference: RUNNING, STOPPING or STOPPED
          pool          \* of the pool

Init == outstanding = <<>> /\ level = [r \in Refs |-> "RUNNING"] /\ pool = "RUNNING"

Submit(r) ==
    /\ level[r] = "RUNNING" /\ pool = "RUNNING"
    /\ outstanding' = Append(outstanding, r)
    /\ UNCHANGED <<level, pool>>

\* The completion handler may hand over more work.
Complete(more) ==
    /\ outstanding # <<>>
    /\ \A i \in DOMAIN more : level[more[i]] = "RUNNING"
    /\ outstanding' = Tail(outstanding) \o more
    /\ LET r == Head(outstanding) IN
       level' \in IF level[r] = "STOPPING" THEN {level, [level EXCEPT ![r] = "STOPPED"]}
                  ELSE {level}
    /\ UNCHANGED pool

Idle(r) == \A i \in DOMAIN outstanding' : outstanding'[i] # r

Stop(r) ==
    /\ level[r] = "RUNNING"
    /\ level' \in {[level EXCEPT ![r] = l] : l \in {"STOPPING", "STOPPED"}}
    /\ UNCHANGED <<outstanding, pool>>

StopPool ==
    /\ \A r \in Refs : level[r] = "STOPPED"
    /\ <<pool, pool'>> \in {<<"RUNNING", "STOPPING">>, <<"STOPPING", "STOPPED">>}
    /\ UNCHANGED <<outstanding, level>>

Next ==
    /\ \/ \E r \in Refs : Submit(r) \/ Stop(r)
       \/ \E more \in {<<>>} \cup {<<r>> : r \in Refs} : Complete(more)
       \/ StopPool
    /\ \A r \in Refs : level'[r] = "STOPPED" => Idle(r)

Service == Init /\ [][Next]_<<outstanding, level, pool>>
=============================================================================
