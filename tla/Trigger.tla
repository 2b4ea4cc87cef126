------------------------------- MODULE Trigger -------------------------------
(***************************************************************************)
(* What a Timer or a OneShotWork promises its owner: it calls back only    *)
(* while it is armed, at most as often as it was armed for, never after it *)
(* was disarmed, and it is done some time after it was told to stop.       *)
(***************************************************************************)
EXTENDS Naturals

CONSTANT Counts     \* the numbers of calls an owner may ask for, Forever among them
CONSTANT Forever

VARIABLES armed,    \* calls still owed, 0 when disarmed
          called,   \* flips with every call of the callback
          level     \* RUNNING, STOPPING or STOPPED

Less(n) == IF n = Forever THEN Forever ELSE n - 1

Init == armed = 0 /\ called = 0 /\ level = "RUNNING"

\* The owner arms it anew or disarms it.
Set == level = "RUNNING" /\ armed' \in Counts /\ UNCHANGED <<called, level>>

\* One call, of those still owed.  What the callback does with it is a step of
\* its own, a Set.
Fire == /\ armed > 0 /\ level = "RUNNING"
        /\ called' = 1 - called
        /\ armed' = Less(armed)
        /\ UNCHANGED level

Stop == level = "RUNNING" /\ level' = "STOPPING" /\ armed' = 0 /\ UNCHANGED called

Stopped == level # "STOPPED" /\ level' = "STOPPED" /\ armed' = 0 /\ UNCHANGED called

Next == Set \/ Fire \/ Stop \/ Stopped

Safety == Init /\ [][Next]_<<armed, called, level>>

Promise == Safety /\ (level = "STOPPING" ~> level = "STOPPED")
=============================================================================
