------------------------ MODULE WebSocketOperations ------------------------
(***************************************************************************)
(* What the two ends of a web socket have in common: the asynchronous      *)
(* operations on a boost::beast stream, at most one of a kind at a time,   *)
(* each with the result that its handler will get.                         *)
(***************************************************************************)
EXTENDS Naturals, Sequences

CONSTANT MaxSends       \* bound on the messages an end sends

ASSUME WebSocketAssumption == MaxSends \in Nat

\* The operation that opens the connection (to accept it or, at the client, to
\* resolve, connect and shake hands), a read and a write.
Operations == {"open", "read", "write"}
Results == {"none", "pending", "done", "failed"}

Idle == [o \in Operations |-> "none"]

\* cancel aborts what waits in the socket, but an operation of several steps
\* may be between two of them and goes on, and one that has ended has ended.
Cancelled(f) ==
    {g \in [Operations -> Results] :
        \A o \in Operations : g[o] = f[o] \/ (f[o] = "pending" /\ g[o] = "failed")}

\* close leaves no operation a way to go on.
Closed(f) == [o \in Operations |-> IF f[o] = "pending" THEN "failed" ELSE f[o]]
=============================================================================
