------------------------------ MODULE UdpSocket ------------------------------
(***************************************************************************)
(* bbox::rt::net::UdpSocket receives datagrams into its one buffer while   *)
(* its owner has reading enabled.  A read that was started can not be      *)
(* taken back: one that completes when reading is disabled is thrown away, *)
(* and one that is still under way when reading is enabled again serves    *)
(* the new callback.  The owner may enable and disable in any handler, in  *)
(* the read callback too, and so may find reads under way or none.         *)
(***************************************************************************)
EXTENDS Naturals, Sequences

CONSTANT MaxQueued  \* bound on the datagrams the kernel keeps

UdpSocketAssumption == MaxQueued \in Nat \ {0}

VARIABLES
    level,      \* the local run level
    stopping,   \* RequestStop has been called
    enabled,    \* m_user_read_callback is set
    pending,    \* m_pending_reads
    reading,    \* the reads asio has not completed
    done,       \* the results of those whose HandleRead is queued
    queued,     \* the datagrams the kernel has for the socket
    busy        \* HandleRead is in m_user_read_callback

vars == <<level, stopping, enabled, pending, reading, done, queued, busy>>

Init ==
    /\ level = "RUNNING" /\ stopping = FALSE
    /\ enabled = FALSE /\ pending = 0
    /\ reading = 0 /\ done = <<>>
    /\ queued = 0 /\ busy = FALSE

-----------------------------------------------------------------------------
\* async_receive_from, if no read is under way.
StartRead ==
    /\ pending' = IF pending = 0 THEN pending + 1 ELSE pending
    /\ reading' = IF pending = 0 THEN reading + 1 ELSE reading

\* Mutant: a read that is under way is not counted on.
EnableReadingAnew ==
    /\ level = "RUNNING" /\ ~stopping
    /\ enabled' = TRUE
    /\ pending' = pending + 1 /\ reading' = reading + 1
    /\ UNCHANGED <<level, stopping, done, queued, busy>>

\* The owner, in any handler or in the callback.
EnableReading ==
    /\ level = "RUNNING" /\ ~stopping
    /\ enabled' = TRUE /\ StartRead
    /\ UNCHANGED <<level, stopping, done, queued, busy>>

DisableReading ==
    /\ enabled' = FALSE
    /\ UNCHANGED <<level, stopping, pending, reading, done, queued, busy>>

-----------------------------------------------------------------------------
\* A datagram arrives, or is lost as the kernel has no room.
Arrive ==
    /\ queued < MaxQueued /\ queued' = queued + 1
    /\ UNCHANGED <<level, stopping, enabled, pending, reading, done, busy>>

\* asio completes a read, with a datagram ...
Receive ==
    /\ reading > 0 /\ queued > 0
    /\ reading' = reading - 1 /\ queued' = queued - 1
    /\ done' = Append(done, "received")
    /\ UNCHANGED <<level, stopping, enabled, pending, busy>>

\* ... or with an error.
ReceiveFails ==
    /\ reading > 0
    /\ reading' = reading - 1 /\ done' = Append(done, "error")
    /\ UNCHANGED <<level, stopping, enabled, pending, queued, busy>>

CheckShutdown(n) == level' = IF level = "STOPPING" /\ n = 0 THEN "STOPPED" ELSE level

\* HandleRead up to the callback, or all of it when there is none to call.
HandleRead ==
    /\ ~busy /\ done # <<>> /\ done' = Tail(done)
    /\ pending' = pending - 1
    /\ IF level # "STOPPING" /\ enabled
       THEN busy' = TRUE /\ UNCHANGED level
       ELSE CheckShutdown(pending - 1) /\ UNCHANGED busy
    /\ UNCHANGED <<stopping, enabled, reading, queued>>

\* The callback, in which the owner may have enabled or disabled, returns.
CallbackReturns ==
    /\ busy /\ busy' = FALSE
    /\ IF enabled THEN StartRead ELSE UNCHANGED <<pending, reading>>
    /\ UNCHANGED <<level, stopping, enabled, done, queued>>

-----------------------------------------------------------------------------
RequestStop ==
    /\ ~stopping /\ stopping' = TRUE
    /\ UNCHANGED <<level, enabled, pending, reading, done, queued, busy>>

\* cancel() aborts what asio has not completed; a read whose handler is queued
\* keeps its result.
HandleStopping ==
    /\ ~busy /\ stopping /\ level = "RUNNING"
    /\ enabled' = FALSE
    /\ IF pending # 0
       THEN done' = done \o [i \in 1 .. reading |-> "aborted"] /\ reading' = 0
       ELSE UNCHANGED <<reading, done>>
    /\ level' = IF pending = 0 THEN "STOPPED" ELSE "STOPPING"
    /\ UNCHANGED <<stopping, pending, queued, busy>>

Next ==
    \/ EnableReading \/ DisableReading \/ Arrive \/ Receive \/ ReceiveFails
    \/ HandleRead \/ CallbackReturns \/ RequestStop \/ HandleStopping

Spec == Init /\ [][Next]_vars

\* The kernel passes on what it has, whatever reads fail meanwhile, the callback
\* returns, and the proactor runs its handlers in turn, the stop among them.
FairSpec ==
    /\ Spec
    /\ SF_vars(Receive) /\ SF_vars(HandleStopping)
    /\ WF_vars(HandleRead) /\ WF_vars(CallbackReturns)

-----------------------------------------------------------------------------
\* The variables have their types.
TypeOK ==
    /\ level \in {"RUNNING", "STOPPING", "STOPPED"}
    /\ stopping \in BOOLEAN /\ enabled \in BOOLEAN /\ busy \in BOOLEAN
    /\ pending \in Nat /\ reading \in Nat
    /\ done \in Seq({"received", "error", "aborted"})
    /\ queued \in Nat

\* m_pending_reads counts the handlers still to come, so that no two reads share
\* the buffer, and none is left that would run on a stopped socket, which its
\* owner may destroy; while the owner has reading enabled the socket listens,
\* whatever was enabled and disabled before.
OneReader ==
    /\ pending = reading + Len(done) /\ pending <= 1
    /\ level = "STOPPED" => pending = 0 /\ ~busy
    /\ level = "STOPPING" => pending = 1
    /\ enabled => level = "RUNNING" /\ (busy \/ pending = 1)

\* The counter, asio and the owner agree on who reads.
Consistent == TypeOK /\ OneReader

\* What the kernel has is read as long as somebody wants it, and a stop ends.
ReadsAndStops ==
    /\ queued = MaxQueued /\ enabled ~> queued < MaxQueued \/ ~enabled
    /\ stopping ~> level = "STOPPED"
=============================================================================
