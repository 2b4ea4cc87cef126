--------------------------- MODULE FadecandyClient ---------------------------
(***************************************************************************)
(* The FadecandyClient of an LED sign and the RenderService that gives it  *)
(* a frame every 30 ms.  The client connects to the Fadecandy server, and  *)
(* again a while after every failure, and writes frames one at a time: of  *)
(* those that come while it can not write it keeps the last.  The          *)
(* RenderService depends on the client, so it starts later and stops       *)
(* earlier.                                                                *)
(*                                                                         *)
(* The socket is external: an operation ends with success or an error, by  *)
(* close() with an error unless its result is there already, and is        *)
(* refused on a closed socket.  A frame is the latest or an older one.     *)
(***************************************************************************)
EXTENDS Naturals

VARIABLES
    level,      \* the client's local run level
    stopping,   \* the application has been told to stop
    render,     \* the RenderService: "waiting", "running" or "stopped"
    timer,      \* m_reconnect_timer runs
    framed,     \* there was a frame since it was started
    ops,        \* m_outstanding_ops
    op,         \* the operation asio has: "none", "connect" or "write"
    result,     \* of that operation, once its handler is queued
    open,       \* m_socket_open
    pending,    \* m_pending_data: "none" or "latest"
    writing,    \* m_writing_data: "none", "latest" or "older"
    server,     \* history: the frame the server shows
    lost        \* history: the latest frame has been in a write that failed

asio == <<ops, op, result>>
data == <<pending, writing, server, lost>>
vars == <<level, stopping, render, timer, framed, asio, open, data>>

Init ==
    /\ level = "CONSTRUCTED" /\ stopping = FALSE /\ render = "waiting"
    /\ timer = FALSE /\ framed = FALSE
    /\ ops = 0 /\ op = "none" /\ result = "none"
    /\ open = FALSE /\ pending = "none" /\ writing = "none"
    /\ server = "latest" /\ lost = FALSE

Begin(o) == ops' = ops + 1 /\ op' = o /\ result' = "none"

StartTimer == timer' = TRUE /\ framed' = FALSE

-----------------------------------------------------------------------------
\* The frame timer of the RenderService.
RenderStarting ==
    /\ level = "RUNNING" /\ render = "waiting" /\ ~stopping
    /\ render' = "running"
    /\ UNCHANGED <<level, stopping, timer, framed, asio, open, data>>

RenderStopping ==
    /\ stopping /\ render # "stopped" /\ level = "RUNNING"
    /\ render' = "stopped"
    /\ UNCHANGED <<level, stopping, timer, framed, asio, open, data>>

\* StartWrite with a pending frame, after n operations are left.
CanWrite(n) == open /\ n = 0

\* HandleFrameTimeout and UpdateLeds.
UpdateLeds ==
    /\ render = "running"
    /\ IF CanWrite(ops)
       THEN Begin("write") /\ writing' = "latest" /\ pending' = "none"
       ELSE /\ pending' = "latest" /\ UNCHANGED asio
            /\ writing' = IF writing = "none" THEN "none" ELSE "older"
    /\ server' = "older" /\ lost' = FALSE
    /\ framed' = TRUE
    /\ UNCHANGED <<level, stopping, render, timer, open>>

-----------------------------------------------------------------------------
HandleStarting ==
    /\ level = "CONSTRUCTED" /\ level' = "RUNNING"
    /\ StartTimer
    /\ UNCHANGED <<stopping, render, asio, open, data>>

\* A second or more is longer than the time between two frames, and than the
\* time from the stop of the RenderService to that of the client.
ReconnectTimeout ==
    /\ timer /\ framed /\ render # "stopped"
    /\ timer' = FALSE /\ Begin("connect")
    /\ UNCHANGED <<level, stopping, render, framed, open, data>>

\* asio has a result.  What is begun on a socket that HandleStopping has closed fails.
Complete(r) ==
    /\ op # "none" /\ result = "none" /\ result' = r
    /\ r = "ok" => level = "RUNNING"
    /\ server' = IF op = "write" /\ r = "ok" THEN writing ELSE server
    /\ UNCHANGED <<level, stopping, render, timer, framed, ops, op, open, pending, writing, lost>>

\* What CheckShutdown leaves of the level when n operations are outstanding.
Checked(n) == IF level = "STOPPING" /\ n = 0 THEN "STOPPED" ELSE level

\* The handler of an operation has been called.
Ended == ops' = ops - 1 /\ op' = "none" /\ result' = "none"

\* The handler of one operation begins a write.
Follow == op' = "write" /\ result' = "none" /\ UNCHANGED ops

\* Mutant: a connection that can not be made is not tried again.
ConnectFailsOnce ==
    /\ op = "connect" /\ result = "error"
    /\ open' = FALSE /\ Ended
    /\ level' = Checked(ops - 1)
    /\ UNCHANGED <<stopping, render, timer, framed, data>>

ConnectFails ==
    /\ op = "connect" /\ result = "error"
    /\ open' = FALSE /\ Ended
    /\ level' = Checked(ops - 1)
    /\ IF level = "STOPPING" THEN UNCHANGED <<timer, framed>> ELSE StartTimer
    /\ UNCHANGED <<stopping, render, data>>

\* Mutant: the frame that has come meanwhile waits for the next.
ConnectedOnly ==
    /\ op = "connect" /\ result = "ok"
    /\ open' = TRUE /\ Ended
    /\ UNCHANGED <<level, stopping, render, timer, framed, data>>

Connected ==
    /\ op = "connect" /\ result = "ok"
    /\ open' = TRUE
    /\ IF pending = "none" THEN Ended /\ UNCHANGED <<pending, writing>>
       ELSE Follow /\ writing' = pending /\ pending' = "none"
    /\ UNCHANGED <<level, stopping, render, timer, framed, server, lost>>

ConnectComplete == ConnectFails \/ Connected

\* StartSingleShot comes before CheckShutdown, which cancels it.
WriteFails ==
    /\ op = "write" /\ result = "error"
    /\ open' = FALSE /\ Ended /\ writing' = "none"
    /\ lost' = (lost \/ writing = "latest")
    /\ level' = Checked(ops - 1)
    /\ IF level = "STOPPING" THEN UNCHANGED <<timer, framed>> ELSE StartTimer
    /\ UNCHANGED <<stopping, render, pending, server>>

Written ==
    /\ op = "write" /\ result = "ok"
    /\ IF pending = "none" THEN Ended /\ writing' = "none" /\ level' = Checked(ops - 1)
       ELSE Follow /\ writing' = pending /\ UNCHANGED level
    /\ pending' = "none"
    /\ UNCHANGED <<stopping, render, timer, framed, open, server, lost>>

WriteComplete == WriteFails \/ Written

-----------------------------------------------------------------------------
RequestStop ==
    /\ level = "RUNNING" /\ ~stopping /\ stopping' = TRUE
    /\ UNCHANGED <<level, render, timer, framed, asio, open, data>>

\* Mutant: the client stops without its operation.
HandleStoppingAtOnce ==
    /\ level = "RUNNING" /\ render = "stopped"
    /\ level' = "STOPPED" /\ timer' = FALSE
    /\ UNCHANGED <<stopping, render, framed, asio, open, data>>

\* close() and CheckShutdown, once the RenderService has stopped.
HandleStopping ==
    /\ level = "RUNNING" /\ render = "stopped"
    /\ result' = IF op # "none" /\ result = "none" THEN "error" ELSE result
    /\ IF ops = 0
       THEN level' = "STOPPED" /\ timer' = FALSE
       ELSE level' = "STOPPING" /\ UNCHANGED timer
    /\ UNCHANGED <<stopping, render, framed, ops, op, open, data>>

Stopped == level = "STOPPED" /\ UNCHANGED vars

Next ==
    \/ HandleStarting \/ RenderStarting \/ RenderStopping \/ UpdateLeds
    \/ ReconnectTimeout \/ (\E r \in {"ok", "error"} : Complete(r))
    \/ ConnectComplete \/ WriteComplete
    \/ RequestStop \/ HandleStopping \/ Stopped

Spec == Init /\ [][Next]_vars

\* Timers expire and operations end, handlers run in turn, the stops among them, and
\* the server can be connected to now and then.
FairSpec ==
    /\ Spec
    /\ WF_vars(HandleStarting) /\ WF_vars(RenderStarting) /\ WF_vars(RenderStopping)
    /\ WF_vars(UpdateLeds) /\ WF_vars(ReconnectTimeout)
    /\ WF_vars(\E r \in {"ok", "error"} : Complete(r)) /\ SF_vars(op = "connect" /\ Complete("ok"))
    /\ WF_vars(ConnectComplete) /\ WF_vars(WriteComplete) /\ WF_vars(HandleStopping)

-----------------------------------------------------------------------------
\* The variables have their types.
TypeOK ==
    /\ level \in {"CONSTRUCTED", "RUNNING", "STOPPING", "STOPPED"}
    /\ render \in {"waiting", "running", "stopped"}
    /\ stopping \in BOOLEAN /\ timer \in BOOLEAN /\ framed \in BOOLEAN
    /\ open \in BOOLEAN /\ lost \in BOOLEAN
    /\ ops \in Nat /\ op \in {"none", "connect", "write"}
    /\ result \in {"none", "ok", "error"}
    /\ pending \in {"none", "latest"} /\ writing \in {"none", "latest", "older"}
    /\ server \in {"latest", "older"}

\* A client that runs waits to connect, connects or is connected, one of them only,
\* so that the assertion of ReconnectTimeout holds and it never stays disconnected;
\* one that has stopped has no operation left, and one that stops has the one it
\* waits for.
OneOfThree ==
    /\ ops = (IF op = "none" THEN 0 ELSE 1)
    /\ level = "RUNNING" =>
           /\ timer \/ op = "connect" \/ open
           /\ timer => ops = 0 /\ ~open
           /\ op = "connect" => ~open
           /\ op = "write" => open
    /\ level = "STOPPING" => op # "none" /\ ~timer
    /\ level = "STOPPED" => op = "none" /\ ~timer

\* However frames, failures and writes overlap, no frame is left lying on an open
\* connection that is not written to: the server shows the latest, unless the write
\* that had it has failed.
FramesArrive ==
    open /\ op = "none" => pending = "none" /\ (server = "latest" \/ lost)

Consistent == TypeOK /\ OneOfThree /\ FramesArrive

\* A client connects again after any failures, and stops when it is told to.
ConnectsAndStops ==
    /\ []<>(level # "RUNNING" \/ stopping \/ open)
    /\ stopping ~> level = "STOPPED"
=============================================================================
