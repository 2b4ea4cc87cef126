----------------------------- MODULE HttpServer -----------------------------
(***************************************************************************)
(* HttpServer: its listeners accept connections; a Connection reads a      *)
(* request, has it answered by the RequestHandler with the longest prefix  *)
(* or by the listener's own function, writes the response and reads on, or *)
(* becomes a web socket of the handler's owner.  What is closed is erased  *)
(* by a handler posted to the proactor; when the server stops, the last    *)
(* erasure schedules m_check_shutdown_work.                                *)
(***************************************************************************)
EXTENDS Naturals, Sequences, SequencesExt

CONSTANTS
    Listeners,      \* the servers added by AddServer
    Connections,    \* the connections accepted, each once
    Handlers,       \* the RequestHandlers, one for each owner
    Prefix,         \* the m_prefix of each, a sequence of numbers for its characters
    Resources,      \* the resources that peers request
    Server, Nobody  \* who answers when no RequestHandler does

HttpServerAssumption ==
    /\ Prefix \in [Handlers -> Seq(Nat)]
    /\ \A h, k \in Handlers : Prefix[h] = Prefix[k] => h = k
    /\ Resources \subseteq Seq(Nat)
    /\ Server \notin Handlers /\ Nobody \notin Handlers

VARIABLES
    level,      \* the server's local run level
    stopping,   \* the application has been told to stop
    owner,      \* the local run level of each handler's owner
    handlers,   \* m_request_handlers
    listener,   \* the state of each listener
    conn,       \* the state of each connection
    request,    \* the resource each connection's last request names
    by,         \* who has handled that request
    ws,         \* the state of the web socket each connection has become
    work,       \* m_check_shutdown_work is scheduled
    aborted     \* an assertion has failed

requests == <<conn, request, by>>
vars == <<level, stopping, owner, handlers, listener, requests, ws, work, aborted>>

Init ==
    /\ level = "CONSTRUCTED" /\ stopping = FALSE
    /\ owner = [h \in Handlers |-> "CONSTRUCTED"] /\ handlers = {}
    /\ listener = [l \in Listeners |-> "none"]
    /\ conn = [c \in Connections |-> "none"]
    /\ request = [c \in Connections |-> <<>>] /\ by = [c \in Connections |-> Nobody]
    /\ ws = [c \in Connections |-> "none"]
    /\ work = FALSE /\ aborted = FALSE

HandleStarting ==
    /\ level = "CONSTRUCTED" /\ level' = "RUNNING"
    /\ UNCHANGED <<stopping, owner, handlers, listener, requests, ws, work, aborted>>

RequestStop ==
    /\ level = "RUNNING" /\ \A h \in Handlers : owner[h] = "RUNNING"
    /\ ~stopping /\ stopping' = TRUE
    /\ UNCHANGED <<level, owner, handlers, listener, requests, ws, work, aborted>>

-----------------------------------------------------------------------------
\* The states of what is still in m_listeners, m_connections and
\* m_web_socket_connections.
LiveListeners == {"accepting", "idle", "closing", "erasing"}
LiveConnections == {"reading", "writing", "erasing"}
LiveSockets == {"open", "closing", "erasing"}

NoListeners(f) == \A l \in Listeners : f[l] \notin LiveListeners
NoConnections(f) == \A c \in Connections : f[c] \notin LiveConnections
NoSockets(f) == \A c \in Connections : f[c] \notin LiveSockets

\* Mutant: alphabetical order only.
BeforeByName(h, k) ==
    \E i \in 1..Len(Prefix[k]) :
        /\ i > Len(Prefix[h]) \/ Prefix[h][i] < Prefix[k][i]
        /\ \A j \in 1..(i - 1) : j <= Len(Prefix[h]) => Prefix[h][j] = Prefix[k][j]

\* RequestHandlerOrder: longer prefixes first, then by prefix.
Before(h, k) ==
    \/ Len(Prefix[h]) > Len(Prefix[k])
    \/ /\ Len(Prefix[h]) = Len(Prefix[k])
       /\ \E i \in 1..Len(Prefix[h]) :
             /\ Prefix[h][i] < Prefix[k][i]
             /\ \A j \in 1..(i - 1) : Prefix[h][j] = Prefix[k][j]

\* The owner's HandleStarting, which logs the handler in.
Login(h) ==
    /\ level = "RUNNING" /\ owner[h] = "CONSTRUCTED"
    /\ owner' = [owner EXCEPT ![h] = "RUNNING"]
    /\ handlers' = handlers \cup {h}
    /\ UNCHANGED <<level, stopping, listener, requests, ws, work, aborted>>

\* The owner's web sockets, after it has closed the one that is open.
SocketsClosed(h, f) ==
    [c \in Connections |-> IF by[c] = h /\ f[c] = "open" THEN "closing" ELSE f[c]]

\* The owner's HandleStopping: it logs the handler out and closes its web socket.
Logout(h) ==
    /\ stopping /\ owner[h] = "RUNNING"
    /\ owner' = [owner EXCEPT ![h] = "STOPPED"]
    /\ handlers' = handlers \ {h}
    /\ ws' = SocketsClosed(h, ws)
    /\ UNCHANGED <<level, stopping, listener, requests, work, aborted>>

-----------------------------------------------------------------------------
\* AddServer: the listener is kept, and accepts, unless an operation on its
\* acceptor has failed.
AddServer(l) ==
    /\ level = "RUNNING" /\ ~stopping /\ listener[l] = "none"
    /\ listener' = [listener EXCEPT ![l] = "accepting"] \/ listener' = [listener EXCEPT ![l] = "idle"]
    /\ UNCHANGED <<level, stopping, owner, handlers, requests, ws, work, aborted>>

\* Listener::OnAccept: a connection that starts to read, and another accept ...
Accepted(l, c) ==
    /\ listener[l] = "accepting" /\ conn[c] = "none"
    /\ conn' = [conn EXCEPT ![c] = "reading"]
    /\ UNCHANGED <<level, stopping, owner, handlers, listener, request, by, ws, work, aborted>>

\* ... or an error, after which the listener accepts no more.
AcceptFailed(l) ==
    /\ listener[l] = "accepting"
    /\ listener' = [listener EXCEPT ![l] = "idle"]
    /\ UNCHANGED <<level, stopping, owner, handlers, requests, ws, work, aborted>>

\* The accept of a listener that stops ends, whatever its result.
AcceptStopped(l) ==
    /\ listener[l] = "closing"
    /\ listener' = [listener EXCEPT ![l] = "erasing"]
    /\ UNCHANGED <<level, stopping, owner, handlers, requests, ws, work, aborted>>

-----------------------------------------------------------------------------
\* HandleRequest: the first handler in the set's order whose prefix begins the
\* resource, else the listener's function if it has one.
Answers(r) ==
    LET matching == {h \in handlers : IsPrefix(Prefix[h], r)}
    IN  IF matching # {} THEN {h \in matching : \A k \in matching \ {h} : Before(h, k)}
        ELSE {Server, Nobody}

\* Connection::OnRead with a request: it is answered at once, by a response or
\* by the 404 of a Request that nobody has handled, ...
OnRead(c, r) ==
    /\ conn[c] = "reading"
    /\ conn' = [conn EXCEPT ![c] = "writing"]
    /\ request' = [request EXCEPT ![c] = r]
    /\ \E a \in Answers(r) : by' = [by EXCEPT ![c] = a]
    /\ UNCHANGED <<level, stopping, owner, handlers, listener, ws, work, aborted>>

\* Mutant: the owner's earlier web socket is left open.
UpgradeKeeping(c, r) ==
    /\ conn[c] = "reading"
    /\ \E h \in Answers(r) \cap Handlers :
          /\ by' = [by EXCEPT ![c] = h]
          /\ ws' = [ws EXCEPT ![c] = "open"]
    /\ conn' = [conn EXCEPT ![c] = "erasing"]
    /\ request' = [request EXCEPT ![c] = r]
    /\ UNCHANGED <<level, stopping, owner, handlers, listener, work, aborted>>

\* ... or, by the handler of an owner of web sockets, with an upgrade: the
\* owner closes the web socket it has, and the connection is erased.
Upgrade(c, r) ==
    /\ conn[c] = "reading"
    /\ \E h \in Answers(r) \cap Handlers :
          /\ by' = [by EXCEPT ![c] = h]
          /\ ws' = [SocketsClosed(h, ws) EXCEPT ![c] = "open"]
    /\ conn' = [conn EXCEPT ![c] = "erasing"]
    /\ request' = [request EXCEPT ![c] = r]
    /\ UNCHANGED <<level, stopping, owner, handlers, listener, work, aborted>>

\* OnRead or OnWrite with an error, or OnWrite of a response that closes.
ConnectionClosed(c) ==
    /\ conn[c] \in {"reading", "writing"}
    /\ conn' = [conn EXCEPT ![c] = "erasing"]
    /\ UNCHANGED <<level, stopping, owner, handlers, listener, request, by, ws, work, aborted>>

\* OnWrite of any other response: read the next request.
OnWrite(c) ==
    /\ conn[c] = "writing"
    /\ conn' = [conn EXCEPT ![c] = "reading"]
    /\ request' = [request EXCEPT ![c] = <<>>] /\ by' = [by EXCEPT ![c] = Nobody]
    /\ UNCHANGED <<level, stopping, owner, handlers, listener, ws, work, aborted>>

\* The web socket closes by itself, and has no operation left.
SocketFailed(c) ==
    /\ ws[c] = "open"
    /\ ws' = [ws EXCEPT ![c] = "closing"]
    /\ UNCHANGED <<level, stopping, owner, handlers, listener, requests, work, aborted>>

WebSocketClosed(c) ==
    /\ ws[c] = "closing"
    /\ ws' = [ws EXCEPT ![c] = "erasing"]
    /\ UNCHANGED <<level, stopping, owner, handlers, listener, requests, work, aborted>>

-----------------------------------------------------------------------------
\* The posted halves of ListenerStopped, ConnectionClosed and WebSocketClosed.
EraseListener(l) ==
    /\ listener[l] = "erasing"
    /\ listener' = [listener EXCEPT ![l] = "gone"]
    /\ work' = (work \/ (NoListeners(listener') /\ level = "STOPPING"))
    /\ UNCHANGED <<level, stopping, owner, handlers, requests, ws, aborted>>

\* Mutant: the shutdown is only checked after listeners and web sockets.
EraseConnectionQuietly(c) ==
    /\ conn[c] = "erasing"
    /\ conn' = [conn EXCEPT ![c] = "gone"]
    /\ UNCHANGED <<level, stopping, owner, handlers, listener, request, by, ws, work, aborted>>

EraseConnection(c) ==
    /\ conn[c] = "erasing"
    /\ conn' = [conn EXCEPT ![c] = "gone"]
    /\ work' = (work \/ (NoConnections(conn') /\ level = "STOPPING"))
    /\ UNCHANGED <<level, stopping, owner, handlers, listener, request, by, ws, aborted>>

EraseSocket(c) ==
    /\ ws[c] = "erasing"
    /\ ws' = [ws EXCEPT ![c] = "gone"]
    /\ work' = (work \/ (NoSockets(ws') /\ level = "STOPPING"))
    /\ UNCHANGED <<level, stopping, owner, handlers, listener, requests, aborted>>

\* HandleStopping, after the owners have stopped: AsyncStop of each listener,
\* which asserts that its accept is pending, and Close of each web socket.
HandleStopping ==
    /\ level = "RUNNING" /\ stopping /\ \A h \in Handlers : owner[h] = "STOPPED"
    /\ IF handlers # {} \/ \E l \in Listeners : listener[l] = "idle"
       THEN aborted' = TRUE /\ UNCHANGED <<level, listener, ws, work>>
       ELSE /\ level' = "STOPPING" /\ work' = TRUE
            /\ listener' = [l \in Listeners |->
                                IF listener[l] = "accepting" THEN "closing" ELSE listener[l]]
            /\ ws' = [c \in Connections |-> IF ws[c] = "open" THEN "closing" ELSE ws[c]]
            /\ UNCHANGED aborted
    /\ UNCHANGED <<stopping, owner, handlers, requests>>

CheckShutdown ==
    /\ work /\ work' = FALSE
    /\ level' = IF /\ level = "STOPPING" /\ NoListeners(listener)
                   /\ NoConnections(conn) /\ NoSockets(ws)
                THEN "STOPPED" ELSE level
    /\ UNCHANGED <<stopping, owner, handlers, listener, requests, ws, aborted>>

-----------------------------------------------------------------------------
Listen(l) == AddServer(l) \/ AcceptFailed(l) \/ \E c \in Connections : Accepted(l, c)
Serve(c) ==
    OnWrite(c) \/ SocketFailed(c) \/ \E r \in Resources : OnRead(c, r) \/ Upgrade(c, r)

Next ==
    \/ ~aborted /\ \/ HandleStarting \/ RequestStop \/ HandleStopping \/ CheckShutdown
                   \/ \E h \in Handlers : Login(h) \/ Logout(h)
                   \/ \E l \in Listeners : Listen(l) \/ AcceptStopped(l) \/ EraseListener(l)
                   \/ \E c \in Connections : \/ Serve(c) \/ ConnectionClosed(c)
                                             \/ WebSocketClosed(c)
                                             \/ EraseConnection(c) \/ EraseSocket(c)
    \/ (aborted \/ level = "STOPPED") /\ UNCHANGED vars

Spec == Init /\ [][Next]_vars

\* What is posted is handled, cancelled operations end, and peers do not keep
\* their connections for ever, however often they get a response first.
FairSpec ==
    /\ Spec
    /\ WF_vars(HandleStarting) /\ WF_vars(HandleStopping) /\ WF_vars(CheckShutdown)
    /\ \A h \in Handlers : WF_vars(Login(h)) /\ WF_vars(Logout(h))
    /\ \A l \in Listeners : WF_vars(AcceptStopped(l)) /\ WF_vars(EraseListener(l))
    /\ \A c \in Connections :
          /\ SF_vars(ConnectionClosed(c)) /\ WF_vars(WebSocketClosed(c))
          /\ WF_vars(EraseConnection(c)) /\ WF_vars(EraseSocket(c))

-----------------------------------------------------------------------------
\* The variables have their types.
TypeOK ==
    /\ level \in {"CONSTRUCTED", "RUNNING", "STOPPING", "STOPPED"}
    /\ stopping \in BOOLEAN /\ work \in BOOLEAN /\ aborted \in BOOLEAN
    /\ owner \in [Handlers -> {"CONSTRUCTED", "RUNNING", "STOPPED"}]
    /\ handlers \subseteq Handlers
    /\ listener \in [Listeners -> {"none", "gone"} \cup LiveListeners]
    /\ conn \in [Connections -> {"none", "gone"} \cup LiveConnections]
    /\ request \in [Connections -> Resources \cup {<<>>}]
    /\ by \in [Connections -> Handlers \cup {Server, Nobody}]
    /\ ws \in [Connections -> {"none", "gone"} \cup LiveSockets]

\* A stopped server has nothing left to be erased or scheduled when it is
\* destroyed, and one that has nothing left to wait for is about to stop.
StopsWhenEmpty ==
    LET empty == NoListeners(listener) /\ NoConnections(conn) /\ NoSockets(ws)
    IN  /\ level = "STOPPED" => empty /\ ~work /\ handlers = {}
        /\ level = "STOPPING" /\ empty => work

\* An open web socket is the only one of a running owner, so that none is
\* opened by a server that stops and would not close it.
SocketsOwned ==
    \A c \in Connections : ws[c] = "open" =>
        /\ owner[by[c]] = "RUNNING" /\ level = "RUNNING"
        /\ \A d \in Connections \ {c} : ws[d] = "open" => by[d] # by[c]

\* What the server promises its listeners, connections, handlers and owners.
Consistent == TypeOK /\ StopsWhenEmpty /\ SocketsOwned

\* A request is handled by the handler with the longest prefix of those that
\* are logged in and fit, in whatever order they have logged in.
LongestAnswers ==
    \A c \in Connections : \A h \in handlers :
        (conn[c] = "reading" /\ request'[c] # request[c] /\ IsPrefix(Prefix[h], request'[c]))
            => /\ by'[c] \in handlers /\ IsPrefix(Prefix[by'[c]], request'[c])
               /\ Len(Prefix[by'[c]]) >= Len(Prefix[h])

LongestPrefixFirst == [][LongestAnswers]_vars

\* The stop completes once it is requested, unless the assertion stops it.
StopCompletes == stopping ~> (level = "STOPPED" \/ aborted)

\* Listener::AsyncStop's BBOX_ASSERT(m_is_accept_pending) does not fail.
AcceptPendingAtStop == ~aborted
=============================================================================
