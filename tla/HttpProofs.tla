------------------------------- MODULE HttpProofs ------------------------------
(***************************************************************************)
(* Proofs about HttpClient, HttpServer, DebugStreams and DebugWebsite, for *)
(* every value of their constants, and about MCHttp, which has them all.   *)
(*                                                                         *)
(* The client's Consistent is inductive together with three facts on the   *)
(* stop and the callback: the client leaves RUNNING only once a stop was   *)
(* requested; it checks itself only when it has left RUNNING; and the      *)
(* request whose callback runs has completed.  The server's needs that the *)
(* handlers logged in are those of the owners that run, and that what has  *)
(* become a web socket reads no more requests.  That of the debug output   *)
(* needs each output's parent to be the one that was active before it, and *)
(* the web site's that nothing has been asked for while a page is accepted.*)
(***************************************************************************)
EXTENDS MCHttp, Integers, TLAPS

-----------------------------------------------------------------------------
\* The client.

ChecksWhenStopping == check => level = "STOPPING"

BusyCompleted == busy # None => at[busy] = "completed"

IInv == Consistent /\ ChecksWhenStopping /\ BusyCompleted

\* A resolver that is asked for no service answers with a port number, zero.
LEMMA ZeroIsPort == 0 \in PortNumber
  BY SMT DEF PortNumber

\* The initial state satisfies the inductive invariant.
LEMMA InitInv == Init => IInv
<1> SUFFICES ASSUME Init PROVE IInv
  OBVIOUS
<1> USE DEF Init
<1>1. TypeOK
  BY ZeroIsPort DEF TypeOK
<1>2. StoredWhileUnderWay
  BY DEF StoredWhileUnderWay, UnderWay
<1>3. OneResult
  BY DEF OneResult
<1>4. ChecksWhenStopping /\ BusyCompleted
  BY DEF ChecksWhenStopping, BusyCompleted
<1> QED BY <1>1, <1>2, <1>3, <1>4 DEF IInv, Consistent

\* The step of one operation to the next changes what a request waits for and
\* the endpoint it connects to, and no more.
LEMMA GoingOnInv ==
    ASSUME IInv, NEW r \in Request, NEW x \in {"connect", "write", "read"},
           busy = None, at[r] \in {"resolve", "connect", "write"},
           at' = [at EXCEPT ![r] = x],
           endpoint' \in [Request -> PortNumber],
           UNCHANGED <<client, current, result, stored, handles, busy>>
    PROVE  IInv'
<1> USE DEF IInv, Consistent, client
<1>1. TypeOK'
  BY DEF TypeOK
<1>2. UnderWay' = UnderWay
  BY DEF TypeOK, UnderWay
<1>3. StoredWhileUnderWay'
  BY <1>2 DEF StoredWhileUnderWay
<1>4. OneResult'
  BY DEF OneResult, TypeOK
<1>5. ChecksWhenStopping' /\ BusyCompleted'
  BY DEF ChecksWhenStopping, BusyCompleted
<1> QED BY <1>1, <1>3, <1>4, <1>5

\* Every step keeps the inductive invariant: Send puts a request into the set as
\* it gets under way, and only the end of its callback takes it out.
LEMMA NextInv == IInv /\ [Next]_vars => IInv'
<1> SUFFICES ASSUME IInv, [Next]_vars PROVE IInv'
  OBVIOUS
<1> USE HttpClientAssumption DEF HttpClientAssumption, IInv, Consistent, client
<1>1. ASSUME NEW r \in Request, Send(r) PROVE IInv'
  <2> USE <1>1 DEF Send
  <2>1. TypeOK'
    BY DEF TypeOK
  <2>2. UnderWay' = UnderWay \cup {r}
    BY DEF UnderWay, TypeOK
  <2>3. StoredWhileUnderWay'
    BY <2>2 DEF StoredWhileUnderWay, TypeOK
  <2>4. OneResult'
    BY DEF OneResult, TypeOK
  <2>5. ChecksWhenStopping' /\ BusyCompleted'
    BY DEF ChecksWhenStopping, BusyCompleted, TypeOK
  <2> QED BY <2>1, <2>3, <2>4, <2>5
<1>2. ASSUME NEW r \in Request, Drop(r) PROVE IInv'
  BY <1>2 DEF Drop, TypeOK, StoredWhileUnderWay, UnderWay, OneResult, ChecksWhenStopping, BusyCompleted
<1>3. ASSUME NEW r \in Request, HandleResolveComplete(r) PROVE IInv'
  <2>1. endpoint' \in [Request -> PortNumber]
    BY <1>3, ZeroIsPort DEF HandleResolveComplete, TypeOK
  <2> QED BY <1>3, <2>1, GoingOnInv DEF HandleResolveComplete
<1>4. ASSUME NEW r \in Request, HandleConnectComplete(r) PROVE IInv'
  <2>1. endpoint' \in [Request -> PortNumber]
    BY <1>4 DEF HandleConnectComplete, TypeOK
  <2> QED BY <1>4, <2>1, GoingOnInv DEF HandleConnectComplete
<1>5. ASSUME NEW r \in Request, HandleRequestWritten(r) PROVE IInv'
  <2>1. endpoint' \in [Request -> PortNumber]
    BY <1>5 DEF HandleRequestWritten, TypeOK
  <2> QED BY <1>5, <2>1, GoingOnInv DEF HandleRequestWritten
<1>6. ASSUME NEW r \in Request, Complete(r) PROVE IInv'
  <2> USE <1>6 DEF Complete
  <2>1. result' \in [Request -> {"none", "success", "error"}] /\ result'[r] # "none"
        /\ \A q \in Request \ {r} : result'[q] = result[q]
    BY DEF TypeOK
  <2>2. TypeOK'
    BY <2>1 DEF TypeOK
  <2>3. UnderWay' = UnderWay
    BY DEF UnderWay, TypeOK
  <2>4. StoredWhileUnderWay'
    BY <2>3 DEF StoredWhileUnderWay
  <2>5. OneResult'
    BY <2>1 DEF OneResult, TypeOK
  <2>6. ChecksWhenStopping' /\ BusyCompleted'
    BY DEF ChecksWhenStopping, BusyCompleted, TypeOK
  <2> QED BY <2>2, <2>4, <2>5, <2>6
<1>7. CASE CallbackReturns
  <2> USE <1>7 DEF CallbackReturns
  <2>1. TypeOK'
    BY DEF TypeOK
  <2>2. UnderWay' = UnderWay \ {busy} /\ busy \in UnderWay
    BY DEF UnderWay, TypeOK, BusyCompleted
  <2>3. level # "STOPPED"
    BY <2>2 DEF StoredWhileUnderWay
  <2>4. StoredWhileUnderWay'
    BY <2>2, <2>3 DEF StoredWhileUnderWay
  <2>5. OneResult' /\ ChecksWhenStopping' /\ BusyCompleted'
    BY DEF OneResult, ChecksWhenStopping, BusyCompleted
  <2> QED BY <2>1, <2>4, <2>5
<1>8. CASE RequestStop
  BY <1>8 DEF RequestStop, TypeOK, StoredWhileUnderWay, UnderWay, OneResult, ChecksWhenStopping, BusyCompleted
<1>9. CASE HandleStopping
  BY <1>9 DEF HandleStopping, TypeOK, StoredWhileUnderWay, UnderWay, OneResult, ChecksWhenStopping, BusyCompleted
<1>10. CASE CheckStopped
  BY <1>10 DEF CheckStopped, TypeOK, StoredWhileUnderWay, UnderWay, OneResult, ChecksWhenStopping, BusyCompleted
<1>11. CASE Stopped \/ UNCHANGED vars
  BY <1>11 DEF Stopped, vars, TypeOK, StoredWhileUnderWay, UnderWay, OneResult, ChecksWhenStopping, BusyCompleted
<1> QED BY <1>1, <1>2, <1>3, <1>4, <1>5, <1>6, <1>7, <1>8, <1>9, <1>10, <1>11 DEF Next, Operate

\* The inductive invariant holds in every behaviour.
LEMMA Invariance == Spec => []IInv
  BY InitInv, NextInv, PTL DEF Spec

\* The client's set, the handles the requests keep to themselves and the results
\* always agree, and a stopped client has none under way (the assertions of
\* Complete, RemoveCompletedRequest and the destructors).
THEOREM StaysConsistent == Spec => []Consistent
<1>1. IInv => Consistent
  BY DEF IInv
<1> QED BY <1>1, Invariance, PTL

-----------------------------------------------------------------------------
\* The initial state is one of Requests.
LEMMA InitKeeps == Init => Owner!Init
  BY DEF Init, Owner!Init

\* Every step is a step of Requests or leaves what the owner sees as it is.
LEMMA NextKeeps == IInv /\ [Next]_vars => [Owner!Next]_(Owner!vars)
<1> DEFINE sent == {r \in Request : at[r] # "constructed"}
<1> SUFFICES ASSUME IInv, [Next]_vars PROVE Owner!Next \/ UNCHANGED <<sent, result, level>>
  BY DEF Owner!vars
<1> USE HttpClientAssumption DEF HttpClientAssumption, IInv, Consistent, client, TypeOK
<1>1. ASSUME NEW r \in Request, Send(r) PROVE Owner!Next
  <2>1. Owner!Send(r)
    BY <1>1 DEF Send, Owner!Send
  <2> QED BY <2>1 DEF Owner!Next
<1>2. ASSUME NEW r \in Request, Drop(r) PROVE UNCHANGED <<sent, result, level>>
  BY <1>2 DEF Drop
<1>3. ASSUME NEW r \in Request,
             HandleResolveComplete(r) \/ HandleConnectComplete(r) \/ HandleRequestWritten(r)
      PROVE  UNCHANGED <<sent, result, level>>
  BY <1>3 DEF HandleResolveComplete, HandleConnectComplete, HandleRequestWritten
<1>4. ASSUME NEW r \in Request, Complete(r) PROVE Owner!Next
  <2>1. r \in UnderWay
    BY <1>4 DEF Complete, UnderWay
  <2>2. level # "STOPPED"
    BY <2>1 DEF StoredWhileUnderWay
  <2>3. result[r] = "none"
    BY <1>4 DEF Complete, OneResult
  <2>4. sent' = sent /\ r \in sent
    BY <1>4 DEF Complete
  <2>5. Owner!Answer(r)
    BY <1>4, <2>2, <2>3, <2>4 DEF Complete, Owner!Answer
  <2> QED BY <2>5 DEF Owner!Next
<1>5. CASE CallbackReturns \/ RequestStop \/ Stopped \/ UNCHANGED vars
  BY <1>5 DEF CallbackReturns, RequestStop, Stopped, vars
<1>6. CASE HandleStopping
  <2>1. Owner!Stop
    BY <1>6 DEF HandleStopping, Owner!Stop
  <2> QED BY <2>1 DEF Owner!Next
<1>7. CASE CheckStopped
  <2>1. CASE level = "STOPPING" /\ current = {}
    <3>1. \A r \in Request : at[r] # "constructed" => at[r] = "completed"
      BY <2>1 DEF StoredWhileUnderWay, UnderWay
    <3>2. \A r \in sent : result[r] # "none"
      BY <3>1 DEF OneResult
    <3>3. Owner!Stopped
      BY <1>7, <2>1, <3>2 DEF CheckStopped, Owner!Stopped
    <3> QED BY <3>3 DEF Owner!Next
  <2>2. CASE ~(level = "STOPPING" /\ current = {})
    BY <1>7, <2>2 DEF CheckStopped
  <2> QED BY <2>1, <2>2
<1> QED BY <1>1, <1>2, <1>3, <1>4, <1>5, <1>6, <1>7 DEF Next, Operate

\* HttpClient implements the safety part of Requests: one result to a request,
\* none taken on once it stops, and it stops when the last has had its result.
THEOREM ImplementsSafety == Spec => KeepsPromise
  BY InitKeeps, NextKeeps, Invariance, PTL DEF Spec, KeepsPromise, Owner!Safety

-----------------------------------------------------------------------------
\* The server.

\* The handlers that are logged in are those of the owners that run.
HandlersRun == handlers = {h \in Handlers : owner[h] = "RUNNING"}

\* The owners start after the server has and stop before it does.
OwnersFollow ==
    /\ slevel = "CONSTRUCTED" => \A h \in Handlers : owner[h] = "CONSTRUCTED"
    /\ slevel \in {"STOPPING", "STOPPED"} => \A h \in Handlers : owner[h] = "STOPPED"

\* A connection that has become a web socket reads no more, so that its owner stays.
SocketsKept == \A c \in Connections : ws[c] # "none" => by[c] \in Handlers /\ conn[c] \in {"erasing", "gone"}

ServerInv == Http!Consistent /\ HandlersRun /\ OwnersFollow /\ SocketsKept

\* Nothing is left that the stop waits for.
Empty == Http!NoListeners(listener) /\ Http!NoConnections(conn) /\ Http!NoSockets(ws)

\* StopsWhenEmpty in other words.
LEMMA WhenEmpty ==
    Http!StopsWhenEmpty <=> /\ slevel = "STOPPED" => Empty /\ ~work /\ handlers = {}
                            /\ slevel = "STOPPING" /\ Empty => work
BY DEF Http!StopsWhenEmpty, Empty

LEMMA WhenEmptyNext ==
    Http!StopsWhenEmpty' <=> /\ slevel' = "STOPPED" => Empty' /\ ~work' /\ handlers' = {}
                             /\ slevel' = "STOPPING" /\ Empty' => work'
BY DEF Http!StopsWhenEmpty, Empty

LEMMA ServerInitInv == Http!Init => ServerInv
<1> SUFFICES ASSUME Http!Init PROVE ServerInv
  OBVIOUS
<1> USE DEF Http!Init
<1>1. Http!TypeOK
  BY DEF Http!TypeOK, Http!LiveListeners, Http!LiveConnections, Http!LiveSockets
<1>2. Http!StopsWhenEmpty /\ Http!SocketsOwned
  BY WhenEmpty DEF Http!SocketsOwned
<1>3. HandlersRun /\ OwnersFollow /\ SocketsKept
  BY DEF HandlersRun, OwnersFollow, SocketsKept
<1> QED BY <1>1, <1>2, <1>3 DEF ServerInv, Http!Consistent

\* Who answers is a handler that is logged in, or none of them.
LEMMA Answering ==
    ASSUME ServerInv, NEW r \in Resources, NEW a \in Http!Answers(r)
    PROVE  /\ a \in Handlers \cup {Server, Nobody}
           /\ a \in Handlers => a \in handlers /\ owner[a] = "RUNNING" /\ slevel = "RUNNING"
<1>1. handlers \subseteq Handlers /\ Server \notin Handlers /\ Nobody \notin Handlers
  BY MCHttpAssumption DEF ServerInv, Http!Consistent, Http!TypeOK, Http!HttpServerAssumption
<1>2. a \in handlers \/ a \in {Server, Nobody}
  BY DEF Http!Answers
<1>3. slevel \in {"CONSTRUCTED", "RUNNING", "STOPPING", "STOPPED"}
  BY DEF ServerInv, Http!Consistent, Http!TypeOK
<1> QED BY <1>1, <1>2, <1>3 DEF ServerInv, HandlersRun, OwnersFollow

\* Server and owners change their levels, and the sockets are closed.
LEMMA LevelsInv ==
    ASSUME ServerInv,
           \/ Http!HandleStarting \/ Http!RequestStop \/ Http!HandleStopping \/ Http!CheckShutdown
           \/ \E h \in Handlers : Http!Login(h) \/ Http!Logout(h)
    PROVE  ServerInv'
<1> USE DEF ServerInv, Http!Consistent, Http!TypeOK, Http!requests, Http!LiveListeners,
            Http!LiveConnections, Http!LiveSockets
<1>1. CASE Http!HandleStarting
  <2> USE <1>1 DEF Http!HandleStarting
  <2>1. Http!TypeOK'
    OBVIOUS
  <2>2. Http!StopsWhenEmpty'
    BY WhenEmpty, WhenEmptyNext DEF Empty
  <2>3. Http!SocketsOwned'
    BY DEF Http!SocketsOwned
  <2>4. HandlersRun' /\ OwnersFollow' /\ SocketsKept'
    BY DEF HandlersRun, OwnersFollow, SocketsKept
  <2> QED BY <2>1, <2>2, <2>3, <2>4
<1>2. CASE Http!RequestStop
  <2> USE <1>2 DEF Http!RequestStop
  <2>1. Http!TypeOK'
    OBVIOUS
  <2>2. Http!StopsWhenEmpty'
    BY WhenEmpty, WhenEmptyNext DEF Empty
  <2>3. Http!SocketsOwned'
    BY DEF Http!SocketsOwned
  <2>4. HandlersRun' /\ OwnersFollow' /\ SocketsKept'
    BY DEF HandlersRun, OwnersFollow, SocketsKept
  <2> QED BY <2>1, <2>2, <2>3, <2>4
<1>3. CASE Http!HandleStopping
  <2> USE <1>3 DEF Http!HandleStopping
  <2>1. Http!TypeOK'
    BY ZenonT(60)
  <2>2. Http!StopsWhenEmpty'
    BY WhenEmpty, WhenEmptyNext DEF Empty
  <2>3. Http!SocketsOwned'
    BY DEF Http!SocketsOwned
  <2>4. HandlersRun' /\ OwnersFollow' /\ SocketsKept'
    BY DEF HandlersRun, OwnersFollow, SocketsKept
  <2> QED BY <2>1, <2>2, <2>3, <2>4
<1>4. CASE Http!CheckShutdown
  <2> USE <1>4 DEF Http!CheckShutdown
  <2>1. Http!TypeOK'
    OBVIOUS
  <2>2. Empty' <=> Empty
    BY DEF Empty
  <2>3. slevel = "STOPPING" => handlers = {}
    BY DEF HandlersRun, OwnersFollow
  <2>4. Http!StopsWhenEmpty'
    BY WhenEmpty, WhenEmptyNext, <2>2, <2>3 DEF Empty
  <2>5. Http!SocketsOwned'
    BY DEF Http!SocketsOwned
  <2>6. HandlersRun' /\ OwnersFollow' /\ SocketsKept'
    BY DEF HandlersRun, OwnersFollow, SocketsKept
  <2> QED BY <2>1, <2>4, <2>5, <2>6
<1>5. ASSUME NEW h \in Handlers, Http!Login(h) PROVE ServerInv'
  <2> USE <1>5 DEF Http!Login
  <2>1. Http!TypeOK'
    OBVIOUS
  <2>2. Http!StopsWhenEmpty'
    BY WhenEmpty, WhenEmptyNext DEF Empty
  <2>3. Http!SocketsOwned'
    BY DEF Http!SocketsOwned, SocketsKept
  <2>4. HandlersRun' /\ OwnersFollow' /\ SocketsKept'
    BY DEF HandlersRun, OwnersFollow, SocketsKept
  <2> QED BY <2>1, <2>2, <2>3, <2>4
<1>6. ASSUME NEW h \in Handlers, Http!Logout(h) PROVE ServerInv'
  <2> USE <1>6 DEF Http!Logout, Http!SocketsClosed
  <2>1. Http!TypeOK'
    OBVIOUS
  <2>2. slevel = "RUNNING"
    BY DEF OwnersFollow
  <2>3. Http!StopsWhenEmpty'
    BY WhenEmptyNext, <2>2
  <2>4. Http!SocketsOwned'
    BY <2>2 DEF Http!SocketsOwned, SocketsKept
  <2>5. HandlersRun' /\ OwnersFollow' /\ SocketsKept'
    BY <2>2 DEF HandlersRun, OwnersFollow, SocketsKept
  <2> QED BY <2>1, <2>3, <2>4, <2>5
<1> QED BY <1>1, <1>2, <1>3, <1>4, <1>5, <1>6

\* Listeners accept, fail and stop.
LEMMA ListenersInv ==
    ASSUME ServerInv, NEW l \in Listeners,
           Http!Listen(l) \/ Http!AcceptStopped(l) \/ Http!EraseListener(l)
    PROVE  ServerInv'
<1> USE DEF ServerInv, Http!Consistent, Http!TypeOK, Http!requests, Http!LiveListeners,
            Http!LiveConnections, Http!LiveSockets
<1>1. CASE Http!AddServer(l)
  <2> USE <1>1 DEF Http!AddServer
  <2>1. Http!TypeOK'
    OBVIOUS
  <2>2. Http!StopsWhenEmpty'
    BY WhenEmpty, WhenEmptyNext DEF Empty, Http!NoListeners, Http!NoConnections, Http!NoSockets
  <2>3. Http!SocketsOwned'
    BY DEF Http!SocketsOwned, SocketsKept
  <2>4. HandlersRun' /\ OwnersFollow' /\ SocketsKept'
    BY DEF HandlersRun, OwnersFollow, SocketsKept
  <2> QED BY <2>1, <2>2, <2>3, <2>4
<1>2. CASE Http!AcceptFailed(l)
  <2> USE <1>2 DEF Http!AcceptFailed
  <2>1. Http!TypeOK'
    OBVIOUS
  <2>2. Http!StopsWhenEmpty'
    BY WhenEmpty, WhenEmptyNext DEF Empty, Http!NoListeners, Http!NoConnections, Http!NoSockets
  <2>3. Http!SocketsOwned'
    BY DEF Http!SocketsOwned, SocketsKept
  <2>4. HandlersRun' /\ OwnersFollow' /\ SocketsKept'
    BY DEF HandlersRun, OwnersFollow, SocketsKept
  <2> QED BY <2>1, <2>2, <2>3, <2>4
<1>3. ASSUME NEW c \in Connections, Http!Accepted(l, c) PROVE ServerInv'
  <2> USE <1>3 DEF Http!Accepted
  <2>1. Http!TypeOK'
    OBVIOUS
  <2>2. Http!StopsWhenEmpty'
    BY WhenEmpty, WhenEmptyNext DEF Empty, Http!NoListeners, Http!NoConnections, Http!NoSockets
  <2>3. Http!SocketsOwned'
    BY DEF Http!SocketsOwned, SocketsKept
  <2>4. HandlersRun' /\ OwnersFollow' /\ SocketsKept'
    BY DEF HandlersRun, OwnersFollow, SocketsKept
  <2> QED BY <2>1, <2>2, <2>3, <2>4
<1>4. CASE Http!AcceptStopped(l)
  <2> USE <1>4 DEF Http!AcceptStopped
  <2>1. Http!TypeOK'
    OBVIOUS
  <2>2. Http!StopsWhenEmpty'
    BY WhenEmpty, WhenEmptyNext DEF Empty, Http!NoListeners, Http!NoConnections, Http!NoSockets
  <2>3. Http!SocketsOwned'
    BY DEF Http!SocketsOwned, SocketsKept
  <2>4. HandlersRun' /\ OwnersFollow' /\ SocketsKept'
    BY DEF HandlersRun, OwnersFollow, SocketsKept
  <2> QED BY <2>1, <2>2, <2>3, <2>4
<1>5. CASE Http!EraseListener(l)
  <2> USE <1>5 DEF Http!EraseListener
  <2>1. Http!TypeOK'
    OBVIOUS
  <2>2. Http!StopsWhenEmpty'
    BY WhenEmpty, WhenEmptyNext DEF Empty, Http!NoListeners, Http!NoConnections, Http!NoSockets
  <2>3. Http!SocketsOwned'
    BY DEF Http!SocketsOwned, SocketsKept
  <2>4. HandlersRun' /\ OwnersFollow' /\ SocketsKept'
    BY DEF HandlersRun, OwnersFollow, SocketsKept
  <2> QED BY <2>1, <2>2, <2>3, <2>4
<1> QED BY <1>1, <1>2, <1>3, <1>4, <1>5 DEF Http!Listen

\* Connections read, write, become web sockets and end.
LEMMA ConnectionsInv ==
    ASSUME ServerInv, NEW c \in Connections,
           \/ Http!Serve(c) \/ Http!ConnectionClosed(c) \/ Http!WebSocketClosed(c)
           \/ Http!EraseConnection(c) \/ Http!EraseSocket(c)
    PROVE  ServerInv'
<1> USE DEF ServerInv, Http!Consistent, Http!TypeOK, Http!requests, Http!LiveListeners,
            Http!LiveConnections, Http!LiveSockets
<1>1. CASE Http!OnWrite(c)
  <2> USE <1>1 DEF Http!OnWrite
  <2>1. Http!TypeOK'
    OBVIOUS
  <2>2. Http!StopsWhenEmpty'
    BY WhenEmpty, WhenEmptyNext DEF Empty, Http!NoListeners, Http!NoConnections, Http!NoSockets
  <2>3. Http!SocketsOwned'
    BY DEF Http!SocketsOwned, SocketsKept
  <2>4. HandlersRun' /\ OwnersFollow' /\ SocketsKept'
    BY DEF HandlersRun, OwnersFollow, SocketsKept
  <2> QED BY <2>1, <2>2, <2>3, <2>4
<1>2. CASE Http!SocketFailed(c)
  <2> USE <1>2 DEF Http!SocketFailed
  <2>1. Http!TypeOK'
    OBVIOUS
  <2>2. Http!StopsWhenEmpty'
    BY WhenEmpty, WhenEmptyNext DEF Empty, Http!NoListeners, Http!NoConnections, Http!NoSockets
  <2>3. Http!SocketsOwned'
    BY DEF Http!SocketsOwned, SocketsKept
  <2>4. HandlersRun' /\ OwnersFollow' /\ SocketsKept'
    BY DEF HandlersRun, OwnersFollow, SocketsKept
  <2> QED BY <2>1, <2>2, <2>3, <2>4
<1>3. ASSUME NEW r \in Resources, Http!OnRead(c, r) PROVE ServerInv'
  <2> USE <1>3 DEF Http!OnRead
  <2>1. Http!TypeOK'
    BY Answering
  <2>2. Http!StopsWhenEmpty'
    BY WhenEmpty, WhenEmptyNext DEF Empty, Http!NoListeners, Http!NoConnections, Http!NoSockets
  <2>3. Http!SocketsOwned'
    BY DEF Http!SocketsOwned, SocketsKept
  <2>4. HandlersRun' /\ OwnersFollow' /\ SocketsKept'
    BY DEF HandlersRun, OwnersFollow, SocketsKept
  <2> QED BY <2>1, <2>2, <2>3, <2>4
<1>4. ASSUME NEW r \in Resources, Http!Upgrade(c, r) PROVE ServerInv'
  <2> USE <1>4 DEF Http!Upgrade, Http!SocketsClosed
  <2>1. PICK h \in Http!Answers(r) \cap Handlers : /\ by' = [by EXCEPT ![c] = h]
                                                   /\ ws' = [Http!SocketsClosed(h, ws) EXCEPT ![c] = "open"]
    OBVIOUS
  <2>2. h \in Handlers /\ owner[h] = "RUNNING" /\ slevel = "RUNNING"
    BY Answering
  <2>3. ws[c] = "none"
    BY DEF SocketsKept
  <2>4. \A d \in Connections \ {c} :
            by'[d] = by[d] /\ ws'[d] = IF by[d] = h /\ ws[d] = "open" THEN "closing" ELSE ws[d]
    BY <2>1
  <2>5. by'[c] = h /\ ws'[c] = "open"
    BY <2>1
  <2>6. Http!TypeOK'
    BY <2>1, <2>2
  <2>7. Http!StopsWhenEmpty'
    BY WhenEmptyNext, <2>2
  <2>8. Http!SocketsOwned'
    BY <2>2, <2>4, <2>5 DEF Http!SocketsOwned, SocketsKept
  <2>9. HandlersRun' /\ OwnersFollow'
    BY DEF HandlersRun, OwnersFollow
  <2>10. SocketsKept'
    BY <2>2, <2>4, <2>5 DEF SocketsKept
  <2> QED BY <2>6, <2>7, <2>8, <2>9, <2>10
<1>5. CASE Http!ConnectionClosed(c)
  <2> USE <1>5 DEF Http!ConnectionClosed
  <2>1. Http!TypeOK'
    OBVIOUS
  <2>2. Http!StopsWhenEmpty'
    BY WhenEmpty, WhenEmptyNext DEF Empty, Http!NoListeners, Http!NoConnections, Http!NoSockets
  <2>3. Http!SocketsOwned'
    BY DEF Http!SocketsOwned, SocketsKept
  <2>4. HandlersRun' /\ OwnersFollow' /\ SocketsKept'
    BY DEF HandlersRun, OwnersFollow, SocketsKept
  <2> QED BY <2>1, <2>2, <2>3, <2>4
<1>6. CASE Http!WebSocketClosed(c)
  <2> USE <1>6 DEF Http!WebSocketClosed
  <2>1. Http!TypeOK'
    OBVIOUS
  <2>2. Http!StopsWhenEmpty'
    BY WhenEmpty, WhenEmptyNext DEF Empty, Http!NoListeners, Http!NoConnections, Http!NoSockets
  <2>3. Http!SocketsOwned'
    BY DEF Http!SocketsOwned, SocketsKept
  <2>4. HandlersRun' /\ OwnersFollow' /\ SocketsKept'
    BY DEF HandlersRun, OwnersFollow, SocketsKept
  <2> QED BY <2>1, <2>2, <2>3, <2>4
<1>7. CASE Http!EraseConnection(c)
  <2> USE <1>7 DEF Http!EraseConnection
  <2>1. Http!TypeOK'
    OBVIOUS
  <2>2. Http!StopsWhenEmpty'
    BY WhenEmpty, WhenEmptyNext DEF Empty, Http!NoListeners, Http!NoConnections, Http!NoSockets
  <2>3. Http!SocketsOwned'
    BY DEF Http!SocketsOwned, SocketsKept
  <2>4. HandlersRun' /\ OwnersFollow' /\ SocketsKept'
    BY DEF HandlersRun, OwnersFollow, SocketsKept
  <2> QED BY <2>1, <2>2, <2>3, <2>4
<1>8. CASE Http!EraseSocket(c)
  <2> USE <1>8 DEF Http!EraseSocket
  <2>1. Http!TypeOK'
    OBVIOUS
  <2>2. Http!StopsWhenEmpty'
    BY WhenEmpty, WhenEmptyNext DEF Empty, Http!NoListeners, Http!NoConnections, Http!NoSockets
  <2>3. Http!SocketsOwned'
    BY DEF Http!SocketsOwned, SocketsKept
  <2>4. HandlersRun' /\ OwnersFollow' /\ SocketsKept'
    BY DEF HandlersRun, OwnersFollow, SocketsKept
  <2> QED BY <2>1, <2>2, <2>3, <2>4
<1> QED BY <1>1, <1>2, <1>3, <1>4, <1>5, <1>6, <1>7, <1>8 DEF Http!Serve

\* Every step of the server, its owners and its peers keeps the invariant.
LEMMA ServerNextInv == ServerInv /\ [Http!Next]_(Http!vars) => ServerInv'
<1> SUFFICES ASSUME ServerInv, [Http!Next]_(Http!vars) PROVE ServerInv'
  OBVIOUS
<1>1. ASSUME UNCHANGED Http!vars PROVE ServerInv'
  <2> USE <1>1 DEF Http!vars, Http!requests
  <2>1. Http!TypeOK'
    BY DEF ServerInv, Http!Consistent, Http!TypeOK
  <2>2. Http!StopsWhenEmpty' /\ Http!SocketsOwned'
    BY WhenEmpty, WhenEmptyNext DEF ServerInv, Http!Consistent, Http!SocketsOwned, Empty
  <2>3. HandlersRun' /\ OwnersFollow' /\ SocketsKept'
    BY DEF ServerInv, HandlersRun, OwnersFollow, SocketsKept
  <2> QED BY <2>1, <2>2, <2>3 DEF ServerInv, Http!Consistent
<1> QED BY <1>1, LevelsInv, ListenersInv, ConnectionsInv DEF Http!Next

LEMMA ServerInvariance == Http!Spec => []ServerInv
BY ServerInitInv, ServerNextInv, PTL DEF Http!Spec

\* Whatever ends in whatever order, a server that stops waits for all of it and is told of
\* the last, and an open web socket is the only one of an owner that still runs.
THEOREM ServerStaysConsistent == Http!Spec => []Http!Consistent
<1>1. ServerInv => Http!Consistent
  BY DEF ServerInv
<1> QED BY <1>1, ServerInvariance, PTL


\* The handler that answers has the longest prefix of those that fit.
LEMMA Longest ==
    ASSUME ServerInv, NEW r \in Resources, NEW a \in Http!Answers(r),
           NEW h \in handlers, Http!IsPrefix(Prefix[h], r)
    PROVE  a \in handlers /\ Http!IsPrefix(Prefix[a], r) /\ Len(Prefix[a]) >= Len(Prefix[h])
<1> DEFINE matching == {k \in handlers : Http!IsPrefix(Prefix[k], r)}
<1>1. a \in matching /\ \A k \in matching \ {a} : Http!Before(a, k)
  BY DEF Http!Answers
<1>2. Prefix \in [Handlers -> Seq(Nat)] /\ handlers \subseteq Handlers
  BY MCHttpAssumption DEF ServerInv, Http!Consistent, Http!TypeOK, Http!HttpServerAssumption
<1>3. Len(Prefix[a]) \in Nat /\ Len(Prefix[h]) \in Nat
  BY <1>1, <1>2
<1>4. Len(Prefix[a]) >= Len(Prefix[h])
  <2>1. CASE a = h
    BY <1>3, <2>1
  <2>2. CASE a # h
    BY <1>1, <1>3, <2>2 DEF Http!Before
  <2> QED BY <2>1, <2>2
<1> QED BY <1>1, <1>4

\* Whatever handlers are logged in, in whatever order, a request is answered by the one
\* with the longest prefix that fits (RequestHandlerOrder, HandleRequest).
THEOREM LongestPrefixAnswers == Http!Spec => Http!LongestPrefixFirst
<1>1. ASSUME ServerInv, [Http!Next]_(Http!vars) PROVE [Http!LongestAnswers]_(Http!vars)
  <2> SUFFICES ASSUME NEW c \in Connections, NEW h \in handlers,
                      conn[c] = "reading", request'[c] # request[c],
                      Http!IsPrefix(Prefix[h], request'[c])
               PROVE  /\ by'[c] \in handlers /\ Http!IsPrefix(Prefix[by'[c]], request'[c])
                      /\ Len(Prefix[by'[c]]) >= Len(Prefix[h])
    BY DEF Http!LongestAnswers
  <2>1. request \in [Connections -> Resources \cup {<<>>}] /\ by \in [Connections -> Handlers \cup {Server, Nobody}]
    BY <1>1 DEF ServerInv, Http!Consistent, Http!TypeOK
  <2>2. \E r \in Resources : \E a \in Http!Answers(r) : request'[c] = r /\ by'[c] = a
    <3>1. CASE \E d \in Connections : Http!Serve(d)
      <4>1. PICK d \in Connections : Http!Serve(d)
        BY <3>1
      <4>2. ASSUME Http!OnWrite(d) PROVE FALSE
        BY <2>1, <4>2 DEF Http!OnWrite
      <4>3. ASSUME Http!SocketFailed(d) PROVE FALSE
        BY <4>3 DEF Http!SocketFailed, Http!requests
      <4>4. PICK r \in Resources : Http!OnRead(d, r) \/ Http!Upgrade(d, r)
        BY <4>1, <4>2, <4>3 DEF Http!Serve
      <4>5. d = c /\ request'[c] = r /\ \E a \in Http!Answers(r) : by'[c] = a
        BY <2>1, <4>4 DEF Http!OnRead, Http!Upgrade
      <4> QED BY <4>5
    <3>2. CASE ~\E d \in Connections : Http!Serve(d)
      BY <1>1, <3>2 DEF Http!Next, Http!vars, Http!requests, Http!HandleStarting, Http!RequestStop,
         Http!HandleStopping, Http!CheckShutdown, Http!Login, Http!Logout, Http!Listen, Http!AddServer,
         Http!AcceptFailed, Http!Accepted, Http!AcceptStopped, Http!EraseListener,
         Http!ConnectionClosed, Http!WebSocketClosed, Http!EraseConnection, Http!EraseSocket
    <3> QED BY <3>1, <3>2
  <2> QED BY <1>1, <2>2, Longest
<1> QED BY <1>1, ServerInvariance, PTL DEF Http!Spec, Http!LongestPrefixFirst

-----------------------------------------------------------------------------
\* The debug web site.

\* While a page is accepted nothing has been asked for.
AskedLater == socket = "accepting" => asked = Site!Nothing

SiteInv == Site!Consistent /\ AskedLater

LEMMA NothingAsked ==
    /\ Site!Nothing \in [output : BOOLEAN, names : SUBSET Names]
    /\ Site!Nothing.output = FALSE /\ Site!Nothing.names = {}
BY DEF Site!Nothing

LEMMA SiteInitInv == Site!Init => SiteInv
<1> SUFFICES ASSUME Site!Init PROVE SiteInv
  OBVIOUS
<1>1. Site!TypeOK
  BY NothingAsked DEF Site!Init, Site!TypeOK
<1>2. Site!OnlyAsked /\ AskedLater
  BY DEF Site!Init, Site!OnlyAsked, AskedLater
<1> QED BY <1>1, <1>2 DEF SiteInv, Site!Consistent

\* Whatever it asks for, a page is sent only that, and switches on only what it names.
THEOREM SiteStaysConsistent == Site!Spec => []Site!Consistent
<1>1. ASSUME SiteInv, [Site!Next]_(Site!vars) PROVE SiteInv'
  <2> USE <1>1, NothingAsked, MCHttpAssumption DEF SiteInv, AskedLater, Site!Consistent, Site!TypeOK,
      Site!OnlyAsked, Site!control, Site!history, Site!DebugWebsiteAssumption
  <2>1. CASE Site!HandleWebSocketRequest
    BY <2>1 DEF Site!HandleWebSocketRequest, Site!HandleWebSocketState, Site!UpdateDebugEnables
  <2>2. CASE Site!Accepted
    BY <2>2 DEF Site!Accepted, Site!HandleWebSocketState, Site!UpdateDebugEnables
  <2>8. CASE Site!Fails
    BY <2>8 DEF Site!Fails, Site!HandleWebSocketState, Site!UpdateDebugEnables
  <2>3. CASE Site!Misunderstood
    BY <2>3 DEF Site!Misunderstood
  <2>9. CASE Site!HandleStopping
    BY <2>9 DEF Site!HandleStopping
  <2>4. CASE Site!OutputToTarget
    BY <2>4 DEF Site!OutputToTarget
  <2>5. ASSUME NEW on \in BOOLEAN, NEW names \in SUBSET Names, Site!EnableRequest(on, names)
        PROVE  SiteInv'
    BY <2>5 DEF Site!EnableRequest, Site!UpdateDebugEnables
  <2>6. ASSUME NEW d \in Path, Site!Construct(d) \/ Site!Destroy(d) PROVE SiteInv'
    BY <2>6 DEF Site!Construct, Site!Destroy
  <2>7. CASE UNCHANGED Site!vars
    BY <2>7 DEF Site!vars
  <2> QED BY <2>1, <2>2, <2>3, <2>4, <2>5, <2>6, <2>7, <2>8, <2>9 DEF Site!Next
<1>2. SiteInv => Site!Consistent
  BY DEF SiteInv
<1> QED BY <1>1, <1>2, SiteInitInv, PTL DEF Site!Spec

-----------------------------------------------------------------------------
\* The debug output.

\* The active output is the last async one; the parent of each async output is the one
\* before it; and the report of all of them is that of the first.
Nested ==
    /\ active = 0 => Streams!AsyncOutputs = {}
    /\ active # 0 => active \in Streams!AsyncOutputs /\ \A j \in Streams!AsyncOutputs : j <= active
    /\ \A i \in Streams!AsyncOutputs :
          /\ streams[i].parent \in Streams!AsyncOutputs \cup {0}
          /\ \A j \in Streams!AsyncOutputs : j < i => j <= streams[i].parent
          /\ streams[i].report \in Streams!AsyncOutputs
          /\ \A j \in Streams!AsyncOutputs : streams[i].report <= j
    /\ \A i \in 1 .. Streams!Top \ Streams!AsyncOutputs :
          /\ streams[i].parent = 0 => streams[i].report = i
          /\ streams[i].parent # 0 => streams[i].report = streams[i - 1].report

\* Each span lies in the text and has an output's type, each place of the text is in a
\* span, each span begins where the one before it ends, and the last ends with the text.
InSpan(s, j) == s.start < j /\ j <= s.start + s.length

Good(r) ==
    /\ \A k \in 1 .. Len(r.spans) :
          /\ r.spans[k].output \in 1 .. Len(r.outputs)
          /\ r.spans[k].start + r.spans[k].length <= Len(r.text)
          /\ \A j \in 1 .. Len(r.text) : InSpan(r.spans[k], j) => r.text[j] = r.outputs[r.spans[k].output]
    /\ \A j \in 1 .. Len(r.text) : \E k \in 1 .. Len(r.spans) : InSpan(r.spans[k], j)
    /\ \A k \in 1 .. Len(r.spans) - 1 : r.spans[k + 1].start = r.spans[k].start + r.spans[k].length
    /\ Len(r.spans) = 0 => Len(r.text) = 0
    /\ Len(r.spans) # 0 => r.spans[Len(r.spans)].start + r.spans[Len(r.spans)].length = Len(r.text)

StreamsInv == Streams!TypeOK /\ Nested /\ \A i \in 1 .. Streams!Top : Good(reports[i])

\* The fields of a report and of a span.
LEMMA SpanFields ==
    ASSUME NEW s \in Streams!Spans
    PROVE  s.output \in Nat /\ s.start \in Nat /\ s.length \in Nat
BY DEF Streams!Spans

LEMMA ReportFields ==
    ASSUME NEW r \in Streams!Reports
    PROVE  /\ r.outputs \in Seq(Mimes) /\ r.text \in Seq(Mimes) /\ r.spans \in Seq(Streams!Spans)
           /\ Len(r.outputs) \in Nat /\ Len(r.text) \in Nat /\ Len(r.spans) \in Nat
           /\ DOMAIN r.outputs = 1 .. Len(r.outputs) /\ DOMAIN r.text = 1 .. Len(r.text)
           /\ DOMAIN r.spans = 1 .. Len(r.spans)
           /\ \A k \in 1 .. Len(r.spans) :
                  r.spans[k].output \in Nat /\ r.spans[k].start \in Nat /\ r.spans[k].length \in Nat
<1>1. r.outputs \in Seq(Mimes) /\ r.text \in Seq(Mimes) /\ r.spans \in Seq(Streams!Spans)
  BY DEF Streams!Reports
<1>2. \A k \in 1 .. Len(r.spans) : r.spans[k] \in Streams!Spans
  BY <1>1
<1> QED BY <1>1, <1>2, SpanFields

LEMMA GoodIsWhole ==
    ASSUME NEW r \in Streams!Reports, Good(r)
    PROVE  Streams!Whole(r)
<1> DEFINE s(k) == r.spans[k]
<1>1. /\ Len(r.outputs) \in Nat /\ Len(r.text) \in Nat /\ Len(r.spans) \in Nat
      /\ DOMAIN r.text = 1 .. Len(r.text) /\ DOMAIN r.spans = 1 .. Len(r.spans)
      /\ \A k \in 1 .. Len(r.spans) : s(k).start \in Nat /\ s(k).length \in Nat
  BY ReportFields
<1>2. ASSUME NEW k \in 1 .. Len(r.spans), NEW j \in Streams!Covered(r, k)
      PROVE  j \in 1 .. Len(r.text) /\ r.text[j] = r.outputs[r.spans[k].output]
  <2>1. /\ j \in Int /\ s(k).start < j /\ j <= s(k).start + s(k).length
        /\ s(k).start + s(k).length <= Len(r.text)
    BY <1>1 DEF Streams!Covered, Good
  <2>2. j \in 1 .. Len(r.text)
    BY <1>1, <2>1
  <2> QED BY <2>1, <2>2 DEF Good, InSpan
<1>3. ASSUME NEW j \in 1 .. Len(r.text)
      PROVE  \E k \in 1 .. Len(r.spans) : j \in Streams!Covered(r, k)
  <2>1. PICK k \in 1 .. Len(r.spans) : s(k).start < j /\ j <= s(k).start + s(k).length
    BY DEF Good, InSpan
  <2>2. j \in Streams!Covered(r, k)
    BY <1>1, <2>1 DEF Streams!Covered
  <2> QED BY <2>2
<1>4. \A k \in 1 .. Len(r.spans) - 1 : r.spans[k + 1].start = r.spans[k].start + r.spans[k].length
  BY DEF Good
<1> QED BY <1>1, <1>2, <1>3, <1>4 DEF Streams!Whole

\* A piece of text that goes on in the last span, or in a new one, leaves a report good.
LEMMA StaysGood ==
    ASSUME NEW r \in Streams!Reports, Good(r), NEW q \in Streams!Reports, NEW n \in Nat \ {0},
           q.outputs = r.outputs,
           Len(q.text) = Len(r.text) + 1, \A j \in 1 .. Len(r.text) : q.text[j] = r.text[j],
           Len(q.spans) = n, n = Len(r.spans) \/ n = Len(r.spans) + 1,
           \A k \in 1 .. n - 1 : q.spans[k] = r.spans[k],
           q.spans[n].output \in 1 .. Len(r.outputs),
           q.text[Len(r.text) + 1] = r.outputs[q.spans[n].output],
           q.spans[n].start + q.spans[n].length = Len(r.text) + 1,
           n = Len(r.spans) => q.spans[n].start = r.spans[n].start /\ q.spans[n].output = r.spans[n].output,
           n = Len(r.spans) + 1 => q.spans[n].start = Len(r.text)
    PROVE  Good(q)
<1> DEFINE L == Len(r.text)
           N == Len(r.spans)
<1>1. L \in Nat /\ N \in Nat /\ Len(q.text) = L + 1 /\ Len(q.spans) = n /\ (n = N \/ n = N + 1)
  BY ReportFields
<1>2. /\ \A k \in 1 .. N : r.spans[k].start \in Nat /\ r.spans[k].length \in Nat
      /\ \A k \in 1 .. n : q.spans[k].start \in Nat /\ q.spans[k].length \in Nat
  BY ReportFields
<1>3. \A k \in 1 .. n - 1 : k \in 1 .. N
  BY <1>1
<1> HIDE DEF L, N
<1>4. /\ \A k \in 1 .. N : /\ r.spans[k].output \in 1 .. Len(r.outputs)
                            /\ r.spans[k].start + r.spans[k].length <= L
                            /\ \A j \in 1 .. L : InSpan(r.spans[k], j) => r.text[j] = r.outputs[r.spans[k].output]
      /\ \A j \in 1 .. L : \E k \in 1 .. N : InSpan(r.spans[k], j)
      /\ \A k \in 1 .. N - 1 : r.spans[k + 1].start = r.spans[k].start + r.spans[k].length
      /\ N = 0 => L = 0
      /\ N # 0 => r.spans[N].start + r.spans[N].length = L
  BY DEF Good, L, N
<1>5. q.spans[n].start <= L /\ (n = N => \A j \in 1 .. L : InSpan(q.spans[n], j) <=> InSpan(r.spans[n], j))
  <2>1. CASE n = N
    <3>1. /\ q.spans[n].start = r.spans[n].start /\ r.spans[n].start + r.spans[n].length = L
          /\ q.spans[n].start + q.spans[n].length = L + 1
          /\ r.spans[n].start \in Nat /\ r.spans[n].length \in Nat
          /\ q.spans[n].length \in Nat
      BY <1>1, <1>2, <1>4, <2>1 DEF N, L
    <3> QED BY SMTT(30), <1>1, <3>1 DEF InSpan
  <2>2. CASE n # N
    BY <1>1, <2>2 DEF N, L
  <2> QED BY <2>1, <2>2
<1>6. ASSUME NEW k \in 1 .. n
      PROVE  /\ q.spans[k].output \in 1 .. Len(q.outputs)
             /\ q.spans[k].start + q.spans[k].length <= L + 1
  <2>1. CASE k = n
    BY <1>1, <2>1 DEF L
  <2>2. CASE k # n
    <3>1. k \in 1 .. n - 1 /\ k \in 1 .. N
      BY <1>1, <2>2
    <3>2. q.spans[k] = r.spans[k]
      BY <3>1
    <3>3. r.spans[k].start \in Nat /\ r.spans[k].length \in Nat /\ r.spans[k].start + r.spans[k].length <= L
      BY <1>2, <1>4, <3>1
    <3>4. r.spans[k].output \in 1 .. Len(r.outputs)
      BY <1>4, <3>1
    <3> QED BY SMTT(30), <1>1, <3>2, <3>3, <3>4
  <2> QED BY <2>1, <2>2
<1>7. ASSUME NEW k \in 1 .. n, NEW j \in 1 .. L + 1, InSpan(q.spans[k], j)
      PROVE  q.text[j] = q.outputs[q.spans[k].output]
  <2>1. CASE k # n
    <3>1. k \in 1 .. n - 1 /\ k \in 1 .. N
      BY <1>1, <2>1
    <3>2. j \in 1 .. L
      <4>1. InSpan(r.spans[k], j) /\ r.spans[k].start + r.spans[k].length <= L
        BY <1>4, <1>7, <3>1
      <4> QED BY SMTT(30), <1>1, <1>2, <3>1, <4>1 DEF InSpan
    <3> QED BY SMTT(30), <1>4, <1>7, <3>1, <3>2 DEF L
  <2>2. CASE k = n /\ j = L + 1
    BY <2>2 DEF L
  <2>3. CASE k = n /\ j # L + 1
    <3>1. j \in 1 .. L
      BY <1>1, <2>3
    <3>2. n = N
      <4>1. q.spans[n].start < L
        BY <1>1, <1>2, <1>7, <2>3, <3>1 DEF InSpan
      <4> QED BY <1>1, <4>1 DEF L, N
    <3>3. InSpan(r.spans[n], j) /\ q.spans[n].output = r.spans[n].output
      BY <1>5, <1>7, <2>3, <3>1, <3>2 DEF N
    <3> QED BY <1>4, <2>3, <3>1, <3>2, <3>3 DEF L
  <2> QED BY <2>1, <2>2, <2>3
<1>8. ASSUME NEW j \in 1 .. L + 1 PROVE \E k \in 1 .. n : InSpan(q.spans[k], j)
  <2>1. CASE j \in 1 .. L
    <3>1. PICK k \in 1 .. N : InSpan(r.spans[k], j)
      BY <1>4, <2>1
    <3>2. k \in 1 .. n
      BY <1>1
    <3>3. CASE k \in 1 .. n - 1
      BY <3>1, <3>2, <3>3
    <3>4. CASE k = n
      BY <1>5, <2>1, <3>1, <3>2, <3>4, <1>1
    <3> QED BY <1>1, <3>2, <3>3, <3>4
  <2>2. CASE j = L + 1
    <3>1. InSpan(q.spans[n], j)
      <4>1. q.spans[n].start + q.spans[n].length = L + 1
        BY DEF L
      <4> QED BY <1>1, <1>2, <1>5, <2>2, <4>1 DEF InSpan
    <3> QED BY <3>1
  <2> QED BY <1>1, <2>1, <2>2
<1>9. ASSUME NEW k \in 1 .. n - 1
      PROVE  q.spans[k + 1].start = q.spans[k].start + q.spans[k].length
  <2>1. k \in 1 .. N /\ q.spans[k] = r.spans[k]
    BY <1>3
  <2>2. CASE k + 1 # n
    <3>1. k + 1 \in 1 .. n - 1 /\ k \in 1 .. N - 1
      BY <1>1, <2>2
    <3> QED BY <1>4, <2>1, <3>1
  <2>3. CASE k + 1 = n /\ n = N
    <3>1. k \in 1 .. N - 1
      BY <1>1, <2>3
    <3> QED BY <1>4, <2>1, <2>3, <3>1 DEF N
  <2>4. CASE k + 1 = n /\ n = N + 1
    <3>1. k = N /\ N # 0
      BY <1>1, <2>4
    <3> QED BY <1>4, <2>1, <2>4, <3>1 DEF L, N
  <2> QED BY <1>1, <2>2, <2>3, <2>4
<1>10. q.spans[n].start + q.spans[n].length = L + 1
  BY DEF L
<1> QED BY <1>1, <1>6, <1>7, <1>8, <1>9, <1>10 DEF Good

\* The text that is written is whole with what there was.
LEMMA WrittenGood ==
    ASSUME NEW r \in Streams!Reports, Good(r), NEW s \in Streams!Stream, s.output \in 1 .. Len(r.outputs)
    PROVE  /\ Streams!Written(s, r) \in Streams!Reports /\ Good(Streams!Written(s, r))
           /\ Streams!Written(s, r).outputs = r.outputs
<1> DEFINE o == s.output
           L == Len(r.text)
           N == Len(r.spans)
           spans == Streams!SpansFor(s, r)
           n == Len(spans)
           last == Streams!Span(spans[n].output, spans[n].start, spans[n].length + 1)
           q == Streams!Written(s, r)
<1>1. L \in Nat /\ N \in Nat /\ r.spans \in Seq(Streams!Spans) /\ o \in Nat /\ r.text \in Seq(Mimes)
      /\ r.outputs \in Seq(Mimes) /\ Len(r.outputs) \in Nat
  BY ReportFields DEF Streams!Stream
<1>2. /\ spans \in Seq(Streams!Spans) /\ n \in Nat \ {0} /\ (n = N \/ n = N + 1)
      /\ \A k \in 1 .. N : spans[k] = r.spans[k]
      /\ spans[n].output = o /\ spans[n].start + spans[n].length = L
      /\ n = N + 1 => spans[n].start = L
  <2>1. CASE N # 0 /\ r.spans[N].output = o
    <3>1. spans = r.spans
      BY <1>1, <2>1 DEF Streams!SpansFor, Streams!Last
    <3>2. r.spans[N].start + r.spans[N].length = L
      BY <2>1 DEF Good
    <3> QED BY <1>1, <2>1, <3>1, <3>2
  <2>2. CASE ~(N # 0 /\ r.spans[N].output = o)
    <3> DEFINE e == Streams!Span(o, L, 0)
    <3>1. spans = Append(r.spans, e)
      BY <1>1, <2>2 DEF Streams!SpansFor, Streams!Last
    <3>2. e \in Streams!Spans /\ e.output = o /\ e.start = L /\ e.length = 0
      BY <1>1 DEF Streams!Span, Streams!Spans
    <3> HIDE DEF e
    <3>3. n = N + 1 /\ spans[n] = e /\ \A k \in 1 .. N : spans[k] = r.spans[k]
      BY <1>1, <3>1, <3>2
    <3>4. spans \in Seq(Streams!Spans)
      BY <1>1, <3>1, <3>2
    <3>5. n \in Nat \ {0} /\ L + 0 = L
      BY <1>1, <3>3
    <3> HIDE DEF n, spans
    <3> QED BY <3>2, <3>3, <3>4, <3>5
  <2> QED BY <2>1, <2>2
<1>3. q = Streams!Report(r.outputs, Append(r.text, r.outputs[o]), [spans EXCEPT ![n] = last])
  BY DEF Streams!Written
<1> HIDE DEF spans, n, o
<1>4. spans[n] \in Streams!Spans /\ spans[n].start \in Nat /\ spans[n].length \in Nat
  <2>1. n \in 1 .. Len(spans)
    BY <1>2 DEF n
  <2>2. spans[n] \in Streams!Spans
    BY <1>2, <2>1
  <2> QED BY <2>2, SpanFields
<1>5. /\ last \in Streams!Spans /\ last.output = o /\ last.start = spans[n].start
      /\ last.length = spans[n].length + 1
  <2>1. last = [output |-> spans[n].output, start |-> spans[n].start, length |-> spans[n].length + 1]
    BY DEF Streams!Span
  <2>2. spans[n].output \in Nat /\ spans[n].start \in Nat /\ spans[n].length + 1 \in Nat
    BY <1>1, <1>2, <1>4
  <2>3. last \in Streams!Spans
    BY <2>1, <2>2 DEF Streams!Spans
  <2> QED BY <1>2, <2>1, <2>3
<1> HIDE DEF last
<1>6. last.start + last.length = L + 1
  <2>1. \A x \in Nat, y \in Nat : x + (y + 1) = (x + y) + 1
    OBVIOUS
  <2> QED BY <1>2, <1>4, <1>5, <2>1
<1> DEFINE grown == [spans EXCEPT ![n] = last]
<1>7. /\ grown \in Seq(Streams!Spans) /\ Len(grown) = n /\ grown[n] = last
      /\ \A k \in 1 .. n - 1 : grown[k] = spans[k]
  BY <1>2, <1>5 DEF n
<1>8. r.outputs[o] \in Mimes
  BY <1>1 DEF o
<1> DEFINE text == Append(r.text, r.outputs[o])
<1>9. /\ text \in Seq(Mimes) /\ Len(text) = L + 1 /\ text[L + 1] = r.outputs[o]
      /\ \A j \in 1 .. L : text[j] = r.text[j]
  BY <1>1, <1>8
<1> HIDE DEF grown, text
<1>10. q = Streams!Report(r.outputs, text, grown)
  BY <1>3 DEF text, grown
<1>11. q.outputs = r.outputs /\ q.text = text /\ q.spans = grown
  BY <1>10 DEF Streams!Report
<1>12. q \in Streams!Reports
  BY <1>1, <1>7, <1>9, <1>10 DEF Streams!Report, Streams!Reports
<1>13. \A k \in 1 .. n - 1 : grown[k] = r.spans[k]
  BY <1>1, <1>2, <1>7
<1>14. n = N => grown[n].start = r.spans[n].start /\ grown[n].output = r.spans[n].output
  BY <1>1, <1>2, <1>5, <1>7
<1>15. n = N + 1 => grown[n].start = L
  BY <1>2, <1>5, <1>7
<1> HIDE DEF q
<1>16. Good(q)
  BY <1>2, <1>5, <1>6, <1>7, <1>9, <1>11, <1>12, <1>13, <1>14, <1>15, StaysGood DEF o
<1> QED BY <1>11, <1>12, <1>16 DEF q

\* One more output in a report changes nothing of its text.
LEMMA OutputGood ==
    ASSUME NEW r \in Streams!Reports, Good(r), NEW m \in Mimes,
           NEW q, q = Streams!Report(Append(r.outputs, m), r.text, r.spans)
    PROVE  /\ q \in Streams!Reports /\ Good(q) /\ Len(q.outputs) = Len(r.outputs) + 1
<1>1. q.outputs = Append(r.outputs, m) /\ q.text = r.text /\ q.spans = r.spans
  BY DEF Streams!Report
<1>2. r.outputs \in Seq(Mimes) /\ r.text \in Seq(Mimes) /\ r.spans \in Seq(Streams!Spans)
      /\ Len(r.outputs) \in Nat
  BY ReportFields
<1>3. /\ q.outputs \in Seq(Mimes) /\ Len(q.outputs) = Len(r.outputs) + 1
      /\ \A i \in 1 .. Len(r.outputs) : i \in 1 .. Len(q.outputs) /\ q.outputs[i] = r.outputs[i]
  BY <1>1, <1>2
<1>4. q \in Streams!Reports
  BY <1>1, <1>2, <1>3 DEF Streams!Report, Streams!Reports
<1>5. Good(q)
  BY <1>1, <1>3 DEF Good
<1> QED BY <1>3, <1>4, <1>5

\* A report that has begun.
LEMMA NewGood == Streams!NewReport \in Streams!Reports /\ Good(Streams!NewReport)
<1>1. /\ Streams!NewReport.outputs = <<>> /\ Streams!NewReport.text = <<>>
      /\ Streams!NewReport.spans = <<>>
  BY DEF Streams!NewReport, Streams!Report
<1>2. Streams!NewReport \in Streams!Reports
  BY DEF Streams!NewReport, Streams!Report, Streams!Reports
<1>3. Good(Streams!NewReport)
  BY <1>1 DEF Good
<1> QED BY <1>2, <1>3

\* The types, one by one.
LEMMA StreamTypes ==
    ASSUME Streams!TypeOK
    PROVE  /\ streams \in Seq(Streams!Stream) /\ reports \in Seq(Streams!Reports)
           /\ Len(reports) = Streams!Top /\ Streams!Top \in Nat /\ Streams!Top = Len(streams)
           /\ active \in 0 .. Streams!Top
           /\ \A i \in 1 .. Streams!Top :
                 /\ streams[i] \in Streams!Stream /\ reports[i] \in Streams!Reports
                 /\ streams[i].kind \in {"async", "user"} /\ streams[i].parent \in 0 .. i - 1
                 /\ streams[i].report \in 1 .. i /\ streams[i].report \in 1 .. Streams!Top
                 /\ streams[i].output \in Nat
                 /\ streams[i].output \in 1 .. Len(reports[streams[i].report].outputs)
<1>1. /\ streams \in Seq(Streams!Stream) /\ reports \in Seq(Streams!Reports)
      /\ Len(reports) = Streams!Top /\ Streams!Top \in Nat /\ Streams!Top = Len(streams)
      /\ active \in 0 .. Streams!Top
  BY DEF Streams!TypeOK, Streams!Top
<1>2. ASSUME NEW i \in 1 .. Streams!Top
      PROVE  /\ streams[i] \in Streams!Stream /\ reports[i] \in Streams!Reports
             /\ streams[i].parent \in 0 .. i - 1 /\ streams[i].report \in 1 .. i
             /\ streams[i].output \in DOMAIN reports[streams[i].report].outputs
  BY <1>1 DEF Streams!TypeOK
<1>3. ASSUME NEW i \in 1 .. Streams!Top
      PROVE  streams[i].kind \in {"async", "user"} /\ streams[i].output \in Nat
  BY <1>2 DEF Streams!Stream
<1>4. ASSUME NEW i \in 1 .. Streams!Top PROVE streams[i].report \in 1 .. Streams!Top
  BY <1>1, <1>2
<1>5. ASSUME NEW i \in 1 .. Streams!Top
      PROVE  streams[i].output \in 1 .. Len(reports[streams[i].report].outputs)
  BY <1>2, <1>4, ReportFields
<1> QED BY <1>1, <1>2, <1>3, <1>4, <1>5

\* What opening an output does to those that are open and their reports.
LEMMA OpenedIs ==
    ASSUME StreamsInv, NEW kind \in {"async", "user"}, NEW parent \in 0 .. Streams!Top,
           NEW r \in 1 .. Streams!Top + 1, NEW m \in Mimes,
           Streams!Opened(kind, parent, r, m), active' \in 0 .. Streams!Top + 1
    PROVE  /\ Streams!TypeOK' /\ (\A i \in 1 .. Streams!Top : Good(reports[i]))'
           /\ Streams!Top' = Streams!Top + 1
           /\ \A i \in 1 .. Streams!Top : streams'[i] = streams[i]
           /\ streams'[Streams!Top + 1].kind = kind /\ streams'[Streams!Top + 1].parent = parent
           /\ streams'[Streams!Top + 1].report = r
<1> DEFINE T == Streams!Top
           begun == Append(reports, Streams!NewReport)
           q == Streams!Report(Append(begun[r].outputs, m), begun[r].text, begun[r].spans)
           s == [kind |-> kind, parent |-> parent, report |-> r, output |-> Len(begun[r].outputs) + 1]
<1>1. /\ streams \in Seq(Streams!Stream) /\ reports \in Seq(Streams!Reports) /\ Len(reports) = T
      /\ T \in Nat /\ T = Len(streams)
  BY StreamTypes DEF StreamsInv
<1>2. /\ begun \in Seq(Streams!Reports) /\ Len(begun) = T + 1 /\ begun[T + 1] = Streams!NewReport
      /\ \A i \in 1 .. T : begun[i] = reports[i]
  BY <1>1, NewGood
<1>3. reports' = [begun EXCEPT ![r] = q] /\ streams' = Append(streams, s)
  BY DEF Streams!Opened
<1> HIDE DEF begun
<1>4. \A i \in 1 .. T + 1 : begun[i] \in Streams!Reports /\ Good(begun[i])
  <2>1. \A i \in 1 .. T : Good(reports[i])
    BY DEF StreamsInv
  <2>2. \A i \in 1 .. T + 1 : i \in 1 .. T \/ i = T + 1
    BY <1>1
  <2>3. \A i \in 1 .. T + 1 : Good(begun[i])
    BY <1>2, <2>1, <2>2, NewGood
  <2>4. \A i \in 1 .. T + 1 : begun[i] \in Streams!Reports
    BY <1>2
  <2> QED BY <2>3, <2>4
<1>5. q \in Streams!Reports /\ Good(q) /\ Len(q.outputs) = Len(begun[r].outputs) + 1
      /\ Len(begun[r].outputs) \in Nat
  BY <1>4, OutputGood, ReportFields
<1>6. s \in Streams!Stream
  BY <1>1, <1>5 DEF Streams!Stream
<1>7. s.kind = kind /\ s.parent = parent /\ s.report = r /\ s.output = Len(begun[r].outputs) + 1
  OBVIOUS
<1> HIDE DEF q, s
<1>8. /\ reports' \in Seq(Streams!Reports) /\ Len(reports') = T + 1 /\ reports'[r] = q
      /\ \A i \in 1 .. T + 1 : i # r => reports'[i] = begun[i]
  BY <1>1, <1>2, <1>3, <1>5
<1>9. /\ streams' \in Seq(Streams!Stream) /\ Len(streams') = T + 1 /\ streams'[T + 1] = s
      /\ \A i \in 1 .. T : streams'[i] = streams[i]
  BY <1>1, <1>3, <1>6
<1>10. Streams!Top' = T + 1
  BY <1>9 DEF Streams!Top
<1>11. \A i \in 1 .. T + 1 : Good(reports'[i])
  BY <1>4, <1>5, <1>8
<1>12. ASSUME NEW i \in 1 .. T + 1
       PROVE  /\ streams'[i].parent \in 0 .. i - 1 /\ streams'[i].report \in 1 .. i
              /\ streams'[i].output \in DOMAIN reports'[streams'[i].report].outputs
  <2>1. CASE i = T + 1
    <3>1. s.parent \in 0 .. i - 1 /\ s.report \in 1 .. i
      BY <1>1, <1>7, <2>1
    <3>2. DOMAIN q.outputs = 1 .. Len(q.outputs)
      BY <1>5, ReportFields
    <3>3. s.output \in DOMAIN q.outputs
      BY <1>5, <1>7, <3>2
    <3> QED BY <1>7, <1>8, <1>9, <2>1, <3>1, <3>3
  <2>2. CASE i \in 1 .. T
    <3> DEFINE p == streams[i].report
    <3>1. /\ streams[i].parent \in 0 .. i - 1 /\ p \in 1 .. i /\ p \in 1 .. T
          /\ streams[i].output \in 1 .. Len(reports[p].outputs)
      BY <2>2, StreamTypes DEF StreamsInv
    <3>2. p \in 1 .. T + 1 /\ begun[p] = reports[p] /\ begun[p] \in Streams!Reports
      BY <1>1, <1>2, <1>4, <3>1
    <3>3. DOMAIN begun[p].outputs = 1 .. Len(begun[p].outputs) /\ DOMAIN q.outputs = 1 .. Len(q.outputs)
      BY <1>5, <3>2, ReportFields
    <3>4. streams[i].output \in DOMAIN reports'[p].outputs
      <4>1. CASE p = r
        BY SMTT(30), <1>5, <1>8, <3>1, <3>2, <3>3, <4>1
      <4>2. CASE p # r
        BY <1>8, <3>1, <3>2, <3>3, <4>2
      <4> QED BY <4>1, <4>2
    <3> QED BY <1>9, <2>2, <3>1, <3>4
  <2> QED BY <1>1, <2>1, <2>2
<1>13. Streams!TypeOK'
  BY <1>8, <1>9, <1>10, <1>12 DEF Streams!TypeOK
<1> QED BY <1>7, <1>9, <1>10, <1>11, <1>13

\* An async output that is opened on the active one, or a user's on none or on the last,
\* nests as well.
LEMMA OpenNests ==
    ASSUME StreamsInv, Streams!TypeOK', NEW kind, NEW parent, NEW r,
           Streams!Top' = Streams!Top + 1, \A i \in 1 .. Streams!Top : streams'[i] = streams[i],
           streams'[Streams!Top + 1].kind = kind, streams'[Streams!Top + 1].parent = parent,
           streams'[Streams!Top + 1].report = r,
           \/ /\ kind = "async" /\ parent = active /\ active' = Streams!Top + 1
              /\ r = IF active = 0 THEN Streams!Top + 1 ELSE streams[active].report
           \/ /\ kind = "user" /\ active' = active
              /\ \/ parent = 0 /\ r = Streams!Top + 1
                 \/ parent = Streams!Top /\ parent # 0 /\ r = streams[Streams!Top].report
    PROVE  Nested'
<1> DEFINE T == Streams!Top
           A == Streams!AsyncOutputs
<1>1. /\ T \in Nat /\ active \in 0 .. T
      /\ \A i \in 1 .. T : /\ streams[i].kind \in {"async", "user"} /\ streams[i].parent \in 0 .. i - 1
                           /\ streams[i].report \in 1 .. i
  BY StreamTypes DEF StreamsInv
<1>2. A = {i \in 1 .. T : streams[i].kind = "async"}
  BY DEF Streams!AsyncOutputs
<1>3. Streams!AsyncOutputs' = {i \in 1 .. T + 1 : streams'[i].kind = "async"}
  BY DEF Streams!AsyncOutputs
<1>4. Nested
  BY DEF StreamsInv
<1>5. \A i \in 1 .. T + 1 : i \in 1 .. T \/ i = T + 1
  BY <1>1
<1>6. CASE kind = "async"
  <2>1. Streams!AsyncOutputs' = A \cup {T + 1}
    BY <1>1, <1>2, <1>3, <1>5, <1>6
  <2>2. /\ parent = active /\ active' = T + 1 /\ parent \in A \cup {0} /\ \A j \in A : j <= parent
        /\ r \in A \cup {T + 1} /\ \A j \in A \cup {T + 1} : r <= j
    BY <1>1, <1>2, <1>4, <1>6 DEF Nested
  <2>3. \A i \in A : i \in 1 .. T /\ i # T + 1
    BY <1>1, <1>2
  <2> HIDE DEF A
  <2>4. (active = 0 => Streams!AsyncOutputs = {})'
    BY <1>1, <2>2
  <2>5. (active # 0 => active \in Streams!AsyncOutputs /\ \A j \in Streams!AsyncOutputs : j <= active)'
    BY <1>1, <2>1, <2>2, <2>3
  <2>6. ASSUME NEW i \in A \cup {T + 1}
        PROVE  /\ streams'[i].parent \in A \cup {0}
               /\ \A j \in A \cup {T + 1} : j < i => j <= streams'[i].parent
               /\ streams'[i].report \in A \cup {T + 1}
               /\ \A j \in A \cup {T + 1} : streams'[i].report <= j
    <3>1. CASE i \in A
      <4>1. streams'[i] = streams[i] /\ i \in 1 .. T
        BY <2>3, <3>1
      <4>2. /\ streams[i].parent \in A \cup {0} /\ \A j \in A : j < i => j <= streams[i].parent
            /\ streams[i].report \in A /\ \A j \in A : streams[i].report <= j
        BY <1>4, <3>1 DEF Nested, A
      <4>3. ~(T + 1 < i) /\ streams[i].report <= T + 1
        BY <1>1, <4>1
      <4> QED BY <4>1, <4>2, <4>3
    <3>2. CASE i = T + 1
      <4>1. ~(T + 1 < T + 1)
        BY <1>1
      <4> QED BY <2>2, <3>2, <4>1
    <3> QED BY <3>1, <3>2
  <2>7. ASSUME NEW i \in 1 .. T + 1, i \notin A \cup {T + 1}
        PROVE  /\ streams'[i].parent = 0 => streams'[i].report = i
               /\ streams'[i].parent # 0 => streams'[i].report = streams'[i - 1].report
    <3>1. i \in 1 .. T /\ streams'[i] = streams[i]
      BY <1>5, <2>7
    <3>2. streams[i].parent # 0 => i - 1 \in 1 .. T
      BY <1>1, <3>1
    <3> QED BY <1>4, <2>7, <3>1, <3>2 DEF Nested, A
  <2>8. Streams!Top' = T + 1
    OBVIOUS
  <2> HIDE DEF T
  <2> QED BY <2>1, <2>4, <2>5, <2>6, <2>7, <2>8 DEF Nested
<1>7. CASE kind = "user"
  <2>1. Streams!AsyncOutputs' = A
    BY <1>1, <1>2, <1>3, <1>5, <1>7
  <2>2. active' = active /\ \/ parent = 0 /\ r = T + 1
                            \/ parent = T /\ parent # 0 /\ r = streams[T].report
    BY <1>7
  <2>3. \A i \in A : i \in 1 .. T /\ streams'[i] = streams[i]
    BY <1>2
  <2> HIDE DEF A
  <2>4. /\ (active = 0 => Streams!AsyncOutputs = {})'
        /\ (active # 0 => active \in Streams!AsyncOutputs /\ \A j \in Streams!AsyncOutputs : j <= active)'
    BY <1>4, <2>1, <2>2 DEF Nested, A
  <2>5. ASSUME NEW i \in A
        PROVE  /\ streams'[i].parent \in A \cup {0} /\ \A j \in A : j < i => j <= streams'[i].parent
               /\ streams'[i].report \in A /\ \A j \in A : streams'[i].report <= j
    BY <1>4, <2>3 DEF Nested, A
  <2>6. ASSUME NEW i \in 1 .. T + 1, i \notin A
        PROVE  /\ streams'[i].parent = 0 => streams'[i].report = i
               /\ streams'[i].parent # 0 => streams'[i].report = streams'[i - 1].report
    <3>1. CASE i \in 1 .. T
      <4>1. streams'[i] = streams[i]
        BY <3>1
      <4>2. streams[i].parent # 0 => i - 1 \in 1 .. T
        BY <1>1, <3>1
      <4> QED BY <1>4, <2>6, <3>1, <4>1, <4>2 DEF Nested, A
    <3>2. CASE i = T + 1
      <4>1. T # 0 => T \in 1 .. T /\ streams'[T] = streams[T]
        BY <1>1
      <4>2. i - 1 = T
        BY <1>1, <3>2
      <4> QED BY <2>2, <3>2, <4>1, <4>2
    <3> QED BY <1>5, <3>1, <3>2
  <2>7. Streams!Top' = T + 1
    OBVIOUS
  <2> HIDE DEF T
  <2> QED BY <2>1, <2>4, <2>5, <2>6, <2>7 DEF Nested
<1> QED BY <1>6, <1>7

\* Every output that is opened ...
LEMMA OpenInv ==
    ASSUME StreamsInv, Streams!OpenAsync \/ Streams!OpenUser \/ \E m \in Mimes : Streams!OpenMime(m)
    PROVE  StreamsInv'
<1> DEFINE T == Streams!Top
           A == Streams!AsyncOutputs
<1>1. /\ T \in Nat /\ active \in 0 .. T /\ Nested
      /\ \A i \in 1 .. T : /\ streams[i].kind \in {"async", "user"} /\ streams[i].report \in 1 .. i
                           /\ streams[i].report \in 1 .. T
  BY StreamTypes DEF StreamsInv
<1>2. A = {i \in 1 .. T : streams[i].kind = "async"}
  BY DEF Streams!AsyncOutputs
<1>3. \A i \in Nat : i \in 1 .. Streams!Top => i \in 1 .. Streams!Top + 1
  BY <1>1
<1>4. ASSUME NEW kind \in {"async", "user"}, NEW parent \in 0 .. T, NEW r \in 1 .. T + 1, NEW m \in Mimes,
             Streams!Opened(kind, parent, r, m), active' \in 0 .. T + 1,
             \/ /\ kind = "async" /\ parent = active /\ active' = T + 1
                /\ r = IF active = 0 THEN T + 1 ELSE streams[active].report
             \/ /\ kind = "user" /\ active' = active
                /\ \/ parent = 0 /\ r = T + 1
                   \/ parent = T /\ parent # 0 /\ r = streams[T].report
      PROVE  StreamsInv'
  <2>1. /\ Streams!TypeOK' /\ (\A i \in 1 .. Streams!Top : Good(reports[i]))'
        /\ Streams!Top' = Streams!Top + 1
        /\ \A i \in 1 .. Streams!Top : streams'[i] = streams[i]
        /\ streams'[Streams!Top + 1].kind = kind /\ streams'[Streams!Top + 1].parent = parent
        /\ streams'[Streams!Top + 1].report = r
    BY <1>4, OpenedIs
  <2>2. Nested'
    BY <1>4, <2>1, OpenNests
  <2> QED BY <2>1, <2>2 DEF StreamsInv
<1>5. T + 1 \in 0 .. T + 1 /\ active \in 0 .. T + 1 /\ T + 1 \in 1 .. T + 1 /\ 0 \in 0 .. T /\ T \in 0 .. T
  BY <1>1
<1>6. plain \in Mimes
  BY MCHttpAssumption DEF Streams!DebugStreamsAssumption
<1>7. CASE Streams!OpenAsync
  <2> DEFINE r == IF active = 0 THEN T + 1 ELSE streams[active].report
  <2>1. Streams!Opened("async", active, r, plain) /\ active' = T + 1
    BY <1>7 DEF Streams!OpenAsync
  <2>2. r \in 1 .. T + 1
    BY <1>1, <1>3, <1>5
  <2> QED BY <1>1, <1>4, <1>5, <1>6, <2>1, <2>2
<1>8. CASE Streams!OpenUser
  BY <1>1, <1>4, <1>5, <1>6, <1>8 DEF Streams!OpenUser
<1>9. ASSUME NEW m \in Mimes, Streams!OpenMime(m) PROVE StreamsInv'
  <2>1. T \in 1 .. T /\ T # 0
    BY <1>1, <1>9 DEF Streams!OpenMime
  <2>2. /\ streams[T].kind \in {"async", "user"} /\ streams[T].report \in 1 .. T + 1
    BY <1>1, <1>3, <2>1
  <2>3. CASE streams[T].kind = "async"
    <3>1. active = T
      BY <1>1, <1>2, <2>1, <2>3 DEF Nested
    <3>2. Streams!Opened("async", active, streams[active].report, m) /\ active' = T + 1
      BY <1>9, <2>3, <3>1 DEF Streams!OpenMime
    <3> QED BY <1>1, <1>4, <1>5, <2>1, <2>2, <3>1, <3>2
  <2>4. CASE streams[T].kind = "user"
    <3>1. Streams!Opened("user", T, streams[T].report, m) /\ active' = active
      BY <1>9, <2>4 DEF Streams!OpenMime
    <3> QED BY <1>1, <1>4, <1>5, <2>1, <2>2, <3>1
  <2> QED BY <2>2, <2>3, <2>4
<1> QED BY <1>7, <1>8, <1>9

\* ... what is written in the innermost ...
LEMMA WriteInv == ASSUME StreamsInv, Streams!Write PROVE StreamsInv'
<1> DEFINE T == Streams!Top
           s == streams[T]
           p == s.report
           q == Streams!Written(s, reports[p])
<1>1. /\ streams \in Seq(Streams!Stream) /\ reports \in Seq(Streams!Reports) /\ Len(reports) = T
      /\ T \in Nat /\ T = Len(streams) /\ active \in 0 .. T
  BY StreamTypes DEF StreamsInv
<1>2. T \in 1 .. T
  BY <1>1 DEF Streams!Write
<1>3. /\ s \in Streams!Stream /\ p \in 1 .. T /\ reports[p] \in Streams!Reports
      /\ s.output \in 1 .. Len(reports[p].outputs) /\ Good(reports[p])
  BY <1>2, StreamTypes DEF StreamsInv
<1>4. q \in Streams!Reports /\ Good(q) /\ q.outputs = reports[p].outputs
  BY <1>3, WrittenGood
<1>5. reports' = [reports EXCEPT ![p] = q] /\ UNCHANGED <<streams, active>>
  BY DEF Streams!Write
<1> HIDE DEF q
<1>6. /\ reports' \in Seq(Streams!Reports) /\ Len(reports') = T /\ reports'[p] = q
      /\ \A i \in 1 .. T : i # p => reports'[i] = reports[i]
  BY <1>1, <1>3, <1>4, <1>5
<1>7. Streams!Top' = T /\ Streams!AsyncOutputs' = Streams!AsyncOutputs
  BY <1>5 DEF Streams!Top, Streams!AsyncOutputs
<1>8. \A i \in 1 .. T : Good(reports'[i])
  BY <1>4, <1>6 DEF StreamsInv
<1>9. \A i \in 1 .. T : reports'[i].outputs = reports[i].outputs
  BY <1>4, <1>6
<1>10. ASSUME NEW i \in 1 .. T
       PROVE  /\ streams[i].parent \in 0 .. i - 1 /\ streams[i].report \in 1 .. i
              /\ streams[i].output \in DOMAIN reports'[streams[i].report].outputs
  <2>1. /\ streams[i].parent \in 0 .. i - 1 /\ streams[i].report \in 1 .. i
        /\ streams[i].output \in DOMAIN reports[streams[i].report].outputs
    BY <1>1 DEF StreamsInv, Streams!TypeOK
  <2>2. streams[i].report \in 1 .. T
    BY StreamTypes DEF StreamsInv
  <2> QED BY <1>9, <2>1, <2>2
<1>11. Streams!TypeOK'
  BY <1>1, <1>5, <1>6, <1>7, <1>10 DEF Streams!TypeOK
<1>12. Nested'
  BY <1>5, <1>7 DEF StreamsInv, Nested
<1> QED BY <1>7, <1>8, <1>11, <1>12 DEF StreamsInv

\* ... and its end keep the invariant.
LEMMA DestroyInv == ASSUME StreamsInv, Streams!DestroyStream PROVE StreamsInv'
<1> DEFINE T == Streams!Top
           A == Streams!AsyncOutputs
           s == streams[T]
<1>1. /\ streams \in Seq(Streams!Stream) /\ reports \in Seq(Streams!Reports) /\ Len(reports) = T
      /\ T \in Nat /\ T = Len(streams) /\ active \in 0 .. T
      /\ \A i \in 1 .. T : /\ streams[i].kind \in {"async", "user"} /\ streams[i].parent \in 0 .. i - 1
                           /\ streams[i].report \in 1 .. i
  BY StreamTypes DEF StreamsInv
<1>2. T \in 1 .. T /\ T - 1 \in Nat /\ T - 1 <= T
  BY <1>1 DEF Streams!DestroyStream
<1>3. /\ streams' = SubSeq(streams, 1, Len(streams) - 1)
      /\ reports' = SubSeq(reports, 1, Len(reports) - 1)
      /\ active' = IF s.kind = "async" THEN s.parent ELSE active
  BY DEF Streams!DestroyStream, Streams!Front, Streams!Reactivate
<1>4. /\ streams' \in Seq(Streams!Stream) /\ Len(streams') = T - 1
      /\ \A i \in 1 .. T - 1 : streams'[i] = streams[i]
  BY <1>1, <1>2, <1>3
<1>5. /\ reports' \in Seq(Streams!Reports) /\ Len(reports') = T - 1
      /\ \A i \in 1 .. T - 1 : reports'[i] = reports[i]
  BY <1>1, <1>2, <1>3
<1>6. Streams!Top' = T - 1 /\ \A i \in 1 .. T - 1 : i \in 1 .. T /\ i # T
  BY <1>2, <1>4 DEF Streams!Top
<1>7. A = {i \in 1 .. T : streams[i].kind = "async"}
  BY DEF Streams!AsyncOutputs
<1>8. Streams!AsyncOutputs' = {i \in 1 .. T - 1 : streams'[i].kind = "async"}
  BY <1>6 DEF Streams!AsyncOutputs
<1>9. Streams!AsyncOutputs' = A \ {T}
  <2>1. \A i \in 1 .. T : i \in 1 .. T - 1 \/ i = T
    BY <1>1, <1>2
  <2>2. \A i \in Streams!AsyncOutputs' : i \in A \ {T}
    BY <1>4, <1>6, <1>7, <1>8
  <2>3. \A i \in A \ {T} : i \in Streams!AsyncOutputs'
    BY <1>4, <1>7, <1>8, <2>1
  <2> QED BY <2>2, <2>3
<1>10. Nested
  BY DEF StreamsInv
<1>11. s.parent \in 0 .. T - 1 /\ (s.kind # "async" => T \notin A) /\ (s.kind = "async" => T \in A)
  BY <1>1, <1>2, <1>7
<1>12. \A i \in A : i \in 1 .. T /\ i <= T /\ streams[i].report \in A
  BY <1>1, <1>7, <1>10 DEF Nested, A
<1> HIDE DEF A
<1>13. s.kind = "async" => active = T /\ s.parent \in A \cup {0} /\ \A j \in A \ {T} : j <= s.parent
  BY <1>1, <1>2, <1>10, <1>11, <1>12 DEF Nested, A
<1>14. /\ active' = 0 => A \ {T} = {}
       /\ active' # 0 => active' \in A \ {T} /\ \A j \in A \ {T} : j <= active'
       /\ active' \in 0 .. T - 1
  <2>1. CASE s.kind = "async"
    <3>1. active' = s.parent /\ s.parent # T
      BY <1>1, <1>3, <1>11, <2>1
    <3>2. \A j \in A \ {T} : j \in 1 .. T /\ j <= s.parent
      BY <1>12, <1>13, <2>1
    <3>3. s.parent = 0 => A \ {T} = {}
      BY <1>1, <3>2
    <3> QED BY <1>11, <1>13, <2>1, <3>1, <3>2, <3>3
  <2>2. CASE s.kind # "async"
    <3>1. active' = active /\ A \ {T} = A
      BY <1>3, <1>11, <2>2
    <3>2. active # T
      BY <1>2, <1>10, <1>11, <2>2 DEF Nested, A
    <3>3. active \in 0 .. T - 1
      BY <1>1, <1>2, <3>2
    <3> QED BY <1>10, <3>1, <3>3 DEF Nested, A
  <2> QED BY <2>1, <2>2
<1>15. ASSUME NEW i \in A \ {T}
       PROVE  /\ streams'[i].parent \in (A \ {T}) \cup {0}
              /\ \A j \in A \ {T} : j < i => j <= streams'[i].parent
              /\ streams'[i].report \in A \ {T} /\ \A j \in A \ {T} : streams'[i].report <= j
  <2>1. i \in 1 .. T - 1 /\ streams'[i] = streams[i]
    BY <1>1, <1>4, <1>12
  <2>2. streams[i].parent \in 0 .. i - 1 /\ streams[i].report \in 1 .. i
    BY <1>1, <1>12
  <2>3. streams[i].parent # T /\ streams[i].report # T
    BY <1>1, <2>1, <2>2
  <2>4. /\ streams[i].parent \in A \cup {0} /\ \A j \in A : j < i => j <= streams[i].parent
        /\ streams[i].report \in A /\ \A j \in A : streams[i].report <= j
    BY <1>10 DEF Nested, A
  <2> QED BY <2>1, <2>3, <2>4
<1>16. ASSUME NEW i \in 1 .. T - 1, i \notin A \ {T}
       PROVE  /\ streams'[i].parent = 0 => streams'[i].report = i
              /\ streams'[i].parent # 0 => streams'[i].report = streams'[i - 1].report
  <2>1. i \in 1 .. T /\ i \notin A /\ streams'[i] = streams[i]
    BY <1>4, <1>6, <1>16
  <2>2. streams[i].parent # 0 => i - 1 \in 1 .. T - 1
    BY <1>1, <1>2, <2>1
  <2>3. streams[i].parent # 0 => streams'[i - 1] = streams[i - 1]
    BY <1>4, <2>2
  <2> QED BY <1>10, <2>1, <2>3 DEF Nested, A
<1>17. Nested'
  <2> HIDE DEF T
  <2> QED BY <1>6, <1>9, <1>14, <1>15, <1>16 DEF Nested
<1>18. \A i \in 1 .. T - 1 : Good(reports'[i])
  BY <1>5, <1>6 DEF StreamsInv
<1>19. ASSUME NEW i \in 1 .. T - 1
       PROVE  /\ streams'[i].parent \in 0 .. i - 1 /\ streams'[i].report \in 1 .. i
              /\ streams'[i].output \in DOMAIN reports'[streams'[i].report].outputs
  <2>1. i \in 1 .. T /\ streams'[i] = streams[i]
    BY <1>4, <1>6
  <2>2. /\ streams[i].parent \in 0 .. i - 1 /\ streams[i].report \in 1 .. i
        /\ streams[i].output \in DOMAIN reports[streams[i].report].outputs
    BY <2>1 DEF StreamsInv, Streams!TypeOK
  <2>3. streams[i].report \in 1 .. T - 1
    BY <1>1, <2>2
  <2> QED BY <1>5, <2>1, <2>2, <2>3
<1>20. Streams!TypeOK'
  BY <1>4, <1>5, <1>6, <1>14, <1>19 DEF Streams!TypeOK
<1> QED BY <1>6, <1>17, <1>18, <1>20 DEF StreamsInv

\* What the invariant says of the innermost and outermost async output.
LEMMA StreamsInvImplies == StreamsInv => Streams!Consistent
<1> SUFFICES ASSUME StreamsInv PROVE Streams!Consistent
  OBVIOUS
<1> DEFINE A == Streams!AsyncOutputs
<1>1. /\ Streams!Top \in Nat /\ \A i \in 1 .. Streams!Top : reports[i] \in Streams!Reports
  BY StreamTypes DEF StreamsInv
<1>2. A \subseteq Int
  BY <1>1 DEF Streams!AsyncOutputs
<1>3. Streams!ReportsWhole
  BY <1>1, GoodIsWhole DEF StreamsInv, Streams!ReportsWhole
<1>4. Nested
  BY DEF StreamsInv
<1>5. active = IF A = {} THEN 0 ELSE Streams!Max(A)
  <2>1. CASE A = {}
    BY <1>4, <2>1 DEF Nested
  <2>2. CASE A # {}
    <3>1. active \in A /\ \A j \in A : active >= j
      BY <1>2, <1>4, <2>2 DEF Nested
    <3>2. \A x \in A : (\A j \in A : x >= j) => x = active
      BY <1>2, <3>1
    <3>3. Streams!Max(A) \in A /\ \A j \in A : Streams!Max(A) >= j
      BY <3>1 DEF Streams!Max
    <3> QED BY <2>2, <3>2, <3>3
  <2> QED BY <2>1, <2>2
<1>6. ASSUME NEW i \in A PROVE streams[i].report = Streams!Min(A)
  <2>1. streams[i].report \in A /\ \A j \in A : streams[i].report <= j
    BY <1>4 DEF Nested
  <2>2. \A x \in A : (\A j \in A : x <= j) => x = streams[i].report
    <3> HIDE DEF A
    <3>1. \A x \in Int, y \in Int : x <= y /\ y <= x => x = y
      OBVIOUS
    <3> QED BY <1>2, <2>1, <3>1
  <2>3. Streams!Min(A) \in A /\ \A j \in A : Streams!Min(A) <= j
    BY <2>1 DEF Streams!Min
  <2> QED BY <2>2, <2>3
<1>7. Streams!StreamsNest
  BY <1>4, <1>5, <1>6 DEF Nested, Streams!StreamsNest
<1> QED BY <1>3, <1>7 DEF StreamsInv, Streams!Consistent

\* However outputs are opened in each other, and end: text goes to the report it belongs
\* to, in the type it was written in (AllocateStream, DestroyStream, xsputn).
THEOREM StreamsStayConsistent == Streams!Spec => []Streams!Consistent
<1>1. Streams!Init => StreamsInv
  <2> SUFFICES ASSUME Streams!Init PROVE StreamsInv
    OBVIOUS
  <2> USE DEF Streams!Init
  <2>1. Streams!Top = 0 /\ 1 .. Streams!Top = {} /\ Streams!AsyncOutputs = {}
    BY DEF Streams!Top, Streams!AsyncOutputs
  <2>2. Streams!TypeOK
    BY <2>1 DEF Streams!TypeOK
  <2>3. Nested
    BY <2>1 DEF Nested
  <2> QED BY <2>1, <2>2, <2>3 DEF StreamsInv
<1>2. ASSUME StreamsInv, [Streams!Next]_(Streams!vars) PROVE StreamsInv'
  <2>1. CASE UNCHANGED Streams!vars
    <3> USE <2>1 DEF Streams!vars
    <3>1. Streams!Top' = Streams!Top /\ Streams!AsyncOutputs' = Streams!AsyncOutputs
      BY DEF Streams!Top, Streams!AsyncOutputs
    <3>2. Streams!TypeOK' /\ Nested'
      BY <1>2, <3>1 DEF StreamsInv, Streams!TypeOK, Nested
    <3> QED BY <1>2, <3>1, <3>2 DEF StreamsInv
  <2>2. CASE Streams!Next
    BY <1>2, <2>2, OpenInv, WriteInv, DestroyInv DEF Streams!Next
  <2> QED BY <1>2, <2>1, <2>2
<1> QED BY <1>1, <1>2, StreamsInvImplies, PTL DEF Streams!Spec

-----------------------------------------------------------------------------
\* Each of the four in MCHttp.

LEMMA BehavesAsServer == MCSpec => Http!Spec
<1>1. MCInit => Http!Init
  BY DEF MCInit
<1>2. [MCNext]_allVars => [Http!Next]_(Http!vars)
  BY DEF MCNext, Client, Serving, Printing, Showing, allVars, server, Http!vars, Http!requests
<1> QED BY <1>1, <1>2, PTL DEF MCSpec, Http!Spec

LEMMA BehavesAsStreams == MCSpec => Streams!Spec
<1>1. MCInit => Streams!Init
  BY DEF MCInit
<1>2. [MCNext]_allVars => [Streams!Next]_(Streams!vars)
  BY DEF MCNext, Client, Serving, Printing, Showing, allVars, output, Streams!vars
<1> QED BY <1>1, <1>2, PTL DEF MCSpec, Streams!Spec

LEMMA BehavesAsSite == MCSpec => Site!Spec
<1>1. MCInit => Site!Init
  BY DEF MCInit
<1>2. [MCNext]_allVars => [Site!Next]_(Site!vars)
  BY DEF MCNext, Client, Serving, Printing, Showing, allVars, website, Site!vars, Site!control,
     Site!history
<1> QED BY <1>1, <1>2, PTL DEF MCSpec, Site!Spec

\* Whichever of the four runs, the server, its owners and connections agree ...
THEOREM BoundServerStaysConsistent == MCSpec => []ServerConsistent
<1>1. Http!Consistent => ServerConsistent
  BY DEF ServerConsistent
<1> QED BY <1>1, BehavesAsServer, ServerStaysConsistent, PTL

\* ... a request reaches the handler with the longest prefix ...
THEOREM BoundLongestPrefixFirst == MCSpec => LongestPrefixFirst
BY BehavesAsServer, LongestPrefixAnswers, PTL DEF LongestPrefixFirst

\* ... and debug output reaches whom it is for.
THEOREM DebugStaysConsistent == MCSpec => []DebugConsistent
<1>1. Streams!Consistent /\ Site!Consistent => DebugConsistent
  BY DEF DebugConsistent
<1> QED BY <1>1, BehavesAsStreams, BehavesAsSite, StreamsStayConsistent, SiteStaysConsistent, PTL
=============================================================================
