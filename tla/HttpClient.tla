------------------------------ MODULE HttpClient ------------------------------
(***************************************************************************)
(* HttpClient and its ClientRequests.  A ClientRequest is a handle: the    *)
(* request behind it lives as long as the owner or the client has one.     *)
(* Its handlers run on that request, so it keeps a handle to itself from   *)
(* Send to the end of Complete, which runs once: after the resolver, the   *)
(* connect, the write or the read has failed, or all four succeeded.  The  *)
(* client counts its requests in a set and, once it is told to stop, waits *)
(* until the set is empty; nothing cancels a request.                      *)
(*                                                                         *)
(* One action is one handler of the proactor; the owner's callback is a    *)
(* step of its own, in which the owner may send or drop other requests.    *)
(***************************************************************************)
EXTENDS Naturals

CONSTANTS
    Request,    \* the requests the owner may make
    Port,       \* the port number in each request's URL
    NoPort,     \* ... when DecodeUrl refuses the URL
    None        \* no request

PortNumber == 0 .. 65535

ASSUME HttpClientAssumption ==
    /\ Port \in [Request -> PortNumber \cup {NoPort}]
    /\ NoPort \notin Nat /\ None \notin Request

VARIABLES
    level,      \* the client's local run level
    stopping,   \* RequestStop has been called
    check,      \* m_check_stopped_work is scheduled
    current,    \* m_current_requests
    at,         \* what each request waits for (m_progress)
    endpoint,   \* the port each request connects to
    result,     \* what the callback of each request was given
    stored,     \* the requests whose m_stored_ref is set
    handles,    \* the requests the owner has a handle to
    busy        \* the request whose m_complete_callback is running

client == <<level, stopping, check>>
vars == <<client, current, at, endpoint, result, stored, handles, busy>>

Init ==
    /\ level = "RUNNING" /\ stopping = FALSE /\ check = FALSE
    /\ current = {}
    /\ at = [r \in Request |-> "constructed"]
    /\ endpoint = [r \in Request |-> 0]
    /\ result = [r \in Request |-> "none"]
    /\ stored = {} /\ handles = Request
    /\ busy = None

-----------------------------------------------------------------------------
\* Send, in a handler of the owner's or in a callback: AddNewRequest asserts
\* that the client is RUNNING.  A URL that can not be decoded posts Complete.
Send(r) ==
    /\ level = "RUNNING" /\ r \in handles /\ at[r] = "constructed"
    /\ at' = [at EXCEPT ![r] = IF Port[r] = NoPort THEN "refused" ELSE "resolve"]
    /\ current' = current \cup {r} /\ stored' = stored \cup {r}
    /\ UNCHANGED <<client, endpoint, result, handles, busy>>

\* The owner lets go of a request, sent or not.
Drop(r) ==
    /\ r \in handles /\ handles' = handles \ {r}
    /\ UNCHANGED <<client, current, at, endpoint, result, stored, busy>>

-----------------------------------------------------------------------------
\* The handlers of the four operations when they succeed, but for the last.

\* The resolver is asked for the host and no service, so that its results have
\* port 0, and these are what HandleResolveComplete connects to.
HandleResolveComplete(r) ==
    /\ busy = None /\ at[r] = "resolve"
    /\ at' = [at EXCEPT ![r] = "connect"]
    /\ endpoint' = [endpoint EXCEPT ![r] = 0]
    /\ UNCHANGED <<client, current, result, stored, handles, busy>>

HandleConnectComplete(r) ==
    /\ busy = None /\ at[r] = "connect"
    /\ at' = [at EXCEPT ![r] = "write"]
    /\ UNCHANGED <<client, current, endpoint, result, stored, handles, busy>>

HandleRequestWritten(r) ==
    /\ busy = None /\ at[r] = "write"
    /\ at' = [at EXCEPT ![r] = "read"]
    /\ UNCHANGED <<client, current, endpoint, result, stored, handles, busy>>

\* Mutant: a failed connect is reported, and the request written all the same.
CompleteGoingOn(r) ==
    /\ busy = None /\ at[r] \in {"refused", "resolve", "connect", "write", "read"}
    /\ \/ result' = [result EXCEPT ![r] = "error"]
       \/ at[r] = "read" /\ result' = [result EXCEPT ![r] = "success"]
    /\ at' = [at EXCEPT ![r] = IF @ = "connect" THEN "write" ELSE "completed"] /\ busy' = r
    /\ UNCHANGED <<client, current, endpoint, stored, handles>>

\* Complete up to the callback, with success or with the error of any of the
\* four, or of the URL.
Complete(r) ==
    /\ busy = None /\ at[r] \in {"refused", "resolve", "connect", "write", "read"}
    /\ \/ result' = [result EXCEPT ![r] = "error"]
       \/ at[r] = "read" /\ result' = [result EXCEPT ![r] = "success"]
    /\ at' = [at EXCEPT ![r] = "completed"] /\ busy' = r
    /\ UNCHANGED <<client, current, endpoint, stored, handles>>

\* Mutant: the last request of a client that stops leaves without a word.
CallbackReturnsSilently ==
    /\ busy # None /\ busy' = None
    /\ current' = current \ {busy} /\ stored' = stored \ {busy}
    /\ UNCHANGED <<client, at, endpoint, result, handles>>

\* The rest of Complete: RemoveCompletedRequest, then the handle to itself goes.
CallbackReturns ==
    /\ busy # None /\ busy' = None
    /\ current' = current \ {busy} /\ stored' = stored \ {busy}
    /\ check' = (check \/ level = "STOPPING")
    /\ UNCHANGED <<level, stopping, at, endpoint, result, handles>>

-----------------------------------------------------------------------------
RequestStop ==
    /\ ~stopping /\ stopping' = TRUE
    /\ UNCHANGED <<level, check, current, at, endpoint, result, stored, handles, busy>>

HandleStopping ==
    /\ busy = None /\ stopping /\ level = "RUNNING"
    /\ level' = "STOPPING" /\ check' = TRUE
    /\ UNCHANGED <<stopping, current, at, endpoint, result, stored, handles, busy>>

CheckStopped ==
    /\ busy = None /\ check /\ check' = FALSE
    /\ level' = IF level = "STOPPING" /\ current = {} THEN "STOPPED" ELSE level
    /\ UNCHANGED <<stopping, current, at, endpoint, result, stored, handles, busy>>

Stopped == level = "STOPPED" /\ UNCHANGED vars

Operate(r) ==
    HandleResolveComplete(r) \/ HandleConnectComplete(r) \/ HandleRequestWritten(r) \/ Complete(r)

Next ==
    \/ \E r \in Request : Send(r) \/ Drop(r) \/ Operate(r)
    \/ CallbackReturns \/ RequestStop \/ HandleStopping \/ CheckStopped \/ Stopped

Spec == Init /\ [][Next]_vars

\* The proactor runs its handlers, the callbacks return, and every operation of
\* the network ends: the peer answers or the connection fails.
FairSpec ==
    /\ Spec
    /\ \A r \in Request : WF_vars(Operate(r))
    /\ WF_vars(CallbackReturns) /\ WF_vars(HandleStopping) /\ WF_vars(CheckStopped)

-----------------------------------------------------------------------------
\* The variables have their types.
TypeOK ==
    /\ level \in {"RUNNING", "STOPPING", "STOPPED"}
    /\ stopping \in BOOLEAN /\ check \in BOOLEAN
    /\ current \subseteq Request /\ stored \subseteq Request /\ handles \subseteq Request
    /\ at \in [Request -> {"constructed", "refused", "resolve", "connect", "write", "read", "completed"}]
    /\ endpoint \in [Request -> PortNumber]
    /\ result \in [Request -> {"none", "success", "error"}]
    /\ busy \in Request \cup {None}

\* The requests a handler will still run on, or whose callback is running.
UnderWay == {r \in Request : at[r] \notin {"constructed", "completed"}} \cup ({busy} \ {None})

\* The assertions of Send, Complete, RemoveCompletedRequest and the destructors:
\* the client's set and the handles the requests keep to themselves are exactly
\* what is under way, whatever the owner has dropped, and a stopped client, which
\* its owner may destroy, has none and will not check again.
StoredWhileUnderWay ==
    /\ current = UnderWay /\ stored = UnderWay
    /\ level = "STOPPED" => UnderWay = {} /\ ~check
    /\ level = "STOPPING" /\ UnderWay = {} => check

\* A request has a result when its callback has been called, and not before.
OneResult == \A r \in Request : result[r] # "none" <=> at[r] = "completed"

\* What the client, its requests and the network know of each other agrees.
Consistent == TypeOK /\ StoredWhileUnderWay /\ OneResult

\* The owner sees the promise of Requests.
Owner == INSTANCE Requests WITH sent <- {r \in Request : at[r] # "constructed"}

ImplementsRequests == Owner!Promise

\* Its safety part.
KeepsPromise == Owner!Safety

\* A client that is told to stop stops.
StopCompletes == stopping ~> level = "STOPPED"

\* "Now, see if the host has a port number specified" (DecodeUrl): a request
\* connects to the port its URL names.
ConnectsToUrl == \A r \in Request : at[r] \in {"connect", "write", "read"} => endpoint[r] = Port[r]
=============================================================================
