-------------------------------- MODULE MCHttp --------------------------------
(***************************************************************************)
(* The two ends of BBoxHttp: a client with three requests, one of them     *)
(* with a URL that is refused, or a server with one listener, two          *)
(* connections and the debug website's two handlers, one of whose prefixes *)
(* begins the other; or what that website shows, the debug output of a     *)
(* thread with up to three outputs open, and the website's page, with two  *)
(* names for three DebugEnables.  The variables of the other ends keep     *)
(* their initial values.                                                   *)
(***************************************************************************)
EXTENDS HttpClient, Sequences

CONSTANTS bad, Listeners, Connections, Handlers, Prefix, Resources, Server, Nobody, Mimes, plain, MaxDepth, MaxOutputs, MaxText,
          Names, Path, EndsWith

VARIABLES end, slevel, sstopping, owner, handlers, listener, conn, request, by, ws, work, aborted,
          streams, active, reports,
          running, socket, requested, enables, exist, enabled, asked, unasked

Http == INSTANCE HttpServer WITH level <- slevel, stopping <- sstopping

Streams == INSTANCE DebugStreams

Site == INSTANCE DebugWebsite

ASSUME MCHttpAssumption ==
    /\ Http!HttpServerAssumption
    /\ Streams!DebugStreamsAssumption /\ Site!DebugWebsiteAssumption

MCPort == [r \in Request |-> IF r = bad THEN NoPort ELSE 80]

\* "/debug" and "/debug/ws"
MCPrefix == [h \in Handlers |-> IF h = "resources" THEN <<1>> ELSE <<1, 2>>]

\* "/debug/ws/x", "/debug/index.html" and "/"
MCResources == {<<1, 2, 3>>, <<1, 3>>, <<3>>}

\* The paths of three DebugEnables, and the names each ends with.
MCPath == {"udp/debug", "ssdp/debug", "ssdp/data"}
MCEndsWith == [d \in MCPath |->
    CASE d = "udp/debug" -> {"debug", "udp/debug"} [] d = "ssdp/debug" -> {"debug"} [] OTHER -> {}]

server == <<slevel, sstopping, owner, handlers, listener, conn, request, by, ws, work, aborted>>
output == <<streams, active, reports>>
website == <<running, socket, requested, enables, exist, enabled, asked, unasked>>
allVars == <<end, vars, server, output, website>>

Client(A) == end = "client" /\ A /\ UNCHANGED <<end, server, output, website>>
Serving(A) == end = "server" /\ A /\ UNCHANGED <<end, vars, output, website>>
Printing(A) == end = "streams" /\ A /\ UNCHANGED <<end, vars, server, website>>
Showing(A) == end = "site" /\ A /\ UNCHANGED <<end, vars, server, output>>

MCInit ==
    /\ end \in {"client", "server", "streams", "site"}
    /\ Init /\ Http!Init /\ Streams!Init /\ Site!Init

MCNext == Client(Next) \/ Serving(Http!Next) \/ Printing(Streams!Next) \/ Showing(Site!Next)

\* The fairness each end assumes.
MCSpec ==
    /\ MCInit /\ [][MCNext]_allVars
    /\ \A r \in Request : WF_allVars(Client(Operate(r)))
    /\ WF_allVars(Client(CallbackReturns)) /\ WF_allVars(Client(HandleStopping))
    /\ WF_allVars(Client(CheckStopped))
    /\ WF_allVars(Serving(Http!HandleStarting)) /\ WF_allVars(Serving(Http!HandleStopping))
    /\ WF_allVars(Serving(Http!CheckShutdown))
    /\ \A h \in Handlers : WF_allVars(Serving(Http!Login(h))) /\ WF_allVars(Serving(Http!Logout(h)))
    /\ \A l \in Listeners :
          WF_allVars(Serving(Http!AcceptStopped(l))) /\ WF_allVars(Serving(Http!EraseListener(l)))
    /\ \A c \in Connections :
          /\ SF_allVars(Serving(Http!ConnectionClosed(c))) /\ WF_allVars(Serving(Http!WebSocketClosed(c)))
          /\ WF_allVars(Serving(Http!EraseConnection(c))) /\ WF_allVars(Serving(Http!EraseSocket(c)))

-----------------------------------------------------------------------------
\* HttpServer's Consistent: listeners, connections, handlers and owners agree.
ServerConsistent == Http!Consistent

\* The debug output goes to the report it belongs to, in the type it was written in,
\* and the page gets the reports, and switches on the output, it has asked for.
DebugConsistent ==
    (end = "streams" => Streams!Consistent) /\ (end = "site" => Site!Consistent)

\* A request is answered by the handler with the longest prefix that fits.
LongestPrefixFirst == Http!LongestPrefixFirst

\* A client or server that is told to stop stops; a server unless the assertion
\* about a listener that accepts nothing stops it.
BothStop == StopCompletes /\ Http!StopCompletes
=============================================================================
