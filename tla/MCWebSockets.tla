---------------------------- MODULE MCWebSockets ----------------------------
(***************************************************************************)
(* One end of a web socket, a client or a connection of a server; or the   *)
(* client of an LED sign, which keeps a connection of its own.  The        *)
(* variables of the others keep their initial values.                      *)
(***************************************************************************)
EXTENDS WebSocketClient

CONSTANT MaxReceived

VARIABLES end, sop, outstanding, accepted, closeRequested, closeReported,
          writePending, pendingWrites, owned, linked, deleted, busy,
          sheard, received, sent, written,
          flevel, stopping, render, reconnecting, framed, ops, fop, result, open, pending,
          writing, lights, lost

Connection == INSTANCE ServerWebSocket WITH op <- sop, heard <- sheard

Sign == INSTANCE FadecandyClient
    WITH level <- flevel, timer <- reconnecting, op <- fop, server <- lights

server == <<sop, outstanding, accepted, closeRequested, closeReported,
            writePending, pendingWrites, owned, linked, deleted, busy,
            sheard, received, sent, written>>
sign == <<flevel, stopping, render, reconnecting, framed, ops, fop, result, open, pending,
          writing, lights, lost>>
allVars == <<end, vars, server, sign>>

Client(A) == end = "client" /\ A /\ UNCHANGED <<end, server, sign>>
Server(A) == end = "server" /\ A /\ UNCHANGED <<end, vars, sign>>
Leds(A) == end = "sign" /\ A /\ UNCHANGED <<end, vars, server>>

MCInit == end \in {"client", "server", "sign"} /\ Init /\ Connection!Init /\ Sign!Init

MCNext == Client(Next) \/ Server(Connection!Next) \/ Leds(Sign!Next)

\* The fairness each end assumes.
MCSpec ==
    /\ MCInit /\ [][MCNext]_allVars
    /\ \A o \in Operations :
          /\ WF_allVars(Client(Fail(o) \/ Succeed(o)))
          /\ WF_allVars(Server(Connection!Complete(o)))
    /\ SF_allVars(Client(Fail("read"))) /\ SF_allVars(Client(Fail("write")))
    /\ WF_allVars(Client(HandleRetryTimerExpired)) /\ WF_allVars(Client(HandleOpening))
    /\ WF_allVars(Client(HandleRead)) /\ WF_allVars(Client(HandleWritten))
    /\ WF_allVars(Server(Connection!OnAccept)) /\ WF_allVars(Server(Connection!OnRead))
    /\ WF_allVars(Server(Connection!OnWrite)) /\ WF_allVars(Server(Connection!Return))
    /\ WF_allVars(Server(Connection!Delete))
    /\ WF_allVars(Leds(Sign!HandleStarting)) /\ WF_allVars(Leds(Sign!RenderStarting))
    /\ WF_allVars(Leds(Sign!RenderStopping)) /\ WF_allVars(Leds(Sign!UpdateLeds))
    /\ WF_allVars(Leds(Sign!ReconnectTimeout))
    /\ WF_allVars(Leds(\E r \in {"ok", "error"} : Sign!Complete(r)))
    /\ SF_allVars(Leds(fop = "connect" /\ Sign!Complete("ok")))
    /\ WF_allVars(Leds(Sign!ConnectComplete)) /\ WF_allVars(Leds(Sign!WriteComplete))
    /\ WF_allVars(Leds(Sign!HandleStopping))

-----------------------------------------------------------------------------
\* ServerWebSocket's Consistent: its counters, flags and the handle agree.
\* FadecandyClient's: the client, asio and the frames agree.
OthersConsistent == Connection!Consistent /\ (end = "sign" => Sign!Consistent)

\* A server's connection is the Channel its owner sees.
ServerImplementsChannel == Connection!ImplementsChannel

\* A client that runs keeps trying, and one that is told to stop stops, both unless an
\* error that is the last of two is lost; a sign's client does so without exception.
ClientProgress ==
    /\ KeepsTrying /\ StopCompletes
    /\ end = "sign" => Sign!ConnectsAndStops
=============================================================================
