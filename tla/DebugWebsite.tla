----------------------------- MODULE DebugWebsite ------------------------------
(***************************************************************************)
(* The debug web site and the page it serves over a web socket.  It sends  *)
(* the debug reports to a page that has asked for them, and switches on    *)
(* the DebugEnables whose path ends with a name the page has asked for.    *)
(* It hears of a socket that is accepted or fails, and not of one it       *)
(* closes itself.  A page that arrives while another is there takes its    *)
(* place.                                                                  *)
(***************************************************************************)
CONSTANTS
    Names,      \* what a page may ask to be enabled
    Path,       \* the paths of the DebugEnables
    EndsWith    \* the names each path ends with

DebugWebsiteAssumption == EndsWith \in [Path -> SUBSET Names]

VARIABLES
    running,    \* the web site is RUNNING
    socket,     \* m_web_socket: "none", "accepting" or "open"
    requested,  \* m_output_requested
    enables,    \* m_active_debug_enables, and the provider's m_debug_enables
    exist,      \* the DebugEnables there are
    enabled,    \* those with m_enabled
    asked,      \* history: what the page has asked for last
    unasked     \* history: it has been sent a report it had not asked for

control == <<enables, enabled>>
history == <<asked, unasked>>
vars == <<running, socket, requested, control, exist, history>>

Nothing == [output |-> FALSE, names |-> {}]

Init ==
    /\ running = TRUE /\ socket = "none" /\ requested = FALSE
    /\ enables = {} /\ exist = {} /\ enabled = {}
    /\ asked = Nothing /\ unasked = FALSE

-----------------------------------------------------------------------------
\* UpdateOverallDebugEnables; the console's target has none.  A change is told to
\* every DebugEnable there is.
UpdateDebugEnables(names) ==
    /\ enables' = names
    /\ enabled' = IF names = enables THEN enabled
                  ELSE {d \in exist : EndsWith[d] \cap names # {}}

HandleWebSocketState == requested' = FALSE /\ UpdateDebugEnables({})

\* Another page.
HandleWebSocketRequest ==
    /\ running
    /\ IF socket = "open" THEN HandleWebSocketState ELSE UNCHANGED <<requested, control>>
    /\ socket' = "accepting" /\ asked' = Nothing /\ unasked' = FALSE
    /\ UNCHANGED <<running, exist>>

\* Mutant: the site takes back what was asked for only when a socket fails.
AcceptedQuietly ==
    /\ socket = "accepting" /\ socket' = "open"
    /\ UNCHANGED <<running, requested, control, exist, history>>

\* OnAccept.
Accepted ==
    /\ socket = "accepting" /\ socket' = "open"
    /\ HandleWebSocketState
    /\ UNCHANGED <<running, exist, history>>

\* ReportError: the accept, a read or a write has failed.
Fails ==
    /\ socket # "none" /\ socket' = "none"
    /\ HandleWebSocketState
    /\ UNCHANGED <<running, exist, history>>

\* HandleWebSocketMessageEnableRequest
EnableRequest(on, names) ==
    /\ socket = "open"
    /\ requested' = on /\ UpdateDebugEnables(names)
    /\ asked' = [output |-> on, names |-> names]
    /\ UNCHANGED <<running, socket, exist, unasked>>

\* A message that is binary, or that HandleWebSocketMessage can not decode: the socket
\* is closed, and nothing is taken back.
Misunderstood ==
    /\ socket = "open" /\ socket' = "none"
    /\ UNCHANGED <<running, requested, control, exist, history>>

\* OutputToTarget, with a report that is complete.
OutputToTarget ==
    /\ running /\ requested /\ socket = "open"
    /\ unasked' = (unasked \/ ~asked.output)
    /\ UNCHANGED <<running, socket, requested, control, exist, asked>>

HandleStopping ==
    /\ running /\ running' = FALSE /\ socket' = "none"
    /\ UNCHANGED <<requested, control, exist, history>>

\* A resource that has a DebugEnable comes or goes.
Construct(d) ==
    /\ d \notin exist /\ exist' = exist \cup {d}
    /\ UNCHANGED <<running, socket, requested, control, history>>

Destroy(d) ==
    /\ d \in exist /\ exist' = exist \ {d} /\ enabled' = enabled \ {d}
    /\ UNCHANGED <<running, socket, requested, enables, history>>

Next ==
    \/ HandleWebSocketRequest \/ Accepted \/ Fails \/ Misunderstood
    \/ OutputToTarget \/ HandleStopping
    \/ \E on \in BOOLEAN, names \in SUBSET Names : EnableRequest(on, names)
    \/ \E d \in Path : Construct(d) \/ Destroy(d)

Spec == Init /\ [][Next]_vars

-----------------------------------------------------------------------------
\* The variables have their types.
TypeOK ==
    /\ running \in BOOLEAN /\ socket \in {"none", "accepting", "open"} /\ requested \in BOOLEAN
    /\ enables \subseteq Names /\ exist \subseteq Path /\ enabled \subseteq exist
    /\ asked \in [output : BOOLEAN, names : SUBSET Names] /\ unasked \in BOOLEAN

\* Whatever the pages before it have asked for, and however they have ended, a page is
\* sent no report it has not asked for, and while it is there the DebugEnables that
\* are on are among those it has named.
OnlyAsked ==
    /\ ~unasked
    /\ socket = "open" => requested = asked.output /\ enables = asked.names
    /\ enabled \subseteq {d \in exist : EndsWith[d] \cap enables # {}}

Consistent == TypeOK /\ OnlyAsked
=============================================================================
